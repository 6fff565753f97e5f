SPECIFICATION FairBaseSpec
CONSTANT MaxSteps = 2
\* A pull request that moves no more, or is no longer watched, is at rest.
CHECK_DEADLOCK FALSE
PROPERTY FailedCheckIsTold
