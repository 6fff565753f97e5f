SPECIFICATION FairBaseSpec
CONSTANT MaxSteps = 3
\* A pull request that moves no more, or is no longer watched, is at rest.
CHECK_DEADLOCK FALSE
INVARIANTS CutIsCompletable EffectsOnce
PROPERTIES FiredOnce NeedIsTold MergeIsFollowed
