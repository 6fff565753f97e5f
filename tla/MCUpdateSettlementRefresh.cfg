SPECIFICATION Spec
CONSTANTS
    MaxSupersededKeys = 1
    MaxSteps = 2
    MaxEdits = 2
    MaxCuts = 0
CHECK_DEADLOCK FALSE
INVARIANT RefreshedBeforeNewRequest
