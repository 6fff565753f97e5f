SPECIFICATION Spec
CONSTANTS
    DailyBudget = 3
    AttemptBudget = 2
    MaxContinuations = 2
    StallTurns = 2
    HandoffStallTurns = 2
    MaxUnreported = 1
    MaxTurns = 3
    MaxMoves = 1
    MaxFaults = 1
INVARIANTS
    SpendIsKept
    AdmittedWithinBudget
    HoldIsShown
PROPERTIES
    HandoffNeverGoesBack
    WorkGoesOn
CHECK_DEADLOCK FALSE
