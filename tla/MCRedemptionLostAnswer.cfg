SPECIFICATION Spec
CONSTANTS
    h1 = h1
    h2 = h2
    Homes = {h1}
    Admitted = {h1}
    MaxAttempts = 2
    MaxBegins = 1
    MaxProofs = 1
    MaxRetries = 1
    MaxReceipts = 8
    MaxKeys = 8
    Flaky = {h1}
    MaxFaults = 1
CHECK_DEADLOCK FALSE
INVARIANT LostAnswerIsRecovered
