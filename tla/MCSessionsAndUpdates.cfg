SPECIFICATION BothSpec
CONSTANTS
    t1 = t1
    a1 = a1
    a2 = a2
    c1 = c1
    c2 = c2
    d1 = d1
    u1 = u1
    u2 = u2
    Teams = {t1}
    Agents = {a1, a2}
    Creds = {c1, c2, d1}
    Users = {u1, u2}
    UserOf <- MCUserOf
    NoCred = NoCred
    MaxRevision = 3
    MaxOrdinal = 2
    MaxGen = 3
    MaxTerm = 3
    MaxSupersededKeys = 2
    MaxSteps = 3
    MaxEdits = 3
    MaxCuts = 1
\* The bounds let every counter run out, and the last update be recorded.
CHECK_DEADLOCK FALSE
INVARIANTS SessionsInv UpdateInv
PROPERTIES
    Fenced ImplementsOffice
    ImplementsPromise OvertakenIsSettled RecoveryFreesTheWorker
