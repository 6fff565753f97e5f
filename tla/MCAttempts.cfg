SPECIFICATION CrewSpec
CONSTANTS
    t1 = t1
    t2 = t2
    a1 = a1
    a2 = a2
    c1 = c1
    c2 = c2
    d1 = d1
    u1 = u1
    u2 = u2
    k1 = k1
    k2 = k2
    Teams = {t1, t2}
    Agents = {a1, a2}
    Creds = {c1, c2}
    Users = {u1, u2}
    UserOf <- MCUserOf
    NoCred = NoCred
    NoMember = NoMember
    Tasks = {k1, k2}
    MaxAttempts = 2
    MaxResults = 2
    MaxRevision = 2
    MaxOrdinal = 2
    MaxGen = 2
    MaxTerm = 3
\* The bounds let every counter run out.
CHECK_DEADLOCK FALSE
INVARIANTS WorkInv AgreesWithAimem DoneIsReviewed StopHolds
PROPERTY ImplementsCapacity
