SPECIFICATION FairSpec
CONSTANTS
    run = run
    leave = leave
    Launchers = {run}
    Leavers = {leave}
    EntryRounds = 2
    ProofRenewals = 1
    MaxChallenges = 6
    MaxMoves = 1
    MaxFaults = 2
PROPERTIES OwnEntryIsAnswered SessionIsKept
