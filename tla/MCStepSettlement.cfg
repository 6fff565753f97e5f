SPECIFICATION FairSpec
CONSTANTS
    ProofLifetime = 1
    NoneFinalAfter = 2
    CommitLag = 1
    ReadBudget = 1
    MaxProofs = 2
    MaxGen = 3
    MaxCuts = 1
    LastIssue = 1
    MaxTime = 5
INVARIANTS OutcomeIsTrue OneLiveProof SettlementInv
PROPERTIES ReconcilerCutsNobodyOff CommitIsRecorded ImplementsPromise
