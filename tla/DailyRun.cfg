SPECIFICATION FairSpec
CONSTANTS
    Jobs = {j1}
    Workers = {w1, w2}
    NoJob = NoJob
    MaxAttempts = 2
    RetryGrant = 1
    MaxRetries = 1
    MaxVersion = 1
    MaxLineage = 0
    MaxOthers = 1
INVARIANTS
    SuccessVerified
    OwnCommitFound
PROPERTIES
    SavedStands
    Settles
CHECK_DEADLOCK FALSE
