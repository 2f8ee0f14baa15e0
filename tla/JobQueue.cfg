SPECIFICATION FairSpec
CONSTANTS
    Jobs = {j1}
    Items <- MCItems
    Workers = {w1, w2}
    NoJob = NoJob
    NoItem = NoItem
    MaxAttempts = 3
    LeaseTicks = 2
    RetryTicks = 1
INVARIANTS
    TypeOK
    ProgressExact
    LeaseExclusive
    NoOrphanUnderOwner
    SucceededComplete
PROPERTIES
    CheckpointsKept
    ImplementsLedger
    Drains
