SPECIFICATION BatchSpec
CONSTANTS
    Jobs = {j1}
    Items <- MCTwoItems
    Workers = {w1, w2}
    NoJob = NoJob
    NoItem = NoItem
    Unlisted = Unlisted
    MaxAttempts = 2
    MaxRuns = 2
    LeaseTicks = 1
    RetryTicks = 0
SYMMETRY MCSymmetry
INVARIANTS
    SucceededFresh
    Converges
PROPERTY KeptUnlessStale
