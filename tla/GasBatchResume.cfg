SPECIFICATION FairBatch
CONSTANTS
    Jobs = {j1}
    Items <- MCOneItem
    Workers = {w1, w2}
    NoJob = NoJob
    NoItem = NoItem
    Unlisted = Unlisted
    MaxAttempts = 2
    MaxRuns = 2
    LeaseTicks = 1
    RetryTicks = 0
PROPERTY Resumes
