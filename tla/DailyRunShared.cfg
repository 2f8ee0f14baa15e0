SPECIFICATION Spec
CONSTANTS
    Jobs = {j1, j2}
    Workers = {w1, w2}
    NoJob = NoJob
    MaxAttempts = 1
    RetryGrant = 1
    MaxRetries = 0
    MaxVersion = 1
    MaxLineage = 1
    MaxOthers = 0
SYMMETRY MCSymmetry
INVARIANT CandidateFits
PROPERTY CurrentActivation
CHECK_DEADLOCK FALSE
