SPECIFICATION Spec
CONSTANTS
    Cobs = {c1}
    Window = {c1}
    ShadowVersions = {1}
    PublishVersions = {1}
    Workers = {w1,w2}
    NoJob = NoJob
    Targets = 1
    MaxAttempts = 2
    RetryGrant = 1
    MaxRetries = 0
    MaxVersion = 1
    MaxOthers = 1
    MaxFaults = 1
PROPERTIES
    BeatFailureRetried
CHECK_DEADLOCK FALSE
SYMMETRY MCSymmetry
