SPECIFICATION CallsSpec
CONSTANTS
    Cobs = {c1}
    Window = {c1}
    ShadowVersions = {1, 2}
    PublishVersions = {1, 2}
    Workers = {w1, w2}
    NoJob = NoJob
    Targets = 1
    MaxAttempts = 1
    RetryGrant = 1
    MaxRetries = 1
    MaxVersion = 2
    MaxOthers = 1
    MaxFaults = 1
INVARIANTS
    SuccessRecorded
    AlertsExact
PROPERTIES
    RevisionKept
    HoldStands
    PublishedOnEvidence
    Settles
CHECK_DEADLOCK FALSE
