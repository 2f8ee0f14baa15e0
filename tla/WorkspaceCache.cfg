SPECIFICATION CallsSpec
CONSTANTS
    Threads = {t1, t2, t3}
    Keys = {k1, k2}
    Locks = {l1, l2}
    NoLock = NoLock
    NoKey = NoKey
    MaxEntries = 1
    HealthyTTL = 1
    DegradedTTL = 1
    MaxVersion = 1
INVARIANTS
    ForcedIsFresh
    NoLeakedLock
PROPERTY Answered
