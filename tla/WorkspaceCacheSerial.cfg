SPECIFICATION Spec
CONSTANTS
    Threads = {t1, t2, t3}
    Keys = {k1}
    Locks = {l1, l2, l3}
    NoLock = NoLock
    NoKey = NoKey
    MaxEntries = 1
    HealthyTTL = 2
    DegradedTTL = 1
    MaxVersion = 1
SYMMETRY MCSymmetry
INVARIANT LoadsSerialized
