SPECIFICATION FeedSpec
CONSTANTS
    Threads = {t1, t2}
    Processes = {p1}
    ProcessOf <- MCProcessOf
    NoThread = NoThread
    MaxVersion = 2
    MaxCalls = 3
    MaxRefreshes = 1
    MaxRare = 0
INVARIANT RenderedAsReferenced
CHECK_DEADLOCK FALSE
