SPECIFICATION PartsSpec
CONSTANTS
    AspectRequests = {"r1", "r2"}
    AspectLimit = 1
    MaxTickets = 3
    Commodities = {"TTF", "BRENT"}
    RunIds = {"r1", "r2"}
    PublicationIds = {"p1", "p2"}
    Drafts = {"d1"}
    DraftCommodity <- MCDraftCommodity
    Configurations <- MCConfigurations
    NoRow = NoRow
    Writers = {"w1", "w2"}
    Points = {"x1", "x2"}
    Servers = {"s1", "s2"}
    MaxSource = 1
    MaxGeneration = 1
    Editors = {"e1", "e2"}
    Selections = {"k1", "k2"}
    Reviewers = 1
    FutureLimit = 1
    MaxReviews = 2
    Interests <- MCInterests
    Traders = {"a", "b"}
    Windows = {1}
    PreviewLimit = 1
    MaxIntraday = 2
    MaxPreviews = 1
    Reopeners = {"a"}
    Dashboards = {"d1", "d2"}
    RefreshProducts <- MCRefreshProducts
    Days <- MCDays
    Blank = Blank
    MaxRevision = 0
    MaxOpens = 1
    MaxAwaited = 1
    MaxEdits = 1
    MaxBatches = 1
    MaxSurfaces = 2
    Silent = Silent
    MaxStructures = 2
    MaxInputs = 1
    MaxTurns = 1
    LastExpiry = 2
    Budgets = {1, 2, 3}
    MaxProducts = 2
    MaxPools = 4
    Threads = {"t1", "t2"}
    Processes = {"n1"}
    ProcessOf <- MCProcessOf
    NoThread = NoThread
    MaxVersion = 2
    MaxCalls = 2
    MaxRefreshes = 1
    MaxRare = 1
    Signed = {"u1", "u2"}
    Picks = {"m1", "m2"}
    Nil = Nil
    MaxUpsets = 1
    MaxCalibrations = 2
    MaxGoverned = 2
    Tabs = {"t1", "t2"}
    DeskTabs = {"t1"}
    Hosts = {"h1", "h2"}
    HostLimit = 1
    MaxJobs = 2
    MaxCurves = 2
    MaxEvents = 1
INVARIANTS
    PartsTypeOK
    AspectBounded
    LanesApart
    RefreshedIsFresh
    ReviewedBeforeReplaced
    ReviewAttended
    FamiliesApart
    PublishedAsCalibrated
    GovernedAsReviewed
    ResultsFitInputs
    OneComputeBudget
    AnsweredAfresh
PROPERTY
    SealedPointsStay
CHECK_DEADLOCK FALSE
