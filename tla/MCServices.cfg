SPECIFICATION MCSpec
CONSTANTS
    Jobs = {1, 2, 3}
    QueueCapacity = 2
    ScanLimit = 2
    MaxJournaled = 1
    MaxScanErrors = 1
    s1 = s1
    s2 = s2
    r1 = r1
    c1 = c1
    k1 = k1
    q1 = q1
    m1 = m1
    Sessions = {s1, s2}
    Requests = {r1}
    Closers = {c1}
    Registries = {k1, q1}
    Searches = {q1}
    Cameras = {m1}
    MaxSessions = 1
    Keys = {1}
    Hold = 1
    OutageHold = 2
    Debounce = 1
    RecordFlaps = TRUE
    QueueLimit = 3
    MaxChanges = 3
    MaxStoreErrors = 3
    MaxForwardErrors = 1
    MaxRestarts = 1
INVARIANTS
    SessionTypeOK
    NothingSurvivesClose
    CatalogFirst
    OneOpenInterval
PROPERTIES
    WakeupsAnswered
    ScanReachesAll
    CloseReturnsClean
    SessionLeaves
    StoreAdvances
    OutageCloses
CHECK_DEADLOCK FALSE
