SPECIFICATION MCSpec
CONSTANTS
    Jobs = {1}
    QueueCapacity = 2
    ScanLimit = 2
    MaxJournaled = 0
    MaxScanErrors = 0
    s1 = s1
    s2 = s2
    r1 = r1
    c1 = c1
    k1 = k1
    q1 = q1
    m1 = m1
    Sessions = {s1, s2}
    Requests = {r1}
    Closers = {c1}
    Registries = {k1}
    Searches = {}
    Cameras = {}
    MaxSessions = 1
    Keys = {1}
    Hold = 1
    OutageHold = 2
    Debounce = 1
    RecordFlaps = TRUE
    QueueLimit = 3
    MaxChanges = 0
    MaxStoreErrors = 0
    MaxForwardErrors = 0
    MaxRestarts = 0
PROPERTY
    LiveSessionKept
CHECK_DEADLOCK FALSE
