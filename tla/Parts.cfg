\* The parts that share no state, one at a time.
SPECIFICATION PartsSpec
CONSTANTS
    MaxLines = 2
    BatchMax = 2
    VpnSpool = 1
    MinSamples = 1
    AnomalyRun = 3
    NormalRun = 2
    Level = {"package_db"}
    MaxLost = 1
    Host = {h1, h2}
    Window = 2
    Throttle = 2
    Percent = 60
    MinToEval = 2
    Cap = 4
    DownThreshold = 2
    UpThreshold = 2
    s1 = s1
    s2 = s2
    i1 = i1
    i2 = i2
    Handler = {d1, d2}
    Drain = {d1, d2}
    Session = {s1, s2}
    Address <- RdsAddress
    Failure = {f1, f2, f3}
    BurstAt = 2
    Caller = {c1, c2}
    MaxTroubles = 2
    Scan = {c1, c2}
    Finding = {f1}
    Observer = {d1, d2}
    Threshold = 3
    WindowSec = 2
    MaxStall = 1
    MaxAttempts = 4
    Request = {r1, r2}
    MaxMishaps = 1
    Sweep = {c1, c2}
    Bucket = {b1}
    Account = {a1, a2}
    b1 = b1
    a1 = a1
    d1 = d1
    p1 = p1
    AccountOf <- BucketAccounts
    MaxStirs = 1
    MaxSnags = 1
    Client = {s1, s2}
    Backend = {d1, d2}
    Port = {p1, p2}
    CacheMax = 2
    MaxAgain = 1
    Service = {s1}
    Sync = {c1, c2}
    MaxTurns = 1
    MaxOutages = 1
    LogObject = {s1, s2}
    Pull = {c1, c2}
    Overlap = 1
    FileCap = 1
    MaxHour = 3
    MaxMisses = 1
    Retried = {s1, s2}
    MaxBreaks = 1
    Peer = {s1, s2}
    Reader = {d1, d2}
    MaxComings = 1
    MaxSent = 2
    MaxUpsets = 1
    LastPort = 4
    Risky = {3}
    Web = {1}
    Wide = 4
    MostPorts = 2
    MaxRules = 2
    Ticket = {s1, s2}
    Signer = {d1}
    SessionTtl = 1
    MaxClock = 3
    MaxGlitches = 2
    Feed = {f1}
    Asker = {d1, d2}
    CacheTtl = 1
    Slow = 1
    MaxMoment = 2
    MaxFetches = 2
    MaxArrived = 5
    MaxShocks = 1
    LogLine = {1, 2, 3}
    Drainer = {d1, d2}
    BurstLevel = 2
    BurstSpan = 1
    LastMinute = 3
    MaxCuts = 1
    Every = 2
    ResyncEvery = 3
    MaxTick = 9
    MaxFlips = 2
    Writer = {s1, s2}
    FreshFor = 1
    SweepAfter = 1
    MaxSecond = 2
    MaxRotations = 1
    LastReport = 2
    Intake = {d1, d2}
    MaxArrivals = 2
    MaxSlips = 1
    Note = {s1, s2}
    Recipient = {s1, s2}
    Retries = 1
    MaxClosed = 1
    StoredKind = {"login", "sso refused", "group", "network", "database", "metadata", "anonymous", "host login", "host change", "anomaly"}
    MaxStored = 3
    Limit = 2
    PageRows = 3
    FewRows = 2
    ListCap = 1
    Prober = {d1, d2}
    ArchiveAfter = 2
    HealthSpan = 1
    CoverageSpan = 3
INVARIANTS
    PartsTypeOK
    CursorCovered
    StatesTold
    ThresholdsTold
    JobsSettle
    SettingsApply
    SessionsTraced
    ListsComplete
    NothingOutdated
CHECK_DEADLOCK FALSE
