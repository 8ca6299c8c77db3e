CONSTANTS
    Parts = {"pool", "queue", "client", "settle", "monitor", "auth",
             "sandbox", "incident", "balance"}
    N = 2
    Holders = {h1}
    Balances <- MCBalances
    FAILURE_THRESHOLD = 2
    NNodes = 3
    Calls = {"s", "a", "l"}
    KindOf <- MCKindOf
    Archivers = {p1, p2}
    NRows = 3
    ArchiveBatch = 2
    MaxSeconds = 1
    MaxArchiveRuns = 2
    Jobs = {j1}
    Txs = {t1}
    Attempts = 3
    BackoffDelay = 1
    JobTimeout = 3
    Concurrency = 1
    MaxStalled = 1
    TxLimit = 1
    MaxLapses = 0
    IdemKeys = {k1, k2, k3}
    IdemRequests = {i1, i2, i3}
    maxSize = 2
    ttl = 1
    MaxIdemTime = 2
    RateReplicas = {r1}
    Skews = {0, 2}
    capacity = 2
    windowMs = 4
    MaxRateTime = 4
    Tabs = {t1, t2}
    Items = {i1}
    maxRetries = 2
    MaxPageFaults = 1
    EnvSigners = {e1}
    DbSigners = {d1, d2}
    RegAdmins = {a1, a2}
    MaxRegFaults = 2
    Settlements = {s1, s2}
    Claims = {c1, c2}
    Pollers = {p1}
    BatchSize = 1
    confirmationsRequired = 1
    MaxBlock = 1
    MaxFaults = 1
    Deliveries = {d1, d2}
    Admins = {a1}
    MaxAttempts = 2
    MaxHookFaults = 1
    Hashes = {h1, h2}
    batchSize = 2
    MaxTracked = 1
    MaxMonitorFaults = 1
    AuthReplicas = {r1}
    AuthRequests = {q1}
    CacheTtl = 2
    MaxRedisCmds = 2
    Sessions = {s1, s2}
    Hooks = {k1, k2}
    UntieredSessions = {s2}
    MaxEvents = 2
    MaxTopUpFaults = 2
    SbxRequests = {q1, q2, q3}
    SANDBOX_RATE_LIMIT_MAX = 2
    sbxWindow = 2
    MaxSbxCount = 3
    MaxSbxFaults = 2
    Batches = {"b1", "b2", "b3"}
    BatchTxs = {"x", "y", "z"}
    ItemsOf <- MCItemsOf
    SubmitOf <- MCSubmitOf
    BatchTxLimit = 2
    MaxBatchFaults = 2
    Sweeps = {w1, w2}
    retentionLimit = 2
    InitialFunds = 4
    BASE_FEE = 1
    MaxFees = 2
    MaxDeposits = 2
    Signups = {s1, s2}
    Verifiers = {v1, v2}
    MaxToken = 2
    MaxTosVersion = 2
    MaxSignupFaults = 1
    OUTAGE_THRESHOLD = 2
    MaxChanges = 2
    MaxIncidentFaults = 1
    NPayers = 1
    Cooldown = 1
    Transfers = {f1}
    MaxRows = 1
    MaxMoves = 3
    MaxBalanceFaults = 1
SPECIFICATION PartsFairSpec
CHECK_DEADLOCK FALSE
INVARIANT
    ErrorAfterAllRetries
PROPERTIES
    EventuallyReenabled
    QueuesDrain
    PaidLeavesAwaiting
    EveryTrackedIsFinal
    AlertsFollow
    RevocationSound
    WindowEnds
