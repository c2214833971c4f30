SPECIFICATION AllSpec
CONSTANTS
    l1 = l1
    l2 = l2
    m1 = m1
    m2 = m2
    c1 = c1
    c2 = c2
    c3 = c3
    i1 = i1
    i2 = i2
    i3 = i3
    t1 = t1
    t2 = t2
    l3 = l3
    y1 = y1
    y2 = y2
    n1 = n1
    x1 = x1
    x3 = x3
    Managers = {m1, m2}
    Clients = {c1, c2, c3}
    Home <- MCHome
    Locks = {l1, l2}
    MaxLockFaults = 2
    NoClient = NoClient
    NoLock = NoLock
    Instances = {i1, i2, i3}
    Release <- MCRelease
    MaxMigrationFaults = 3
    NoInstance = NoInstance
    Refreshes = {r1, r2}
    MaxVersion = 3
    Submits = {f1, f2}
    MaxFrame = 4
    MaxWindow = 2
    MaxLost = 1
    Logins = {g1, g2}
    AttemptLimit = 2
    FreeAttempts = 1
    Window = 2
    MaxNonce = 2
    MaxMoment = 5
    Tenants = {t1, t2}
    Writers = {p1, p2}
    LockId <- MCLockId
    MaxAttempts = 2
    MaxEvents = 3
    Limit = 2
    Nobody = Nobody
    NoTenant = NoTenant
    Body = 2
    MaxPartial = 5
    Timeout = 3
    MaxMessages = 4
    MaxChunk = 4
    Payloads = {y1, y2}
    PayloadNonces = {n1}
    NonceOf <- MCNonceOf
    Validations = {v1, v2}
    NonceLife = 1
    RefreshEvery = 2
    MaxTick = 3
    ResyncAfter = 2
    MaxGaps = 2
    MaxHour = 6
    Rows = {x1, x3}
    Aged <- MCAged
    RefreshCalls = {w1, w2}
    Views = 2
    MaxInstant = 3
    Comparisons = {q1, q2}
    MaxBalance = 2
    CompareEvery = 2
    Dashboards = {d1, d2}
    MaxQueue = 2
    MaxPublished = 3
    NormalMax = 2
    SlowRate = 1
    FastRate = 2
    BurstFactor = 3
    BurstTicks = 1
    Cooldown = 3
    BucketTtl = 4
    MaxLag = 1
    MaxDeficit = 6
    MaxTime = 9
    EntrySize = 2
    MaxStorage = 6
    MaxBurst = 2
    TtlWindow = 2
    BatchIds = {b1, b2}
    CountRange = 8
    MaxLedgerTime = 3
    MaxConnects = 5
SYMMETRY MCSymmetry
INVARIANTS
    TypesHold
    LockHasOneHolder
    MigrationHolds
    RefusedOnlyAfterLoss
    FramesInOrder
    LoginsHold
    LogIsSound
    ReassemblyHolds
    DeliveriesCountOnce
    ResyncAnswersItsGap
    NothingStaleBehindMark
    StreamIsAccountedFor
    StorageIsMetered
    ListenerHolds
PROPERTIES
    QuietReconcileCorrects
    RateHolds
CHECK_DEADLOCK FALSE
