SPECIFICATION Spec
CONSTANTS
    g1 = g1
    g2 = g2
    a1 = a1
    a2 = a2
    s1 = s1
    e1 = e1
    e2 = e2
    u1 = u1
    u2 = u2
    b1 = b1
    b2 = b2
    Gateways = {g1, g2}
    Admins = {a1, a2}
    Serials = {s1}
    NoSerial = NoSerial
    Workers = {p1, p2}
    LastWindow = 1
    Events = {e1, e2}
    Metrics = {u1, u2}
    MetricOf <- MCMetricOf
    LockOf <- MCLockOf
    MaxKept = 1
    Nobody = Nobody
    Pods = {p1, p2}
    Raters = {p1}
    Commits = {k1, k2}
    NoVersion = NoVersion
    MaxPolls = 1
    BatchSize = 1
    Requests <- MCRequests
    Tenant <- MCTenant
    TenantMin = 2
    TenantMax = 3
    GlobalMax = 4
    MaxDirect = 1
    MaxSetFailures = 1
    NoRequest = NoRequest
INVARIANTS
    TypeOK
    CompactionIsExclusive
PROPERTIES
    RevocationTakesHold
    SummariesHold
    LocksAreReleased
    VersionsHold
    PodsConverge
    SharesHold
    ConnectsSettle
