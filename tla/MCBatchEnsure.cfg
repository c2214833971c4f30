SPECIFICATION BatchSpec
CONSTANTS
    e1 = e1
    e2 = e2
    m1 = m1
    m2 = m2
    l1 = l1
    l2 = l2
    Workers = {p1}
    LastWindow = 1
    Events = {e1, e2}
    Metrics = {m1, m2}
    MetricOf <- MCMetricOf
    LockOf <- MCLockOf
    MaxKept = 1
    Nobody = Nobody
PROPERTIES
    EnsuredBatchIsOpen
