SPECIFICATION FairSpec
CONSTANTS
    Cycles = {c1, c2}
    EventCallers = {e1}
    Ticks = {t1, t2}
    Keys = {k1}
    FreshKey = FreshKey
    NoCycle = NoCycle
INVARIANTS
    TypeOK
    ClaimsHold
PROPERTIES
    ComputesExactlyOnce
    SchedulerFinalizesAll
