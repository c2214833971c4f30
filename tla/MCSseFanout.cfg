SPECIFICATION SseSpec
CONSTANTS
    Dashboards = {d1}
    MaxQueue = 2
    MaxPublished = 3
INVARIANTS
    EachEventOnce
CHECK_DEADLOCK FALSE
