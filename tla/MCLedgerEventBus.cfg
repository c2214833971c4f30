SPECIFICATION Spec
CONSTANTS
    c1 = c1
    Consumers = {c1}
    Count = 2
    MaxLen = 1
    MaxSequence = 3
    MaxEntries = 3
    MaxFaults = 2
INVARIANTS
    TypeOK
PROPERTIES
    ReportsHold
    EventsAreHandled
