SPECIFICATION Spec
CONSTANTS
    c1 = c1
    c2 = c2
    c3 = c3
    Charges = {c1, c2, c3}
    MaxQueue = 1
    FailureThreshold = 2
    FirstSequence = 1
    MaxBackground = 1
    NoCharge = NoCharge
INVARIANTS
    TypeOK
    NumbersHold
PROPERTIES
    ChargesAtMostOnce
    ChargesReturn
CHECK_DEADLOCK FALSE
