SPECIFICATION Spec
CONSTANTS
    Polls = {p1, p2}
    StartingLedger = 0
    Concurrency = 2
    CheckpointInterval = 2
    MaxGap = 3
    MaxLedger = 4
    MaxCrashes = 1
INVARIANTS
    OneCatchUpAtATime
