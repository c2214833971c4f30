SPECIFICATION ContractSpec
CONSTANTS
    EntrySize = 2
    MaxStorage = 6
    MaxBurst = 2
    TtlWindow = 2
    BatchIds = {b1}
    CountRange = 8
    MaxLedgerTime = 2
INVARIANTS
    UsageIsEntries
