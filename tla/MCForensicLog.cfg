SPECIFICATION Spec
CONSTANTS
    Absent = Absent
    Backups = 2
    MaxBytes = 2
    Sizes <- MCSizes
    MaxWrites = 7
    MaxPrunes = 2
    MaxCrashes = 1
INVARIANTS
    LogTypeOK
    InOrder
    NoGaps
    PruneErases
    Bounded
CHECK_DEADLOCK FALSE
