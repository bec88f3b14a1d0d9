SPECIFICATION Spec
CONSTANTS
    Absent = Absent
    Backups = 2
    MaxBytes = 2
    Sizes <- MCSizes
    MaxWrites = 8
    MaxPrunes = 2
    MaxCrashes = 0
INVARIANTS
    StartsFresh
CHECK_DEADLOCK FALSE
