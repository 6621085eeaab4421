SPECIFICATION Spec
CONSTANTS
    Threads = {r1, r2}
    MaxOpen = 1
    MaxWrites = 2
    MaxMemtables = 3
    MaxTables = 4
    MaxGets = 2
CHECK_DEADLOCK FALSE
INVARIANTS
    TypeOK
    GetIsLinearizable
    PinnedFilesExist
    OpenFilesAreTracked
