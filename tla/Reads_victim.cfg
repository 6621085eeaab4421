SPECIFICATION Spec
CONSTANTS
    Threads = {t1}
    MaxOpen = 1
    MaxWrites = 2
    MaxMemtables = 3
    MaxTables = 4
    MaxGets = 2
CHECK_DEADLOCK FALSE
INVARIANTS
    NoDestroyedHandleUsed
