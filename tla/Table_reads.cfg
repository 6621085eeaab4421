SPECIFICATION FairSpec
CONSTANTS
    Threads = {r1, r2}
    Tables <- MCTables
    Startup = {1}
    Offsets <- MCOffsets
    Size <- MCSize
    Capacity = 4
    PinIndex = TRUE
CHECK_DEADLOCK FALSE
INVARIANTS
    CacheAgrees
    BlocksAreTheirs
    WarmBlocksStay
    NoBlockReadTwice
    StartupTablesAreSafe
PROPERTIES
    LocksAreReleased
