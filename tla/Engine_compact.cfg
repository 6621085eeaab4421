SPECIFICATION SafeSpec
CONSTANTS
    Keys = {k1, k2}
    Values = {v1}
    NotFound = NotFound
    MemMax = 1
    MaxImm = 2
    L0Stop = 9
    RollRecords = 9
    GraceElapses = TRUE
    MaxSeqno = 3
    MaxCompactId = 3
    MaxCrashes = 1
    MaxCloses = 0
    MaxFailures = 1
SYMMETRY Symmetry
CHECK_DEADLOCK FALSE
INVARIANTS
    TypeOK
    LiveTablesExist
    SafeInv
    ReadsAreDurable
PROPERTIES
    OnlyWritesChangeTheStore
