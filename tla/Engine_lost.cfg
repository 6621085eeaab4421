SPECIFICATION Spec
CONSTANTS
    Keys = {k1}
    Values = {v1, v2}
    NotFound = NotFound
    MemMax = 1
    MaxImm = 2
    L0Stop = 9
    RollRecords = 9
    GraceElapses = FALSE
    MaxSeqno = 2
    MaxCompactId = 5
    MaxCrashes = 2
    MaxCloses = 0
    MaxFailures = 0
SYMMETRY Symmetry
CHECK_DEADLOCK FALSE
PROPERTIES
    OnlyWritesChangeTheStore
