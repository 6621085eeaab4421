SPECIFICATION Spec
CONSTANTS
    Keys = {k1, k2}
    Values = {v1}
    NotFound = NotFound
    MemMax = 1
    MaxImm = 2
    L0Stop = 9
    RollRecords = 9
    GraceElapses = FALSE
    MaxSeqno = 4
    MaxCompactId = 0
    MaxCrashes = 2
    MaxCloses = 0
    MaxFailures = 0
SYMMETRY Symmetry
CHECK_DEADLOCK FALSE
INVARIANTS
    MemtablesOrdered
