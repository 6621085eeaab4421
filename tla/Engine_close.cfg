SPECIFICATION FairSpec
CONSTANTS
    Keys = {k1}
    Values = {v1}
    NotFound = NotFound
    MemMax = 1
    MaxImm = 1
    L0Stop = 1
    RollRecords = 1
    GraceElapses = FALSE
    MaxSeqno = 3
    MaxCompactId = 4
    MaxCrashes = 0
    MaxCloses = 1
    MaxFailures = 1
CHECK_DEADLOCK FALSE
PROPERTIES
    ImplementsKvStore
    ReleasedUnlessClosedFast
    CloseTerminates
