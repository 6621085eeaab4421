SPECIFICATION Spec
CONSTANTS
    Op = {write}
    FsyncEveryN = 2
    RollRecords = 2
    Faults = {"write", "sync", "header", "open"}
    MaxSeqno = 4
    MaxSegment = 3
    MaxCrashes = 0
    MaxPowerCuts = 2
    MaxFaults = 2
CHECK_DEADLOCK FALSE
INVARIANTS
    TypeOK
    LossIsBounded
    ReplayNeverGoesBack
PROPERTIES
    CleanupKeepsUncovered
