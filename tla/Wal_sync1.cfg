SPECIFICATION Spec
CONSTANTS
    Op = {write}
    FsyncEveryN = 1
    RollRecords = 2
    Faults = {}
    MaxSeqno = 4
    MaxSegment = 4
    MaxCrashes = 2
    MaxPowerCuts = 0
    MaxFaults = 0
CHECK_DEADLOCK FALSE
INVARIANTS
    ReplayInWriteOrder
    AcknowledgedIsReplayed
PROPERTIES
    ImplementsDurableLog
