SPECIFICATION Spec
CONSTANTS
    FanIn = 3
    Ratio = 2
    Trigger = 4
    Stop = 3
    MaxImm = 1
    MaxSize = 3
    MaxFailures = 1
CHECK_DEADLOCK FALSE
INVARIANTS
    TypeOK
    PickIsTheReference
    BacklogIsBounded
PROPERTIES
    StallClears
