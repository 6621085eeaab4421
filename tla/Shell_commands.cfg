SPECIFICATION FairSpec
CONSTANTS
    MemtableMax = 1
    MaxImmutables = 2
    StopWrites = 1
    Trigger = 2
    FanIn = 2
    MaxWrites = 6
    MaxFailures = 1
INVARIANTS
    TypeOK
    HandlersSeeOpenEngine
    PauseStopsSoon
PROPERTIES
    AdviceHelps
    StallEnds
    QuitEnds
CHECK_DEADLOCK FALSE
