CONSTANTS
    NumFlows = 3
    Step <- StepDef
    Lifetime <- LifetimeDef
    NumCand = 2
    Load <- LoadDef
    FullLoad = 20
    Duration = 4
    Tick = 2
    Retry = 2
    stdll = 18
    lltimeframe = 1
    Ahead = 1
SPECIFICATION Spec
CHECK_DEADLOCK FALSE
INVARIANTS
    ExpiredAreRemoved
