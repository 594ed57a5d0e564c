CONSTANTS
    HostPort = HostPort
    NoPort = NoPort
    Node <- Line
    Pair <- OneWay
    PathOf <- OneWayPath
    Backlog <- TwoEach
SPECIFICATION Spec
CHECK_DEADLOCK FALSE
INVARIANT TrafficHasPath
