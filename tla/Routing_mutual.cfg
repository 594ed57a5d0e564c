CONSTANTS
    HostPort = HostPort
    NoPort = NoPort
    Node <- Line
    Pair <- Mutual
    PathOf <- MutualPath
    Backlog <- TwoEach
SPECIFICATION Spec
CHECK_DEADLOCK FALSE
PROPERTY TrafficUndisturbed
