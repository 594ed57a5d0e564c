CONSTANTS
    HostPort = HostPort
    NoPort = NoPort
    Node <- Line
    Pair <- OneWay
    PathOf <- OneWayPath
    Backlog <- TwoInTheMiddle
SPECIFICATION FairSpec
CHECK_DEADLOCK FALSE
INVARIANTS
    TypeOK
    TablesFollowRecord
PROPERTIES
    Undisturbed
    Established
