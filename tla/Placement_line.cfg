CONSTANTS
    None = None
    Node <- Line
    Cand <- Line
    Edge <- LineEdge
    Flow <- ThreeFlows
    PathEdges <- LinePath
    RTT <- LineRTT
    Wb <- LineWb
    BCap <- LineLinks
    PNode <- LineNode
    BFlow <- Rates
    PFlow <- Works
    LFlow <- Limits
    BCRC = 1
    PCRC = 12
    LCRC = 4
    BCLC = 1
    PCLC = 12
    LCLC = 4
    Eps = 1
SPECIFICATION FairSpec
CHECK_DEADLOCK FALSE
INVARIANTS
    TypeOK
    ControlRecordsAgree
    CoordinationRecordsAgree
    ServedFlowsControlled
    NoOverbooking
    CapacityAccounted
    SolvedMeansControlled
PROPERTIES
    OnlyDropsTakeAway
    CallsDescend
    CallsReturn
