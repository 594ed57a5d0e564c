SPECIFICATION FairSpec
CONSTANTS
    A = A
    B = B
    C = C
    Stream = {A, B, C}
    Host <- MCHost
    MaxSockets = 3
    Half = 8
    Scenario <- MCScenario
INVARIANTS
    TypeOK
    ClientsAreServed
    OneHostOnly
    TotalsAreEven
PROPERTIES
    TestsEnd
CHECK_DEADLOCK FALSE
