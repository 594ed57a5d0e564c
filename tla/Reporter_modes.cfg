SPECIFICATION FairSpec
CONSTANTS
    A = A
    B = B
    Agent = {A, B}
    N = 3
    Scenario <- MCScenario
INVARIANTS
    TypeOK
    NoUseAfterFree
    NothingPending
    StartTogether
    AnswerIsFinal
    LossesExact
    IntervalsTile
    SumIsComplete
    NobodyStuck
PROPERTIES
    RingIsChannel
    Terminates
CHECK_DEADLOCK FALSE
