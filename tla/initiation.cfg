CONSTANTS
    r1 = r1
    r2 = r2
    r3 = r3
    Nil = Nil
    Requests <- ThreeRequests
    FaultKinds <- AllFaults
    MaxFaults = 3
SPECIFICATION FairSpec
INVARIANTS
    OneSagaPerKey
    AnswersNameTheRow
    CompletedIsOver
PROPERTIES
    EveryRequestIsAnswered
