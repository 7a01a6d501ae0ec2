CONSTANTS
    w1 = w1
    w2 = w2
    Workers <- TwoWorkers
    Payments <- FourPayments
    Scenarios <- AllScenarios
    Limit = 2
    MaxFaults = 4
SPECIFICATION FairSpec
INVARIANTS
    SecondEventOnlyAfterOverlap
    SettledIsWhole
    
PROPERTIES
    EventuallyReconciled
