CONSTANTS
    c1 = c1
    c2 = c2
    c3 = c3
    Callers <- ThreeCallers
    Attempts = 2
    Threshold = 1
    MaxRequests = 2
    MaxFaults = 2
SPECIFICATION FairSpec
INVARIANTS
    AnswersAccountForCharges

    
