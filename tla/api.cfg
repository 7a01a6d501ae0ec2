CONSTANTS
    m1 = m1
    m2 = m2
    k1 = k1
    k2 = k2
    k3 = k3
    c1 = c1
    c2 = c2
    c3 = c3
    g1 = g1
    g2 = g2
    r1 = r1
    r2 = r2
    Nil = Nil
    Merchants <- TwoMerchants
    Keys <- ThreeKeys
    Prefix <- TwoBeginAlike
    Consents <- ThreeConsents
    Gateways <- TwoGateways
    Skew <- SecondIsAhead
    Requests <- TwoRequests
    Scenarios <- AllScenarios
    ValidUntil = 1
    PageSize = 1
    MaxFaults = 2
    RequestTimeout = 1
    LimitPerSec = 1
    LimitKeyTTL = 2
    MaxTime = 3
SPECIFICATION FairSpec
INVARIANTS
    SuspensionTakesEffect
    
    
    ReasonSurvives
    
    StaleOnlyAfterRace
    ScanMissesOnlyAfterShrink
PROPERTIES
    StaleIsTemporary
