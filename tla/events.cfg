CONSTANTS
    p1 = p1
    p2 = p2
    k1 = k1
    k2 = k2
    Nil = Nil
    Payments <- TwoPayments
    Relays <- TwoRelays
    NoWebhook <- NoUrl
    MaxAttempts = 2
    FaultKinds <- AllFaults
    MaxFaults = 1
SPECIFICATION FairSpec
INVARIANTS
    NoEventIsLost
    CommittedIsHandled
    
PROPERTIES
    EventuallyHandled
