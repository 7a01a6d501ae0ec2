CONSTANTS
    p1 = p1
    p2 = p2
    k1 = k1
    k2 = k2
    Nil = Nil
    Payments <- TwoPayments
    Relays <- OneRelay
    NoWebhook <- EveryoneHasUrl
    MaxAttempts = 2
    FaultKinds <- OnlyFail
    MaxFaults = 1
SPECIFICATION Spec
INVARIANTS
    FailedIsNotCommitted
