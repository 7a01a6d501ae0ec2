CONSTANTS
    p1 = p1
    Payments <- OnePayment
    FaultKinds <- OnlyFail
    MaxFaults = 1
    MaxRetries = 1
    BankAttempts = 1
SPECIFICATION Spec
INVARIANTS
    SettledIsPosted
