CONSTANTS
    p1 = p1
    Payments <- OnePayment
    FaultKinds <- OnlyFail
    MaxFaults = 1
    MaxRetries = 0
    BankAttempts = 1
SPECIFICATION Spec
INVARIANTS
    FailedIsNotCharged
