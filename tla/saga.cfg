CONSTANTS
    p1 = p1
    Payments <- OnePayment
    FaultKinds <- AllFaults
    MaxFaults = 5
    MaxRetries = 2
    BankAttempts = 3
SPECIFICATION FairSpec
INVARIANTS
    FailedLeavesOnlyOrphans
    SettledIsBacked
    FailedIsNotPosted
    FailedHoldsNothing
    SettledHoldIsResolved
    EventIffSettled
PROPERTIES
    ConfirmedIsPermanent
    ImplementsLifecycle
    EventuallyTerminal
