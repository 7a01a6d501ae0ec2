CONSTANTS
    p1 = p1
    p2 = p2
    c1 = c1
    c2 = c2
    c3 = c3
    none = none
    Payments <- TwoPayments
    Amount <- TwoAmounts
    Calls <- Repeated
    PaymentOf <- RepeatedFor
    Mismatch <- Nobody
    MaxAmount = 2
    MaxMonthly = 3
    ValidUntil = 3
    Hold = 1
    Window = 2
    MaxTime = 3
    MaxAborts = 1
    NoCall = none
SPECIFICATION FairSpec
INVARIANTS
    WithinMonthlyLimit
PROPERTIES
    RevokedAdmitsNothing
    EveryRequestIsAnswered
