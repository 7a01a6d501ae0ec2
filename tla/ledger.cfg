CONSTANTS
    p1 = p1
    p2 = p2
    p3 = p3
    a1 = a1
    a2 = a2
    a3 = a3
    a4 = a4
    b1 = b1
    b2 = b2
    Payments <- ThreePayments
    Amount <- Amounts
    Posts <- FourPosts
    Reversals <- TwoReversals
    PaymentOf <- CallsFor
    MaxAttempts = 2
    MaxAborts = 1
SPECIFICATION Spec
INVARIANTS
    BalancesAddUp
    OkIsDone
    
