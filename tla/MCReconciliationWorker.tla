----------------------- MODULE MCReconciliationWorker -----------------------
(* A small instance of ReconciliationWorker: a backlog for one worker, and  *)
(* one and two payments for two.                                            *)
EXTENDS ReconciliationWorker

CONSTANTS w1, w2

TwoWorkers == {w1, w2}
FourPayments == 1..4

Anywhere == {"INITIATED", "CONSENT_RESERVED", "RISK_PASSED", "AUTHORISING"}

Backlog == [workers |-> {w1}, payments |-> 1..4, left |-> {"INITIATED", "AUTHORISING"},
            faults |-> 2]
Errors == [workers |-> {w1}, payments |-> {1}, left |-> Anywhere, faults |-> 4]
Overlap == [workers |-> TwoWorkers, payments |-> {1}, left |-> {"AUTHORISING"}, faults |-> 3]
TwoOverlaps == [workers |-> TwoWorkers, payments |-> {1, 2},
                left |-> {"RISK_PASSED", "AUTHORISING"}, faults |-> 1]

AllScenarios == {Backlog, Errors, Overlap, TwoOverlaps}
=============================================================================
