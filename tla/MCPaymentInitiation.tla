------------------------- MODULE MCPaymentInitiation -------------------------
(* A small instance of PaymentInitiation. *)
EXTENDS PaymentInitiation

CONSTANTS r1, r2, r3

ThreeRequests == {r1, r2, r3}
AllFaults == {"fail", "lost", "partial", "loss", "crash"}
=============================================================================
