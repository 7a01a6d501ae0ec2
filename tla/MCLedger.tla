------------------------------ MODULE MCLedger ------------------------------
(* A small instance of Ledger: on one payment two posts and two reversals, on
   others a post each, of the least amounts. *)
EXTENDS Ledger, TLC

CONSTANTS p1, p2, p3, a1, a2, a3, a4, b1, b2

ThreePayments == {p1, p2, p3}
Amounts == (p1 :> 250) @@ (p2 :> 1) @@ (p3 :> 2)
FourPosts == {a1, a2, a3, a4}
TwoReversals == {b1, b2}
CallsFor == (a1 :> p1) @@ (a2 :> p1) @@ (a3 :> p2) @@ (a4 :> p3) @@ (b1 :> p1) @@ (b2 :> p1)
=============================================================================
