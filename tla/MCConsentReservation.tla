------------------------ MODULE MCConsentReservation ------------------------
(* A small instance of ConsentReservation: two payments that exceed the limit
   together; c3 repeats the request c1. *)
EXTENDS ConsentReservation, TLC

CONSTANTS p1, p2, c1, c2, c3, none

TwoPayments == {p1, p2}
TwoAmounts == (p1 :> 2) @@ (p2 :> 2)
Repeated == {c1, c2, c3}
RepeatedFor == (c1 :> p1) @@ (c2 :> p2) @@ (c3 :> p1)
Nobody == {}
=============================================================================
