----------------------------- MODULE MCGateway -----------------------------
(* A small instance of Gateway.  Each scenario is a use of the platform; the *)
(* run explores all of them, and no product of them.                         *)
EXTENDS Gateway

CONSTANTS m1, m2, k1, k2, k3, c1, c2, c3, g1, g2, r1, r2

TwoMerchants == {m1, m2}
ThreeKeys == {k1, k2, k3}
TwoBeginAlike == [k \in ThreeKeys |-> IF k = k3 THEN "b" ELSE "a"]
ThreeConsents == {c1, c2, c3}
TwoGateways == {g1, g2}
SecondIsAhead == [g \in TwoGateways |-> IF g = g1 THEN 0 ELSE 1]
TwoRequests == {r1, r2}

FirstKeys == [m \in TwoMerchants |-> IF m = m1 THEN k1 ELSE k2]

Common == [clients |-> {m1}, inputs |-> {"good"}, keys |-> FirstKeys, consents |-> {},
           existing |-> <<>>, gateways |-> {g1}, redis |-> FALSE, suspends |-> FALSE,
           until |-> 0, ttl |-> 2, faults |-> 1, ops |-> {}]

\* A merchant registers and signs in with a key that begins like another's.
Registration == [Common EXCEPT !.ops = {"RegisterMerchant", "IssueToken"},
                               !.inputs = {"good", "malformed"}]

\* A merchant signs in and is suspended; two replicas with clocks of their own.
Suspension == [Common EXCEPT !.ops = {"IssueToken", "GetMerchant"}, !.suspends = TRUE,
                             !.gateways = TwoGateways, !.until = 3, !.ttl = 1,
                             !.faults = 0]

\* Two replicas with a limit.
Limited == [Common EXCEPT !.ops = {"GetMerchant"}, !.gateways = TwoGateways,
                          !.redis = TRUE, !.until = 1, !.ttl = 4]

\* One consent, which lapses, is created, read and revoked, also by a stranger.
OneConsent == [Common EXCEPT !.ops = ConsentRoutes, !.consents = {c1}, !.until = 1]
TwoMerchantsOneConsent == [OneConsent EXCEPT !.clients = {m1, m2}, !.until = 0, !.faults = 0,
                                            !.inputs = {"good", "refused"}]

\* Consents are created and revoked while they are listed.
Listing == [Common EXCEPT !.ops = {"CreateConsent", "RevokeConsent", "ListConsents"},
                          !.consents = {c1, c3}, !.existing = <<c2, c1>>, !.faults = 0]
AnyListing == [Listing EXCEPT !.ops = {"ListConsents", "GetMerchant"}, !.until = 1,
                              !.inputs = {"good", "malformed", "refused"}]

\* One payment, and every kind of input.
OnePayment == [Common EXCEPT !.ops = PaymentRoutes,
                             !.inputs = {"good", "malformed", "refused"}]

AllScenarios == {Registration, Suspension, Limited, OneConsent,
                 TwoMerchantsOneConsent, Listing, AnyListing, OnePayment}
=============================================================================
