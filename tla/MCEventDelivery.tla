-------------------------- MODULE MCEventDelivery --------------------------
(* Small instances of EventDelivery, and what a comment says of it. *)
EXTENDS EventDelivery

CONSTANTS p1, p2, k1, k2

TwoPayments == {p1, p2}
OneRelay == {k1}
TwoRelays == {k1, k2}
NoUrl == {p2}
EveryoneHasUrl == {}
AllFaults == {"fail", "lost", "crash", "expire"}
OnlyFail == {"fail"}

-----------------------------------------------------------------------------
\* consumer.go: "Do not commit on failure so the message can be retried after
\* restart": what lies before the committed offset has been handled.
FailedIsNotCommitted == \A i \in 1..committed : Handled(topic[i])
=============================================================================
