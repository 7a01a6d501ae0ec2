---------------------------- MODULE MCPaymentSaga ----------------------------
(* Small instances of PaymentSaga, and what the documents say of it. *)
EXTENDS PaymentSaga

CONSTANT p1

OnePayment == {p1}

AllFaults == {"fail", "lost", "partial", "refuse", "crash"}
OnlyFail == {"fail"}

-----------------------------------------------------------------------------
(* Claims of a comment and of a document, each refuted by one instance. *)

\* saga.go: "Bank already moved money / authorised - compensate bank +
\* consent": a FAILED payment leaves no charge at the bank.
FailedIsNotCharged ==
    \A p \in Payments : status[p] = "FAILED" /\ Idle(p) => live[p] = {}

\* vrp-system-design.md: "every payment = debit consumer, credit merchant
\* escrow": a settled payment has a standing ledger entry.
SettledIsPosted ==
    \A p \in Payments : status[p] = "SETTLED" /\ Idle(p) => ledger[p] = "posted"
=============================================================================
