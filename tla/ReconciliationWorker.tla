------------------------ MODULE ReconciliationWorker ------------------------
(***************************************************************************)
(* The reconciliation workers of payment-svc and the payments that died    *)
(* sagas left to them.  Every replica has a worker, and while a new        *)
(* version is rolled out two replicas run.  A tick reads the oldest Limit  *)
(* in-flight rows and works through these copies, whatever other workers   *)
(* do to the rows meanwhile: no UPDATE looks at the status it overwrites.  *)
(* A payment whose charge the bank does not know is skipped at every tick. *)
(*                                                                         *)
(* A call's outcome is ok, fail (nothing done), lost (done, and an error   *)
(* returned) or, from the bank, refuse (200 REJECTED).                     *)
(***************************************************************************)
EXTENDS Naturals, FiniteSets

CONSTANTS
    Workers,
    Payments,       \* 1..n, numbered by updated_at
    Limit,          \* LIMIT 50
    MaxFaults,
    Scenarios       \* the workers and payments of a behaviour, the statuses its
                    \* sagas died in, and how many faults happen

ASSUME WorkerAssumption ==
    /\ Payments \subseteq Nat
    /\ MaxFaults \in Nat
    /\ \A s \in Scenarios :
          /\ s.left \subseteq {"INITIATED", "CONSENT_RESERVED", "RISK_PASSED", "AUTHORISING"}
          /\ s.faults \in 0..MaxFaults

VARIABLES
    status,         \* the row's status; "NONE" until its saga has died
    left,           \* the status the saga left it in
    bank,           \* the charge: none, SETTLED, REVERSED, or forgotten
    resv, ledger, outbox,
    batch,          \* batch[w]: the copies worker w has still to work on, oldest first
    pc, errs,       \* pc[w]: its next call, for P(w)
    faults, scenario,
    doubt           \* history, doubt[p]: what went wrong with the calls for p

workVars == <<batch, pc, errs>>
vars == <<status, left, bank, resv, ledger, outbox, workVars, faults, scenario, doubt>>

Terminal == {"SETTLED", "FAILED", "MANUAL_REVIEW"}

\* MUTANT: the query names SETTLED too.
InFlightOrSettled(s) ==
    s \in {"INITIATED", "CONSENT_RESERVED", "RISK_PASSED", "AUTHORISING", "SETTLED"}
InFlight(s) == s \in {"INITIATED", "CONSENT_RESERVED", "RISK_PASSED", "AUTHORISING"}

\* What the copies hold; nobody changes these columns of an in-flight row.
hasBank(p) == left[p] = "AUTHORISING"
hasConsent(p) == left[p] # "INITIATED"

-----------------------------------------------------------------------------
Outcome(o) ==
    IF o = "ok" THEN UNCHANGED faults
                ELSE faults < MaxFaults /\ faults' = faults + 1
Effect(o) == o \in {"ok", "lost"}
Error(o) == IF o = "ok" THEN {} ELSE {"error"}
Refusal(o) == IF o = "refuse" THEN {"refused"} ELSE {}

Suspect(p, what) == doubt' = [doubt EXCEPT ![p] = @ \cup what]

\* ORDER BY updated_at; MUTANT: the newest first.
Newer(p, q) == p > q
Older(p, q) == p < q

\* The copy worker w is at.
P(w) == CHOOSE p \in batch[w] : \A q \in batch[w] : q = p \/ Older(p, q)
At(w, step) == batch[w] # {} /\ pc[w] = step

Goto(w, step) == pc' = [pc EXCEPT ![w] = step] /\ UNCHANGED batch
NextPayment(w) ==
    /\ pc' = [pc EXCEPT ![w] = "next"]
    /\ batch' = [batch EXCEPT ![w] = @ \ {P(w)}]
    /\ errs' = [errs EXCEPT ![w] = FALSE]

-----------------------------------------------------------------------------
\* A saga dies and a minute later its row is stale: the youngest of the list.
BecomesStale(p) ==
    /\ p \in scenario.payments
    /\ status[p] = "NONE"
    /\ \A q \in scenario.payments : q < p => status[q] # "NONE"
    /\ \E s \in scenario.left :
          /\ status' = [status EXCEPT ![p] = s]
          /\ left' = [left EXCEPT ![p] = s]
          /\ bank' = [bank EXCEPT ![p] = IF s = "AUTHORISING" THEN "SETTLED" ELSE "none"]
          /\ resv' = [resv EXCEPT ![p] = IF s = "INITIATED" THEN "none" ELSE "HELD"]
    /\ UNCHANGED <<ledger, outbox, workVars, faults, scenario, doubt>>

Stale == {p \in Payments : InFlight(status[p])}
FirstRows == {p \in Stale : Cardinality({q \in Stale : Older(q, p)}) < Limit}

\* A tick; rows that another worker has in its batch are listed as well.
ListStaleInFlightPayments(w) ==
    /\ w \in scenario.workers
    /\ batch[w] = {}
    /\ batch' = [batch EXCEPT ![w] = FirstRows]
    /\ doubt' = [p \in Payments |-> IF \E v \in Workers \ {w} :
                                          p \in batch[v] \cap FirstRows
                                    THEN doubt[p] \cup {"overlap"} ELSE doubt[p]]
    /\ UNCHANGED <<status, left, bank, resv, ledger, outbox, pc, errs, faults, scenario>>

\* GetPaymentStatus answers what the bank knows, with NotFound if nothing, or
\* REJECTED.
BankStatus(p, o) == IF o = "refuse" THEN "REJECTED" ELSE bank[p]

\* What the worker does on the bank's answer; MUTANT: a reversed charge is taken
\* for a settled one.
OnStatusReversed(answer) ==
    IF answer \in {"SETTLED", "REVERSED"} THEN "ledger"
    ELSE IF answer = "forgotten" THEN "next" ELSE "reverseBank"
OnStatus(answer) ==
    IF answer = "SETTLED" THEN "ledger"
    ELSE IF answer = "forgotten" THEN "next" ELSE "reverseBank"

\* Without a reference the payment is compensated; a query that fails leaves it.
QueryBank(w) ==
    /\ At(w, "next")
    /\ LET p == P(w) IN
       IF ~ hasBank(p)
       THEN Goto(w, "release") /\ UNCHANGED <<errs, faults, doubt>>
       ELSE \E o \in {"ok", "fail", "refuse"} :
              /\ Outcome(o)
              /\ Suspect(p, Error(o) \cup Refusal(o))
              /\ IF o = "fail" \/ OnStatus(BankStatus(p, o)) = "next"
                 THEN NextPayment(w)
                 ELSE Goto(w, OnStatus(BankStatus(p, o))) /\ UNCHANGED errs
    /\ UNCHANGED <<status, left, bank, resv, ledger, outbox, scenario>>

-----------------------------------------------------------------------------
(* ResumeFromLedger.                                                       *)

\* The entry a payment already has is returned, reversed or not.
PostDoubleEntry(w) ==
    /\ At(w, "ledger")
    /\ LET p == P(w) IN \E o \in {"ok", "fail", "lost"} :
        /\ Outcome(o)
        /\ ledger' = [ledger EXCEPT ![p] = IF Effect(o) /\ @ = "none" THEN "posted" ELSE @]
        /\ Suspect(p, Error(o) \cup (IF o = "ok" THEN {} ELSE {"ledger"}))
        /\ Goto(w, IF o = "ok" THEN "settle" ELSE "reverseBank")
    /\ UNCHANGED <<status, left, bank, resv, outbox, errs, scenario>>

SettleWithOutbox(w) ==
    /\ At(w, "settle")
    /\ LET p == P(w) IN \E o \in {"ok", "fail", "lost"} :
        /\ Outcome(o)
        /\ status' = [status EXCEPT ![p] = IF Effect(o) THEN "SETTLED" ELSE @]
        /\ outbox' = [outbox EXCEPT ![p] = IF Effect(o) THEN @ + 1 ELSE @]
        /\ Suspect(p, Error(o) \cup (IF o = "ok" THEN {} ELSE {"settle"}))
        /\ Goto(w, IF o = "ok" THEN "confirm" ELSE "reverseLedger")
    /\ UNCHANGED <<left, bank, resv, ledger, errs, scenario>>

\* An error, a released hold included, is only logged.
ConfirmReservation(w) ==
    /\ At(w, "confirm")
    /\ LET p == P(w) IN \E o \in {"ok", "fail"} :
        /\ Outcome(o)
        /\ resv' = [resv EXCEPT ![p] = IF Effect(o) /\ @ = "HELD" THEN "CONFIRMED" ELSE @]
        /\ Suspect(p, Error(o))
    /\ NextPayment(w)
    /\ UNCHANGED <<status, left, bank, ledger, outbox, scenario>>

-----------------------------------------------------------------------------
(* compensateFull from "reverseLedger", compensate from "reverseBank".     *)

ReverseEntry(w) ==
    /\ At(w, "reverseLedger")
    /\ LET p == P(w) IN \E o \in {"ok", "fail", "lost"} :
        /\ Outcome(o)
        /\ ledger' = [ledger EXCEPT ![p] = IF Effect(o) /\ @ = "posted" THEN "reversed" ELSE @]
        /\ errs' = [errs EXCEPT ![w] = @ \/ o # "ok" \/ ledger[p] = "none"]
        /\ Suspect(p, Error(o) \cup (IF o = "fail" THEN {"ledger"} ELSE {}))
    /\ Goto(w, "reverseBank")
    /\ UNCHANGED <<status, left, bank, resv, outbox, scenario>>

\* A charge the bank has forgotten is NotFound; REJECTED is taken for success.
ReversePayment(w) ==
    /\ At(w, "reverseBank")
    /\ LET p == P(w) IN \E o \in {"ok", "fail", "lost", "refuse"} :
        /\ Outcome(o)
        /\ bank' = [bank EXCEPT ![p] = IF Effect(o) /\ @ = "SETTLED" THEN "REVERSED" ELSE @]
        /\ errs' = [errs EXCEPT ![w] =
                @ \/ o \in {"fail", "lost"} \/ (o = "ok" /\ bank[p] = "forgotten")]
        /\ Suspect(p, Error(o) \cup Refusal(o))
    /\ Goto(w, "release")
    /\ UNCHANGED <<status, left, resv, ledger, outbox, scenario>>

ReleaseReservation(w) ==
    /\ At(w, "release")
    /\ LET p == P(w) IN
       IF ~ hasConsent(p) THEN UNCHANGED <<resv, errs, faults, doubt>>
       ELSE \E o \in {"ok", "fail", "lost"} :
              /\ Outcome(o)
              /\ resv' = [resv EXCEPT ![p] = IF Effect(o) /\ @ = "HELD" THEN "RELEASED" ELSE @]
              /\ errs' = [errs EXCEPT ![w] = @ \/ o # "ok" \/ resv[p] = "CONFIRMED"]
              /\ Suspect(p, Error(o))
    /\ Goto(w, "mark")
    /\ UNCHANGED <<status, left, bank, ledger, outbox, scenario>>

\* MUTANT: the errors are dropped.
FinalStatusIgnoresErrors(w) == "FAILED"
FinalStatus(w) == IF errs[w] THEN "MANUAL_REVIEW" ELSE "FAILED"

Mark(w) ==
    /\ At(w, "mark")
    /\ LET p == P(w) IN \E o \in {"ok", "fail"} :
        /\ Outcome(o)
        /\ status' = [status EXCEPT ![p] = IF Effect(o) THEN FinalStatus(w) ELSE @]
        /\ Suspect(p, Error(o))
    /\ NextPayment(w)
    /\ UNCHANGED <<left, bank, resv, ledger, outbox, scenario>>

-----------------------------------------------------------------------------
\* A replica stops or dies.  On SIGTERM the worker's context is cancelled and
\* every later call fails, the marks included.
Stop(w) ==
    /\ batch[w] # {}
    /\ Outcome("stop")
    /\ batch' = [batch EXCEPT ![w] = {}]
    /\ pc' = [pc EXCEPT ![w] = "next"]
    /\ errs' = [errs EXCEPT ![w] = FALSE]
    /\ Suspect(P(w), {"error"})
    /\ UNCHANGED <<status, left, bank, resv, ledger, outbox, scenario>>

\* The mock bank keeps its payments in memory.
RestartBank ==
    /\ \E p \in Payments : bank[p] \in {"SETTLED", "REVERSED"}
    /\ Outcome("restart")
    /\ bank' = [p \in Payments |-> IF bank[p] = "none" THEN "none" ELSE "forgotten"]
    /\ UNCHANGED <<status, left, resv, ledger, outbox, workVars, scenario, doubt>>

Init ==
    /\ scenario \in Scenarios
    /\ status = [p \in Payments |-> "NONE"] /\ left = [p \in Payments |-> "NONE"]
    /\ bank = [p \in Payments |-> "none"] /\ resv = [p \in Payments |-> "none"]
    /\ ledger = [p \in Payments |-> "none"] /\ outbox = [p \in Payments |-> 0]
    /\ batch = [w \in Workers |-> {}]
    /\ pc = [w \in Workers |-> "next"] /\ errs = [w \in Workers |-> FALSE]
    /\ faults = MaxFaults - scenario.faults
    /\ doubt = [p \in Payments |-> {}]

Work(w) ==
    \/ QueryBank(w)
    \/ PostDoubleEntry(w) \/ SettleWithOutbox(w) \/ ConfirmReservation(w)
    \/ ReverseEntry(w) \/ ReversePayment(w) \/ ReleaseReservation(w) \/ Mark(w)

Next ==
    \/ \E p \in Payments : BecomesStale(p)
    \/ \E w \in Workers : ListStaleInFlightPayments(w) \/ Work(w) \/ Stop(w)
    \/ RestartBank

Spec == Init /\ [][Next]_vars

\* The ticker ticks and every call returns.
Fairness ==
    \A w \in Workers : WF_vars(ListStaleInFlightPayments(w)) /\ WF_vars(Work(w))

FairSpec == Spec /\ Fairness

-----------------------------------------------------------------------------
\* SettleWithOutbox is repeated for a payment only when two workers had a copy
\* of its row at the same time: one worker, with whatever errors, stops and
\* lost replies, publishes one event.
SecondEventOnlyAfterOverlap ==
    \A p \in Payments : outbox[p] > 1 => "overlap" \in doubt[p]

\* ResumeFromLedger: a payment a worker settled has its charge and its entry,
\* unless SettleWithOutbox returned an error, or two workers had it and one of
\* them met an error and compensated.  Overlap alone does no harm.
SettledIsWhole ==
    \A p \in Payments :
        status[p] = "SETTLED"
        => \/ bank[p] # "REVERSED" /\ ledger[p] = "posted"
           \/ "settle" \in doubt[p]
           \/ {"overlap", "error"} \subseteq doubt[p]

\* compensate and MarkFailed: a FAILED payment keeps no hold; no charge, unless the
\* bank answered REJECTED; and no entry, unless a call of the ledger failed, the
\* bank answered REJECTED, or overlapping workers met an error and one compensated
\* what the other had posted.
FailedIsUndone ==
    \A p \in Payments :
        status[p] = "FAILED"
        => /\ resv[p] # "HELD"
           /\ bank[p] # "SETTLED" \/ "refused" \in doubt[p]
           /\ \/ ledger[p] # "posted" \/ doubt[p] \cap {"ledger", "refused"} # {}
              \/ {"overlap", "error"} \subseteq doubt[p]

\* A payment that is skipped at every tick, and one behind so many of them that
\* no tick lists it.
Hopeless(p) == status[p] = "AUTHORISING" /\ bank[p] = "forgotten"
Hidden(p) == Cardinality({q \in Payments : q < p /\ Hopeless(q)}) >= Limit

\* reconcileStalePayments finishes every payment, except those the bank has
\* forgotten and, once Limit of these have piled up, all younger ones.
EventuallyReconciled ==
    \A p \in Payments :
        InFlight(status[p]) ~> status[p] \in Terminal \/ Hopeless(p) \/ Hidden(p)
=============================================================================
