----------------------------- MODULE PaymentSaga -----------------------------
(***************************************************************************)
(* The payment orchestrator: the saga of payment-svc (runSaga and its      *)
(* compensations), RetryPayment, and the ReconciliationWorker that picks   *)
(* up payments whose saga died.                                            *)
(*                                                                         *)
(* Each call to another service or to the database is one action.  A call  *)
(* has an outcome:                                                         *)
(*   "ok"       it did its work and the caller knows;                      *)
(*   "fail"     it did nothing and the caller got an error;                *)
(*   "lost"     it did its work but the caller got an error (a reply lost, *)
(*              a deadline, a commit of unknown outcome);                  *)
(*   "partial"  a repo method whose UPDATE was applied and whose separate  *)
(*              insertEvent then failed, so that it returned an error;     *)
(*   "refuse"   the bank answered 200 REJECTED to a status or reversal     *)
(*              request about a payment it has settled.                    *)
(* All but "ok" are faults, as is "crash", the death of the payment-svc    *)
(* process.  Faults are drawn from a budget (MaxFaults) and from the kinds *)
(* an instance allows (FaultKinds).  A caller whose request context has    *)
(* expired is a run of "fail" outcomes.                                    *)
(*                                                                         *)
(* The worker lists a payment only when its row has not changed for        *)
(* staleAfter (1 minute); a saga cannot be alive by then, because the      *)
(* gateway cancels its context after 30 seconds.  Hence one driver (saga   *)
(* or worker) per payment at a time, the guard pc[p] = "idle" below.       *)
(***************************************************************************)
EXTENDS Naturals

CONSTANTS
    Payments,       \* payment ids, one idempotency key each
    FaultKinds,     \* the fault outcomes that may happen
    MaxFaults,      \* bound on the number of faults
    MaxRetries,     \* bound on RetryPayment calls per payment
    BankAttempts    \* attempts of the bank adapter per call (3 in the code)

ASSUME SagaAssumption ==
    /\ MaxFaults \in Nat
    /\ MaxRetries \in Nat
    /\ BankAttempts \in Nat \ {0}

VARIABLES
    \* the payment row
    status, resId, bankRef,
    \* the saga's or the worker's copy of the payment, and its progress
    memRes, memRef, errs, pc,
    \* the worker: the rest of its list, and the payment it is working on
    batch, worker,
    \* the other services, one entry per payment
    resv, live, nref, ledger, outbox,
    \* bounds
    faults, retries,
    \* history: charges nobody will reverse, and calls with a bad outcome
    orphan, doubt

rowVars == <<status, resId, bankRef>>
memVars == <<memRes, memRef, errs>>
workerVars == <<batch, worker>>
bankVars == <<live, nref>>
vars == <<status, resId, bankRef, memRes, memRef, errs, pc, batch, worker,
          resv, live, nref, ledger, outbox, faults, retries, orphan, doubt>>

InFlight == {"INITIATED", "CONSENT_RESERVED", "RISK_PASSED", "AUTHORISING"}
Terminal == {"SETTLED", "FAILED", "MANUAL_REVIEW"}
Statuses == {"NONE"} \union InFlight \union Terminal
Steps == {"idle", "reserve", "persistConsent", "risk", "persistRisk", "bank",
          "persistBank", "ledger", "settle", "confirm", "reverseLedger",
          "reverseBank", "release", "mark"}
Doubts == {"reserve", "ledger", "status", "settleErr", "settleLost", "confirm"}

\* The payment row, the caller's copy of it, the other services' records and
\* the bookkeeping have their types.
TypeOK ==
    /\ status \in [Payments -> Statuses]
    /\ resId \in [Payments -> BOOLEAN]
    /\ bankRef \in [Payments -> Nat]
    /\ memRes \in [Payments -> BOOLEAN]
    /\ memRef \in [Payments -> Nat]
    /\ errs \in [Payments -> BOOLEAN]
    /\ pc \in [Payments -> Steps]
    /\ batch \in SUBSET Payments
    /\ worker \in SUBSET Payments
    /\ resv \in [Payments -> {"none", "HELD", "CONFIRMED", "RELEASED"}]
    /\ live \in [Payments -> SUBSET Nat]
    /\ nref \in [Payments -> Nat]
    /\ ledger \in [Payments -> {"none", "posted", "reversed"}]
    /\ outbox \in [Payments -> Nat]
    /\ faults \in Nat
    /\ retries \in [Payments -> Nat]
    /\ orphan \in [Payments -> SUBSET Nat]
    /\ doubt \in [Payments -> SUBSET Doubts]

Init ==
    /\ status = [p \in Payments |-> "NONE"]
    /\ resId = [p \in Payments |-> FALSE]
    /\ bankRef = [p \in Payments |-> 0]
    /\ memRes = [p \in Payments |-> FALSE]
    /\ memRef = [p \in Payments |-> 0]
    /\ errs = [p \in Payments |-> FALSE]
    /\ pc = [p \in Payments |-> "idle"]
    /\ batch = {}
    /\ worker = {}
    /\ resv = [p \in Payments |-> "none"]
    /\ live = [p \in Payments |-> {}]
    /\ nref = [p \in Payments |-> 0]
    /\ ledger = [p \in Payments |-> "none"]
    /\ outbox = [p \in Payments |-> 0]
    /\ faults = 0
    /\ retries = [p \in Payments |-> 0]
    /\ orphan = [p \in Payments |-> {}]
    /\ doubt = [p \in Payments |-> {}]

-----------------------------------------------------------------------------
\* A fault of kind k happens, within the budget.
Fault(k) ==
    /\ k \in FaultKinds
    /\ faults < MaxFaults
    /\ faults' = faults + 1

\* A call answers with outcome o.
Answer(o) == IF o = "ok" THEN UNCHANGED faults ELSE Fault(o)

Effect(o) == o \in {"ok", "lost", "partial"}

Goto(p, step) == pc' = [pc EXCEPT ![p] = step]

\* The saga returns, or the worker turns to the next payment of its list.
Finish(p) ==
    /\ Goto(p, "idle")
    /\ worker' = worker \ {p}

Suspect(p, what) == doubt' = [doubt EXCEPT ![p] = @ \union what]

-----------------------------------------------------------------------------
(* The saga, forward. *)

\* CreatePayment inserts the row, then the event; when only the event fails
\* Initiate returns the error and no saga runs.
CreatePayment(p) ==
    /\ status[p] = "NONE"
    /\ \E o \in {"ok", "partial"} :
        /\ Answer(o)
        /\ Goto(p, IF o = "ok" THEN "reserve" ELSE "idle")
    /\ status' = [status EXCEPT ![p] = "INITIATED"]
    /\ UNCHANGED <<resId, bankRef, memVars, workerVars, resv, bankVars,
                   ledger, outbox, retries, orphan, doubt>>

\* Step 1.  The consent service returns the reservation this payment id
\* already has, whatever its status, and otherwise makes a HELD one or refuses
\* (limit, expiry, revocation).  On any error the payment is marked FAILED.
ValidateAndReserve(p) ==
    /\ pc[p] = "reserve"
    /\ \/ \E o \in {"ok", "lost"} :
            /\ Answer(o)
            /\ resv' = [resv EXCEPT ![p] = IF @ = "none" THEN "HELD" ELSE @]
            /\ Suspect(p, IF o = "lost" THEN {"reserve"} ELSE {})
            /\ Goto(p, IF o = "ok" THEN "persistConsent" ELSE "mark")
       \/ /\ \/ resv[p] = "none" /\ UNCHANGED faults
             \/ Fault("fail")
          /\ Goto(p, "mark")
          /\ UNCHANGED <<resv, doubt>>
    /\ UNCHANGED <<rowVars, memVars, workerVars, bankVars, ledger, outbox,
                   retries, orphan>>

\* Either way the copy in memory carries the reservation, so that an error is
\* compensated by releasing it.
UpdateAfterConsent(p) ==
    /\ pc[p] = "persistConsent"
    /\ \E o \in {"ok", "fail", "partial"} :
        /\ Answer(o)
        /\ status' = [status EXCEPT ![p] = IF Effect(o) THEN "CONSENT_RESERVED" ELSE @]
        /\ resId' = [resId EXCEPT ![p] = @ \/ Effect(o)]
        /\ Suspect(p, IF Effect(o) THEN {} ELSE {"reserve"})
        /\ Goto(p, IF o = "ok" THEN "risk" ELSE "release")
    /\ memRes' = [memRes EXCEPT ![p] = TRUE]
    /\ UNCHANGED <<bankRef, memRef, errs, workerVars, resv, bankVars, ledger,
                   outbox, retries, orphan>>

\* Step 2.  ALLOW and REVIEW go on; DECLINE and an error compensate.
Score(p) ==
    /\ pc[p] = "risk"
    /\ \E step \in {"persistRisk", "release"} : Goto(p, step)
    /\ UNCHANGED <<rowVars, memVars, workerVars, resv, bankVars, ledger, outbox,
                   faults, retries, orphan, doubt>>

UpdateAfterRisk(p) ==
    /\ pc[p] = "persistRisk"
    /\ \E o \in {"ok", "fail", "partial"} :
        /\ Answer(o)
        /\ status' = [status EXCEPT ![p] = IF Effect(o) THEN "RISK_PASSED" ELSE @]
        /\ Goto(p, IF o = "ok" THEN "bank" ELSE "release")
    /\ UNCHANGED <<resId, bankRef, memVars, workerVars, resv, bankVars, ledger,
                   outbox, retries, orphan, doubt>>

\* Where a rejection or an error of the bank leads; MUTANT: nothing released.
OnBankErrorMarks == "mark"
OnBankError == "release"

\* The charges one call of the adapter may make: a POST an attempt.
ChargesPerCall == 1..BankAttempts

\* The references of n new charges; every POST the bank serves is a new one.
NewRefs(p, n) == (nref[p] + 1)..(nref[p] + n)

\* Step 3.  The adapter repeats the POST when an attempt seems to have failed
\* and the bank makes a new payment of each POST it serves: n charges, of which
\* the caller learns the last one ("ok") or none ("lost").  A rejection and an
\* error without a charge release the reservation only.
InitiatePayment(p) ==
    /\ pc[p] = "bank"
    /\ \/ \E o \in {"ok", "lost"}, n \in ChargesPerCall :
            /\ IF o = "ok" /\ n = 1 THEN UNCHANGED faults ELSE Fault("lost")
            /\ nref' = [nref EXCEPT ![p] = @ + n]
            /\ live' = [live EXCEPT ![p] = @ \union NewRefs(p, n)]
            /\ orphan' = [orphan EXCEPT ![p] = @ \union
                             NewRefs(p, IF o = "ok" THEN n - 1 ELSE n)]
            /\ Goto(p, IF o = "ok" THEN "persistBank" ELSE OnBankError)
       \/ /\ Goto(p, OnBankError)
          /\ UNCHANGED <<faults, bankVars, orphan>>
    /\ UNCHANGED <<rowVars, memVars, workerVars, resv, ledger, outbox, retries,
                   doubt>>

\* On an error the ref in hand (nref[p]) has not reached the copy in memory,
\* and compensate skips the reversal.
UpdateAfterBank(p) ==
    /\ pc[p] = "persistBank"
    /\ \E o \in {"ok", "fail", "partial"} :
        /\ Answer(o)
        /\ status' = [status EXCEPT ![p] = IF Effect(o) THEN "AUTHORISING" ELSE @]
        /\ bankRef' = [bankRef EXCEPT ![p] = IF Effect(o) THEN nref[p] ELSE @]
        /\ memRef' = [memRef EXCEPT ![p] = IF o = "ok" THEN nref[p] ELSE @]
        /\ orphan' = [orphan EXCEPT ![p] = IF o = "ok" THEN @ ELSE @ \union {nref[p]}]
        /\ Goto(p, IF o = "ok" THEN "ledger" ELSE "reverseBank")
    /\ UNCHANGED <<resId, memRes, errs, workerVars, resv, bankVars, ledger,
                   outbox, retries, doubt>>

\* Step 4, and the first step of ResumeFromLedger.  The ledger returns the
\* entry this payment id already has, reversed or not.  An error compensates
\* the bank and the consent, not the ledger.
PostDoubleEntry(p) ==
    /\ pc[p] = "ledger"
    /\ \E o \in {"ok", "fail", "lost"} :
        /\ Answer(o)
        /\ ledger' = [ledger EXCEPT ![p] = IF Effect(o) /\ @ = "none" THEN "posted" ELSE @]
        /\ Suspect(p, IF o # "ok" /\ ledger'[p] = "posted" THEN {"ledger"} ELSE {})
        /\ Goto(p, IF o = "ok" THEN "settle" ELSE "reverseBank")
    /\ UNCHANGED <<rowVars, memVars, workerVars, resv, bankVars, outbox, retries,
                   orphan>>

\* The outbox rows of a payment that had n, after a settlement with outcome o;
\* MUTANT: the insert outside the transaction that sets SETTLED.
OutboxRowsOutsideTx(o, n) == n + 1
OutboxRows(o, n) == IF Effect(o) THEN n + 1 ELSE n

\* Where an error of SettleWithOutbox leads; MUTANT: without the ledger.
OnSettleErrorSkipsLedger == "reverseBank"
OnSettleError == "reverseLedger"

\* Step 5: one transaction sets SETTLED and inserts the outbox row.
SettleWithOutbox(p) ==
    /\ pc[p] = "settle"
    /\ \E o \in {"ok", "fail", "lost"} :
        /\ Answer(o)
        /\ status' = [status EXCEPT ![p] = IF Effect(o) THEN "SETTLED" ELSE @]
        /\ outbox' = [outbox EXCEPT ![p] = OutboxRows(o, @)]
        /\ Suspect(p, CASE o = "ok"   -> {}
                        [] o = "fail" -> {"settleErr"}
                        [] o = "lost" -> {"settleErr", "settleLost"})
        /\ Goto(p, IF o = "ok" THEN "confirm" ELSE OnSettleError)
    /\ UNCHANGED <<resId, bankRef, memVars, workerVars, resv, bankVars, ledger,
                   retries, orphan>>

\* What a confirm makes of a reservation; MUTANT: nothing.
ConfirmedNothing(r) == r
Confirmed(r) == IF r = "HELD" THEN "CONFIRMED" ELSE r

\* Step 6: HELD becomes CONFIRMED and a consent_usage row is written; RELEASED
\* is a conflict.  An error is only logged.
ConfirmReservation(p) ==
    /\ pc[p] = "confirm"
    /\ \E o \in {"ok", "fail", "lost"} :
        /\ Answer(o)
        /\ resv' = [resv EXCEPT ![p] =
                       IF memRes[p] /\ Effect(o) THEN Confirmed(@) ELSE @]
        /\ Suspect(p, IF o = "fail" THEN {"confirm"} ELSE {})
    /\ Finish(p)
    /\ UNCHANGED <<rowVars, memVars, batch, bankVars, ledger, outbox, retries,
                   orphan>>

-----------------------------------------------------------------------------
(* Compensation: compensateFull starts at "reverseLedger", compensate with
   reverseBank at "reverseBank", without it at "release".  No step stops at an
   error: errors are collected and decide between FAILED and MANUAL_REVIEW. *)

ReverseEntry(p) ==
    /\ pc[p] = "reverseLedger"
    /\ \E o \in {"ok", "fail", "lost"} :
        /\ Answer(o)
        /\ ledger' = [ledger EXCEPT ![p] = IF Effect(o) /\ @ = "posted" THEN "reversed" ELSE @]
        /\ errs' = [errs EXCEPT ![p] = o # "ok" \/ ledger[p] = "none"]
        /\ Suspect(p, IF o = "fail" THEN {"ledger"} ELSE {})
    /\ Goto(p, "reverseBank")
    /\ UNCHANGED <<rowVars, memRes, memRef, workerVars, resv, bankVars, outbox,
                   retries, orphan>>

\* The bank's charges after the reversal of ref.
Reversed(charges, ref) == charges \ {ref}

\* The adapter reports any status the bank answers as success, REJECTED too.
ReversePayment(p) ==
    /\ pc[p] = "reverseBank"
    /\ IF memRef[p] = 0
       THEN UNCHANGED <<faults, live, errs, orphan>>
       ELSE \E o \in {"ok", "fail", "lost", "refuse"} :
              /\ Answer(o)
              /\ live' = [live EXCEPT ![p] = IF Effect(o) THEN Reversed(@, memRef[p]) ELSE @]
              /\ errs' = [errs EXCEPT ![p] = @ \/ o \in {"fail", "lost"}]
              /\ orphan' = [orphan EXCEPT ![p] =
                               IF o = "refuse" THEN @ \union {memRef[p]} ELSE @]
    /\ Goto(p, "release")
    /\ UNCHANGED <<rowVars, memRes, memRef, workerVars, resv, nref, ledger,
                   outbox, retries, doubt>>

\* A CONFIRMED reservation cannot be released: the consent service answers
\* with a conflict.
ReleaseReservation(p) ==
    /\ pc[p] = "release"
    /\ IF ~memRes[p]
       THEN UNCHANGED <<faults, resv, errs>>
       ELSE \E o \in {"ok", "fail", "lost"} :
              /\ Answer(o)
              /\ resv' = [resv EXCEPT ![p] = IF Effect(o) /\ @ = "HELD" THEN "RELEASED" ELSE @]
              /\ errs' = [errs EXCEPT ![p] = @ \/ o # "ok" \/ resv[p] = "CONFIRMED"]
    /\ Goto(p, "mark")
    /\ UNCHANGED <<rowVars, memRes, memRef, workerVars, bankVars, ledger, outbox,
                   retries, orphan, doubt>>

\* MANUAL_REVIEW when a compensating call failed; MUTANTS: the errors dropped,
\* and the status kept.
FinalStatusIgnoresErrors(p) == "FAILED"
FinalStatusKept(p) == status[p]
FinalStatus(p) == IF errs[p] THEN "MANUAL_REVIEW" ELSE "FAILED"

\* MarkFailed and MarkManualReview have no guard on the row's status, and
\* their errors are ignored.
Mark(p) ==
    /\ pc[p] = "mark"
    /\ \E o \in {"ok", "fail"} :
        /\ Answer(o)
        /\ status' = [status EXCEPT ![p] = IF Effect(o) THEN FinalStatus(p) ELSE @]
    /\ Finish(p)
    /\ UNCHANGED <<resId, bankRef, memVars, batch, resv, bankVars, ledger, outbox,
                   retries, orphan, doubt>>

-----------------------------------------------------------------------------
(* RetryPayment, the reconciliation worker and crashes. *)

\* What RetryPayment accepts; MUTANT: payments an operator is looking at too.
RetryableAfterReview(p) == status[p] \in {"FAILED", "MANUAL_REVIEW"}
Retryable(p) == status[p] = "FAILED"

\* The same payment id runs again; reservation, bank ref and risk are cleared
\* in the row.  When only the event fails no saga runs.
ResetForRetry(p) ==
    /\ Retryable(p)
    /\ pc[p] = "idle"
    /\ retries[p] < MaxRetries
    /\ \E o \in {"ok", "partial"} :
        /\ Answer(o)
        /\ Goto(p, IF o = "ok" THEN "reserve" ELSE "idle")
    /\ retries' = [retries EXCEPT ![p] = @ + 1]
    /\ status' = [status EXCEPT ![p] = "INITIATED"]
    /\ resId' = [resId EXCEPT ![p] = FALSE]
    /\ bankRef' = [bankRef EXCEPT ![p] = 0]
    /\ memRes' = [memRes EXCEPT ![p] = FALSE]
    /\ memRef' = [memRef EXCEPT ![p] = 0]
    /\ errs' = [errs EXCEPT ![p] = FALSE]
    /\ UNCHANGED <<workerVars, resv, bankVars, ledger, outbox, orphan, doubt>>

\* The rows a tick may find: in flight, and without a live saga.  MUTANT: the
\* query lists SETTLED rows too.
StaleOrSettled == {p \in Payments : status[p] \in InFlight \union {"SETTLED"} /\ pc[p] = "idle"}
Stale == {p \in Payments : status[p] \in InFlight /\ pc[p] = "idle"}

\* A tick copies a set of stale rows.
ListStaleInFlightPayments ==
    /\ worker = {}
    /\ batch = {}
    /\ \E S \in (SUBSET Stale) \ {{}} :
        /\ batch' = S
        /\ memRes' = [p \in Payments |-> IF p \in S THEN resId[p] ELSE memRes[p]]
        /\ memRef' = [p \in Payments |-> IF p \in S THEN bankRef[p] ELSE memRef[p]]
        /\ errs' = [p \in Payments |-> IF p \in S THEN FALSE ELSE errs[p]]
    /\ UNCHANGED <<rowVars, pc, worker, resv, bankVars, ledger, outbox, faults,
                   retries, orphan, doubt>>

\* The bank's answer to the worker; MUTANT: whatever it is taken for SETTLED.
BankSettledUnchecked(p) == TRUE
BankSettled(p) == memRef[p] \in live[p]

\* The worker resumes at the ledger a payment whose charge the bank reports
\* SETTLED, compensates it otherwise, and leaves it for a later tick when the
\* status query fails.
Reconcile(p) ==
    /\ worker = {}
    /\ p \in batch
    /\ batch' = batch \ {p}
    /\ IF memRef[p] = 0
       THEN /\ Goto(p, "reverseBank")
            /\ worker' = {p}
            /\ UNCHANGED <<faults, doubt>>
       ELSE \E o \in {"ok", "fail", "refuse"} :
              /\ Answer(o)
              /\ Suspect(p, IF o = "refuse" THEN {"status"} ELSE {})
              /\ Goto(p, CASE o = "fail"   -> "idle"
                           [] o = "refuse" -> "reverseBank"
                           [] o = "ok"     -> IF BankSettled(p) THEN "ledger"
                                                               ELSE "reverseBank")
              /\ worker' = IF o = "fail" THEN {} ELSE {p}
    /\ UNCHANGED <<rowVars, memVars, resv, bankVars, ledger, outbox, retries, orphan>>

\* The payment-svc process dies with all its sagas and the worker.  A bank ref
\* or a reservation in hand but not yet in the row is forgotten.
Crash ==
    /\ \E p \in Payments : pc[p] # "idle" \/ p \in batch
    /\ Fault("crash")
    /\ pc' = [p \in Payments |-> "idle"]
    /\ batch' = {}
    /\ worker' = {}
    /\ orphan' = [p \in Payments |-> IF pc[p] = "persistBank"
                                     THEN orphan[p] \union {nref[p]} ELSE orphan[p]]
    /\ doubt' = [p \in Payments |-> doubt[p] \union
                    (CASE pc[p] = "persistConsent" -> {"reserve"}
                       [] pc[p] = "confirm"        -> {"confirm"}
                       [] OTHER                    -> {})]
    /\ UNCHANGED <<rowVars, memVars, resv, bankVars, ledger, outbox, retries>>

\* Every payment has reached a terminal status and nobody asks for a retry.
Quiescent ==
    /\ \A p \in Payments : status[p] \in Terminal /\ pc[p] = "idle"
    /\ UNCHANGED vars

Step(p) ==
    \/ ValidateAndReserve(p) \/ UpdateAfterConsent(p)
    \/ Score(p) \/ UpdateAfterRisk(p)
    \/ InitiatePayment(p) \/ UpdateAfterBank(p)
    \/ PostDoubleEntry(p) \/ SettleWithOutbox(p) \/ ConfirmReservation(p)
    \/ ReverseEntry(p) \/ ReversePayment(p) \/ ReleaseReservation(p) \/ Mark(p)

Next ==
    \/ \E p \in Payments :
        CreatePayment(p) \/ Step(p) \/ ResetForRetry(p) \/ Reconcile(p)
    \/ ListStaleInFlightPayments
    \/ Crash
    \/ Quiescent

Spec == Init /\ [][Next]_vars

\* Every call of a saga or of the worker returns, with an answer or an error;
\* the ticker keeps ticking and the worker works through its list.  Clients
\* owe nothing: no fairness on CreatePayment and ResetForRetry.
Fairness ==
    /\ \A p \in Payments : WF_vars(Step(p)) /\ WF_vars(Reconcile(p))
    /\ WF_vars(ListStaleInFlightPayments)

FairSpec == Spec /\ Fairness

-----------------------------------------------------------------------------
Idle(p) == pc[p] = "idle"

\* compensate and the worker: a FAILED payment has no live charge at the bank
\* but the ones the orchestrator was never told of (a reply lost between
\* adapter and saga, a ref that UpdateAfterBank or a crash lost) and the ones
\* whose reversal the bank refused with a 200 answer.
FailedLeavesOnlyOrphans ==
    \A p \in Payments : status[p] = "FAILED" /\ Idle(p) => live[p] \subseteq orphan[p]

\* A SETTLED payment has its charge at the bank and its entry in the ledger,
\* unless SettleWithOutbox once returned an error and compensateFull ran.
SettledIsBacked ==
    \A p \in Payments : status[p] = "SETTLED" =>
        \/ bankRef[p] \in live[p] /\ ledger[p] = "posted"
        \/ "settleErr" \in doubt[p]

\* A FAILED payment has no standing ledger entry unless a ledger call had a
\* bad outcome or the bank denied a charge it had settled.
FailedIsNotPosted ==
    \A p \in Payments : status[p] = "FAILED" /\ ledger[p] = "posted" =>
        doubt[p] \intersect {"ledger", "status"} # {}

\* A FAILED payment keeps no consent headroom reserved unless the reservation
\* never got into its row.
FailedHoldsNothing ==
    \A p \in Payments : status[p] = "FAILED" /\ Idle(p) /\ resv[p] = "HELD" =>
        "reserve" \in doubt[p]

\* The hold of a SETTLED payment was confirmed (or released by an earlier
\* compensation) unless the confirm call failed or never happened, or the
\* settlement's outcome was unknown.
SettledHoldIsResolved ==
    \A p \in Payments : status[p] = "SETTLED" /\ Idle(p) =>
        \/ resv[p] \in {"CONFIRMED", "RELEASED"}
        \/ doubt[p] \intersect {"confirm", "settleLost"} # {}

\* SETTLED and the outbox row come and go together: a settled payment has its
\* event, at most one, and no other payment has one; only a commit of unknown
\* outcome breaks this.
EventIffSettled ==
    \A p \in Payments :
        \/ outbox[p] = (IF status[p] = "SETTLED" THEN 1 ELSE 0)
        \/ "settleLost" \in doubt[p] /\ outbox[p] > 0

\* Confirmed usage is permanent: no step takes a CONFIRMED reservation away,
\* and its payment is and stays SETTLED.
ConfirmedIsPermanent ==
    [][\A p \in Payments : resv[p] = "CONFIRMED" =>
          /\ resv'[p] = "CONFIRMED"
          /\ status[p] = "SETTLED" /\ status'[p] = "SETTLED"]_vars

\* Every payment that enters the saga ends SETTLED, FAILED or MANUAL_REVIEW,
\* whatever crashes and errors befall it on the way.
EventuallyTerminal ==
    \A p \in Payments : status[p] \in InFlight ~> status[p] \in Terminal

Lifecycle == INSTANCE PaymentLifecycle WITH events <- outbox

\* runSaga, its compensations, retries and the worker together implement the
\* payment lifecycle: no interleaving of failures skips a status, settles
\* without the ledger, or separates SETTLED from its event.
ImplementsLifecycle == Lifecycle!Spec

-----------------------------------------------------------------------------
(* The inductive invariant, in parts.  Each relates, for one payment, the
   driver's step, the row, the driver's copy and one of the other services. *)

\* Where the driver is tells what the row holds and what the copy holds.
ControlInv(p) ==
    /\ pc[p] \in {"reserve", "persistConsent"} =>
         status[p] = "INITIATED" /\ ~memRes[p] /\ memRef[p] = 0 /\ ~errs[p]
    /\ pc[p] \in {"risk", "persistRisk"} =>
         status[p] = "CONSENT_RESERVED" /\ memRes[p] /\ memRef[p] = 0 /\ ~errs[p]
    /\ pc[p] \in {"bank", "persistBank"} =>
         status[p] = "RISK_PASSED" /\ memRes[p] /\ memRef[p] = 0 /\ ~errs[p]
    /\ pc[p] \in {"ledger", "settle"} =>
         status[p] = "AUTHORISING" /\ memRes[p] /\ memRef[p] = bankRef[p] /\ ~errs[p]
    /\ pc[p] = "confirm" => status[p] = "SETTLED" /\ memRes[p]
    /\ pc[p] = "reverseLedger" =>
         /\ status[p] \in {"AUTHORISING", "SETTLED"}
         /\ memRes[p] /\ memRef[p] = bankRef[p] /\ ~errs[p]
    /\ pc[p] \in {"reverseBank", "release", "mark"} =>
         status[p] \in InFlight \union {"SETTLED"}
    /\ p \in batch =>
         /\ pc[p] = "idle" /\ status[p] \in InFlight
         /\ memRes[p] = resId[p] /\ memRef[p] = bankRef[p] /\ ~errs[p]

\* What the row's status tells about its other columns.
RowInv(p) ==
    /\ status[p] = "NONE" => pc[p] = "idle" /\ ~memRes[p] /\ memRef[p] = 0 /\ ~errs[p]
    /\ status[p] \in {"NONE", "INITIATED"} => ~resId[p]
    /\ status[p] \in {"CONSENT_RESERVED", "RISK_PASSED", "AUTHORISING", "SETTLED"} => resId[p]
    /\ status[p] \in {"NONE", "INITIATED", "CONSENT_RESERVED", "RISK_PASSED"} => bankRef[p] = 0
    /\ status[p] \in {"AUTHORISING", "SETTLED"} => bankRef[p] # 0
    /\ bankRef[p] <= nref[p]
    /\ retries[p] <= MaxRetries

\* Every live charge is an orphan or the one the driver or the row knows.
BankInv(p) ==
    /\ live[p] \subseteq 1..nref[p]
    /\ \A r \in live[p] \ orphan[p] : r = bankRef[p] \/ (pc[p] = "persistBank" /\ r = nref[p])
    /\ pc[p] = "persistBank" => nref[p] \in live[p]
    /\ pc[p] \in {"ledger", "settle"} => bankRef[p] \in live[p]
    /\ pc[p] = "reverseBank" => memRef[p] = bankRef[p] \/ live[p] \subseteq orphan[p]
    /\ pc[p] \in {"release", "mark"} /\ ~errs[p] => live[p] \subseteq orphan[p]
    /\ status[p] = "FAILED" => live[p] \subseteq orphan[p]

\* SETTLED, the outbox and the errors of SettleWithOutbox.
SettleInv(p) ==
    /\ "settleLost" \in doubt[p] => "settleErr" \in doubt[p] /\ outbox[p] > 0
    /\ "settleLost" \notin doubt[p] => outbox[p] = (IF status[p] = "SETTLED" THEN 1 ELSE 0)
    /\ status[p] = "SETTLED" /\ pc[p] \notin {"idle", "confirm"} => "settleLost" \in doubt[p]
    /\ pc[p] = "reverseLedger" \/ ledger[p] = "reversed" => "settleErr" \in doubt[p]
    /\ pc[p] = "settle" => ledger[p] # "none"
    /\ status[p] = "SETTLED" =>
         \/ bankRef[p] \in live[p] /\ ledger[p] = "posted"
         \/ "settleErr" \in doubt[p]

\* A standing ledger entry belongs to a payment that is on its way to SETTLED
\* or there, unless a ledger call or a status answer went wrong.
LedgerInv(p) ==
    ledger[p] = "posted" /\ "ledger" \notin doubt[p] /\ "status" \notin doubt[p] =>
        /\ status[p] \in {"AUTHORISING", "SETTLED"}
        /\ pc[p] \in {"idle", "ledger", "settle", "confirm", "reverseLedger"}
        /\ status[p] = "AUTHORISING" => bankRef[p] \in live[p]

\* The reservation: known to whoever may have to release it.
ReservationInv(p) ==
    /\ memRes[p] \/ resId[p] \/ pc[p] = "persistConsent" => resv[p] # "none"
    /\ resv[p] = "CONFIRMED" => status[p] = "SETTLED" /\ pc[p] = "idle"
    /\ resv[p] = "HELD" /\ "reserve" \notin doubt[p] =>
         /\ status[p] \notin {"NONE", "FAILED"}
         /\ status[p] = "INITIATED" => pc[p] = "persistConsent"
         /\ pc[p] \in {"reverseBank", "release"} => memRes[p]
         /\ pc[p] = "mark" => errs[p]
    /\ status[p] = "SETTLED" /\ pc[p] = "idle" =>
         \/ resv[p] \in {"CONFIRMED", "RELEASED"}
         \/ "confirm" \in doubt[p] \/ "settleLost" \in doubt[p]

PaymentInv(p) ==
    /\ ControlInv(p)
    /\ RowInv(p)
    /\ BankInv(p)
    /\ SettleInv(p)
    /\ LedgerInv(p)
    /\ ReservationInv(p)

\* The inductive invariant of the saga, its compensations and the worker.
Inv == TypeOK /\ \A p \in Payments : PaymentInv(p)
=============================================================================
