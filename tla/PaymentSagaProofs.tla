-------------------------- MODULE PaymentSagaProofs --------------------------
(***************************************************************************)
(* Proofs about PaymentSaga, for any set of payments, any kinds of faults  *)
(* and any bounds.  The invariant Inv is inductive: an action on one       *)
(* payment leaves what Inv says of the others alone (Frame), so that each  *)
(* action needs an argument about one payment only: the lemmas of          *)
(* PaymentSagaStepProofs.                                                  *)
(*                                                                         *)
(* PaymentSaga also implements PaymentLifecycle: its initial states are    *)
(* initial states of the lifecycle, and each of its steps is a lifecycle   *)
(* step or leaves status, ledger and outbox alone.  Inv tells which status *)
(* a step starts from.                                                     *)
(***************************************************************************)
EXTENDS PaymentSagaStepProofs

\* The step leaves payment q alone, except that the worker may drop it from
\* its list.
Same(q) ==
    /\ status'[q] = status[q] /\ resId'[q] = resId[q] /\ bankRef'[q] = bankRef[q]
    /\ memRes'[q] = memRes[q] /\ memRef'[q] = memRef[q] /\ errs'[q] = errs[q]
    /\ pc'[q] = pc[q]
    /\ q \in batch' => q \in batch
    /\ resv'[q] = resv[q] /\ live'[q] = live[q] /\ nref'[q] = nref[q]
    /\ ledger'[q] = ledger[q] /\ outbox'[q] = outbox[q]
    /\ retries'[q] = retries[q]
    /\ orphan'[q] = orphan[q] /\ doubt'[q] = doubt[q]

\* What Inv says of a payment is kept by a step that leaves it alone.
LEMMA Frame ==
    ASSUME NEW q \in Payments, PaymentInv(q), Same(q)
    PROVE  PaymentInv(q)'
<1>1. ControlInv(q)'
  BY SMTT(60) DEF PaymentInv, ControlInv, Same
<1>2. RowInv(q)'
  BY SMTT(60) DEF PaymentInv, RowInv, Same
<1>3. BankInv(q)'
  BY SMTT(60) DEF PaymentInv, BankInv, Same
<1>4. SettleInv(q)'
  BY SMTT(60) DEF PaymentInv, SettleInv, Same
<1>5. LedgerInv(q)'
  BY SMTT(60) DEF PaymentInv, LedgerInv, Same
<1>6. ReservationInv(q)'
  BY SMTT(60) DEF PaymentInv, ReservationInv, Same
<1>. QED
  BY <1>1, <1>2, <1>3, <1>4, <1>5, <1>6, SMTT(60) DEF PaymentInv

\* The empty database satisfies Inv.
LEMMA InitInv == Init => Inv
<1>. SUFFICES ASSUME Init PROVE Inv
  OBVIOUS
<1>1. TypeOK
  BY SMTT(60) DEF Init, TypeOK, Statuses, Steps
<1>2. ASSUME NEW p \in Payments PROVE PaymentInv(p)
  BY SagaAssumption, SMTT(60) DEF Init, PaymentInv, ControlInv, RowInv, BankInv, SettleInv,
     LedgerInv,
     ReservationInv
<1>. QED
  BY <1>1, <1>2, SMTT(60) DEF Inv

\* An operation on one payment.
Act(p) == CreatePayment(p) \/ Step(p) \/ ResetForRetry(p) \/ Reconcile(p)

\* An operation on one payment leaves the others alone.
LEMMA OthersUntouched ==
    ASSUME Inv, NEW p \in Payments, Act(p), NEW q \in Payments \ {p}
    PROVE  Same(q)
<1>. USE DEF Inv, TypeOK, Same, Goto
<1>1. CASE CreatePayment(p)
  BY <1>1, SMTT(60) DEF CreatePayment, memVars, workerVars, bankVars
<1>2. CASE ValidateAndReserve(p)
  BY <1>2, SMTT(60) DEF ValidateAndReserve, Suspect, rowVars, memVars, workerVars, bankVars
<1>3. CASE UpdateAfterConsent(p)
  BY <1>3, SMTT(60) DEF UpdateAfterConsent, Suspect, workerVars, bankVars
<1>4. CASE Score(p)
  BY <1>4, SMTT(60) DEF Score, rowVars, memVars, workerVars, bankVars
<1>5. CASE UpdateAfterRisk(p)
  BY <1>5, SMTT(60) DEF UpdateAfterRisk, memVars, workerVars, bankVars
<1>6. CASE InitiatePayment(p)
  BY <1>6, SMTT(60) DEF InitiatePayment, rowVars, memVars, workerVars, bankVars
<1>7. CASE UpdateAfterBank(p)
  BY <1>7, SMTT(60) DEF UpdateAfterBank, workerVars, bankVars
<1>8. CASE PostDoubleEntry(p)
  BY <1>8, SMTT(60) DEF PostDoubleEntry, Suspect, rowVars, memVars, workerVars, bankVars
<1>9. CASE SettleWithOutbox(p)
  BY <1>9, SMTT(60) DEF SettleWithOutbox, Suspect, memVars, workerVars, bankVars
<1>10. CASE ConfirmReservation(p)
  BY <1>10, SMTT(60) DEF ConfirmReservation, Suspect, Finish, rowVars, memVars, bankVars
<1>11. CASE ReverseEntry(p)
  BY <1>11, SMTT(60) DEF ReverseEntry, Suspect, rowVars, workerVars, bankVars
<1>12. CASE ReversePayment(p)
  BY <1>12, SMTT(60) DEF ReversePayment, rowVars, workerVars
<1>13. CASE ReleaseReservation(p)
  BY <1>13, SMTT(60) DEF ReleaseReservation, rowVars, workerVars, bankVars
<1>14. CASE Mark(p)
  BY <1>14, SMTT(60) DEF Mark, Finish, memVars, bankVars
<1>15. CASE ResetForRetry(p)
  BY <1>15, SMTT(60) DEF ResetForRetry, workerVars, bankVars
<1>16. CASE Reconcile(p)
  BY <1>16, SMTT(60) DEF Reconcile, Suspect, rowVars, memVars, bankVars
<1>. HIDE DEF Inv, TypeOK, Same, Goto
<1>. QED
  BY <1>1, <1>2, <1>3, <1>4, <1>5, <1>6, <1>7, <1>8, <1>9, <1>10, <1>11, <1>12, <1>13,
     <1>14, <1>15, <1>16, ZenonT(60) DEF Act, Step

\* ListStaleInFlightPayments keeps Inv.
LEMMA ListStaleInFlightPaymentsInv ==
    ASSUME Inv, ListStaleInFlightPayments
    PROVE  Inv'
<1>. USE DEF ListStaleInFlightPayments, Stale, rowVars, bankVars
<1>1. TypeOK'
  <2>1. PICK S \in SUBSET Payments :
          /\ batch' = S
          /\ memRes' = [p \in Payments |-> IF p \in S THEN resId[p] ELSE memRes[p]]
          /\ memRef' = [p \in Payments |-> IF p \in S THEN bankRef[p] ELSE memRef[p]]
          /\ errs' = [p \in Payments |-> IF p \in S THEN FALSE ELSE errs[p]]
    BY ZenonT(60)
  <2>2. UNCHANGED <<rowVars, pc, worker, resv, bankVars, ledger, outbox, faults, retries,
                    orphan, doubt>>
    OBVIOUS
  <2>. HIDE DEF ListStaleInFlightPayments, Stale
  <2>3. /\ resId \in [Payments -> BOOLEAN] /\ memRes \in [Payments -> BOOLEAN]
        /\ bankRef \in [Payments -> Nat] /\ memRef \in [Payments -> Nat]
        /\ errs \in [Payments -> BOOLEAN]
    BY SMTT(60) DEF Inv, TypeOK
  <2>4. batch' \in SUBSET Payments
    BY <2>1
  <2>5. memRes' \in [Payments -> BOOLEAN] /\ errs' \in [Payments -> BOOLEAN]
    BY <2>1, <2>3, ZenonT(60)
  <2>6. memRef' \in [Payments -> Nat]
    BY <2>1, <2>3, ZenonT(60)
  <2>. QED
    BY <2>2, <2>4, <2>5, <2>6, ZenonT(60) DEF Inv, TypeOK
<1>2. ASSUME NEW q \in Payments PROVE PaymentInv(q)'
  <2>1. CASE q \notin batch'
    <3>1. Same(q)
      BY <2>1, SMTT(60) DEF Inv, TypeOK, Same
    <3>. QED
      BY <3>1, Frame, SMTT(60) DEF Inv
  <2>2. CASE q \in batch'
    <3>1. /\ status[q] \in InFlight /\ pc[q] = "idle"
          /\ memRes'[q] = resId[q] /\ memRef'[q] = bankRef[q] /\ errs'[q] = FALSE
      BY <2>2, SMTT(60) DEF Inv, TypeOK
    <3>2. ControlInv(q)'
      BY <3>1, SMTT(60) DEF Inv, TypeOK, PaymentInv, ControlInv, InFlight
    <3>3. RowInv(q)'
      BY <3>1, SMTT(60) DEF Inv, TypeOK, PaymentInv, RowInv, InFlight
    <3>4. BankInv(q)'
      BY <3>1, SMTT(60) DEF Inv, TypeOK, PaymentInv, BankInv, InFlight
    <3>5. SettleInv(q)' /\ LedgerInv(q)'
      BY <3>1, SMTT(60) DEF Inv, TypeOK, PaymentInv, SettleInv, LedgerInv, InFlight
    <3>6. ReservationInv(q)'
      BY <3>1, SMTT(60) DEF Inv, TypeOK, PaymentInv, ReservationInv, InFlight
    <3>. QED
      BY <3>2, <3>3, <3>4, <3>5, <3>6, SMTT(60) DEF PaymentInv
  <2>. QED
    BY <2>1, <2>2
<1>. QED
  BY <1>1, <1>2, ZenonT(60) DEF Inv

\* A crash keeps Inv.
LEMMA CrashInv ==
    ASSUME Inv, Crash
    PROVE  Inv'
<1>. USE DEF Crash, Fault, rowVars, memVars, bankVars
<1>1. TypeOK'
  BY SMTT(60) DEF Inv, TypeOK, Steps, Doubts
<1>2. ASSUME NEW q \in Payments PROVE PaymentInv(q)'
  <2>1. ControlInv(q)' /\ RowInv(q)'
    BY SMTT(60) DEF Inv, TypeOK, PaymentInv, ControlInv, RowInv, InFlight
  <2>2. BankInv(q)'
    BY SMTT(60) DEF Inv, TypeOK, PaymentInv, ControlInv, RowInv, BankInv, InFlight
  <2>3. SettleInv(q)'
    BY SMTT(60) DEF Inv, TypeOK, PaymentInv, SettleInv, InFlight
  <2>4. LedgerInv(q)'
    BY SMTT(60) DEF Inv, TypeOK, PaymentInv, LedgerInv, InFlight
  <2>5. ReservationInv(q)'
    BY SMTT(60) DEF Inv, TypeOK, PaymentInv, ControlInv, RowInv, SettleInv, ReservationInv,
       InFlight
  <2>. QED
    BY <2>1, <2>2, <2>3, <2>4, <2>5, SMTT(60) DEF PaymentInv
<1>. QED
  BY <1>1, <1>2, SMTT(60) DEF Inv

\* So does a step that changes nothing.
LEMMA StutterInv ==
    ASSUME Inv, UNCHANGED vars
    PROVE  Inv'
<1>1. TypeOK'
  BY SMTT(60) DEF Inv, TypeOK, vars
<1>2. \A q \in Payments : Same(q)
  BY ZenonT(60) DEF vars, Same
<1>. QED
  BY <1>1, <1>2, Frame, SMTT(60) DEF Inv

\* Every step of a saga, of a compensation, of the worker and every crash
\* keeps Inv.
LEMMA NextInv == Inv /\ [Next]_vars => Inv'
<1>. SUFFICES ASSUME Inv, [Next]_vars PROVE Inv'
  OBVIOUS
<1>1. ASSUME NEW p \in Payments, Act(p)
      PROVE  Inv'
  <2>1. TypeOK' /\ PaymentInv(p)'
    BY <1>1, CreatePaymentInv, ResetForRetryInv, ReconcileInv, ValidateAndReserveInv,
       UpdateAfterConsentInv, ScoreInv, UpdateAfterRiskInv, InitiatePaymentInv,
       UpdateAfterBankInv, PostDoubleEntryInv, SettleWithOutboxInv, ConfirmReservationInv,
       ReverseEntryInv, ReversePaymentInv, ReleaseReservationInv, MarkInv DEF Act, Step
  <2>2. \A q \in Payments \ {p} : PaymentInv(q)'
    BY <1>1, OthersUntouched, Frame, SMTT(60) DEF Inv
  <2>. QED
    BY <2>1, <2>2, SMTT(60) DEF Inv
<1>2. CASE ListStaleInFlightPayments
  BY <1>2, ListStaleInFlightPaymentsInv
<1>3. CASE Crash
  BY <1>3, CrashInv
<1>4. CASE Quiescent \/ UNCHANGED vars
  BY <1>4, StutterInv, SMTT(60) DEF Quiescent
<1>. QED
  BY <1>1, <1>2, <1>3, <1>4, SMTT(60) DEF Next, Act

\* Inv holds in every state of the saga, its compensations and the worker.
THEOREM Invariance == Spec => []Inv
  BY InitInv, NextInv, PTL DEF Spec

\* The row, the driver's copy and the services' records keep their types.
THEOREM TypeCorrect == Spec => []TypeOK
  BY Invariance, PTL DEF Inv

\* compensate and the worker leave at the bank, of a FAILED payment, only the
\* charges nobody could have reversed.
THEOREM FailedPaymentsLeaveOnlyOrphans == Spec => []FailedLeavesOnlyOrphans
<1>1. Inv => FailedLeavesOnlyOrphans
  BY ZenonT(60) DEF Inv, PaymentInv, BankInv, FailedLeavesOnlyOrphans
<1>. QED
  BY <1>1, Invariance, PTL

\* runSaga and ResumeFromLedger settle only what the bank charged and the
\* ledger posted.
THEOREM SettledPaymentsAreBacked == Spec => []SettledIsBacked
<1>1. Inv => SettledIsBacked
  BY ZenonT(60) DEF Inv, PaymentInv, SettleInv, SettledIsBacked
<1>. QED
  BY <1>1, Invariance, PTL

\* compensateFull takes the ledger entry of a FAILED payment back.
THEOREM FailedPaymentsAreNotPosted == Spec => []FailedIsNotPosted
<1>1. Inv => FailedIsNotPosted
  BY ZenonT(60) DEF Inv, PaymentInv, LedgerInv, FailedIsNotPosted
<1>. QED
  BY <1>1, Invariance, PTL

\* compensate gives the hold of a FAILED payment back, unless the answer of the
\* call that made it was lost.
THEOREM FailedPaymentsHoldNothing == Spec => []FailedHoldsNothing
<1>1. Inv => FailedHoldsNothing
  BY ZenonT(60) DEF Inv, PaymentInv, ReservationInv, FailedHoldsNothing
<1>. QED
  BY <1>1, Invariance, PTL

\* A SETTLED payment nobody works on has its hold confirmed or released, unless
\* ConfirmReservation or SettleWithOutbox ended in doubt.
THEOREM SettledHoldsAreResolved == Spec => []SettledHoldIsResolved
<1>1. Inv => SettledHoldIsResolved
  BY ZenonT(60) DEF Inv, PaymentInv, ReservationInv, SettledHoldIsResolved, Idle
<1>. QED
  BY <1>1, Invariance, PTL

\* SettleWithOutbox keeps SETTLED and the outbox row together.
THEOREM EventsMatchSettlements == Spec => []EventIffSettled
<1>1. Inv => EventIffSettled
  BY ZenonT(60) DEF Inv, PaymentInv, SettleInv, EventIffSettled
<1>. QED
  BY <1>1, Invariance, PTL

\* No step takes a CONFIRMED reservation away or un-settles its payment.
THEOREM ConfirmedReservationsArePermanent == Spec => ConfirmedIsPermanent
<1>1. ASSUME Inv, [Next]_vars, NEW p \in Payments, resv[p] = "CONFIRMED"
      PROVE  /\ resv'[p] = "CONFIRMED"
             /\ status[p] = "SETTLED" /\ status'[p] = "SETTLED"
  <2>1. status[p] = "SETTLED" /\ pc[p] = "idle" /\ p \notin batch
    BY <1>1, ZenonT(60) DEF Inv, PaymentInv, ReservationInv, ControlInv, InFlight
  <2>2. ~Act(p)
    BY <2>1, SMTT(60) DEF Act, CreatePayment, ResetForRetry, Retryable, Reconcile, Step,
       ValidateAndReserve, UpdateAfterConsent, Score, UpdateAfterRisk, InitiatePayment,
       UpdateAfterBank, PostDoubleEntry, SettleWithOutbox, ConfirmReservation,
       ReverseEntry, ReversePayment, ReleaseReservation, Mark
  <2>3. ASSUME NEW q \in Payments, Act(q) PROVE resv'[p] = resv[p] /\ status'[p] = status[p]
    BY <1>1, <2>2, <2>3, OthersUntouched, SMTT(60) DEF Same
  <2>4. CASE ListStaleInFlightPayments \/ Crash
    BY <1>1, <2>1, <2>4, ZenonT(60) DEF ListStaleInFlightPayments, Crash, rowVars
  <2>5. CASE Quiescent \/ UNCHANGED vars
    BY <1>1, <2>1, <2>5, SMTT(60) DEF Quiescent, vars
  <2>. QED
    BY <1>1, <2>1, <2>3, <2>4, <2>5 DEF Next, Act
<1>2. Inv /\ [Next]_vars =>
        [\A p \in Payments : resv[p] = "CONFIRMED" =>
             /\ resv'[p] = "CONFIRMED"
             /\ status[p] = "SETTLED" /\ status'[p] = "SETTLED"]_vars
  BY <1>1
<1>. QED
  BY <1>2, Invariance, PTL DEF Spec, ConfirmedIsPermanent

-----------------------------------------------------------------------------
(* The lifecycle.                                                          *)

\* A step the lifecycle does not see.
Hidden == UNCHANGED <<status, ledger, outbox>>

\* The steps that create or advance a payment.
LEMMA ForwardStep ==
    ASSUME Inv, NEW p \in Payments,
           \/ CreatePayment(p) \/ ResetForRetry(p) \/ UpdateAfterConsent(p)
           \/ UpdateAfterRisk(p) \/ UpdateAfterBank(p)
    PROVE  Hidden \/ Lifecycle!Start(p) \/ Lifecycle!Advance(p)
<1>0. /\ status \in [Payments -> Statuses]
      /\ pc[p] = "persistConsent" => status[p] = "INITIATED"
      /\ pc[p] = "persistRisk" => status[p] = "CONSENT_RESERVED"
      /\ pc[p] = "persistBank" => status[p] = "RISK_PASSED"
  BY SMTT(60) DEF Inv, TypeOK, PaymentInv, ControlInv
<1>. USE DEF Hidden, Effect, Lifecycle!Start, Lifecycle!Advance, Lifecycle!Become
<1>1. CASE CreatePayment(p)
  BY <1>0, <1>1, SMTT(60) DEF CreatePayment
<1>2. CASE ResetForRetry(p)
  BY <1>0, <1>2, SMTT(60) DEF ResetForRetry, Retryable
<1>3. CASE UpdateAfterConsent(p)
  <2>1. status' = status \/ status' = [status EXCEPT ![p] = "CONSENT_RESERVED"]
    <3>1. PICK o \in {"ok", "fail", "partial"} :
            status' = [status EXCEPT ![p] = IF Effect(o) THEN "CONSENT_RESERVED" ELSE @]
      BY <1>3 DEF UpdateAfterConsent
    <3>2. CASE o = "fail"
      BY <1>0, <3>1, <3>2
    <3>3. CASE o \in {"ok", "partial"}
      BY <3>1, <3>3
    <3>. QED
      BY <3>2, <3>3
  <2>2. status[p] = "INITIATED" /\ UNCHANGED <<ledger, outbox>>
    BY <1>0, <1>3 DEF UpdateAfterConsent
  <2>. QED
    BY <2>1, <2>2
<1>4. CASE UpdateAfterRisk(p)
  <2>1. status' = status \/ status' = [status EXCEPT ![p] = "RISK_PASSED"]
    <3>1. PICK o \in {"ok", "fail", "partial"} :
            status' = [status EXCEPT ![p] = IF Effect(o) THEN "RISK_PASSED" ELSE @]
      BY <1>4 DEF UpdateAfterRisk
    <3>2. CASE o = "fail"
      BY <1>0, <3>1, <3>2
    <3>3. CASE o \in {"ok", "partial"}
      BY <3>1, <3>3
    <3>. QED
      BY <3>2, <3>3
  <2>2. status[p] = "CONSENT_RESERVED" /\ UNCHANGED <<ledger, outbox>>
    BY <1>0, <1>4 DEF UpdateAfterRisk
  <2>. QED
    BY <2>1, <2>2
<1>5. CASE UpdateAfterBank(p)
  <2>1. status' = status \/ status' = [status EXCEPT ![p] = "AUTHORISING"]
    <3>1. PICK o \in {"ok", "fail", "partial"} :
            status' = [status EXCEPT ![p] = IF Effect(o) THEN "AUTHORISING" ELSE @]
      BY <1>5 DEF UpdateAfterBank
    <3>2. CASE o = "fail"
      BY <1>0, <3>1, <3>2
    <3>3. CASE o \in {"ok", "partial"}
      BY <3>1, <3>3
    <3>. QED
      BY <3>2, <3>3
  <2>2. status[p] = "RISK_PASSED" /\ UNCHANGED <<ledger, outbox>>
    BY <1>0, <1>5 DEF UpdateAfterBank
  <2>. QED
    BY <2>1, <2>2
<1>. QED
  BY <1>1, <1>2, <1>3, <1>4, <1>5

\* The steps on the ledger and the outbox.
LEMMA LedgerStep ==
    ASSUME Inv, NEW p \in Payments,
           PostDoubleEntry(p) \/ SettleWithOutbox(p) \/ ReverseEntry(p)
    PROVE  Hidden \/ Lifecycle!Post(p) \/ Lifecycle!Settle(p) \/ Lifecycle!Unpost(p)
<1>0. /\ status \in [Payments -> Statuses]
      /\ ledger \in [Payments -> {"none", "posted", "reversed"}]
      /\ outbox \in [Payments -> Nat]
      /\ pc[p] \in {"ledger", "settle"} => status[p] = "AUTHORISING"
      /\ pc[p] = "reverseLedger" => status[p] \in {"AUTHORISING", "SETTLED"}
      /\ pc[p] = "settle" => ledger[p] # "none"
  BY SMTT(60) DEF Inv, TypeOK, PaymentInv, ControlInv, SettleInv
<1>. USE DEF Hidden, Effect, Lifecycle!Post, Lifecycle!Settle, Lifecycle!Unpost,
         Lifecycle!Become
<1>1. CASE PostDoubleEntry(p)
  <2>1. pc[p] = "ledger" /\ status' = status /\ outbox' = outbox
    BY <1>1 DEF PostDoubleEntry, rowVars
  <2>2. PICK o \in {"ok", "fail", "lost"} :
          ledger' = [ledger EXCEPT ![p] = IF Effect(o) /\ @ = "none" THEN "posted" ELSE @]
    BY <1>1 DEF PostDoubleEntry
  <2>3. CASE Effect(o) /\ ledger[p] = "none"
    BY <1>0, <2>1, <2>2, <2>3
  <2>4. CASE ~(Effect(o) /\ ledger[p] = "none")
    <3>1. ledger' = ledger
      BY <1>0, <2>2, <2>4
    <3>. QED
      BY <2>1, <3>1
  <2>. QED
    BY <2>3, <2>4
<1>2. CASE SettleWithOutbox(p)
  <2>1. \/ status' = status /\ outbox' = outbox
        \/ /\ status' = [status EXCEPT ![p] = "SETTLED"]
           /\ outbox' = [outbox EXCEPT ![p] = @ + 1]
    <3>1. PICK o \in {"ok", "fail", "lost"} :
            /\ status' = [status EXCEPT ![p] = IF Effect(o) THEN "SETTLED" ELSE @]
            /\ outbox' = [outbox EXCEPT ![p] = OutboxRows(o, @)]
      BY <1>2 DEF SettleWithOutbox
    <3>2. CASE o = "fail"
      BY <1>0, <3>1, <3>2 DEF OutboxRows
    <3>3. CASE o \in {"ok", "lost"}
      BY <1>0, <3>1, <3>3 DEF OutboxRows
    <3>. QED
      BY <3>2, <3>3
  <2>2. pc[p] = "settle" /\ ledger' = ledger
    BY <1>2 DEF SettleWithOutbox
  <2>. QED
    BY <1>0, <2>1, <2>2
<1>3. CASE ReverseEntry(p)
  <2>1. pc[p] = "reverseLedger" /\ status' = status /\ outbox' = outbox
    BY <1>3 DEF ReverseEntry, rowVars
  <2>2. PICK o \in {"ok", "fail", "lost"} :
          ledger' = [ledger EXCEPT ![p] =
                        IF Effect(o) /\ @ = "posted" THEN "reversed" ELSE @]
    BY <1>3 DEF ReverseEntry
  <2>3. CASE Effect(o) /\ ledger[p] = "posted"
    BY <1>0, <2>1, <2>2, <2>3
  <2>4. CASE ~(Effect(o) /\ ledger[p] = "posted")
    <3>1. ledger' = ledger
      BY <1>0, <2>2, <2>4
    <3>. QED
      BY <2>1, <3>1
  <2>. QED
    BY <2>3, <2>4
<1>. QED
  BY <1>1, <1>2, <1>3

\* The end of a compensation.
LEMMA MarkStep ==
    ASSUME Inv, NEW p \in Payments, Mark(p)
    PROVE  Hidden \/ Lifecycle!GiveUp(p) \/ Lifecycle!Overturn(p)
<1>1. status[p] \in InFlight \union {"SETTLED"}
  BY DEF Inv, PaymentInv, ControlInv, Mark
<1>2. FinalStatus(p) \in Lifecycle!Failures
  BY DEF FinalStatus, Lifecycle!Failures
<1>3. UNCHANGED <<ledger, outbox>>
  BY DEF Mark
<1>4. status' = status \/ status' = [status EXCEPT ![p] = FinalStatus(p)]
  <2>1. PICK o \in {"ok", "fail"} :
          status' = [status EXCEPT ![p] = IF Effect(o) THEN FinalStatus(p) ELSE @]
    BY DEF Mark
  <2>2. status \in [Payments -> Statuses]
    BY DEF Inv, TypeOK
  <2>3. CASE Effect(o)
    BY <2>1, <2>3
  <2>4. CASE ~Effect(o)
    BY <2>1, <2>2, <2>4
  <2>. QED
    BY <2>3, <2>4
<1>. QED
  BY <1>1, <1>2, <1>3, <1>4 DEF Hidden, Lifecycle!GiveUp, Lifecycle!Overturn,
     Lifecycle!Become, Lifecycle!Running, InFlight

\* The rest does not touch what the lifecycle sees.
LEMMA HiddenStep ==
    ASSUME NEW p \in Payments,
           \/ ValidateAndReserve(p) \/ Score(p) \/ InitiatePayment(p)
           \/ ConfirmReservation(p) \/ ReversePayment(p) \/ ReleaseReservation(p)
           \/ Reconcile(p) \/ ListStaleInFlightPayments \/ Crash \/ Quiescent
           \/ UNCHANGED vars
    PROVE  Hidden
  BY DEF Hidden, ValidateAndReserve, Score, InitiatePayment, ConfirmReservation,
     ReversePayment, ReleaseReservation, Reconcile, ListStaleInFlightPayments, Crash,
     Quiescent, rowVars, vars

\* The orchestrator implements the payment lifecycle.
THEOREM SagaImplementsLifecycle == Spec => ImplementsLifecycle
<1>1. Init => Lifecycle!Init
  BY DEF Init, Lifecycle!Init
<1>2. Inv /\ [Next]_vars => [Lifecycle!Next]_(Lifecycle!lifeVars)
  <2>. SUFFICES ASSUME Inv, [Next]_vars, ~Hidden PROVE Lifecycle!Next
    BY DEF Hidden, Lifecycle!lifeVars
  <2>1. ~ListStaleInFlightPayments /\ ~Crash /\ ~Quiescent /\ ~UNCHANGED vars
    BY DEF Hidden, ListStaleInFlightPayments, Crash, Quiescent, rowVars, vars
  <2>2. PICK p \in Payments : Act(p)
    BY <2>1 DEF Next, Act
  <2>. QED
    BY <2>2, ForwardStep, LedgerStep, MarkStep, HiddenStep DEF Act, Step, Lifecycle!Next
<1>. QED
  BY <1>1, <1>2, Invariance, PTL DEF Spec, ImplementsLifecycle, Lifecycle!Spec
=============================================================================
