----------------------- MODULE PaymentSagaStepProofs ------------------------
(***************************************************************************)
(* Each step of Initiate, runSaga, compensate, compensateFull,             *)
(* RetryPayment and the worker keeps what Inv says of the payment it is    *)
(* about: one lemma per action, and under it one step per part of Inv.     *)
(***************************************************************************)
EXTENDS PaymentSaga, TLAPS

(* From the new row to the bank's answer.                                  *)

\* CreatePayment keeps Inv.
LEMMA CreatePaymentInv ==
    ASSUME Inv, NEW p \in Payments, CreatePayment(p)
    PROVE  TypeOK' /\ PaymentInv(p)'
<1>0. TypeOK /\ PaymentInv(p)
  BY SMTT(60) DEF Inv
<1>. USE DEF CreatePayment, Answer, Fault, Goto, memVars, workerVars, bankVars
<1>1. TypeOK'
  BY <1>0, SagaAssumption, SMTT(60) DEF TypeOK, Statuses, Steps, InFlight, Terminal, Doubts
<1>2. ControlInv(p)'
  BY <1>0, SMTT(60) DEF TypeOK, PaymentInv, ControlInv, RowInv, InFlight
<1>3. RowInv(p)'
  BY <1>0, SagaAssumption, SMTT(60) DEF TypeOK, PaymentInv, ControlInv, RowInv, InFlight
<1>4. BankInv(p)'
  BY <1>0, SMTT(60) DEF TypeOK, PaymentInv, ControlInv, RowInv, BankInv, InFlight
<1>5. SettleInv(p)'
  BY <1>0, SMTT(60) DEF TypeOK, PaymentInv, ControlInv, BankInv, SettleInv, InFlight
<1>6. LedgerInv(p)'
  BY <1>0, SMTT(60) DEF TypeOK, PaymentInv, ControlInv, BankInv, LedgerInv, InFlight
<1>7. ReservationInv(p)'
  BY <1>0, SMTT(60) DEF TypeOK, PaymentInv, ControlInv, RowInv, ReservationInv, InFlight
<1>. QED
  BY <1>1, <1>2, <1>3, <1>4, <1>5, <1>6, <1>7, SMTT(60) DEF PaymentInv

\* ValidateAndReserve keeps Inv.
LEMMA ValidateAndReserveInv ==
    ASSUME Inv, NEW p \in Payments, ValidateAndReserve(p)
    PROVE  TypeOK' /\ PaymentInv(p)'
<1>0. TypeOK /\ PaymentInv(p)
  BY SMTT(60) DEF Inv
<1>. USE DEF ValidateAndReserve, Answer, Fault, Goto, Suspect, rowVars, memVars,
   workerVars, bankVars
<1>1. TypeOK'
  BY <1>0, SagaAssumption, SMTT(60) DEF TypeOK, Statuses, Steps, InFlight, Terminal, Doubts
<1>2. ControlInv(p)'
  BY <1>0, SMTT(60) DEF TypeOK, PaymentInv, ControlInv, RowInv, InFlight
<1>3. RowInv(p)'
  BY <1>0, SagaAssumption, SMTT(60) DEF TypeOK, PaymentInv, ControlInv, RowInv, InFlight
<1>4. BankInv(p)'
  BY <1>0, SMTT(60) DEF TypeOK, PaymentInv, ControlInv, RowInv, BankInv, InFlight
<1>5. SettleInv(p)'
  BY <1>0, SMTT(60) DEF TypeOK, PaymentInv, ControlInv, BankInv, SettleInv, InFlight
<1>6. LedgerInv(p)'
  BY <1>0, SMTT(60) DEF TypeOK, PaymentInv, ControlInv, BankInv, LedgerInv, InFlight
<1>7. ReservationInv(p)'
  BY <1>0, SMTT(60) DEF TypeOK, PaymentInv, ControlInv, RowInv, ReservationInv, InFlight
<1>. QED
  BY <1>1, <1>2, <1>3, <1>4, <1>5, <1>6, <1>7, SMTT(60) DEF PaymentInv

\* UpdateAfterConsent keeps Inv.
LEMMA UpdateAfterConsentInv ==
    ASSUME Inv, NEW p \in Payments, UpdateAfterConsent(p)
    PROVE  TypeOK' /\ PaymentInv(p)'
<1>0. TypeOK /\ PaymentInv(p)
  BY SMTT(60) DEF Inv
<1>. USE DEF UpdateAfterConsent, Answer, Fault, Goto, Effect, Suspect, workerVars, bankVars
<1>1. TypeOK'
  BY <1>0, SagaAssumption, SMTT(60) DEF TypeOK, Statuses, Steps, InFlight, Terminal, Doubts
<1>2. ControlInv(p)'
  BY <1>0, SMTT(60) DEF TypeOK, PaymentInv, ControlInv, RowInv, InFlight
<1>3. RowInv(p)'
  <2>1. /\ \/ status'[p] = "CONSENT_RESERVED" /\ resId'[p]
           \/ status'[p] = status[p] /\ (resId'[p] <=> resId[p])
        /\ pc'[p] # "idle" /\ memRes'[p]
        /\ UNCHANGED <<bankRef, memRef, errs, nref, retries>>
    BY <1>0, ZenonT(60) DEF TypeOK
  <2>2. status[p] # "NONE" /\ bankRef[p] = 0
    BY <1>0, SMTT(60) DEF PaymentInv, ControlInv, RowInv
  <2>3. RowInv(p)
    BY <1>0, SMTT(60) DEF PaymentInv
  <2>. HIDE DEF UpdateAfterConsent
  <2>. QED
    BY <2>1, <2>2, <2>3, SMTT(60) DEF RowInv
<1>4. BankInv(p)'
  BY <1>0, SMTT(60) DEF TypeOK, PaymentInv, ControlInv, RowInv, BankInv, InFlight
<1>5. SettleInv(p)'
  BY <1>0, SMTT(60) DEF TypeOK, PaymentInv, ControlInv, BankInv, SettleInv, InFlight
<1>6. LedgerInv(p)'
  BY <1>0, SMTT(60) DEF TypeOK, PaymentInv, ControlInv, BankInv, LedgerInv, InFlight
<1>7. ReservationInv(p)'
  BY <1>0, SMTT(60) DEF TypeOK, PaymentInv, ControlInv, RowInv, ReservationInv, InFlight
<1>. QED
  BY <1>1, <1>2, <1>3, <1>4, <1>5, <1>6, <1>7, SMTT(60) DEF PaymentInv

\* Score keeps Inv.
LEMMA ScoreInv ==
    ASSUME Inv, NEW p \in Payments, Score(p)
    PROVE  TypeOK' /\ PaymentInv(p)'
<1>0. TypeOK /\ PaymentInv(p)
  BY SMTT(60) DEF Inv
<1>. USE DEF Score, Goto, rowVars, memVars, workerVars, bankVars
<1>1. TypeOK'
  BY <1>0, SagaAssumption, SMTT(60) DEF TypeOK, Statuses, Steps, InFlight, Terminal, Doubts
<1>2. ControlInv(p)'
  BY <1>0, SMTT(60) DEF TypeOK, PaymentInv, ControlInv, RowInv, InFlight
<1>3. RowInv(p)'
  BY <1>0, SagaAssumption, SMTT(60) DEF TypeOK, PaymentInv, ControlInv, RowInv, InFlight
<1>4. BankInv(p)'
  BY <1>0, SMTT(60) DEF TypeOK, PaymentInv, ControlInv, RowInv, BankInv, InFlight
<1>5. SettleInv(p)'
  BY <1>0, SMTT(60) DEF TypeOK, PaymentInv, ControlInv, BankInv, SettleInv, InFlight
<1>6. LedgerInv(p)'
  BY <1>0, SMTT(60) DEF TypeOK, PaymentInv, ControlInv, BankInv, LedgerInv, InFlight
<1>7. ReservationInv(p)'
  BY <1>0, SMTT(60) DEF TypeOK, PaymentInv, ControlInv, RowInv, ReservationInv, InFlight
<1>. QED
  BY <1>1, <1>2, <1>3, <1>4, <1>5, <1>6, <1>7, SMTT(60) DEF PaymentInv

\* UpdateAfterRisk keeps Inv.
LEMMA UpdateAfterRiskInv ==
    ASSUME Inv, NEW p \in Payments, UpdateAfterRisk(p)
    PROVE  TypeOK' /\ PaymentInv(p)'
<1>0. TypeOK /\ PaymentInv(p)
  BY SMTT(60) DEF Inv
<1>. USE DEF UpdateAfterRisk, Answer, Fault, Goto, Effect, memVars, workerVars, bankVars
<1>1. TypeOK'
  BY <1>0, SagaAssumption, SMTT(60) DEF TypeOK, Statuses, Steps, InFlight, Terminal, Doubts
<1>2. ControlInv(p)'
  BY <1>0, SMTT(60) DEF TypeOK, PaymentInv, ControlInv, RowInv, InFlight
<1>3. RowInv(p)'
  BY <1>0, SagaAssumption, SMTT(60) DEF TypeOK, PaymentInv, ControlInv, RowInv, InFlight
<1>4. BankInv(p)'
  BY <1>0, SMTT(60) DEF TypeOK, PaymentInv, ControlInv, RowInv, BankInv, InFlight
<1>5. SettleInv(p)'
  BY <1>0, SMTT(60) DEF TypeOK, PaymentInv, ControlInv, BankInv, SettleInv, InFlight
<1>6. LedgerInv(p)'
  BY <1>0, SMTT(60) DEF TypeOK, PaymentInv, ControlInv, BankInv, LedgerInv, InFlight
<1>7. ReservationInv(p)'
  BY <1>0, SMTT(60) DEF TypeOK, PaymentInv, ControlInv, RowInv, ReservationInv, InFlight
<1>. QED
  BY <1>1, <1>2, <1>3, <1>4, <1>5, <1>6, <1>7, SMTT(60) DEF PaymentInv

\* The references 1..k of the charges so far and those of n new ones: with the
\* new ones every reference is in 1..k+n, and when all but the last of them join
\* the orphans O only the last is not an orphan.
LEMMA NewCharges ==
    ASSUME NEW k \in Nat, NEW n \in Nat \ {0}, NEW L, NEW O, L \subseteq 1..k, L \subseteq O
    PROVE  /\ L \union (k + 1)..(k + n) \subseteq 1..(k + n)
           /\ k + n \in L \union (k + 1)..(k + n)
           /\ L \union (k + 1)..(k + n) \subseteq O \union (k + 1)..(k + n)
           /\ \A r \in (L \union (k + 1)..(k + n)) \ (O \union (k + 1)..(k + (n - 1))) :
                  r = k + n
<1>1. L \union (k + 1)..(k + n) \subseteq 1..(k + n)
  BY SMTT(60)
<1>2. k + n \in (k + 1)..(k + n)
  BY SMTT(60)
<1>3. ASSUME NEW r \in (k + 1)..(k + n), r \notin (k + 1)..(k + (n - 1))
      PROVE  r = k + n
  BY <1>3, SMTT(60)
<1>. QED
  BY <1>1, <1>2, <1>3

\* InitiatePayment keeps Inv.
LEMMA InitiatePaymentInv ==
    ASSUME Inv, NEW p \in Payments, InitiatePayment(p)
    PROVE  TypeOK' /\ PaymentInv(p)'
<1>0. TypeOK /\ PaymentInv(p)
  BY SMTT(60) DEF Inv
<1>. USE DEF InitiatePayment, ChargesPerCall, NewRefs, Answer, Fault, Goto, rowVars,
   memVars,
             workerVars, bankVars, OnBankError
<1>1. TypeOK'
  BY <1>0, SagaAssumption, SMTT(60) DEF TypeOK, Statuses, Steps, InFlight, Terminal, Doubts
<1>2. ControlInv(p)'
  BY <1>0, SMTT(60) DEF TypeOK, PaymentInv, ControlInv, RowInv, InFlight
<1>3. RowInv(p)'
  BY <1>0, SagaAssumption, SMTT(60) DEF TypeOK, PaymentInv, ControlInv, RowInv, InFlight
<1>8. pc[p] = "bank" /\ UNCHANGED status
  OBVIOUS
<1>4. BankInv(p)'
  <2>1. CASE UNCHANGED <<faults, bankVars, orphan>> /\ Goto(p, OnBankError)
    BY <1>0, <2>1, SMTT(60) DEF TypeOK, PaymentInv, ControlInv, RowInv, BankInv, InFlight
  <2>2. ASSUME NEW o \in {"ok", "lost"}, NEW n \in ChargesPerCall,
               nref' = [nref EXCEPT ![p] = @ + n],
               live' = [live EXCEPT ![p] = @ \union NewRefs(p, n)],
               orphan' = [orphan EXCEPT ![p] = @ \union
                             NewRefs(p, IF o = "ok" THEN n - 1 ELSE n)],
               Goto(p, IF o = "ok" THEN "persistBank" ELSE OnBankError)
        PROVE  BankInv(p)'
    <3>. HIDE DEF InitiatePayment
    <3>1. /\ nref[p] \in Nat /\ n \in Nat \ {0} /\ live[p] \subseteq 1..nref[p]
          /\ live[p] \subseteq orphan[p] /\ status[p] = "RISK_PASSED" /\ pc[p] = "bank"
      BY <1>0, <1>8, SagaAssumption, SMTT(60) DEF TypeOK, PaymentInv, ControlInv, RowInv,
         BankInv
    <3>2. /\ nref'[p] = nref[p] + n
          /\ live'[p] = live[p] \union (nref[p] + 1)..(nref[p] + n)
          /\ status'[p] = "RISK_PASSED"
      BY <1>0, <1>8, <2>2, <3>1, SMTT(60) DEF TypeOK
    <3>3. live'[p] \subseteq 1..nref'[p] /\ nref'[p] \in live'[p]
      BY <3>1, <3>2, NewCharges
    <3>4. CASE o = "ok"
      <4>1. pc'[p] = "persistBank"
        BY <1>0, <2>2, <3>4, SMTT(60) DEF TypeOK
      <4>2. orphan'[p] = orphan[p] \union (nref[p] + 1)..(nref[p] + (n - 1))
        BY <1>0, <2>2, <3>4, SMTT(60) DEF TypeOK
      <4>3. \A r \in live'[p] \ orphan'[p] : r = nref'[p]
        BY <3>1, <3>2, <4>2, NewCharges
      <4>. QED
        BY <3>2, <3>3, <4>1, <4>3, SMTT(60) DEF BankInv
    <3>5. CASE o = "lost"
      <4>1. pc'[p] = "release"
        BY <1>0, <2>2, <3>5, SMTT(60) DEF TypeOK
      <4>2. orphan'[p] = orphan[p] \union (nref[p] + 1)..(nref[p] + n)
        BY <1>0, <2>2, <3>5, SMTT(60) DEF TypeOK
      <4>3. live'[p] \subseteq orphan'[p]
        BY <3>1, <3>2, <4>2, NewCharges
      <4>. QED
        BY <3>2, <3>3, <4>1, <4>3, SMTT(60) DEF BankInv
    <3>. QED
      BY <2>2, <3>4, <3>5
  <2>. QED
    BY <2>1, <2>2
<1>5. SettleInv(p)'
  BY <1>0, SMTT(60) DEF TypeOK, PaymentInv, ControlInv, BankInv, SettleInv, InFlight
<1>6. LedgerInv(p)'
  BY <1>0, SMTT(60) DEF TypeOK, PaymentInv, ControlInv, BankInv, LedgerInv, InFlight
<1>7. ReservationInv(p)'
  BY <1>0, SMTT(60) DEF TypeOK, PaymentInv, ControlInv, RowInv, ReservationInv, InFlight
<1>. QED
  BY <1>1, <1>2, <1>3, <1>4, <1>5, <1>6, <1>7, SMTT(60) DEF PaymentInv

-----------------------------------------------------------------------------
(* From the persisted charge to the confirmed reservation.                 *)

\* UpdateAfterBank keeps Inv.
LEMMA UpdateAfterBankInv ==
    ASSUME Inv, NEW p \in Payments, UpdateAfterBank(p)
    PROVE  TypeOK' /\ PaymentInv(p)'
<1>0. TypeOK /\ PaymentInv(p)
  BY SMTT(60) DEF Inv
<1>. USE DEF UpdateAfterBank, Answer, Fault, Goto, Effect, workerVars, bankVars
<1>1. TypeOK'
  BY <1>0, SagaAssumption, SMTT(60) DEF TypeOK, Statuses, Steps, InFlight, Terminal, Doubts
<1>2. ControlInv(p)'
  BY <1>0, SMTT(60) DEF TypeOK, PaymentInv, ControlInv, RowInv, InFlight
<1>3. RowInv(p)'
  BY <1>0, SagaAssumption, SMTT(60) DEF TypeOK, PaymentInv, ControlInv, RowInv, BankInv,
     InFlight
<1>4. BankInv(p)'
  BY <1>0, SMTT(60) DEF TypeOK, PaymentInv, ControlInv, RowInv, BankInv, InFlight
<1>5. SettleInv(p)'
  BY <1>0, SMTT(60) DEF TypeOK, PaymentInv, ControlInv, BankInv, SettleInv, InFlight
<1>6. LedgerInv(p)'
  BY <1>0, SMTT(60) DEF TypeOK, PaymentInv, ControlInv, BankInv, LedgerInv, InFlight
<1>7. ReservationInv(p)'
  BY <1>0, SMTT(60) DEF TypeOK, PaymentInv, ControlInv, RowInv, ReservationInv, InFlight
<1>. QED
  BY <1>1, <1>2, <1>3, <1>4, <1>5, <1>6, <1>7, SMTT(60) DEF PaymentInv

\* PostDoubleEntry keeps Inv.
LEMMA PostDoubleEntryInv ==
    ASSUME Inv, NEW p \in Payments, PostDoubleEntry(p)
    PROVE  TypeOK' /\ PaymentInv(p)'
<1>0. TypeOK /\ PaymentInv(p)
  BY SMTT(60) DEF Inv
<1>. USE DEF PostDoubleEntry, Answer, Fault, Goto, Effect, Suspect, rowVars, memVars,
   workerVars, bankVars
<1>1. TypeOK'
  BY <1>0, SagaAssumption, SMTT(60) DEF TypeOK, Statuses, Steps, InFlight, Terminal, Doubts
<1>2. ControlInv(p)'
  BY <1>0, SMTT(60) DEF TypeOK, PaymentInv, ControlInv, RowInv, InFlight
<1>3. RowInv(p)'
  BY <1>0, SagaAssumption, SMTT(60) DEF TypeOK, PaymentInv, ControlInv, RowInv, InFlight
<1>4. BankInv(p)'
  <2>1. /\ pc[p] = "ledger" /\ pc'[p] \in {"settle", "reverseBank"}
        /\ UNCHANGED <<status, bankRef, memRef, live, nref, orphan>>
    BY <1>0, SMTT(60) DEF TypeOK
  <2>2. BankInv(p)
    BY <1>0, SMTT(30) DEF PaymentInv
  <2>3. status[p] = "AUTHORISING" /\ memRef[p] = bankRef[p]
    BY <1>0, <2>1 DEF PaymentInv, ControlInv
  <2>. HIDE DEF PostDoubleEntry
  <2>. QED
    BY <2>1, <2>2, <2>3, SMTT(60) DEF BankInv
<1>5. SettleInv(p)'
  BY <1>0, SMTT(60) DEF TypeOK, PaymentInv, ControlInv, BankInv, SettleInv, InFlight
<1>6. LedgerInv(p)'
  BY <1>0, SMTT(60) DEF TypeOK, PaymentInv, ControlInv, BankInv, LedgerInv, InFlight
<1>7. ReservationInv(p)'
  BY <1>0, SMTT(60) DEF TypeOK, PaymentInv, ControlInv, RowInv, ReservationInv, InFlight
<1>. QED
  BY <1>1, <1>2, <1>3, <1>4, <1>5, <1>6, <1>7, SMTT(60) DEF PaymentInv

\* SettleWithOutbox keeps Inv.
LEMMA SettleWithOutboxInv ==
    ASSUME Inv, NEW p \in Payments, SettleWithOutbox(p)
    PROVE  TypeOK' /\ PaymentInv(p)'
<1>0. TypeOK /\ PaymentInv(p)
  BY SMTT(60) DEF Inv
<1>. USE DEF SettleWithOutbox, Answer, Fault, Goto, Effect, Suspect, memVars, workerVars,
   bankVars, OutboxRows, OnSettleError
<1>1. TypeOK'
  BY <1>0, SagaAssumption, SMTT(60) DEF TypeOK, Statuses, Steps, InFlight, Terminal, Doubts
<1>2. ControlInv(p)'
  BY <1>0, SMTT(60) DEF TypeOK, PaymentInv, ControlInv, RowInv, InFlight
<1>3. RowInv(p)'
  BY <1>0, SagaAssumption, SMTT(60) DEF TypeOK, PaymentInv, ControlInv, RowInv, InFlight
<1>4. BankInv(p)'
  BY <1>0, SMTT(60) DEF TypeOK, PaymentInv, ControlInv, RowInv, BankInv, InFlight
<1>5. SettleInv(p)'
  BY <1>0, SMTT(60) DEF TypeOK, PaymentInv, ControlInv, BankInv, SettleInv, InFlight
<1>6. LedgerInv(p)'
  BY <1>0, SMTT(60) DEF TypeOK, PaymentInv, ControlInv, BankInv, LedgerInv, InFlight
<1>7. ReservationInv(p)'
  BY <1>0, SMTT(60) DEF TypeOK, PaymentInv, ControlInv, RowInv, ReservationInv, InFlight
<1>. QED
  BY <1>1, <1>2, <1>3, <1>4, <1>5, <1>6, <1>7, SMTT(60) DEF PaymentInv

\* ConfirmReservation keeps Inv.
LEMMA ConfirmReservationInv ==
    ASSUME Inv, NEW p \in Payments, ConfirmReservation(p)
    PROVE  TypeOK' /\ PaymentInv(p)'
<1>0. TypeOK /\ PaymentInv(p)
  BY SMTT(60) DEF Inv
<1>. USE DEF ConfirmReservation, Answer, Fault, Goto, Effect, Suspect, Finish, Confirmed,
   rowVars, memVars, bankVars
<1>1. TypeOK'
  BY <1>0, SagaAssumption, SMTT(60) DEF TypeOK, Statuses, Steps, InFlight, Terminal, Doubts
<1>2. ControlInv(p)'
  BY <1>0, SMTT(60) DEF TypeOK, PaymentInv, ControlInv, RowInv, InFlight
<1>3. RowInv(p)'
  BY <1>0, SagaAssumption, SMTT(60) DEF TypeOK, PaymentInv, ControlInv, RowInv, InFlight
<1>4. BankInv(p)'
  BY <1>0, SMTT(60) DEF TypeOK, PaymentInv, ControlInv, RowInv, BankInv, InFlight
<1>5. SettleInv(p)'
  BY <1>0, SMTT(60) DEF TypeOK, PaymentInv, ControlInv, BankInv, SettleInv, InFlight
<1>6. LedgerInv(p)'
  BY <1>0, SMTT(60) DEF TypeOK, PaymentInv, ControlInv, BankInv, LedgerInv, InFlight
<1>7. ReservationInv(p)'
  BY <1>0, SMTT(60) DEF TypeOK, PaymentInv, ControlInv, RowInv, ReservationInv, InFlight
<1>. QED
  BY <1>1, <1>2, <1>3, <1>4, <1>5, <1>6, <1>7, SMTT(60) DEF PaymentInv

-----------------------------------------------------------------------------
(* Compensation, retry and reconciliation.                                 *)

\* ReverseEntry keeps Inv.
LEMMA ReverseEntryInv ==
    ASSUME Inv, NEW p \in Payments, ReverseEntry(p)
    PROVE  TypeOK' /\ PaymentInv(p)'
<1>0. TypeOK /\ PaymentInv(p)
  BY SMTT(60) DEF Inv
<1>. USE DEF ReverseEntry, Answer, Fault, Goto, Effect, Suspect, rowVars, workerVars,
   bankVars
<1>1. TypeOK'
  BY <1>0, SagaAssumption, SMTT(60) DEF TypeOK, Statuses, Steps, InFlight, Terminal, Doubts
<1>2. ControlInv(p)'
  BY <1>0, SMTT(60) DEF TypeOK, PaymentInv, ControlInv, RowInv, InFlight
<1>3. RowInv(p)'
  BY <1>0, SagaAssumption, SMTT(60) DEF TypeOK, PaymentInv, ControlInv, RowInv, InFlight
<1>4. BankInv(p)'
  BY <1>0, SMTT(60) DEF TypeOK, PaymentInv, ControlInv, RowInv, BankInv, InFlight
<1>5. SettleInv(p)'
  BY <1>0, SMTT(60) DEF TypeOK, PaymentInv, ControlInv, BankInv, SettleInv, InFlight
<1>6. LedgerInv(p)'
  BY <1>0, SMTT(60) DEF TypeOK, PaymentInv, ControlInv, BankInv, LedgerInv, InFlight
<1>7. ReservationInv(p)'
  BY <1>0, SMTT(60) DEF TypeOK, PaymentInv, ControlInv, RowInv, ReservationInv, InFlight
<1>. QED
  BY <1>1, <1>2, <1>3, <1>4, <1>5, <1>6, <1>7, SMTT(60) DEF PaymentInv

\* ReversePayment keeps Inv.
LEMMA ReversePaymentInv ==
    ASSUME Inv, NEW p \in Payments, ReversePayment(p)
    PROVE  TypeOK' /\ PaymentInv(p)'
<1>0. TypeOK /\ PaymentInv(p)
  BY SMTT(60) DEF Inv
<1>. USE DEF ReversePayment, Reversed, Answer, Fault, Goto, Effect, rowVars, workerVars
<1>1. TypeOK'
  <2>1. CASE memRef[p] = 0
    BY <1>0, <2>1, SMTT(60) DEF TypeOK, Steps
  <2>2. CASE memRef[p] # 0
    <3>1. live' \in [Payments -> SUBSET Nat] /\ orphan' \in [Payments -> SUBSET Nat]
      <4>1. PICK o \in {"ok", "fail", "lost", "refuse"} :
              /\ live' = [live EXCEPT ![p] = IF Effect(o) THEN Reversed(@, memRef[p]) ELSE @]
              /\ orphan' = [orphan EXCEPT ![p] = IF o = "refuse" THEN @ \union {memRef[p]}
                                                              ELSE @]
        BY <2>2
      <4>2. live[p] \in SUBSET Nat /\ orphan[p] \in SUBSET Nat /\ memRef[p] \in Nat
        BY <1>0, SMTT(60) DEF TypeOK
      <4>3. Reversed(live[p], memRef[p]) \in SUBSET Nat
        BY <4>2
      <4>. QED
        BY <1>0, <4>1, <4>2, <4>3, SMTT(60) DEF TypeOK
    <3>2. errs' \in [Payments -> BOOLEAN]
      BY <1>0, <2>2, ZenonT(60) DEF TypeOK
    <3>3. faults' \in Nat
      BY <1>0, <2>2, SMTT(60) DEF TypeOK
    <3>. QED
      BY <1>0, <3>1, <3>2, <3>3, SMTT(60) DEF TypeOK, Steps
  <2>. QED
    BY <2>1, <2>2
<1>2. ControlInv(p)'
  BY <1>0, SMTT(60) DEF TypeOK, PaymentInv, ControlInv, RowInv, InFlight
<1>3. RowInv(p)'
  BY <1>0, SagaAssumption, SMTT(60) DEF TypeOK, PaymentInv, ControlInv, RowInv, InFlight
<1>4. BankInv(p)'
  BY <1>0, SMTT(60) DEF TypeOK, PaymentInv, ControlInv, RowInv, BankInv, InFlight
<1>5. SettleInv(p)'
  BY <1>0, SMTT(60) DEF TypeOK, PaymentInv, ControlInv, BankInv, SettleInv, InFlight
<1>6. LedgerInv(p)'
  BY <1>0, SMTT(60) DEF TypeOK, PaymentInv, ControlInv, BankInv, LedgerInv, InFlight
<1>7. ReservationInv(p)'
  BY <1>0, SMTT(60) DEF TypeOK, PaymentInv, ControlInv, RowInv, ReservationInv, InFlight
<1>. QED
  BY <1>1, <1>2, <1>3, <1>4, <1>5, <1>6, <1>7, SMTT(60) DEF PaymentInv

\* ReleaseReservation keeps Inv.
LEMMA ReleaseReservationInv ==
    ASSUME Inv, NEW p \in Payments, ReleaseReservation(p)
    PROVE  TypeOK' /\ PaymentInv(p)'
<1>0. TypeOK /\ PaymentInv(p)
  BY SMTT(60) DEF Inv
<1>. USE DEF ReleaseReservation, Answer, Fault, Goto, Effect, rowVars, workerVars, bankVars
<1>1. TypeOK'
  BY <1>0, SagaAssumption, SMTT(60) DEF TypeOK, Statuses, Steps, InFlight, Terminal, Doubts
<1>2. ControlInv(p)'
  BY <1>0, SMTT(60) DEF TypeOK, PaymentInv, ControlInv, RowInv, InFlight
<1>3. RowInv(p)'
  BY <1>0, SagaAssumption, SMTT(60) DEF TypeOK, PaymentInv, ControlInv, RowInv, InFlight
<1>4. BankInv(p)'
  BY <1>0, SMTT(60) DEF TypeOK, PaymentInv, ControlInv, RowInv, BankInv, InFlight
<1>5. SettleInv(p)'
  BY <1>0, SMTT(60) DEF TypeOK, PaymentInv, ControlInv, BankInv, SettleInv, InFlight
<1>6. LedgerInv(p)'
  BY <1>0, SMTT(60) DEF TypeOK, PaymentInv, ControlInv, BankInv, LedgerInv, InFlight
<1>7. ReservationInv(p)'
  BY <1>0, SMTT(60) DEF TypeOK, PaymentInv, ControlInv, RowInv, ReservationInv, InFlight
<1>. QED
  BY <1>1, <1>2, <1>3, <1>4, <1>5, <1>6, <1>7, SMTT(60) DEF PaymentInv

\* Mark keeps Inv.
LEMMA MarkInv ==
    ASSUME Inv, NEW p \in Payments, Mark(p)
    PROVE  TypeOK' /\ PaymentInv(p)'
<1>0. TypeOK /\ PaymentInv(p)
  BY SMTT(60) DEF Inv
<1>. USE DEF Mark, Answer, Fault, Goto, Effect, Finish, FinalStatus, memVars, bankVars
<1>1. TypeOK'
  BY <1>0, SagaAssumption, SMTT(60) DEF TypeOK, Statuses, Steps, InFlight, Terminal, Doubts
<1>2. ControlInv(p)'
  BY <1>0, SMTT(60) DEF TypeOK, PaymentInv, ControlInv, RowInv, InFlight
<1>3. RowInv(p)'
  BY <1>0, SagaAssumption, SMTT(60) DEF TypeOK, PaymentInv, ControlInv, RowInv, InFlight
<1>4. BankInv(p)'
  BY <1>0, SMTT(60) DEF TypeOK, PaymentInv, ControlInv, RowInv, BankInv, InFlight
<1>5. SettleInv(p)'
  BY <1>0, SMTT(60) DEF TypeOK, PaymentInv, ControlInv, BankInv, SettleInv, InFlight
<1>6. LedgerInv(p)'
  BY <1>0, SMTT(60) DEF TypeOK, PaymentInv, ControlInv, BankInv, LedgerInv, InFlight
<1>7. ReservationInv(p)'
  BY <1>0, SMTT(60) DEF TypeOK, PaymentInv, ControlInv, RowInv, SettleInv, ReservationInv,
     InFlight
<1>. QED
  BY <1>1, <1>2, <1>3, <1>4, <1>5, <1>6, <1>7, SMTT(60) DEF PaymentInv

\* ResetForRetry keeps Inv.
LEMMA ResetForRetryInv ==
    ASSUME Inv, NEW p \in Payments, ResetForRetry(p)
    PROVE  TypeOK' /\ PaymentInv(p)'
<1>0. TypeOK /\ PaymentInv(p)
  BY SMTT(60) DEF Inv
<1>. USE DEF ResetForRetry, Answer, Fault, Goto, Retryable, workerVars, bankVars
<1>1. TypeOK'
  BY <1>0, SagaAssumption, SMTT(60) DEF TypeOK, Statuses, Steps, InFlight, Terminal, Doubts
<1>2. ControlInv(p)'
  BY <1>0, SMTT(60) DEF TypeOK, PaymentInv, ControlInv, RowInv, InFlight
<1>3. RowInv(p)'
  BY <1>0, SagaAssumption, SMTT(60) DEF TypeOK, PaymentInv, ControlInv, RowInv, InFlight
<1>4. BankInv(p)'
  BY <1>0, SMTT(60) DEF TypeOK, PaymentInv, ControlInv, RowInv, BankInv, InFlight
<1>5. SettleInv(p)'
  BY <1>0, SMTT(60) DEF TypeOK, PaymentInv, ControlInv, BankInv, SettleInv, InFlight
<1>6. LedgerInv(p)'
  BY <1>0, SMTT(60) DEF TypeOK, PaymentInv, ControlInv, BankInv, LedgerInv, InFlight
<1>7. ReservationInv(p)'
  BY <1>0, SMTT(60) DEF TypeOK, PaymentInv, ControlInv, RowInv, ReservationInv, InFlight
<1>. QED
  BY <1>1, <1>2, <1>3, <1>4, <1>5, <1>6, <1>7, SMTT(60) DEF PaymentInv

\* Reconcile keeps Inv.
LEMMA ReconcileInv ==
    ASSUME Inv, NEW p \in Payments, Reconcile(p)
    PROVE  TypeOK' /\ PaymentInv(p)'
<1>0. TypeOK /\ PaymentInv(p)
  BY SMTT(60) DEF Inv
<1>. USE DEF Reconcile, Answer, Fault, Goto, Suspect, BankSettled, rowVars, memVars,
   bankVars
<1>1. TypeOK'
  BY <1>0, SagaAssumption, SMTT(60) DEF TypeOK, Statuses, Steps, InFlight, Terminal, Doubts
<1>2. ControlInv(p)'
  BY <1>0, SMTT(60) DEF TypeOK, PaymentInv, ControlInv, RowInv, InFlight
<1>3. RowInv(p)'
  BY <1>0, SagaAssumption, SMTT(60) DEF TypeOK, PaymentInv, ControlInv, RowInv, InFlight
<1>4. BankInv(p)'
  BY <1>0, SMTT(60) DEF TypeOK, PaymentInv, ControlInv, RowInv, BankInv, InFlight
<1>5. SettleInv(p)'
  BY <1>0, SMTT(60) DEF TypeOK, PaymentInv, ControlInv, BankInv, SettleInv, InFlight
<1>6. LedgerInv(p)'
  BY <1>0, SMTT(60) DEF TypeOK, PaymentInv, ControlInv, RowInv, BankInv, LedgerInv, InFlight
<1>7. ReservationInv(p)'
  BY <1>0, SMTT(60) DEF TypeOK, PaymentInv, ControlInv, RowInv, ReservationInv, InFlight
<1>. QED
  BY <1>1, <1>2, <1>3, <1>4, <1>5, <1>6, <1>7, SMTT(60) DEF PaymentInv
=============================================================================
