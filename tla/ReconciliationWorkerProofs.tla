--------------------- MODULE ReconciliationWorkerProofs ---------------------
(***************************************************************************)
(* Proofs about ReconciliationWorker, for any number of workers, payments, *)
(* rows in a tick and faults.                                              *)
(*                                                                         *)
(* No UPDATE looks at the status it overwrites, so the argument is about   *)
(* what a worker's copy still says of the row.  As long as no two workers  *)
(* had a payment, the copy is right: the row is in flight until its worker *)
(* settles it (LinkInv).  Without an error nothing is compensated that has *)
(* a charge, so that overlapping workers all settle it (RowInv).           *)
(***************************************************************************)
EXTENDS ReconciliationWorker, WellFoundedInduction, TLAPS

Left == {"INITIATED", "CONSENT_RESERVED", "RISK_PASSED", "AUTHORISING"}
Doubts == {"error", "refused", "ledger", "settle", "overlap"}
Steps == {"next", "ledger", "settle", "confirm", "reverseLedger", "reverseBank", "release",
          "mark"}
Undo == {"reverseBank", "release", "mark"}

TypeOK ==
    /\ status \in [Payments -> {"NONE"} \union Left \union Terminal]
    /\ left \in [Payments -> {"NONE"} \union Left]
    /\ bank \in [Payments -> {"none", "SETTLED", "REVERSED", "forgotten"}]
    /\ resv \in [Payments -> {"none", "HELD", "CONFIRMED", "RELEASED"}]
    /\ ledger \in [Payments -> {"none", "posted", "reversed"}]
    /\ outbox \in [Payments -> Nat]
    /\ batch \in [Workers -> SUBSET Payments]
    /\ pc \in [Workers -> Steps]
    /\ errs \in [Workers -> BOOLEAN]
    /\ scenario \in Scenarios
    /\ doubt \in [Payments -> SUBSET Doubts]

Has(p, d) == d \in doubt[p]

\* An entry that stays has a reason.
Excused(p) == ledger[p] # "posted" \/ Has(p, "ledger") \/ Has(p, "refused")

\* A payment and what its doubts exclude.
RowInv(p) ==
    /\ left[p] = "NONE" <=> status[p] = "NONE"
    /\ left[p] = "AUTHORISING" <=> bank[p] # "none"
    /\ left[p] # "AUTHORISING" => ledger[p] = "none"
    /\ left[p] \in {"NONE", "INITIATED"} => resv[p] = "none"
    /\ status[p] \in {"NONE"} \union Left => outbox[p] = 0
    /\ ~ Has(p, "settle") => ledger[p] # "reversed"
    /\ ~ Has(p, "error") /\ left[p] = "AUTHORISING" =>
          bank[p] # "REVERSED" /\ status[p] \notin {"FAILED", "MANUAL_REVIEW"}
    /\ status[p] = "SETTLED" => ledger[p] # "none"
    /\ status[p] = "FAILED" => /\ resv[p] # "HELD"
                               /\ bank[p] # "SETTLED" \/ Has(p, "refused")
    /\ ~ Has(p, "overlap") =>
          /\ outbox[p] <= 1
          /\ bank[p] = "REVERSED" \/ status[p] = "FAILED" => Excused(p)
          /\ ~ Has(p, "settle") /\ status[p] = "SETTLED" => bank[p] # "REVERSED"

\* Where worker w is with its copy of p.
StepOf(w, p) == IF p = P(w) THEN pc[w] ELSE "next"

\* A payment and a worker that has a copy of it.
LinkInv(w, p) ==
    p \in batch[w] =>
        /\ status[p] # "NONE"
        /\ StepOf(w, p) \in {"ledger", "settle", "confirm", "reverseLedger", "reverseBank"}
             => left[p] = "AUTHORISING"
        /\ StepOf(w, p) \in {"settle", "confirm", "reverseLedger"} => ledger[p] # "none"
        /\ StepOf(w, p) = "reverseLedger" => Has(p, "settle")
        /\ StepOf(w, p) \in Undo \union {"reverseLedger"} /\ left[p] = "AUTHORISING"
             => Has(p, "error")
        /\ StepOf(w, p) \in {"release", "mark"} /\ ~ errs[w]
             => bank[p] # "SETTLED" \/ Has(p, "refused")
        /\ StepOf(w, p) = "mark" /\ ~ errs[w] => resv[p] # "HELD"
        /\ ~ Has(p, "overlap") =>
              /\ \/ InFlight(status[p])
                 \/ StepOf(w, p) = "confirm"
                 \/ StepOf(w, p) \in Undo \union {"reverseLedger"} /\ Has(p, "settle")
              /\ StepOf(w, p) \in {"ledger", "settle", "confirm"} => bank[p] # "REVERSED"
              /\ StepOf(w, p) \in Undo => Excused(p)

\* Two workers have a copy of p.
Alone(v, w, p) == v # w /\ p \in batch[v] /\ p \in batch[w] => Has(p, "overlap")

Inv ==
    /\ TypeOK
    /\ \A w \in Workers : batch[w] = {} => pc[w] = "next"
    /\ \A p \in Payments : RowInv(p)
    /\ \A w \in Workers, p \in Payments : LinkInv(w, p)
    /\ \A v, w \in Workers, p \in Payments : Alone(v, w, p)

USE WorkerAssumption

-----------------------------------------------------------------------------
(* What a step leaves alone.                                               *)

\* The worker is at one of its copies, the oldest.
LEMMA AtOldest ==
    ASSUME TypeOK, NEW w \in Workers, batch[w] # {}
    PROVE  P(w) \in batch[w] /\ P(w) \in Payments
<1>. DEFINE B == batch[w]
<1>1. B \subseteq Nat /\ B \subseteq Payments /\ B # {}
  BY Zenon DEF TypeOK
<1>2. PICK m \in B : \A y \in B : ~ (<<y, m>> \in OpToRel(<, Nat))
  <2>. HIDE DEF B
  <2>. QED
    BY <1>1, NatLessThanWellFounded, WFMin, Zenon
<1>3. \A y \in B : ~ (y < m)
  BY <1>1, <1>2, Zenon DEF OpToRel
<1>4. \A y \in B : y = m \/ Older(m, y)
  BY <1>1, <1>3, SMTT(30) DEF Older
<1>. QED
  BY <1>1, <1>4, Zenon DEF P

\* A function updated at one place with a value of its range keeps its type.
LEMMA Updated ==
    ASSUME NEW S, NEW T, NEW g \in [S -> T], NEW x, NEW y \in T
    PROVE  [g EXCEPT ![x] = y] \in [S -> T]
  BY Zenon

\* What Suspect adds are doubts.
LEMMA Doubted ==
    ASSUME TypeOK, NEW p \in Payments, NEW D, D \subseteq Doubts
    PROVE  [doubt EXCEPT ![p] = @ \cup D] \in [Payments -> SUBSET Doubts]
<1>1. doubt \in [Payments -> SUBSET Doubts]
  BY Zenon DEF TypeOK
<1>2. doubt[p] \cup D \in SUBSET Doubts
  BY <1>1, Zenon
<1>. QED
  BY <1>1, <1>2, Updated, Zenon

\* A row of well-typed tables.
LEMMA RowTypes ==
    ASSUME TypeOK, NEW p \in Payments
    PROVE  /\ status[p] \in {"NONE"} \union Left \union Terminal
           /\ bank[p] \in {"none", "SETTLED", "REVERSED", "forgotten"}
           /\ resv[p] \in {"none", "HELD", "CONFIRMED", "RELEASED"}
           /\ ledger[p] \in {"none", "posted", "reversed"}
           /\ outbox[p] \in Nat
  BY Zenon DEF TypeOK

SameRow(q) ==
    /\ status'[q] = status[q] /\ left'[q] = left[q] /\ bank'[q] = bank[q]
    /\ resv'[q] = resv[q] /\ ledger'[q] = ledger[q] /\ outbox'[q] = outbox[q]
    /\ doubt'[q] = doubt[q]

SameWorker(v) == batch'[v] = batch[v] /\ pc'[v] = pc[v] /\ errs'[v] = errs[v]

\* What no worker takes back.
Onward(p) ==
    /\ left'[p] = left[p]
    /\ status[p] # "NONE" => status'[p] # "NONE"
    /\ ledger[p] # "none" => ledger'[p] # "none"
    /\ bank[p] # "SETTLED" => bank'[p] # "SETTLED"
    /\ resv[p] # "HELD" => resv'[p] # "HELD"
    /\ doubt[p] \subseteq doubt'[p]

\* A row that is left alone keeps its invariant.
LEMMA RowFrame ==
    ASSUME NEW q, RowInv(q), SameRow(q)
    PROVE  RowInv(q)'
  BY Zenon DEF RowInv, SameRow, Has, Excused

\* A worker whose list is left alone stays at its copy.
LEMMA SameStep ==
    ASSUME NEW v, batch'[v] = batch[v]
    PROVE  P(v)' = P(v)
  BY Zenon DEF P, Older

\* So does a worker and a row that are both left alone.
LEMMA LinkFrame ==
    ASSUME NEW v, NEW q, LinkInv(v, q), SameRow(q), SameWorker(v)
    PROVE  LinkInv(v, q)'
<1>1. StepOf(v, q)' = StepOf(v, q)
  BY SameStep, Zenon DEF StepOf, SameWorker
<1>. QED
  BY <1>1, Zenon DEF LinkInv, SameRow, SameWorker, Has, Excused, InFlight

\* A worker whose copy of a payment another has as well.
LEMMA OverlapFrame ==
    ASSUME NEW v, NEW p, LinkInv(v, p), Has(p, "overlap"), Onward(p), SameWorker(v)
    PROVE  LinkInv(v, p)'
<1>1. StepOf(v, p)' = StepOf(v, p)
  BY SameStep, Zenon DEF StepOf, SameWorker
<1>2. \A d : Has(p, d) => Has(p, d)'
  BY Zenon DEF Onward, Has
<1>. QED
  BY <1>1, <1>2, Zenon DEF LinkInv, Onward, SameWorker

\* A step of worker w at its copy of p: what is to be shown of it.
LEMMA WorkerStep ==
    ASSUME Inv, NEW w \in Workers, batch[w] # {}, NEW p, p = P(w), TypeOK',
           \A q \in Payments \ {p} : SameRow(q),
           \A v \in Workers \ {w} : SameWorker(v),
           Onward(p), RowInv(p)',
           \/ batch'[w] = batch[w] /\ LinkInv(w, p)'
           \/ batch'[w] = batch[w] \ {p} /\ pc'[w] = "next"
    PROVE  Inv'
<1>1. p \in batch[w] /\ p \in Payments
  BY AtOldest, Zenon DEF Inv
<1>2. \A v \in Workers : batch'[v] = {} => pc'[v] = "next"
  BY <1>1, Zenon DEF Inv, SameWorker
<1>3. ASSUME NEW q \in Payments PROVE RowInv(q)'
  BY RowFrame, Zenon DEF Inv
<1>4. ASSUME NEW v \in Workers, NEW q \in Payments PROVE LinkInv(v, q)'
  <2>1. CASE v # w /\ q # p
    BY <2>1, LinkFrame, Zenon DEF Inv
  <2>2. CASE v # w /\ q = p
    <3>1. CASE p \in batch[v]
      <4>1. Has(p, "overlap")
        BY <1>1, <2>2, <3>1, Zenon DEF Inv, Alone
      <4>2. LinkInv(v, p) /\ SameWorker(v)
        BY <1>1, <2>2, Zenon DEF Inv
      <4>3. LinkInv(v, p)'
        BY <4>1, <4>2, OverlapFrame, Zenon
      <4>. QED
        BY <2>2, <4>3, Zenon
    <3>2. CASE p \notin batch[v]
      BY <2>2, <3>2, Zenon DEF SameWorker, LinkInv
    <3>. QED
      BY <3>1, <3>2, Zenon
  <2>3. CASE v = w /\ q # p
    <3>1. StepOf(w, q) = "next"
      BY <2>3, Zenon DEF StepOf
    <3>2. StepOf(w, q)' = "next"
      <4>1. CASE batch'[w] = batch[w]
        BY <2>3, <4>1, SameStep, Zenon DEF StepOf
      <4>2. CASE pc'[w] = "next"
        BY <4>2, Zenon DEF StepOf
      <4>. QED
        BY <4>1, <4>2, Zenon
    <3>3. q \in batch'[w] => q \in batch[w]
      BY Zenon
    <3>4. LinkInv(w, q) /\ SameRow(q)
      BY <2>3, Zenon DEF Inv
    <3>5. LinkInv(w, q)'
      BY <3>1, <3>2, <3>3, <3>4, Zenon DEF LinkInv, SameRow, Has, InFlight, Undo
    <3>. QED
      BY <2>3, <3>5, Zenon
  <2>4. CASE v = w /\ q = p
    <3>1. CASE batch'[w] = batch[w] /\ LinkInv(w, p)'
      BY <2>4, <3>1, Zenon
    <3>2. CASE batch'[w] = batch[w] \ {p}
      BY <2>4, <3>2, Zenon DEF LinkInv
    <3>. QED
      BY <3>1, <3>2, Zenon
  <2>. QED
    BY <2>1, <2>2, <2>3, <2>4, Zenon
<1>5. ASSUME NEW u \in Workers, NEW v \in Workers, NEW q \in Payments PROVE Alone(u, v, q)'
  <2>1. batch'[u] \subseteq batch[u] /\ batch'[v] \subseteq batch[v]
    BY Zenon DEF SameWorker
  <2>2. Has(q, "overlap") => Has(q, "overlap")'
    BY Zenon DEF SameRow, Onward, Has
  <2>. QED
    BY <2>1, <2>2, Zenon DEF Inv, Alone
<1>. QED
  BY <1>2, <1>3, <1>4, <1>5, Zenon DEF Inv

-----------------------------------------------------------------------------
(* The steps of a worker.                                                  *)

\* ResumeFromLedger posts, or compensates what it could not post.
LEMMA PostDoubleEntryStep ==
    ASSUME Inv, NEW w \in Workers, PostDoubleEntry(w)
    PROVE  Inv'
<1>1. PICK p : p = P(w)
  BY Zenon
<1>2. batch[w] # {} /\ pc[w] = "ledger" /\ p \in batch[w] /\ p \in Payments
  BY <1>1, AtOldest, Zenon DEF Inv, PostDoubleEntry, At
<1>3. PICK o \in {"ok", "fail", "lost"} :
        /\ ledger' = [ledger EXCEPT ![p] = IF Effect(o) /\ @ = "none" THEN "posted" ELSE @]
        /\ doubt' = [doubt EXCEPT ![p] = @ \cup
                     (Error(o) \cup (IF o = "ok" THEN {} ELSE {"ledger"}))]
        /\ pc' = [pc EXCEPT ![w] = (IF o = "ok" THEN "settle" ELSE "reverseBank")] /\ batch' = batch
        /\ UNCHANGED <<status, left, bank, resv, outbox, errs, scenario>>
  BY <1>1, ZenonT(60) DEF PostDoubleEntry, Suspect, Goto
<1>4. TypeOK /\ RowInv(p) /\ LinkInv(w, p) /\ StepOf(w, p) = pc[w]
  BY <1>1, <1>2, Zenon DEF Inv, StepOf
<1>5. errs' \in [Workers -> BOOLEAN]
  BY <1>3, <1>4, Zenon DEF TypeOK
<1>6. TypeOK'
  <2>1. Error(o) \cup (IF o = "ok" THEN {} ELSE {"ledger"}) \subseteq Doubts
    BY Zenon DEF Error, Doubts
  <2>2. doubt' \in [Payments -> SUBSET Doubts]
    BY <1>2, <1>3, <1>4, <2>1, Doubted, Zenon
  <2>3. ledger' \in [Payments -> {"none", "posted", "reversed"}]
    <3>1. (IF Effect(o) /\ ledger[p] = "none" THEN "posted" ELSE ledger[p])
            \in {"none", "posted", "reversed"}
      BY <1>2, <1>4, RowTypes, Zenon
    <3>2. ledger \in [Payments -> {"none", "posted", "reversed"}]
      BY <1>4, Zenon DEF TypeOK
    <3>. QED
      BY <1>3, <3>1, <3>2, Updated, Zenon
  <2>4. pc' \in [Workers -> Steps]
    BY <1>3, <1>4, Zenon DEF TypeOK, Steps
  <2>. QED
    BY <1>3, <1>4, <1>5, <2>2, <2>3, <2>4, Zenon DEF TypeOK
<1>7. /\ \A q \in Payments \ {p} : SameRow(q)
      /\ \A v \in Workers \ {w} : SameWorker(v)
  BY <1>3, <1>4, Zenon DEF TypeOK, SameRow, SameWorker
<1>8. \A d : Has(p, d)' <=> Has(p, d) \/ d \in
         (Error(o) \cup (IF o = "ok" THEN {} ELSE {"ledger"}))
  BY <1>2, <1>3, <1>4, Zenon DEF TypeOK, Has
<1>9. /\ ledger'[p] = (IF Effect(o) /\ ledger[p] = "none" THEN "posted" ELSE ledger[p])
      /\ status'[p] = status[p]
      /\ left'[p] = left[p]
      /\ bank'[p] = bank[p]
      /\ resv'[p] = resv[p]
      /\ outbox'[p] = outbox[p]
      /\ pc'[w] = (IF o = "ok" THEN "settle" ELSE "reverseBank")
      /\ batch'[w] = batch[w]
  BY <1>2, <1>3, <1>4, Zenon DEF TypeOK
<1>10. Onward(p)
  <2>1. doubt[p] \subseteq doubt'[p]
    BY <1>8, Zenon DEF Has
  <2>. QED
    BY <1>4, <1>9, <2>1, Zenon DEF Onward, Effect, TypeOK
<1>11. RowInv(p)'
  BY <1>2, <1>4, <1>6, <1>8, <1>9, Zenon
     DEF TypeOK, RowInv, LinkInv, Excused, InFlight, Effect, Error, Refusal, Undo, Left, Terminal
<1>12. errs'[w] <=> errs[w]
  BY <1>3, Zenon
<1>13. StepOf(w, p)' = pc'[w]
  BY <1>1, <1>9, SameStep, Zenon DEF StepOf
<1>14. LinkInv(w, p)'
  BY <1>2, <1>4, <1>6, <1>8, <1>9, <1>12, <1>13, Zenon
     DEF TypeOK, RowInv, LinkInv, Excused, InFlight, Effect, Error, Refusal, Undo, Left
<1>. QED
  BY <1>1, <1>2, <1>6, <1>7, <1>9, <1>10, <1>11, <1>14, WorkerStep, Zenon

\* Without overlap the row that is settled was in flight and had no event.
LEMMA SettleWithOutboxStep ==
    ASSUME Inv, NEW w \in Workers, SettleWithOutbox(w)
    PROVE  Inv'
<1>1. PICK p : p = P(w)
  BY Zenon
<1>2. batch[w] # {} /\ pc[w] = "settle" /\ p \in batch[w] /\ p \in Payments
  BY <1>1, AtOldest, Zenon DEF Inv, SettleWithOutbox, At
<1>3. PICK o \in {"ok", "fail", "lost"} :
        /\ status' = [status EXCEPT ![p] = IF Effect(o) THEN "SETTLED" ELSE @]
        /\ outbox' = [outbox EXCEPT ![p] = IF Effect(o) THEN @ + 1 ELSE @]
        /\ doubt' = [doubt EXCEPT ![p] = @ \cup
                     (Error(o) \cup (IF o = "ok" THEN {} ELSE {"settle"}))]
        /\ pc' = [pc EXCEPT ![w] = (IF o = "ok" THEN "confirm" ELSE "reverseLedger")]
        /\ batch' = batch
        /\ UNCHANGED <<left, bank, resv, ledger, errs, scenario>>
  BY <1>1, ZenonT(60) DEF SettleWithOutbox, Suspect, Goto
<1>4. TypeOK /\ RowInv(p) /\ LinkInv(w, p) /\ StepOf(w, p) = pc[w]
  BY <1>1, <1>2, Zenon DEF Inv, StepOf
<1>5. errs' \in [Workers -> BOOLEAN]
  BY <1>3, <1>4, Zenon DEF TypeOK
<1>6. TypeOK'
  <2>1. Error(o) \cup (IF o = "ok" THEN {} ELSE {"settle"}) \subseteq Doubts
    BY Zenon DEF Error, Doubts
  <2>2. doubt' \in [Payments -> SUBSET Doubts]
    BY <1>2, <1>3, <1>4, <2>1, Doubted, Zenon
  <2>3. status' \in [Payments -> {"NONE"} \union Left \union Terminal]
    <3>1. (IF Effect(o) THEN "SETTLED" ELSE status[p]) \in {"NONE"} \union Left \union Terminal
      BY <1>2, <1>4, RowTypes, Zenon DEF Terminal
    <3>2. status \in [Payments -> {"NONE"} \union Left \union Terminal]
      BY <1>4, Zenon DEF TypeOK
    <3>. QED
      BY <1>3, <3>1, <3>2, Updated, Zenon
  <2>4. outbox' \in [Payments -> Nat]
    <3>1. (IF Effect(o) THEN outbox[p] + 1 ELSE outbox[p]) \in Nat
      <4>1. outbox[p] \in Nat
        BY <1>2, <1>4, Zenon DEF TypeOK
      <4>2. outbox[p] + 1 \in Nat
        BY <4>1
      <4>. QED
        BY <4>1, <4>2, Zenon
    <3>2. outbox \in [Payments -> Nat]
      BY <1>4, Zenon DEF TypeOK
    <3>. QED
      BY <1>3, <3>1, <3>2, Updated, Zenon
  <2>5. pc' \in [Workers -> Steps]
    BY <1>3, <1>4, Zenon DEF TypeOK, Steps
  <2>. QED
    BY <1>3, <1>4, <1>5, <2>2, <2>3, <2>4, <2>5, Zenon DEF TypeOK
<1>7. /\ \A q \in Payments \ {p} : SameRow(q)
      /\ \A v \in Workers \ {w} : SameWorker(v)
  BY <1>3, <1>4, Zenon DEF TypeOK, SameRow, SameWorker
<1>8. \A d : Has(p, d)' <=> Has(p, d) \/ d \in
         (Error(o) \cup (IF o = "ok" THEN {} ELSE {"settle"}))
  BY <1>2, <1>3, <1>4, Zenon DEF TypeOK, Has
<1>9. /\ status'[p] = (IF Effect(o) THEN "SETTLED" ELSE status[p])
      /\ outbox'[p] = (IF Effect(o) THEN outbox[p] + 1 ELSE outbox[p])
      /\ left'[p] = left[p]
      /\ bank'[p] = bank[p]
      /\ resv'[p] = resv[p]
      /\ ledger'[p] = ledger[p]
      /\ pc'[w] = (IF o = "ok" THEN "confirm" ELSE "reverseLedger")
      /\ batch'[w] = batch[w]
  BY <1>2, <1>3, <1>4, Zenon DEF TypeOK
<1>10. Onward(p)
  <2>1. doubt[p] \subseteq doubt'[p]
    BY <1>8, Zenon DEF Has
  <2>. QED
    BY <1>4, <1>9, <2>1, Zenon DEF Onward, Effect, TypeOK
<1>11. RowInv(p)'
  BY <1>2, <1>4, <1>6, <1>8, <1>9, SMTT(60)
     DEF TypeOK, RowInv, LinkInv, Excused, InFlight, Effect, Error, Refusal, Undo, Left, Terminal
<1>12. errs'[w] <=> errs[w]
  BY <1>3, Zenon
<1>13. StepOf(w, p)' = pc'[w]
  BY <1>1, <1>9, SameStep, Zenon DEF StepOf
<1>14. LinkInv(w, p)'
  BY <1>2, <1>4, <1>6, <1>8, <1>9, <1>12, <1>13, Zenon
     DEF TypeOK, RowInv, LinkInv, Excused, InFlight, Effect, Error, Refusal, Undo, Left
<1>. QED
  BY <1>1, <1>2, <1>6, <1>7, <1>9, <1>10, <1>11, <1>14, WorkerStep, Zenon

\* A confirmation that fails is only logged.
LEMMA ConfirmReservationStep ==
    ASSUME Inv, NEW w \in Workers, ConfirmReservation(w)
    PROVE  Inv'
<1>1. PICK p : p = P(w)
  BY Zenon
<1>2. batch[w] # {} /\ pc[w] = "confirm" /\ p \in batch[w] /\ p \in Payments
  BY <1>1, AtOldest, Zenon DEF Inv, ConfirmReservation, At
<1>3. PICK o \in {"ok", "fail"} :
        /\ resv' = [resv EXCEPT ![p] = IF Effect(o) /\ @ = "HELD" THEN "CONFIRMED" ELSE @]
        /\ doubt' = [doubt EXCEPT ![p] = @ \cup Error(o)]
        /\ pc' = [pc EXCEPT ![w] = "next"]
        /\ batch' = [batch EXCEPT ![w] = @ \ {p}]
        /\ errs' = [errs EXCEPT ![w] = FALSE]
        /\ UNCHANGED <<status, left, bank, ledger, outbox, scenario>>
  BY <1>1, ZenonT(60) DEF ConfirmReservation, Suspect, NextPayment
<1>4. TypeOK /\ RowInv(p) /\ LinkInv(w, p) /\ StepOf(w, p) = pc[w]
  BY <1>1, <1>2, Zenon DEF Inv, StepOf
<1>5. errs' \in [Workers -> BOOLEAN]
  BY <1>3, <1>4, Zenon DEF TypeOK
<1>6. TypeOK'
  <2>1. Error(o) \subseteq Doubts
    BY Zenon DEF Error, Doubts
  <2>2. doubt' \in [Payments -> SUBSET Doubts]
    BY <1>2, <1>3, <1>4, <2>1, Doubted, Zenon
  <2>3. resv' \in [Payments -> {"none", "HELD", "CONFIRMED", "RELEASED"}]
    <3>1. (IF Effect(o) /\ resv[p] = "HELD" THEN "CONFIRMED" ELSE resv[p])
            \in {"none", "HELD", "CONFIRMED", "RELEASED"}
      BY <1>2, <1>4, RowTypes, Zenon
    <3>2. resv \in [Payments -> {"none", "HELD", "CONFIRMED", "RELEASED"}]
      BY <1>4, Zenon DEF TypeOK
    <3>. QED
      BY <1>3, <3>1, <3>2, Updated, Zenon
  <2>4. pc' \in [Workers -> Steps]
    BY <1>3, <1>4, Zenon DEF TypeOK, Steps
  <2>5. batch' \in [Workers -> SUBSET Payments]
    BY <1>3, <1>4, Zenon DEF TypeOK
  <2>. QED
    BY <1>3, <1>4, <1>5, <2>2, <2>3, <2>4, <2>5, Zenon DEF TypeOK
<1>7. /\ \A q \in Payments \ {p} : SameRow(q)
      /\ \A v \in Workers \ {w} : SameWorker(v)
  BY <1>3, <1>4, Zenon DEF TypeOK, SameRow, SameWorker
<1>8. \A d : Has(p, d)' <=> Has(p, d) \/ d \in Error(o)
  BY <1>2, <1>3, <1>4, Zenon DEF TypeOK, Has
<1>9. /\ resv'[p] = (IF Effect(o) /\ resv[p] = "HELD" THEN "CONFIRMED" ELSE resv[p])
      /\ status'[p] = status[p]
      /\ left'[p] = left[p]
      /\ bank'[p] = bank[p]
      /\ ledger'[p] = ledger[p]
      /\ outbox'[p] = outbox[p]
      /\ pc'[w] = "next"
      /\ batch'[w] = batch[w] \ {p}
  BY <1>2, <1>3, <1>4, Zenon DEF TypeOK
<1>10. Onward(p)
  <2>1. doubt[p] \subseteq doubt'[p]
    BY <1>8, Zenon DEF Has
  <2>. QED
    BY <1>4, <1>9, <2>1, Zenon DEF Onward, Effect, TypeOK
<1>11. RowInv(p)'
  BY <1>2, <1>4, <1>6, <1>8, <1>9, Zenon
     DEF TypeOK, RowInv, LinkInv, Excused, InFlight, Effect, Error, Refusal, Undo, Left, Terminal
<1>. QED
  BY <1>1, <1>2, <1>6, <1>7, <1>9, <1>10, <1>11, WorkerStep, Zenon

\* compensateFull reverses the entry, or leaves it with a failed call to blame.
LEMMA ReverseEntryStep ==
    ASSUME Inv, NEW w \in Workers, ReverseEntry(w)
    PROVE  Inv'
<1>1. PICK p : p = P(w)
  BY Zenon
<1>2. batch[w] # {} /\ pc[w] = "reverseLedger" /\ p \in batch[w] /\ p \in Payments
  BY <1>1, AtOldest, Zenon DEF Inv, ReverseEntry, At
<1>3. PICK o \in {"ok", "fail", "lost"} :
        /\ ledger' = [ledger EXCEPT ![p] = IF Effect(o) /\ @ = "posted" THEN "reversed" ELSE @]
        /\ doubt' = [doubt EXCEPT ![p] = @ \cup
                     (Error(o) \cup (IF o = "fail" THEN {"ledger"} ELSE {}))]
        /\ pc' = [pc EXCEPT ![w] = "reverseBank"] /\ batch' = batch
        /\ errs' = [errs EXCEPT ![w] = @ \/ o # "ok" \/ ledger[p] = "none"]
        /\ UNCHANGED <<status, left, bank, resv, outbox, scenario>>
  BY <1>1, ZenonT(60) DEF ReverseEntry, Suspect, Goto
<1>4. TypeOK /\ RowInv(p) /\ LinkInv(w, p) /\ StepOf(w, p) = pc[w]
  BY <1>1, <1>2, Zenon DEF Inv, StepOf
<1>5. errs' \in [Workers -> BOOLEAN]
  BY <1>3, <1>4, Zenon DEF TypeOK
<1>6. TypeOK'
  <2>1. Error(o) \cup (IF o = "fail" THEN {"ledger"} ELSE {}) \subseteq Doubts
    BY Zenon DEF Error, Doubts
  <2>2. doubt' \in [Payments -> SUBSET Doubts]
    BY <1>2, <1>3, <1>4, <2>1, Doubted, Zenon
  <2>3. ledger' \in [Payments -> {"none", "posted", "reversed"}]
    <3>1. (IF Effect(o) /\ ledger[p] = "posted" THEN "reversed" ELSE ledger[p])
            \in {"none", "posted", "reversed"}
      BY <1>2, <1>4, RowTypes, Zenon
    <3>2. ledger \in [Payments -> {"none", "posted", "reversed"}]
      BY <1>4, Zenon DEF TypeOK
    <3>. QED
      BY <1>3, <3>1, <3>2, Updated, Zenon
  <2>4. pc' \in [Workers -> Steps]
    BY <1>3, <1>4, Zenon DEF TypeOK, Steps
  <2>. QED
    BY <1>3, <1>4, <1>5, <2>2, <2>3, <2>4, Zenon DEF TypeOK
<1>7. /\ \A q \in Payments \ {p} : SameRow(q)
      /\ \A v \in Workers \ {w} : SameWorker(v)
  BY <1>3, <1>4, Zenon DEF TypeOK, SameRow, SameWorker
<1>8. \A d : Has(p, d)' <=> Has(p, d) \/ d \in
         (Error(o) \cup (IF o = "fail" THEN {"ledger"} ELSE {}))
  BY <1>2, <1>3, <1>4, Zenon DEF TypeOK, Has
<1>9. /\ ledger'[p] = (IF Effect(o) /\ ledger[p] = "posted" THEN "reversed" ELSE ledger[p])
      /\ status'[p] = status[p]
      /\ left'[p] = left[p]
      /\ bank'[p] = bank[p]
      /\ resv'[p] = resv[p]
      /\ outbox'[p] = outbox[p]
      /\ pc'[w] = "reverseBank"
      /\ batch'[w] = batch[w]
  BY <1>2, <1>3, <1>4, Zenon DEF TypeOK
<1>10. Onward(p)
  <2>1. doubt[p] \subseteq doubt'[p]
    BY <1>8, Zenon DEF Has
  <2>. QED
    BY <1>4, <1>9, <2>1, Zenon DEF Onward, Effect, TypeOK
<1>11. RowInv(p)'
  BY <1>2, <1>4, <1>6, <1>8, <1>9, Zenon
     DEF TypeOK, RowInv, LinkInv, Excused, InFlight, Effect, Error, Refusal, Undo, Left, Terminal
<1>12. errs'[w] <=> (errs[w] \/ o # "ok" \/ ledger[p] = "none")
  BY <1>3, <1>4, Zenon DEF TypeOK
<1>13. StepOf(w, p)' = pc'[w]
  BY <1>1, <1>9, SameStep, Zenon DEF StepOf
<1>14. LinkInv(w, p)'
  BY <1>2, <1>4, <1>6, <1>8, <1>9, <1>12, <1>13, Zenon
     DEF TypeOK, RowInv, LinkInv, Excused, InFlight, Effect, Error, Refusal, Undo, Left
<1>. QED
  BY <1>1, <1>2, <1>6, <1>7, <1>9, <1>10, <1>11, <1>14, WorkerStep, ZenonT(40)

\* After a reversal without error there is no charge, unless it was refused.
LEMMA ReversePaymentStep ==
    ASSUME Inv, NEW w \in Workers, ReversePayment(w)
    PROVE  Inv'
<1>1. PICK p : p = P(w)
  BY Zenon
<1>2. batch[w] # {} /\ pc[w] = "reverseBank" /\ p \in batch[w] /\ p \in Payments
  BY <1>1, AtOldest, Zenon DEF Inv, ReversePayment, At
<1>3. PICK o \in {"ok", "fail", "lost", "refuse"} :
        /\ bank' = [bank EXCEPT ![p] = IF Effect(o) /\ @ = "SETTLED" THEN "REVERSED" ELSE @]
        /\ doubt' = [doubt EXCEPT ![p] = @ \cup (Error(o) \cup Refusal(o))]
        /\ pc' = [pc EXCEPT ![w] = "release"] /\ batch' = batch
        /\ errs' = [errs EXCEPT ![w] =
                      @ \/ o \in {"fail", "lost"} \/ (o = "ok" /\ bank[p] = "forgotten")]
        /\ UNCHANGED <<status, left, resv, ledger, outbox, scenario>>
  BY <1>1, ZenonT(60) DEF ReversePayment, Suspect, Goto
<1>4. TypeOK /\ RowInv(p) /\ LinkInv(w, p) /\ StepOf(w, p) = pc[w]
  BY <1>1, <1>2, Zenon DEF Inv, StepOf
<1>5. errs' \in [Workers -> BOOLEAN]
  BY <1>3, <1>4, Zenon DEF TypeOK
<1>6. TypeOK'
  <2>1. Error(o) \cup Refusal(o) \subseteq Doubts
    BY Zenon DEF Error, Refusal, Doubts
  <2>2. doubt' \in [Payments -> SUBSET Doubts]
    BY <1>2, <1>3, <1>4, <2>1, Doubted, Zenon
  <2>3. bank' \in [Payments -> {"none", "SETTLED", "REVERSED", "forgotten"}]
    <3>1. (IF Effect(o) /\ bank[p] = "SETTLED" THEN "REVERSED" ELSE bank[p])
            \in {"none", "SETTLED", "REVERSED", "forgotten"}
      BY <1>2, <1>4, RowTypes, Zenon
    <3>2. bank \in [Payments -> {"none", "SETTLED", "REVERSED", "forgotten"}]
      BY <1>4, Zenon DEF TypeOK
    <3>. QED
      BY <1>3, <3>1, <3>2, Updated, Zenon
  <2>4. pc' \in [Workers -> Steps]
    BY <1>3, <1>4, Zenon DEF TypeOK, Steps
  <2>. QED
    BY <1>3, <1>4, <1>5, <2>2, <2>3, <2>4, Zenon DEF TypeOK
<1>7. /\ \A q \in Payments \ {p} : SameRow(q)
      /\ \A v \in Workers \ {w} : SameWorker(v)
  BY <1>3, <1>4, Zenon DEF TypeOK, SameRow, SameWorker
<1>8. \A d : Has(p, d)' <=> Has(p, d) \/ d \in (Error(o) \cup Refusal(o))
  BY <1>2, <1>3, <1>4, Zenon DEF TypeOK, Has
<1>9. /\ bank'[p] = (IF Effect(o) /\ bank[p] = "SETTLED" THEN "REVERSED" ELSE bank[p])
      /\ status'[p] = status[p]
      /\ left'[p] = left[p]
      /\ resv'[p] = resv[p]
      /\ ledger'[p] = ledger[p]
      /\ outbox'[p] = outbox[p]
      /\ pc'[w] = "release"
      /\ batch'[w] = batch[w]
  BY <1>2, <1>3, <1>4, Zenon DEF TypeOK
<1>10. Onward(p)
  <2>1. doubt[p] \subseteq doubt'[p]
    BY <1>8, Zenon DEF Has
  <2>. QED
    BY <1>4, <1>9, <2>1, Zenon DEF Onward, Effect, TypeOK
<1>11. RowInv(p)'
  BY <1>2, <1>4, <1>6, <1>8, <1>9, SMTT(60)
     DEF TypeOK, RowInv, LinkInv, Excused, InFlight, Effect, Error, Refusal, Undo, Left, Terminal
<1>12. errs'[w] <=> (errs[w] \/ o \in {"fail", "lost"} \/ (o = "ok" /\ bank[p] = "forgotten"))
  BY <1>3, <1>4, ZenonT(40) DEF TypeOK
<1>13. StepOf(w, p)' = pc'[w]
  BY <1>1, <1>9, SameStep, Zenon DEF StepOf
<1>14. LinkInv(w, p)'
  BY <1>2, <1>4, <1>6, <1>8, <1>9, <1>12, <1>13, Zenon
     DEF TypeOK, RowInv, LinkInv, Excused, InFlight, Effect, Error, Refusal, Undo, Left
<1>. QED
  BY <1>1, <1>2, <1>6, <1>7, <1>9, <1>10, <1>11, <1>14, WorkerStep, ZenonT(40)

\* The row is marked FAILED only if every call of the compensation succeeded.
LEMMA MarkStep ==
    ASSUME Inv, NEW w \in Workers, Mark(w)
    PROVE  Inv'
<1>1. PICK p : p = P(w)
  BY Zenon
<1>2. batch[w] # {} /\ pc[w] = "mark" /\ p \in batch[w] /\ p \in Payments
  BY <1>1, AtOldest, Zenon DEF Inv, Mark, At
<1>3. PICK o \in {"ok", "fail"} :
        /\ status' = [status EXCEPT ![p] = IF Effect(o) THEN FinalStatus(w) ELSE @]
        /\ doubt' = [doubt EXCEPT ![p] = @ \cup Error(o)]
        /\ pc' = [pc EXCEPT ![w] = "next"]
        /\ batch' = [batch EXCEPT ![w] = @ \ {p}]
        /\ errs' = [errs EXCEPT ![w] = FALSE]
        /\ UNCHANGED <<left, bank, resv, ledger, outbox, scenario>>
  BY <1>1, ZenonT(60) DEF Mark, Suspect, NextPayment
<1>4. TypeOK /\ RowInv(p) /\ LinkInv(w, p) /\ StepOf(w, p) = pc[w]
  BY <1>1, <1>2, Zenon DEF Inv, StepOf
<1>5. errs' \in [Workers -> BOOLEAN]
  BY <1>3, <1>4, Zenon DEF TypeOK
<1>6. TypeOK'
  <2>1. Error(o) \subseteq Doubts
    BY Zenon DEF Error, Doubts
  <2>2. doubt' \in [Payments -> SUBSET Doubts]
    BY <1>2, <1>3, <1>4, <2>1, Doubted
  <2>3. status' \in [Payments -> {"NONE"} \union Left \union Terminal]
    <3>1. (IF Effect(o) THEN FinalStatus(w) ELSE status[p]) \in {"NONE"} \union Left \union Terminal
      <4>1. status[p] \in {"NONE"} \union Left \union Terminal
        BY <1>2, <1>4 DEF TypeOK
      <4>2. FinalStatus(w) \in Terminal
        BY Zenon DEF Terminal, FinalStatus
      <4>. QED
        BY <4>1, <4>2, Zenon
    <3>2. status \in [Payments -> {"NONE"} \union Left \union Terminal]
      BY <1>4, Zenon DEF TypeOK
    <3>. QED
      BY <1>3, <3>1, <3>2, Updated, Zenon
  <2>4. pc' \in [Workers -> Steps]
    BY <1>3, <1>4, Zenon DEF TypeOK, Steps
  <2>5. batch' \in [Workers -> SUBSET Payments]
    BY <1>3, <1>4, Zenon DEF TypeOK
  <2>. QED
    BY <1>3, <1>4, <1>5, <2>2, <2>3, <2>4, <2>5, Zenon DEF TypeOK
<1>7. /\ \A q \in Payments \ {p} : SameRow(q)
      /\ \A v \in Workers \ {w} : SameWorker(v)
  BY <1>3, <1>4, Zenon DEF TypeOK, SameRow, SameWorker
<1>8. \A d : Has(p, d)' <=> Has(p, d) \/ d \in Error(o)
  BY <1>2, <1>3, <1>4, Zenon DEF TypeOK, Has
<1>9. /\ status'[p] = (IF Effect(o) THEN FinalStatus(w) ELSE status[p])
      /\ left'[p] = left[p]
      /\ bank'[p] = bank[p]
      /\ resv'[p] = resv[p]
      /\ ledger'[p] = ledger[p]
      /\ outbox'[p] = outbox[p]
      /\ pc'[w] = "next"
      /\ batch'[w] = batch[w] \ {p}
  BY <1>2, <1>3, <1>4, Zenon DEF TypeOK
<1>10. Onward(p)
  <2>1. doubt[p] \subseteq doubt'[p]
    BY <1>8, Zenon DEF Has
  <2>. QED
    BY <1>4, <1>9, <2>1, Zenon DEF Onward, Effect, TypeOK, FinalStatus
<1>11. RowInv(p)'
  BY <1>2, <1>4, <1>6, <1>8, <1>9, SMTT(60)
     DEF TypeOK, RowInv, LinkInv, Excused, InFlight, Effect, Error, Refusal, Undo, Left, Terminal,
         FinalStatus
<1>. QED
  BY <1>1, <1>2, <1>6, <1>7, <1>9, <1>10, <1>11, WorkerStep, Zenon

\* A release without error leaves no hold.
LEMMA ReleaseReservationStep ==
    ASSUME Inv, NEW w \in Workers, ReleaseReservation(w)
    PROVE  Inv'
<1>1. PICK p : p = P(w)
  BY Zenon
<1>2. batch[w] # {} /\ pc[w] = "release" /\ p \in batch[w] /\ p \in Payments
  BY <1>1, AtOldest, Zenon DEF Inv, ReleaseReservation, At
<1>3. TypeOK /\ RowInv(p) /\ LinkInv(w, p) /\ StepOf(w, p) = pc[w]
  BY <1>1, <1>2, Zenon DEF Inv, StepOf
<1>4. /\ pc' = [pc EXCEPT ![w] = "mark"] /\ batch' = batch
      /\ UNCHANGED <<status, left, bank, ledger, outbox, scenario>>
  BY ZenonT(60) DEF ReleaseReservation, Goto
<1>5. \/ left[p] = "INITIATED" /\ UNCHANGED <<resv, errs, doubt>>
      \/ \E o \in {"ok", "fail", "lost"} :
           /\ resv' = [resv EXCEPT ![p] = IF Effect(o) /\ @ = "HELD" THEN "RELEASED" ELSE @]
           /\ errs' = [errs EXCEPT ![w] = @ \/ o # "ok" \/ resv[p] = "CONFIRMED"]
           /\ doubt' = [doubt EXCEPT ![p] = @ \cup Error(o)]
  BY <1>1, ZenonT(60) DEF ReleaseReservation, hasConsent, Suspect
<1>6. errs' \in [Workers -> BOOLEAN]
  BY <1>3, <1>5, Zenon DEF TypeOK
<1>7. TypeOK'
  <2>1. resv' \in [Payments -> {"none", "HELD", "CONFIRMED", "RELEASED"}]
    BY <1>2, <1>3, <1>5, SMTT(60) DEF TypeOK
  <2>2. doubt' \in [Payments -> SUBSET Doubts]
    <3>1. \A o : Error(o) \subseteq Doubts
      BY Zenon DEF Error, Doubts
    <3>2. \A o : doubt[p] \cup Error(o) \in SUBSET Doubts
      BY <1>2, <1>3, <3>1, Zenon DEF TypeOK
    <3>3. CASE doubt' = doubt
      BY <1>3, <3>3, Zenon DEF TypeOK
    <3>4. ASSUME NEW o, doubt' = [doubt EXCEPT ![p] = @ \cup Error(o)]
          PROVE  doubt' \in [Payments -> SUBSET Doubts]
      BY <1>3, <3>2, <3>4, Zenon DEF TypeOK
    <3>. QED
      BY <1>5, <3>3, <3>4, Zenon
  <2>3. pc' \in [Workers -> Steps]
    BY <1>3, <1>4, Zenon DEF TypeOK, Steps
  <2>. QED
    BY <1>3, <1>4, <1>6, <2>1, <2>2, <2>3, Zenon DEF TypeOK
<1>8. /\ \A q \in Payments \ {p} : SameRow(q)
      /\ \A v \in Workers \ {w} : SameWorker(v)
  <2>1. \A q \in Payments \ {p} : resv'[q] = resv[q] /\ doubt'[q] = doubt[q]
    BY <1>3, <1>5, ZenonT(40) DEF TypeOK
  <2>2. \A v \in Workers \ {w} : errs'[v] = errs[v]
    BY <1>3, <1>5, Zenon DEF TypeOK
  <2>. QED
    BY <1>3, <1>4, <2>1, <2>2, Zenon DEF TypeOK, SameRow, SameWorker
<1>9. /\ status'[p] = status[p] /\ left'[p] = left[p] /\ bank'[p] = bank[p]
      /\ ledger'[p] = ledger[p] /\ outbox'[p] = outbox[p]
      /\ pc'[w] = "mark" /\ batch'[w] = batch[w]
  BY <1>2, <1>3, <1>4, Zenon DEF TypeOK
<1>10. /\ resv[p] # "HELD" => resv'[p] # "HELD"
       /\ resv[p] = "none" => resv'[p] = "none"
  BY <1>2, <1>3, <1>5, Zenon DEF TypeOK
<1>11. \A d : /\ Has(p, d) => Has(p, d)'
              /\ Has(p, d)' => Has(p, d) \/ d = "error"
  BY <1>2, <1>3, <1>5, SMTT(60) DEF TypeOK, Has, Error
<1>12. ~ errs'[w] => ~ errs[w] /\ resv'[p] # "HELD"
  <2>1. CASE left[p] = "INITIATED" /\ UNCHANGED <<resv, errs, doubt>>
    BY <1>3, <2>1, Zenon DEF RowInv
  <2>2. ASSUME NEW o \in {"ok", "fail", "lost"},
               resv' = [resv EXCEPT ![p] = IF Effect(o) /\ @ = "HELD" THEN "RELEASED" ELSE @],
               errs' = [errs EXCEPT ![w] = @ \/ o # "ok" \/ resv[p] = "CONFIRMED"]
        PROVE  ~ errs'[w] => ~ errs[w] /\ resv'[p] # "HELD"
    <3>1. errs'[w] <=> errs[w] \/ o # "ok" \/ resv[p] = "CONFIRMED"
      BY <1>3, <2>2, Zenon DEF TypeOK
    <3>2. o = "ok" => resv'[p] # "HELD"
      BY <1>2, <1>3, <2>2, Zenon DEF TypeOK, Effect
    <3>. QED
      BY <3>1, <3>2, Zenon
  <2>. QED
    BY <1>5, <2>1, <2>2, Zenon
<1>13. Onward(p)
  <2>1. doubt[p] \subseteq doubt'[p]
    BY <1>11, Zenon DEF Has
  <2>. QED
    BY <1>9, <1>10, <2>1, Zenon DEF Onward
<1>14. RowInv(p)'
  BY <1>2, <1>3, <1>9, <1>10, <1>11, Zenon DEF RowInv, LinkInv, Excused, Undo, Left
<1>15. StepOf(w, p)' = "mark"
  BY <1>1, <1>9, SameStep, Zenon DEF StepOf
<1>16. LinkInv(w, p)'
  <2>1. pc[w] = "release" /\ StepOf(w, p) = "release"
    BY <1>2, <1>3, Zenon
  <2>2. status'[p] # "NONE"
    BY <1>2, <1>3, <1>9, Zenon DEF LinkInv
  <2>3. left'[p] = "AUTHORISING" => Has(p, "error")'
    BY <1>2, <1>3, <1>9, <1>11, <2>1, Zenon DEF LinkInv, Undo
  <2>4. ~ errs'[w] => bank'[p] # "SETTLED" \/ Has(p, "refused")'
    BY <1>2, <1>3, <1>9, <1>11, <1>12, <2>1, Zenon DEF LinkInv
  <2>5. ~ Has(p, "overlap")' =>
          (InFlight(status[p]) \/ Has(p, "settle")) /\ Excused(p)
    BY <1>2, <1>3, <1>11, <2>1, Zenon DEF LinkInv, Undo
  <2>6. Excused(p) => Excused(p)'
    BY <1>9, <1>11, Zenon DEF Excused
  <2>7. InFlight(status'[p]) <=> InFlight(status[p])
    BY <1>9, Zenon
  <2>8. Has(p, "settle") => Has(p, "settle")'
    BY <1>11, Zenon
  <2>9. "mark" \in Undo /\ "mark" \notin {"ledger", "settle", "confirm", "reverseLedger"}
    BY Zenon DEF Undo
  <2>10. "mark" \notin {"ledger", "settle", "confirm", "reverseLedger", "reverseBank"}
    BY Zenon
  <2>11. ~ Has(p, "overlap")' =>
           /\ InFlight(status'[p]) \/ Has(p, "settle")'
           /\ Excused(p)'
    BY <2>5, <2>6, <2>7, <2>8, Zenon
  <2>. QED
    BY <1>12, <1>15, <2>2, <2>3, <2>4, <2>9, <2>10, <2>11, ZenonT(60) DEF LinkInv
<1>. QED
  BY <1>1, <1>2, <1>7, <1>8, <1>9, <1>13, <1>14, <1>16, WorkerStep, ZenonT(40)

\* The bank's answer: SETTLED leads on, and to compensation leads only a reversed
\* charge or a refusal.
LEMMA QueryBankStep ==
    ASSUME Inv, NEW w \in Workers, QueryBank(w)
    PROVE  Inv'
<1>1. PICK p : p = P(w)
  BY Zenon
<1>2. batch[w] # {} /\ pc[w] = "next" /\ p \in batch[w] /\ p \in Payments
  BY <1>1, AtOldest, Zenon DEF Inv, QueryBank, At
<1>3. TypeOK /\ RowInv(p) /\ LinkInv(w, p) /\ StepOf(w, p) = pc[w]
  BY <1>1, <1>2, Zenon DEF Inv, StepOf
<1>4. UNCHANGED <<status, left, bank, resv, ledger, outbox, scenario>>
  BY Zenon DEF QueryBank
<1>5. CASE left[p] # "AUTHORISING"
  <2>1. pc' = [pc EXCEPT ![w] = "release"] /\ UNCHANGED <<batch, errs, doubt>>
    BY <1>1, <1>5, ZenonT(60) DEF QueryBank, hasBank, Goto
  <2>2. TypeOK'
    BY <1>3, <1>4, <2>1, Zenon DEF TypeOK, Steps
  <2>3. /\ \A q \in Payments : SameRow(q)
        /\ \A v \in Workers \ {w} : SameWorker(v)
    BY <1>3, <1>4, <2>1, Zenon DEF TypeOK, SameRow, SameWorker
  <2>4. RowInv(p)' /\ Onward(p)
    BY <1>2, <1>3, <2>3, RowFrame, Zenon DEF Onward, SameRow
  <2>5. StepOf(w, p)' = "release"
    BY <1>1, <1>3, <2>1, SameStep, Zenon DEF StepOf, TypeOK
  <2>6. SameRow(p)
    BY <1>2, <2>3, Zenon
  <2>7. LinkInv(w, p)'
    <3>1. left'[p] # "AUTHORISING" /\ left[p] # "AUTHORISING"
      BY <1>5, <2>6, Zenon DEF SameRow
    <3>2. ledger'[p] = "none" /\ bank'[p] = "none" /\ bank[p] = "none"
      BY <1>3, <1>5, <2>6, Zenon DEF SameRow, RowInv
    <3>3. status'[p] # "NONE"
      BY <1>2, <1>3, <2>6, Zenon DEF SameRow, LinkInv
    <3>4. StepOf(w, p) = "next"
      BY <1>2, <1>3, Zenon
    <3>5. ~ Has(p, "overlap")' => InFlight(status[p])
      BY <1>2, <1>3, <2>6, <3>4, Zenon DEF SameRow, LinkInv, Has, Undo
    <3>6. InFlight(status'[p]) <=> InFlight(status[p])
      BY <2>6, Zenon DEF SameRow
    <3>. QED
      BY <2>5, <3>1, <3>2, <3>3, <3>5, <3>6, Zenon DEF LinkInv, Excused, Undo
  <2>. QED
    BY <1>1, <1>2, <2>1, <2>2, <2>3, <2>4, <2>7, WorkerStep, Zenon
<1>6. CASE left[p] = "AUTHORISING"
  <2>1. PICK o \in {"ok", "fail", "refuse"} :
          /\ doubt' = [doubt EXCEPT ![p] = @ \cup (Error(o) \cup Refusal(o))]
          /\ IF o = "fail" \/ OnStatus(BankStatus(p, o)) = "next"
             THEN NextPayment(w)
             ELSE Goto(w, OnStatus(BankStatus(p, o))) /\ UNCHANGED errs
    BY <1>1, <1>6, ZenonT(60) DEF QueryBank, hasBank, Suspect
  <2>2. doubt' \in [Payments -> SUBSET Doubts]
    BY <1>2, <1>3, <2>1, Zenon DEF TypeOK, Doubts, Error, Refusal
  <2>3. \A q \in Payments \ {p} : SameRow(q)
    BY <1>3, <1>4, <2>1, Zenon DEF TypeOK, SameRow
  <2>4. \A d : Has(p, d)' <=> Has(p, d) \/ d \in Error(o) \cup Refusal(o)
    BY <1>2, <1>3, <2>1, Zenon DEF TypeOK, Has
  <2>5. Onward(p)
    <3>1. doubt[p] \subseteq doubt'[p]
      BY <2>4, Zenon DEF Has
    <3>. QED
      BY <1>4, <3>1, Zenon DEF Onward
  <2>6. RowInv(p)'
    <3>1. /\ status'[p] = status[p] /\ left'[p] = left[p] /\ bank'[p] = bank[p]
          /\ resv'[p] = resv[p] /\ ledger'[p] = ledger[p] /\ outbox'[p] = outbox[p]
      BY <1>4, Zenon
    <3>2. /\ Has(p, "settle") => Has(p, "settle")'
          /\ Has(p, "error") => Has(p, "error")'
          /\ Has(p, "overlap") => Has(p, "overlap")'
          /\ Has(p, "refused") => Has(p, "refused")'
          /\ Has(p, "ledger") => Has(p, "ledger")'
      BY <2>4, Zenon
    <3>3. Excused(p) => Excused(p)'
      BY <3>1, <3>2, Zenon DEF Excused
    <3>. QED
      BY <1>3, <3>1, <3>2, <3>3, ZenonT(60) DEF RowInv
  <2>7. CASE o = "fail" \/ OnStatus(BankStatus(p, o)) = "next"
    <3>1. /\ pc' = [pc EXCEPT ![w] = "next"]
          /\ batch' = [batch EXCEPT ![w] = @ \ {p}]
          /\ errs' = [errs EXCEPT ![w] = FALSE]
      BY <1>1, <2>1, <2>7, ZenonT(60) DEF NextPayment
    <3>2. errs' \in [Workers -> BOOLEAN]
      BY <1>3, <3>1, Zenon DEF TypeOK
    <3>3. TypeOK'
      BY <1>3, <1>4, <2>2, <3>1, <3>2, Zenon DEF TypeOK, Steps
    <3>4. /\ \A v \in Workers \ {w} : SameWorker(v)
          /\ batch'[w] = batch[w] \ {p} /\ pc'[w] = "next"
      BY <1>3, <3>1, Zenon DEF TypeOK, SameWorker
    <3>. QED
      BY <1>1, <1>2, <2>3, <2>5, <2>6, <3>3, <3>4, WorkerStep, Zenon
  <2>8. CASE ~ (o = "fail" \/ OnStatus(BankStatus(p, o)) = "next")
    <3>1. PICK s : s = OnStatus(BankStatus(p, o))
      BY Zenon
    <3>2. pc' = [pc EXCEPT ![w] = s] /\ batch' = batch /\ errs' = errs
      BY <2>1, <2>8, <3>1, ZenonT(60) DEF Goto
    <3>3. /\ s = "ledger" /\ bank[p] = "SETTLED"
          \/ /\ s = "reverseBank"
             /\ bank[p] = "REVERSED" \/ o = "refuse"
      BY <1>2, <1>3, <1>6, <2>8, <3>1, Zenon DEF TypeOK, RowInv, OnStatus, BankStatus
    <3>4. TypeOK'
      BY <1>3, <1>4, <2>2, <3>2, <3>3, Zenon DEF TypeOK, Steps
    <3>5. /\ \A v \in Workers \ {w} : SameWorker(v)
          /\ batch'[w] = batch[w] /\ pc'[w] = s /\ errs'[w] = errs[w]
      BY <1>3, <3>2, Zenon DEF TypeOK, SameWorker
    <3>6. StepOf(w, p)' = s
      BY <1>1, <3>5, SameStep, Zenon DEF StepOf
    <3>7. LinkInv(w, p)'
      BY <1>2, <1>3, <1>4, <1>6, <2>4, <3>3, <3>5, <3>6, Zenon
         DEF RowInv, LinkInv, Excused, InFlight, Undo, Error, Refusal
    <3>. QED
      BY <1>1, <1>2, <2>3, <2>5, <2>6, <3>4, <3>5, <3>7, WorkerStep, Zenon
  <2>. QED
    BY <2>7, <2>8, Zenon
<1>. QED
  BY <1>5, <1>6, Zenon

-----------------------------------------------------------------------------
(* The other steps.                                                        *)

\* A row that gets stale is on no worker's list.
LEMMA BecomesStaleStep ==
    ASSUME Inv, NEW p \in Payments, BecomesStale(p)
    PROVE  Inv'
<1>1. PICK s \in scenario.left :
        /\ status' = [status EXCEPT ![p] = s]
        /\ left' = [left EXCEPT ![p] = s]
        /\ bank' = [bank EXCEPT ![p] = IF s = "AUTHORISING" THEN "SETTLED" ELSE "none"]
        /\ resv' = [resv EXCEPT ![p] = IF s = "INITIATED" THEN "none" ELSE "HELD"]
  BY Zenon DEF BecomesStale
<1>2. /\ status[p] = "NONE" /\ TypeOK /\ RowInv(p)
      /\ UNCHANGED <<ledger, outbox, batch, pc, errs, scenario, doubt>>
  BY Zenon DEF Inv, BecomesStale, workVars
<1>3. s \in Left
  BY <1>2, Zenon DEF TypeOK, Left
<1>4. TypeOK'
  BY <1>1, <1>2, <1>3, Zenon DEF TypeOK, Left
<1>5. /\ \A q \in Payments \ {p} : SameRow(q)
      /\ \A v \in Workers : SameWorker(v)
  BY <1>1, <1>2, Zenon DEF TypeOK, SameRow, SameWorker
<1>6. RowInv(p)'
  BY <1>1, <1>2, <1>3, Zenon DEF TypeOK, RowInv, Has, Excused, Left
<1>7. ASSUME NEW q \in Payments PROVE RowInv(q)'
  BY <1>5, <1>6, RowFrame, Zenon DEF Inv
<1>8. ASSUME NEW w \in Workers, NEW q \in Payments PROVE LinkInv(w, q)'
  <2>1. CASE q = p
    BY <1>2, <2>1, ZenonT(40) DEF Inv, LinkInv
  <2>2. CASE q # p
    BY <1>5, <2>2, LinkFrame, ZenonT(40) DEF Inv
  <2>. QED
    BY <2>1, <2>2, Zenon
<1>9. \A v, w \in Workers, q \in Payments : Alone(v, w, q)'
  BY <1>2, Zenon DEF Inv, Alone, Has
<1>. QED
  BY <1>2, <1>4, <1>7, <1>8, <1>9, Zenon DEF Inv

\* A doubt about a payment changes nothing about it.
LEMMA DoubtFrame ==
    ASSUME NEW q, RowInv(q), doubt[q] \subseteq doubt'[q],
           UNCHANGED <<status, left, bank, resv, ledger, outbox>>
    PROVE  /\ RowInv(q)'
           /\ \A v \in Workers : LinkInv(v, q) /\ SameWorker(v) => LinkInv(v, q)'
<1>1. \A d : Has(q, d) => Has(q, d)'
  BY Zenon DEF Has
<1>2. RowInv(q)'
  BY <1>1, Zenon DEF RowInv, Excused
<1>3. ASSUME NEW v \in Workers, LinkInv(v, q), SameWorker(v) PROVE LinkInv(v, q)'
  <2>1. StepOf(v, q)' = StepOf(v, q)
    BY <1>3, SameStep, Zenon DEF StepOf, SameWorker
  <2>. QED
    BY <1>1, <1>3, <2>1, Zenon DEF LinkInv, SameWorker, Excused, InFlight
<1>. QED
  BY <1>2, <1>3, Zenon

\* A tick lists rows that are in flight, and a row that another worker has is
\* doubted.
LEMMA ListStep ==
    ASSUME Inv, NEW w \in Workers, ListStaleInFlightPayments(w)
    PROVE  Inv'
<1>1. PICK F : F = FirstRows
  BY Zenon
<1>2. /\ batch[w] = {} /\ pc[w] = "next" /\ TypeOK
      /\ batch' = [batch EXCEPT ![w] = F]
      /\ doubt' = [p \in Payments |-> IF \E v \in Workers \ {w} : p \in batch[v] \cap F
                                      THEN doubt[p] \cup {"overlap"} ELSE doubt[p]]
      /\ UNCHANGED <<status, left, bank, resv, ledger, outbox, pc, errs, scenario>>
  BY <1>1, ZenonT(60) DEF Inv, ListStaleInFlightPayments
<1>3. F \subseteq Payments /\ \A p \in F : InFlight(status[p])
  BY <1>1, Zenon DEF FirstRows, Stale
<1>4. \A q \in Payments : /\ doubt[q] \subseteq doubt'[q] /\ doubt'[q] \subseteq Doubts
                          /\ (\E v \in Workers \ {w} : q \in batch[v] \cap F)
                               => "overlap" \in doubt'[q]
  BY <1>2 DEF TypeOK, Doubts
<1>5. TypeOK'
  <2>1. doubt' \in [Payments -> SUBSET Doubts]
    BY <1>2, <1>4, Zenon
  <2>2. batch' \in [Workers -> SUBSET Payments]
    BY <1>2, <1>3, Zenon DEF TypeOK
  <2>. QED
    BY <1>2, <2>1, <2>2, Zenon DEF TypeOK
<1>6. \A v \in Workers \ {w} : SameWorker(v)
  BY <1>2, Zenon DEF TypeOK, SameWorker
<1>7. ASSUME NEW q \in Payments PROVE RowInv(q)'
  BY <1>2, <1>4, DoubtFrame, Zenon DEF Inv
<1>8. ASSUME NEW v \in Workers, NEW q \in Payments PROVE LinkInv(v, q)'
  <2>1. CASE v # w
    BY <1>2, <1>4, <1>6, <2>1, DoubtFrame, Zenon DEF Inv
  <2>2. CASE v = w
    <3>1. StepOf(w, q)' = "next"
      BY <1>2, Zenon DEF StepOf
    <3>2. q \in batch'[w] => InFlight(status[q])
      BY <1>2, <1>3, Zenon DEF TypeOK
    <3>. QED
      BY <1>2, <2>2, <3>1, <3>2, Zenon DEF LinkInv, InFlight, Undo
  <2>. QED
    BY <2>1, <2>2, Zenon
<1>9. ASSUME NEW u \in Workers, NEW v \in Workers, NEW q \in Payments PROVE Alone(u, v, q)'
  <2>1. batch'[w] = F /\ \A x \in Workers \ {w} : batch'[x] = batch[x]
    BY <1>2, Zenon DEF TypeOK
  <2>. QED
    BY <1>4, <2>1, Zenon DEF Inv, Alone, Has
<1>10. \A v \in Workers : batch'[v] = {} => pc'[v] = "next"
  BY <1>2, Zenon DEF Inv, TypeOK
<1>. QED
  BY <1>5, <1>7, <1>8, <1>9, <1>10, Zenon DEF Inv

\* A worker that stops forgets its copies.
LEMMA StopStep ==
    ASSUME Inv, NEW w \in Workers, Stop(w)
    PROVE  Inv'
<1>1. PICK p : p = P(w)
  BY Zenon
<1>2. /\ TypeOK /\ p \in Payments
      /\ batch' = [batch EXCEPT ![w] = {}] /\ pc' = [pc EXCEPT ![w] = "next"]
      /\ errs' = [errs EXCEPT ![w] = FALSE]
      /\ doubt' = [doubt EXCEPT ![p] = @ \cup {"error"}]
      /\ UNCHANGED <<status, left, bank, resv, ledger, outbox, scenario>>
  BY <1>1, AtOldest, ZenonT(60) DEF Inv, Stop, Suspect
<1>3. errs' \in [Workers -> BOOLEAN]
  BY <1>2, Zenon DEF TypeOK
<1>4. TypeOK'
  BY <1>2, <1>3, Zenon DEF TypeOK, Steps, Doubts
<1>5. /\ \A q \in Payments : doubt[q] \subseteq doubt'[q]
      /\ \A v \in Workers \ {w} : SameWorker(v)
      /\ batch'[w] = {} /\ pc'[w] = "next"
  BY <1>2, Zenon DEF TypeOK, SameWorker
<1>6. ASSUME NEW q \in Payments PROVE RowInv(q)'
  BY <1>2, <1>5, DoubtFrame, Zenon DEF Inv
<1>7. ASSUME NEW v \in Workers, NEW q \in Payments PROVE LinkInv(v, q)'
  <2>1. CASE v # w
    BY <1>2, <1>5, <2>1, DoubtFrame, Zenon DEF Inv
  <2>2. CASE v = w
    BY <1>5, <2>2, Zenon DEF LinkInv
  <2>. QED
    BY <2>1, <2>2, Zenon
<1>8. ASSUME NEW u \in Workers, NEW v \in Workers, NEW q \in Payments PROVE Alone(u, v, q)'
  BY <1>5, Zenon DEF Inv, Alone, Has, SameWorker
<1>9. \A v \in Workers : batch'[v] = {} => pc'[v] = "next"
  BY <1>5, Zenon DEF Inv, SameWorker
<1>. QED
  BY <1>4, <1>6, <1>7, <1>8, <1>9, Zenon DEF Inv

\* A bank that forgets its charges neither settles nor reverses one.
LEMMA RestartBankStep ==
    ASSUME Inv, RestartBank
    PROVE  Inv'
<1>1. /\ bank' = [p \in Payments |-> IF bank[p] = "none" THEN "none" ELSE "forgotten"]
      /\ UNCHANGED <<status, left, resv, ledger, outbox, batch, pc, errs, scenario, doubt>>
  BY Zenon DEF RestartBank, workVars
<1>2. TypeOK'
  BY <1>1, Zenon DEF Inv, TypeOK
<1>3. \A q \in Payments : bank'[q] = IF bank[q] = "none" THEN "none" ELSE "forgotten"
  BY <1>1, Zenon
<1>4. ASSUME NEW q \in Payments PROVE RowInv(q)'
  BY <1>1, <1>3, Zenon DEF Inv, RowInv, Has, Excused
<1>5. ASSUME NEW v \in Workers, NEW q \in Payments PROVE LinkInv(v, q)'
  <2>1. StepOf(v, q)' = StepOf(v, q)
    BY <1>1, SameStep, Zenon DEF StepOf
  <2>2. LinkInv(v, q)
    BY Zenon DEF Inv
  <2>. QED
    BY <1>1, <1>3, <2>1, <2>2, Zenon DEF LinkInv, Has, Excused, InFlight
<1>6. \A u, v \in Workers, q \in Payments : Alone(u, v, q)'
  BY <1>1, Zenon DEF Inv, Alone, Has
<1>. QED
  BY <1>1, <1>2, <1>4, <1>5, <1>6, Zenon DEF Inv

\* No row is stale and no worker has a copy.
LEMMA InitInv == Init => Inv
<1>. SUFFICES ASSUME Init PROVE Inv
  BY Zenon
<1>1. TypeOK
  <2>1. errs \in [Workers -> BOOLEAN]
    BY Zenon DEF Init
  <2>. QED
    BY <2>1, Zenon DEF Init, TypeOK, Steps
<1>2. \A p \in Payments : RowInv(p)
  BY SMTT(60) DEF Init, RowInv, Has, Excused, Left
<1>3. \A w \in Workers, p \in Payments : LinkInv(w, p)
  BY Zenon DEF Init, LinkInv
<1>4. \A v, w \in Workers, p \in Payments : Alone(v, w, p)
  BY Zenon DEF Init, Alone
<1>5. \A w \in Workers : pc[w] = "next"
  BY Zenon DEF Init
<1>. QED
  BY <1>1, <1>2, <1>3, <1>4, <1>5, Zenon DEF Inv

\* Every step keeps Inv.
LEMMA NextInv == Inv /\ [Next]_vars => Inv'
<1>. SUFFICES ASSUME Inv, [Next]_vars PROVE Inv'
  BY Zenon
<1>1. CASE UNCHANGED vars
  <2>1. /\ \A q \in Payments : SameRow(q)
        /\ \A v \in Workers : SameWorker(v)
        /\ UNCHANGED <<status, left, bank, resv, ledger, outbox, batch, pc, errs, scenario, doubt>>
    BY <1>1, Zenon DEF vars, workVars, SameRow, SameWorker
  <2>2. TypeOK'
    BY <2>1, Zenon DEF Inv, TypeOK
  <2>3. ASSUME NEW q \in Payments PROVE RowInv(q)'
    BY <2>1, RowFrame, Zenon DEF Inv
  <2>4. ASSUME NEW v \in Workers, NEW q \in Payments PROVE LinkInv(v, q)'
    BY <2>1, LinkFrame, ZenonT(40) DEF Inv
  <2>5. \A u, v \in Workers, q \in Payments : Alone(u, v, q)'
    BY <2>1, Zenon DEF Inv, Alone, Has
  <2>. QED
    BY <2>1, <2>2, <2>3, <2>4, <2>5, Zenon DEF Inv
<1>2. CASE \E p \in Payments : BecomesStale(p)
  BY <1>2, BecomesStaleStep, Zenon
<1>3. CASE \E w \in Workers : ListStaleInFlightPayments(w) \/ Stop(w)
  BY <1>3, ListStep, StopStep, Zenon
<1>4. CASE \E w \in Workers : Work(w)
  BY <1>4, QueryBankStep, PostDoubleEntryStep, SettleWithOutboxStep, ConfirmReservationStep,
     ReverseEntryStep, ReversePaymentStep, ReleaseReservationStep, MarkStep DEF Work
<1>5. CASE RestartBank
  BY <1>5, RestartBankStep, Zenon
<1>. QED
  BY <1>1, <1>2, <1>3, <1>4, <1>5, Zenon DEF Next

-----------------------------------------------------------------------------
(* The theorems.                                                           *)

\* The inductive invariant of the workers and their rows.
THEOREM Invariance == Spec => []Inv
  BY InitInv, NextInv, PTL DEF Spec

\* SettleWithOutbox publishes a second event only for a payment two workers had at
\* the same time, whatever fails, stops or is repeated.
THEOREM OneEventWithoutOverlap == Spec => []SecondEventOnlyAfterOverlap
<1>1. Inv => SecondEventOnlyAfterOverlap
  <2>. SUFFICES ASSUME Inv, NEW p \in Payments, outbox[p] > 1
                PROVE  "overlap" \in doubt[p]
    BY Zenon DEF SecondEventOnlyAfterOverlap
  <2>1. RowInv(p) /\ outbox[p] \in Nat
    BY Zenon DEF Inv, TypeOK
  <2>. QED
    BY <2>1, SMTT(30) DEF RowInv, Has
<1>. QED
  BY <1>1, Invariance, PTL

\* ResumeFromLedger: a settled payment has its charge and its entry, unless
\* SettleWithOutbox itself failed or overlapping workers met an error.
THEOREM SettledPaymentsAreWhole == Spec => []SettledIsWhole
<1>1. Inv => SettledIsWhole
  <2>. SUFFICES ASSUME Inv, NEW p \in Payments, status[p] = "SETTLED",
                       "settle" \notin doubt[p],
                       "overlap" \notin doubt[p] \/ "error" \notin doubt[p]
                PROVE  bank[p] # "REVERSED" /\ ledger[p] = "posted"
    BY Zenon DEF SettledIsWhole
  <2>1. RowInv(p) /\ ledger[p] \in {"none", "posted", "reversed"}
    BY Zenon DEF Inv, TypeOK
  <2>. QED
    BY <2>1, Zenon DEF RowInv, Has
<1>. QED
  BY <1>1, Invariance, PTL

\* compensate, MarkFailed: a FAILED payment holds no reservation, no charge that
\* was not refused and no entry that a failed call or an overlap does not explain.
THEOREM FailedPaymentsAreUndone == Spec => []FailedIsUndone
<1>1. Inv => FailedIsUndone
  <2>. SUFFICES ASSUME Inv, NEW p \in Payments, status[p] = "FAILED"
                PROVE  /\ resv[p] # "HELD"
                       /\ bank[p] # "SETTLED" \/ "refused" \in doubt[p]
                       /\ \/ ledger[p] # "posted" \/ doubt[p] \cap {"ledger", "refused"} # {}
                          \/ {"overlap", "error"} \subseteq doubt[p]
    BY Zenon DEF FailedIsUndone
  <2>1. RowInv(p)
    BY Zenon DEF Inv
  <2>2. \/ ledger[p] # "posted" \/ "ledger" \in doubt[p] \/ "refused" \in doubt[p]
        \/ "overlap" \in doubt[p] /\ "error" \in doubt[p]
    BY <2>1, Zenon DEF RowInv, Has, Excused
  <2>3. resv[p] # "HELD" /\ (bank[p] # "SETTLED" \/ "refused" \in doubt[p])
    BY <2>1, Zenon DEF RowInv, Has
  <2>. QED
    BY <2>2, <2>3, Zenon
<1>. QED
  BY <1>1, Invariance, PTL
=============================================================================
