----------------------- MODULE PaymentInitiationProofs -----------------------
(***************************************************************************)
(* Proofs about PaymentInitiation, for any number of requests with one     *)
(* idempotency key, any kinds of faults and any bound on them.             *)
(*                                                                         *)
(* The row decides everything.  It is written once (RowInv: whoever runs   *)
(* the saga, and whatever names a payment, names the row).  That the key   *)
(* names no running saga needs more, because Release and CompleteExisting  *)
(* overwrite the key without looking at it: as long as there is no row, or *)
(* its saga runs, and Redis has not forgotten the key, only one request    *)
(* owns the key and nobody else is about to write it (OwnerInv).           *)
(***************************************************************************)
EXTENDS PaymentInitiation, TLAPS

Places ==
    {"start", "get", "setnx", "getAgain", "create", "saga", "complete", "release",
     "releaseDuplicate", "lookup", "completeExisting", "wait", "fallback", "done"}

TypeOK ==
    /\ redis \in Requests \union {Nil, "PROCESSING"}
    /\ row \in Requests \union {Nil}
    /\ terminal \in BOOLEAN
    /\ pc \in [Requests -> Places]
    /\ reply \in [Requests -> Requests \union {Nil, "error", "conflict"}]
    /\ ran \subseteq Requests
    /\ faults \in Nat
    /\ forgot \in BOOLEAN

\* Every payment id that anybody holds is the row's.
RowInv ==
    /\ \A r \in ran : r = row
    /\ \A r \in Requests : pc[r] \in {"saga", "complete"} => r = row
    /\ \A r \in Requests :
          pc[r] \in {"releaseDuplicate", "lookup", "completeExisting"} => row # Nil
    /\ AnswersNameTheRow

\* The requests that write the key without owning it.
Writers == {r \in Requests : pc[r] \in {"lookup", "completeExisting"}}

\* Nobody has had a result yet: there is no row, or its saga runs.
Open == row = Nil \/ (row \in Requests /\ pc[row] = "saga")

OwnerInv ==
    ~forgot /\ Open =>
        /\ \A r \in Owners : redis = "PROCESSING" /\ pc[r] # "releaseDuplicate"
        /\ \A r, s \in Owners : r = s
        /\ Writers = {}

Inv == TypeOK /\ RowInv /\ OwnerInv

USE InitiationAssumption DEF Inv, Goto, Return, Answer, Fault

-----------------------------------------------------------------------------
\* No request has arrived.
LEMMA InitInv == Init => Inv
<1>. SUFFICES ASSUME Init PROVE Inv
  OBVIOUS
<1>1. TypeOK
  <2>1. terminal \in BOOLEAN /\ forgot \in BOOLEAN
    BY Zenon DEF Init
  <2>. QED
    BY <2>1, SMTT(30) DEF Init, TypeOK, Places
<1>2. RowInv
  BY SMTT(30) DEF Init, RowInv, AnswersNameTheRow
<1>3. OwnerInv
  BY SMTT(30) DEF Init, OwnerInv, Owners, Writers, Open
<1>. QED
  BY <1>1, <1>2, <1>3

\* A SET NX of the key.
LEMMA ClaimInv ==
    ASSUME Inv, NEW r \in Requests, NEW place \in {"start", "setnx"},
           NEW next \in {"get", "getAgain"}, Claim(r, place, next)
    PROVE  Inv'
<1>1. TypeOK'
  BY SMTT(30) DEF TypeOK, Places, Claim, SetNX
<1>2. RowInv'
  BY SMTT(30) DEF TypeOK, Places, RowInv, AnswersNameTheRow, Claim, SetNX
<1>3. OwnerInv'
  BY SMTT(30) DEF TypeOK, Places, RowInv, AnswersNameTheRow, OwnerInv, Owners, Writers,
     Open, Claim, SetNX
<1>. QED
  BY <1>1, <1>2, <1>3

\* A GET of the key.
LEMMA LookInv ==
    ASSUME Inv, NEW r \in Requests, NEW place \in {"get", "getAgain"},
           NEW missing \in {"setnx", "done"}, Look(r, place, missing)
    PROVE  Inv'
<1>1. TypeOK'
  BY SMTT(30) DEF TypeOK, Places, Look
<1>2. RowInv'
  BY SMTT(30) DEF TypeOK, Places, RowInv, AnswersNameTheRow, Look
<1>3. OwnerInv'
  BY SMTT(30) DEF TypeOK, Places, RowInv, AnswersNameTheRow, OwnerInv, Owners, Writers,
     Open, Look
<1>. QED
  BY <1>1, <1>2, <1>3

\* The INSERT.
LEMMA CreatePaymentInv ==
    ASSUME Inv, NEW r \in Requests, CreatePayment(r)
    PROVE  Inv'
<1>1. TypeOK'
  BY SMTT(30) DEF TypeOK, Places, CreatePayment, KeyUnused
<1>2. RowInv'
  BY SMTT(30) DEF TypeOK, Places, RowInv, AnswersNameTheRow, CreatePayment, KeyUnused
<1>3. OwnerInv'
  BY SMTT(30) DEF TypeOK, Places, RowInv, AnswersNameTheRow, OwnerInv, Owners, Writers,
     Open, CreatePayment, KeyUnused
<1>. QED
  BY <1>1, <1>2, <1>3

\* The saga.
LEMMA RunSagaInv ==
    ASSUME Inv, NEW r \in Requests, RunSaga(r)
    PROVE  Inv'
<1>1. TypeOK'
  BY SMTT(30) DEF TypeOK, Places, RunSaga
<1>2. RowInv'
  BY SMTT(30) DEF TypeOK, Places, RowInv, AnswersNameTheRow, RunSaga
<1>3. OwnerInv'
  BY SMTT(30) DEF TypeOK, Places, RowInv, AnswersNameTheRow, OwnerInv, Owners, Writers,
     Open, RunSaga
<1>. QED
  BY <1>1, <1>2, <1>3

\* The key after the saga.
LEMMA CompleteInv ==
    ASSUME Inv, NEW r \in Requests, Complete(r)
    PROVE  Inv'
<1>1. TypeOK'
  BY SMTT(30) DEF TypeOK, Places, Complete, CompletedId
<1>2. RowInv'
  BY SMTT(30) DEF TypeOK, Places, RowInv, AnswersNameTheRow, Complete, CompletedId
<1>3. OwnerInv'
  BY SMTT(30) DEF TypeOK, Places, RowInv, AnswersNameTheRow, OwnerInv, Owners, Writers,
     Open, Complete, CompletedId
<1>. QED
  BY <1>1, <1>2, <1>3

\* The key is given back after a failed insert.
LEMMA ReleaseInv ==
    ASSUME Inv, NEW r \in Requests, Release(r)
    PROVE  Inv'
<1>1. TypeOK'
  BY SMTT(30) DEF TypeOK, Places, Release
<1>2. RowInv'
  BY SMTT(30) DEF TypeOK, Places, RowInv, AnswersNameTheRow, Release
<1>3. OwnerInv'
  BY SMTT(30) DEF TypeOK, Places, RowInv, AnswersNameTheRow, OwnerInv, Owners, Writers,
     Open, Release
<1>. QED
  BY <1>1, <1>2, <1>3

\* The key is given back after a duplicate insert.
LEMMA ReleaseDuplicateInv ==
    ASSUME Inv, NEW r \in Requests, ReleaseDuplicate(r)
    PROVE  Inv'
<1>1. TypeOK'
  BY SMTT(30) DEF TypeOK, Places, ReleaseDuplicate
<1>2. RowInv'
  BY SMTT(30) DEF TypeOK, Places, RowInv, AnswersNameTheRow, ReleaseDuplicate
<1>3. OwnerInv'
  BY SMTT(30) DEF TypeOK, Places, RowInv, AnswersNameTheRow, OwnerInv, Owners, Writers,
     Open, ReleaseDuplicate
<1>. QED
  BY <1>1, <1>2, <1>3

\* The row with the key.
LEMMA LookupExistingInv ==
    ASSUME Inv, NEW r \in Requests, LookupExisting(r)
    PROVE  Inv'
<1>1. TypeOK'
  BY SMTT(30) DEF TypeOK, Places, LookupExisting
<1>2. RowInv'
  BY SMTT(30) DEF TypeOK, Places, RowInv, AnswersNameTheRow, LookupExisting
<1>3. OwnerInv'
  BY SMTT(30) DEF TypeOK, Places, RowInv, AnswersNameTheRow, OwnerInv, Owners, Writers,
     Open, LookupExisting
<1>. QED
  BY <1>1, <1>2, <1>3

\* The key names the row that was found.
LEMMA CompleteExistingInv ==
    ASSUME Inv, NEW r \in Requests, CompleteExisting(r)
    PROVE  Inv'
<1>1. TypeOK'
  BY SMTT(30) DEF TypeOK, Places, CompleteExisting, ExistingId
<1>2. RowInv'
  BY SMTT(30) DEF TypeOK, Places, RowInv, AnswersNameTheRow, CompleteExisting, ExistingId
<1>3. OwnerInv'
  BY SMTT(30) DEF TypeOK, Places, RowInv, AnswersNameTheRow, OwnerInv, Owners, Writers,
     Open, CompleteExisting, ExistingId
<1>. QED
  BY <1>1, <1>2, <1>3

\* A poll, and the lookup after it.
LEMMA WaitInv ==
    ASSUME Inv, NEW r \in Requests, WaitForCompletion(r) \/ Fallback(r)
    PROVE  Inv'
<1>1. TypeOK'
  BY SMTT(30) DEF TypeOK, Places, WaitForCompletion, WaitIsOver, Fallback
<1>2. RowInv'
  BY SMTT(30) DEF TypeOK, Places, RowInv, AnswersNameTheRow, WaitForCompletion, WaitIsOver,
     Fallback
<1>3. OwnerInv'
  BY SMTT(30) DEF TypeOK, Places, RowInv, AnswersNameTheRow, OwnerInv, Owners, Writers,
     Open, WaitForCompletion, WaitIsOver, Fallback
<1>. QED
  BY <1>1, <1>2, <1>3

\* The key's TTL, a Redis that forgets, a crash, and the worker.
LEMMA EnvironmentInv ==
    ASSUME Inv, KeyExpires \/ RedisLosesKey \/ Crash \/ Reconcile
    PROVE  Inv'
<1>1. TypeOK'
  <2>1. CASE KeyExpires
    BY <2>1, SMTT(30) DEF TypeOK, KeyExpires
  <2>2. CASE RedisLosesKey
    BY <2>2, SMTT(30) DEF TypeOK, RedisLosesKey
  <2>3. CASE Crash
    BY <2>3, SMTT(30) DEF TypeOK, Places, Crash
  <2>4. CASE Reconcile
    BY <2>4, SMTT(30) DEF TypeOK, Reconcile
  <2>. QED
    BY <2>1, <2>2, <2>3, <2>4
<1>2. RowInv'
  BY SMTT(30) DEF TypeOK, Places, RowInv, AnswersNameTheRow, KeyExpires, RedisLosesKey,
     Crash, Reconcile, Owners
<1>3. OwnerInv'
  BY SMTT(30) DEF TypeOK, Places, RowInv, AnswersNameTheRow, OwnerInv, Owners, Writers,
     Open, KeyExpires, RedisLosesKey, Crash, Reconcile, Owners
<1>. QED
  BY <1>1, <1>2, <1>3

\* Inv is kept by every step.
LEMMA NextInv == Inv /\ [Next]_vars => Inv'
<1>. SUFFICES ASSUME Inv, [Next]_vars PROVE Inv'
  OBVIOUS
<1>1. ASSUME NEW r \in Requests, Serve(r) PROVE Inv'
  <2>1. CASE Begin(r)
    BY <2>1, ClaimInv, LookInv DEF Begin
  <2>2. CASE WaitForCompletion(r) \/ Fallback(r)
    BY <2>2, WaitInv
  <2>. QED
    BY <1>1, <2>1, <2>2, CreatePaymentInv, RunSagaInv, CompleteInv, ReleaseInv,
       ReleaseDuplicateInv, LookupExistingInv, CompleteExistingInv DEF Serve
<1>2. CASE UNCHANGED vars
  BY <1>2, SMTT(30) DEF vars, TypeOK, RowInv, AnswersNameTheRow, OwnerInv, Owners, Writers,
     Open
<1>. QED
  BY <1>1, <1>2, EnvironmentInv DEF Next, Quiescent

-----------------------------------------------------------------------------
\* Inv holds in every reachable state of Initiate, whatever fails.
THEOREM Invariance == Spec => []Inv
  BY InitInv, NextInv, PTL DEF Spec

\* Initiate: however many requests come with one idempotency key, and whatever
\* is lost, forgotten or restarted, one saga is started: the one of the request
\* whose INSERT made the row.
THEOREM OneSaga == Spec => []OneSagaPerKey
<1>1. Inv => OneSagaPerKey
  BY DEF RowInv, OneSagaPerKey
<1>. QED
  BY <1>1, Invariance, PTL

\* Initiate: every answer and every completed key names the payment that has
\* the row, so that no two callers are told of different payments.
THEOREM AnswersAgree == Spec => []AnswersNameTheRow
<1>1. Inv => AnswersNameTheRow
  BY DEF RowInv
<1>. QED
  BY <1>1, Invariance, PTL

\* idempotency.Store: a key that Redis has not forgotten names no payment whose
\* saga still runs.
THEOREM CompletedKeysAreOver == Spec => []CompletedIsOver
<1>1. Inv => CompletedIsOver
  BY SMTT(30) DEF TypeOK, RowInv, AnswersNameTheRow, OwnerInv, Owners, Open, CompletedIsOver
<1>. QED
  BY <1>1, Invariance, PTL
=============================================================================
