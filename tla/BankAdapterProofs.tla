-------------------------- MODULE BankAdapterProofs --------------------------
(***************************************************************************)
(* Proofs about BankAdapter, for any number of concurrent calls, attempts  *)
(* and settings of the circuit breaker.                                    *)
(*                                                                         *)
(* An attempt adds at most one charge, and while a call is tried again     *)
(* nothing has been heard of any of them (CallInv).  The breaker is a      *)
(* separate matter: it admits no more calls than MaxRequests while it is   *)
(* half-open, and counts only calls of the present generation              *)
(* (BreakerInv).                                                           *)
(***************************************************************************)
EXTENDS BankAdapter, FiniteSetTheorems, TLAPS

States == {"closed", "open", "half-open"}

BreakerTypeOK ==
    /\ breaker \in States
    /\ fails \in Nat /\ wins \in Nat /\ requests \in Nat
    /\ mine \in [Callers -> BOOLEAN]

TypeOK ==
    /\ pc \in [Callers -> {"idle", "post", "backoff"}]
    /\ attempt \in [Callers -> Nat]
    /\ reply \in [Callers -> {"none", "ok", "rejected", "error", "open"}]
    /\ charges \in [Callers -> Nat]
    /\ unheard \in [Callers -> Nat]
    /\ faults \in Nat

\* A call under way: every charge is one of an attempt made, and unheard of.
CallInv ==
    \A c \in Callers :
        /\ pc[c] = "post" => /\ attempt[c] \in 1..Attempts
                             /\ charges[c] < attempt[c]
                             /\ charges[c] = unheard[c]
        /\ pc[c] = "backoff" => /\ attempt[c] \in 1..(Attempts - 1)
                                /\ charges[c] <= attempt[c]
                                /\ charges[c] = unheard[c]

\* The calls of the present generation.
Counted == {c \in Callers : mine[c]}

\* The breaker's counts: what trips it and what closes it lies ahead, a call that
\* counts is under way, and each one admitted by the half-open breaker counts or
\* has succeeded.
BreakerInv ==
    /\ \A c \in Callers : mine[c] => pc[c] # "idle"
    /\ breaker = "closed" => fails <= Threshold
    /\ breaker = "open" => Counted = {}
    /\ breaker = "half-open" =>
          /\ wins < MaxRequests /\ requests <= MaxRequests
          /\ Cardinality(Counted) + wins = requests

Inv == BreakerTypeOK /\ TypeOK /\ CallInv /\ BreakerInv /\ AnswersAccountForCharges

\* A breaker that admits nobody is waiting for somebody: the timeout of 10
\* seconds, or a call under way whose result it will count.
NeverStuck ==
    breaker = "half-open" /\ TooMany => \E c \in Callers : mine[c] /\ pc[c] # "idle"

USE AdapterAssumption DEF Inv

-----------------------------------------------------------------------------
\* No call has been made and the breaker is closed.
LEMMA InitInv == Init => Inv
<1>. SUFFICES ASSUME Init PROVE Inv
  OBVIOUS
<1>1. BreakerTypeOK /\ TypeOK
  BY SMTT(30) DEF Init, BreakerTypeOK, TypeOK, States
<1>2. CallInv /\ AnswersAccountForCharges
  BY SMTT(30) DEF Init, CallInv, AnswersAccountForCharges
<1>3. BreakerInv
  BY SMTT(30) DEF Init, BreakerInv
<1>. QED
  BY <1>1, <1>2, <1>3

\* A call begins or ceases to count.
LEMMA CountOne ==
    ASSUME mine \in [Callers -> BOOLEAN], NEW c \in Callers
    PROVE  /\ Cardinality(Counted) \in Nat
           /\ mine' = [mine EXCEPT ![c] = TRUE] /\ ~mine[c]
              => Cardinality(Counted') = Cardinality(Counted) + 1
           /\ mine' = [mine EXCEPT ![c] = FALSE] /\ mine[c]
              => Cardinality(Counted') = Cardinality(Counted) - 1
<1>1. IsFiniteSet(Counted)
  BY FS_Subset DEF Counted
<1>2. mine' = [mine EXCEPT ![c] = TRUE] /\ ~mine[c]
      => c \notin Counted /\ Counted' = Counted \union {c}
  BY SMTT(30) DEF Counted
<1>3. mine' = [mine EXCEPT ![c] = FALSE] /\ mine[c]
      => c \in Counted /\ Counted' = Counted \ {c}
  BY SMTT(30) DEF Counted
<1>. QED
  BY <1>1, <1>2, <1>3, FS_CardinalityType, FS_AddElement, FS_RemoveElement

\* A new generation counts nobody.
LEMMA NoneCounted ==
    ASSUME mine' = [c \in Callers |-> FALSE]
    PROVE  Counted' = {} /\ Cardinality(Counted') = 0
  BY FS_EmptySet, SMTT(30) DEF Counted

\* What the breaker makes of a call that ends.
LEMMA AfterRequestInv ==
    ASSUME Inv, NEW c \in Callers, NEW success, pc[c] # "idle",
           pc' = [pc EXCEPT ![c] = "idle"], AfterRequest(c, success)
    PROVE  BreakerTypeOK' /\ BreakerInv'
<1>. DEFINE Ends == mine[c] /\ mine' = [mine EXCEPT ![c] = FALSE]
                    /\ UNCHANGED <<breaker, requests>>
<1>1. breaker # "open" \/ ~mine[c]
  BY SMTT(30) DEF BreakerInv, Counted
<1>2. \/ ~mine[c] /\ UNCHANGED <<breaker, counts, mine>>
      \/ Generation("open") \/ Generation("closed")
      \/ Ends /\ breaker = "closed" /\ wins' = 0 /\ fails' \in 0..Threshold
      \/ Ends /\ breaker = "half-open" /\ wins' = wins + 1 /\ wins' < MaxRequests /\ fails' = 0
  BY <1>1, SMTT(30) DEF AfterRequest, ReadyToTrip, Recovered, BreakerTypeOK, States
<1>3. CASE ~mine[c] /\ UNCHANGED <<breaker, counts, mine>>
  <2>1. Counted' = Counted
    BY <1>3 DEF Counted
  <2>. QED
    BY <1>3, <2>1, SMTT(30) DEF BreakerTypeOK, TypeOK, BreakerInv, counts
<1>4. CASE Generation("open") \/ Generation("closed")
  <2>1. Counted' = {}
    BY <1>4, NoneCounted DEF Generation
  <2>2. mine' \in [Callers -> BOOLEAN] /\ \A d \in Callers : ~mine'[d]
    BY <1>4, Zenon DEF Generation
  <2>. QED
    BY <1>4, <2>1, <2>2, SMTT(30) DEF BreakerTypeOK, BreakerInv, Generation, States
<1>5. CASE Ends /\ breaker = "closed" /\ wins' = 0 /\ fails' \in 0..Threshold
  BY <1>5, SMTT(30) DEF BreakerTypeOK, TypeOK, BreakerInv, States
<1>6. CASE Ends /\ breaker = "half-open" /\ wins' = wins + 1 /\ wins' < MaxRequests /\ fails' = 0
  <2>1. /\ Cardinality(Counted) \in Nat
        /\ Cardinality(Counted') = Cardinality(Counted) - 1
    BY <1>6, CountOne DEF BreakerTypeOK
  <2>. QED
    BY <1>6, <2>1, SMTT(30) DEF BreakerTypeOK, TypeOK, BreakerInv, States
<1>. QED
  BY <1>2, <1>3, <1>4, <1>5, <1>6

\* A call is refused, or admitted and counted.
LEMMA BeginInv ==
    ASSUME Inv, NEW c \in Callers, Begin(c)
    PROVE  Inv'
<1>1. TypeOK' /\ CallInv' /\ AnswersAccountForCharges'
  BY SMTT(30) DEF TypeOK, CallInv, AnswersAccountForCharges, Begin
<1>2. ~mine[c]
  BY DEF BreakerInv, Begin
<1>3. CASE UNCHANGED <<breaker, fails, wins, requests, mine, pc>>
  <2>1. Counted' = Counted
    BY <1>3 DEF Counted
  <2>2. BreakerTypeOK' /\ BreakerInv'
    BY <1>3, <2>1, SMTT(30) DEF BreakerTypeOK, BreakerInv
  <2>. QED
    BY <1>1, <2>2
<1>4. CASE /\ breaker # "open" /\ (breaker = "half-open" => requests < MaxRequests)
           /\ mine' = [mine EXCEPT ![c] = TRUE]
           /\ pc' = [pc EXCEPT ![c] = "post"]
           /\ requests' = IF breaker = "half-open" THEN requests + 1 ELSE requests
           /\ UNCHANGED <<breaker, fails, wins>>
  <2>1. /\ Cardinality(Counted) \in Nat
        /\ Cardinality(Counted') = Cardinality(Counted) + 1
    BY <1>2, <1>4, CountOne DEF BreakerTypeOK
  <2>2. BreakerInv'
    BY <1>4, <2>1, SMTT(30) DEF BreakerInv, BreakerTypeOK, TypeOK, States
  <2>3. mine' \in [Callers -> BOOLEAN]
    BY <1>4, Zenon DEF BreakerTypeOK
  <2>4. BreakerTypeOK'
    BY <1>4, <2>3, SMTT(30) DEF BreakerTypeOK
  <2>. QED
    BY <1>1, <2>2, <2>4
<1>. QED
  BY <1>3, <1>4, SMTT(30) DEF Begin, TooMany, BreakerTypeOK

\* A step of a call that the breaker does not hear of.
LEMMA BreakerUntouched ==
    ASSUME BreakerTypeOK, BreakerInv, UNCHANGED <<breaker, counts, mine>>,
           \A c \in Callers : pc'[c] = "idle" => pc[c] = "idle"
    PROVE  BreakerTypeOK' /\ BreakerInv'
<1>1. Counted' = Counted
  BY DEF Counted
<1>. QED
  BY <1>1, SMTT(30) DEF BreakerTypeOK, BreakerInv, counts

\* A POST and what becomes of it.
LEMMA DoHTTPInv ==
    ASSUME Inv, NEW c \in Callers, DoHTTP(c)
    PROVE  Inv'
<1>1. PICK o \in Outcomes :
        /\ charges' = [charges EXCEPT ![c] = IF o \in Charging THEN @ + 1 ELSE @]
        /\ unheard' = [unheard EXCEPT ![c] = IF o \in Charging \ {"ok"} THEN @ + 1 ELSE @]
        /\ IF isTransient(o) /\ MayRetry(c)
           THEN /\ pc' = [pc EXCEPT ![c] = "backoff"]
                /\ UNCHANGED <<breaker, counts, mine, attempt, reply>>
           ELSE Return(c, Answer(o), o \in {"ok", "rejected", "unmapped"})
  BY Zenon DEF DoHTTP
<1>2. pc[c] = "post" /\ faults' \in Nat
  BY SMTT(30) DEF DoHTTP, TypeOK
<1>3. CASE isTransient(o) /\ MayRetry(c)
  <2>1. TypeOK' /\ CallInv' /\ AnswersAccountForCharges'
    BY <1>1, <1>2, <1>3, SMTT(30) DEF TypeOK, CallInv, AnswersAccountForCharges, counts,
       Outcomes, Charging, isTransient, MayRetry
  <2>2. BreakerTypeOK' /\ BreakerInv'
    BY <1>1, <1>2, <1>3, BreakerUntouched, SMTT(30) DEF TypeOK
  <2>. QED
    BY <2>1, <2>2
<1>4. CASE ~(isTransient(o) /\ MayRetry(c))
  <2>1. Return(c, Answer(o), o \in {"ok", "rejected", "unmapped"})
    BY <1>1, <1>4
  <2>2. /\ pc' = [pc EXCEPT ![c] = "idle"]
        /\ attempt' = [attempt EXCEPT ![c] = 0]
        /\ reply' = [reply EXCEPT ![c] = Answer(o)]
        /\ Answer(o) \in {"ok", "rejected", "error"} /\ (Answer(o) = "ok" <=> o = "ok")
    BY <2>1, SMTT(30) DEF Return, Answer
  <2>3. BreakerTypeOK' /\ BreakerInv'
    BY <1>2, <2>1, <2>2, AfterRequestInv DEF Return
  <2>4. TypeOK'
    BY <1>1, <1>2, <2>2, SMTT(30) DEF TypeOK
  <2>5. CallInv'
    BY <1>1, <1>2, <2>2, SMTT(30) DEF TypeOK, CallInv
  <2>6. AnswersAccountForCharges'
    BY <1>1, <1>2, <2>2, SMTT(30) DEF TypeOK, CallInv, AnswersAccountForCharges, Charging
  <2>. QED
    BY <2>3, <2>4, <2>5, <2>6
<1>. QED
  BY <1>3, <1>4

\* The delay between attempts.
LEMMA BackoffInv ==
    ASSUME Inv, NEW c \in Callers, Backoff(c)
    PROVE  Inv'
<1>1. CASE UNCHANGED <<breaker, counts, mine, reply>> /\ pc' = [pc EXCEPT ![c] = "post"]
           /\ attempt' = [attempt EXCEPT ![c] = @ + 1]
  <2>1. TypeOK' /\ CallInv' /\ AnswersAccountForCharges'
    BY <1>1, SMTT(30) DEF TypeOK, CallInv, AnswersAccountForCharges, counts, Backoff
  <2>2. BreakerTypeOK' /\ BreakerInv'
    BY <1>1, BreakerUntouched, SMTT(30) DEF TypeOK
  <2>. QED
    BY <2>1, <2>2
<1>2. CASE Return(c, "error", FALSE)
  <2>1. BreakerTypeOK' /\ BreakerInv'
    BY <1>2, AfterRequestInv DEF Return, Backoff
  <2>2. TypeOK' /\ CallInv' /\ AnswersAccountForCharges'
    BY <1>2, SMTT(30) DEF TypeOK, CallInv, AnswersAccountForCharges, Return, Backoff
  <2>. QED
    BY <2>1, <2>2
<1>. QED
  BY <1>1, <1>2 DEF Backoff

\* The breaker's clocks, and the bank that fails and comes back.
LEMMA EnvironmentInv ==
    ASSUME Inv, Interval \/ Timeout \/ Outage \/ Recovery
    PROVE  Inv'
<1>1. TypeOK' /\ CallInv' /\ AnswersAccountForCharges'
  BY SMTT(30) DEF TypeOK, CallInv, AnswersAccountForCharges, Interval, Timeout, Outage,
     Recovery
<1>2. CASE Generation("closed") \/ Generation("half-open")
  <2>1. Counted' = {} /\ Cardinality(Counted') = 0
    BY <1>2, NoneCounted DEF Generation
  <2>2. mine' \in [Callers -> BOOLEAN] /\ \A d \in Callers : ~mine'[d]
    BY <1>2, Zenon DEF Generation
  <2>3. BreakerTypeOK' /\ BreakerInv'
    BY <1>2, <2>1, <2>2, SMTT(30) DEF BreakerTypeOK, BreakerInv, Generation, States
  <2>. QED
    BY <1>1, <2>3
<1>3. CASE Outage \/ Recovery
  BY <1>1, <1>3, BreakerUntouched DEF Outage, Recovery
<1>. QED
  BY <1>2, <1>3 DEF Interval, Timeout

\* Inv is kept by every step.
LEMMA NextInv == Inv /\ [Next]_vars => Inv'
<1>. SUFFICES ASSUME Inv, [Next]_vars PROVE Inv'
  OBVIOUS
<1>1. CASE UNCHANGED vars
  <2>1. TypeOK' /\ CallInv' /\ AnswersAccountForCharges'
    BY <1>1 DEF vars, TypeOK, CallInv, AnswersAccountForCharges
  <2>. QED
    BY <1>1, <2>1, BreakerUntouched DEF vars, counts
<1>. QED
  BY <1>1, BeginInv, DoHTTPInv, BackoffInv, EnvironmentInv DEF Next, Call

-----------------------------------------------------------------------------
\* Inv holds in every reachable state, whatever the bank and the callers do.
THEOREM Invariance == Spec => []Inv
  BY InitInv, NextInv, PTL DEF Spec

\* InitiatePayment: at most Attempts charges are made, an "ok" tells of one of
\* them, every other one was made by an attempt whose answer never came, and a
\* call that the open breaker refused has charged nothing.
THEOREM ChargesAreAccountedFor == Spec => []AnswersAccountForCharges
<1>1. Inv => AnswersAccountForCharges
  OBVIOUS
<1>. QED
  BY <1>1, Invariance, PTL

\* NewAdapter's breaker: one that is half-open and admits no more calls has a
\* call under way whose result counts, so that it leaves this state; calls of
\* earlier generations cannot use up what it admits.
THEOREM BreakerIsNeverStuck == Spec => []NeverStuck
<1>1. Inv => NeverStuck
  <2>. SUFFICES ASSUME Inv, breaker = "half-open", TooMany
                PROVE  Counted # {}
    BY DEF NeverStuck, BreakerInv, Counted
  <2>. QED
    BY FS_EmptySet, SMTT(30) DEF BreakerInv, BreakerTypeOK, TooMany
<1>. QED
  BY <1>1, Invariance, PTL
=============================================================================
