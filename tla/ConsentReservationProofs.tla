---------------------- MODULE ConsentReservationProofs ----------------------
(***************************************************************************)
(* Proofs about ConsentReservation, for any payments, amounts, limits and  *)
(* any number of overlapping transactions.                                 *)
(*                                                                         *)
(* The argument is about one moment, the INSERT.  What is spent at any     *)
(* later time was counted at the earlier NOW() of the transaction          *)
(* (SpentIsCounted), because holds and usage rows only lapse as time       *)
(* passes; and between the SUM and the INSERT the count only falls,        *)
(* because the row lock keeps every other reservation and every usage row  *)
(* out (AdmissionInv).  Sums are counted penny by penny, so that they are  *)
(* cardinalities of finite sets.                                           *)
(***************************************************************************)
EXTENDS ConsentReservation, FiniteSetTheorems, TLAPS

TypeOK ==
    /\ now \in Nat
    /\ status \in {"ACTIVE", "REVOKED"}
    /\ res \in [Payments -> {"none", "HELD", "CONFIRMED", "RELEASED"}]
    /\ expires \in [Payments -> Nat]
    /\ settledAt \in [Payments -> Nat \union {-1}]
    /\ locker \in Calls \union {NoCall}
    /\ phase \in [Calls -> {"start", "existing", "lock", "sum", "insert", "reread"} \union Replies]
    /\ began \in [Calls -> Nat]
    /\ confirming \in [Payments -> Nat \union {-1}]
    /\ aborts \in Nat
    /\ late \subseteq Payments

\* The usage rows are those of the confirmed reservations, and a confirmation
\* under way keeps its reservation's row.
RowsInv ==
    \A p \in Payments : /\ settledAt[p] # -1 <=> res[p] = "CONFIRMED"
                        /\ confirming[p] # -1 => res[p] = "HELD"

\* The consent row is locked by the one transaction past LockConsent, and the
\* consent is active as long as it may reserve.
LockInv ==
    \A c \in Calls : /\ began[c] <= now
                     /\ phase[c] \in {"sum", "insert", "reread"} <=> locker = c
                     /\ phase[c] \in {"sum", "insert"} => status = "ACTIVE"

\* What a transaction is about to insert fits under the limit.
AdmissionInv ==
    \A c \in Calls : phase[c] = "insert" =>
        Sum(Counted(began[c])) + Amount[PaymentOf[c]] <= MaxMonthly

Inv ==
    /\ TypeOK /\ RowsInv /\ LockInv /\ AdmissionInv
    /\ Sum(Spent \ late) <= MaxMonthly

USE ConsentAssumption

-----------------------------------------------------------------------------
(* Sums of pence.                                                          *)

\* A payment has as many pence as its amount.
LEMMA OnePayment ==
    ASSUME NEW p \in Payments
    PROVE  /\ IsFiniteSet({p} \X (1..Amount[p]))
           /\ Cardinality({p} \X (1..Amount[p])) = Amount[p]
<1>1. Amount[p] \in Nat \ {0}
  OBVIOUS
<1>2. IsFiniteSet(1..Amount[p]) /\ Cardinality(1..Amount[p]) = Amount[p]
  BY <1>1, FS_Interval, SMTT(30)
<1>3. IsFiniteSet({p}) /\ Cardinality({p}) = 1
  BY FS_Singleton
<1>4. /\ IsFiniteSet({p} \X (1..Amount[p]))
      /\ Cardinality({p} \X (1..Amount[p])) = Cardinality({p}) * Cardinality(1..Amount[p])
  BY <1>2, <1>3, FS_Product
<1>. QED
  BY <1>1, <1>2, <1>3, <1>4, SMTT(30)

\* Finitely many payments have finitely many pence.
LEMMA PenceFinite ==
    ASSUME NEW S \in SUBSET Payments
    PROVE  IsFiniteSet(Pence(S))
<1>. DEFINE T == {{p} \X (1..Amount[p]) : p \in S}
            g == [p \in S |-> {p} \X (1..Amount[p])]
<1>1. IsFiniteSet(S)
  BY FS_Subset
<1>2. g \in Surjection(S, T)
  BY DEF Surjection
<1>3. IsFiniteSet(T)
  BY <1>1, <1>2, FS_Surjection
<1>4. \A U \in T : IsFiniteSet(U)
  BY OnePayment
<1>. QED
  BY <1>3, <1>4, FS_UNION DEF Pence

\* Fewer payments are no more pence.
LEMMA SumMonotone ==
    ASSUME NEW T \in SUBSET Payments, NEW S \in SUBSET T
    PROVE  Sum(S) \in Nat /\ Sum(T) \in Nat /\ Sum(S) <= Sum(T)
<1>1. Pence(S) \subseteq Pence(T)
  BY DEF Pence
<1>2. IsFiniteSet(Pence(S)) /\ IsFiniteSet(Pence(T))
  BY PenceFinite
<1>. QED
  BY <1>1, <1>2, FS_Subset, FS_CardinalityType DEF Sum

\* One payment more adds its amount, or nothing if it was there.
LEMMA SumAdd ==
    ASSUME NEW S \in SUBSET Payments, NEW p \in Payments
    PROVE  Sum(S \union {p}) \in Nat /\ Sum(S \union {p}) <= Sum(S) + Amount[p]
<1>. DEFINE U == {p} \X (1..Amount[p])
<1>1. Pence(S \union {p}) = Pence(S) \union U
  BY DEF Pence
<1>2. IsFiniteSet(Pence(S)) /\ IsFiniteSet(U) /\ Cardinality(U) = Amount[p]
  BY PenceFinite, OnePayment
<1>3. Cardinality(Pence(S) \union U) =
        Cardinality(Pence(S)) + Cardinality(U) - Cardinality(Pence(S) \cap U)
  BY <1>2, FS_Union
<1>4. /\ Cardinality(Pence(S)) \in Nat /\ Cardinality(Pence(S) \cap U) \in Nat
      /\ Cardinality(Pence(S) \union U) \in Nat
  BY <1>2, FS_Intersection, FS_Union, FS_CardinalityType
<1>5. Amount[p] \in Nat
  OBVIOUS
<1>6. /\ Sum(S) = Cardinality(Pence(S))
      /\ Sum(S \union {p}) = Cardinality(Pence(S) \union U)
  BY <1>1 DEF Sum
<1>. HIDE DEF U
<1>. QED
  BY <1>2, <1>3, <1>4, <1>5, <1>6, SMTT(30)

-----------------------------------------------------------------------------
\* What is spent now was counted at any NOW() before, and now exactly.
LEMMA SpentIsCounted ==
    ASSUME TypeOK, RowsInv, NEW t \in Nat, t <= now
    PROVE  /\ Spent \subseteq Counted(t) /\ Counted(t) \subseteq Payments
           /\ Spent = Counted(now)
  BY SMTT(30) DEF TypeOK, RowsInv, Spent, Counted

\* Nothing is held or spent.
LEMMA InitInv == Init => Inv
<1>. SUFFICES ASSUME Init PROVE Inv
  OBVIOUS
<1>1. TypeOK /\ RowsInv /\ LockInv /\ AdmissionInv
  BY SMTT(30) DEF Init, TypeOK, RowsInv, LockInv, AdmissionInv, Replies
<1>2. Spent \ late = {}
  BY SMTT(30) DEF Init, Spent
<1>3. Sum({}) = 0
  <2>1. Pence({}) = {}
    BY DEF Pence
  <2>. QED
    BY <2>1, FS_EmptySet DEF Sum
<1>. QED
  BY <1>1, <1>2, <1>3, SMTT(30) DEF Inv

\* A step after which no more is spent and, for a transaction that may insert,
\* no more is counted.
LEMMA Shrinks ==
    ASSUME Inv, TypeOK', RowsInv', LockInv',
           Spent' \ late' \subseteq Spent \ late,
           \A c \in Calls : phase'[c] = "insert" =>
               /\ phase[c] = "insert"
               /\ Counted(began[c])' \subseteq Counted(began[c])
    PROVE  Inv'
<1>1. Sum(Spent \ late)' <= MaxMonthly
  <2>1. Spent \ late \in SUBSET Payments
    BY DEF Spent
  <2>2. /\ Sum(Spent' \ late') \in Nat /\ Sum(Spent \ late) \in Nat
        /\ Sum(Spent' \ late') <= Sum(Spent \ late)
    BY <2>1, SumMonotone
  <2>3. Sum(Spent \ late)' = Sum(Spent' \ late')
    BY DEF Sum, Pence
  <2>. QED
    BY <2>2, <2>3, SMTT(30) DEF Inv
<1>2. ASSUME NEW c \in Calls, phase'[c] = "insert"
      PROVE  Sum(Counted(began[c]))' + Amount[PaymentOf[c]] <= MaxMonthly
  <2>1. Counted(began[c]) \in SUBSET Payments
    BY DEF Counted
  <2>2. /\ Sum(Counted(began[c])') \in Nat /\ Sum(Counted(began[c])) \in Nat
        /\ Sum(Counted(began[c])') <= Sum(Counted(began[c]))
    BY <1>2, <2>1, SumMonotone
  <2>3. Sum(Counted(began[c]))' = Sum(Counted(began[c])')
    BY DEF Sum, Pence
  <2>4. Sum(Counted(began[c])) + Amount[PaymentOf[c]] <= MaxMonthly
    BY <1>2 DEF Inv, AdmissionInv
  <2>5. Amount[PaymentOf[c]] \in Nat
    BY SMTT(30)
  <2>. QED
    BY <2>2, <2>3, <2>4, <2>5, SMTT(30)
<1>. QED
  BY <1>1, <1>2 DEF Inv, AdmissionInv
USE DEF Inv

\* A transaction begins.
LEMMA BeginReserveInv ==
    ASSUME Inv, NEW d \in Calls, BeginReserve(d)
    PROVE  Inv'
<1>1. TypeOK'
  BY SMTT(30) DEF TypeOK, RowsInv, LockInv, Replies, callVars, rowVars, BeginReserve
<1>2. RowsInv' /\ LockInv'
  BY SMTT(30) DEF TypeOK, RowsInv, LockInv, Replies, callVars, rowVars, BeginReserve
<1>3. Spent' \ late' \subseteq Spent \ late
  BY SMTT(30) DEF TypeOK, RowsInv, LockInv, Replies, callVars, rowVars, Spent, BeginReserve
<1>4. \A c \in Calls : phase'[c] = "insert" =>
          phase[c] = "insert" /\ Counted(began[c])' \subseteq Counted(began[c])
  BY SMTT(30) DEF TypeOK, RowsInv, LockInv, Replies, callVars, rowVars, Counted,
     BeginReserve
<1>. QED
  BY <1>1, <1>2, <1>3, <1>4, Shrinks

\* The reservation exists.
LEMMA ReturnExistingInv ==
    ASSUME Inv, NEW d \in Calls, ReturnExisting(d)
    PROVE  Inv'
<1>1. TypeOK'
  BY SMTT(30) DEF TypeOK, RowsInv, LockInv, Replies, callVars, rowVars, ReturnExisting,
     RowFree, Reply
<1>2. RowsInv' /\ LockInv'
  BY SMTT(30) DEF TypeOK, RowsInv, LockInv, Replies, callVars, rowVars, ReturnExisting,
     RowFree, Reply
<1>3. Spent' \ late' \subseteq Spent \ late
  BY SMTT(30) DEF TypeOK, RowsInv, LockInv, Replies, callVars, rowVars, Spent,
     ReturnExisting, RowFree, Reply
<1>4. \A c \in Calls : phase'[c] = "insert" =>
          phase[c] = "insert" /\ Counted(began[c])' \subseteq Counted(began[c])
  BY SMTT(30) DEF TypeOK, RowsInv, LockInv, Replies, callVars, rowVars, Counted,
     ReturnExisting, RowFree, Reply
<1>. QED
  BY <1>1, <1>2, <1>3, <1>4, Shrinks

\* The consent row is locked, or the request refused.
LEMMA LockConsentInv ==
    ASSUME Inv, NEW d \in Calls, LockConsent(d)
    PROVE  Inv'
<1>1. TypeOK'
  BY SMTT(30) DEF TypeOK, RowsInv, LockInv, Replies, callVars, rowVars, LockConsent,
     RowFree, Refused, Refuse, Reply
<1>2. RowsInv' /\ LockInv'
  BY SMTT(30) DEF TypeOK, RowsInv, LockInv, Replies, callVars, rowVars, LockConsent,
     RowFree, Refused, Refuse, Reply
<1>3. Spent' \ late' \subseteq Spent \ late
  BY SMTT(30) DEF TypeOK, RowsInv, LockInv, Replies, callVars, rowVars, Spent, LockConsent,
     RowFree, Refused, Refuse, Reply
<1>4. \A c \in Calls : phase'[c] = "insert" =>
          phase[c] = "insert" /\ Counted(began[c])' \subseteq Counted(began[c])
  BY SMTT(30) DEF TypeOK, RowsInv, LockInv, Replies, callVars, rowVars, Counted,
     LockConsent, RowFree, Refused, Refuse, Reply
<1>. QED
  BY <1>1, <1>2, <1>3, <1>4, Shrinks

\* The aborted transaction ends.
LEMMA RereadInv ==
    ASSUME Inv, NEW d \in Calls, RereadReservation(d)
    PROVE  Inv'
<1>1. TypeOK'
  BY SMTT(30) DEF TypeOK, RowsInv, LockInv, Replies, callVars, rowVars, RereadReservation,
     Reply
<1>2. RowsInv' /\ LockInv'
  BY SMTT(30) DEF TypeOK, RowsInv, LockInv, Replies, callVars, rowVars, RereadReservation,
     Reply
<1>3. Spent' \ late' \subseteq Spent \ late
  BY SMTT(30) DEF TypeOK, RowsInv, LockInv, Replies, callVars, rowVars, Spent,
     RereadReservation, Reply
<1>4. \A c \in Calls : phase'[c] = "insert" =>
          phase[c] = "insert" /\ Counted(began[c])' \subseteq Counted(began[c])
  BY SMTT(30) DEF TypeOK, RowsInv, LockInv, Replies, callVars, rowVars, Counted,
     RereadReservation, Reply
<1>. QED
  BY <1>1, <1>2, <1>3, <1>4, Shrinks

\* A transaction is rolled back.
LEMMA AbortReserveInv ==
    ASSUME Inv, NEW d \in Calls, AbortReserve(d)
    PROVE  Inv'
<1>1. TypeOK'
  BY SMTT(30) DEF TypeOK, RowsInv, LockInv, Replies, callVars, rowVars, AbortReserve, Reply
<1>2. RowsInv' /\ LockInv'
  BY SMTT(30) DEF TypeOK, RowsInv, LockInv, Replies, callVars, rowVars, AbortReserve, Reply
<1>3. Spent' \ late' \subseteq Spent \ late
  BY SMTT(30) DEF TypeOK, RowsInv, LockInv, Replies, callVars, rowVars, Spent,
     AbortReserve, Reply
<1>4. \A c \in Calls : phase'[c] = "insert" =>
          phase[c] = "insert" /\ Counted(began[c])' \subseteq Counted(began[c])
  BY SMTT(30) DEF TypeOK, RowsInv, LockInv, Replies, callVars, rowVars, Counted,
     AbortReserve, Reply
<1>. QED
  BY <1>1, <1>2, <1>3, <1>4, Shrinks

\* A confirmation begins.
LEMMA BeginConfirmInv ==
    ASSUME Inv, NEW q \in Payments, BeginConfirm(q)
    PROVE  Inv'
<1>1. TypeOK'
  BY SMTT(30) DEF TypeOK, RowsInv, LockInv, Replies, callVars, rowVars, BeginConfirm
<1>2. RowsInv' /\ LockInv'
  BY SMTT(30) DEF TypeOK, RowsInv, LockInv, Replies, callVars, rowVars, BeginConfirm
<1>3. Spent' \ late' \subseteq Spent \ late
  BY SMTT(30) DEF TypeOK, RowsInv, LockInv, Replies, callVars, rowVars, Spent, BeginConfirm
<1>4. \A c \in Calls : phase'[c] = "insert" =>
          phase[c] = "insert" /\ Counted(began[c])' \subseteq Counted(began[c])
  BY SMTT(30) DEF TypeOK, RowsInv, LockInv, Replies, callVars, rowVars, Counted,
     BeginConfirm
<1>. QED
  BY <1>1, <1>2, <1>3, <1>4, Shrinks

\* A confirmation commits.
LEMMA ConfirmInv ==
    ASSUME Inv, NEW q \in Payments, ConfirmReservation(q)
    PROVE  Inv'
<1>1. TypeOK'
  BY SMTT(30) DEF TypeOK, RowsInv, LockInv, Replies, callVars, rowVars, ConfirmReservation,
     RowFree, UsageTime
<1>2. RowsInv' /\ LockInv'
  BY SMTT(30) DEF TypeOK, RowsInv, LockInv, Replies, callVars, rowVars, ConfirmReservation,
     RowFree, UsageTime
<1>3. Spent' \ late' \subseteq Spent \ late
  BY SMTT(30) DEF TypeOK, RowsInv, LockInv, Replies, callVars, rowVars, Spent,
     ConfirmReservation, RowFree, UsageTime
<1>4. \A c \in Calls : phase'[c] = "insert" =>
          phase[c] = "insert" /\ Counted(began[c])' \subseteq Counted(began[c])
  BY SMTT(30) DEF TypeOK, RowsInv, LockInv, Replies, callVars, rowVars, Counted,
     ConfirmReservation, RowFree, UsageTime
<1>. QED
  BY <1>1, <1>2, <1>3, <1>4, Shrinks

\* A confirmation is rolled back.
LEMMA AbortConfirmInv ==
    ASSUME Inv, NEW q \in Payments, AbortConfirm(q)
    PROVE  Inv'
<1>1. TypeOK'
  BY SMTT(30) DEF TypeOK, RowsInv, LockInv, Replies, callVars, rowVars, AbortConfirm
<1>2. RowsInv' /\ LockInv'
  BY SMTT(30) DEF TypeOK, RowsInv, LockInv, Replies, callVars, rowVars, AbortConfirm
<1>3. Spent' \ late' \subseteq Spent \ late
  BY SMTT(30) DEF TypeOK, RowsInv, LockInv, Replies, callVars, rowVars, Spent, AbortConfirm
<1>4. \A c \in Calls : phase'[c] = "insert" =>
          phase[c] = "insert" /\ Counted(began[c])' \subseteq Counted(began[c])
  BY SMTT(30) DEF TypeOK, RowsInv, LockInv, Replies, callVars, rowVars, Counted,
     AbortConfirm
<1>. QED
  BY <1>1, <1>2, <1>3, <1>4, Shrinks

\* A hold is released.
LEMMA ReleaseInv ==
    ASSUME Inv, NEW q \in Payments, ReleaseReservation(q)
    PROVE  Inv'
<1>1. TypeOK'
  BY SMTT(30) DEF TypeOK, RowsInv, LockInv, Replies, callVars, rowVars, ReleaseReservation
<1>2. RowsInv' /\ LockInv'
  BY SMTT(30) DEF TypeOK, RowsInv, LockInv, Replies, callVars, rowVars, ReleaseReservation
<1>3. Spent' \ late' \subseteq Spent \ late
  BY SMTT(30) DEF TypeOK, RowsInv, LockInv, Replies, callVars, rowVars, Spent,
     ReleaseReservation
<1>4. \A c \in Calls : phase'[c] = "insert" =>
          phase[c] = "insert" /\ Counted(began[c])' \subseteq Counted(began[c])
  BY SMTT(30) DEF TypeOK, RowsInv, LockInv, Replies, callVars, rowVars, Counted,
     ReleaseReservation
<1>. QED
  BY <1>1, <1>2, <1>3, <1>4, Shrinks

\* The consent is revoked, between reservations.
LEMMA RevokeInv ==
    ASSUME Inv, RevokeConsent
    PROVE  Inv'
<1>1. TypeOK'
  BY SMTT(30) DEF TypeOK, RowsInv, LockInv, Replies, callVars, rowVars, RevokeConsent,
     RevokeMayRun, RowFree
<1>2. RowsInv' /\ LockInv'
  BY SMTT(30) DEF TypeOK, RowsInv, LockInv, Replies, callVars, rowVars, RevokeConsent,
     RevokeMayRun, RowFree
<1>3. Spent' \ late' \subseteq Spent \ late
  BY SMTT(30) DEF TypeOK, RowsInv, LockInv, Replies, callVars, rowVars, Spent,
     RevokeConsent, RevokeMayRun, RowFree
<1>4. \A c \in Calls : phase'[c] = "insert" =>
          phase[c] = "insert" /\ Counted(began[c])' \subseteq Counted(began[c])
  BY SMTT(30) DEF TypeOK, RowsInv, LockInv, Replies, callVars, rowVars, Counted,
     RevokeConsent, RevokeMayRun, RowFree
<1>. QED
  BY <1>1, <1>2, <1>3, <1>4, Shrinks

\* Time passes.
LEMMA TickInv ==
    ASSUME Inv, Tick
    PROVE  Inv'
<1>1. TypeOK'
  BY SMTT(30) DEF TypeOK, RowsInv, LockInv, Replies, callVars, rowVars, Tick
<1>2. RowsInv' /\ LockInv'
  BY SMTT(30) DEF TypeOK, RowsInv, LockInv, Replies, callVars, rowVars, Tick
<1>3. Spent' \ late' \subseteq Spent \ late
  BY SMTT(30) DEF TypeOK, RowsInv, LockInv, Replies, callVars, rowVars, Spent, Tick
<1>4. \A c \in Calls : phase'[c] = "insert" =>
          phase[c] = "insert" /\ Counted(began[c])' \subseteq Counted(began[c])
  BY SMTT(30) DEF TypeOK, RowsInv, LockInv, Replies, callVars, rowVars, Counted, Tick
<1>. QED
  BY <1>1, <1>2, <1>3, <1>4, Shrinks

\* Nothing happens.
LEMMA StutterInv ==
    ASSUME Inv, UNCHANGED vars
    PROVE  Inv'
<1>1. TypeOK'
  BY SMTT(30) DEF TypeOK, RowsInv, LockInv, Replies, callVars, rowVars, vars
<1>2. RowsInv' /\ LockInv'
  BY SMTT(30) DEF TypeOK, RowsInv, LockInv, Replies, callVars, rowVars, vars
<1>3. Spent' \ late' \subseteq Spent \ late
  BY SMTT(30) DEF TypeOK, RowsInv, LockInv, Replies, callVars, rowVars, Spent, vars
<1>4. \A c \in Calls : phase'[c] = "insert" =>
          phase[c] = "insert" /\ Counted(began[c])' \subseteq Counted(began[c])
  BY SMTT(30) DEF TypeOK, RowsInv, LockInv, Replies, callVars, rowVars, Counted, vars
<1>. QED
  BY <1>1, <1>2, <1>3, <1>4, Shrinks

\* The SUM: the request is refused, or fits under the limit.
LEMMA RollingUsageInv ==
    ASSUME Inv, NEW d \in Calls, RollingUsage(d)
    PROVE  Inv'
<1>1. TypeOK' /\ RowsInv' /\ LockInv'
  BY SMTT(30) DEF TypeOK, RowsInv, LockInv, Replies, rowVars, RollingUsage, Refuse, Reply
<1>2. Spent' = Spent /\ late' = late /\ \A s : Counted(s)' = Counted(s)
  BY SMTT(30) DEF RollingUsage, rowVars, Spent, Counted
<1>3. \A S : Sum(S)' = Sum(S)
  BY DEF Sum, Pence
<1>4. AdmissionInv'
  <2>. SUFFICES ASSUME NEW c \in Calls, phase'[c] = "insert"
                PROVE  Sum(Counted(began[c]))' + Amount[PaymentOf[c]] <= MaxMonthly
    BY DEF AdmissionInv
  <2>1. /\ c # d => phase[c] = "insert"
        /\ c = d => ~(Sum(Counted(began[c])) + Amount[PaymentOf[c]] > MaxMonthly)
        /\ began'[c] = began[c]
    BY SMTT(30) DEF RollingUsage, Refuse, Reply, TypeOK
  <2>2. Sum(Counted(began[c]))' = Sum(Counted(began[c]))
    BY <1>2, <2>1 DEF Counted, Sum, Pence, RollingUsage, rowVars
  <2>3. Sum(Counted(began[c])) \in Nat /\ Amount[PaymentOf[c]] \in Nat
    BY SumMonotone DEF Counted
  <2>. QED
    BY <2>1, <2>2, <2>3, SMTT(30) DEF AdmissionInv
<1>5. Sum(Spent \ late)' <= MaxMonthly
  BY <1>2 DEF Sum, Pence
<1>. QED
  BY <1>1, <1>4, <1>5

\* The INSERT: what it adds was admitted, and what is spent was counted.
LEMMA InsertInv ==
    ASSUME Inv, NEW d \in Calls, InsertReservation(d)
    PROVE  Inv'
<1>. DEFINE p == PaymentOf[d]
<1>1. CASE res[p] # "none"
  <2>1. TypeOK' /\ RowsInv' /\ LockInv'
    BY <1>1, SMTT(30) DEF TypeOK, RowsInv, LockInv, Replies, InsertReservation
  <2>2. Spent' \ late' \subseteq Spent \ late
    BY <1>1, SMTT(30) DEF InsertReservation, Spent
  <2>3. \A c \in Calls : phase'[c] = "insert" =>
          phase[c] = "insert" /\ Counted(began[c])' \subseteq Counted(began[c])
    BY <1>1, SMTT(30) DEF InsertReservation, Counted, TypeOK
  <2>. QED
    BY <2>1, <2>2, <2>3, Shrinks
<1>2. CASE res[p] = "none"
  <2>1. /\ phase[d] = "insert" /\ locker = d /\ began[d] \in Nat /\ began[d] <= now
        /\ p \in Payments
    BY SMTT(30) DEF InsertReservation, LockInv, TypeOK
  <2>2. TypeOK' /\ RowsInv' /\ LockInv'
    BY <1>2, <2>1, SMTT(30) DEF TypeOK, RowsInv, LockInv, Replies, InsertReservation,
       HoldUntil, Reply
  <2>3. AdmissionInv'
    BY <1>2, <2>1, SMTT(30) DEF AdmissionInv, InsertReservation, LockInv, Reply, TypeOK
  <2>4. Spent' \ late' \subseteq Counted(began[d]) \union {p}
    <3>1. Spent' \subseteq Spent \union {p}
      BY <1>2, <2>1, SMTT(30) DEF Spent, InsertReservation, TypeOK
    <3>. QED
      BY <2>1, <3>1, SpentIsCounted
  <2>5. Counted(began[d]) \in SUBSET Payments
    BY DEF Counted
  <2>6. /\ Sum(Counted(began[d])) \in Nat
        /\ Sum(Counted(began[d]) \union {p}) \in Nat
        /\ Sum(Counted(began[d]) \union {p}) <= Sum(Counted(began[d])) + Amount[p]
    BY <2>1, <2>5, SumAdd, SumMonotone
  <2>7. Sum(Spent' \ late') \in Nat /\ Sum(Spent' \ late') <= Sum(Counted(began[d]) \union {p})
    BY <2>1, <2>4, <2>5, SumMonotone
  <2>8. Sum(Counted(began[d])) + Amount[p] <= MaxMonthly
    BY <2>1 DEF AdmissionInv
  <2>9. Sum(Spent \ late)' = Sum(Spent' \ late')
    BY DEF Sum, Pence
  <2>10. Amount[p] \in Nat
    BY <2>1
  <2>. HIDE DEF p
  <2>11. Sum(Spent \ late)' <= MaxMonthly
    BY <2>6, <2>7, <2>8, <2>9, <2>10, SMTT(30)
  <2>. QED
    BY <2>2, <2>3, <2>11
<1>. QED
  BY <1>1, <1>2

\* Inv is kept by every step.
LEMMA NextInv == Inv /\ [Next]_vars => Inv'
<1>. SUFFICES ASSUME Inv, [Next]_vars PROVE Inv'
  OBVIOUS
<1>1. ASSUME NEW c \in Calls, Request(c) \/ AbortReserve(c) PROVE Inv'
  BY <1>1, BeginReserveInv, ReturnExistingInv, LockConsentInv, RollingUsageInv, InsertInv,
     RereadInv, AbortReserveInv DEF Request
<1>2. ASSUME NEW p \in Payments,
             BeginConfirm(p) \/ ConfirmReservation(p) \/ AbortConfirm(p) \/ ReleaseReservation(p)
      PROVE  Inv'
  BY <1>2, BeginConfirmInv, ConfirmInv, AbortConfirmInv, ReleaseInv
<1>. QED
  BY <1>1, <1>2, RevokeInv, TickInv, StutterInv DEF Next, Quiescent

-----------------------------------------------------------------------------
\* Inv holds in every reachable state, however transactions overlap.
THEOREM Invariance == Spec => []Inv
  BY InitInv, NextInv, PTL DEF Spec

\* ValidateAndReserve and ConfirmReservation: for any limit, amounts and number
\* of overlapping requests, what is reserved in time and spent stays within
\* max_monthly_pence, and GetRollingUsage promises no more than is left.
THEOREM LimitIsKept == Spec => []WithinMonthlyLimit
<1>1. Inv => WithinMonthlyLimit
  <2>. SUFFICES ASSUME Inv PROVE WithinMonthlyLimit
    OBVIOUS
  <2>1. Spent = Counted(now) /\ Spent \in SUBSET Payments
    BY SpentIsCounted DEF TypeOK, Spent
  <2>2. Sum(Spent) \in Nat
    BY <2>1, SumMonotone
  <2>3. GetRollingUsage.remaining > 0 => Sum(Spent) + GetRollingUsage.remaining <= MaxMonthly
    BY <2>1, <2>2, SMTT(30) DEF GetRollingUsage
  <2>4. GetRollingUsage.txCount <= Cardinality(Spent)
    <3>1. {p \in Payments : settledAt[p] # -1 /\ settledAt[p] > now - Window} \in SUBSET Spent
      BY <2>1 DEF Counted
    <3>2. IsFiniteSet(Spent)
      BY <2>1, FS_Subset
    <3>. QED
      BY <3>1, <3>2, FS_Subset DEF GetRollingUsage, TxCountThisMonth
  <2>. QED
    BY <2>3, <2>4 DEF WithinMonthlyLimit
<1>. QED
  BY <1>1, Invariance, PTL

\* RevokeConsent: after its commit no reservation is made, by no transaction.
THEOREM NothingAfterRevocation == Spec => RevokedAdmitsNothing
<1>1. Inv /\ [Next]_vars =>
        [\A p \in Payments : res[p] = "none" /\ res'[p] # "none" => status = "ACTIVE"]_vars
  <2>. SUFFICES ASSUME Inv, Next, NEW p \in Payments, res[p] = "none", res'[p] # "none"
                PROVE  status = "ACTIVE"
    BY SMTT(30)
  <2>1. \E c \in Calls : InsertReservation(c)
    BY SMTT(30) DEF Next, Request, BeginReserve, ReturnExisting, LockConsent, RollingUsage,
       RereadReservation, AbortReserve, BeginConfirm, ConfirmReservation, AbortConfirm,
       ReleaseReservation, RevokeConsent, Tick, Quiescent, rowVars, vars, RowsInv, TypeOK
  <2>. QED
    BY <2>1 DEF InsertReservation, LockInv
<1>. QED
  BY <1>1, Invariance, PTL DEF Spec, RevokedAdmitsNothing
=============================================================================
