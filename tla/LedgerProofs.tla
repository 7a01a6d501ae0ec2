---------------------------- MODULE LedgerProofs ----------------------------
(***************************************************************************)
(* Proofs about Ledger, for any payments, amounts, calls and attempts.     *)
(*                                                                         *)
(* The journal holds at most one posting and one reversal of a payment,    *)
(* with the lines the amount prescribes (JournalInv), because a            *)
(* transaction writes only when no other has written since it began, and   *)
(* then what it saw is what there is (CallInv).  The balances follow entry *)
(* by entry: each adds to an account and a direction exactly what it adds  *)
(* to, or takes from, the payments that stand (BalanceInv).                *)
(***************************************************************************)
EXTENDS Ledger, FiniteSetTheorems, TLAPS

\* The lines of a payment's posting and of its reversal.
PostLines(p) == FromRequest(SettlementLines(Amount[p]))
RevLines(p) == {[l EXCEPT !.dir = Opposite(l.dir)] : l \in PostLines(p)}
PostEntry(n, p) == [tx |-> n, payment |-> p, kind |-> "post", lines |-> PostLines(p)]
RevEntry(n, p) == [tx |-> n, payment |-> p, kind |-> "rev", lines |-> RevLines(p)]

TypeOK ==
    /\ reversed \in [Payments -> BOOLEAN]
    /\ phase \in [Calls -> {"start", "tx"} \union Replies]
    /\ attempts \in [Calls -> Nat]
    /\ seen \in [Calls -> [posted : BOOLEAN, undone : BOOLEAN, writes : Nat]]
    /\ writes \in Nat
    /\ aborts \in Nat

JournalInv ==
    /\ \A e \in journal : \E n \in 1..writes, p \in Payments :
          e = PostEntry(n, p) \/ e = RevEntry(n, p)
    /\ \A e, f \in journal : e.payment = f.payment /\ e.kind = f.kind => e = f
    /\ \A p \in Payments : /\ Undone(p) <=> reversed[p]
                           /\ Undone(p) => Posted(p)

\* A call: each attempt that failed was overtaken by a writer of its own, and
\* what a transaction saw is still there, and is all there is unless it was
\* overtaken.
CallInv ==
    \A c \in Calls : LET p == PaymentOf[c] IN
        /\ phase[c] \in {"start", "conflict"} => attempts[c] <= writes
        /\ phase[c] = "conflict" => attempts[c] >= MaxAttempts
        /\ phase[c] = "refused" => Amount[p] = 1
        /\ phase[c] = "ok" => Posted(p) /\ (c \in Reversals => Undone(p))
        /\ phase[c] = "tx" =>
              /\ attempts[c] <= seen[c].writes + 1
              /\ seen[c].writes <= writes
              /\ seen[c].posted => Posted(p)
              /\ seen[c].undone => Undone(p)
              /\ seen[c].writes = writes => (Posted(p) => seen[c].posted)
                                         /\ (Undone(p) => seen[c].undone)

\* What GetBalance and Moved sum up.
BookedLines(type, dir) ==
    UNION {{<<<<e, l>>, l.pence>> : l \in LinesOf(e, type, dir)} : e \in journal}
MovedParts(type) ==
    {<<p, Total({l \in SettlementLines(Amount[p]) : l.type = type})>> : p \in Standing}

Summable(S) == IsFiniteSet(S) /\ \A s \in S : s[2] \in Nat

\* The direction in which a posting books on an account, and the account's balance
\* counted that way.
Home(type) == IF type = 1 THEN "DR" ELSE "CR"
Net(type) == Booked(type, Home(type)) - Booked(type, Opposite(Home(type)))

BalanceInv ==
    /\ \A type \in 1..3 : /\ Summable(MovedParts(type))
                          /\ Summable(BookedLines(type, Home(type)))
                          /\ Summable(BookedLines(type, Opposite(Home(type))))
                          /\ Net(type) = Moved(type)
    /\ Moved(1) = Moved(2) + Moved(3)

Inv == TypeOK /\ JournalInv /\ CallInv /\ BalanceInv

USE LedgerAssumption

-----------------------------------------------------------------------------
(* Sums of pence.                                                          *)

\* An item has as many pence as it counts for.
LEMMA OneItem ==
    ASSUME NEW x, x[2] \in Nat
    PROVE  IsFiniteSet({x} \X (1..x[2])) /\ Cardinality({x} \X (1..x[2])) = x[2]
<1>1. IsFiniteSet(1..x[2]) /\ Cardinality(1..x[2]) = x[2]
  <2>1. ASSUME NEW n \in Nat PROVE IsFiniteSet(1..n) /\ Cardinality(1..n) = n
    BY FS_Interval, SMTT(30)
  <2>. QED
    BY <2>1, Zenon
<1>2. IsFiniteSet({x}) /\ Cardinality({x}) = 1
  BY FS_Singleton, Zenon
<1>3. /\ IsFiniteSet({x} \X (1..x[2]))
      /\ Cardinality({x} \X (1..x[2])) = Cardinality({x}) * Cardinality(1..x[2])
  BY <1>1, <1>2, FS_Product, Zenon
<1>. QED
  BY <1>1, <1>2, <1>3, SMTT(30)

\* Finitely many items have finitely many pence.
LEMMA PenceFinite ==
    ASSUME NEW S, Summable(S)
    PROVE  IsFiniteSet(UNION {{s} \X (1..s[2]) : s \in S})
<1>. DEFINE T == {{s} \X (1..s[2]) : s \in S}
            g == [s \in S |-> {s} \X (1..s[2])]
<1>1. IsFiniteSet(S) /\ \A s \in S : s[2] \in Nat
  BY Zenon DEF Summable
<1>2. g \in Surjection(S, T)
  BY Zenon DEF Surjection
<1>3. IsFiniteSet(T)
  BY <1>1, <1>2, FS_Surjection, Zenon
<1>4. \A U \in T : IsFiniteSet(U)
  BY <1>1, OneItem, Zenon
<1>. QED
  BY <1>3, <1>4, FS_UNION, Zenon

\* A sum is a natural number.
LEMMA SumNat ==
    ASSUME NEW S, Summable(S)
    PROVE  Sum(S) \in Nat
  BY PenceFinite, FS_CardinalityType, Zenon DEF Sum

\* Nothing sums up to 0.
LEMMA SumEmpty == Summable({}) /\ Sum({}) = 0
<1>1. UNION {{s} \X (1..s[2]) : s \in {}} = {}
  BY Zenon
<1>. QED
  BY <1>1, FS_EmptySet, Zenon DEF Summable, Sum

\* One item more adds what it counts for.
LEMMA SumAdd ==
    ASSUME NEW S, Summable(S), NEW x, x \notin S, x[2] \in Nat
    PROVE  /\ Summable(S \union {x})
           /\ Sum(S) \in Nat /\ Sum(S \union {x}) = Sum(S) + x[2]
<1>. DEFINE P == UNION {{s} \X (1..s[2]) : s \in S}
            U == {x} \X (1..x[2])
<1>1. UNION {{s} \X (1..s[2]) : s \in S \union {x}} = P \union U
  BY Zenon
<1>2. IsFiniteSet(P) /\ IsFiniteSet(U) /\ Cardinality(U) = x[2]
  BY PenceFinite, OneItem, Zenon
<1>3. P \cap U = {}
  OBVIOUS
<1>4. Summable(S \union {x})
  BY FS_AddElement, Zenon DEF Summable
<1>5. Sum(S) = Cardinality(P) /\ Sum(S \union {x}) = Cardinality(P \union U)
  BY <1>1, Zenon DEF Sum
<1>. HIDE DEF P, U
<1>6. Cardinality(P \union U) = Cardinality(P) + Cardinality(U) - Cardinality(P \cap U)
  BY <1>2, FS_Union, Zenon
<1>7. Cardinality(P) \in Nat /\ Cardinality(P \cap U) = 0
  BY <1>2, <1>3, FS_CardinalityType, FS_EmptySet, Zenon
<1>. QED
  BY <1>2, <1>4, <1>5, <1>6, <1>7, SMTT(30)

\* One item less takes it away.
LEMMA SumRemove ==
    ASSUME NEW S, Summable(S), NEW x \in S
    PROVE  /\ Summable(S \ {x})
           /\ Sum(S \ {x}) \in Nat /\ Sum(S) = Sum(S \ {x}) + x[2]
<1>1. Summable(S \ {x}) /\ x[2] \in Nat
  BY FS_Subset, Zenon DEF Summable
<1>2. (S \ {x}) \union {x} = S /\ x \notin S \ {x}
  BY Zenon
<1>. QED
  BY <1>1, <1>2, SumAdd, Zenon

\* The total of one line is its pence, of none 0.
LEMMA TotalOne ==
    /\ Total({}) = 0
    /\ \A l : l.pence \in Nat => Total({l}) = l.pence
<1>1. Total({}) = 0
  BY SumEmpty, Zenon DEF Total
<1>2. ASSUME NEW l, l.pence \in Nat PROVE Total({l}) = l.pence
  <2>. DEFINE x == <<l, l.pence>>
  <2>1. {<<k, k.pence>> : k \in {l}} = {} \union {x}
    BY Zenon
  <2>2. x[2] = l.pence
    BY Zenon
  <2>. HIDE DEF x
  <2>3. Sum({} \union {x}) = Sum({}) + x[2]
    BY <1>2, <2>2, SumEmpty, SumAdd, Zenon
  <2>. QED
    BY <1>2, <2>1, <2>2, <2>3, SumEmpty, SMTT(30) DEF Total
<1>. QED
  BY <1>1, <1>2, Zenon

-----------------------------------------------------------------------------
(* The lines of a payment.                                                 *)

\* platformFee: a positive part of the amount, and less than all of it unless it
\* is a penny.
LEMMA Fee ==
    ASSUME NEW a \in Nat \ {0}
    PROVE  /\ platformFee(a) \in 1..a
           /\ a > 1 => platformFee(a) < a
  BY SMTT(30) DEF platformFee

\* The names of the accounts and directions in the tables, and back.
LEMMA Names ==
    /\ accountTypeToDB(1) = "CONSUMER_ESCROW" /\ accountTypeFromDB("CONSUMER_ESCROW") = 1
    /\ accountTypeToDB(2) = "MERCHANT_ESCROW" /\ accountTypeFromDB("MERCHANT_ESCROW") = 2
    /\ accountTypeToDB(3) = "PLATFORM_FEE" /\ accountTypeFromDB("PLATFORM_FEE") = 3
    /\ directionToDB(1) = "DR" /\ directionFromDB("DR") = 1
    /\ directionToDB(2) = "CR" /\ directionFromDB("CR") = 2
    /\ AccountType.CONSUMER_ESCROW = 1
    /\ AccountType.MERCHANT_ESCROW = 2 /\ AccountType.PLATFORM_FEE = 3
    /\ Direction.DR = 1 /\ Direction.CR = 2
<1>1. /\ DOMAIN AccountType = {"ACCOUNT_TYPE_UNSPECIFIED", "CONSUMER_ESCROW",
                               "MERCHANT_ESCROW", "PLATFORM_FEE"}
      /\ DOMAIN Direction = {"DIRECTION_UNSPECIFIED", "DR", "CR"}
  BY Zenon DEF AccountType, Direction
<1>2. /\ AccountType["ACCOUNT_TYPE_UNSPECIFIED"] = 0 /\ AccountType["CONSUMER_ESCROW"] = 1
      /\ AccountType["MERCHANT_ESCROW"] = 2 /\ AccountType["PLATFORM_FEE"] = 3
      /\ Direction["DIRECTION_UNSPECIFIED"] = 0 /\ Direction["DR"] = 1 /\ Direction["CR"] = 2
  BY Zenon DEF AccountType, Direction
<1>. QED
  BY <1>1, <1>2, SMTT(30) DEF accountTypeToDB, accountTypeFromDB, directionToDB,
     directionFromDB, Name, Number

\* What a payment of an amount moves on an account, and the lines in the tables.
Share(type, a) ==
    IF type = 1 THEN a ELSE IF type = 2 THEN a - platformFee(a) ELSE platformFee(a)
Debit(a) == Line("CONSUMER_ESCROW", "DR", a)
Merchant(a) == Line("MERCHANT_ESCROW", "CR", a - platformFee(a))
Platform(a) == Line("PLATFORM_FEE", "CR", platformFee(a))

\* The server's lines are the orchestrator's, renamed.
LEMMA DBLines ==
    ASSUME NEW a
    PROVE  FromRequest(SettlementLines(a)) = {Debit(a), Merchant(a), Platform(a)}
  BY Names, SMTT(30) DEF FromRequest, SettlementLines, Line, Debit, Merchant, Platform

\* GetJournalEntry's conversions give back the lines that were sent.
LEMMA RoundTrip ==
    ASSUME NEW a
    PROVE  ToResponse(FromRequest(SettlementLines(a))) = SettlementLines(a)
<1>1. ToResponse({Debit(a), Merchant(a), Platform(a)}) = SettlementLines(a)
  BY Names, SMTT(30) DEF ToResponse, SettlementLines, Line, Debit, Merchant, Platform
<1>. QED
  BY <1>1, DBLines, Zenon

\* The lines a payment moves an account by.
LEMMA Shares ==
    ASSUME NEW a \in Nat \ {0}, NEW type \in 1..3
    PROVE  /\ Share(type, a) \in Nat
           /\ Total({l \in SettlementLines(a) : l.type = type}) = Share(type, a)
           /\ Share(1, a) = Share(2, a) + Share(3, a)
<1>1. Share(type, a) \in Nat /\ Share(1, a) = Share(2, a) + Share(3, a)
  BY Fee, SMTT(30) DEF Share
<1>2. PICK d : {l \in SettlementLines(a) : l.type = type} = {Line(type, d, Share(type, a))}
  <2>1. CASE type = 1
    BY <2>1, Names, SMTT(30) DEF SettlementLines, Line, Share
  <2>2. CASE type = 2
    BY <2>2, Names, SMTT(30) DEF SettlementLines, Line, Share
  <2>3. CASE type = 3
    BY <2>3, Names, SMTT(30) DEF SettlementLines, Line, Share
  <2>. QED
    BY <2>1, <2>2, <2>3, SMTT(30)
<1>3. Line(type, d, Share(type, a)).pence = Share(type, a)
  BY Zenon DEF Line
<1>. QED
  BY <1>1, <1>2, <1>3, TotalOne, Zenon

\* PostDoubleEntry's checks pass unless the amount is a penny.
LEMMA ValidLines ==
    ASSUME NEW a \in Nat \ {0}, a # 1
    PROVE  Valid(FromRequest(SettlementLines(a)))
<1>. DEFINE L == {Debit(a), Merchant(a), Platform(a)}
            m == <<Merchant(a), a - platformFee(a)>>
            f == <<Platform(a), platformFee(a)>>
<1>1. platformFee(a) \in Nat /\ platformFee(a) > 0 /\ platformFee(a) < a
  BY Fee, SMTT(30)
<1>2. \A l \in L : l.pence > 0
  BY <1>1, SMTT(30) DEF Line, Debit, Merchant, Platform
<1>3. {l \in L : l.dir = "DR"} = {Debit(a)} /\ Debit(a).pence = a
  BY SMTT(30) DEF Line, Debit, Merchant, Platform
<1>4. {l \in L : l.dir = "CR"} = {Merchant(a), Platform(a)}
  BY SMTT(30) DEF Line, Debit, Merchant, Platform
<1>5. {<<l, l.pence>> : l \in {Merchant(a), Platform(a)}} = ({} \union {m}) \union {f}
  BY SMTT(30) DEF Line, Merchant, Platform
<1>6. m # f /\ m[2] = a - platformFee(a) /\ f[2] = platformFee(a)
  BY Zenon DEF Line, Merchant, Platform
<1>7. m[2] \in Nat /\ f[2] \in Nat
  BY <1>1, <1>6, SMTT(30)
<1>. HIDE DEF m, f
<1>8. Summable({} \union {m}) /\ Sum({} \union {m}) = 0 + m[2]
  BY <1>7, SumEmpty, SumAdd, Zenon
<1>9. Sum(({} \union {m}) \union {f}) = Sum({} \union {m}) + f[2]
  <2>1. f \notin {} \union {m}
    BY <1>6, Zenon
  <2>. QED
    BY <2>1, <1>7, <1>8, SumAdd, Zenon
<1>10. Total({Merchant(a), Platform(a)}) = a
  <2>1. Total({Merchant(a), Platform(a)}) = Sum(({} \union {m}) \union {f})
    BY <1>5, Zenon DEF Total
  <2>2. m[2] + f[2] = a
    BY <1>1, <1>6, SMTT(30)
  <2>3. Sum({} \union {m}) = m[2]
    BY <1>7, <1>8, SMTT(30)
  <2>4. Sum(({} \union {m}) \union {f}) = m[2] + f[2]
    BY <1>9, <2>3, Zenon
  <2>. QED
    BY <2>1, <2>2, <2>4, Zenon
<1>11. Total({Debit(a)}) = a
  BY <1>3, TotalOne, Zenon
<1>. QED
  BY <1>2, <1>3, <1>4, <1>10, <1>11, DBLines, Zenon DEF Valid

-----------------------------------------------------------------------------
(* What an entry adds to the accounts.                                     *)

\* A posting books an account's share in its direction and nothing in the other,
\* a reversal the other way round.
LEMMA EntryLines ==
    ASSUME NEW p \in Payments, NEW n, NEW type \in 1..3
    PROVE  /\ \E l : /\ LinesOf(PostEntry(n, p), type, Home(type)) = {l}
                     /\ l.pence = Share(type, Amount[p])
           /\ LinesOf(PostEntry(n, p), type, Opposite(Home(type))) = {}
           /\ \E l : /\ LinesOf(RevEntry(n, p), type, Opposite(Home(type))) = {l}
                     /\ l.pence = Share(type, Amount[p])
           /\ LinesOf(RevEntry(n, p), type, Home(type)) = {}
<1>. DEFINE a == Amount[p]
            Name1 == accountTypeToDB(type)
            h == Home(type)
            o == Opposite(Home(type))
<1>1. PostEntry(n, p).lines = {Debit(a), Merchant(a), Platform(a)}
  BY DBLines, Zenon DEF PostEntry, PostLines
<1>2. RevEntry(n, p).lines =
        {Line("CONSUMER_ESCROW", "CR", a), Line("MERCHANT_ESCROW", "DR", a - platformFee(a)),
         Line("PLATFORM_FEE", "DR", platformFee(a))}
  <2>1. RevEntry(n, p).lines =
          {[l EXCEPT !.dir = Opposite(l.dir)] : l \in {Debit(a), Merchant(a), Platform(a)}}
    BY DBLines, Zenon DEF RevEntry, RevLines, PostLines
  <2>2. /\ [Debit(a) EXCEPT !.dir = Opposite(Debit(a).dir)] = Line("CONSUMER_ESCROW", "CR", a)
        /\ [Merchant(a) EXCEPT !.dir = Opposite(Merchant(a).dir)]
             = Line("MERCHANT_ESCROW", "DR", a - platformFee(a))
        /\ [Platform(a) EXCEPT !.dir = Opposite(Platform(a).dir)]
             = Line("PLATFORM_FEE", "DR", platformFee(a))
    BY SMTT(30) DEF Debit, Merchant, Platform, Line, Opposite
  <2>. QED
    BY <2>1, <2>2
<1>3. /\ LinesOf(PostEntry(n, p), type, h) = {Line(Name1, h, Share(type, a))}
      /\ LinesOf(PostEntry(n, p), type, o) = {}
  BY <1>1, Names, SMTT(30)
     DEF LinesOf, Debit, Merchant, Platform, Line, Share, Home, Opposite
<1>4. /\ LinesOf(RevEntry(n, p), type, o) = {Line(Name1, o, Share(type, a))}
      /\ LinesOf(RevEntry(n, p), type, h) = {}
  BY <1>2, Names, SMTT(30) DEF LinesOf, Line, Share, Home, Opposite
<1>5. \A d : Line(Name1, d, Share(type, a)).pence = Share(type, a)
  BY Zenon DEF Line
<1>. QED
  BY <1>3, <1>4, <1>5, Zenon

\* A new entry adds its line on an account and in a direction, if it has one.
LEMMA Books ==
    ASSUME NEW type, NEW dir, Summable(BookedLines(type, dir)),
           NEW e, e \notin journal, journal' = journal \union {e}
    PROVE  /\ LinesOf(e, type, dir) = {} =>
                /\ Summable(BookedLines(type, dir))'
                /\ Booked(type, dir)' = Booked(type, dir)
           /\ \A l : LinesOf(e, type, dir) = {l} /\ l.pence \in Nat =>
                /\ Summable(BookedLines(type, dir))'
                /\ Booked(type, dir) \in Nat
                /\ Booked(type, dir)' = Booked(type, dir) + l.pence
<1>. DEFINE B == BookedLines(type, dir)
            New == {<<<<e, l>>, l.pence>> : l \in LinesOf(e, type, dir)}
<1>1. BookedLines(type, dir)' = B \union New
  BY DEF BookedLines, LinesOf
<1>2. /\ Booked(type, dir) = Sum(B) /\ Booked(type, dir)' = Sum(B \union New)
      /\ Summable(BookedLines(type, dir))' <=> Summable(B \union New)
  <2>1. Booked(type, dir) = Sum(B)
    BY Zenon DEF Booked, BookedLines
  <2>2. Booked(type, dir)' = Sum(BookedLines(type, dir)')
    BY Zenon DEF Booked, BookedLines, LinesOf, Sum
  <2>3. Summable(BookedLines(type, dir))' <=> Summable(BookedLines(type, dir)')
    BY Zenon DEF Summable
  <2>. QED
    BY <1>1, <2>1, <2>2, <2>3, Zenon
<1>3. ASSUME LinesOf(e, type, dir) = {} PROVE B \union New = B
  BY <1>3, Zenon
<1>4. ASSUME NEW l, LinesOf(e, type, dir) = {l}, l.pence \in Nat
      PROVE  /\ Summable(B \union New)
             /\ Sum(B) \in Nat /\ Sum(B \union New) = Sum(B) + l.pence
  <2>. DEFINE x == <<<<e, l>>, l.pence>>
  <2>1. New = {x} /\ x[2] = l.pence
    BY <1>4, Zenon
  <2>2. x \notin B
    BY SMTT(30) DEF BookedLines
  <2>. HIDE DEF x, B, New
  <2>3. Summable(B)
    BY Zenon DEF B
  <2>. QED
    BY <1>4, <2>1, <2>2, <2>3, SumAdd, Zenon
<1>. HIDE DEF B, New
<1>5. Summable(B)
  BY Zenon DEF B
<1>. QED
  BY <1>2, <1>3, <1>4, <1>5, Zenon

-----------------------------------------------------------------------------
(* The balances.                                                           *)

\* Four differences of natural numbers.
LEMMA Differences ==
    ASSUME NEW c1 \in Nat, NEW d1 \in Nat, NEW m1 \in Nat, NEW c2 \in Nat, NEW d2 \in Nat,
           NEW m2 \in Nat, NEW c3 \in Nat, NEW d3 \in Nat, NEW m3 \in Nat,
           d1 - c1 = m1, c2 - d2 = m2, c3 - d3 = m3, m1 = m2 + m3
    PROVE  /\ c1 - d1 = 0 - m1
           /\ (c1 - d1) + (c2 - d2) + (c3 - d3) = 0
  BY SMTT(30)

\* The balances add up.
LEMMA Accounts == BalanceInv => BalancesAddUp
<1>. SUFFICES ASSUME BalanceInv PROVE BalancesAddUp
  BY Zenon
<1>1. 1..3 = {1, 2, 3}
  BY SMTT(30)
<1>2. \A type \in 1..3 : /\ Booked(type, Home(type)) \in Nat
                         /\ Booked(type, Opposite(Home(type))) \in Nat
                         /\ Moved(type) \in Nat
  BY SumNat, Zenon DEF BalanceInv, Booked, BookedLines, Moved, MovedParts
<1>3. /\ Home(1) = "DR" /\ Opposite(Home(1)) = "CR"
      /\ Home(2) = "CR" /\ Opposite(Home(2)) = "DR"
      /\ Home(3) = "CR" /\ Opposite(Home(3)) = "DR"
  BY SMTT(30) DEF Home, Opposite
<1>4. /\ Booked(1, "CR") \in Nat /\ Booked(1, "DR") \in Nat /\ Moved(1) \in Nat
      /\ Booked(2, "CR") \in Nat /\ Booked(2, "DR") \in Nat /\ Moved(2) \in Nat
      /\ Booked(3, "CR") \in Nat /\ Booked(3, "DR") \in Nat /\ Moved(3) \in Nat
  BY <1>1, <1>2, <1>3, Zenon
<1>5. /\ Booked(1, "DR") - Booked(1, "CR") = Moved(1)
      /\ Booked(2, "CR") - Booked(2, "DR") = Moved(2)
      /\ Booked(3, "CR") - Booked(3, "DR") = Moved(3)
      /\ Moved(1) = Moved(2) + Moved(3)
  BY <1>1, <1>3, Zenon DEF BalanceInv, Net
<1>6. /\ Booked(1, "CR") - Booked(1, "DR") = 0 - Moved(1)
      /\ (Booked(1, "CR") - Booked(1, "DR")) + (Booked(2, "CR") - Booked(2, "DR"))
           + (Booked(3, "CR") - Booked(3, "DR")) = 0
  BY <1>4, <1>5, Differences
<1>. QED
  BY <1>5, <1>6, Names, Zenon DEF BalancesAddUp, GetBalance

\* What moves and what is booked by a step, put together: d is 1 for a posting, -1
\* for a reversal.
LEMMA Moves ==
    ASSUME BalanceInv,
           \A type \in 1..3 : /\ Summable(MovedParts(type))'
                              /\ Summable(BookedLines(type, Home(type)))'
                              /\ Summable(BookedLines(type, Opposite(Home(type))))',
           NEW d \in {-1, 1}, NEW p \in Payments,
           \A type \in 1..3 : /\ Net(type)' = Net(type) + d * Share(type, Amount[p])
                              /\ Moved(type)' = Moved(type) + d * Share(type, Amount[p])
    PROVE  BalanceInv'
<1>. DEFINE a == Amount[p]
<1>1. a \in Nat \ {0}
  BY Zenon
<1>2. /\ Share(1, a) \in Nat /\ Share(2, a) \in Nat /\ Share(3, a) \in Nat
      /\ Share(1, a) = Share(2, a) + Share(3, a)
  <2>1. 1 \in 1..3 /\ 2 \in 1..3 /\ 3 \in 1..3
    BY SMTT(30)
  <2>. QED
    BY <1>1, <2>1, Shares, Zenon
<1>3. Moved(1) \in Nat /\ Moved(2) \in Nat /\ Moved(3) \in Nat
  <2>1. 1 \in 1..3 /\ 2 \in 1..3 /\ 3 \in 1..3
    BY SMTT(30)
  <2>. QED
    BY <2>1, SumNat, Zenon DEF BalanceInv, Moved, MovedParts
<1>4. \A type \in 1..3 : Net(type)' = Moved(type)'
  BY Zenon DEF BalanceInv
<1>5. /\ Moved(1)' = Moved(1) + d * Share(1, a)
      /\ Moved(2)' = Moved(2) + d * Share(2, a)
      /\ Moved(3)' = Moved(3) + d * Share(3, a)
      /\ Moved(1) = Moved(2) + Moved(3)
  BY SMTT(30) DEF BalanceInv
<1>. HIDE DEF a
<1>6. Moved(1)' = Moved(2)' + Moved(3)'
  <2>1. CASE d = 1
    BY <2>1, <1>2, <1>3, <1>5, SMTT(30)
  <2>2. CASE d = -1
    BY <2>2, <1>2, <1>3, <1>5, SMTT(30)
  <2>. QED
    BY <2>1, <2>2, Zenon
<1>. QED
  BY <1>4, <1>6, Zenon DEF BalanceInv

\* Entries have the numbers of the transactions so far, so the next is new.
LEMMA NewEntry ==
    ASSUME TypeOK, JournalInv, NEW p
    PROVE  PostEntry(writes + 1, p) \notin journal /\ RevEntry(writes + 1, p) \notin journal
<1>1. \A e \in journal : e.tx \in 1..writes
  BY DEF JournalInv, PostEntry, RevEntry
<1>2. PostEntry(writes + 1, p).tx = writes + 1 /\ RevEntry(writes + 1, p).tx = writes + 1
  BY Zenon DEF PostEntry, RevEntry
<1>3. writes + 1 \notin 1..writes
  BY SMTT(30) DEF TypeOK
<1>. QED
  BY <1>1, <1>2, <1>3, Zenon

\* Who is posted and who is undone after an entry.
LEMMA EntriesAfter ==
    ASSUME NEW p, NEW n
    PROVE  /\ journal' = journal \union {PostEntry(n, p)} =>
                \A q : (Posted(q)' <=> Posted(q) \/ q = p) /\ (Undone(q)' <=> Undone(q))
           /\ journal' = journal \union {RevEntry(n, p)} =>
                \A q : (Posted(q)' <=> Posted(q)) /\ (Undone(q)' <=> Undone(q) \/ q = p)
<1>1. /\ PostEntry(n, p).payment = p /\ PostEntry(n, p).kind = "post"
      /\ RevEntry(n, p).payment = p /\ RevEntry(n, p).kind = "rev"
  BY Zenon DEF PostEntry, RevEntry
<1>. QED
  BY <1>1, Zenon DEF Posted, Undone, Entries

\* A posting moves its payment's shares, once.
LEMMA PostBalance ==
    ASSUME TypeOK, JournalInv, BalanceInv, NEW p \in Payments, ~ Posted(p),
           journal' = journal \union {PostEntry(writes + 1, p)}, reversed' = reversed
    PROVE  BalanceInv'
<1>. DEFINE e == PostEntry(writes + 1, p)
            a == Amount[p]
<1>1. e \notin journal
  BY NewEntry, Zenon
<1>2. p \notin Standing /\ Standing' = Standing \union {p}
  <2>1. ~ reversed[p]
    BY Zenon DEF JournalInv
  <2>2. \A q : Posted(q)' <=> Posted(q) \/ q = p
    BY EntriesAfter, Zenon
  <2>. QED
    BY <2>1, <2>2, Zenon DEF Standing
<1>3. ASSUME NEW type \in 1..3
      PROVE  /\ Summable(MovedParts(type))'
             /\ Moved(type)' = Moved(type) + 1 * Share(type, a)
  <2>. DEFINE x == <<p, Total({l \in SettlementLines(Amount[p]) : l.type = type})>>
              M == MovedParts(type)
  <2>1. MovedParts(type)' = M \union {x} /\ x \notin M
    BY <1>2, Zenon DEF MovedParts
  <2>2. x[2] = Share(type, a) /\ Share(type, a) \in Nat
    BY Shares, Zenon
  <2>3. Moved(type) = Sum(M) /\ Moved(type)' = Sum(MovedParts(type)')
    BY Zenon DEF Moved, MovedParts
  <2>4. Summable(MovedParts(type))' <=> Summable(MovedParts(type)')
    BY Zenon DEF Summable
  <2>5. Summable(M)
    BY Zenon DEF BalanceInv
  <2>. HIDE DEF x, M
  <2>6. /\ Summable(M \union {x})
        /\ Sum(M) \in Nat /\ Sum(M \union {x}) = Sum(M) + x[2]
    BY <2>1, <2>2, <2>5, SumAdd, Zenon
  <2>. QED
    BY <2>1, <2>2, <2>3, <2>4, <2>6, SMTT(30)
<1>4. ASSUME NEW type \in 1..3
      PROVE  /\ Summable(BookedLines(type, Home(type)))'
             /\ Summable(BookedLines(type, Opposite(Home(type))))'
             /\ Net(type)' = Net(type) + 1 * Share(type, a)
  <2>. DEFINE h == Home(type)
              o == Opposite(Home(type))
  <2>1. Summable(BookedLines(type, h)) /\ Summable(BookedLines(type, o))
    BY Zenon DEF BalanceInv
  <2>2. PICK l : LinesOf(e, type, h) = {l} /\ l.pence = Share(type, a)
    BY EntryLines, Zenon
  <2>3. LinesOf(e, type, o) = {}
    BY EntryLines, Zenon
  <2>4. Share(type, a) \in Nat
    BY Shares, Zenon
  <2>5. Net(type) = Booked(type, h) - Booked(type, o)
    BY Zenon DEF Net
  <2>6. Net(type)' = Booked(type, h)' - Booked(type, o)'
    BY Zenon DEF Net, Home, Opposite
  <2>. HIDE DEF h, o, e
  <2>7. journal' = journal \union {e}
    BY Zenon DEF e
  <2>8. /\ Summable(BookedLines(type, h))'
        /\ Booked(type, h) \in Nat
        /\ Booked(type, h)' = Booked(type, h) + Share(type, a)
    BY <1>1, <2>1, <2>2, <2>4, <2>7, Books
  <2>9. Summable(BookedLines(type, o))' /\ Booked(type, o)' = Booked(type, o)
    BY <1>1, <2>1, <2>3, <2>7, Books, Zenon
  <2>10. Booked(type, o) \in Nat
    BY <2>1, SumNat, Zenon DEF Booked, BookedLines
  <2>11. Net(type)' = Net(type) + 1 * Share(type, a)
    BY <2>4, <2>5, <2>6, <2>8, <2>9, <2>10, SMTT(30)
  <2>. QED
    BY <2>8, <2>9, <2>11, Zenon DEF h, o
<1>. HIDE DEF e
<1>. QED
  BY <1>3, <1>4, Moves, Zenon

\* A reversal takes them back.
LEMMA ReverseBalance ==
    ASSUME TypeOK, JournalInv, BalanceInv, NEW p \in Payments, Posted(p), ~ Undone(p),
           journal' = journal \union {RevEntry(writes + 1, p)},
           reversed' = [reversed EXCEPT ![p] = TRUE]
    PROVE  BalanceInv'
<1>. DEFINE e == RevEntry(writes + 1, p)
            a == Amount[p]
<1>1. e \notin journal
  BY NewEntry, Zenon
<1>2. p \in Standing /\ Standing' = Standing \ {p}
  <2>1. ~ reversed[p]
    BY Zenon DEF JournalInv
  <2>2. \A q : Posted(q)' <=> Posted(q)
    BY EntriesAfter, Zenon
  <2>3. \A q \in Payments : reversed'[q] <=> reversed[q] \/ q = p
    BY Zenon DEF TypeOK
  <2>. QED
    BY <2>1, <2>2, <2>3, Zenon DEF Standing
<1>3. ASSUME NEW type \in 1..3
      PROVE  /\ Summable(MovedParts(type))'
             /\ Moved(type)' = Moved(type) + (-1) * Share(type, a)
  <2>. DEFINE x == <<p, Total({l \in SettlementLines(Amount[p]) : l.type = type})>>
              M == MovedParts(type)
  <2>1. MovedParts(type)' = M \ {x} /\ x \in M
    <3>. DEFINE Part(q) == <<q, Total({l \in SettlementLines(Amount[q]) : l.type = type})>>
    <3>1. M = {Part(q) : q \in Standing} /\ x = Part(p)
      BY Zenon DEF MovedParts
    <3>2. MovedParts(type)' = {Part(q) : q \in Standing \ {p}}
      BY <1>2, Zenon DEF MovedParts
    <3>3. \A q : Part(q)[1] = q
      BY Zenon
    <3>. HIDE DEF Part, M, x
    <3>4. \A q, r : Part(q) = Part(r) => q = r
      BY <3>3, Zenon
    <3>. QED
      BY <1>2, <3>1, <3>2, <3>4
  <2>2. x[2] = Share(type, a) /\ Share(type, a) \in Nat
    BY Shares, Zenon
  <2>3. Moved(type) = Sum(M) /\ Moved(type)' = Sum(MovedParts(type)')
    BY Zenon DEF Moved, MovedParts
  <2>4. Summable(MovedParts(type))' <=> Summable(MovedParts(type)')
    BY Zenon DEF Summable
  <2>5. Summable(M)
    BY Zenon DEF BalanceInv
  <2>. HIDE DEF x, M
  <2>6. /\ Summable(M \ {x})
        /\ Sum(M \ {x}) \in Nat /\ Sum(M) = Sum(M \ {x}) + x[2]
    BY <2>1, <2>5, SumRemove, Zenon
  <2>. QED
    BY <2>1, <2>2, <2>3, <2>4, <2>6, SMTT(30)
<1>4. ASSUME NEW type \in 1..3
      PROVE  /\ Summable(BookedLines(type, Home(type)))'
             /\ Summable(BookedLines(type, Opposite(Home(type))))'
             /\ Net(type)' = Net(type) + (-1) * Share(type, a)
  <2>. DEFINE h == Home(type)
              o == Opposite(Home(type))
  <2>1. Summable(BookedLines(type, h)) /\ Summable(BookedLines(type, o))
    BY Zenon DEF BalanceInv
  <2>2. PICK l : LinesOf(e, type, o) = {l} /\ l.pence = Share(type, a)
    BY EntryLines, Zenon
  <2>3. LinesOf(e, type, h) = {}
    BY EntryLines, Zenon
  <2>4. Share(type, a) \in Nat
    BY Shares, Zenon
  <2>5. Net(type) = Booked(type, h) - Booked(type, o)
    BY Zenon DEF Net
  <2>6. Net(type)' = Booked(type, h)' - Booked(type, o)'
    BY Zenon DEF Net, Home, Opposite
  <2>. HIDE DEF h, o, e
  <2>7. journal' = journal \union {e}
    BY Zenon DEF e
  <2>8. /\ Summable(BookedLines(type, o))'
        /\ Booked(type, o) \in Nat
        /\ Booked(type, o)' = Booked(type, o) + Share(type, a)
    BY <1>1, <2>1, <2>2, <2>4, <2>7, Books
  <2>9. Summable(BookedLines(type, h))' /\ Booked(type, h)' = Booked(type, h)
    BY <1>1, <2>1, <2>3, <2>7, Books, Zenon
  <2>10. Booked(type, h) \in Nat
    BY <2>1, SumNat, Zenon DEF Booked, BookedLines
  <2>11. Net(type)' = Net(type) + (-1) * Share(type, a)
    BY <2>4, <2>5, <2>6, <2>8, <2>9, <2>10, SMTT(30)
  <2>. QED
    BY <2>8, <2>9, <2>11, Zenon DEF h, o
<1>. HIDE DEF e
<1>. QED
  BY <1>3, <1>4, Moves, Zenon

-----------------------------------------------------------------------------
(* The steps.                                                              *)

\* The journal is empty and no call has begun.
LEMMA InitInv == Init => Inv
<1>. SUFFICES ASSUME Init PROVE Inv
  BY Zenon
<1>1. TypeOK
  <2>1. reversed \in [Payments -> BOOLEAN]
    BY Zenon DEF Init
  <2>2. seen \in [Calls -> [posted : BOOLEAN, undone : BOOLEAN, writes : Nat]]
    <3>1. [posted |-> FALSE, undone |-> FALSE, writes |-> 0]
            \in [posted : BOOLEAN, undone : BOOLEAN, writes : Nat]
      BY Zenon
    <3>. QED
      BY <3>1, Zenon DEF Init
  <2>. QED
    BY <2>1, <2>2, Zenon DEF Init, TypeOK
<1>2. JournalInv /\ CallInv
  BY SMTT(30) DEF Init, JournalInv, CallInv, Posted, Undone, Entries
<1>3. BalanceInv
  <2>1. \A type, dir : BookedLines(type, dir) = {} /\ Booked(type, dir) = Sum({})
    BY Zenon DEF Init, BookedLines, Booked
  <2>2. \A type : MovedParts(type) = {} /\ Moved(type) = Sum({})
    BY Zenon DEF Init, MovedParts, Moved, Standing, Posted, Entries
  <2>3. \A type : Net(type) = Moved(type)
    BY <2>1, <2>2, SumEmpty, SMTT(30) DEF Net
  <2>4. Moved(1) = Moved(2) + Moved(3)
    BY <2>2, SumEmpty, SMTT(30)
  <2>. QED
    BY <2>1, <2>2, <2>3, <2>4, SumEmpty, Zenon DEF BalanceInv
<1>. QED
  BY <1>1, <1>2, <1>3, Zenon DEF Inv

\* A step that leaves the tables alone.
LEMMA SameTables ==
    ASSUME JournalInv, BalanceInv, UNCHANGED tables
    PROVE  /\ JournalInv' /\ BalanceInv'
           /\ \A p : (Posted(p)' <=> Posted(p)) /\ (Undone(p)' <=> Undone(p))
<1>1. journal' = journal /\ reversed' = reversed /\ writes' = writes
  BY Zenon DEF tables
<1>2. \A p : (Posted(p)' <=> Posted(p)) /\ (Undone(p)' <=> Undone(p))
  BY <1>1, Zenon DEF Posted, Undone, Entries
<1>3. JournalInv'
  BY <1>1, <1>2, Zenon DEF JournalInv
<1>4. BalanceInv'
  <2>1. \A type, dir : /\ BookedLines(type, dir)' = BookedLines(type, dir)
                       /\ Booked(type, dir)' = Booked(type, dir)
    BY <1>1, Zenon DEF BookedLines, Booked, LinesOf, Sum
  <2>2. Standing' = Standing
    BY <1>1, <1>2, Zenon DEF Standing
  <2>3. \A type : MovedParts(type)' = MovedParts(type) /\ Moved(type)' = Moved(type)
    BY <2>2, Zenon DEF MovedParts, Moved
  <2>4. \A type : Net(type)' = Net(type)
    BY <2>1, Zenon DEF Net
  <2>. QED
    BY <2>1, <2>3, <2>4, Zenon DEF BalanceInv, Summable
<1>. QED
  BY <1>2, <1>3, <1>4, Zenon

\* Begin: what is seen is what there is, and only a penny is refused.
LEMMA BeginStep ==
    ASSUME Inv, NEW c \in Calls, Begin(c)
    PROVE  Inv'
<1>. DEFINE p == PaymentOf[c]
<1>1. p \in Payments /\ Amount[p] \in Nat \ {0}
  BY Zenon
<1>2. /\ JournalInv' /\ BalanceInv' /\ writes' = writes
      /\ \A q : (Posted(q)' <=> Posted(q)) /\ (Undone(q)' <=> Undone(q))
  BY SameTables, Zenon DEF Inv, Begin, tables
<1>3. CASE c \in Posts /\ ~ Valid(FromRequest(SettlementLines(Amount[p])))
  <2>1. Amount[p] = 1
    BY <1>1, <1>3, ValidLines, Zenon
  <2>2. /\ phase' = [phase EXCEPT ![c] = "refused"]
        /\ UNCHANGED <<seen, attempts, reversed, writes, aborts>>
    BY <1>3, Zenon DEF Begin, tables
  <2>3. TypeOK'
    BY <2>2, Zenon DEF Inv, TypeOK, Replies
  <2>4. CallInv'
    BY <1>2, <2>1, <2>2, SMTT(30) DEF Inv, TypeOK, CallInv
  <2>. QED
    BY <1>2, <2>3, <2>4, Zenon DEF Inv
<1>4. CASE ~ (c \in Posts /\ ~ Valid(FromRequest(SettlementLines(Amount[p]))))
  <2>. DEFINE snap == [posted |-> Posted(p), undone |-> Undone(p), writes |-> writes]
  <2>1. /\ phase[c] = "start"
        /\ phase' = [phase EXCEPT ![c] = "tx"]
        /\ seen' = [seen EXCEPT ![c] = snap]
        /\ attempts' = [attempts EXCEPT ![c] = @ + 1]
        /\ UNCHANGED <<reversed, writes, aborts>>
    BY <1>4, Zenon DEF Begin, tables
  <2>2. /\ snap \in [posted : BOOLEAN, undone : BOOLEAN, writes : Nat]
        /\ (snap.posted <=> Posted(p)) /\ (snap.undone <=> Undone(p)) /\ snap.writes = writes
    <3>1. Posted(p) \in BOOLEAN /\ Undone(p) \in BOOLEAN
      BY Zenon DEF Posted, Undone
    <3>. QED
      BY <3>1, Zenon DEF Inv, TypeOK
  <2>. HIDE DEF snap
  <2>3. TypeOK'
    <3>1. seen' \in [Calls -> [posted : BOOLEAN, undone : BOOLEAN, writes : Nat]]
      BY <2>1, <2>2, Zenon DEF Inv, TypeOK
    <3>2. reversed' \in [Payments -> BOOLEAN]
      BY <2>1, Zenon DEF Inv, TypeOK
    <3>. QED
      BY <2>1, <3>1, <3>2, SMTT(30) DEF Inv, TypeOK
  <2>4. ASSUME NEW d \in Calls, d # c
        PROVE  phase'[d] = phase[d] /\ seen'[d] = seen[d] /\ attempts'[d] = attempts[d]
    BY <2>1, <2>4, Zenon DEF Inv, TypeOK
  <2>5. phase'[c] = "tx" /\ seen'[c] = snap /\ attempts'[c] = attempts[c] + 1
    BY <2>1, Zenon DEF Inv, TypeOK
  <2>6. attempts[c] \in Nat /\ writes \in Nat /\ attempts[c] <= writes
    BY <2>1, Zenon DEF Inv, TypeOK, CallInv
  <2>7. CallInv'
    BY <1>2, <2>2, <2>4, <2>5, <2>6, SMTT(30) DEF Inv, CallInv
  <2>. QED
    BY <1>2, <2>3, <2>7, Zenon DEF Inv
<1>. QED
  BY <1>3, <1>4, Zenon

\* A reply that writes nothing, if there is a reason for it.
LEMMA AnswerStep ==
    ASSUME Inv, NEW c \in Calls, NEW r \in {"start"} \union Replies,
           phase' = [phase EXCEPT ![c] = r],
           UNCHANGED <<tables, attempts, seen>>, aborts' \in Nat,
           r \in {"start", "conflict"} => attempts[c] <= writes,
           r = "conflict" => attempts[c] >= MaxAttempts,
           r # "refused",
           r = "ok" => Posted(PaymentOf[c]) /\ (c \in Reversals => Undone(PaymentOf[c]))
    PROVE  Inv'
<1>1. /\ JournalInv' /\ BalanceInv'
      /\ \A q : (Posted(q)' <=> Posted(q)) /\ (Undone(q)' <=> Undone(q))
  BY SameTables, Zenon DEF Inv
<1>2. UNCHANGED <<reversed, writes, attempts, seen>>
  BY Zenon DEF tables
<1>3. TypeOK'
  BY <1>2, Zenon DEF Inv, TypeOK
<1>4. phase'[c] = r /\ \A d \in Calls : d # c => phase'[d] = phase[d]
  BY Zenon DEF Inv, TypeOK
<1>5. CallInv'
  BY <1>1, <1>2, <1>4, Zenon DEF Inv, CallInv, Replies
<1>. QED
  BY <1>1, <1>3, <1>5, Zenon DEF Inv

\* withSerializable: an attempt fails because another writer got through.
LEMMA CollideStep ==
    ASSUME Inv, NEW c \in Calls, phase[c] = "tx", Overtaken(c), Collide(c)
    PROVE  Inv'
<1>1. attempts[c] <= writes
  <2>1. /\ attempts[c] \in Nat /\ seen[c].writes \in Nat /\ writes \in Nat
        /\ attempts[c] <= seen[c].writes + 1 /\ seen[c].writes <= writes
    BY Zenon DEF Inv, TypeOK, CallInv
  <2>. QED
    BY <2>1, SMTT(30) DEF Overtaken
<1>2. aborts \in Nat /\ attempts[c] \in Nat
  BY Zenon DEF Inv, TypeOK
<1>3. CASE MayRetry(c) /\ Answer(c, "start")
  BY <1>1, <1>2, <1>3, AnswerStep, Zenon DEF Answer, Replies
<1>4. CASE ~MayRetry(c) /\ Answer(c, "conflict")
  <2>1. attempts[c] >= MaxAttempts
    BY <1>2, <1>4, SMTT(30) DEF MayRetry
  <2>. QED
    BY <1>1, <1>2, <1>4, <2>1, AnswerStep, Zenon DEF Answer, Replies
<1>5. CASE Answer(c, "error")
  BY <1>2, <1>5, AnswerStep, Zenon DEF Answer, Replies
<1>. QED
  BY <1>3, <1>4, <1>5, Zenon DEF Collide

\* A lost connection leaves the tables alone.
LEMMA AbortStep ==
    ASSUME Inv, NEW c \in Calls, Abort(c)
    PROVE  Inv'
<1>1. aborts' \in Nat
  BY DEF Inv, TypeOK, Abort
<1>. QED
  BY <1>1, AnswerStep, Zenon DEF Abort, Replies

\* A writing transaction answers "ok"; those under way are overtaken, and keep
\* what they saw.
LEMMA WriteCalls ==
    ASSUME Inv, NEW c \in Calls, phase' = [phase EXCEPT ![c] = "ok"],
           writes' = writes + 1, UNCHANGED <<attempts, seen>>,
           \A q : (Posted(q) => Posted(q)') /\ (Undone(q) => Undone(q)'),
           Posted(PaymentOf[c])', c \in Reversals => Undone(PaymentOf[c])'
    PROVE  CallInv'
<1>1. phase'[c] = "ok" /\ \A d \in Calls : d # c => phase'[d] = phase[d]
  BY Zenon DEF Inv, TypeOK
<1>2. \A d \in Calls : attempts[d] \in Nat /\ seen[d].writes \in Nat /\ writes \in Nat
  BY Zenon DEF Inv, TypeOK
<1>. SUFFICES ASSUME NEW d \in Calls, d # c
              PROVE  /\ phase[d] \in {"start", "conflict"} => attempts[d] <= writes'
                     /\ phase[d] = "tx" => seen[d].writes <= writes' /\ seen[d].writes # writes'
  BY <1>1, Zenon DEF Inv, CallInv
<1>. QED
  BY <1>2, SMTT(30) DEF Inv, CallInv

\* PostDoubleEntry writes only when there is no entry.
LEMMA PostStep ==
    ASSUME Inv, NEW c \in Calls, PostDoubleEntry(c)
    PROVE  Inv'
<1>. DEFINE p == PaymentOf[c]
            e == PostEntry(writes + 1, p)
<1>1. c \in Posts /\ c \notin Reversals /\ phase[c] = "tx" /\ p \in Payments /\ aborts \in Nat
  BY Zenon DEF PostDoubleEntry, Inv, TypeOK
<1>2. CASE seen[c].posted
  <2>1. Answer(c, "ok") /\ Posted(p)
    BY <1>1, <1>2, Zenon DEF PostDoubleEntry, Inv, CallInv
  <2>. QED
    BY <1>1, <2>1, AnswerStep, Zenon DEF Answer, Replies
<1>3. CASE ~ seen[c].posted /\ Overtaken(c)
  BY <1>1, <1>3, CollideStep, Zenon DEF PostDoubleEntry
<1>4. CASE ~ seen[c].posted /\ ~ Overtaken(c)
  <2>1. ~ Posted(p)
    BY <1>1, <1>4, Zenon DEF Overtaken, Inv, CallInv
  <2>2. /\ journal' = journal \union {e} /\ writes' = writes + 1
        /\ phase' = [phase EXCEPT ![c] = "ok"]
        /\ UNCHANGED <<reversed, attempts, seen, aborts>>
    BY <1>4, Zenon DEF PostDoubleEntry, Insert, PostEntry, PostLines
  <2>3. \A q : (Posted(q)' <=> Posted(q) \/ q = p) /\ (Undone(q)' <=> Undone(q))
    BY <2>2, EntriesAfter, Zenon
  <2>4. TypeOK'
    BY <2>2 DEF Inv, TypeOK, Replies
  <2>5. JournalInv'
    <3>1. e.payment = p /\ e.kind = "post"
      BY Zenon DEF PostEntry
    <3>2. \A f \in journal : ~ (f.payment = p /\ f.kind = "post")
      BY <2>1, Zenon DEF Posted, Entries
    <3>3. \A f \in journal' : \E n \in 1..writes', q \in Payments :
             f = PostEntry(n, q) \/ f = RevEntry(n, q)
      <4>1. writes + 1 \in 1..writes' /\ 1..writes \subseteq 1..writes'
        BY <2>2, SMTT(30) DEF Inv, TypeOK
      <4>. QED
        BY <1>1, <2>2, <4>1, Zenon DEF Inv, JournalInv
    <3>4. \A f, g \in journal' : f.payment = g.payment /\ f.kind = g.kind => f = g
      <4>. HIDE DEF e
      <4>. QED
        BY <2>2, <3>1, <3>2 DEF Inv, JournalInv
    <3>5. \A q \in Payments : (Undone(q)' <=> reversed'[q]) /\ (Undone(q)' => Posted(q)')
      BY <2>2, <2>3, Zenon DEF Inv, JournalInv
    <3>. QED
      BY <3>3, <3>4, <3>5, Zenon DEF JournalInv
  <2>6. CallInv'
    BY <1>1, <2>2, <2>3, WriteCalls, Zenon
  <2>7. BalanceInv'
    BY <1>1, <2>1, <2>2, PostBalance, Zenon DEF Inv
  <2>. QED
    BY <2>4, <2>5, <2>6, <2>7, Zenon DEF Inv
<1>. QED
  BY <1>2, <1>3, <1>4, Zenon

\* ReverseEntry writes only when there is an entry and no reversal of it, and then
\* flags it.
LEMMA ReverseStep ==
    ASSUME Inv, NEW c \in Calls, ReverseEntry(c)
    PROVE  Inv'
<1>. DEFINE p == PaymentOf[c]
            e == RevEntry(writes + 1, p)
<1>1. phase[c] = "tx" /\ p \in Payments /\ aborts \in Nat
  BY Zenon DEF ReverseEntry, Inv, TypeOK
<1>2. CASE ~ seen[c].posted
  <2>1. Answer(c, "notFound")
    BY <1>2, Zenon DEF ReverseEntry
  <2>. QED
    BY <1>1, <2>1, AnswerStep, Zenon DEF Answer, Replies
<1>3. CASE seen[c].posted /\ seen[c].undone
  <2>1. Answer(c, "ok") /\ Posted(p) /\ Undone(p)
    BY <1>1, <1>3, Zenon DEF ReverseEntry, Inv, CallInv
  <2>. QED
    BY <1>1, <2>1, AnswerStep, Zenon DEF Answer, Replies
<1>4. CASE seen[c].posted /\ ~ seen[c].undone /\ Overtaken(c)
  BY <1>1, <1>4, CollideStep, Zenon DEF ReverseEntry
<1>5. CASE seen[c].posted /\ ~ seen[c].undone /\ ~ Overtaken(c)
  <2>1. Posted(p) /\ ~ Undone(p)
    BY <1>1, <1>5, Zenon DEF Overtaken, Inv, CallInv
  <2>2. /\ journal' = journal \union {e} /\ writes' = writes + 1
        /\ reversed' = [reversed EXCEPT ![p] = TRUE]
        /\ phase' = [phase EXCEPT ![c] = "ok"]
        /\ UNCHANGED <<attempts, seen, aborts>>
    <3>1. PICK f \in Entries(p, "post") :
            Insert(p, "rev", {[l EXCEPT !.dir = Opposite(l.dir)] : l \in f.lines})
      BY <1>5, Zenon DEF ReverseEntry
    <3>2. f.lines = PostLines(p)
      <4>1. f \in journal /\ f.payment = p /\ f.kind = "post"
        BY Zenon DEF Entries
      <4>2. PICK n \in 1..writes, q \in Payments : f = PostEntry(n, q) \/ f = RevEntry(n, q)
        BY <4>1, Zenon DEF Inv, JournalInv
      <4>3. f = PostEntry(n, q) /\ q = p
        BY <4>1, <4>2 DEF PostEntry, RevEntry
      <4>. QED
        BY <4>3, Zenon DEF PostEntry
    <3>. QED
      BY <1>5, <3>1, <3>2, Zenon DEF ReverseEntry, Insert, RevEntry, RevLines
  <2>3. \A q : (Posted(q)' <=> Posted(q)) /\ (Undone(q)' <=> Undone(q) \/ q = p)
    BY <2>2, EntriesAfter, Zenon
  <2>4. TypeOK'
    <3>1. reversed' \in [Payments -> BOOLEAN]
      BY <2>2, Zenon DEF Inv, TypeOK
    <3>. QED
      BY <2>2, <3>1 DEF Inv, TypeOK, Replies
  <2>5. JournalInv'
    <3>1. e.payment = p /\ e.kind = "rev"
      BY Zenon DEF RevEntry
    <3>2. \A f \in journal : ~ (f.payment = p /\ f.kind = "rev")
      BY <2>1, Zenon DEF Undone, Entries
    <3>3. \A f \in journal' : \E n \in 1..writes', q \in Payments :
             f = PostEntry(n, q) \/ f = RevEntry(n, q)
      <4>1. writes + 1 \in 1..writes' /\ 1..writes \subseteq 1..writes'
        BY <2>2, SMTT(30) DEF Inv, TypeOK
      <4>. QED
        BY <1>1, <2>2, <4>1, Zenon DEF Inv, JournalInv
    <3>4. \A f, g \in journal' : f.payment = g.payment /\ f.kind = g.kind => f = g
      <4>. HIDE DEF e
      <4>. QED
        BY <2>2, <3>1, <3>2 DEF Inv, JournalInv
    <3>5. \A q \in Payments : (Undone(q)' <=> reversed'[q]) /\ (Undone(q)' => Posted(q)')
      BY <2>1, <2>2, <2>3, Zenon DEF Inv, TypeOK, JournalInv
    <3>. QED
      BY <3>3, <3>4, <3>5, Zenon DEF JournalInv
  <2>6. CallInv'
    BY <2>1, <2>2, <2>3, WriteCalls, Zenon
  <2>7. BalanceInv'
    BY <1>1, <2>1, <2>2, ReverseBalance, Zenon DEF Inv
  <2>. QED
    BY <2>4, <2>5, <2>6, <2>7, Zenon DEF Inv
<1>. QED
  BY <1>2, <1>3, <1>4, <1>5, Zenon

\* Every step keeps Inv.
LEMMA NextInv == Inv /\ [Next]_vars => Inv'
<1>. SUFFICES ASSUME Inv, [Next]_vars PROVE Inv'
  BY Zenon
<1>1. CASE UNCHANGED vars
  <2>1. /\ JournalInv' /\ BalanceInv'
        /\ \A q : (Posted(q)' <=> Posted(q)) /\ (Undone(q)' <=> Undone(q))
    BY <1>1, SameTables, Zenon DEF Inv, vars, tables
  <2>2. TypeOK' /\ CallInv'
    BY <1>1, <2>1, Zenon DEF Inv, TypeOK, CallInv, vars
  <2>. QED
    BY <2>1, <2>2, Zenon DEF Inv
<1>2. CASE Next
  BY <1>1, <1>2, BeginStep, PostStep, ReverseStep, AbortStep, Zenon DEF Next, Quiescent
<1>. QED
  BY <1>1, <1>2, Zenon

-----------------------------------------------------------------------------
(* The theorems.                                                           *)

\* The inductive invariant of the journal.
THEOREM Invariance == Spec => []Inv
  BY InitInv, NextInv, PTL DEF Spec

\* GetBalance: however PostDoubleEntry and ReverseEntry overlap and are repeated,
\* for any amounts the accounts hold what the standing payments have moved, each
\* counted once, and together nothing.
THEOREM BalancesAreRight == Spec => []BalancesAddUp
<1>1. Inv => BalancesAddUp
  BY Accounts, Zenon DEF Inv
<1>. QED
  BY <1>1, Invariance, PTL

\* A call that answers "ok" has been carried out: its payment has one entry, which
\* GetJournalEntry returns as the orchestrator sent it, and after ReverseEntry it
\* is flagged.
THEOREM OkCallsAreDone == Spec => []OkIsDone
<1>1. Inv => OkIsDone
  <2>. SUFFICES ASSUME Inv, NEW c \in Calls, phase[c] = "ok"
                PROVE  /\ Cardinality(Entries(PaymentOf[c], "post")) = 1
                       /\ GetJournalEntry(PaymentOf[c]) = SettlementLines(Amount[PaymentOf[c]])
                       /\ c \in Reversals => reversed[PaymentOf[c]]
    BY Zenon DEF OkIsDone
  <2>. DEFINE p == PaymentOf[c]
  <2>1. p \in Payments /\ Posted(p) /\ (c \in Reversals => Undone(p))
    BY Zenon DEF Inv, CallInv
  <2>2. PICK e : e \in Entries(p, "post")
    BY <2>1, Zenon DEF Posted
  <2>3. Entries(p, "post") = {e}
    BY <2>2, Zenon DEF Inv, JournalInv, Entries
  <2>4. e.lines = PostLines(p)
    <3>1. e \in journal /\ e.payment = p /\ e.kind = "post"
      BY <2>2, Zenon DEF Entries
    <3>2. PICK n \in 1..writes, q \in Payments : e = PostEntry(n, q) \/ e = RevEntry(n, q)
      BY <3>1, Zenon DEF Inv, JournalInv
    <3>3. e = PostEntry(n, q) /\ q = p
      BY <3>1, <3>2 DEF PostEntry, RevEntry
    <3>. QED
      BY <3>3, Zenon DEF PostEntry
  <2>5. UNION {f.lines : f \in Entries(p, "post")} = PostLines(p)
    BY <2>3, <2>4, Zenon
  <2>6. GetJournalEntry(p) = SettlementLines(Amount[p])
    BY <2>5, RoundTrip, Zenon DEF GetJournalEntry, PostLines
  <2>7. c \in Reversals => reversed[p]
    BY <2>1, Zenon DEF Inv, JournalInv
  <2>. QED
    BY <2>3, <2>6, <2>7, FS_Singleton, Zenon
<1>. QED
  BY <1>1, Invariance, PTL

\* withSerializable gives up only when at least MaxAttempts other writers got
\* through, and PostDoubleEntry refuses the orchestrator's lines of no amount but
\* one penny.
THEOREM FailuresAreExplained == Spec => []FailuresHaveCauses
<1>1. Inv => FailuresHaveCauses
  <2>1. ASSUME Inv, NEW c \in Calls, phase[c] = "conflict" PROVE writes >= MaxAttempts
    <3>1. attempts[c] \in Nat /\ writes \in Nat /\ attempts[c] <= writes
             /\ attempts[c] >= MaxAttempts
      BY <2>1, Zenon DEF Inv, TypeOK, CallInv
    <3>. QED
      BY <3>1, SMTT(30)
  <2>. QED
    BY <2>1, Zenon DEF Inv, CallInv, FailuresHaveCauses
<1>. QED
  BY <1>1, Invariance, PTL
=============================================================================
