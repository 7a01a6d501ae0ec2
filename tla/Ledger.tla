------------------------------- MODULE Ledger -------------------------------
(***************************************************************************)
(* The journal of ledger-svc: PostDoubleEntry and ReverseEntry called      *)
(* concurrently, each in a SERIALIZABLE transaction that withSerializable  *)
(* repeats, and the lines the orchestrator posts for an amount.            *)
(*                                                                         *)
(* A journal entry has a payment_id, the payment's or the one of its       *)
(* reversal, and its lines.  A transaction works on what it saw when it    *)
(* began.  Every writer updates the account row of the platform            *)
(* (ensureAccount), so that of writers that overlap the first to commit    *)
(* wins and the others fail: with a serialization failure or, when it      *)
(* inserted the same payment_id, perhaps with a unique violation, after    *)
(* which the aborted transaction answers nothing.                          *)
(***************************************************************************)
EXTENDS Conversions, Integers, FiniteSets

CONSTANTS
    Payments,
    Amount,         \* Amount[p]: pence, positive (validateInitiate)
    Posts, Reversals,   \* the calls
    PaymentOf,      \* PaymentOf[c]: the payment of a call
    MaxAttempts,    \* 5 in the code
    MaxAborts       \* bound on lost connections

Calls == Posts \union Reversals

ASSUME LedgerAssumption ==
    /\ Amount \in [Payments -> Nat \ {0}]
    /\ PaymentOf \in [Calls -> Payments]
    /\ Posts \intersect Reversals = {}
    /\ MaxAttempts \in Nat \ {0}
    /\ MaxAborts \in Nat

VARIABLES
    journal,            \* the entries, with the transaction that wrote them
    reversed,           \* reversed[p]: the flag of p's entry
    phase, attempts,    \* a call's progress
    seen,               \* its snapshot
    writes,             \* the number of writing transactions committed
    aborts

vars == <<journal, reversed, phase, attempts, seen, writes, aborts>>
tables == <<journal, reversed, writes>>

Replies == {"ok", "refused", "notFound", "conflict", "error"}

Init ==
    /\ journal = {}
    /\ reversed = [p \in Payments |-> FALSE]
    /\ phase = [c \in Calls |-> "start"]
    /\ attempts = [c \in Calls |-> 0]
    /\ seen = [c \in Calls |-> [posted |-> FALSE, undone |-> FALSE, writes |-> 0]]
    /\ writes = 0
    /\ aborts = 0

-----------------------------------------------------------------------------
\* 1%, at least a penny, at most the amount.
platformFee(a) ==
    LET fee == (a * 100) \div 10000
        least == IF fee < 1 THEN 1 ELSE fee
    IN  IF least > a THEN a ELSE least

Line(type, dir, pence) == [type |-> type, dir |-> dir, pence |-> pence]

\* The lines the orchestrator sends for a settlement; there are one consumer, one
\* merchant and the platform, so that a type is an account.
SettlementLines(a) ==
    {Line(AccountType.CONSUMER_ESCROW, Direction.DR, a),
     Line(AccountType.MERCHANT_ESCROW, Direction.CR, a - platformFee(a)),
     Line(AccountType.PLATFORM_FEE, Direction.CR, platformFee(a))}

\* The server's lines, as the tables hold them and as they are returned.
FromRequest(lines) ==
    {Line(accountTypeToDB(l.type), directionToDB(l.dir), l.pence) : l \in lines}
ToResponse(lines) ==
    {Line(accountTypeFromDB(l.type), directionFromDB(l.dir), l.pence) : l \in lines}

\* SUM over a set of pairs <<x, pence>>, as the number of their pence, which
\* can be reasoned about without induction.
Sum(S) == Cardinality(UNION {{s} \X (1..s[2]) : s \in S})

Total(lines) == Sum({<<l, l.pence>> : l \in lines})

\* PostDoubleEntry's checks, which the trigger of journal_line repeats.
Valid(lines) ==
    /\ \A l \in lines : l.pence > 0
    /\ Total({l \in lines : l.dir = "DR"}) = Total({l \in lines : l.dir = "CR"})

Entries(p, kind) == {e \in journal : e.payment = p /\ e.kind = kind}
Posted(p) == Entries(p, "post") # {}
Undone(p) == Entries(p, "rev") # {}

\* The INSERTs of an entry and of its lines.
Insert(p, kind, lines) ==
    /\ journal' = journal \union {[tx |-> writes + 1, payment |-> p, kind |-> kind, lines |-> lines]}
    /\ writes' = writes + 1

Begin(c) ==
    LET p == PaymentOf[c] IN
    /\ phase[c] = "start"
    /\ IF c \in Posts /\ ~ Valid(FromRequest(SettlementLines(Amount[p])))
       THEN phase' = [phase EXCEPT ![c] = "refused"] /\ UNCHANGED <<seen, attempts>>
       ELSE /\ phase' = [phase EXCEPT ![c] = "tx"]
            /\ seen' = [seen EXCEPT ![c] =
                  [posted |-> Posted(p), undone |-> Undone(p), writes |-> writes]]
            /\ attempts' = [attempts EXCEPT ![c] = @ + 1]
    /\ UNCHANGED <<tables, aborts>>

\* Another writer has committed since; MUTANT: READ COMMITTED and no unique
\* payment_id.
OvertakenUnseen(c) == FALSE
Overtaken(c) == seen[c].writes # writes

Answer(c, r) ==
    /\ phase' = [phase EXCEPT ![c] = r]
    /\ UNCHANGED <<tables, attempts, seen, aborts>>

\* withSerializable's maxAttempts; MUTANT: off by one.
MayRetryOnceLess(c) == attempts[c] + 1 < MaxAttempts
MayRetry(c) == attempts[c] < MaxAttempts

\* A serialization failure is tried again, a unique violation is not.
Collide(c) ==
    \/ MayRetry(c) /\ Answer(c, "start")
    \/ ~MayRetry(c) /\ Answer(c, "conflict")
    \/ /\ seen[c].posted # Posted(PaymentOf[c]) \/ seen[c].undone # Undone(PaymentOf[c])
       /\ Answer(c, "error")

\* An entry that exists is returned, reversed or not.
PostDoubleEntry(c) ==
    LET p == PaymentOf[c] IN
    /\ c \in Posts
    /\ phase[c] = "tx"
    /\ IF seen[c].posted THEN Answer(c, "ok")
       ELSE IF Overtaken(c) THEN Collide(c)
       ELSE /\ Insert(p, "post", FromRequest(SettlementLines(Amount[p])))
            /\ phase' = [phase EXCEPT ![c] = "ok"]
            /\ UNCHANGED <<reversed, attempts, seen, aborts>>

\* The direction of a reversing line; MUTANT: that of the line.
OppositeKept(dir) == dir
Opposite(dir) == IF dir = "CR" THEN "DR" ELSE "CR"

\* The reversing entry and the flag of the reversed one, in one transaction.
ReverseEntry(c) ==
    LET p == PaymentOf[c] IN
    /\ c \in Reversals
    /\ phase[c] = "tx"
    /\ IF ~ seen[c].posted THEN Answer(c, "notFound")
       ELSE IF seen[c].undone THEN Answer(c, "ok")
       ELSE IF Overtaken(c) THEN Collide(c)
       ELSE /\ \E e \in Entries(p, "post") :
                  Insert(p, "rev", {[l EXCEPT !.dir = Opposite(l.dir)] : l \in e.lines})
            /\ reversed' = [reversed EXCEPT ![p] = TRUE]
            /\ phase' = [phase EXCEPT ![c] = "ok"]
            /\ UNCHANGED <<attempts, seen, aborts>>

\* The queries: an account's credits less its debits, and a payment's lines.
LinesOf(e, type, dir) == {l \in e.lines : l.type = accountTypeToDB(type) /\ l.dir = dir}
Booked(type, dir) ==
    Sum(UNION {{<<<<e, l>>, l.pence>> : l \in LinesOf(e, type, dir)} : e \in journal})
GetBalance(type) == Booked(type, "CR") - Booked(type, "DR")

GetJournalEntry(p) == ToResponse(UNION {e.lines : e \in Entries(p, "post")})

\* The connection is lost and the transaction rolled back.
Abort(c) ==
    /\ phase[c] = "tx"
    /\ aborts < MaxAborts
    /\ aborts' = aborts + 1
    /\ phase' = [phase EXCEPT ![c] = "error"]
    /\ UNCHANGED <<tables, attempts, seen>>

\* Every call has its reply.
Quiescent ==
    /\ \A c \in Calls : phase[c] \in Replies
    /\ UNCHANGED vars

Next ==
    \/ \E c \in Calls : Begin(c) \/ PostDoubleEntry(c) \/ ReverseEntry(c) \/ Abort(c)
    \/ Quiescent

Spec == Init /\ [][Next]_vars

-----------------------------------------------------------------------------
\* GetBalance: however often and however concurrently entries are posted and
\* reversed, the accounts hold what the payments that are posted and not flagged
\* as reversed have moved, each counted once, and together nothing.
Standing == {p \in Payments : Posted(p) /\ ~ reversed[p]}
Moved(type) ==
    Sum({<<p, Total({l \in SettlementLines(Amount[p]) : l.type = type})>> : p \in Standing})
BalancesAddUp ==
    /\ GetBalance(AccountType.CONSUMER_ESCROW) = 0 - Moved(AccountType.CONSUMER_ESCROW)
    /\ GetBalance(AccountType.MERCHANT_ESCROW) = Moved(AccountType.MERCHANT_ESCROW)
    /\ GetBalance(AccountType.PLATFORM_FEE) = Moved(AccountType.PLATFORM_FEE)
    /\ GetBalance(AccountType.CONSUMER_ESCROW) + GetBalance(AccountType.MERCHANT_ESCROW)
         + GetBalance(AccountType.PLATFORM_FEE) = 0

\* A call that answers "ok" has been carried out: its payment has one entry, which
\* GetJournalEntry returns as it was asked for, and after a reversal the merchant
\* holds none of it, whatever is posted again.
OkIsDone ==
    \A c \in Calls : phase[c] = "ok" =>
        /\ Cardinality(Entries(PaymentOf[c], "post")) = 1
        /\ GetJournalEntry(PaymentOf[c]) = SettlementLines(Amount[PaymentOf[c]])
        /\ c \in Reversals => reversed[PaymentOf[c]]

\* A call fails for a reason: withSerializable gives up only under contention,
\* when every failed attempt is due to another writer that got through, and the
\* lines of every amount the orchestrator accepts are accepted, but for those of
\* one penny, whose fee leaves nothing for the merchant.
FailuresHaveCauses ==
    \A c \in Calls :
        /\ phase[c] = "conflict" => writes >= MaxAttempts
        /\ phase[c] = "refused" => Amount[PaymentOf[c]] = 1
=============================================================================
