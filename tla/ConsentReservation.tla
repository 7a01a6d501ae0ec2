------------------------- MODULE ConsentReservation -------------------------
(***************************************************************************)
(* The consent service's limit enforcement, for one consent: the           *)
(* transactions of ValidateAndReserve, ConfirmReservation,                 *)
(* ReleaseReservation and RevokeConsent on the consent row, its            *)
(* reservations and its usage rows.                                        *)
(*                                                                         *)
(* A ValidateAndReserve transaction is several steps, because its NOW() is *)
(* fixed when it begins, it may wait for the consent row, and others run   *)
(* meanwhile.  Row locks are PostgreSQL's: SELECT ... FOR UPDATE on the    *)
(* consent row excludes other reservations, the UPDATE of RevokeConsent    *)
(* and, through the foreign key of consent_usage, the insert of a usage    *)
(* row.  Each statement reads the rows committed before it.                *)
(*                                                                         *)
(* Time is counted in steps of Tick; Hold stands for 10 minutes, Window    *)
(* for 30 days.                                                            *)
(***************************************************************************)
EXTENDS Integers, FiniteSets

CONSTANTS
    Payments,       \* payments on this consent
    Amount,         \* Amount[p]: pence
    Calls,          \* ValidateAndReserve requests
    PaymentOf,      \* PaymentOf[c]: the payment a request is for
    Mismatch,       \* the requests that name another currency
    MaxAmount, MaxMonthly, ValidUntil,      \* the consent's columns
    Hold, Window,
    MaxTime, MaxAborts,                     \* bounds
    NoCall

ASSUME ConsentAssumption ==
    /\ IsFiniteSet(Payments)
    /\ Amount \in [Payments -> Nat \ {0}]
    /\ PaymentOf \in [Calls -> Payments]
    /\ MaxMonthly \in Nat /\ Hold \in Nat /\ Window \in Nat
    /\ MaxTime \in Nat /\ MaxAborts \in Nat
    /\ NoCall \notin Calls

VARIABLES
    now,
    status,         \* of the consent: ACTIVE or REVOKED
    res, expires,   \* the reservation rows
    settledAt,      \* the usage rows: settled_at, or -1 when there is none
    locker,         \* the transaction that holds the consent row
    phase, began,   \* a request's progress, its NOW()
    confirming,     \* NOW() of an open ConfirmReservation, or -1
    aborts,
    late            \* history: payments confirmed after their hold had expired

callVars == <<phase, began, locker>>
rowVars == <<res, expires, settledAt>>
vars == <<now, status, res, expires, settledAt, locker, phase, began,
          confirming, aborts, late>>

Replies == {"ok", "refused", "error"}

Init ==
    /\ now = 0
    /\ status = "ACTIVE"
    /\ res = [p \in Payments |-> "none"]
    /\ expires = [p \in Payments |-> 0]
    /\ settledAt = [p \in Payments |-> -1]
    /\ locker = NoCall
    /\ phase = [c \in Calls |-> "start"]
    /\ began = [c \in Calls |-> 0]
    /\ confirming = [p \in Payments |-> -1]
    /\ aborts = 0
    /\ late = {}

-----------------------------------------------------------------------------
\* SUM(amount_pence) over a set of payments, as the number of their pence.
Pence(S) == UNION {{p} \X (1..Amount[p]) : p \in S}
Sum(S) == Cardinality(Pence(S))

\* The payments RollingUsage counts at time t: usage rows of the window, and
\* HELD reservations that have not expired.
Counted(t) ==
    {p \in Payments : \/ settledAt[p] # -1 /\ settledAt[p] > t - Window
                      \/ res[p] = "HELD" /\ expires[p] > t}

\* The transaction of c ends, with the reply r.
Reply(c, r) ==
    /\ phase' = [phase EXCEPT ![c] = r]
    /\ began' = [began EXCEPT ![c] = 0]

\* BEGIN, and the lookup by payment_id.
BeginReserve(c) ==
    /\ phase[c] = "start"
    /\ began' = [began EXCEPT ![c] = now]
    /\ phase' = [phase EXCEPT ![c] = IF res[PaymentOf[c]] = "none" THEN "lock"
                                                                   ELSE "existing"]
    /\ UNCHANGED <<now, status, rowVars, locker, confirming, aborts, late>>

\* LockConsent has to wait for another transaction that holds the row; MUTANT:
\* a SELECT without FOR UPDATE.
RowFreeUnlocked == TRUE
RowFree == locker = NoCall

\* The answer for a payment that has a reservation, whatever its status.
ReturnExisting(c) ==
    /\ phase[c] = "existing"
    /\ RowFree
    /\ Reply(c, "ok")
    /\ UNCHANGED <<now, status, rowVars, locker, confirming, aborts, late>>

\* The consent's refusals: revoked, expired, another currency, amount.
Refused(c) ==
    \/ status = "REVOKED"
    \/ ~(ValidUntil > now)
    \/ c \in Mismatch
    \/ Amount[PaymentOf[c]] > MaxAmount

\* A refusal rolls back; MUTANT: the request tries again.
RefuseAndRetry(c) ==
    /\ phase' = [phase EXCEPT ![c] = "lock"]
    /\ locker' = NoCall
    /\ UNCHANGED began
Refuse(c) ==
    /\ Reply(c, "refused")
    /\ locker' = NoCall

LockConsent(c) ==
    /\ phase[c] = "lock"
    /\ RowFree
    /\ IF Refused(c)
       THEN Refuse(c)
       ELSE /\ phase' = [phase EXCEPT ![c] = "sum"]
            /\ locker' = c
            /\ UNCHANGED began
    /\ UNCHANGED <<now, status, rowVars, confirming, aborts, late>>

RollingUsage(c) ==
    /\ phase[c] = "sum"
    /\ IF Sum(Counted(began[c])) + Amount[PaymentOf[c]] > MaxMonthly
       THEN Refuse(c)
       ELSE /\ phase' = [phase EXCEPT ![c] = "insert"]
            /\ UNCHANGED <<began, locker>>
    /\ UNCHANGED <<now, status, rowVars, confirming, aborts, late>>

\* expires_at, NOW() plus the hold.
HoldUntil(c) == began[c] + Hold

\* INSERT and COMMIT.  A row that a concurrent request for the same payment has
\* inserted is a unique violation, after which the code reads again.
InsertReservation(c) ==
    LET p == PaymentOf[c] IN
    /\ phase[c] = "insert"
    /\ IF res[p] = "none"
       THEN /\ res' = [res EXCEPT ![p] = "HELD"]
            /\ expires' = [expires EXCEPT ![p] = HoldUntil(c)]
            /\ Reply(c, "ok")
            /\ locker' = NoCall
       ELSE /\ phase' = [phase EXCEPT ![c] = "reread"]
            /\ UNCHANGED <<res, expires, began, locker>>
    /\ UNCHANGED <<now, status, settledAt, confirming, aborts, late>>

\* The second lookup runs in the transaction the violation has aborted, where
\* PostgreSQL refuses every statement.
RereadReservation(c) ==
    /\ phase[c] = "reread"
    /\ Reply(c, "error")
    /\ locker' = NoCall
    /\ UNCHANGED <<now, status, rowVars, confirming, aborts, late>>

\* The caller goes away or the connection is lost: rollback.
AbortReserve(c) ==
    /\ phase[c] \in {"existing", "lock", "sum", "insert"}
    /\ aborts < MaxAborts
    /\ aborts' = aborts + 1
    /\ Reply(c, "error")
    /\ locker' = IF locker = c THEN NoCall ELSE locker
    /\ UNCHANGED <<now, status, rowVars, confirming, late>>

\* BEGIN and GetReservation ... FOR UPDATE.  Nothing looks at expires_at.  A
\* reservation already CONFIRMED or RELEASED changes nothing.
BeginConfirm(p) ==
    /\ res[p] = "HELD"
    /\ confirming[p] = -1
    /\ confirming' = [confirming EXCEPT ![p] = now]
    /\ UNCHANGED <<now, status, rowVars, callVars, aborts, late>>

\* The usage row's settled_at, DEFAULT NOW().
UsageTime(p) == confirming[p]

\* The UPDATE, the usage row (whose foreign key needs the consent row) and
\* COMMIT.
ConfirmReservation(p) ==
    /\ confirming[p] # -1
    /\ RowFree
    /\ res' = [res EXCEPT ![p] = "CONFIRMED"]
    /\ settledAt' = [settledAt EXCEPT ![p] = UsageTime(p)]
    /\ confirming' = [confirming EXCEPT ![p] = -1]
    /\ late' = IF expires[p] > now THEN late ELSE late \union {p}
    /\ UNCHANGED <<now, status, expires, callVars, aborts>>

AbortConfirm(p) ==
    /\ confirming[p] # -1
    /\ aborts < MaxAborts
    /\ aborts' = aborts + 1
    /\ confirming' = [confirming EXCEPT ![p] = -1]
    /\ UNCHANGED <<now, status, rowVars, callVars, late>>

ReleaseReservation(p) ==
    /\ res[p] = "HELD"
    /\ confirming[p] = -1
    /\ res' = [res EXCEPT ![p] = "RELEASED"]
    /\ UNCHANGED <<now, status, expires, settledAt, callVars, confirming, aborts, late>>

\* When the UPDATE of RevokeConsent may run; MUTANT: without waiting.
RevokeMayRunAnytime == TRUE
RevokeMayRun == RowFree

RevokeConsent ==
    /\ status = "ACTIVE"
    /\ RevokeMayRun
    /\ status' = "REVOKED"
    /\ UNCHANGED <<now, rowVars, callVars, confirming, aborts, late>>

\* The queries of GetRollingUsage, outside of any transaction and without a lock.
TxCountThisMonth == Cardinality({p \in Payments : settledAt[p] # -1 /\ settledAt[p] > now - Window})
GetRollingUsage ==
    LET used == Sum(Counted(now)) IN
    [used |-> used,
     remaining |-> IF used > MaxMonthly THEN 0 ELSE MaxMonthly - used,
     txCount |-> TxCountThisMonth]

Tick ==
    /\ now < MaxTime
    /\ now' = now + 1
    /\ UNCHANGED <<status, rowVars, callVars, confirming, aborts, late>>

\* Every request has its reply.
Quiescent ==
    /\ \A c \in Calls : phase[c] \in Replies
    /\ UNCHANGED vars

Request(c) ==
    \/ BeginReserve(c) \/ ReturnExisting(c) \/ LockConsent(c) \/ RollingUsage(c)
    \/ InsertReservation(c) \/ RereadReservation(c)

Next ==
    \/ \E c \in Calls : Request(c) \/ AbortReserve(c)
    \/ \E p \in Payments : BeginConfirm(p) \/ ConfirmReservation(p) \/ AbortConfirm(p)
                           \/ ReleaseReservation(p)
    \/ RevokeConsent
    \/ Tick
    \/ Quiescent

Spec == Init /\ [][Next]_vars

\* The database executes the statements of an open transaction and hands a
\* free row lock to those who wait.
Fairness ==
    /\ \A c \in Calls : WF_vars(Request(c))
    /\ \A p \in Payments : WF_vars(ConfirmReservation(p))

FairSpec == Spec /\ Fairness

-----------------------------------------------------------------------------
\* What the consumer has spent in the last Window, or may yet: confirmed
\* payments, whatever the usage rows say, and holds that have not expired.
Spent ==
    {p \in Payments : \/ res[p] = "CONFIRMED" /\ ~(settledAt[p] \in 0..(now - Window))
                      \/ res[p] = "HELD" /\ expires[p] > now}

\* ValidateAndReserve under the row lock, with the usage rows that
\* ConfirmReservation writes: whatever transactions overlap, what is spent stays
\* within max_monthly_pence, as far as no hold is confirmed after it expired, and
\* GetRollingUsage never promises a part of the limit that is spent already.
WithinMonthlyLimit ==
    /\ Sum(Spent \ late) <= MaxMonthly
    /\ GetRollingUsage.remaining > 0 => Sum(Spent) + GetRollingUsage.remaining <= MaxMonthly
    /\ GetRollingUsage.txCount <= Cardinality(Spent)

\* RevokeConsent: once it has committed no reservation is made, not even by a
\* request that had begun before.
RevokedAdmitsNothing ==
    [][\A p \in Payments : res[p] = "none" /\ res'[p] # "none" => status = "ACTIVE"]_vars

\* Every ValidateAndReserve gets a reply: no transaction keeps the consent row
\* and the requests behind it waiting.
EveryRequestIsAnswered ==
    \A c \in Calls : phase[c] # "start" ~> phase[c] \in Replies
=============================================================================
