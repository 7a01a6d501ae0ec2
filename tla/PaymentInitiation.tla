-------------------------- MODULE PaymentInitiation --------------------------
(***************************************************************************)
(* Orchestrator.Initiate for one idempotency key: several requests with    *)
(* the same key, the key in Redis (idempotency.Store), the unique          *)
(* idempotency_key of the payment table, crashes of payment-svc and the    *)
(* ReconciliationWorker.  The saga is one step here; PaymentSaga has its   *)
(* steps.                                                                  *)
(*                                                                         *)
(* A request that wins the key makes up a payment id; it is modelled by    *)
(* the request itself.  Redis and the database answer an operation, fail   *)
(* it, or carry it out and lose the answer; "loss" is a Redis that forgets *)
(* the key (a failover), "crash" the death of payment-svc.                 *)
(***************************************************************************)
EXTENDS Naturals

CONSTANTS
    Requests,       \* requests with the same key
    FaultKinds,     \* of "fail", "lost", "partial", "loss", "crash"
    MaxFaults,
    Nil             \* no key, no row

ASSUME InitiationAssumption ==
    /\ MaxFaults \in Nat
    /\ Requests \intersect {Nil, "PROCESSING", "error", "conflict"} = {}
    /\ Nil # "PROCESSING"

VARIABLES
    redis,          \* Nil, "PROCESSING" or the id of a payment
    row,            \* the id of the payment row with this key
    terminal,       \* the row's status is SETTLED, FAILED or MANUAL_REVIEW
    pc,             \* where a request is
    reply,          \* what it was told: a payment id, "error", "conflict"
    ran,            \* the requests whose saga was started
    faults,
    forgot          \* history: Redis has forgotten a key before its time

vars == <<redis, row, terminal, pc, reply, ran, faults, forgot>>

Init ==
    /\ redis = Nil
    /\ row = Nil
    /\ terminal = FALSE
    /\ pc = [r \in Requests |-> "start"]
    /\ reply = [r \in Requests |-> Nil]
    /\ ran = {}
    /\ faults = 0
    /\ forgot = FALSE

-----------------------------------------------------------------------------
Fault(k) ==
    /\ k \in FaultKinds
    /\ faults < MaxFaults
    /\ faults' = faults + 1

Answer(o) == IF o = "ok" THEN UNCHANGED faults ELSE Fault(o)

Goto(r, place) == pc' = [pc EXCEPT ![r] = place]

Return(r, what) ==
    /\ Goto(r, "done")
    /\ reply' = [reply EXCEPT ![r] = what]

\* SET key PROCESSING NX; MUTANT: without NX.
SetAlways == TRUE
SetNX == redis = Nil

\* One SET NX of Begin: the request owns the key when it hears so.  An error
\* is treated like a key that exists.
Claim(r, place, next) ==
    /\ pc[r] = place
    /\ \E o \in {"ok", "fail", "lost"} :
        /\ Answer(o)
        /\ redis' = IF o # "fail" /\ SetNX THEN "PROCESSING" ELSE redis
        /\ Goto(r, IF o = "ok" /\ SetNX THEN "create" ELSE next)
    /\ UNCHANGED <<row, terminal, reply, ran, forgot>>

\* One GET of Begin; a missing key leads to missing.
Look(r, place, missing) ==
    /\ pc[r] = place
    /\ \/ Fault("fail") /\ Return(r, "error")
       \/ redis = Nil /\ missing = "done" /\ Return(r, "error") /\ UNCHANGED faults
       \/ redis = Nil /\ missing # "done" /\ Goto(r, missing) /\ UNCHANGED <<reply, faults>>
       \/ redis = "PROCESSING" /\ Goto(r, "wait") /\ UNCHANGED <<reply, faults>>
       \/ redis \in Requests /\ Return(r, redis) /\ UNCHANGED faults
    /\ UNCHANGED <<redis, row, terminal, ran, forgot>>

\* Begin: SET NX, GET, and both once more when the key was gone by then.
Begin(r) ==
    \/ Claim(r, "start", "get")
    \/ Look(r, "get", "setnx")
    \/ Claim(r, "setnx", "getAgain")
    \/ Look(r, "getAgain", "done")

\* The unique idempotency_key; MUTANT: no constraint.
KeyUnusedUnchecked == TRUE
KeyUnused == row = Nil

\* CreatePayment: INSERT, then the event.  A request whose merchant or consent
\* id does not parse gives the key back before, one whose insert fails after.
CreatePayment(r) ==
    /\ pc[r] = "create"
    /\ \/ /\ KeyUnused
          /\ \E o \in {"ok", "partial"} :
              /\ Answer(o)
              /\ Goto(r, IF o = "ok" THEN "saga" ELSE "release")
              /\ ran' = IF o = "ok" THEN ran \union {r} ELSE ran
          /\ row' = r
       \/ /\ ~KeyUnused
          /\ Goto(r, "releaseDuplicate")
          /\ UNCHANGED <<row, ran, faults>>
       \/ /\ UNCHANGED faults \/ Fault("fail")
          /\ Goto(r, "release")
          /\ UNCHANGED <<row, ran>>
    /\ UNCHANGED <<redis, terminal, reply, forgot>>

\* runSaga: the row is terminal afterwards, unless the last write failed.
RunSaga(r) ==
    /\ pc[r] = "saga"
    /\ \E o \in {"ok", "fail"} :
        /\ Answer(o)
        /\ terminal' = (o = "ok")
    /\ Goto(r, "complete")
    /\ UNCHANGED <<redis, row, reply, ran, forgot>>

\* The id Complete stores for a request that found a row; MUTANT: its own.
ExistingIdOwn(r) == r
ExistingId(r) == row

\* What Complete stores after the saga, the payment id.
CompletedId(r) == r

\* Complete after the saga, its error only logged; then GetByID.  The handler
\* turns a payment that is not terminal into the saga's error.
Complete(r) ==
    /\ pc[r] = "complete"
    /\ \E o \in {"ok", "fail"} :
        /\ Answer(o)
        /\ redis' = IF o = "ok" THEN CompletedId(r) ELSE redis
    /\ Return(r, IF terminal THEN r ELSE "error")
    /\ UNCHANGED <<row, terminal, ran, forgot>>

\* Release after a failed insert.
Release(r) ==
    /\ pc[r] = "release"
    /\ \E o \in {"ok", "fail"} :
        /\ Answer(o)
        /\ redis' = IF o = "ok" THEN Nil ELSE redis
    /\ Return(r, "error")
    /\ UNCHANGED <<row, terminal, ran, forgot>>

\* Release after a duplicate insert; the row is looked up next.
ReleaseDuplicate(r) ==
    /\ pc[r] = "releaseDuplicate"
    /\ \E o \in {"ok", "fail"} :
        /\ Answer(o)
        /\ redis' = IF o = "ok" THEN Nil ELSE redis
    /\ Goto(r, "lookup")
    /\ UNCHANGED <<row, terminal, reply, ran, forgot>>

LookupExisting(r) ==
    /\ pc[r] = "lookup"
    /\ \E o \in {"ok", "fail"} :
        /\ Answer(o)
        /\ IF o = "ok" THEN Goto(r, "completeExisting") /\ UNCHANGED reply
                       ELSE Return(r, "error")
    /\ UNCHANGED <<redis, row, terminal, ran, forgot>>

CompleteExisting(r) ==
    /\ pc[r] = "completeExisting"
    /\ \E o \in {"ok", "fail"} :
        /\ Answer(o)
        /\ redis' = IF o = "ok" THEN ExistingId(r) ELSE redis
    /\ Return(r, ExistingId(r))
    /\ UNCHANGED <<row, terminal, ran, forgot>>

\* What ends the polling without a payment id: the key is gone, or the deadline
\* passes; MUTANT: no deadline.
WaitIsOverWhenGone == redis = Nil
WaitIsOver == redis \in {Nil, "PROCESSING"}

\* One poll of WaitForCompletion.  Staying here is the next poll; the deadline
\* may pass at any of them.
WaitForCompletion(r) ==
    /\ pc[r] = "wait"
    /\ \/ redis \in Requests /\ Return(r, redis) /\ UNCHANGED faults
       \/ WaitIsOver /\ Goto(r, "fallback") /\ UNCHANGED <<reply, faults>>
       \/ Fault("fail") /\ Return(r, "error")
    /\ UNCHANGED <<redis, row, terminal, ran, forgot>>

\* GetByIdempotencyKey, or "payment still processing".
Fallback(r) ==
    /\ pc[r] = "fallback"
    /\ \/ UNCHANGED faults /\ Return(r, IF row = Nil THEN "conflict" ELSE row)
       \/ Fault("fail") /\ Return(r, "conflict")
    /\ UNCHANGED <<redis, row, terminal, ran, forgot>>

-----------------------------------------------------------------------------
\* The requests that hold the key.
Owners == {r \in Requests : pc[r] \in {"create", "saga", "complete", "release",
                                       "releaseDuplicate"}}

\* The 24h TTL: long after the death of an owner.
KeyExpires ==
    /\ redis # Nil
    /\ Owners = {}
    /\ redis' = Nil
    /\ UNCHANGED <<row, terminal, pc, reply, ran, faults, forgot>>

RedisLosesKey ==
    /\ redis # Nil
    /\ Fault("loss")
    /\ redis' = Nil
    /\ forgot' = TRUE
    /\ UNCHANGED <<row, terminal, pc, reply, ran>>

\* The process dies; every request in it gets an error.
Crash ==
    /\ \E r \in Requests : pc[r] \notin {"start", "done"}
    /\ Fault("crash")
    /\ pc' = [r \in Requests |-> IF pc[r] = "start" THEN "start" ELSE "done"]
    /\ reply' = [r \in Requests |-> IF pc[r] \in {"start", "done"} THEN reply[r] ELSE "error"]
    /\ UNCHANGED <<redis, row, terminal, ran, forgot>>

\* The worker ends a payment whose saga is gone.  Only ResumeFromLedger
\* completes the key, CompensateStale does not.
Reconcile ==
    /\ row # Nil
    /\ ~terminal
    /\ pc[row] # "saga"
    /\ terminal' = TRUE
    /\ redis' \in {row, redis}
    /\ UNCHANGED <<row, pc, reply, ran, faults, forgot>>

\* Every request has been answered.
Quiescent ==
    /\ \A r \in Requests : pc[r] = "done"
    /\ UNCHANGED vars

Serve(r) ==
    \/ Begin(r) \/ CreatePayment(r) \/ RunSaga(r) \/ Complete(r)
    \/ Release(r) \/ ReleaseDuplicate(r) \/ LookupExisting(r) \/ CompleteExisting(r)
    \/ WaitForCompletion(r) \/ Fallback(r)

Next ==
    \/ \E r \in Requests : Serve(r)
    \/ KeyExpires
    \/ RedisLosesKey
    \/ Crash
    \/ Reconcile
    \/ Quiescent

Spec == Init /\ [][Next]_vars

\* A request in progress goes on: Redis and the database answer or fail, and
\* the 5 seconds of WaitForCompletion pass.
FairSpec == Spec /\ \A r \in Requests : WF_vars(Serve(r))

-----------------------------------------------------------------------------
\* Initiate: one saga is started per idempotency key, whatever happens to the
\* key in Redis.
OneSagaPerKey == \A r, s \in ran : r = s

\* Whoever is answered with a payment, by the saga, by Redis or by a lookup, is
\* answered with the payment that has the row.
AnswersNameTheRow ==
    /\ redis \in Requests => redis = row
    /\ \A r \in Requests : reply[r] \in Requests => reply[r] = row

\* A key that names a payment names one whose saga is over, so that a repeated
\* request is shown a result and not a payment on its way; unless the key was
\* forgotten, and a second request found the row of a saga that runs.
CompletedIsOver == ~forgot /\ redis \in Requests => pc[redis] # "saga"

\* A request never waits for good behind an owner that died.
EveryRequestIsAnswered == \A r \in Requests : pc[r] # "start" ~> pc[r] = "done"
=============================================================================
