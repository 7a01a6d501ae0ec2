----------------------------- MODULE RiskEngine -----------------------------
(***************************************************************************)
(* Engine.Score of risk-svc for concurrent requests of one consumer: the   *)
(* blocklist's lookups, the high value rule, the velocity counter and the  *)
(* merging of their results, while the blocklist is edited.  Each Redis    *)
(* command is a step; it may fail, or be carried out and its answer lost.  *)
(***************************************************************************)
EXTENDS Conversions, Integers, FiniteSets, SequencesExt

CONSTANTS
    Requests,
    High,           \* the requests above highValuePence
    NoIP,           \* the requests without an IP address
    Threshold,      \* velocityThreshold, 5 in the code
    MaxFaults, MaxEdits

ASSUME RiskAssumption ==
    /\ High \subseteq Requests
    /\ NoIP \subseteq Requests
    /\ Threshold \in Nat
    /\ MaxFaults \in Nat /\ MaxEdits \in Nat

VARIABLES
    blocked,        \* the keys with a blocklist entry
    count, ttl,     \* the velocity counter, and whether it expires
    pc,             \* where a request is
    n,              \* what INCR told it
    reply,          \* its score and decision, as they are sent
    faults, edits,
    barred,         \* history: its keys listed since before it began
    passed,         \* history: the requests the window's counter let pass
    immortal        \* history: the counter's EXPIRE failed or was never sent

vars == <<blocked, count, ttl, pc, n, reply, faults, edits, barred, passed, immortal>>
counter == <<count, ttl, passed, immortal>>

Keys == {"consumer", "merchant", "ip"}
Types == {"CONSUMER", "MERCHANT", "IP", "DEVICE"}
NoReply == [score |-> 0, decision |-> RiskDecision.RISK_DECISION_UNSPECIFIED]

Init ==
    /\ blocked = {}
    /\ count = 0 /\ ttl = FALSE
    /\ pc = [r \in Requests |-> "start"]
    /\ n = [r \in Requests |-> 0]
    /\ reply = [r \in Requests |-> NoReply]
    /\ faults = 0 /\ edits = 0
    /\ barred = [r \in Requests |-> {}]
    /\ passed = {}
    /\ immortal = FALSE

-----------------------------------------------------------------------------
Answer(o) ==
    IF o = "ok" THEN UNCHANGED faults
    ELSE faults < MaxFaults /\ faults' = faults + 1

severity(d) == CASE d = "DECLINE" -> 3 [] d = "REVIEW" -> 2 [] d = "ALLOW" -> 1

\* maxScore.
Cap(s) == IF s > 100 THEN 100 ELSE s

\* The worst decision and the sum of the scores.
mergeResults(results) ==
    LET worse(d, r) == IF severity(r.decision) > severity(d) THEN r.decision ELSE d
        add(s, r) == s + r.score
    IN  [score |-> Cap(FoldLeft(add, 0, results)),
         decision |-> FoldLeft(worse, "ALLOW", results)]

\* The results of the rules, in the engine's order.
Blocklist(hit) == IF hit THEN <<[score |-> 100, decision |-> "DECLINE"]>> ELSE <<>>
HighValue(r) == IF r \in High THEN <<[score |-> 30, decision |-> "REVIEW"]>> ELSE <<>>

\* n > velocityThreshold; MUTANT: one more.
ExceededOffByOne(k) == k > Threshold + 1
Exceeded(k) == k > Threshold

Velocity(k) == IF Exceeded(k) THEN <<[score |-> 40, decision |-> "REVIEW"]>> ELSE <<>>

Return(r, result) ==
    /\ pc' = [pc EXCEPT ![r] = "done"]
    /\ reply' = [reply EXCEPT ![r] = [score |-> result.score,
                                     decision |-> DecisionToProto(result.decision)]]

\* An error, and no response.
Fail(r) ==
    /\ pc' = [pc EXCEPT ![r] = "done"]
    /\ UNCHANGED reply

Begin(r) ==
    /\ pc[r] = "start"
    /\ pc' = [pc EXCEPT ![r] = "consumer"]
    /\ barred' = [barred EXCEPT ![r] = blocked \ (IF r \in NoIP THEN {"ip"} ELSE {})]
    /\ UNCHANGED <<blocked, counter, n, reply, faults, edits>>

\* The order of the lookups; MUTANT: the IP address is left out.
AfterMissSkipsIP(k) == IF k = "consumer" THEN "merchant" ELSE "velocity"
AfterMiss(k) ==
    CASE k = "consumer" -> "merchant" [] k = "merchant" -> "ip" [] k = "ip" -> "velocity"

\* One SISMEMBER of the blocklist rule.  A hit ends the rule, and with the high
\* value rule's result the request: what is declined is not counted.
SIsMember(r) ==
    /\ pc[r] \in Keys
    /\ IF pc[r] = "ip" /\ r \in NoIP
       THEN pc' = [pc EXCEPT ![r] = AfterMiss(@)] /\ UNCHANGED <<reply, faults>>
       ELSE \E o \in {"ok", "fail"} :
              /\ Answer(o)
              /\ IF o = "fail" THEN Fail(r)
                 ELSE IF pc[r] \in blocked
                      THEN Return(r, mergeResults(Blocklist(TRUE) \o HighValue(r)))
                      ELSE pc' = [pc EXCEPT ![r] = AfterMiss(@)] /\ UNCHANGED reply
    /\ UNCHANGED <<blocked, counter, n, edits, barred>>

Merged(r, k) == mergeResults(Blocklist(FALSE) \o HighValue(r) \o Velocity(k))

\* The first of a window starts it; MUTANT: the second one.
StartsWindowLate(k) == k = 2
StartsWindow(k) == k = 1

Incr(r) ==
    /\ pc[r] = "velocity"
    /\ \E o \in {"ok", "fail", "lost"} :
        /\ Answer(o)
        /\ count' = IF o = "fail" THEN count ELSE count + 1
        /\ n' = [n EXCEPT ![r] = IF o = "ok" THEN count + 1 ELSE 0]
        /\ passed' = IF o = "ok" /\ ~Exceeded(count + 1) THEN passed \union {r} ELSE passed
        /\ immortal' = (immortal \/ (o = "lost" /\ count = 0))
        /\ CASE o # "ok" -> Fail(r)
             [] o = "ok" /\ StartsWindow(count + 1) ->
                    pc' = [pc EXCEPT ![r] = "expire"] /\ UNCHANGED reply
             [] o = "ok" /\ ~StartsWindow(count + 1) -> Return(r, Merged(r, count + 1))
    /\ UNCHANGED <<blocked, ttl, edits, barred>>

Expire(r) ==
    /\ pc[r] = "expire"
    /\ \E o \in {"ok", "fail", "lost"} :
        /\ Answer(o)
        /\ ttl' = (ttl \/ o # "fail")
        /\ immortal' = (immortal \/ o = "fail")
        /\ IF o = "ok" THEN Return(r, Merged(r, n[r])) ELSE Fail(r)
    /\ UNCHANGED <<blocked, count, n, edits, barred, passed>>

\* The window of 60 seconds ends.
KeyExpires ==
    /\ ttl
    /\ count' = 0 /\ ttl' = FALSE
    /\ passed' = {}
    /\ UNCHANGED <<blocked, pc, n, reply, faults, edits, barred, immortal>>

\* An edit of the blocklist, by the type the operator names.
AddToBlocklist(typ) ==
    /\ NormalizeBlocklistType(typ) \in Keys \ blocked
    /\ edits < MaxEdits /\ edits' = edits + 1
    /\ blocked' = blocked \union {NormalizeBlocklistType(typ)}
    /\ UNCHANGED <<counter, pc, n, reply, faults, barred>>

RemoveFromBlocklist(typ) ==
    /\ NormalizeBlocklistType(typ) \in blocked
    /\ edits < MaxEdits /\ edits' = edits + 1
    /\ blocked' = blocked \ {NormalizeBlocklistType(typ)}
    /\ barred' = [r \in Requests |-> barred[r] \ {NormalizeBlocklistType(typ)}]
    /\ UNCHANGED <<counter, pc, n, reply, faults>>

\* Every request has been answered.
Quiescent ==
    /\ \A r \in Requests : pc[r] = "done"
    /\ UNCHANGED vars

Next ==
    \/ \E r \in Requests : Begin(r) \/ SIsMember(r) \/ Incr(r) \/ Expire(r)
    \/ KeyExpires
    \/ \E typ \in Types : AddToBlocklist(typ) \/ RemoveFromBlocklist(typ)
    \/ Quiescent

Spec == Init /\ [][Next]_vars

\* A request under way goes on, and Redis expires what it was told to.
FairSpec == Spec /\ (\A r \in Requests : WF_vars(Expire(r))) /\ WF_vars(KeyExpires)

-----------------------------------------------------------------------------
\* BlocklistRule: a request one of whose keys was listed before it began, and
\* stays listed, is never let through, whatever else is added or removed while
\* it looks, and payment-svc can tell: a decision of a declined request is
\* DECLINE, with the highest score.
BarredIsDeclined ==
    [][\A r \in Requests :
          reply[r] = NoReply /\ reply'[r] # NoReply /\ barred[r] # {}
          => reply'[r] = [score |-> 100, decision |-> RiskDecision.DECLINE]]_vars

\* VelocityRule: however requests interleave, a window lets velocityThreshold of
\* them pass and reviews the others.
VelocityIsBounded ==
    /\ Cardinality(passed) <= Threshold
    /\ \A r \in Requests : n[r] > Threshold /\ pc[r] = "done" => reply[r].decision # RiskDecision.ALLOW

\* VelocityRule's EXPIRE: the counter goes back to zero and the consumer is
\* no longer reviewed, unless the one EXPIRE that sets the TTL failed.
WindowEnds == count > 0 ~> count = 0 \/ immortal
=============================================================================
