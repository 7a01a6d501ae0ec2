----------------------------- MODULE BankAdapter -----------------------------
(***************************************************************************)
(* InitiatePayment of bank-adapter under concurrent calls: up to Attempts  *)
(* POSTs a call inside one Execute of the circuit breaker, and a bank that *)
(* makes a new charge of every POST it serves.                             *)
(*                                                                         *)
(* The breaker is sony/gobreaker with the settings of NewAdapter.  It      *)
(* judges whole calls, not POSTs, and only those it admitted since its     *)
(* last change of state or interval (its generation).  Every error of a    *)
(* call counts, the bank's 4xx answers too.                                *)
(***************************************************************************)
EXTENDS Naturals, FiniteSets

CONSTANTS
    Callers,        \* slots of concurrent calls, each used again and again
    Attempts,       \* 3 in the code
    Threshold,      \* consecutive failures the closed breaker stands: 10
    MaxRequests,    \* calls the half-open breaker admits: 5
    MaxFaults       \* bound on outages, and on POSTs that fail outside them

ASSUME AdapterAssumption ==
    /\ IsFiniteSet(Callers)
    /\ Attempts \in Nat \ {0}
    /\ Threshold \in Nat
    /\ MaxRequests \in Nat \ {0}
    /\ MaxFaults \in Nat

VARIABLES
    breaker, fails, wins, requests,     \* its state and Counts
    mine,           \* mine[c]: c was admitted in the present generation
    pc, attempt,    \* a call's progress
    reply,          \* the answer of the last call
    charges,        \* charges[c]: charges of the present or last call of c
    unheard,        \* how many of them the adapter never heard of
    up, faults      \* the bank works

counts == <<fails, wins, requests>>
vars == <<breaker, fails, wins, requests, mine, pc, attempt, reply, charges, unheard,
          up, faults>>

Init ==
    /\ breaker = "closed"
    /\ fails = 0 /\ wins = 0 /\ requests = 0
    /\ mine = [c \in Callers |-> FALSE]
    /\ pc = [c \in Callers |-> "idle"]
    /\ attempt = [c \in Callers |-> 0]
    /\ reply = [c \in Callers |-> "none"]
    /\ charges = [c \in Callers |-> 0]
    /\ unheard = [c \in Callers |-> 0]
    /\ up = TRUE
    /\ faults = 0

-----------------------------------------------------------------------------
(* The breaker *)

\* A new generation: counts from zero, and the calls under way no longer count.
Generation(state) ==
    /\ breaker' = state
    /\ fails' = 0 /\ wins' = 0 /\ requests' = 0
    /\ mine' = [c \in Callers |-> FALSE]

\* The half-open breaker admits no more.
TooMany == requests >= MaxRequests

\* The half-open breaker has seen enough; MUTANT: more than it admits.
RecoveredOffByOne == wins + 1 > MaxRequests
Recovered == wins + 1 >= MaxRequests

ReadyToTrip == fails + 1 > Threshold

\* afterRequest for a call of c that ends with an error or without.
AfterRequest(c, success) ==
    LET counted(f, w) == /\ fails' = f /\ wins' = w
                         /\ mine' = [mine EXCEPT ![c] = FALSE]
                         /\ UNCHANGED <<breaker, requests>>
    IN  IF ~mine[c] THEN UNCHANGED <<breaker, counts, mine>>
        ELSE IF breaker = "closed"
             THEN IF success THEN counted(0, 0)
                  ELSE IF ReadyToTrip THEN Generation("open") ELSE counted(fails + 1, 0)
             ELSE IF ~success THEN Generation("open")
                  ELSE IF Recovered THEN Generation("closed") ELSE counted(0, wins + 1)

\* Interval, 60 seconds: the closed breaker forgets.
Interval ==
    /\ breaker = "closed"
    /\ fails > 0 \/ \E c \in Callers : mine[c]
    /\ Generation("closed")
    /\ UNCHANGED <<pc, attempt, reply, charges, unheard, up, faults>>

\* Timeout, 10 seconds after it opened.
Timeout ==
    /\ breaker = "open"
    /\ Generation("half-open")
    /\ UNCHANGED <<pc, attempt, reply, charges, unheard, up, faults>>

-----------------------------------------------------------------------------
(* A call *)

\* Execute begins: refused at once, or admitted and the first POST sent.
Begin(c) ==
    /\ pc[c] = "idle"
    /\ charges' = [charges EXCEPT ![c] = 0]
    /\ unheard' = [unheard EXCEPT ![c] = 0]
    /\ IF breaker = "open" \/ (breaker = "half-open" /\ TooMany)
       THEN /\ reply' = [reply EXCEPT ![c] = "open"]
            /\ UNCHANGED <<requests, mine, pc, attempt>>
       ELSE /\ pc' = [pc EXCEPT ![c] = "post"]
            /\ attempt' = [attempt EXCEPT ![c] = 1]
            /\ mine' = [mine EXCEPT ![c] = TRUE]
            /\ requests' = IF breaker = "half-open" THEN requests + 1 ELSE requests
            /\ reply' = [reply EXCEPT ![c] = "none"]
    /\ UNCHANGED <<breaker, fails, wins, up, faults>>

\* The call ends with the answer r; to the breaker it was a success or not.
Return(c, r, success) ==
    /\ pc' = [pc EXCEPT ![c] = "idle"]
    /\ attempt' = [attempt EXCEPT ![c] = 0]
    /\ reply' = [reply EXCEPT ![c] = r]
    /\ AfterRequest(c, success)

\* What becomes of a POST: it is served or rejected; 400, 404 or 409
\* ("refused"); nothing happens ("down": any other status, no connection); or it
\* is served and the answer comes too late ("late"), cannot be decoded
\* ("garbled"), or has a status mapStatus does not know ("unmapped").
Charging == {"ok", "late", "garbled", "unmapped"}
Outcomes == Charging \union {"rejected", "refused", "down"}

\* These are tried again.
isTransient(o) == o \in {"down", "late"}

\* retry.Attempts.
MayRetry(c) == attempt[c] < Attempts

\* How an attempt that is the last one is reported; MUTANT: an answer that
\* cannot be decoded passes for a success.
AnswerUndecoded(o) == IF o \in {"ok", "garbled"} THEN "ok"
                      ELSE IF o = "rejected" THEN "rejected" ELSE "error"
Answer(o) == IF o \in {"ok", "rejected"} THEN o ELSE "error"

\* doHTTP: one POST and what is made of its answer.
DoHTTP(c) ==
    /\ pc[c] = "post"
    /\ \E o \in Outcomes :
        /\ IF o \in {"ok", "rejected"} THEN up /\ UNCHANGED faults
           ELSE IF up THEN faults < MaxFaults /\ faults' = faults + 1 ELSE UNCHANGED faults
        /\ charges' = [charges EXCEPT ![c] = IF o \in Charging THEN @ + 1 ELSE @]
        /\ unheard' = [unheard EXCEPT ![c] = IF o \in Charging \ {"ok"} THEN @ + 1 ELSE @]
        /\ IF isTransient(o) /\ MayRetry(c)
           THEN /\ pc' = [pc EXCEPT ![c] = "backoff"]
                /\ UNCHANGED <<breaker, counts, mine, attempt, reply>>
           ELSE Return(c, Answer(o), o \in {"ok", "rejected", "unmapped"})
    /\ UNCHANGED up

\* The delay passes, or the caller's context ends first.
Backoff(c) ==
    /\ pc[c] = "backoff"
    /\ \/ /\ pc' = [pc EXCEPT ![c] = "post"]
          /\ attempt' = [attempt EXCEPT ![c] = @ + 1]
          /\ UNCHANGED <<breaker, counts, mine, reply>>
       \/ Return(c, "error", FALSE)
    /\ UNCHANGED <<charges, unheard, up, faults>>

Outage ==
    /\ up
    /\ faults < MaxFaults
    /\ faults' = faults + 1
    /\ up' = FALSE
    /\ UNCHANGED <<breaker, counts, mine, pc, attempt, reply, charges, unheard>>

Recovery ==
    /\ ~up
    /\ up' = TRUE
    /\ UNCHANGED <<breaker, counts, mine, pc, attempt, reply, charges, unheard, faults>>

Call(c) == Begin(c) \/ DoHTTP(c) \/ Backoff(c)

Next ==
    \/ \E c \in Callers : Call(c)
    \/ Interval \/ Timeout \/ Outage \/ Recovery

Spec == Init /\ [][Next]_vars

\* Calls keep coming and are carried out, and the breaker's timeout passes.
FairSpec == Spec /\ (\A c \in Callers : WF_vars(Call(c))) /\ WF_vars(Timeout)

-----------------------------------------------------------------------------
\* What runSaga relies on when the adapter answers: "ok" tells of the last
\* charge, every other one was made by an attempt whose answer never came, and
\* a refusal or an error tells of none, though charges may stand.  The breaker's
\* own refusal is safe: nothing was sent.
AnswersAccountForCharges ==
    \A c \in Callers : pc[c] = "idle" =>
        /\ charges[c] <= Attempts
        /\ charges[c] = unheard[c] + (IF reply[c] = "ok" THEN 1 ELSE 0)
        /\ reply[c] = "open" => charges[c] = 0

\* The breaker never outlasts the outage: once the bank works for good, the
\* breaker closes for good, whatever calls were caught by its changes of state.
RecoversWithTheBank == <>[]up => <>[](breaker = "closed")
=============================================================================
