-------------------------- MODULE PaymentLifecycle --------------------------
(***************************************************************************)
(* What payment-svc promises about one payment's life, whatever fails on   *)
(* the way: the order of its statuses, that it is SETTLED only out of      *)
(* AUTHORISING with an entry in the ledger, and that the settlement event  *)
(* is written in the same step as SETTLED and in no other.                 *)
(*                                                                         *)
(* Overturn is the price of a settlement commit whose outcome the caller   *)
(* did not learn: the compensation writes FAILED or MANUAL_REVIEW over     *)
(* SETTLED.  PaymentSaga implements this specification.                    *)
(***************************************************************************)
EXTENDS Naturals

CONSTANT Payments

VARIABLES status, ledger, events

lifeVars == <<status, ledger, events>>

Failures == {"FAILED", "MANUAL_REVIEW"}
Running == {"INITIATED", "CONSENT_RESERVED", "RISK_PASSED", "AUTHORISING"}

Init ==
    /\ status = [p \in Payments |-> "NONE"]
    /\ ledger = [p \in Payments |-> "none"]
    /\ events = [p \in Payments |-> 0]

Become(p, s) == status' = [status EXCEPT ![p] = s]

\* A new payment, or a retry of a FAILED one under the same id.
Start(p) ==
    /\ status[p] \in {"NONE", "FAILED"}
    /\ Become(p, "INITIATED")
    /\ UNCHANGED <<ledger, events>>

Advance(p) ==
    /\ \/ status[p] = "INITIATED" /\ Become(p, "CONSENT_RESERVED")
       \/ status[p] = "CONSENT_RESERVED" /\ Become(p, "RISK_PASSED")
       \/ status[p] = "RISK_PASSED" /\ Become(p, "AUTHORISING")
    /\ UNCHANGED <<ledger, events>>

Post(p) ==
    /\ status[p] = "AUTHORISING"
    /\ ledger[p] = "none"
    /\ ledger' = [ledger EXCEPT ![p] = "posted"]
    /\ UNCHANGED <<status, events>>

Settle(p) ==
    /\ status[p] = "AUTHORISING"
    /\ ledger[p] # "none"
    /\ Become(p, "SETTLED")
    /\ events' = [events EXCEPT ![p] = @ + 1]
    /\ UNCHANGED ledger

Unpost(p) ==
    /\ status[p] \in {"AUTHORISING", "SETTLED"}
    /\ ledger[p] = "posted"
    /\ ledger' = [ledger EXCEPT ![p] = "reversed"]
    /\ UNCHANGED <<status, events>>

GiveUp(p) ==
    /\ status[p] \in Running
    /\ \E s \in Failures : Become(p, s)
    /\ UNCHANGED <<ledger, events>>

Overturn(p) ==
    /\ status[p] = "SETTLED"
    /\ \E s \in Failures : Become(p, s)
    /\ UNCHANGED <<ledger, events>>

Next == \E p \in Payments :
    \/ Start(p) \/ Advance(p) \/ Post(p) \/ Settle(p) \/ Unpost(p)
    \/ GiveUp(p) \/ Overturn(p)

Spec == Init /\ [][Next]_lifeVars
=============================================================================
