-------------------------- MODULE MerchantAccounts --------------------------
(***************************************************************************)
(* merchant-svc: accounts with one API key each, looked up by the key's    *)
(* first eight characters and the hash of the whole key, and suspended by  *)
(* an operator.  Every operation is one transaction or one query.          *)
(***************************************************************************)
EXTENDS DomainErrors

CONSTANTS
    Requests,
    Merchants,
    Keys,           \* plaintext API keys; generateAPIKey draws a fresh one
    Prefix,         \* Prefix[k]: the first characters of key k
    Nil

VARIABLES
    call, reply,    \* the RPC of each request and what it returned
    account,        \* account[m]: [status, key], status Nil before registration
    did             \* history, did[r]: request r has changed a row

vars == <<call, reply, account, did>>

NoAccount == [status |-> Nil, key |-> Nil]

Registered(m) == account[m].status # Nil
Fresh(k) == \A m \in Merchants : account[m].key # k

-----------------------------------------------------------------------------
Serves(r, op) == call[r] # Nil /\ call[r].op = op /\ reply[r] = Nil
Return(r, code, body) == reply' = [reply EXCEPT ![r] = [code |-> code, body |-> body]]
Fail(r, code) == Return(r, code, [reason |-> code])

\* RegisterMerchant: account and key hash in one transaction; the plaintext key
\* is in the reply and nowhere else.  The gateway lets no blank field through.
RegisterMerchant(r) ==
    /\ Serves(r, "RegisterMerchant")
    /\ \E m \in Merchants, k \in Keys :
          /\ ~ Registered(m)
          /\ Fresh(k)
          /\ account' = [account EXCEPT ![m] = [status |-> "ACTIVE", key |-> k]]
          /\ Return(r, "OK", [m |-> m, key |-> k])
    /\ did' = [did EXCEPT ![r] = TRUE]
    /\ UNCHANGED call

\* The accounts whose key begins like k.
GetCandidatesByPrefix(k) ==
    {m \in Merchants : Registered(m) /\ Prefix[account[m].key] = Prefix[k]}

\* The candidates whose hash matches; MUTANT: the prefix decides.
MatchesByPrefix(k) == GetCandidatesByPrefix(k)
Matches(k) == {m \in GetCandidatesByPrefix(k) : account[m].key = k}

\* GetMerchantByAPIKey returns the account with the status it has now.
GetMerchantByAPIKey(r) ==
    /\ Serves(r, "GetMerchantByApiKey")
    /\ \/ /\ Matches(call[r].key) = {}
          /\ Fail(r, "NOT_FOUND")
       \/ \E m \in Matches(call[r].key) :
             Return(r, "OK", [m |-> m, status |-> account[m].status])
    /\ UNCHANGED <<call, account, did>>

GetMerchant(r) ==
    /\ Serves(r, "GetMerchant")
    /\ IF Registered(call[r].m)
       THEN Return(r, "OK", [m |-> call[r].m, status |-> account[call[r].m].status])
       ELSE Fail(r, "NOT_FOUND")
    /\ UNCHANGED <<call, account, did>>

Serve(r) == RegisterMerchant(r) \/ GetMerchantByAPIKey(r) \/ GetMerchant(r)

\* The operator's RPC, not offered by the gateway; suspending again changes nothing.
SuspendMerchant(m) ==
    /\ Registered(m)
    /\ account' = [account EXCEPT ![m].status = "SUSPENDED"]
    /\ UNCHANGED <<call, reply, did>>
=============================================================================
