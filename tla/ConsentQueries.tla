--------------------------- MODULE ConsentQueries ---------------------------
(***************************************************************************)
(* consent-svc without its reservations: consents are created, read        *)
(* through a Redis copy, listed page by page and revoked.  Row and copy    *)
(* are changed by separate calls, and the calls of several requests        *)
(* interleave.  The cache's errors are only logged.                        *)
(***************************************************************************)
EXTENDS DomainErrors, Conversions, SequencesExt

CONSTANTS
    Requests,       \* requests under way at the same time
    Consents,       \* consents, each with a bank_consent_ref of its own
    ValidUntil,     \* when they all lapse
    PageSize,       \* of a listing
    MaxFaults,
    Nil

VARIABLES
    call,           \* call[r]: the RPC request r makes, or Nil
    reply,          \* reply[r]: what it returned, or Nil
    step,           \* step[r]: how far the service is with it
    copy,           \* copy[r]: the row it read
    row, owner,     \* the consents in the table: status and merchant
    made,           \* ... newest first
    cache,          \* cache[c]: the copy in Redis: a status, or Nil
    now, faults,
    raced,          \* history, raced[c]: a request that carries ACTIVE to the
                    \* cache was under way at the revocation, or the delete failed
    did             \* history, did[r]: request r has changed a row

rpc == <<call, reply>>
vars == <<call, reply, step, copy, row, owner, made, cache, now, faults, raced, did>>

-----------------------------------------------------------------------------
Fault == faults < MaxFaults /\ faults' = faults + 1

Fail(code) == [code |-> code, body |-> [reason |-> code]]
Ok(body) == [code |-> "OK", body |-> body]

\* What is sent of a row; ACTIVE past valid_until is shown as EXPIRED.
toProtoConsent(c, status) ==
    [id |-> c, status |-> IF status = "ACTIVE" /\ now >= ValidUntil
                          THEN ConsentStatus.EXPIRED ELSE mapStatus(status)]

Serves(r, op, at) == call[r] # Nil /\ call[r].op = op /\ reply[r] = Nil /\ step[r] = at

Return(r, answer) ==
    /\ reply' = [reply EXCEPT ![r] = answer]
    /\ step' = [step EXCEPT ![r] = "begin"]
    /\ copy' = [copy EXCEPT ![r] = Nil]
    /\ UNCHANGED call

Goto(r, at, value) ==
    /\ step' = [step EXCEPT ![r] = at]
    /\ copy' = [copy EXCEPT ![r] = value]
    /\ UNCHANGED rpc

\* SET or DEL of the copy: done, or failed and logged.
CacheWrite(c, v) ==
    \/ cache' = [cache EXCEPT ![c] = v] /\ UNCHANGED faults
    \/ Fault /\ UNCHANGED cache

\* The merchant of the token may see the consent.
Visible(r) == row[call[r].id] # Nil /\ owner[call[r].id] = call[r].m

\* CreateConsent: the checks of the input, then the INSERT; bank_consent_ref is
\* unique.
InsertConsent(r) ==
    /\ Serves(r, "CreateConsent", "begin")
    /\ LET c == call[r].id IN
       \/ /\ call[r].input = "refused"
          /\ Return(r, Fail("VALIDATION_ERROR"))
          /\ UNCHANGED <<row, owner, made, did>>
       \/ /\ call[r].input = "good" /\ row[c] # Nil
          /\ Return(r, Fail("ALREADY_EXISTS"))
          /\ UNCHANGED <<row, owner, made, did>>
       \/ /\ call[r].input = "good" /\ row[c] = Nil
          /\ row' = [row EXCEPT ![c] = "ACTIVE"]
          /\ owner' = [owner EXCEPT ![c] = call[r].m]
          /\ made' = <<c>> \o made
          /\ did' = [did EXCEPT ![r] = TRUE]
          /\ Goto(r, "set", "ACTIVE")
    /\ UNCHANGED <<cache, now, faults, raced>>

\* GetConsent: a hit is answered, a miss, which a failing GET is too, goes on to
\* the table.
CacheGet(r) ==
    /\ Serves(r, "GetConsent", "begin")
    /\ LET c == call[r].id IN
       \/ /\ cache[c] # Nil
          /\ Return(r, IF owner[c] = call[r].m THEN Ok(toProtoConsent(c, cache[c]))
                                               ELSE Fail("NOT_FOUND"))
          /\ UNCHANGED faults
       \/ /\ \/ cache[c] = Nil /\ UNCHANGED faults
             \/ cache[c] # Nil /\ Fault
          /\ Goto(r, "load", Nil)
    /\ UNCHANGED <<row, owner, made, cache, now, raced, did>>

LoadConsent(r) ==
    /\ Serves(r, "GetConsent", "load")
    /\ IF Visible(r) THEN Goto(r, "set", row[call[r].id])
                     ELSE Return(r, Fail("NOT_FOUND"))
    /\ UNCHANGED <<row, owner, made, cache, now, faults, raced, did>>

\* The end of CreateConsent and of GetConsent: the row is cached and returned.
CacheSet(r) ==
    /\ \E op \in {"CreateConsent", "GetConsent"} : Serves(r, op, "set")
    /\ CacheWrite(call[r].id, copy[r])
    /\ Return(r, Ok(toProtoConsent(call[r].id, copy[r])))
    /\ UNCHANGED <<row, owner, made, now, raced, did>>

\* RevokeConsent loads the row; one already REVOKED only deletes the copy.
BeginRevoke(r) ==
    /\ Serves(r, "RevokeConsent", "begin")
    /\ CASE ~ Visible(r) -> Return(r, Fail("NOT_FOUND"))
         [] Visible(r) /\ row[call[r].id] = "REVOKED" -> Goto(r, "del", "REVOKED")
         [] Visible(r) /\ row[call[r].id] = "ACTIVE" -> Goto(r, "update", Nil)
    /\ UNCHANGED <<row, owner, made, cache, now, faults, raced, did>>

\* The UPDATE; no row matches when another request has revoked it meanwhile.
RevokeConsent(r) ==
    /\ Serves(r, "RevokeConsent", "update")
    /\ LET c == call[r].id IN
       \/ /\ row[c] = "REVOKED"
          /\ Return(r, Fail("CONFLICT"))
          /\ UNCHANGED <<row, raced, did>>
       \/ /\ row[c] = "ACTIVE"
          /\ row' = [row EXCEPT ![c] = "REVOKED"]
          /\ did' = [did EXCEPT ![r] = TRUE]
          /\ raced' = [raced EXCEPT ![c] =
                \E q \in Requests : call[q] # Nil /\ call[q].id = c /\ copy[q] = "ACTIVE"]
          /\ Goto(r, "del", "REVOKED")
    /\ UNCHANGED <<owner, made, cache, now, faults>>

\* What RevokeConsent leaves in the cache; MUTANT: it does not touch it.
AfterRevokeKept(c) == cache[c]
AfterRevoke(c) == Nil

CacheDel(r) ==
    /\ Serves(r, "RevokeConsent", "del")
    /\ CacheWrite(call[r].id, AfterRevoke(call[r].id))
    /\ raced' = [raced EXCEPT ![call[r].id] = @ \/ faults' # faults]
    /\ Return(r, Ok(toProtoConsent(call[r].id, copy[r])))
    /\ UNCHANGED <<row, owner, made, now, did>>

\* cacheTTL, 5 minutes; MUTANT: SET without a TTL, an expiration of 0.
ExpiresNever(c) == FALSE
Expires(c) == cache[c] # Nil

TTL(c) ==
    /\ Expires(c)
    /\ cache' = [cache EXCEPT ![c] = Nil]
    /\ UNCHANGED <<call, reply, step, copy, row, owner, made, now, faults, raced, did>>

-----------------------------------------------------------------------------
(* Listing.                                                                *)

\* The rows of the merchant with the wanted status, newest first.
Matching(m, status) ==
    SelectSeq(made, LAMBDA c : owner[c] = m /\ status \in {"", row[c]})

\* LIMIT and OFFSET.  The total is a column of the rows: a page without rows has
\* no total.
ListRows(m, status, offset) ==
    LET all == Matching(m, status)
        page == SubSeq(all, offset + 1, Min({offset + PageSize, Len(all)}))
    IN  [rows |-> page, total |-> IF page = <<>> THEN 0 ELSE Len(all)]

\* The offset of the next page, Nil after the last; MUTANT: it skips one row.
NextTokenSkips(offset, list) ==
    IF offset + Len(list.rows) < list.total THEN offset + Len(list.rows) + 1 ELSE Nil
NextToken(offset, list) ==
    IF offset + Len(list.rows) < list.total THEN offset + Len(list.rows) ELSE Nil

ListConsents(r) ==
    /\ Serves(r, "ListConsents", "begin")
    /\ LET list == ListRows(call[r].m, statusFilter(call[r].filter), call[r].offset)
       IN  Return(r, IF call[r].input = "refused"
                     THEN Fail("VALIDATION_ERROR")
                     ELSE Ok([rows |-> {toProtoConsent(c, row[c]) : c \in ToSet(list.rows)},
                              next |-> NextToken(call[r].offset, list)]))
    /\ UNCHANGED <<row, owner, made, cache, now, faults, raced, did>>

\* What the service does for request r.
Serve(r) ==
    \/ InsertConsent(r) \/ CacheGet(r) \/ LoadConsent(r) \/ CacheSet(r)
    \/ BeginRevoke(r) \/ RevokeConsent(r) \/ CacheDel(r)
    \/ ListConsents(r)
=============================================================================
