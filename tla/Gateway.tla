------------------------------ MODULE Gateway ------------------------------
(***************************************************************************)
(* The API gateway's replicas in front of merchant-svc, consent-svc and    *)
(* payment-svc.  A request passes AuthMiddleware, RateLimitMiddleware and  *)
(* its handler, which makes one RPC and turns its result into an answer.   *)
(* A request keeps its context's deadline: when the RPC is abandoned the   *)
(* service's remaining calls fail, and what it has written stays.          *)
(***************************************************************************)
EXTENDS DomainErrors, Conversions, SequencesExt

CONSTANTS
    Requests, Merchants, Keys, Prefix, Consents, ValidUntil, PageSize, MaxFaults, Nil,
    Gateways, Skew,         \* replicas; Skew[g]: how far g's clock is ahead
    RequestTimeout,         \* chi's Timeout
    LimitPerSec,            \* GATEWAY_RATE_LIMIT_RPS
    LimitKeyTTL,            \* EXPIRE of a counter, 2 seconds
    MaxTime,
    Scenarios               \* what the clients of one behaviour do: the routes
                            \* they use, the consents they name, how long it lasts,
                            \* and the JWT_TTL of the replicas

VARIABLES
    call, reply, did,                                       \* shared with the services
    account,                                                \* merchant-svc
    step, copy, row, owner, made, cache, now, faults, raced, \* consent-svc
    pay,            \* payment-svc: the status of the one payment, Nil before it
    scenario,
    req,            \* req[r]: request r, until it is answered; Nil when there is none
    rdb,            \* rdb[g]: replica g found Redis when it started
    limiter,        \* limiter[m][w]: counter and expiry of a window, in Redis
    token,          \* token[m]: the latest expiry of m's tokens
    held,           \* the API keys their owners were given
    served,         \* history, served[m][w]: requests counted and let through
    suspendedAt,    \* history
    scan            \* a client reading all pages of a listing

rpcVars == <<call, reply, did, req>>
tableVars == <<row, owner, made, cache>>
limitVars == <<limiter, served>>
signInVars == <<token, held>>
vars == <<rpcVars, account, step, copy, tableVars, raced, now, faults, pay, scenario,
          rdb, limitVars, signInVars, suspendedAt, scan>>

MerchantSvc == INSTANCE MerchantAccounts
ConsentSvc == INSTANCE ConsentQueries
PaymentSvc == INSTANCE PaymentRequests

Windows == 0..(MaxTime + Max({Skew[g] : g \in Gateways}))
Fault == faults < MaxFaults /\ faults' = faults + 1

PublicRoutes == {"RegisterMerchant", "IssueToken"}
ConsentRoutes == {"CreateConsent", "GetConsent", "RevokeConsent"}
PaymentRoutes == {"InitiatePayment", "GetPayment", "RetryPayment"}

Clock(g) == now + Skew[g]

\* Issue and Parse: a token ends TTL after the issuer's clock, and is read with
\* the clock of the replica it is shown to.
Issue(g) == Clock(g) + scenario.ttl
Parse(m, g) == token[m] # Nil /\ Clock(g) < token[m]

-----------------------------------------------------------------------------
(* The handlers.  Each gives its answer to a request, once its RPC has     *)
(* returned a result: Nil while it has not been made.                      *)

Tell(http, body) == [http |-> http, code |-> NoCode, body |-> body]
Malformed(request) == request.input = "malformed"
BadRequest == Answer(400, "VALIDATION_ERROR")

\* An error of the RPC is mapped, a message is told.
Respond(result, told(_)) ==
    CASE result = Nil -> Nil
      [] result # Nil /\ ~ result.ok -> mapGRPCError(result.status)
      [] OTHER -> told(result.body)

\* Only this route looks at the account's status; MUTANT: it does not.
MaySignInAlways(m) == TRUE
MaySignIn(m) == m.status # "SUSPENDED"

IssueToken(request, result) ==
    IF Malformed(request) THEN BadRequest
    ELSE Respond(result, LAMBDA m :
            IF MaySignIn(m) THEN Tell(200, Issue(request.g))
                            ELSE Answer(403, "MERCHANT_SUSPENDED"))

RegisterMerchant(request, result) ==
    IF Malformed(request) THEN BadRequest
    ELSE Respond(result, LAMBDA resp : Tell(201, resp))

GetMerchant(request, result) ==
    IF request.id # request.m THEN Answer(403, "FORBIDDEN")
    ELSE Respond(result, LAMBDA m : Tell(200, m))

consentFromProto(c) == [id |-> c.id, status |-> consentStatusString(c.status)]

CreateConsent(request, result) ==
    IF Malformed(request) THEN BadRequest
    ELSE Respond(result, LAMBDA c : Tell(201, consentFromProto(c)))

GetConsent(request, result) == Respond(result, LAMBDA c : Tell(200, consentFromProto(c)))

RevokeConsent(request, result) == Respond(result, LAMBDA c : Tell(200, consentFromProto(c)))

ListConsents(request, result) ==
    IF Malformed(request) THEN BadRequest
    ELSE Respond(result, LAMBDA resp :
            Tell(200, [rows |-> {consentFromProto(c) : c \in resp.rows}, next |-> resp.next]))

paymentFromProto(p) == [status |-> paymentStatusString(p.status)]

\* The status of a payment decides; MANUAL_REVIEW is still accepted.  MUTANT:
\* all that is not FAILED is success.
InitiatePaymentLenient(request, result) ==
    IF Malformed(request) THEN BadRequest
    ELSE Respond(result, LAMBDA p :
            Tell(IF p.status = PaymentStatus.FAILED THEN 422 ELSE 201, paymentFromProto(p)))
InitiatePayment(request, result) ==
    IF Malformed(request) THEN BadRequest
    ELSE Respond(result, LAMBDA p :
            Tell(CASE p.status = PaymentStatus.SETTLED -> 201
                   [] p.status = PaymentStatus.FAILED -> 422
                   [] OTHER -> 202,
                 paymentFromProto(p)))

GetPayment(request, result) == Respond(result, LAMBDA p : Tell(200, paymentFromProto(p)))

RetryPayment(request, result) ==
    Respond(result, LAMBDA p :
        Tell(CASE p.status = PaymentStatus.SETTLED -> 200
               [] p.status = PaymentStatus.FAILED -> 422
               [] OTHER -> 202,
             paymentFromProto(p)))

Handler(request, result) ==
    CASE request.op = "IssueToken" -> IssueToken(request, result)
      [] request.op = "RegisterMerchant" -> RegisterMerchant(request, result)
      [] request.op = "GetMerchant" -> GetMerchant(request, result)
      [] request.op = "CreateConsent" -> CreateConsent(request, result)
      [] request.op = "GetConsent" -> GetConsent(request, result)
      [] request.op = "RevokeConsent" -> RevokeConsent(request, result)
      [] request.op = "ListConsents" -> ListConsents(request, result)
      [] request.op = "InitiatePayment" -> InitiatePayment(request, result)
      [] request.op = "GetPayment" -> GetPayment(request, result)
      [] request.op = "RetryPayment" -> RetryPayment(request, result)

\* The message the handler sends.
RPC(request) ==
    CASE request.op = "IssueToken" -> [request EXCEPT !.op = "GetMerchantByApiKey"]
      [] request.op = "ListConsents" -> [request EXCEPT !.filter = parseConsentStatus(request.status)]
      [] OTHER -> request

-----------------------------------------------------------------------------
(* Authentication and rate limit.                                          *)

\* Without a valid token the answer is 401 and nothing has changed.
AuthMiddleware(request) == request.op \notin PublicRoutes => Parse(request.m, request.g)

Count(m, w) == limiter[m][w].n

\* The script: INCR, and EXPIRE on the first hit.  The counter is followed to
\* one above the limit.  MUTANT: the key lives for one second.
rateLimitLuaShort(m, w) ==
    limiter' = [limiter EXCEPT ![m][w] =
        [n |-> Min({Count(m, w) + 1, LimitPerSec + 1}),
         until |-> IF Count(m, w) = 0 THEN now + 1 ELSE @.until]]
rateLimitLua(m, w) ==
    limiter' = [limiter EXCEPT ![m][w] =
        [n |-> Min({Count(m, w) + 1, LimitPerSec + 1}),
         until |-> IF Count(m, w) = 0 THEN now + LimitKeyTTL ELSE @.until]]

\* The handler, once the middlewares let the request through: it answers itself,
\* or makes its RPC.
Handle(r, request) ==
    IF Handler(request, Nil) # Nil
    THEN req' = [req EXCEPT ![r] = Nil] /\ UNCHANGED call
    ELSE /\ req' = [req EXCEPT ![r] = request]
         /\ call' = [call EXCEPT ![r] = RPC(request)]

\* The counter of the merchant's second, by the replica's clock; above the limit
\* the answer is 429.  When the script fails, done or not, the request is let
\* through.
RateLimitMiddleware(r) ==
    /\ req[r] # Nil /\ call[r] = Nil
    /\ LET m == req[r].m
           w == Clock(req[r].g)
       IN  \/ /\ Fault
              /\ UNCHANGED limiter \/ rateLimitLua(m, w)
              /\ Handle(r, req[r])
              /\ UNCHANGED served
           \/ /\ rateLimitLua(m, w)
              /\ UNCHANGED faults
              /\ IF Count(m, w) + 1 > LimitPerSec
                 THEN req' = [req EXCEPT ![r] = Nil] /\ UNCHANGED <<call, served>>
                 ELSE /\ Handle(r, req[r])
                      /\ served' = [served EXCEPT ![m][w] = @ + 1]
    /\ UNCHANGED <<reply, did, account, step, copy, tableVars, raced, now, pay, scenario,
                   rdb, signInVars, suspendedAt, scan>>

-----------------------------------------------------------------------------
(* Requests.                                                               *)

Inputs(op) ==
    CASE op \in {"RegisterMerchant", "IssueToken"} -> {"good", "malformed"}
      [] op \in {"CreateConsent", "ListConsents", "InitiatePayment"} ->
            {"good", "malformed", "refused"}
      [] OTHER -> {"good"}

Request(op, g, m, input) ==
    [op |-> op, g |-> g, m |-> m, input |-> input, id |-> Nil, key |-> Nil,
     status |-> "", filter |-> 0, offset |-> 0, since |-> now]

Listed(s) == ToSet(ConsentSvc!Matching(s.m, statusFilter(parseConsentStatus(s.status))))

\* A scan begins with the first page of a listing and goes on with the page its
\* last answer names.
Page(request) ==
    \/ /\ scan = Nil
       /\ \E status \in {"", "ACTIVE"} :
             LET s == [m |-> request.m, status |-> status, offset |-> 0,
                       seen |-> {}, base |-> {}, shrunk |-> FALSE]
             IN  scan' = [s EXCEPT !.base = Listed(s)]
    \/ /\ scan # Nil /\ scan.offset # Nil /\ scan.m = request.m
       /\ \A q \in Requests : req[q] # Nil => req[q].op # "ListConsents"
       /\ UNCHANGED scan

\* As many registrations as there are accounts left; a bound of the model.
MayRegister ==
    /\ \E m \in Merchants : ~ MerchantSvc!Registered(m)
    /\ \A q \in Requests : req[q] # Nil => req[q].op # "RegisterMerchant"

\* What the request names: an API key, a merchant, a consent or a page.
Fill(request) ==
    CASE request.op = "IssueToken" ->
            {[request EXCEPT !.key = k] :
                k \in held \cup {k \in Keys : MerchantSvc!Fresh(k)}}
      [] request.op = "GetMerchant" -> {[request EXCEPT !.id = m] : m \in Merchants}
      [] request.op \in ConsentRoutes -> {[request EXCEPT !.id = c] : c \in scenario.consents}
      [] request.op = "ListConsents" ->
            {[request EXCEPT !.status = scan'.status, !.offset = scan'.offset]}
      [] OTHER -> {request}

\* A request arrives at replica g.  It waits for Redis where it is limited, and
\* otherwise goes on to its RPC.
Receive(r) ==
    /\ req[r] = Nil
    /\ \E op \in scenario.ops, g \in scenario.gateways, m \in scenario.clients :
       \E input \in Inputs(op) \cap scenario.inputs :
          LET asked == Request(op, g, IF op \in PublicRoutes THEN Nil ELSE m, input) IN
          /\ op = "RegisterMerchant" => MayRegister
          /\ IF op = "ListConsents" THEN Page(asked) ELSE UNCHANGED scan
          /\ \E request \in Fill(asked) :
                /\ AuthMiddleware(request)
                /\ IF op \in PublicRoutes \/ ~ rdb[g]
                   THEN Handle(r, request)
                   ELSE req' = [req EXCEPT ![r] = request] /\ UNCHANGED call
    /\ UNCHANGED <<reply, did, account, step, copy, tableVars, raced, now, faults, pay,
                   scenario, rdb, limitVars, signInVars, suspendedAt>>

-----------------------------------------------------------------------------
(* The services.                                                           *)

ServeMerchant(r) ==
    /\ MerchantSvc!Serve(r)
    /\ UNCHANGED <<req, step, copy, tableVars, raced, now, faults, pay, scenario,
                   rdb, limitVars, signInVars, suspendedAt, scan>>

\* A scan keeps the consents that have matched all along, and whether one ceased to.
Follow ==
    \/ scan = Nil /\ UNCHANGED scan
    \/ \E s \in {scan} \ {Nil} :
          scan' = [s EXCEPT !.base = @ \cap Listed(s)',
                            !.shrunk = @ \/ ~ Listed(s) \subseteq Listed(s)']

ServeConsent(r) ==
    /\ ConsentSvc!Serve(r)
    /\ Follow
    /\ UNCHANGED <<req, account, pay, scenario, rdb, limitVars, signInVars, suspendedAt>>

CacheTTL(c) ==
    /\ ConsentSvc!TTL(c)
    /\ UNCHANGED <<req, account, pay, scenario, rdb, limitVars, signInVars, suspendedAt, scan>>

ServePayment(r) ==
    /\ PaymentSvc!Serve(r)
    /\ UNCHANGED <<req, account, step, copy, tableVars, raced, now, faults, scenario,
                   rdb, limitVars, signInVars, suspendedAt, scan>>

Reconcile ==
    /\ PaymentSvc!Reconcile
    /\ UNCHANGED <<req, account, step, copy, tableVars, raced, now, faults, scenario,
                   rdb, limitVars, signInVars, suspendedAt, scan>>

SuspendMerchant(m) ==
    /\ scenario.suspends /\ account[m].status = "ACTIVE"
    /\ MerchantSvc!SuspendMerchant(m)
    /\ suspendedAt' = [suspendedAt EXCEPT ![m] = now]
    /\ UNCHANGED <<req, step, copy, tableVars, raced, now, faults, pay, scenario,
                   rdb, limitVars, signInVars, scan>>

-----------------------------------------------------------------------------
(* Answers.                                                                *)

\* The answers request r may get now that its RPC has returned.
Answers(r) ==
    {Handler(req[r], result) : result \in
        IF reply[r].code = "OK"
        THEN {[ok |-> TRUE, body |-> reply[r].body]}
        ELSE {[ok |-> FALSE, status |-> ToGRPC(reply[r].code, detailed)] : detailed \in BOOLEAN}}

\* Request r has revoked c and has not deleted the copy yet.
RevokedBy(r, c) ==
    call[r] # Nil /\ call[r].op = "RevokeConsent" /\ call[r].id = c /\ step[r] = "del"

\* The requests in rs end, whatever their services have done of them.
End(rs) ==
    /\ req' = [r \in Requests |-> IF r \in rs THEN Nil ELSE req[r]]
    /\ call' = [r \in Requests |-> IF r \in rs THEN Nil ELSE call[r]]
    /\ reply' = [r \in Requests |-> IF r \in rs THEN Nil ELSE reply[r]]
    /\ did' = [r \in Requests |-> did[r] /\ r \notin rs]
    /\ step' = [r \in Requests |-> IF r \in rs THEN "begin" ELSE step[r]]
    /\ copy' = [r \in Requests |-> IF r \in rs THEN Nil ELSE copy[r]]
    /\ raced' = [c \in Consents |-> raced[c] \/ \E r \in rs : RevokedBy(r, c)]

\* The handler has its RPC's result and answers; the client keeps its token, its
\* API key or the page it has read.
Reply(r) ==
    /\ reply[r] # Nil
    /\ \E answer \in Answers(r) :
          LET ok(op) == answer.http < 300 /\ req[r].op = op IN
          /\ token' = IF ok("IssueToken")
                      THEN [token EXCEPT ![reply[r].body.m] = Max({answer.body, @} \ {Nil})]
                      ELSE token
          /\ held' = IF ok("RegisterMerchant") THEN held \cup {answer.body.key} ELSE held
          /\ scan' = IF ok("ListConsents")
                     THEN [scan EXCEPT !.seen = @ \cup {c.id : c \in answer.body.rows},
                                       !.offset = answer.body.next]
                     ELSE scan
    /\ End({r})
    /\ UNCHANGED <<account, tableVars, now, faults, pay, scenario, rdb, limitVars, suspendedAt>>

\* The deadline passes (calls wait for a service that is down), the connection
\* breaks, or the service's database fails: the answer is 500 or 503.
Abandon(r) ==
    /\ call[r] # Nil
    /\ Fault
    /\ End({r})
    /\ UNCHANGED <<account, tableVars, now, pay, scenario, rdb, limitVars, signInVars,
                   suspendedAt, scan>>

\* A replica stops, with the requests it has not answered in time, and starts
\* again; when it does not find Redis it runs without a rate limit.
Restart(g) ==
    /\ Fault
    /\ \E found \in BOOLEAN : rdb' = [rdb EXCEPT ![g] = found]
    /\ End({r \in Requests : req[r] # Nil /\ req[r].g = g})
    /\ UNCHANGED <<account, tableVars, now, pay, scenario, limitVars, signInVars,
                   suspendedAt, scan>>

Expired(entry) == entry.until <= now + 1

\* A second passes; no request outlives its deadline.  What was served in
\* windows that are over is forgotten.
Tick ==
    /\ now < scenario.until
    /\ \A r \in Requests : req[r] # Nil => now < req[r].since + RequestTimeout
    /\ now' = now + 1
    /\ limiter' = [m \in Merchants |-> [w \in Windows |->
                    IF Expired(limiter[m][w]) THEN [n |-> 0, until |-> 0] ELSE limiter[m][w]]]
    /\ served' = [m \in Merchants |-> [w \in Windows |->
                    IF w <= now THEN 0 ELSE served[m][w]]]
    /\ UNCHANGED <<rpcVars, account, step, copy, tableVars, raced, faults, pay, scenario,
                   rdb, signInVars, suspendedAt, scan>>

\* The clients have registered and signed in before, and the platform has run
\* since: there are consents, and the replicas found Redis or not.
Init ==
    /\ scenario \in Scenarios
    /\ call = [r \in Requests |-> Nil] /\ reply = [r \in Requests |-> Nil]
    /\ step = [r \in Requests |-> "begin"] /\ copy = [r \in Requests |-> Nil]
    /\ req = [r \in Requests |-> Nil] /\ did = [r \in Requests |-> FALSE]
    /\ account = [m \in Merchants |-> IF m \in scenario.clients
                     THEN [status |-> "ACTIVE", key |-> scenario.keys[m]]
                     ELSE MerchantSvc!NoAccount]
    /\ held = {scenario.keys[m] : m \in scenario.clients}
    /\ token = [m \in Merchants |-> IF m \in scenario.clients THEN scenario.ttl ELSE Nil]
    /\ made = scenario.existing
    /\ row = [c \in Consents |-> IF c \in ToSet(made) THEN "ACTIVE" ELSE Nil]
    /\ owner \in [Consents -> scenario.clients \cup {Nil}]
    /\ \A c \in Consents : owner[c] = Nil <=> row[c] = Nil
    /\ cache = [c \in Consents |-> Nil]
    /\ raced = [c \in Consents |-> FALSE]
    /\ pay = Nil /\ scan = Nil
    /\ now = 0 /\ faults = MaxFaults - scenario.faults
    /\ rdb = [g \in Gateways |-> scenario.redis]
    /\ limiter = [m \in Merchants |-> [w \in Windows |-> [n |-> 0, until |-> 0]]]
    /\ served = [m \in Merchants |-> [w \in Windows |-> 0]]
    /\ suspendedAt = [m \in Merchants |-> Nil]

Next ==
    \/ \E r \in Requests :
          \/ Receive(r) \/ RateLimitMiddleware(r)
          \/ ServeMerchant(r) \/ ServeConsent(r) \/ ServePayment(r)
          \/ Reply(r) \/ Abandon(r)
    \/ \E c \in Consents : CacheTTL(c)
    \/ \E m \in Merchants : SuspendMerchant(m)
    \/ \E g \in scenario.gateways : Restart(g)
    \/ Reconcile
    \/ Tick

Spec == Init /\ [][Next]_vars

\* Redis expires what it was told to.  Nobody has to ask for anything, and a
\* service may take as long as it likes.
Fairness == \A c \in Consents : WF_vars(CacheTTL(c))

FairSpec == Spec /\ Fairness

-----------------------------------------------------------------------------
\* AuthMiddleware checks the token and never the account: a suspended merchant's
\* requests pass until its last token ends, and that one was asked for before
\* the suspension.  The bound is the time a request may take, the token's life
\* and the difference of two replicas' clocks.
SuspensionTakesEffect ==
    \A r \in Requests :
        req[r] # Nil /\ req[r].m # Nil /\ suspendedAt[req[r].m] # Nil
        => req[r].since < suspendedAt[req[r].m] + RequestTimeout + scenario.ttl
                            + Max({Skew[g] - Skew[h] : g, h \in Gateways})

\* GetMerchantByAPIKey: a token is made for the account its API key belongs to,
\* also when two keys begin alike.
KeyOpensItsAccount ==
    \A r \in Requests :
        reply[r] # Nil /\ reply[r].code = "OK" /\ req[r].op = "IssueToken"
        => account[reply[r].body.m].key = req[r].key

\* RateLimitMiddleware: the replicas together let no more requests of a merchant
\* through in one of its seconds than the limit, apart from those they do not
\* count, although their clocks differ and the counter expires.
WithinRateLimit ==
    \A m \in Merchants, w \in Windows : served[m][w] <= LimitPerSec

\* ToGRPC, FromGRPC, mapDownstreamErr, mapGRPCError: the reason a service gives
\* reaches the client over one hop or two, with or without details; only a
\* duplicate key is reported as an existing one.  The client is told to blame
\* the server exactly for internal errors and an unavailable bank.
Told(c) == IF c = "DUPLICATE_IDEMPOTENCY_KEY" THEN "ALREADY_EXISTS" ELSE c
ReasonSurvives ==
    \A r \in Requests :
        reply[r] # Nil /\ reply[r].code # "OK"
        => \A a \in Answers(r) :
             /\ a.code = Told(reply[r].body.reason)
             /\ a.http >= 500 <=> reply[r].body.reason \in {"INTERNAL_ERROR", "BANK_UNAVAILABLE"}

\* The handlers' answers to what the services did: a client error means that the
\* request changed nothing, and success that what was asked for is so, whatever
\* other requests have done since.  A payment's refusal is no such promise: its
\* row may be in flight.  A consent that had lapsed when it was asked for is not
\* called ACTIVE, also when it comes from the cache, and what is listed has the
\* status asked for, or it is an ACTIVE row that has lapsed.
AnswersAreHonest ==
    \A r \in Requests : reply[r] # Nil =>
        \A a \in Answers(r) :
            LET op == req[r].op
                ok == a.http < 300
            IN
            /\ op \notin PaymentRoutes /\ a.http \in 400..499 => ~ did[r]
            /\ op \in {"RegisterMerchant", "CreateConsent"} /\ ok => did[r]
            /\ op = "RevokeConsent" /\ ok =>
                  row[req[r].id] = "REVOKED" /\ a.body.status = "REVOKED"
            /\ op = "GetConsent" /\ ok /\ a.body.status = "ACTIVE" => req[r].since < ValidUntil
            /\ op = "ListConsents" /\ ok /\ req[r].status # "" =>
                  \A c \in a.body.rows :
                      \/ c.status = req[r].status
                      \/ c.status = "EXPIRED" /\ req[r].status = "ACTIVE"
            /\ op \in {"InitiatePayment", "RetryPayment"} /\ a.http < 202 => pay = "SETTLED"

\* RevokeConsent: once no request is between its UPDATE and its DEL, the cache
\* holds ACTIVE for a revoked consent only if another request had read the row
\* before and cached it after, or the DEL failed or was not reached.
Revoking(c) == \E r \in Requests : RevokedBy(r, c)
StaleOnlyAfterRace ==
    \A c \in Consents :
        row[c] = "REVOKED" /\ cache[c] = "ACTIVE" /\ ~ Revoking(c) => raced[c]

\* A revoked consent does not come back: the copy expires and what is cached in
\* the end is the row.
StaleIsTemporary ==
    \A c \in Consents : row[c] = "REVOKED" ~> [](cache[c] # "ACTIVE")

\* ListConsents by offsets: a client that has read all pages has seen every
\* consent that matched all along, although others were created meanwhile,
\* unless one ceased to match and the rest moved up.
ScanMissesOnlyAfterShrink ==
    scan # Nil /\ scan.offset = Nil => scan.base \subseteq scan.seen \/ scan.shrunk
=============================================================================
