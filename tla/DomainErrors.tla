---------------------------- MODULE DomainErrors ----------------------------
(***************************************************************************)
(* How an error travels: a service turns its domain error into a gRPC      *)
(* status, payment-svc may turn that back and forth once more, and the     *)
(* gateway turns the status into an HTTP answer.  A message is abstracted  *)
(* to the domain code it may be prefixed with.                             *)
(***************************************************************************)
EXTENDS Naturals

NoCode == ""

Codes ==
    {"VALIDATION_ERROR", "NOT_FOUND", "ALREADY_EXISTS", "CONSENT_LIMIT_EXCEEDED",
     "CONSENT_EXPIRED", "CONSENT_REVOKED", "CONSENT_INACTIVE", "RISK_DECLINED",
     "BANK_REJECTED", "BANK_UNAVAILABLE", "MERCHANT_SUSPENDED",
     "DUPLICATE_IDEMPOTENCY_KEY", "CONFLICT", "INTERNAL_ERROR"}

\* The codes ToGRPC sends as FailedPrecondition with an ErrorInfo detail.
Preconditions ==
    {"CONSENT_LIMIT_EXCEEDED", "CONSENT_EXPIRED", "CONSENT_REVOKED",
     "CONSENT_INACTIVE", "RISK_DECLINED", "BANK_REJECTED",
     "MERCHANT_SUSPENDED", "CONFLICT"}

Status(code) == [code |-> code, reason |-> NoCode, prefix |-> NoCode]

\* detailed: WithDetails worked; otherwise the code is put before the message.
makeFailedPrecondition(c, detailed) ==
    [Status("FailedPrecondition") EXCEPT
        !.reason = IF detailed THEN c ELSE NoCode,
        !.prefix = IF detailed THEN NoCode ELSE c]

\* MUTANT: CONFLICT is forgotten in the list and falls to the default.
ToGRPCForgets(c, detailed) ==
    CASE c = "VALIDATION_ERROR" -> Status("InvalidArgument")
      [] c = "NOT_FOUND" -> Status("NotFound")
      [] c \in {"ALREADY_EXISTS", "DUPLICATE_IDEMPOTENCY_KEY"} -> Status("AlreadyExists")
      [] c \in Preconditions \ {"CONFLICT"} -> makeFailedPrecondition(c, detailed)
      [] c = "BANK_UNAVAILABLE" -> Status("Unavailable")
      [] OTHER -> Status("Internal")
ToGRPC(c, detailed) ==
    CASE c = "VALIDATION_ERROR" -> Status("InvalidArgument")
      [] c = "NOT_FOUND" -> Status("NotFound")
      [] c \in {"ALREADY_EXISTS", "DUPLICATE_IDEMPOTENCY_KEY"} -> Status("AlreadyExists")
      [] c \in Preconditions -> makeFailedPrecondition(c, detailed)
      [] c = "BANK_UNAVAILABLE" -> Status("Unavailable")
      [] OTHER -> Status("Internal")

isKnownCode(c) == c \in Codes

FromGRPC(st) ==
    CASE st.reason # NoCode -> st.reason
      [] st.reason = NoCode /\ isKnownCode(st.prefix) -> st.prefix
      [] OTHER ->
            CASE st.code = "InvalidArgument" -> "VALIDATION_ERROR"
              [] st.code = "NotFound" -> "NOT_FOUND"
              [] st.code = "AlreadyExists" -> "ALREADY_EXISTS"
              [] st.code = "Unavailable" -> "BANK_UNAVAILABLE"
              [] OTHER -> "INTERNAL_ERROR"

\* payment-svc: the status of a service it called becomes its own domain error.
mapDownstreamErr(st) == FromGRPC(st)

isBusinessCode(s) == s \in Codes

grpcBusinessCode(st) ==
    CASE st.code = "FailedPrecondition" /\ isBusinessCode(st.prefix) -> st.prefix
      [] st.code = "InvalidArgument" -> "VALIDATION_ERROR"
      [] st.code = "NotFound" -> "NOT_FOUND"
      [] st.code = "AlreadyExists" -> "ALREADY_EXISTS"
      [] st.code = "Aborted" -> "CONFLICT"
      [] OTHER -> "INTERNAL_ERROR"

Answer(http, code) == [http |-> http, code |-> code]

\* The answer to a status that carries no domain code.
mapPlainStatus(st) ==
    CASE st.code = "InvalidArgument" -> Answer(400, grpcBusinessCode(st))
      [] st.code = "NotFound" -> Answer(404, grpcBusinessCode(st))
      [] st.code \in {"AlreadyExists", "Aborted"} -> Answer(409, grpcBusinessCode(st))
      [] st.code = "FailedPrecondition" -> Answer(422, grpcBusinessCode(st))
      [] st.code = "Unauthenticated" -> Answer(401, "UNAUTHORIZED")
      [] st.code = "PermissionDenied" -> Answer(403, "FORBIDDEN")
      [] st.code = "ResourceExhausted" -> Answer(429, "RATE_LIMITED")
      [] st.code = "Unavailable" -> Answer(503, "SERVICE_UNAVAILABLE")
      [] OTHER -> Answer(500, "INTERNAL_ERROR")

mapGRPCError(st) ==
    LET c == FromGRPC(st) IN
    CASE c = "INTERNAL_ERROR" -> mapPlainStatus(st)
      [] c = "VALIDATION_ERROR" -> Answer(400, c)
      [] c = "NOT_FOUND" -> Answer(404, c)
      [] c \in {"ALREADY_EXISTS", "DUPLICATE_IDEMPOTENCY_KEY"} -> Answer(409, c)
      [] c \in Preconditions -> Answer(422, c)
      [] c = "BANK_UNAVAILABLE" -> Answer(503, c)
      [] OTHER -> Answer(500, c)
=============================================================================
