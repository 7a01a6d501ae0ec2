----------------------------- MODULE Conversions -----------------------------
(***************************************************************************)
(* Statuses on their way: the text of a table's column, the number of a    *)
(* protobuf enum on the wire, the text in a JSON answer or in a query.     *)
(* Text is taken in upper case, as the code makes it.                      *)
(***************************************************************************)
EXTENDS Naturals

ConsentStatus ==
    [CONSENT_STATUS_UNSPECIFIED |-> 0, PENDING |-> 1, ACTIVE |-> 2, REVOKED |-> 3, EXPIRED |-> 4]

PaymentStatus ==
    [PAYMENT_STATUS_UNSPECIFIED |-> 0, INITIATED |-> 1, CONSENT_RESERVED |-> 2,
     RISK_PASSED |-> 3, AUTHORISING |-> 4, SETTLED |-> 5, FAILED |-> 6, MANUAL_REVIEW |-> 7]

Direction == [DIRECTION_UNSPECIFIED |-> 0, DR |-> 1, CR |-> 2]

AccountType ==
    [ACCOUNT_TYPE_UNSPECIFIED |-> 0, CONSUMER_ESCROW |-> 1, MERCHANT_ESCROW |-> 2,
     PLATFORM_FEE |-> 3]

RiskDecision == [RISK_DECISION_UNSPECIFIED |-> 0, ALLOW |-> 1, REVIEW |-> 2, DECLINE |-> 3]

\* The number of a name, 0 for a name the enum does not have.
Number(enum, name) == IF name \in DOMAIN enum THEN enum[name] ELSE 0

\* String(): the name of a number.
Name(enum, n) == CHOOSE name \in DOMAIN enum : enum[name] = n

-----------------------------------------------------------------------------
(* Consents.                                                               *)

\* consent-svc: a row's status, and the status a listing is filtered by, where
\* "" is no filter.
mapStatus(s) == Number(ConsentStatus, s)
statusFilter(n) == IF n = 0 THEN "" ELSE Name(ConsentStatus, n)

\* The gateway: the answer's status, and the query's; one it does not know is
\* no filter.
consentStatusString(n) == Name(ConsentStatus, n)
parseConsentStatus(s) == Number(ConsentStatus, s)

-----------------------------------------------------------------------------
(* Payments.                                                               *)

statusToProto(s) == Number(PaymentStatus, s)
paymentStatusString(n) == Name(PaymentStatus, n)

-----------------------------------------------------------------------------
(* Risk.  What is neither REVIEW nor DECLINE is sent as ALLOW; a blocklist *)
(* type is normalised to the key's part, "" when it is refused.            *)

DecisionToProto(d) == RiskDecision[IF d \in {"REVIEW", "DECLINE"} THEN d ELSE "ALLOW"]

NormalizeBlocklistType(typ) ==
    CASE typ = "CONSUMER" -> "consumer"
      [] typ = "MERCHANT" -> "merchant"
      [] typ = "IP" -> "ip"
      [] OTHER -> ""

-----------------------------------------------------------------------------
(* Journal lines.  0 is refused on the way in.                             *)

accountTypeToDB(t) == Name(AccountType, t)
accountTypeFromDB(s) == Number(AccountType, s)
directionToDB(d) == Name(Direction, d)
directionFromDB(s) == Number(Direction, s)
=============================================================================
