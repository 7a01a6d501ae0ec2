--------------------------- MODULE PaymentRequests ---------------------------
(***************************************************************************)
(* payment-svc as its callers meet it, with one payment.  PaymentSaga,     *)
(* PaymentInitiation and ReconciliationWorker are about how it gets there: *)
(* here a saga is one step, which ends in a terminal status, or leaves the *)
(* row behind and returns the error of the service that failed.            *)
(***************************************************************************)
EXTENDS DomainErrors, Conversions

CONSTANTS Requests, Nil

VARIABLES
    call, reply,    \* the RPC of each request and what it returned
    pay,            \* the status of the payment, Nil before it
    did             \* history, did[r]: request r has changed a row

PaymentStatuses == {"AUTHORISING", "SETTLED", "FAILED", "MANUAL_REVIEW"}
isTerminalPayment(s) == s \in {"SETTLED", "FAILED", "MANUAL_REVIEW"}

toProto(s) == [status |-> statusToProto(s)]

Serves(r, op) == call[r] # Nil /\ call[r].op = op /\ reply[r] = Nil
Return(r, code, body) == reply' = [reply EXCEPT ![r] = [code |-> code, body |-> body]]
Refuse(r, code) == Return(r, code, [reason |-> code]) /\ UNCHANGED <<pay, did>>

\* A terminal payment is returned whatever the error was.
RunSaga(r) ==
    /\ \E s \in PaymentStatuses :
          /\ pay' = s
          /\ IF isTerminalPayment(s)
             THEN Return(r, "OK", toProto(s))
             ELSE \E c \in Codes, detailed \in BOOLEAN :
                     Return(r, mapDownstreamErr(ToGRPC(c, detailed)), [reason |-> c])
    /\ did' = [did EXCEPT ![r] = TRUE]

validateInitiate(input) == input # "refused"

\* A key in use is answered with its row, or with an error when the row is not
\* there yet or cannot be read.
InitiatePayment(r) ==
    /\ Serves(r, "InitiatePayment")
    /\ \/ ~validateInitiate(call[r].input) /\ Refuse(r, "VALIDATION_ERROR")
       \/ validateInitiate(call[r].input) /\ pay = Nil /\ RunSaga(r)
       \/ validateInitiate(call[r].input) /\ pay = Nil /\ Refuse(r, "CONFLICT")
       \/ /\ validateInitiate(call[r].input) /\ pay # Nil
          /\ \/ Return(r, "OK", toProto(pay)) /\ UNCHANGED <<pay, did>>
             \/ Refuse(r, "DUPLICATE_IDEMPOTENCY_KEY")

GetPayment(r) ==
    /\ Serves(r, "GetPayment")
    /\ \/ pay = Nil /\ Refuse(r, "NOT_FOUND")
       \/ pay # Nil /\ Return(r, "OK", toProto(pay)) /\ UNCHANGED <<pay, did>>

RetryPayment(r) ==
    /\ Serves(r, "RetryPayment")
    /\ \/ pay = Nil /\ Refuse(r, "NOT_FOUND")
       \/ pay \notin {Nil, "FAILED"} /\ Refuse(r, "CONFLICT")
       \/ pay = "FAILED" /\ RunSaga(r)

Serve(r) == (InitiatePayment(r) \/ GetPayment(r) \/ RetryPayment(r)) /\ UNCHANGED call

\* The worker ends what a saga left behind.
Reconcile ==
    /\ pay = "AUTHORISING"
    /\ pay' \in {s \in PaymentStatuses : isTerminalPayment(s)}
    /\ UNCHANGED <<call, reply, did>>
=============================================================================
