--------------------------- MODULE EventDelivery ---------------------------
(***************************************************************************)
(* From SETTLED to the merchant: the outbox table, the OutboxRelay of      *)
(* payment-svc (two of them while a deployment is rolled over), the        *)
(* payment.events topic with its committed offset, and the notification    *)
(* service: Consumer.Run, handle and Deliverer.Deliver with its retries,   *)
(* its dead letter topic and its webhook:delivered keys in Redis.          *)
(*                                                                         *)
(* An event is named by its payment.  The topic has one partition.  Calls  *)
(* have the outcomes "ok", "fail" (nothing done) and "lost" (done, but the *)
(* caller sees an error); a merchant that does not answer 2xx is normal    *)
(* and costs no fault.                                                     *)
(***************************************************************************)
EXTENDS Naturals, Sequences

CONSTANTS
    Payments,
    Relays,
    NoWebhook,      \* payments of merchants without a webhook url
    MaxAttempts,    \* 3 in the code
    FaultKinds, MaxFaults,
    Nil

ASSUME DeliveryAssumption ==
    /\ NoWebhook \subseteq Payments
    /\ MaxAttempts \in Nat \ {0}
    /\ MaxFaults \in Nat
    /\ Nil \notin Payments

VARIABLES
    settled,        \* payments whose event has been written
    outbox,         \* rows of the outbox table
    batch, sent,    \* a relay's list, and the row it has published but not deleted
    topic,          \* payment.events
    committed, pending, read,   \* offsets: at the broker, to be flushed, of the reader
    step, attempt,  \* the consumer's progress with topic[read]
    delivered,      \* webhook:delivered keys
    posts, dlq,     \* webhooks the merchant got; payments in webhook.dlq
    faults,
    failed, blurred \* history: offsets whose handle failed; payments whose
                    \* delivery was not recorded where it happened

outboxVars == <<settled, outbox, batch, sent, topic>>
offsetVars == <<committed, pending, read>>
effectVars == <<delivered, posts, dlq>>
vars == <<settled, outbox, batch, sent, topic, committed, pending, read, step,
          attempt, delivered, posts, dlq, faults, failed, blurred>>

Init ==
    /\ settled = {} /\ outbox = {} /\ topic = <<>>
    /\ batch = [k \in Relays |-> {}]
    /\ sent = [k \in Relays |-> Nil]
    /\ committed = 0 /\ pending = 0 /\ read = 0
    /\ step = "fetch" /\ attempt = 0
    /\ delivered = {} /\ dlq = {}
    /\ posts = [p \in Payments |-> 0]
    /\ faults = 0
    /\ failed = {} /\ blurred = {}

-----------------------------------------------------------------------------
Fault(k) ==
    /\ k \in FaultKinds
    /\ faults < MaxFaults
    /\ faults' = faults + 1

Answer(o) == IF o = "ok" THEN UNCHANGED faults ELSE Fault(o)

Effect(o) == o \in {"ok", "lost"}

(* payment-svc *)

\* SettleWithOutbox commits.
SettleWithOutbox(p) ==
    /\ p \notin settled
    /\ settled' = settled \union {p}
    /\ outbox' = outbox \union {p}
    /\ UNCHANGED <<batch, sent, topic, offsetVars, step, attempt, effectVars, faults,
                   failed, blurred>>

\* A tick of relay k.  The rows are locked for the SELECT only, so that another
\* relay may list them too.
ListOutbox(k) ==
    /\ batch[k] = {} /\ sent[k] = Nil
    /\ \E rows \in (SUBSET outbox) \ {{}} : batch' = [batch EXCEPT ![k] = rows]
    /\ UNCHANGED <<settled, outbox, sent, topic, offsetVars, step, attempt,
                   effectVars, faults, failed, blurred>>

\* What is left to do after the publishing of p with outcome o: an error stops
\* the batch.  MUTANT: it is ignored and the row deleted.
AfterPublishIgnoresErrors(o, p) == p
AfterPublish(o, p) == IF o = "ok" THEN p ELSE Nil

WriteMessages(k) ==
    /\ sent[k] = Nil
    /\ \E p \in batch[k], o \in {"ok", "fail", "lost"} :
        /\ Answer(o)
        /\ topic' = IF Effect(o) THEN Append(topic, p) ELSE topic
        /\ sent' = [sent EXCEPT ![k] = AfterPublish(o, p)]
        /\ batch' = [batch EXCEPT ![k] = IF AfterPublish(o, p) = Nil THEN {} ELSE @ \ {p}]
    /\ UNCHANGED <<settled, outbox, offsetVars, step, attempt, effectVars, failed, blurred>>

DeleteOutbox(k) ==
    /\ sent[k] # Nil
    /\ \E o \in {"ok", "fail", "lost"} :
        /\ Answer(o)
        /\ outbox' = IF Effect(o) THEN outbox \ {sent[k]} ELSE outbox
        /\ batch' = [batch EXCEPT ![k] = IF o = "ok" THEN @ ELSE {}]
    /\ sent' = [sent EXCEPT ![k] = Nil]
    /\ UNCHANGED <<settled, topic, offsetVars, step, attempt, effectVars, failed, blurred>>

CrashRelay(k) ==
    /\ batch[k] # {} \/ sent[k] # Nil
    /\ Fault("crash")
    /\ batch' = [batch EXCEPT ![k] = {}]
    /\ sent' = [sent EXCEPT ![k] = Nil]
    /\ UNCHANGED <<settled, outbox, topic, offsetVars, step, attempt, effectVars, failed,
                   blurred>>

-----------------------------------------------------------------------------
(* notification-svc *)

Event == topic[read]

FetchMessage ==
    /\ step = "fetch"
    /\ read < Len(topic)
    /\ read' = read + 1
    /\ step' = "check"
    /\ UNCHANGED <<outboxVars, committed, pending, attempt, effectVars, faults, failed,
                   blurred>>

\* handle returns an error: Run logs it and fetches the next message.
HandleFails ==
    /\ step' = "fetch"
    /\ attempt' = 0
    /\ failed' = failed \union {read}

\* handle goes on with step s.
HandleGoesOn(s) ==
    /\ step' = s
    /\ attempt' = IF s = "post" THEN 1 ELSE 0
    /\ UNCHANGED failed

\* What the check of the webhook:delivered key says; MUTANT: no check.
AlreadyDeliveredUnchecked == FALSE
AlreadyDelivered == Event \in delivered

CheckDelivered ==
    /\ step = "check"
    /\ \E o \in {"ok", "fail"} :
        /\ Answer(o)
        /\ IF o = "fail" THEN HandleFails
           ELSE HandleGoesOn(IF AlreadyDelivered THEN "commit" ELSE "config")
    /\ UNCHANGED <<outboxVars, offsetVars, effectVars, blurred>>

\* A merchant without a url is skipped as if delivered.
GetWebhookConfig ==
    /\ step = "config"
    /\ \E o \in {"ok", "fail"} :
        /\ Answer(o)
        /\ IF o = "fail" THEN HandleFails
           ELSE HandleGoesOn(IF Event \in NoWebhook THEN "mark" ELSE "post")
    /\ UNCHANGED <<outboxVars, offsetVars, effectVars, blurred>>

\* postWebhook succeeds with a 2xx in time.
Accepted(o) == o = "ok"

\* One attempt: answered 2xx, refused, or accepted without a 2xx in time.
PostWebhook ==
    /\ step = "post"
    /\ \E o \in {"ok", "refused", "lost"} :
        /\ IF o = "lost" THEN Fault("lost") ELSE UNCHANGED faults
        /\ posts' = [posts EXCEPT ![Event] = IF Effect(o) THEN @ + 1 ELSE @]
        /\ blurred' = IF o = "lost" THEN blurred \union {Event} ELSE blurred
        /\ IF Accepted(o) THEN HandleGoesOn("mark")
           ELSE IF attempt < MaxAttempts
                THEN attempt' = attempt + 1 /\ UNCHANGED <<step, failed>>
                ELSE HandleGoesOn("dlq")
    /\ UNCHANGED <<outboxVars, offsetVars, delivered, dlq>>

\* Where an error of publishDLQ leads.
AfterDLQError == HandleFails

PublishDLQ ==
    /\ step = "dlq"
    /\ \E o \in {"ok", "fail", "lost"} :
        /\ Answer(o)
        /\ dlq' = IF Effect(o) THEN dlq \union {Event} ELSE dlq
        /\ IF o = "ok" THEN HandleGoesOn("mark") ELSE AfterDLQError
    /\ UNCHANGED <<outboxVars, offsetVars, delivered, posts, blurred>>

MarkDelivered ==
    /\ step = "mark"
    /\ \E o \in {"ok", "fail", "lost"} :
        /\ Answer(o)
        /\ delivered' = IF Effect(o) THEN delivered \union {Event} ELSE delivered
        /\ blurred' = IF o = "ok" THEN blurred ELSE blurred \union {Event}
        /\ IF o = "ok" THEN HandleGoesOn("commit") ELSE HandleFails
    /\ UNCHANGED <<outboxVars, offsetVars, posts, dlq>>

\* CommitMessages only notes the offset, which is flushed every second.
CommitMessages ==
    /\ step = "commit"
    /\ pending' = read
    /\ step' = "fetch"
    /\ UNCHANGED <<outboxVars, committed, read, attempt, effectVars, faults, failed, blurred>>

FlushCommits ==
    /\ committed # pending
    /\ committed' = pending
    /\ UNCHANGED <<outboxVars, pending, read, step, attempt, effectVars, faults, failed,
                   blurred>>

\* Where a new consumer starts; MUTANT: at the end of the topic.
RestartAtEnd == Len(topic)
RestartAt == committed

\* The consumer dies and starts again at the committed offset.
CrashConsumer ==
    /\ read # committed
    /\ Fault("crash")
    /\ read' = RestartAt
    /\ pending' = RestartAt
    /\ step' = "fetch"
    /\ attempt' = 0
    /\ blurred' = IF step = "mark" THEN blurred \union {Event} ELSE blurred
    /\ UNCHANGED <<outboxVars, committed, effectVars, failed>>

\* The TTL of 24 hours, which an event repeated later outlives.
DeliveredKeyExpires ==
    /\ Fault("expire")
    /\ \E p \in delivered :
        /\ delivered' = delivered \ {p}
        /\ blurred' = blurred \union {p}
    /\ UNCHANGED <<outboxVars, offsetVars, step, attempt, posts, dlq, failed>>

Consume ==
    \/ FetchMessage \/ CheckDelivered \/ GetWebhookConfig \/ PostWebhook
    \/ PublishDLQ \/ MarkDelivered \/ CommitMessages

Quiescent ==
    /\ settled = Payments /\ outbox = {} /\ read = Len(topic)
    /\ step = "fetch" /\ committed = pending
    /\ UNCHANGED vars

Next ==
    \/ \E p \in Payments : SettleWithOutbox(p)
    \/ \E k \in Relays : ListOutbox(k) \/ WriteMessages(k) \/ DeleteOutbox(k) \/ CrashRelay(k)
    \/ Consume
    \/ FlushCommits
    \/ CrashConsumer
    \/ DeliveredKeyExpires
    \/ Quiescent

Spec == Init /\ [][Next]_vars

\* Tickers tick, and the calls of the relay and of the consumer return.
Fairness ==
    /\ \A k \in Relays : WF_vars(ListOutbox(k) \/ WriteMessages(k) \/ DeleteOutbox(k))
    /\ WF_vars(Consume)
    /\ WF_vars(FlushCommits)

FairSpec == Spec /\ Fairness

-----------------------------------------------------------------------------
Published == {topic[i] : i \in 1..Len(topic)}

\* The merchant got the webhook, has none, or the event is a dead letter.
Handled(p) == posts[p] > 0 \/ p \in dlq \/ p \in NoWebhook

\* Outbox and relay: an event written with SETTLED is in the outbox or in the
\* topic, wherever relays stop or die.
NoEventIsLost == settled \subseteq outbox \union Published

\* Run commits an offset only when every message up to it was handled, but for
\* the messages whose handling failed and which a later commit passed over.
CommittedIsHandled ==
    \A i \in 1..pending : Handled(topic[i]) \/ i \in failed

\* The delivered keys: a merchant gets a webhook twice only when a delivery
\* could not be recorded (a reply, a Redis write or the process was lost
\* between the two) or its key expired; never because relays publish twice.
DuplicatesAreBlurred == \A p \in Payments : posts[p] > 1 => p \in blurred

\* Every settled payment's event is handled in the end, unless its handling
\* failed once.
EventuallyHandled ==
    \A p \in Payments : p \in settled ~>
        (Handled(p) \/ \E i \in failed : topic[i] = p)
=============================================================================
