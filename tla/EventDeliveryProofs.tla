------------------------- MODULE EventDeliveryProofs -------------------------
(***************************************************************************)
(* Proofs about EventDelivery, for any payments, relays, merchants without *)
(* a webhook, attempts and faults.                                         *)
(*                                                                         *)
(* The invariant says where an event may be: a relay deletes a row only    *)
(* when it has seen the event in the topic (RelayInv); what lies before    *)
(* the reader's offset was handled or has failed, but for the message in   *)
(* work (OffsetInv); and a delivery that nothing blurred is in the         *)
(* delivered keys, or about to be recorded there (DeliveryInv).            *)
(***************************************************************************)
EXTENDS EventDelivery, TLAPS

Steps == {"fetch", "check", "config", "post", "dlq", "mark", "commit"}

TypeOK ==
    /\ settled \subseteq Payments /\ outbox \subseteq Payments
    /\ batch \in [Relays -> SUBSET Payments]
    /\ sent \in [Relays -> Payments \union {Nil}]
    /\ topic \in Seq(Payments)
    /\ committed \in Nat /\ pending \in Nat /\ read \in Nat
    /\ step \in Steps
    /\ attempt \in Nat
    /\ delivered \subseteq Payments /\ dlq \subseteq Payments
    /\ posts \in [Payments -> Nat]
    /\ faults \in Nat
    /\ blurred \subseteq Payments

\* Every settled payment's event is in the outbox or published, and so is the one
\* that a relay is about to delete.
RelayInv ==
    /\ NoEventIsLost
    /\ \A k \in Relays : sent[k] # Nil => sent[k] \in Published

\* How far the handling has come.
OffsetInv ==
    /\ committed <= pending /\ pending <= read /\ read <= Len(topic)
    /\ step # "fetch" => pending < read
    /\ \A i \in 1..read : (i = read /\ step # "fetch") \/ Handled(topic[i]) \/ i \in failed
    /\ step \in {"mark", "commit"} => Handled(topic[read])
    /\ \A p \in delivered : Handled(p)

\* The message in work was found undelivered.
Undelivered == step \in {"config", "post", "dlq", "mark"}

DeliveryInv ==
    /\ Undelivered => topic[read] \notin delivered
    /\ \A p \in Payments \ blurred :
          /\ posts[p] <= 1
          /\ posts[p] = 1 => p \in delivered \/ (step = "mark" /\ topic[read] = p)

Inv == TypeOK /\ RelayInv /\ OffsetInv /\ DeliveryInv

USE DeliveryAssumption DEF Inv

-----------------------------------------------------------------------------
\* Nothing has been settled.
LEMMA InitInv == Init => Inv
<1>. SUFFICES ASSUME Init PROVE Inv
  OBVIOUS
<1>1. TypeOK
  BY SMTT(30) DEF Init, TypeOK, Steps
<1>2. RelayInv
  BY SMTT(30) DEF Init, RelayInv, NoEventIsLost
<1>3. OffsetInv
  BY SMTT(30) DEF Init, OffsetInv
<1>4. DeliveryInv
  BY SMTT(30) DEF Init, DeliveryInv, Undelivered
<1>. QED
  BY <1>1, <1>2, <1>3, <1>4

\* Appending keeps what the topic holds.
LEMMA Appended ==
    ASSUME topic \in Seq(Payments), NEW p \in Payments, topic' = Append(topic, p)
    PROVE  /\ topic' \in Seq(Payments)
           /\ Len(topic') = Len(topic) + 1
           /\ \A i \in 1..Len(topic) : topic'[i] = topic[i]
           /\ Published' = Published \union {p}
<1>1. /\ topic' \in Seq(Payments)
      /\ Len(topic') = Len(topic) + 1
      /\ Len(topic) \in Nat
      /\ \A i \in 1..Len(topic) : topic'[i] = topic[i]
      /\ topic'[Len(topic) + 1] = p
  BY SMTT(30)
<1>2. 1..Len(topic') = (1..Len(topic)) \union {Len(topic) + 1}
  BY <1>1, SMTT(30)
<1>. QED
  BY <1>1, <1>2, SMTT(30) DEF Published

\* The topic stays or grows by one message.
Grows == topic' = topic \/ \E p \in Payments : topic' = Append(topic, p)

\* What is published stays published.
LEMMA NothingUnpublished ==
    ASSUME TypeOK, Grows
    PROVE  topic' \in Seq(Payments) /\ Published \subseteq Published'
<1>1. CASE topic' = topic
  BY <1>1 DEF TypeOK, Published
<1>2. CASE \E p \in Payments : topic' = Append(topic, p)
  BY <1>2, Appended DEF TypeOK
<1>. QED
  BY <1>1, <1>2 DEF Grows

\* payment-svc's steps do not touch the consumer's state, and the consumer's
\* offsets stay within the topic.
LEMMA ConsumerUntouched ==
    ASSUME Inv, Grows,
           UNCHANGED <<offsetVars, step, attempt, effectVars, failed, blurred>>
    PROVE  OffsetInv' /\ DeliveryInv'
<1>1. /\ topic' \in Seq(Payments)
      /\ Len(topic) \in Nat /\ Len(topic') \in Nat /\ Len(topic) <= Len(topic')
      /\ \A i \in 1..Len(topic) : topic'[i] = topic[i]
  BY Appended, SMTT(30) DEF Grows, TypeOK
<1>2. \A i \in 1..read : topic'[i] = topic[i]
  BY <1>1, SMTT(30) DEF OffsetInv, TypeOK
<1>3. step # "fetch" => topic'[read] = topic[read]
  BY <1>2, SMTT(30) DEF OffsetInv, TypeOK
<1>4. \A p : Handled(p)' = Handled(p)
  BY SMTT(30) DEF Handled, effectVars
<1>5. OffsetInv'
  BY <1>1, <1>2, <1>3, <1>4, SMTT(30) DEF OffsetInv, offsetVars, effectVars, TypeOK
<1>6. DeliveryInv'
  BY <1>3, SMTT(30) DEF DeliveryInv, Undelivered, offsetVars, effectVars, TypeOK, Steps
<1>. QED
  BY <1>5, <1>6

\* SettleWithOutbox writes a row.
LEMMA SettleInv ==
    ASSUME Inv, NEW p \in Payments, SettleWithOutbox(p)
    PROVE  Inv'
<1>1. Grows /\ UNCHANGED <<offsetVars, step, attempt, effectVars, failed, blurred>>
  BY SMTT(30) DEF Grows, TypeOK, SettleWithOutbox
<1>2. OffsetInv' /\ DeliveryInv'
  BY <1>1, ConsumerUntouched
<1>3. topic' \in Seq(Payments) /\ Published \subseteq Published'
  BY <1>1, NothingUnpublished
<1>4. TypeOK'
  BY <1>1, <1>3, SMTT(30) DEF TypeOK, offsetVars, effectVars, SettleWithOutbox
<1>5. RelayInv'
  BY <1>3, Appended, SMTT(30) DEF TypeOK, RelayInv, NoEventIsLost, SettleWithOutbox
<1>. QED
  BY <1>2, <1>4, <1>5

\* A relay lists rows.
LEMMA ListOutboxInv ==
    ASSUME Inv, NEW k \in Relays, ListOutbox(k)
    PROVE  Inv'
<1>1. Grows /\ UNCHANGED <<offsetVars, step, attempt, effectVars, failed, blurred>>
  BY SMTT(30) DEF Grows, TypeOK, ListOutbox
<1>2. OffsetInv' /\ DeliveryInv'
  BY <1>1, ConsumerUntouched
<1>3. topic' \in Seq(Payments) /\ Published \subseteq Published'
  BY <1>1, NothingUnpublished
<1>4. TypeOK'
  BY <1>1, <1>3, SMTT(30) DEF TypeOK, offsetVars, effectVars, ListOutbox
<1>5. RelayInv'
  BY <1>3, Appended, SMTT(30) DEF TypeOK, RelayInv, NoEventIsLost, ListOutbox
<1>. QED
  BY <1>2, <1>4, <1>5

\* A relay publishes an event.
LEMMA WriteMessagesInv ==
    ASSUME Inv, NEW k \in Relays, WriteMessages(k)
    PROVE  Inv'
<1>1. Grows /\ UNCHANGED <<offsetVars, step, attempt, effectVars, failed, blurred>>
  BY SMTT(30) DEF Grows, TypeOK, WriteMessages, AfterPublish, Answer, Fault, Effect
<1>2. OffsetInv' /\ DeliveryInv'
  BY <1>1, ConsumerUntouched
<1>3. topic' \in Seq(Payments) /\ Published \subseteq Published'
  BY <1>1, NothingUnpublished
<1>4. TypeOK'
  BY <1>1, <1>3, SMTT(30) DEF TypeOK, offsetVars, effectVars, WriteMessages, AfterPublish,
     Answer, Fault, Effect
<1>5. RelayInv'
  BY <1>3, Appended, SMTT(30) DEF TypeOK, RelayInv, NoEventIsLost, WriteMessages,
     AfterPublish, Answer, Fault, Effect
<1>. QED
  BY <1>2, <1>4, <1>5

\* A relay deletes the row it has published.
LEMMA DeleteOutboxInv ==
    ASSUME Inv, NEW k \in Relays, DeleteOutbox(k)
    PROVE  Inv'
<1>1. Grows /\ UNCHANGED <<offsetVars, step, attempt, effectVars, failed, blurred>>
  BY SMTT(30) DEF Grows, TypeOK, DeleteOutbox, Answer, Fault, Effect
<1>2. OffsetInv' /\ DeliveryInv'
  BY <1>1, ConsumerUntouched
<1>3. topic' \in Seq(Payments) /\ Published \subseteq Published'
  BY <1>1, NothingUnpublished
<1>4. TypeOK'
  BY <1>1, <1>3, SMTT(30) DEF TypeOK, offsetVars, effectVars, DeleteOutbox, Answer, Fault,
     Effect
<1>5. RelayInv'
  BY <1>3, Appended, SMTT(30) DEF TypeOK, RelayInv, NoEventIsLost, DeleteOutbox, Answer,
     Fault, Effect
<1>. QED
  BY <1>2, <1>4, <1>5

\* A relay dies.
LEMMA CrashRelayInv ==
    ASSUME Inv, NEW k \in Relays, CrashRelay(k)
    PROVE  Inv'
<1>1. Grows /\ UNCHANGED <<offsetVars, step, attempt, effectVars, failed, blurred>>
  BY SMTT(30) DEF Grows, TypeOK, CrashRelay, Answer, Fault, Effect
<1>2. OffsetInv' /\ DeliveryInv'
  BY <1>1, ConsumerUntouched
<1>3. topic' \in Seq(Payments) /\ Published \subseteq Published'
  BY <1>1, NothingUnpublished
<1>4. TypeOK'
  BY <1>1, <1>3, SMTT(30) DEF TypeOK, offsetVars, effectVars, CrashRelay, Answer, Fault,
     Effect
<1>5. RelayInv'
  BY <1>3, Appended, SMTT(30) DEF TypeOK, RelayInv, NoEventIsLost, CrashRelay, Answer,
     Fault, Effect
<1>. QED
  BY <1>2, <1>4, <1>5

-----------------------------------------------------------------------------
\* The consumer's steps leave the relays and the topic alone.
LEMMA RelaysUntouched ==
    ASSUME RelayInv, UNCHANGED outboxVars
    PROVE  RelayInv'
  BY SMTT(30) DEF RelayInv, NoEventIsLost, Published, outboxVars

\* The next message.
LEMMA FetchMessageInv ==
    ASSUME Inv, FetchMessage
    PROVE  Inv'
<1>1. UNCHANGED outboxVars
  BY DEF FetchMessage
<1>2. RelayInv'
  BY <1>1, RelaysUntouched
<1>3. TypeOK'
  BY <1>1, SMTT(30) DEF TypeOK, Steps, OffsetInv, outboxVars, offsetVars, effectVars,
     FetchMessage
<1>4. OffsetInv'
  BY <1>1, SMTT(30) DEF TypeOK, Steps, OffsetInv, Handled, outboxVars, offsetVars,
     effectVars, FetchMessage
<1>5. DeliveryInv'
  BY <1>1, SMTT(30) DEF TypeOK, Steps, OffsetInv, DeliveryInv, Undelivered, outboxVars,
     offsetVars, effectVars, FetchMessage
<1>. QED
  BY <1>2, <1>3, <1>4, <1>5

\* The lookup of the delivered key.
LEMMA CheckDeliveredInv ==
    ASSUME Inv, CheckDelivered
    PROVE  Inv'
<1>1. UNCHANGED outboxVars
  BY DEF CheckDelivered
<1>2. RelayInv'
  BY <1>1, RelaysUntouched
<1>3. TypeOK'
  BY <1>1, SMTT(30) DEF TypeOK, Steps, OffsetInv, outboxVars, offsetVars, effectVars,
     CheckDelivered, AlreadyDelivered, Event, HandleFails, HandleGoesOn, Answer, Fault,
     Effect
<1>4. OffsetInv'
  BY <1>1, SMTT(30) DEF TypeOK, Steps, OffsetInv, Handled, outboxVars, offsetVars,
     effectVars, CheckDelivered, AlreadyDelivered, Event, HandleFails, HandleGoesOn,
     Answer, Fault, Effect
<1>5. DeliveryInv'
  BY <1>1, SMTT(30) DEF TypeOK, Steps, OffsetInv, DeliveryInv, Undelivered, outboxVars,
     offsetVars, effectVars, CheckDelivered, AlreadyDelivered, Event, HandleFails,
     HandleGoesOn, Answer, Fault, Effect
<1>. QED
  BY <1>2, <1>3, <1>4, <1>5

\* The merchant is looked up.
LEMMA GetWebhookConfigInv ==
    ASSUME Inv, GetWebhookConfig
    PROVE  Inv'
<1>1. UNCHANGED outboxVars
  BY DEF GetWebhookConfig
<1>2. RelayInv'
  BY <1>1, RelaysUntouched
<1>3. TypeOK'
  BY <1>1, SMTT(30) DEF TypeOK, Steps, OffsetInv, outboxVars, offsetVars, effectVars,
     GetWebhookConfig, Event, HandleFails, HandleGoesOn, Answer, Fault, Effect
<1>4. OffsetInv'
  BY <1>1, SMTT(30) DEF TypeOK, Steps, OffsetInv, Handled, outboxVars, offsetVars,
     effectVars, GetWebhookConfig, Event, HandleFails, HandleGoesOn, Answer, Fault, Effect
<1>5. DeliveryInv'
  BY <1>1, SMTT(30) DEF TypeOK, Steps, OffsetInv, DeliveryInv, Undelivered, outboxVars,
     offsetVars, effectVars, GetWebhookConfig, Event, HandleFails, HandleGoesOn, Answer,
     Fault, Effect
<1>. QED
  BY <1>2, <1>3, <1>4, <1>5

\* An attempt.
LEMMA PostWebhookInv ==
    ASSUME Inv, PostWebhook
    PROVE  Inv'
<1>1. UNCHANGED outboxVars
  BY DEF PostWebhook
<1>2. RelayInv'
  BY <1>1, RelaysUntouched
<1>3. TypeOK'
  BY <1>1, SMTT(30) DEF TypeOK, Steps, OffsetInv, outboxVars, offsetVars, effectVars,
     PostWebhook, Accepted, Event, HandleFails, HandleGoesOn, Answer, Fault, Effect
<1>4. OffsetInv'
  BY <1>1, SMTT(30) DEF TypeOK, Steps, OffsetInv, Handled, outboxVars, offsetVars,
     effectVars, PostWebhook, Accepted, Event, HandleFails, HandleGoesOn, Answer, Fault,
     Effect
<1>5. DeliveryInv'
  BY <1>1, SMTT(30) DEF TypeOK, Steps, OffsetInv, DeliveryInv, Undelivered, outboxVars,
     offsetVars, effectVars, PostWebhook, Accepted, Event, HandleFails, HandleGoesOn,
     Answer, Fault, Effect
<1>. QED
  BY <1>2, <1>3, <1>4, <1>5

\* The dead letter.
LEMMA PublishDLQInv ==
    ASSUME Inv, PublishDLQ
    PROVE  Inv'
<1>1. UNCHANGED outboxVars
  BY DEF PublishDLQ
<1>2. RelayInv'
  BY <1>1, RelaysUntouched
<1>3. TypeOK'
  BY <1>1, SMTT(30) DEF TypeOK, Steps, OffsetInv, outboxVars, offsetVars, effectVars,
     PublishDLQ, AfterDLQError, Event, HandleFails, HandleGoesOn, Answer, Fault, Effect
<1>4. OffsetInv'
  BY <1>1, SMTT(30) DEF TypeOK, Steps, OffsetInv, Handled, outboxVars, offsetVars,
     effectVars, PublishDLQ, AfterDLQError, Event, HandleFails, HandleGoesOn, Answer,
     Fault, Effect
<1>5. DeliveryInv'
  BY <1>1, SMTT(30) DEF TypeOK, Steps, OffsetInv, DeliveryInv, Undelivered, outboxVars,
     offsetVars, effectVars, PublishDLQ, AfterDLQError, Event, HandleFails, HandleGoesOn,
     Answer, Fault, Effect
<1>. QED
  BY <1>2, <1>3, <1>4, <1>5

\* The delivered key.
LEMMA MarkDeliveredInv ==
    ASSUME Inv, MarkDelivered
    PROVE  Inv'
<1>1. UNCHANGED outboxVars
  BY DEF MarkDelivered
<1>2. RelayInv'
  BY <1>1, RelaysUntouched
<1>3. TypeOK'
  BY <1>1, SMTT(30) DEF TypeOK, Steps, OffsetInv, outboxVars, offsetVars, effectVars,
     MarkDelivered, Event, HandleFails, HandleGoesOn, Answer, Fault, Effect
<1>4. OffsetInv'
  BY <1>1, SMTT(30) DEF TypeOK, Steps, OffsetInv, Handled, outboxVars, offsetVars,
     effectVars, MarkDelivered, Event, HandleFails, HandleGoesOn, Answer, Fault, Effect
<1>5. DeliveryInv'
  BY <1>1, SMTT(30) DEF TypeOK, Steps, OffsetInv, DeliveryInv, Undelivered, outboxVars,
     offsetVars, effectVars, MarkDelivered, Event, HandleFails, HandleGoesOn, Answer,
     Fault, Effect
<1>. QED
  BY <1>2, <1>3, <1>4, <1>5

\* The offset is noted.
LEMMA CommitMessagesInv ==
    ASSUME Inv, CommitMessages
    PROVE  Inv'
<1>1. UNCHANGED outboxVars
  BY DEF CommitMessages
<1>2. RelayInv'
  BY <1>1, RelaysUntouched
<1>3. TypeOK'
  BY <1>1, SMTT(30) DEF TypeOK, Steps, OffsetInv, outboxVars, offsetVars, effectVars,
     CommitMessages
<1>4. OffsetInv'
  BY <1>1, SMTT(30) DEF TypeOK, Steps, OffsetInv, Handled, outboxVars, offsetVars,
     effectVars, CommitMessages
<1>5. DeliveryInv'
  BY <1>1, SMTT(30) DEF TypeOK, Steps, OffsetInv, DeliveryInv, Undelivered, outboxVars,
     offsetVars, effectVars, CommitMessages
<1>. QED
  BY <1>2, <1>3, <1>4, <1>5

\* The offset is sent.
LEMMA FlushCommitsInv ==
    ASSUME Inv, FlushCommits
    PROVE  Inv'
<1>1. UNCHANGED outboxVars
  BY DEF FlushCommits
<1>2. RelayInv'
  BY <1>1, RelaysUntouched
<1>3. TypeOK'
  BY <1>1, SMTT(30) DEF TypeOK, Steps, OffsetInv, outboxVars, offsetVars, effectVars,
     FlushCommits
<1>4. OffsetInv'
  BY <1>1, SMTT(30) DEF TypeOK, Steps, OffsetInv, Handled, outboxVars, offsetVars,
     effectVars, FlushCommits
<1>5. DeliveryInv'
  BY <1>1, SMTT(30) DEF TypeOK, Steps, OffsetInv, DeliveryInv, Undelivered, outboxVars,
     offsetVars, effectVars, FlushCommits
<1>. QED
  BY <1>2, <1>3, <1>4, <1>5

\* The consumer dies.
LEMMA CrashConsumerInv ==
    ASSUME Inv, CrashConsumer
    PROVE  Inv'
<1>1. UNCHANGED outboxVars
  BY DEF CrashConsumer
<1>2. RelayInv'
  BY <1>1, RelaysUntouched
<1>3. TypeOK'
  BY <1>1, SMTT(30) DEF TypeOK, Steps, OffsetInv, outboxVars, offsetVars, effectVars,
     CrashConsumer, RestartAt, Event, HandleFails, HandleGoesOn, Answer, Fault, Effect
<1>4. OffsetInv'
  BY <1>1, SMTT(30) DEF TypeOK, Steps, OffsetInv, Handled, outboxVars, offsetVars,
     effectVars, CrashConsumer, RestartAt, Event, HandleFails, HandleGoesOn, Answer, Fault,
     Effect
<1>5. DeliveryInv'
  BY <1>1, SMTT(30) DEF TypeOK, Steps, OffsetInv, DeliveryInv, Undelivered, outboxVars,
     offsetVars, effectVars, CrashConsumer, RestartAt, Event, HandleFails, HandleGoesOn,
     Answer, Fault, Effect
<1>. QED
  BY <1>2, <1>3, <1>4, <1>5

\* A delivered key expires.
LEMMA KeyExpiresInv ==
    ASSUME Inv, DeliveredKeyExpires
    PROVE  Inv'
<1>1. UNCHANGED outboxVars
  BY DEF DeliveredKeyExpires
<1>2. RelayInv'
  BY <1>1, RelaysUntouched
<1>3. TypeOK'
  BY <1>1, SMTT(30) DEF TypeOK, Steps, OffsetInv, outboxVars, offsetVars, effectVars,
     DeliveredKeyExpires, Event, HandleFails, HandleGoesOn, Answer, Fault, Effect
<1>4. OffsetInv'
  BY <1>1, SMTT(30) DEF TypeOK, Steps, OffsetInv, Handled, outboxVars, offsetVars,
     effectVars, DeliveredKeyExpires, Event, HandleFails, HandleGoesOn, Answer, Fault,
     Effect
<1>5. DeliveryInv'
  BY <1>1, SMTT(30) DEF TypeOK, Steps, OffsetInv, DeliveryInv, Undelivered, outboxVars,
     offsetVars, effectVars, DeliveredKeyExpires, Event, HandleFails, HandleGoesOn, Answer,
     Fault, Effect
<1>. QED
  BY <1>2, <1>3, <1>4, <1>5

\* Inv is kept by every step.
LEMMA NextInv == Inv /\ [Next]_vars => Inv'
<1>. SUFFICES ASSUME Inv, [Next]_vars PROVE Inv'
  OBVIOUS
<1>1. CASE UNCHANGED vars
  <2>1. OffsetInv' /\ DeliveryInv'
    BY <1>1, ConsumerUntouched DEF vars, Grows, offsetVars, effectVars
  <2>2. RelayInv'
    BY <1>1, RelaysUntouched DEF vars, outboxVars
  <2>3. TypeOK'
    BY <1>1 DEF vars, TypeOK
  <2>. QED
    BY <2>1, <2>2, <2>3
<1>2. CASE Consume
  BY <1>2, FetchMessageInv, CheckDeliveredInv, GetWebhookConfigInv, PostWebhookInv,
     PublishDLQInv, MarkDeliveredInv, CommitMessagesInv DEF Consume
<1>3. ASSUME NEW k \in Relays,
             ListOutbox(k) \/ WriteMessages(k) \/ DeleteOutbox(k) \/ CrashRelay(k)
      PROVE  Inv'
  BY <1>3, ListOutboxInv, WriteMessagesInv, DeleteOutboxInv, CrashRelayInv
<1>. QED
  BY <1>1, <1>2, <1>3, SettleInv, FlushCommitsInv, CrashConsumerInv, KeyExpiresInv
     DEF Next, Quiescent

-----------------------------------------------------------------------------
\* Inv holds in every reachable state, whatever fails or dies.
THEOREM Invariance == Spec => []Inv
  BY InitInv, NextInv, PTL DEF Spec

\* OutboxRelay.flush: the event of a settled payment is in the outbox or in the
\* topic, for any number of relays that publish and delete the same rows.
THEOREM EventsAreKept == Spec => []NoEventIsLost
<1>1. Inv => NoEventIsLost
  BY DEF RelayInv
<1>. QED
  BY <1>1, Invariance, PTL

\* Consumer.Run: no commit passes over a message that is still to be handled.
THEOREM CommitsFollowHandling == Spec => []CommittedIsHandled
<1>1. Inv => CommittedIsHandled
  BY SMTT(30) DEF TypeOK, OffsetInv, CommittedIsHandled
<1>. QED
  BY <1>1, Invariance, PTL

\* Deliverer.Deliver: at most one webhook for an event, however often it is
\* published and read, unless the record of a delivery was lost.
THEOREM SecondWebhookIsBlurred == Spec => []DuplicatesAreBlurred
<1>1. Inv => DuplicatesAreBlurred
  BY SMTT(30) DEF TypeOK, DeliveryInv, DuplicatesAreBlurred
<1>. QED
  BY <1>1, Invariance, PTL
=============================================================================
