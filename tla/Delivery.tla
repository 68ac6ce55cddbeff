------------------------------ MODULE Delivery ------------------------------
(***************************************************************************)
(* From the outbox to the handler: events published as Publication allows  *)
(* (Outbox implements it), a RabbitMQ subscription (RabbitConsumer), and a *)
(* handler that runs behind the inbox (Inbox).  A worker calls Process and *)
(* acts on what it returns.                                                *)
(***************************************************************************)
EXTENDS RabbitConsumer

CONSTANTS
  MaxCopies,  \* bound on the copies of each event the broker is given
  MaxFaults   \* bound on failed calls of the handler, of the storage and of
              \* Publish, lost sessions, crashes, unsubscribes, pauses from
              \* outside and cleanups

VARIABLES
  recorded, call, handled, forgotten,  \* of the inbox
  committed, sent, settled, gaveUp,    \* of the publishing side
  faults

ASSUME DeliveryAssumption ==
  /\ IsFiniteSet(Slots) /\ MaxFaults \in Nat

INSTANCE Inbox
Source == INSTANCE Publication

inboxVars == <<recorded, call, handled, forgotten>>
sourceVars == <<committed, sent, settled, gaveUp>>
vars == <<consumerVars, inboxVars, sourceVars, faults>>

\* The events of Messages are committed; whether and when the outbox puts them
\* aside does not matter to the consumer.
Init == /\ ConsumerInit /\ InboxInit
        /\ committed = Messages
        /\ sent = [m \in Messages |-> 0]
        /\ settled = {} /\ gaveUp = {}
        /\ faults = 0

Fault == faults < MaxFaults /\ faults' = faults + 1
Outcome(ok) == IF ok THEN UNCHANGED faults ELSE Fault

Publish(m) ==
  /\ sent[m] < MaxCopies
  /\ Source!Send(m) /\ Arrives(m)
  /\ UNCHANGED <<inboxVars, faults>>

\* The steps of the broker and of the subscription that nothing else sees.
Quiet ==
  /\ \/ RetryExpires \/ Deliver
     \/ Subscribe \/ Resume \/ Await \/ Take \/ Reconnect \/ LoopLeaves
     \/ \E w \in Slots : WorkerStep(w)
  /\ UNCHANGED <<inboxVars, sourceVars, faults>>

Disturb ==
  /\ LoseSession \/ Unsubscribe \/ Pause \/ \E w \in Slots : RepublishFails(w)
  /\ Fault
  /\ UNCHANGED <<inboxVars, sourceVars>>

Work(w) ==
  /\ \/ StartWorker(w) /\ Process(w, hand.id) /\ UNCHANGED faults
     \/ \E ok \in BOOLEAN :
          /\ IsProcessedByHandler(w, ok) \/ HandleMessage(w, ok) \/ RecordMessage(w, ok)
          /\ Outcome(ok)
          /\ CASE call'[w] # NoCall -> UNCHANGED consumerVars
               [] call'[w] = NoCall /\ ok -> HandlerSucceeds(w)
               [] call'[w] = NoCall /\ ~ok -> \E a \in Actions : HandlerFails(w, a)
  /\ UNCHANGED sourceVars

Crash ==
  /\ ConsumerCrash /\ InboxCrash /\ Fault
  /\ UNCHANGED sourceVars

Cleanup ==
  /\ \E m \in Messages : DeleteBefore(m)
  /\ Fault
  /\ UNCHANGED <<consumerVars, sourceVars>>

Next == \/ \E m \in Messages : Publish(m)
        \/ Quiet \/ Disturb \/ Crash \/ Cleanup
        \/ \E w \in Slots : Work(w)

(* The broker delivers, the goroutines of the subscriber are scheduled, a     *)
(* subscription that ended is started again and one that was paused is resumed. *)
Progress == Quiet \/ \E w \in Slots : Work(w)
Spec == Init /\ [][Next]_vars /\ WF_vars(Progress)

---------------------------------------------------------------------------
(* Properties.                                                             *)

In(m, queue) == \E i \in DOMAIN queue : queue[i].id = m
BrokerHolds(m) == In(m, ready) \/ In(m, retryQueue) \/ In(m, unacked) \/ m \in dlq

Labels == {"idle", "handle", "orphan", "ack", "retry", "dead", "nack", "settle", "gone"}

\* Types; only an open session has deliveries and tags, and a worker of
\* consumeLoop has a delivery exactly while it runs and a call of Process exactly
\* while it handles it.
TypeOK == /\ ready \in Seq(Queued) /\ retryQueue \in Seq(Queued)
          /\ dlq \subseteq Messages /\ nextTag \in Nat \ {0}
          /\ \A i \in DOMAIN unacked : /\ unacked[i].own /\ unacked[i].tag < nextTag
                                       /\ unacked[i] \in Deliveries
          /\ sub \in {"off", "on", "cancelled", "left"}
          /\ open => sub \in {"on", "cancelled"}
          /\ ~open => unacked = <<>> /\ buffer = <<>>
          /\ paused \in BOOLEAN /\ (waits => hand = Nothing /\ sub \in {"on", "cancelled"})
          /\ pc \in [Slots -> Labels]
          /\ \A w \in Slots : /\ (pc[w] = "idle") <=> (job[w] = Nothing)
                              /\ (pc[w] \in Handling) <=> (call[w] # NoCall)
                              /\ pc[w] \in Republishing => open
                              /\ call[w] # NoCall => call[w].id = job[w].id
          /\ recorded \subseteq Messages
          /\ faults \in 0..MaxFaults

\* With manual acknowledgments no message is lost between the broker and the
\* handler: what the broker was given and holds no longer was handled, or the
\* handler asked to discard it, or the worker of a lost session acknowledged it
\* (consumeLoop, retryMessage, deadLetterMessage); crashes, lost sessions and
\* Unsubscribe while workers are running do not change that.
NeverDropped ==
  ~autoAck => \A m \in Messages : sent[m] > 0 =>
    BrokerHolds(m) \/ handled[m] > 0 \/ m \in discarded \/ m \in misacked

\* The same without the exception: a message is acknowledged only for what was done
\* with it.  "Ack acknowledges successful processing of the message"
\* (pkg/messaging/subscriber.go).
AckedAfterProcessing ==
  ~autoAck => \A m \in Messages : sent[m] > 0 =>
    BrokerHolds(m) \/ handled[m] > 0 \/ m \in discarded

\* The inbox makes redeliveries harmless except where it must forget: a message takes
\* effect at most once per concurrent worker, and once more per worker each time its
\* record was not written or was deleted (Process checks, handles and then records).
HandledOnceUnlessForgotten ==
  \A m \in Messages : handled[m] <= Cardinality(Slots) * (1 + forgotten[m])

\* A message recorded in the inbox has taken effect: no crash or failure between the
\* check, the handler and the record makes the inbox swallow a message (Process).
RecordedMeansHandled == \A m \in recorded : handled[m] > 0

\* With manual acknowledgments every message the broker was given is handled,
\* discarded or dead-lettered in the end, or was acknowledged by the worker of a lost
\* session: neither a reconnect nor a pause leaves the subscription stuck (consumeLoop).
EventuallyProcessed ==
  \A m \in Messages :
    (~autoAck /\ sent[m] > 0) ~> (handled[m] > 0 \/ m \in discarded \cup dlq \cup misacked)
=============================================================================
