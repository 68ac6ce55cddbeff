--------------------------- MODULE RabbitConsumer ---------------------------
(***************************************************************************)
(* A RabbitMQ subscription, pkg/messaging/rabbitmq/consumer.go, and the    *)
(* queues of the broker it works on.  The broker pushes deliveries over a  *)
(* session (an AMQP channel) and keeps each until it is acknowledged by    *)
(* its tag; tags count from 1 in every session.  consumeLoop takes a       *)
(* delivery, waits for a free slot and starts a worker for it; when the    *)
(* session is lost it opens another one while workers of the old session   *)
(* may still be running.  A worker acknowledges on the session consumeLoop *)
(* holds at that moment; retryMessage and deadLetterMessage keep the one   *)
(* they were called with.  Unsubscribe need not wait for the workers, so   *)
(* those of a subscriber whose loop has left may run beside the next one.  *)
(*                                                                         *)
(* The handler, and the faults (a lost session, a crash), belong to the    *)
(* environment and are bounded by the module that composes this one.       *)
(***************************************************************************)
EXTENDS Naturals, Sequences, FiniteSets

CONSTANTS
  Messages,    \* message identifiers
  Slots,       \* worker goroutines, of this subscriber and of earlier ones
  Concurrency, \* how many of them one subscriber runs at a time
  Prefetch,    \* PrefetchCount
  MaxRetries   \* DeadLetter.MaxRetries

ASSUME ConsumerAssumption ==
  /\ Prefetch \in Nat \ {0} /\ MaxRetries \in Nat \ {0} /\ Concurrency \in Nat \ {0}

VARIABLES
  \* the broker
  ready, retryQueue, \* the queue and its .retry queue, of [id, attempt]
  dlq,               \* messages in the .dlq queue
  unacked,           \* deliveries of the session that wait for their ack
  nextTag,
  \* the subscriber
  autoAck,  \* its Processing.AckMode is auto
  sub,      \* "off", "on", "cancelled" (its context), "left" (its loop)
  open,     \* the session consumeLoop holds is open
  buffer,   \* deliveries received over it
  hand,     \* the delivery for which consumeLoop waits for a slot
  paused,
  waits,    \* consumeLoop has looked at paused and waits for a delivery
  job, pc,  \* what each worker works on, and where it is
  \* history
  misacked,  \* messages acknowledged by the worker of another delivery
  discarded  \* messages the handler asked to discard

brokerVars == <<ready, retryQueue, dlq, unacked, nextTag>>
loopVars == <<autoAck, sub, open, buffer, hand, paused, waits>>
workVars == <<job, pc>>
logVars == <<misacked, discarded>>
consumerVars == <<brokerVars, loopVars, workVars, logVars>>

Queued == [id : Messages, attempt : 0..(MaxRetries - 1)]

\* A delivery as its receivers hold it: own while its session lasts, pause when
\* OnError answered ErrorActionPause for it.
Deliveries == [tag : Nat \ {0}, id : Messages, attempt : 0..(MaxRetries - 1),
               own : BOOLEAN, pause : BOOLEAN]
Nothing == [tag |-> 0]

ConsumerInit ==
  /\ ready = <<>> /\ retryQueue = <<>> /\ dlq = {}
  /\ unacked = <<>> /\ nextTag = 1
  /\ autoAck \in BOOLEAN
  /\ sub = "off" /\ open = FALSE /\ buffer = <<>> /\ hand = Nothing
  /\ paused = FALSE /\ waits = FALSE
  /\ job = [w \in Slots |-> Nothing] /\ pc = [w \in Slots |-> "idle"]
  /\ misacked = {} /\ discarded = {}

Content(d) == [id |-> d.id, attempt |-> d.attempt]

---------------------------------------------------------------------------
(* The broker.                                                             *)

\* A publisher's message arrives.
Arrives(m) ==
  /\ ready' = Append(ready, [id |-> m, attempt |-> 0])
  /\ UNCHANGED <<retryQueue, dlq, unacked, nextTag, loopVars, workVars, logVars>>

\* The time to live of the first message of the .retry queue is over.
RetryExpires ==
  /\ retryQueue # <<>>
  /\ ready' = Append(ready, Head(retryQueue))
  /\ retryQueue' = Tail(retryQueue)
  /\ UNCHANGED <<dlq, unacked, nextTag, loopVars, workVars, logVars>>

\* The broker pushes a message over the session.
Deliver ==
  /\ open /\ ready # <<>>
  /\ Len(IF autoAck THEN buffer ELSE unacked) < Prefetch
  /\ LET d == [tag |-> nextTag, id |-> Head(ready).id, attempt |-> Head(ready).attempt,
               own |-> TRUE, pause |-> FALSE] IN
     /\ buffer' = Append(buffer, d)
     /\ unacked' = IF autoAck THEN unacked ELSE Append(unacked, d)
  /\ ready' = Tail(ready)
  /\ nextTag' = nextTag + 1
  /\ UNCHANGED <<autoAck, retryQueue, dlq, sub, open, hand, paused, waits, workVars, logVars>>

\* Whoever still holds a delivery of the session that ends.
Disown(d) == IF d = Nothing THEN d ELSE [d EXCEPT !.own = FALSE]

\* The session ends: the broker puts what was not acknowledged back at the head
\* of the queue, and the deliveries consumeLoop has not taken are dropped.
SessionEnds ==
  /\ open' = FALSE
  /\ ready' = [i \in DOMAIN unacked |-> Content(unacked[i])] \o ready
  /\ unacked' = <<>> /\ buffer' = <<>>
  /\ nextTag' = 1

\* retryMessage and deadLetterMessage work on that session to their end: what
\* they have not done on it yet fails, Nack included.
Republishing == {"retry", "dead", "nack", "settle"}
CutOff(l) == IF l \in Republishing THEN "gone" ELSE l
Strand ==
  /\ job' = [w \in Slots |-> Disown(job[w])]
  /\ pc' = [w \in Slots |-> CutOff(pc[w])]

LoseSession ==
  /\ open
  /\ SessionEnds /\ Strand
  /\ hand' = Disown(hand)
  /\ UNCHANGED <<autoAck, retryQueue, dlq, sub, paused, waits, logVars>>

---------------------------------------------------------------------------
(* The subscriber.                                                         *)

Handling == {"handle", "orphan"}

\* Subscribe, of a new subscriber: startConsumer opens a session.
Subscribe ==
  /\ sub \in {"off", "left"}
  /\ sub' = "on" /\ open' = TRUE /\ paused' = FALSE /\ waits' = FALSE
  /\ UNCHANGED <<autoAck, brokerVars, buffer, hand, workVars, logVars>>

\* Unsubscribe cancels; that it waits for the workers, until its own context
\* ends, holds nobody else up.
Unsubscribe ==
  /\ sub = "on"
  /\ sub' = "cancelled"
  /\ UNCHANGED <<autoAck, brokerVars, open, buffer, hand, paused, waits, workVars, logVars>>

Pause ==
  /\ sub = "on" /\ ~paused
  /\ paused' = TRUE
  /\ UNCHANGED <<autoAck, brokerVars, sub, open, buffer, hand, waits, workVars, logVars>>

Resume ==
  /\ paused
  /\ paused' = FALSE
  /\ UNCHANGED <<autoAck, brokerVars, sub, open, buffer, hand, waits, workVars, logVars>>

\* The top of consumeLoop: it is not paused, and from now on waits for a delivery
\* whether it is paused or not.
Await ==
  /\ sub \in {"on", "cancelled"} /\ hand = Nothing
  /\ ~paused /\ ~waits
  /\ waits' = TRUE
  /\ UNCHANGED <<autoAck, brokerVars, sub, open, buffer, hand, paused, workVars, logVars>>

\* consumeLoop takes a delivery.  Its select may do so although the context is
\* already cancelled.
Take ==
  /\ waits /\ buffer # <<>>
  /\ waits' = FALSE
  /\ hand' = Head(buffer)
  /\ buffer' = Tail(buffer)
  /\ UNCHANGED <<autoAck, brokerVars, sub, open, paused, workVars, logVars>>

\* A slot is free: the delivery goes to a worker.
StartWorker(w) ==
  /\ sub \in {"on", "cancelled"}
  /\ hand # Nothing /\ pc[w] = "idle"
  /\ Cardinality({v \in Slots : pc[v] \notin {"idle", "orphan"}}) < Concurrency
  /\ job' = [job EXCEPT ![w] = hand]
  /\ pc' = [pc EXCEPT ![w] = "handle"]
  /\ hand' = Nothing
  /\ UNCHANGED <<autoAck, brokerVars, sub, open, buffer, paused, waits, logVars>>

\* Mutant of Reconnect: no attempt ever succeeds
ReconnectRetriesForever ==
  /\ sub = "on" /\ waits /\ ~open
  /\ UNCHANGED <<brokerVars, loopVars, workVars, logVars>>

\* consumeLoop finds its deliveries channel closed and starts a consumer anew.
Reconnect ==
  /\ sub = "on" /\ waits /\ ~open
  /\ open' = TRUE /\ waits' = FALSE
  /\ UNCHANGED <<autoAck, brokerVars, sub, buffer, hand, paused, workVars, logVars>>

\* Mutant of LoopLeaves: teardownConsumer is not called
LoopLeavesSessionOpen ==
  /\ sub = "cancelled"
  /\ sub' = "left" /\ waits' = FALSE
  /\ hand' = Nothing
  /\ UNCHANGED <<autoAck, brokerVars, open, buffer, paused, workVars, logVars>>

\* consumeLoop sees its context done and tears the session down; what it held,
\* and what its workers hold, goes back to the queue.  The handlers that run end
\* some time; whatever the workers do after them fails on the closed session.
LoopLeaves ==
  /\ sub = "cancelled"
  /\ sub' = "left" /\ waits' = FALSE
  /\ hand' = Nothing
  /\ SessionEnds
  /\ job' = [w \in Slots |-> IF pc[w] \in Handling THEN Disown(job[w]) ELSE Nothing]
  /\ pc' = [w \in Slots |-> IF pc[w] \in Handling THEN "orphan" ELSE "idle"]
  /\ UNCHANGED <<autoAck, retryQueue, dlq, paused, logVars>>

---------------------------------------------------------------------------
(* A worker.                                                               *)

\* What the handler's OnError may answer.
Actions == {"retry", "deadLetter", "discard", "pause"}

Finish(w) ==
  /\ job' = [job EXCEPT ![w] = Nothing]
  /\ pc' = [pc EXCEPT ![w] = "idle"]

\* What follows the handler is left out, or in vain.
NothingToDo(w) == autoAck \/ pc[w] = "orphan"

\* The handler succeeded.
HandlerSucceeds(w) ==
  /\ pc[w] \in Handling
  /\ IF NothingToDo(w) THEN Finish(w)
                       ELSE pc' = [pc EXCEPT ![w] = "ack"] /\ UNCHANGED job
  /\ UNCHANGED <<brokerVars, loopVars, logVars>>

\* Mutant of HandlerFails: a dead letter is acknowledged and not published
HandlerFailsUnnoticed(w, a) ==
  /\ pc[w] \in Handling
  /\ LET d == job[w] IN
     IF NothingToDo(w) THEN Finish(w) /\ UNCHANGED discarded
     ELSE /\ pc' = [pc EXCEPT ![w] =
               CASE a \in {"discard", "deadLetter"} -> "ack"
                 [] a \in {"retry", "pause"} /\ open ->
                      IF d.attempt + 1 >= MaxRetries THEN "dead" ELSE "retry"
                 [] a \in {"retry", "pause"} /\ ~open -> "gone"]
          /\ job' = [job EXCEPT ![w].pause = (a = "pause")]
          /\ discarded' = IF a = "discard" THEN discarded \cup {d.id} ELSE discarded
  /\ UNCHANGED <<brokerVars, loopVars, misacked>>

\* The handler failed and OnError answered a.  retryMessage and deadLetterMessage
\* are called with the session of this moment.
HandlerFails(w, a) ==
  /\ pc[w] \in Handling
  /\ LET d == job[w] IN
     IF NothingToDo(w) THEN Finish(w) /\ UNCHANGED discarded
     ELSE /\ pc' = [pc EXCEPT ![w] =
               CASE a = "discard" -> "ack"
                 [] a = "deadLetter" /\ open -> "dead"
                 [] a \in {"retry", "pause"} /\ open ->
                      IF d.attempt + 1 >= MaxRetries THEN "dead" ELSE "retry"
                 [] a # "discard" /\ ~open -> "gone"]
          /\ job' = [job EXCEPT ![w].pause = (a = "pause")]
          /\ discarded' = IF a = "discard" THEN discarded \cup {d.id} ELSE discarded
  /\ UNCHANGED <<brokerVars, loopVars, misacked>>

\* paused.Store(true), the last thing a worker does for ErrorActionPause.
PauseIfAsked(w) == paused' = (paused \/ job[w].pause)

\* retryMessage and deadLetterMessage publish a copy and acknowledge then.
Republish(w) ==
  /\ pc[w] \in {"retry", "dead"}
  /\ LET d == job[w] IN
     IF pc[w] = "dead"
     THEN dlq' = dlq \cup {d.id} /\ UNCHANGED retryQueue
     ELSE /\ retryQueue' = Append(retryQueue, [id |-> d.id, attempt |-> d.attempt + 1])
          /\ UNCHANGED dlq
  /\ pc' = [pc EXCEPT ![w] = "settle"]
  /\ UNCHANGED <<ready, unacked, nextTag, loopVars, job, logVars>>

\* Publish fails although the session is open: they send a Nack.
RepublishFails(w) ==
  /\ pc[w] \in {"retry", "dead"}
  /\ pc' = [pc EXCEPT ![w] = "nack"]
  /\ UNCHANGED <<brokerVars, loopVars, job, logVars>>

\* The deliveries q without the one at i
Without(q, i) == [j \in 1..(Len(q) - 1) |-> IF j < i THEN q[j] ELSE q[j + 1]]

\* channel.Ack(tag) of worker w on the current session, or channel.Nack(tag) with
\* requeue, which puts the message back.
Answer(w, requeue) ==
  LET hits == {i \in DOMAIN unacked : unacked[i].tag = job[w].tag} IN
  \/ /\ ~open
     /\ Finish(w)
     /\ UNCHANGED <<ready, unacked, nextTag, open, buffer, hand, misacked>>
  \/ \E i \in hits :
     /\ open
     /\ unacked' = Without(unacked, i)
     /\ ready' = IF requeue THEN <<Content(unacked[i])>> \o ready ELSE ready
     /\ misacked' = IF requeue \/ job[w].own THEN misacked ELSE misacked \cup {unacked[i].id}
     /\ Finish(w)
     /\ UNCHANGED <<nextTag, open, buffer, hand>>
  \/ \* an unknown tag: the broker closes the channel
     /\ open /\ hits = {}
     /\ SessionEnds
     /\ hand' = Disown(hand)
     /\ job' = [v \in Slots |-> IF v = w THEN Nothing ELSE Disown(job[v])]
     /\ pc' = [v \in Slots |-> IF v = w THEN "idle" ELSE CutOff(pc[v])]
     /\ UNCHANGED misacked

Acknowledge(w) ==
  /\ \/ pc[w] = "ack" /\ Answer(w, FALSE) /\ UNCHANGED paused
     \/ pc[w] = "settle" /\ Answer(w, FALSE) /\ PauseIfAsked(w)
     \/ pc[w] = "nack" /\ Answer(w, TRUE) /\ PauseIfAsked(w)
     \/ /\ pc[w] = "gone" /\ PauseIfAsked(w) /\ Finish(w)
        /\ UNCHANGED <<ready, unacked, nextTag, open, buffer, hand, misacked>>
  /\ UNCHANGED <<autoAck, retryQueue, dlq, sub, waits, discarded>>

WorkerStep(w) == Republish(w) \/ Acknowledge(w)

\* The process dies, its session with it.
ConsumerCrash ==
  /\ sub # "off"
  /\ SessionEnds
  /\ sub' = "off" /\ hand' = Nothing
  /\ paused' = FALSE /\ waits' = FALSE
  /\ job' = [w \in Slots |-> Nothing] /\ pc' = [w \in Slots |-> "idle"]
  /\ UNCHANGED <<autoAck, retryQueue, dlq, logVars>>
=============================================================================
