-------------------------------- MODULE Inbox --------------------------------
(***************************************************************************)
(* The idempotent consumer, pkg/patterns/inbox: Process asks the storage   *)
(* whether the message was handled before, calls the handler and records   *)
(* the message afterwards.  The three are separate calls, each of which    *)
(* may fail, and calls for the same message may overlap.  Recorded entries *)
(* survive a crash; the cleanup goroutine deletes old ones.                *)
(*                                                                         *)
(* Every step takes its outcome as a parameter, so that a module that      *)
(* composes the inbox can bound the failures.                              *)
(***************************************************************************)
EXTENDS Naturals

CONSTANTS
  Messages,  \* message identifiers
  Slots      \* the goroutines that call Process

VARIABLES
  recorded,  \* messages with an inbox entry of this handler
  call,      \* the call of Process of each goroutine
  handled,   \* history: how many times the handler took effect, per message
  forgotten  \* history: how many times that went unrecorded or was deleted

NoCall == [pc |-> "none"]

InboxInit == /\ recorded = {}
             /\ call = [w \in Slots |-> NoCall]
             /\ handled = [m \in Messages |-> 0]
             /\ forgotten = [m \in Messages |-> 0]

Goto(w, l) == call' = [call EXCEPT ![w] = [pc |-> l, id |-> call[w].id]]

\* Process returns; a caller learns from the step's outcome whether with an error.
Return(w) == call' = [call EXCEPT ![w] = NoCall]

\* Mutant of Process: the check for a processed message is left out
ProcessUnchecked(w, m) ==
  /\ call[w] = NoCall
  /\ call' = [call EXCEPT ![w] = [pc |-> "handle", id |-> m]]
  /\ UNCHANGED <<recorded, handled, forgotten>>

Process(w, m) ==
  /\ call[w] = NoCall
  /\ call' = [call EXCEPT ![w] = [pc |-> "check", id |-> m]]
  /\ UNCHANGED <<recorded, handled, forgotten>>

\* Mutant of IsProcessedByHandler: the message is recorded before it is handled
RecordsFirst(w, ok) ==
  /\ call[w].pc = "check"
  /\ IF call[w].id \in recorded
     THEN Return(w) /\ UNCHANGED recorded
     ELSE Goto(w, "handle") /\ recorded' = recorded \cup {call[w].id}
  /\ UNCHANGED <<handled, forgotten>>

\* storage.IsProcessedByHandler
IsProcessedByHandler(w, ok) ==
  /\ call[w].pc = "check"
  /\ IF ok /\ call[w].id \notin recorded THEN Goto(w, "handle") ELSE Return(w)
  /\ UNCHANGED <<recorded, handled, forgotten>>

\* handler.Handle
HandleMessage(w, ok) ==
  /\ call[w].pc = "handle"
  /\ IF ok THEN /\ handled' = [handled EXCEPT ![call[w].id] = @ + 1]
                /\ Goto(w, "record")
           ELSE Return(w) /\ UNCHANGED handled
  /\ UNCHANGED <<recorded, forgotten>>

\* storage.RecordMessage.  Process returns the error of a failed one.
RecordMessage(w, ok) ==
  /\ call[w].pc = "record"
  /\ IF ok THEN recorded' = recorded \cup {call[w].id} /\ UNCHANGED forgotten
           ELSE /\ forgotten' = [forgotten EXCEPT ![call[w].id] = @ + 1]
                /\ UNCHANGED recorded
  /\ Return(w)
  /\ UNCHANGED handled

\* The process dies: the calls end where they are.
InboxCrash ==
  /\ call' = [w \in Slots |-> NoCall]
  /\ forgotten' = [m \in Messages |->
                     IF \E w \in Slots : call[w].pc = "record" /\ call[w].id = m
                     THEN forgotten[m] + 1 ELSE forgotten[m]]
  /\ UNCHANGED <<recorded, handled>>

\* The cleanup goroutine deletes an entry that is old enough.
DeleteBefore(m) ==
  /\ m \in recorded
  /\ recorded' = recorded \ {m}
  /\ forgotten' = [forgotten EXCEPT ![m] = @ + 1]
  /\ UNCHANGED <<call, handled>>
=============================================================================
