---------------------------- MODULE Publication ----------------------------
(***************************************************************************)
(* What pkg/patterns/outbox promises to its users, without its storage,    *)
(* its workers or its retries: an event becomes visible to the broker only *)
(* after the business transaction that wrote it has committed, and an      *)
(* event is put aside only once the broker has it or after the processor   *)
(* gave it up.  The broker may be given the same event several times.      *)
(***************************************************************************)
EXTENDS Naturals

CONSTANT Messages    \* the identifiers of the outbox entries

VARIABLES
  committed,  \* entries whose transaction committed
  sent,       \* how many times the broker accepted each entry
  settled,    \* entries the outbox no longer has to publish
  gaveUp      \* entries marked as failed

pubVars == <<committed, sent, settled, gaveUp>>

PubInit == /\ committed = {}
           /\ sent = [m \in Messages |-> 0]
           /\ settled = {}
           /\ gaveUp = {}

\* A business transaction commits and its events with it.
CommitEvents(S) == /\ committed' = committed \cup S
                   /\ UNCHANGED <<sent, settled, gaveUp>>

\* The broker accepts one more copy of a committed event.
Send(m) == /\ m \in committed
           /\ sent' = [sent EXCEPT ![m] = @ + 1]
           /\ UNCHANGED <<committed, settled, gaveUp>>

\* An event the broker holds is put aside.
Settle(m) == /\ sent[m] > 0
             /\ settled' = settled \cup {m}
             /\ UNCHANGED <<committed, sent, gaveUp>>

\* An event is given up after too many publish errors.
GiveUp(m) == /\ m \in committed
             /\ settled' = settled \cup {m}
             /\ gaveUp' = gaveUp \cup {m}
             /\ UNCHANGED <<committed, sent>>

PubNext == \/ \E S \in SUBSET Messages : CommitEvents(S)
           \/ \E m \in Messages : Send(m) \/ Settle(m) \/ GiveUp(m)

PubSpec == PubInit /\ [][PubNext]_pubVars
=============================================================================
