--------------------------------- MODULE Saga ---------------------------------
(* What a saga promises: its steps are done in order; either all of them are   *)
(* done and the saga commits, or it turns back once and undoes steps, one at a *)
(* time and in the order its strategy fixes, until it has undone everything    *)
(* (aborted) or has had to leave something done (incomplete).  The outcome     *)
(* comes, and is final.                                                        *)
EXTENDS Integers

CONSTANTS
    N,         \* number of steps
    Reverse    \* steps are undone last first, or first first

VARIABLES phase, done, undone

sagaVars == <<phase, done, undone>>

SagaInit == phase = "forward" /\ done = {} /\ undone = {}

DoStep ==
    /\ phase = "forward"
    /\ \E i \in 1 .. N : done = 1 .. (i - 1) /\ done' = 1 .. i
    /\ UNCHANGED <<phase, undone>>

Commit ==
    /\ phase = "forward" /\ done = 1 .. N
    /\ phase' = "committed"
    /\ UNCHANGED <<done, undone>>

TurnBack ==
    /\ phase = "forward"
    /\ phase' = IF done = {} THEN "aborted" ELSE "backward"
    /\ UNCHANGED <<done, undone>>

Undo(i) ==
    /\ phase = "backward" /\ i \in done
    /\ \A j \in undone : IF Reverse THEN i < j ELSE j < i
    /\ undone' = undone \cup {i}
    /\ UNCHANGED <<phase, done>>

Finish ==
    /\ phase = "backward"
    /\ phase' = IF undone = done THEN "aborted" ELSE "incomplete"
    /\ UNCHANGED <<done, undone>>

SagaNext == DoStep \/ Commit \/ TurnBack \/ (\E i \in 1 .. N : Undo(i)) \/ Finish

SagaSpec == SagaInit /\ [][SagaNext]_sagaVars /\ WF_sagaVars(SagaNext)
===============================================================================
