-------------------------- MODULE SagaRecoveryProofs --------------------------
(* Safety of a saga whose process may die and whose recovery may overlap with  *)
(* the coordinator, with other recoveries and with operators: for any number   *)
(* of steps, callers and crashes.                                              *)
(*                                                                             *)
(* The coordinator's own invariant is used without its exact part, which a     *)
(* crash and a recovery break (IInv(FALSE)); to it are added                   *)
(*   Journal   the step at hand is in the storage before it is called;         *)
(*   Marks     so is the mark on the step that somebody compensates, unless    *)
(*             retryCurrentStep has put its record back;                       *)
(*   Truth     a compensation said to have completed has, be it in the         *)
(*             storage or in the hands of who is to record it;                 *)
(*   Readings  what a recovery has read or is about to write is true;          *)
(*   Claimed   the mark in rm.recovering belongs to one recovery that runs.    *)
EXTENDS SagaRecovery, SagaOrchestratorInvariant, FiniteSetTheorems

CompStates == {"none", "Running", "Completed", "Failed", "Exhausted"}
Ends       == {"Completed", "Failed", "Exhausted"}

Has(s, i) == \E k \in DOMAIN s : s[k] = i

Journal ==
    /\ \A i \in done : Has(saved, i)
    /\ pc[Worker] \in {"trying", "running"} => Has(saved, step)

Marked(i) == i \in reset \/ comp[i] # "none"

Marks ==
    /\ comp \in [Steps -> CompStates]
    /\ \A i \in undone : Marked(i)
    /\ \A a \in Undoers : pc[a] \in {"undoing", "compensating"} => Marked(Head(todo[a]))

Truth ==
    /\ \A i \in Steps : comp[i] = "Completed" => i \in undone
    /\ outcome \in [Undoers -> {<<>>} \cup (Steps \X Ends)]
    /\ \A a \in Undoers :
           outcome[a] # <<>> /\ outcome[a][2] = "Completed" => outcome[a][1] \in undone

Positions ==
    /\ currentStep \in Steps \cup {None}
    /\ storedStep \in Steps \cup {None}

Places ==
    [at : {"idle", "gone", "get", "found", "retry", "cancel", "update", "return"},
     claimed : BOOLEAN, state : SagaStates \cup {"none"}, step : Steps \cup {None},
     strategy : {"retry", "compensate", "markFailed"}, record : CompStates,
     output : BOOLEAN]

Readings ==
    /\ rec \in [Managers -> Places]
    /\ \A r \in Managers :
           /\ At(r, "update") => rec[r].state \in SagaStates \ {"Completed"}
           /\ At(r, "retry") => rec[r].step \in Steps
           /\ At(r, "retry") /\ rec[r].record = "Completed" => rec[r].step \in undone

Claimed ==
    /\ recovering \in BOOLEAN
    /\ \A r \in Managers : rec[r].claimed <=> r \in Recoverers /\ ~At(r, "idle")
    /\ recovering <=> \E r \in Managers : rec[r].claimed
    /\ \A r, q \in Managers : rec[r].claimed /\ rec[q].claimed => r = q

(* The inductive invariant *)
RInv ==
    /\ IInv(FALSE) /\ Journal /\ Marks /\ Truth /\ Positions /\ Readings /\ Claimed

-------------------------------------------------------------------------------
USE SagaAssumption, RecoveryAssumption, Zenon DEF Steps, Undoers, Actors, Managers

(* Every step of the coordinator under recovery is one of SagaOrchestrator, or *)
(* records the end of a compensation and changes nothing that it knows.        *)
LEMMA CoordinateNext ==
    ASSUME Coordinate
    PROVE  [Next]_vars
<1>1. CASE StartOrTimeOut
  BY <1>1 DEF StartOrTimeOut, Next
<1>2. CASE BeginStepAt \/ FailStep
  BY <1>2 DEF BeginStepAt, FailStep, Next, executeSteps
<1>3. CASE PersistWithStep
  BY <1>3 DEF PersistWithStep, Next, executeSteps, CancelSaga, FinishCancelSaga, StopSaga,
              FinishStopSaga
<1>4. CASE WorkerStep
  BY <1>4 DEF WorkerStep, Next, executeSteps, Compensate
<1>5. ASSUME NEW c \in Cancellers, CancelStep(c) PROVE Next
  BY <1>5 DEF CancelStep, Next, CancelSaga, FinishCancelSaga, Compensate
<1>6. ASSUME NEW s \in Stoppers, LoadForStop(s) \/ InterruptForStop(s) PROVE Next
  BY <1>6 DEF Next, StopSaga, FinishStopSaga
<1>7. ASSUME NEW a \in Undoers, Undo(a) PROVE [Next]_vars
  <2>1. CASE Compensate(a)
    BY <2>1 DEF Next, executeSteps, CancelSaga, FinishCancelSaga
  <2>2. CASE RecordUndo(a)
    BY <2>2 DEF RecordUndo
  <2>3. QED
    BY <1>7, <2>1, <2>2 DEF Undo, BeginUndo, EndUndo, Compensate
<1>8. QED
  BY <1>1, <1>2, <1>3, <1>4, <1>5, <1>6, <1>7 DEF Coordinate

(* So it keeps the coordinator's part of the invariant.                        *)
LEMMA CoordinateIInv ==
    ASSUME IInv(FALSE), Coordinate
    PROVE  IInv(FALSE)'
BY CoordinateNext, NextIInv

(* The invariant holds when nothing has happened yet.                          *)
LEMMA InitRInv == RecoveryInit => RInv
<1> SUFFICES ASSUME RecoveryInit PROVE RInv
  OBVIOUS
<1>1. IInv(FALSE)
  BY InitIInv DEF RecoveryInit
<1>2. Journal
  BY DEF RecoveryInit, Init, Journal
<1>3. Marks
  BY DEF RecoveryInit, Init, Marks, CompStates
<1>4. Truth
  BY DEF RecoveryInit, Init, Truth
<1>5. Positions
  BY DEF RecoveryInit, Positions
<1>6. Idle \in Places /\ ~Idle.claimed /\ Idle.at = "idle"
  BY DEF Idle, Places, SagaStates, CompStates
<1>7. Readings
  BY <1>6 DEF RecoveryInit, Readings, At
<1>8. Claimed
  BY <1>6 DEF RecoveryInit, Claimed, At
<1>9. QED
  BY <1>1, <1>2, <1>3, <1>4, <1>5, <1>7, <1>8 DEF RInv

-------------------------------------------------------------------------------
(* The records of the steps *)

(* Nobody comes to compensate a step, and no step becomes undone.              *)
UndoStill ==
    /\ undone' = undone
    /\ \A a \in Undoers :
           pc'[a] \in {"undoing", "compensating"} =>
               pc[a] \in {"undoing", "compensating"} /\ todo'[a] = todo[a]

(* Nor does the worker come to execute one, or a record or a success appear.   *)
Still ==
    /\ UndoStill
    /\ UNCHANGED <<saved, done>>
    /\ pc'[Worker] \in {"trying", "running"} =>
           pc[Worker] \in {"trying", "running"} /\ step' = step

(* SaveStepState keeps what is recorded, and adds what it is given.            *)
LEMMA RecordedHas ==
    ASSUME saved \in Seq(Steps), NEW i \in Steps
    PROVE  /\ Has(Recorded(i), i)
           /\ \A j : Has(saved, j) => Has(Recorded(i), j)
<1>1. CASE Has(saved, i)
  BY <1>1 DEF Has, Recorded
<1>2. CASE ~Has(saved, i)
  <2>1. Recorded(i) = Append(saved, i)
    BY <1>2 DEF Has, Recorded
  <2>2. /\ DOMAIN Append(saved, i) = 1 .. Len(saved) + 1 /\ DOMAIN saved = 1 .. Len(saved)
        /\ Len(saved) \in Nat
        /\ Append(saved, i)[Len(saved) + 1] = i
        /\ \A k \in DOMAIN saved : Append(saved, i)[k] = saved[k]
    BY SMT
  <2>3. DOMAIN saved \subseteq DOMAIN Append(saved, i)
        /\ Len(saved) + 1 \in DOMAIN Append(saved, i)
    BY <2>2, SMT
  <2>4. QED
    BY <2>1, <2>2, <2>3 DEF Has
<1>3. QED
  BY <1>1, <1>2

(* A step in which nobody begins anything keeps the journal.                   *)
LEMMA JournalStill ==
    ASSUME Journal, Still
    PROVE  Journal'
BY DEF Journal, Still

(* A step of the worker that moves to a place outside compensation             *)
LEMMA WorkerStill ==
    ASSUME TypeOK, NEW l \in WorkerLabels \ {"undoing", "compensating"}, Goto(Worker, l),
           undone' = undone, \A a \in Undoers \ {Worker} : todo'[a] = todo[a]
    PROVE  /\ UndoStill
           /\ pc'[Worker] = l
           /\ UNCHANGED <<saved, done>> /\ l \notin {"trying", "running"} => Still
<1>1. pc'[Worker] = l /\ \A b \in Actors \ {Worker} : pc'[b] = pc[b]
  BY GotoWorker
<1>2. UndoStill
  BY <1>1 DEF UndoStill
<1>3. QED
  BY <1>1, <1>2 DEF Still

(* A step of a caller that moves to a place outside compensation               *)
LEMMA CallerStill ==
    ASSUME TypeOK, NEW c \in Actors \ {Worker},
           NEW l \in CallerLabels \ {"undoing", "compensating"},
           Goto(c, l), UNCHANGED <<steps, undone>>, \A a \in Undoers \ {c} : todo'[a] = todo[a]
    PROVE  Still
<1>1. /\ pc'[Worker] = pc[Worker] /\ pc'[c] = l
      /\ \A b \in Actors \ {c} : pc'[b] = pc[b]
  BY GotoCaller
<1>2. QED
  BY <1>1 DEF Still, UndoStill, steps

(* The worker executes a step: its record is there before, and stays.          *)
LEMMA ExecuteJournal ==
    ASSUME IInv(FALSE), Journal,
           BeginStep \/ TryStep \/ StepSucceeds \/ StepFails \/ handleStepFailure
    PROVE  Journal' /\ UndoStill
<1>1. saved \in Seq(Steps) /\ step \in 1 .. N + 1 /\ TypeOK
  BY DEF IInv, TypeOK
<1>2. pc[Worker] \in {"trying", "running", "failed"} => step \in Steps
  BY <1>1, SMT DEF IInv, Position
<1>3. {"trying", "running", "failed", "counting", "persist"}
        \subseteq WorkerLabels \ {"undoing", "compensating"}
  BY DEF WorkerLabels
<1>4. ASSUME NEW i \in Steps, SaveStepState(ctx, i)
      PROVE  /\ \A j : Has(saved, j) => Has(saved', j)
             /\ ctx = "live" => Has(saved', i)
  BY <1>1, <1>4, RecordedHas DEF SaveStepState
<1>5. CASE BeginStep
  <2>1. step \in Steps /\ ctx = "live" /\ SaveStepState(ctx, step)
    BY <1>1, <1>5, SMT DEF BeginStep
  <2>2. UndoStill /\ pc'[Worker] = "trying"
    BY <1>1, <1>3, <1>5, WorkerStill DEF BeginStep, undoing
  <2>3. UNCHANGED <<done, step>>
    BY <1>5 DEF BeginStep
  <2>4. QED
    BY <1>4, <2>1, <2>2, <2>3 DEF Journal
<1>6. CASE TryStep
  <2>1. PICK l \in {"running", "failed"} : Goto(Worker, l)
    BY <1>6 DEF TryStep
  <2>2. UndoStill /\ pc'[Worker] = l
    BY <1>1, <1>3, <1>6, <2>1, WorkerStill DEF TryStep, undoing
  <2>3. UNCHANGED <<done, step>> /\ pc[Worker] = "trying" /\ step \in Steps
        /\ (SaveStepState(ctx, step) \/ saved' = saved)
    BY <1>2, <1>6 DEF TryStep, WorkerAt
  <2>4. QED
    BY <1>4, <2>2, <2>3 DEF Journal
<1>7. CASE StepSucceeds
  <2>1. UndoStill /\ pc'[Worker] = "counting"
    BY <1>1, <1>3, <1>7, WorkerStill DEF StepSucceeds, undoing
  <2>2. /\ done' = done \cup {step} /\ pc[Worker] = "running" /\ step \in Steps
        /\ SaveStepState(ctx, step)
    BY <1>2, <1>7 DEF StepSucceeds, WorkerAt
  <2>3. QED
    BY <1>4, <2>1, <2>2 DEF Journal
<1>8. CASE StepFails
  <2>1. PICK l \in {"trying", "failed"} : Goto(Worker, l)
    BY <1>8 DEF StepFails
  <2>2. UndoStill /\ pc'[Worker] = l
    BY <1>1, <1>3, <1>8, <2>1, WorkerStill DEF StepFails, undoing
  <2>3. /\ UNCHANGED <<done, step>> /\ pc[Worker] = "running" /\ step \in Steps
        /\ SaveStepState(ctx, step)
    BY <1>2, <1>8 DEF StepFails, WorkerAt
  <2>4. QED
    BY <1>4, <2>2, <2>3 DEF Journal
<1>9. CASE handleStepFailure
  <2>1. Goto(Worker, "persist")
    BY <1>9 DEF handleStepFailure, updateSagaState, UpdateState
  <2>2. UndoStill /\ pc'[Worker] = "persist"
    BY <1>1, <1>3, <1>9, <2>1, WorkerStill DEF handleStepFailure, undoing
  <2>3. /\ UNCHANGED <<done, step>> /\ pc[Worker] = "failed" /\ step \in Steps
        /\ SaveStepState(ctx, step)
    BY <1>2, <1>9 DEF handleStepFailure, WorkerAt
  <2>4. QED
    BY <1>4, <2>2, <2>3 DEF Journal
<1>10. QED
  BY <1>5, <1>6, <1>7, <1>8, <1>9

(* The worker's other steps outside compensateStep begin nothing.              *)
LEMMA WorkerOtherStill ==
    ASSUME TypeOK,
           \/ TakeTask \/ BeginSaga \/ PersistCheck \/ PersistWrite \/ StepsInterrupted
           \/ handleSagaCompletion \/ incrementCompletedSteps \/ MarkStepCompleted
           \/ BeginCompensation \/ handleCompensationSkipped \/ CompensationInterrupted
           \/ handleCompensationFailure \/ handleCompensationCompletion \/ RetireSaga
           \/ EndTask
    PROVE  Still
<1>1. {"ended", "starting", "write", "persist", "loop", "decide", "retire", "returning",
       "counted", "undo"}
        \subseteq WorkerLabels \ {"undoing", "compensating", "trying", "running"}
  BY DEF WorkerLabels
<1>2. UNCHANGED <<saved, done, undone>>
  BY DEF TakeTask, BeginSaga, PersistCheck, PersistWrite, StepsInterrupted,
         handleSagaCompletion, incrementCompletedSteps, MarkStepCompleted, BeginCompensation,
         handleCompensationSkipped, CompensationInterrupted, handleCompensationFailure,
         handleCompensationCompletion, RetireSaga, EndTask, steps, undoing
<1>3. \A a \in Undoers \ {Worker} : todo'[a] = todo[a]
  <2>1. CASE BeginCompensation
    BY <2>1 DEF BeginCompensation, TypeOK
  <2>2. CASE ~BeginCompensation
    <3>1. UNCHANGED undoing
      BY <2>2
         DEF TakeTask, BeginSaga, PersistCheck, PersistWrite, StepsInterrupted,
             handleSagaCompletion, incrementCompletedSteps, MarkStepCompleted,
             handleCompensationSkipped, CompensationInterrupted, handleCompensationFailure,
             handleCompensationCompletion, RetireSaga, EndTask
    <3>2. QED
      BY <3>1 DEF undoing
  <2>3. QED
    BY <2>1, <2>2
<1>4. \E l \in {"ended", "starting", "write", "persist", "loop", "decide", "retire",
                "returning", "counted", "undo"} : Goto(Worker, l)
  <2>1. CASE TakeTask \/ incrementCompletedSteps \/ BeginCompensation \/ RetireSaga \/ EndTask
    BY <2>1 DEF TakeTask, incrementCompletedSteps, BeginCompensation, RetireSaga, EndTask
  <2>2. CASE PersistCheck \/ PersistWrite
    <3>1. after \in {"loop", "decide", "retire", "returning"}
      BY DEF TypeOK
    <3>2. QED
      BY <2>2, <3>1 DEF PersistCheck, PersistWrite
  <2>3. CASE StepsInterrupted \/ CompensationInterrupted
    <3>1. Goto(Worker, "write")
      BY <2>3 DEF StepsInterrupted, CompensationInterrupted, handleContextCancellation,
                  UpdateState
    <3>2. QED
      BY <3>1
  <2>4. CASE \/ BeginSaga \/ handleSagaCompletion \/ MarkStepCompleted
             \/ handleCompensationSkipped \/ handleCompensationFailure
             \/ handleCompensationCompletion
    <3>1. Goto(Worker, "persist")
      BY <2>4
         DEF BeginSaga, handleSagaCompletion, MarkStepCompleted, handleCompensationSkipped,
             handleCompensationFailure, handleCompensationCompletion, updateSagaState,
             UpdateState
    <3>2. QED
      BY <3>1
  <2>5. QED
    BY <2>1, <2>2, <2>3, <2>4
<1>5. QED
  BY <1>1, <1>2, <1>3, <1>4, WorkerStill

(* The callers of StartSaga, CancelSaga and StopSaga begin nothing outside     *)
(* compensateStep, and neither does the monitor.                               *)
LEMMA CallersStill ==
    ASSUME TypeOK,
           \/ StartSaga \/ Deadline \/ Monitor
           \/ \E c \in Cancellers : \/ LoadForCancel(c) \/ InterruptForCancel(c)
                                    \/ compensateForCancellation(c) \/ MarkCancelled(c)
                                    \/ SaveCancelled(c) \/ FinishCancel(c)
           \/ \E s \in Stoppers : LoadForStop(s) \/ InterruptForStop(s) \/ SaveStopped(s)
    PROVE  Still
<1>1. CASE UNCHANGED <<steps, undoing, flow>>
  BY <1>1 DEF Still, UndoStill, steps, undoing, flow
<1>2. CASE StartSaga
  <2>1. CASE SubmitTask
    <3>1. CASE UNCHANGED pc
      BY <2>1, <3>1 DEF SubmitTask, Still, UndoStill, steps, undoing
    <3>2. CASE Goto(Worker, "queued")
      <4>1. "queued" \in WorkerLabels \ {"undoing", "compensating"}
        BY DEF WorkerLabels
      <4>2. UNCHANGED <<saved, done, undone, todo>>
        BY <2>1 DEF SubmitTask, steps, undoing
      <4>3. QED
        BY <3>2, <4>1, <4>2, WorkerStill
    <3>3. QED
      BY <2>1, <3>1, <3>2 DEF SubmitTask
  <2>2. QED
    BY <1>1, <1>2, <2>1
       DEF StartSaga, CreateSaga, TrackSaga, AcquireSlotFails, SubmitReturns
<1>3. CASE Deadline \/ Monitor
  BY <1>1, <1>3 DEF Deadline, Monitor, monitorSagaTimeout, handleSagaTimeout
<1>4. {"rejected", "loaded", "interrupted", "saving", "cleanup", "error", "cancelled",
       "marking", "undo", "stopped"} \subseteq CallerLabels \ {"undoing", "compensating"}
  BY DEF CallerLabels
<1>5. ASSUME NEW c \in Cancellers,
             \/ LoadForCancel(c) \/ InterruptForCancel(c) \/ compensateForCancellation(c)
             \/ MarkCancelled(c) \/ SaveCancelled(c) \/ FinishCancel(c)
      PROVE  Still
  <2>1. c \in Actors \ {Worker}
    OBVIOUS
  <2>2. UNCHANGED <<steps, undone>>
    BY <1>5 DEF LoadForCancel, InterruptForCancel, compensateForCancellation, MarkCancelled,
                SaveCancelled, FinishCancel, undoing
  <2>3. \E l \in {"rejected", "loaded", "interrupted", "saving", "cleanup", "error",
                  "cancelled", "marking", "undo"} : Goto(c, l)
    BY <1>5 DEF LoadForCancel, InterruptForCancel, compensateForCancellation, MarkCancelled,
                SaveCancelled, FinishCancel
  <2>4. \A a \in Undoers \ {c} : todo'[a] = todo[a]
    <3>1. CASE compensateForCancellation(c)
      BY <3>1 DEF compensateForCancellation, TypeOK
    <3>2. CASE ~compensateForCancellation(c)
      BY <1>5, <3>2
         DEF LoadForCancel, InterruptForCancel, MarkCancelled, SaveCancelled, FinishCancel,
             undoing
    <3>3. QED
      BY <3>1, <3>2
  <2>5. QED
    BY <1>4, <2>1, <2>2, <2>3, <2>4, CallerStill
<1>6. ASSUME NEW s \in Stoppers, LoadForStop(s) \/ InterruptForStop(s) \/ SaveStopped(s)
      PROVE  Still
  <2>1. s \in Actors \ {Worker}
    OBVIOUS
  <2>2. UNCHANGED <<steps, undoing>>
    BY <1>6 DEF LoadForStop, InterruptForStop, SaveStopped
  <2>3. \E l \in {"rejected", "loaded", "saving", "stopped", "error"} : Goto(s, l)
    BY <1>6 DEF LoadForStop, InterruptForStop, SaveStopped
  <2>4. QED
    BY <1>4, <2>1, <2>2, <2>3, CallerStill DEF undoing
<1>7. QED
  BY <1>2, <1>3, <1>5, <1>6

(* compensateStep adds at most a record, and moves nobody to execute a step.   *)
LEMMA CompensateJournal ==
    ASSUME IInv(FALSE), Journal, NEW a \in Undoers, Compensate(a)
    PROVE  /\ Journal'
           /\ pc'[a] \in {"undo", "undoing", "compensating"}
           /\ \A b \in Undoers \ {a} : pc'[b] = pc[b] /\ todo'[b] = todo[b]
           /\ undone \subseteq undone'
<1>1. saved \in Seq(Steps) /\ TypeOK
  BY DEF IInv, TypeOK
<1>2. PICK l \in {"undo", "undoing", "compensating"} : Goto(a, l)
  BY DEF Compensate, compensateStep, TryCompensate, CompensateSucceeds, CompensateFails
<1>3. pc'[a] = l /\ \A b \in Actors \ {a} : pc'[b] = pc[b]
  BY <1>1, <1>2, GotoUndoer
<1>4. \A b \in Undoers \ {a} : todo'[b] = todo[b]
  BY <1>1 DEF TypeOK, Compensate, compensateStep, TryCompensate, CompensateSucceeds,
              CompensateFails, undoing
<1>5. UNCHANGED <<done, step>> /\ undone \subseteq undone'
  BY DEF Compensate, compensateStep, TryCompensate, CompensateSucceeds, CompensateFails,
         steps, undoing
<1>6. \A j : Has(saved, j) => Has(saved', j)
  <2>1. CASE compensateStep(a)
    <3>1. Head(todo[a]) \in Steps
      BY <2>1, NextToUndo DEF compensateStep
    <3>2. saved' \in {saved, Recorded(Head(todo[a]))}
      BY <2>1 DEF compensateStep
    <3>3. QED
      BY <1>1, <3>1, <3>2, RecordedHas
  <2>2. CASE ~compensateStep(a)
    BY <2>2 DEF Compensate, TryCompensate, CompensateSucceeds, CompensateFails, steps
  <2>3. QED
    BY <2>1, <2>2
<1>7. Journal'
  BY <1>3, <1>5, <1>6 DEF Journal
<1>8. QED
  BY <1>3, <1>4, <1>5, <1>7

-------------------------------------------------------------------------------
(* The records of the compensations *)

(* What a step keeps that writes no record of a compensation, does not turn a  *)
(* recovery, and brings nobody to compensate.                                  *)
LEMMA RecordsKept ==
    ASSUME Marks, Truth, Readings, Claimed, UndoStill,
           UNCHANGED <<comp, outcome, reset, recovery>>
    PROVE  Marks' /\ Truth' /\ Readings' /\ Claimed'
<1>1. UNCHANGED <<comp, outcome, reset, recovering, rec, undone>>
  BY DEF recovery, UndoStill
<1>2. Marks'
  BY <1>1 DEF Marks, Marked, UndoStill
<1>3. Truth'
  BY <1>1 DEF Truth
<1>4. Readings' /\ Claimed'
  BY <1>1 DEF Readings, Claimed, At
<1>5. QED
  BY <1>2, <1>3, <1>4

(* A recovery's readings stay true: what is undone stays undone.               *)
LEMMA ReadingsKept ==
    ASSUME Readings, undone \subseteq undone', UNCHANGED rec
    PROVE  Readings'
BY DEF Readings, At

(* compensateStep marks the step before anybody can compensate it.             *)
LEMMA BeginUndoRInv ==
    ASSUME RInv, NEW a \in Undoers, BeginUndo(a), UNCHANGED <<recovery, crashes>>
    PROVE  Journal' /\ Marks' /\ Truth' /\ Positions' /\ Readings' /\ Claimed'
<1> DEFINE i == Head(todo[a])
<1>1. compensateStep(a) /\ Compensate(a)
  BY DEF BeginUndo, Compensate
<1>2. /\ Journal' /\ pc'[a] \in {"undo", "undoing", "compensating"}
      /\ \A b \in Undoers \ {a} : pc'[b] = pc[b] /\ todo'[b] = todo[b]
  BY <1>1, CompensateJournal DEF RInv
<1>3. i \in Steps /\ todo' = todo /\ undone' = undone
  BY <1>1, NextToUndo DEF RInv, compensateStep
<1>4. /\ comp' = [comp EXCEPT ![i] = "Running"]
      /\ UNCHANGED <<currentStep, storedStep, outcome, reset>>
  BY DEF BeginUndo
<1> HIDE DEF i
<1>5. /\ comp' \in [Steps -> CompStates] /\ comp'[i] = "Running"
      /\ \A j \in Steps \ {i} : comp'[j] = comp[j]
  BY <1>3, <1>4 DEF RInv, Marks, CompStates
<1>6. \A j \in Steps : Marked(j) => Marked(j)'
  BY <1>4, <1>5 DEF Marked
<1>7. comp'[i] # "none"
  BY <1>5
<1>8. ASSUME NEW b \in Undoers, pc'[b] \in {"undoing", "compensating"}
      PROVE  Marked(Head(todo[b]))'
  <2>1. CASE b = a
    BY <1>3, <1>7, <2>1 DEF i, Marked
  <2>2. CASE b # a
    <3>1. Head(todo[b]) \in Steps /\ Marked(Head(todo[b]))
      BY <1>2, <1>8, <2>2, NextToUndo DEF RInv, Marks
    <3>2. QED
      BY <1>3, <1>6, <3>1 DEF Marked
  <2>3. QED
    BY <2>1, <2>2
<1>9. undone \subseteq Steps
  BY DEF RInv, IInv, TypeOK
<1>10. Marks'
  BY <1>3, <1>5, <1>6, <1>8, <1>9 DEF RInv, Marks
<1>11. Truth'
  BY <1>3, <1>4, <1>5 DEF RInv, Truth
<1>12. Positions' /\ Readings' /\ Claimed'
  BY <1>3, <1>4 DEF RInv, Positions, Readings, Claimed, At, recovery
<1>13. QED
  BY <1>2, <1>10, <1>11, <1>12

(* What Compensate returned is what its caller will record.                    *)
LEMMA EndUndoRInv ==
    ASSUME RInv, NEW a \in Undoers, EndUndo(a), UNCHANGED <<recovery, crashes>>
    PROVE  Journal' /\ Marks' /\ Truth' /\ Positions' /\ Readings' /\ Claimed'
<1> DEFINE i == Head(todo[a])
<1>1. (CompensateSucceeds(a) \/ CompensateFails(a)) /\ Compensate(a)
  BY DEF EndUndo, Compensate
<1>2. /\ Journal' /\ pc'[a] \in {"undo", "undoing", "compensating"}
      /\ \A b \in Undoers \ {a} : pc'[b] = pc[b] /\ todo'[b] = todo[b]
      /\ undone \subseteq undone'
  BY <1>1, CompensateJournal DEF RInv
<1>3. /\ pc[a] = "compensating" /\ i \in Steps /\ undone' \subseteq undone \cup {i}
      /\ pc'[a] # "undo" => pc'[a] = "undoing" /\ todo'[a] = todo[a]
  <2>1. pc[a] = "compensating" /\ undone' \subseteq undone \cup {i}
    BY <1>1 DEF CompensateSucceeds, CompensateFails
  <2>2. i \in Steps
    BY <2>1, NextToUndo DEF RInv
  <2>3. pc \in [Actors -> WorkerLabels \cup CallerLabels] /\ a \in Actors
    BY DEF RInv, IInv, TypeOK
  <2>4. pc'[a] # "undo" => pc'[a] = "undoing" /\ todo'[a] = todo[a]
    BY <1>1, <2>3 DEF CompensateSucceeds, CompensateFails, Goto
  <2>5. QED
    BY <2>1, <2>2, <2>4
<1>4. UNCHANGED <<currentStep, storedStep, comp, reset>>
  BY DEF EndUndo
<1>5. \/ CompensateSucceeds(a) /\ outcome' = [outcome EXCEPT ![a] = <<i, "Completed">>]
      \/ outcome' = [outcome EXCEPT ![a] = <<i, "Failed">>]
      \/ outcome' = [outcome EXCEPT ![a] = <<i, "Exhausted">>]
      \/ outcome' = outcome
  BY DEF EndUndo
<1>6. CompensateSucceeds(a) => i \in undone'
  BY DEF CompensateSucceeds
<1> HIDE DEF i
<1>7. Marked(i)
  BY <1>3 DEF RInv, Marks, i
<1>8. Marks'
  <2>1. \A j \in undone' : Marked(j)'
    BY <1>3, <1>4, <1>7 DEF RInv, Marks, Marked
  <2>2. \A b \in Undoers : pc'[b] \in {"undoing", "compensating"} => Marked(Head(todo[b]))'
    BY <1>2, <1>3, <1>4, <1>7 DEF RInv, Marks, Marked, i
  <2>3. QED
    BY <1>4, <2>1, <2>2 DEF RInv, Marks
<1>9. Truth'
  <2>1. PICK o \in {outcome[a]} \cup ({i} \X Ends) :
           /\ outcome' = [outcome EXCEPT ![a] = o]
           /\ o # <<>> /\ o[2] = "Completed" => o[1] \in undone'
    <3>1. CASE outcome' = outcome
      <4>1. outcome' = [outcome EXCEPT ![a] = outcome[a]]
        BY <3>1 DEF RInv, Truth
      <4>2. QED
        BY <1>2, <4>1 DEF RInv, Truth
    <3>2. CASE outcome' # outcome
      <4>1. PICK e \in Ends : /\ outcome' = [outcome EXCEPT ![a] = <<i, e>>]
                              /\ e = "Completed" => i \in undone'
        BY <1>5, <1>6, <3>2 DEF Ends
      <4>2. <<i, e>> \in {i} \X Ends /\ <<i, e>>[1] = i /\ <<i, e>>[2] = e
        OBVIOUS
      <4>3. QED
        BY <4>1, <4>2
    <3>3. QED
      BY <3>1, <3>2
  <2>2. o \in {<<>>} \cup (Steps \X Ends)
    <3>1. outcome[a] \in {<<>>} \cup (Steps \X Ends)
      BY DEF RInv, Truth
    <3>2. QED
      BY <1>3, <2>1, <3>1, SMT
  <2>3. /\ outcome' \in [Undoers -> {<<>>} \cup (Steps \X Ends)]
        /\ outcome'[a] = o /\ \A b \in Undoers \ {a} : outcome'[b] = outcome[b]
    BY <2>1, <2>2 DEF RInv, Truth
  <2>4. QED
    BY <1>2, <1>4, <2>1, <2>3 DEF RInv, Truth
<1>10. Positions' /\ Readings' /\ Claimed'
  BY <1>2, <1>4, ReadingsKept DEF RInv, Positions, Claimed, At, recovery
<1>11. QED
  BY <1>2, <1>8, <1>9, <1>10

(* The end of a compensation reaches the storage.                              *)
LEMMA RecordUndoRInv ==
    ASSUME RInv, NEW a \in Undoers, RecordUndo(a), UNCHANGED <<recovery, crashes>>
    PROVE  Journal' /\ Marks' /\ Truth' /\ Positions' /\ Readings' /\ Claimed'
<1>1. /\ UNCHANGED <<saved, done, undone, pc, step, todo, currentStep, storedStep, reset>>
      /\ outcome' = [outcome EXCEPT ![a] = <<>>] /\ outcome[a] # <<>>
  BY DEF RecordUndo, vars, steps, undoing, flow
<1>2. PICK i \in Steps, e \in Ends : outcome[a] = <<i, e>> /\ (e = "Completed" => i \in undone)
  <2>1. outcome[a] \in Steps \X Ends
    BY <1>1 DEF RInv, Truth
  <2>2. PICK i \in Steps, e \in Ends : outcome[a] = <<i, e>>
    BY <2>1, SMT
  <2>3. outcome[a][1] = i /\ outcome[a][2] = e
    BY <2>2, SMT
  <2>4. QED
    BY <1>1, <2>2, <2>3 DEF RInv, Truth
<1>3. comp' = comp \/ comp' = [comp EXCEPT ![i] = e]
  <2>1. outcome[a][1] = i /\ outcome[a][2] = e
    BY <1>2, SMT
  <2>2. QED
    BY <2>1 DEF RecordUndo
<1>4. /\ comp' \in [Steps -> CompStates] /\ e # "none"
      /\ \A j \in Steps : comp'[j] = comp[j] \/ (j = i /\ comp'[j] = e)
  BY <1>2, <1>3 DEF RInv, Marks, CompStates, Ends
<1>5. Journal'
  BY <1>1 DEF RInv, Journal
<1>6. \A j \in Steps : Marked(j) => Marked(j)'
  BY <1>1, <1>4 DEF Marked
<1>7. Marks'
  <2>1. \A b \in Undoers : pc'[b] \in {"undoing", "compensating"} => Marked(Head(todo[b]))'
    <3> SUFFICES ASSUME NEW b \in Undoers, pc[b] \in {"undoing", "compensating"}
                 PROVE  Marked(Head(todo[b]))'
      BY <1>1
    <3>1. Head(todo[b]) \in Steps /\ Marked(Head(todo[b]))
      BY NextToUndo DEF RInv, Marks
    <3>2. QED
      BY <1>1, <1>6, <3>1 DEF Marked
  <2>2. undone \subseteq Steps
    BY DEF RInv, IInv, TypeOK
  <2>3. QED
    BY <1>1, <1>4, <1>6, <2>1, <2>2 DEF RInv, Marks
<1>8. Truth'
  <2>1. /\ outcome' \in [Undoers -> {<<>>} \cup (Steps \X Ends)]
        /\ outcome'[a] = <<>> /\ \A b \in Undoers \ {a} : outcome'[b] = outcome[b]
    BY <1>1 DEF RInv, Truth
  <2>2. QED
    BY <1>1, <1>2, <1>4, <2>1 DEF RInv, Truth
<1>9. Positions' /\ Readings' /\ Claimed'
  BY <1>1 DEF RInv, Positions, Readings, Claimed, At, recovery
<1>10. QED
  BY <1>5, <1>7, <1>8, <1>9

(* Every step of the coordinator keeps the invariant.                          *)
LEMMA CoordinateRInv ==
    ASSUME RInv, Coordinate
    PROVE  RInv'
<1>0. IInv(FALSE)' /\ TypeOK /\ UNCHANGED <<recovery, crashes>>
  BY CoordinateIInv DEF RInv, IInv, Coordinate
<1> DEFINE Goal == Journal' /\ Marks' /\ Truth' /\ Positions' /\ Readings' /\ Claimed'
<1> SUFFICES Goal
  BY <1>0 DEF RInv
<1>1. ASSUME Journal', UndoStill, UNCHANGED <<comp, outcome, reset>>, Positions'
      PROVE  Goal
  BY <1>0, <1>1, RecordsKept DEF RInv
<1>2. ASSUME Journal', UndoStill, UNCHANGED progress
      PROVE  Goal
  <2>1. UNCHANGED <<comp, outcome, reset>> /\ Positions'
    BY <1>2 DEF progress, RInv, Positions
  <2>2. QED
    BY <1>1, <1>2, <2>1
<1>3. ASSUME Still
      PROVE  Journal' /\ UndoStill
  BY <1>3, JournalStill DEF RInv, Still
<1>4. ASSUME NEW a \in Undoers, TryCompensate(a)
      PROVE  Journal' /\ UndoStill
  <2>1. Compensate(a)
    BY <1>4 DEF Compensate
  <2>2. /\ Journal' /\ \A b \in Undoers \ {a} : pc'[b] = pc[b] /\ todo'[b] = todo[b]
    BY <2>1, CompensateJournal DEF RInv
  <2>3. QED
    BY <1>4, <2>2 DEF TryCompensate, UndoStill, undoing
<1>5. CASE StartOrTimeOut
  <2>1. Still
    BY <1>0, <1>5, CallersStill DEF StartOrTimeOut
  <2>2. Positions' /\ UNCHANGED <<comp, outcome, reset>>
    BY <1>5 DEF StartOrTimeOut, SaveSaga, RInv, Positions
  <2>3. QED
    BY <1>1, <1>3, <2>1, <2>2
<1>6. CASE BeginStepAt
  <2>1. Journal' /\ UndoStill
    BY <1>6, ExecuteJournal DEF RInv, BeginStepAt
  <2>2. step \in 1 .. N + 1 /\ step <= N /\ currentStep' = step
        /\ UNCHANGED <<storedStep, comp, outcome, reset>>
    BY <1>0, <1>6 DEF BeginStepAt, BeginStep, TypeOK
  <2>3. step \in Steps
    BY <2>2, SMT
  <2>4. Positions'
    BY <2>2, <2>3 DEF RInv, Positions
  <2>5. QED
    BY <1>1, <2>1, <2>2, <2>4
<1>7. CASE PersistWithStep
  <2>1. Still
    BY <1>0, <1>7, WorkerOtherStill, CallersStill DEF PersistWithStep
  <2>2. Positions' /\ UNCHANGED <<comp, outcome, reset>>
    BY <1>7 DEF PersistWithStep, StoreBy, SaveSaga, RInv, Positions
  <2>3. QED
    BY <1>1, <1>3, <2>1, <2>2
<1>8. CASE WorkerStep
  <2>1. UNCHANGED progress
    BY <1>8 DEF WorkerStep
  <2>2. CASE StepSucceeds \/ handleStepFailure
    BY <1>2, <2>1, <2>2, ExecuteJournal DEF RInv
  <2>3. CASE TryCompensate(Worker)
    BY <1>2, <1>4, <2>1, <2>3
  <2>4. CASE ~(StepSucceeds \/ handleStepFailure \/ TryCompensate(Worker))
    <3>1. Still
      BY <1>0, <1>8, <2>4, WorkerOtherStill DEF WorkerStep
    <3>2. QED
      BY <1>2, <1>3, <2>1, <3>1
  <2>5. QED
    BY <2>2, <2>3, <2>4
<1>9. ASSUME NEW c \in Cancellers, CancelStep(c) PROVE Goal
  <2>1. Positions' /\ UNCHANGED <<comp, outcome, reset>>
    BY <1>9 DEF CancelStep, RInv, Positions
  <2>2. CASE TryCompensate(c)
    BY <1>1, <1>4, <2>1, <2>2
  <2>3. CASE ~TryCompensate(c)
    <3>1. Still
      BY <1>0, <1>9, <2>3, CallersStill DEF CancelStep
    <3>2. QED
      BY <1>1, <1>3, <2>1, <3>1
  <2>4. QED
    BY <2>2, <2>3
<1>10. ASSUME NEW s \in Stoppers, LoadForStop(s) \/ InterruptForStop(s), UNCHANGED progress
       PROVE  Goal
  BY <1>0, <1>2, <1>3, <1>10, CallersStill
<1>11. ASSUME NEW a \in Undoers, Undo(a) PROVE Goal
  BY <1>0, <1>11, BeginUndoRInv, EndUndoRInv, RecordUndoRInv DEF Undo
<1>12. CASE FailStep
  <2>1. Journal' /\ UndoStill
    BY <1>12, ExecuteJournal DEF RInv, FailStep
  <2>2. Positions' /\ UNCHANGED <<comp, outcome, reset>>
    BY <1>12 DEF FailStep, RInv, Positions
  <2>3. QED
    BY <1>1, <2>1, <2>2
<1>13. QED
  BY <1>5, <1>6, <1>7, <1>8, <1>9, <1>10, <1>11, <1>12 DEF Coordinate

-------------------------------------------------------------------------------
(* Recoveries, operators and crashes *)

(* What a recovery or an operator may do to the saga: write a state that does  *)
(* not claim that it completed, save a record, return from CancelSaga.         *)
LEMMA ManagerIInv ==
    ASSUME IInv(FALSE), NEW r \in Managers,
           UNCHANGED <<mem, registry, contexts, active, completedSteps, done, step, undone,
                       todo, given, intent, after, attempt, starter, monitor>>,
           saved' \in Seq(Steps), blank' \subseteq Steps, stored' \in SagaStates \cup {"none"},
           stored' = stored \/ stored' # "Completed",
           UNCHANGED pc \/ Goto(r, "idle"),
           gaveUp' \in [Undoers -> SUBSET Steps]
    PROVE  IInv(FALSE)'
<1>1. Parts /\ r \in Actors \ {Worker}
  BY TypeParts DEF IInv
<1>2. /\ PcTyped' /\ pc'[Worker] = pc[Worker]
      /\ \A b \in Actors : pc'[b] = pc[b] \/ pc'[b] = "idle"
  <2>1. CASE UNCHANGED pc
    BY <1>1, <2>1 DEF Parts, PcTyped
  <2>2. CASE Goto(r, "idle")
    <3>1. "idle" \in CallerLabels
      BY DEF CallerLabels
    <3>2. QED
      BY <1>1, <2>2, <3>1, GotoCaller DEF IInv
  <2>3. QED
    BY <2>1, <2>2
<1>3. TypeOK'
  <2>1. StateTyped' /\ StepsTyped' /\ UndoingTyped'
    BY <1>1 DEF Parts, StateTyped, StepsTyped, UndoingTyped
  <2>2. MapsTyped' /\ ContextsTyped' /\ IntentTyped' /\ AttemptTyped' /\ OthersTyped'
    BY KeepTypes DEF IInv
  <2>3. QED
    BY <1>2, <2>1, <2>2, TypeParts DEF Parts
<1>4. Attempts' /\ TodoDone' /\ undone' \subseteq done'
  BY <1>2 DEF IInv, Attempts, TodoDone
<1>5. Unstarted' /\ Position(FALSE)'
  BY <1>2 DEF IInv, Unstarted, Position, WorkerAt
<1>6. Cover(FALSE)'
  BY DEF Cover
<1>7. Claims(FALSE)'
  BY DEF IInv, Claims, Claim
<1>8. QED
  BY <1>3, <1>4, <1>5, <1>6, <1>7 DEF IInv

(* A crash leaves an orchestrator that has forgotten the saga.                 *)
LEMMA CrashIInv ==
    ASSUME IInv(FALSE), Crash
    PROVE  IInv(FALSE)'
<1>1. Parts
  BY TypeParts DEF IInv
<1>2. /\ pc' = [a \in Actors |-> IF a = Worker THEN "ended" ELSE "idle"]
      /\ intent' = [a \in Actors |-> "live"]
      /\ todo' = [a \in Undoers |-> <<>>] /\ given' = [a \in Undoers |-> None]
      /\ attempt' = [a \in Undoers |-> 0] /\ gaveUp' = [a \in Undoers |-> {}]
      /\ mem' = "Pending" /\ completedSteps' = 0 /\ step' = 1 /\ after' = "loop"
      /\ starter' = "returned"
      /\ UNCHANGED <<stored, saved, blank, done, undone>>
  BY DEF Crash
<1>3. TypeOK'
  <2>1. StateTyped'
    BY <1>1, <1>2 DEF Parts, StateTyped, SagaStates
  <2>2. MapsTyped' /\ ContextsTyped'
    BY DEF Crash, MapsTyped, ContextsTyped
  <2>3. StepsTyped'
    BY <1>1, <1>2, SMT DEF Parts, StepsTyped
  <2>4. UndoingTyped' /\ AttemptTyped'
    BY <1>1, <1>2, SMT DEF Parts, UndoingTyped, AttemptTyped
  <2>5. PcTyped'
    BY <1>2 DEF PcTyped, WorkerLabels, CallerLabels
  <2>6. IntentTyped'
    BY <1>2 DEF IntentTyped
  <2>7. OthersTyped'
    <3>1. active' = 0 /\ monitor' = "ended"
      BY DEF Crash
    <3>2. QED
      BY <1>2, <3>1, SMT DEF OthersTyped
  <2>8. QED
    BY <2>1, <2>2, <2>3, <2>4, <2>5, <2>6, <2>7, TypeParts DEF Parts
<1>4. \A a \in Actors : pc'[a] \in {"ended", "idle"}
  BY <1>2
<1>5. pc'[Worker] = "ended" /\ Attempts' /\ Unstarted'
  BY <1>2, <1>4 DEF Attempts, Unstarted
<1>6. Position(FALSE)'
  <2>1. 1 .. 0 = {} /\ 0 = 1 - 1
    BY SMT
  <2>2. QED
    BY <1>2, <1>5, <2>1 DEF Position, Reached, WorkerAt
<1>7. TodoDone'
  <2>1. \A a \in Undoers : todo'[a] = <<>>
    BY <1>2
  <2>2. 1 .. Len(<<>>) = {}
    BY SMT
  <2>3. QED
    BY <1>4, <2>1, <2>2 DEF TodoDone
<1>8. Cover(FALSE)' /\ undone' \subseteq done'
  BY <1>2 DEF IInv, Cover
<1>9. Claims(FALSE)'
  BY <1>2 DEF IInv, Claims, Claim
<1>10. QED
  BY <1>3, <1>5, <1>6, <1>7, <1>8, <1>9 DEF IInv

(* ... and no recovery that runs.                                              *)
LEMMA CrashRInv ==
    ASSUME RInv, Crash
    PROVE  RInv'
<1>1. IInv(FALSE)'
  BY CrashIInv DEF RInv
<1>2. /\ UNCHANGED <<saved, done, undone, comp, reset, storedStep>>
      /\ pc' = [a \in Actors |-> IF a = Worker THEN "ended" ELSE "idle"]
      /\ outcome' = [a \in Undoers |-> <<>>] /\ currentStep' = None
      /\ recovering' = FALSE
      /\ rec' = [r \in Managers |-> IF At(r, "idle") THEN Idle ELSE Over(r)]
  BY DEF Crash
<1>3. \A a \in Actors : pc'[a] \in {"ended", "idle"}
  BY <1>2
<1>4. Journal'
  BY <1>2, <1>3 DEF RInv, Journal
<1>5. Marks'
  BY <1>2, <1>3 DEF RInv, Marks, Marked
<1>6. Truth' /\ Positions'
  BY <1>2 DEF RInv, Truth, Positions
<1>7. /\ Idle \in Places /\ ~Idle.claimed /\ Idle.at = "idle"
      /\ Gone \in Places /\ ~Gone.claimed /\ Gone.at = "gone"
  BY DEF Idle, Gone, Places, SagaStates, CompStates
<1>8. \A r \in Managers : rec'[r] = Idle \/ (rec'[r] = Gone /\ r \notin Recoverers)
  BY <1>2 DEF Over
<1>9. rec' \in [Managers -> Places]
  BY <1>2, <1>7 DEF Over
<1>10. Readings'
  BY <1>7, <1>8, <1>9 DEF Readings, At
<1>11. Claimed'
  BY <1>2, <1>7, <1>8 DEF Claimed, At
<1>12. QED
  BY <1>1, <1>4, <1>5, <1>6, <1>10, <1>11 DEF RInv

(* One manager moves on; what it holds then is true and typed, and whether it  *)
(* holds the mark does not change.                                             *)
LEMMA ManagerMoves ==
    ASSUME Readings, Claimed, NEW r \in Managers, NEW x \in Places,
           rec' = [rec EXCEPT ![r] = x], undone \subseteq undone', recovering' = recovering,
           x.at = "update" => x.state \in SagaStates \ {"Completed"},
           x.at = "retry" => /\ x.step \in Steps
                             /\ x.record = "Completed" => x.step \in undone',
           x.claimed = rec[r].claimed, x.claimed <=> r \in Recoverers /\ x.at # "idle"
    PROVE  Readings' /\ Claimed'
<1>1. /\ rec' \in [Managers -> Places]
      /\ rec'[r] = x /\ \A q \in Managers \ {r} : rec'[q] = rec[q]
  BY DEF Readings
<1>2. Readings'
  BY <1>1 DEF Readings, At
<1>3. \A q \in Managers : rec'[q].claimed = rec[q].claimed
  BY <1>1
<1>4. Claimed'
  <2>1. \A q \in Managers : rec'[q].claimed <=> q \in Recoverers /\ ~At(q, "idle")'
    BY <1>1 DEF Claimed, At
  <2>2. (\E q \in Managers : rec'[q].claimed) <=> (\E q \in Managers : rec[q].claimed)
    BY <1>3
  <2>3. \A p, q \in Managers : rec'[p].claimed /\ rec'[q].claimed => p = q
    BY <1>3 DEF Claimed
  <2>4. QED
    BY <2>1, <2>2, <2>3 DEF Claimed
<1>5. QED
  BY <1>2, <1>4

(* A step of a manager that changes nothing but where it is                    *)
LEMMA SagaUntouched ==
    ASSUME RInv, UNCHANGED <<vars, progress>>, Readings', Claimed'
    PROVE  RInv'
<1>1. IInv(FALSE)'
  BY NextIInv DEF RInv
<1>2. UNCHANGED <<saved, done, undone, pc, step, todo, comp, outcome, reset, currentStep,
                  storedStep>>
  BY DEF vars, steps, undoing, flow, progress
<1>3. Journal' /\ Positions'
  BY <1>2 DEF RInv, Journal, Positions
<1>4. Marks' /\ Truth'
  BY <1>2 DEF RInv, Marks, Marked, Truth
<1>5. QED
  BY <1>1, <1>3, <1>4 DEF RInv

(* A manager goes on to call CancelSaga, or to return; only an operator can do *)
(* so at its first step.                                                       *)
LEMMA MoveStep ==
    ASSUME Readings, Claimed, NEW r \in Managers, NEW l \in {"cancel", "return"}, Move(r, l),
           undone \subseteq undone', recovering' = recovering,
           At(r, "idle") => r \notin Recoverers
    PROVE  Readings' /\ Claimed'
<1> DEFINE x == [rec[r] EXCEPT !.at = l]
<1>1. rec[r] \in Places /\ rec' = [rec EXCEPT ![r] = x]
  BY DEF Readings, Move
<1>2. x \in Places /\ x.at = l /\ x.claimed = rec[r].claimed
  BY <1>1 DEF Places
<1> HIDE DEF x
<1>3. x.claimed <=> r \in Recoverers /\ x.at # "idle"
  BY <1>2 DEF Claimed
<1>4. QED
  BY <1>1, <1>2, <1>3, ManagerMoves

(* A manager goes on to write a state, never Completed.                        *)
LEMMA ToUpdateStep ==
    ASSUME Readings, Claimed, NEW r \in Managers, NEW s \in SagaStates \ {"Completed"},
           ToUpdate(r, s), undone \subseteq undone', recovering' = recovering,
           At(r, "idle") => r \notin Recoverers
    PROVE  Readings' /\ Claimed'
<1> DEFINE x == [rec[r] EXCEPT !.at = "update", !.state = s]
<1>1. rec[r] \in Places /\ rec' = [rec EXCEPT ![r] = x]
  BY DEF Readings, ToUpdate
<1>2. x \in Places /\ x.at = "update" /\ x.state = s /\ x.claimed = rec[r].claimed
  BY <1>1 DEF Places
<1> HIDE DEF x
<1>3. x.claimed <=> r \in Recoverers /\ x.at # "idle"
  BY <1>2 DEF Claimed
<1>4. QED
  BY <1>1, <1>2, <1>3, ManagerMoves

(* Detecting, looking and deciding: the steps of a recovery and of an operator *)
(* that leave the saga alone keep the invariant.                               *)
LEMMA DecideRInv ==
    ASSUME RInv, NEW r \in Managers,
           \/ recoverSagaInstance(r) \/ recoverRunningSaga(r) \/ recoverCompensatingSaga(r)
           \/ r \in Operators /\ (ForceCompensate(r) \/ MarkAsFailed(r) \/ RetrySaga(r))
    PROVE  RInv'
<1>1. /\ UNCHANGED <<vars, progress>> /\ recovering' = recovering /\ undone' = undone
      /\ Readings /\ Claimed /\ rec[r] \in Places
      /\ {"Failed", "Compensated", "Running", "StepCompleted"}
            \subseteq SagaStates \ {"Completed"}
      /\ r \in Operators => r \notin Recoverers
  BY DEF recoverSagaInstance, recoverRunningSaga, recoverCompensatingSaga, ForceCompensate,
         MarkAsFailed, RetrySaga, vars, undoing, RInv, Readings, SagaStates
<1> SUFFICES Readings' /\ Claimed'
  BY <1>1, SagaUntouched
<1>2. CASE recoverSagaInstance(r)
  <2> DEFINE l == IF stored \in Active THEN "found" ELSE "return"
             y == SelectStrategy
             x == [rec[r] EXCEPT !.at = l, !.state = stored, !.step = storedStep,
                                 !.strategy = y]
  <2>1. l \in {"found", "return"} /\ rec' = [rec EXCEPT ![r] = x] /\ At(r, "get")
    BY <1>1, <1>2 DEF recoverSagaInstance, RInv, Readings
  <2>2. /\ stored \in SagaStates \cup {"none"} /\ storedStep \in Steps \cup {None}
        /\ y \in {"retry", "compensate", "markFailed"}
    BY DEF RInv, IInv, TypeOK, Positions, SelectStrategy
  <2> HIDE DEF l, y
  <2>3. x \in Places /\ x.at = l /\ x.claimed = rec[r].claimed
    BY <1>1, <2>1, <2>2 DEF Places
  <2> HIDE DEF x
  <2>4. x.claimed <=> r \in Recoverers /\ x.at # "idle"
    BY <1>1, <2>1, <2>3 DEF Claimed, At
  <2>5. QED
    BY <1>1, <2>1, <2>3, <2>4, ManagerMoves
<1>3. CASE recoverRunningSaga(r)
  <2>1. CASE ToUpdate(r, "Failed")
    BY <1>1, <1>3, <2>1, ToUpdateStep DEF recoverRunningSaga, At
  <2>2. CASE Move(r, "cancel")
    BY <1>1, <1>3, <2>2, MoveStep DEF recoverRunningSaga, At
  <2>3. CASE /\ rec[r].step # None
             /\ rec' = [rec EXCEPT ![r].at = "retry", ![r].record = comp[rec[r].step],
                                   ![r].output = rec[r].step \in done \ blank]
    <3> DEFINE c == comp[rec[r].step]
               o == rec[r].step \in done \ blank
               x == [rec[r] EXCEPT !.at = "retry", !.record = c, !.output = o]
    <3>0. o \in BOOLEAN
      BY SMT
    <3>1. rec' = [rec EXCEPT ![r] = x] /\ At(r, "found")
      BY <1>1, <1>3, <2>3 DEF recoverRunningSaga, RInv, Readings
    <3>2. rec[r].step \in Steps
      BY <1>1, <2>3 DEF Places
    <3>3. c \in CompStates /\ (c = "Completed" => rec[r].step \in undone)
      BY <3>2 DEF RInv, Marks, Truth
    <3> HIDE DEF c, o
    <3>4. /\ x \in Places /\ x.at = "retry" /\ x.step = rec[r].step /\ x.record = c
          /\ x.claimed = rec[r].claimed
      BY <1>1, <3>0, <3>3 DEF Places
    <3> HIDE DEF x
    <3>5. x.claimed <=> r \in Recoverers /\ x.at # "idle"
      BY <1>1, <3>1, <3>4 DEF Claimed, At
    <3>6. QED
      BY <1>1, <3>1, <3>2, <3>3, <3>4, <3>5, ManagerMoves
  <2>4. QED
    BY <1>3, <2>1, <2>2, <2>3 DEF recoverRunningSaga
<1>4. CASE recoverCompensatingSaga(r)
  <2>1. ~At(r, "idle") /\ (Move(r, "cancel") \/ ToUpdate(r, "Compensated"))
    BY <1>4 DEF recoverCompensatingSaga, At
  <2>2. QED
    BY <1>1, <2>1, MoveStep, ToUpdateStep
<1>5. CASE r \in Operators /\ (ForceCompensate(r) \/ MarkAsFailed(r) \/ RetrySaga(r))
  <2>1. Move(r, "cancel") \/ \E s \in {"Failed", "Running", "StepCompleted"} : ToUpdate(r, s)
    BY <1>5 DEF ForceCompensate, MarkAsFailed, RetrySaga
  <2>2. QED
    BY <1>1, <1>5, <2>1, MoveStep, ToUpdateStep
<1>6. QED
  BY <1>2, <1>3, <1>4, <1>5

(* A recovery begins: there was none, and there is one.                        *)
LEMMA RecoverSagaRInv ==
    ASSUME RInv, NEW r \in Recoverers, RecoverSaga(r)
    PROVE  RInv'
<1> DEFINE x == [rec[r] EXCEPT !.at = "get", !.claimed = TRUE]
<1>1. /\ r \in Managers /\ UNCHANGED <<vars, progress>> /\ undone' = undone
      /\ Readings /\ Claimed /\ rec[r] \in Places /\ ~recovering /\ recovering' = TRUE
  BY DEF RecoverSaga, vars, undoing, RInv, Readings
<1>2. rec' = [rec EXCEPT ![r] = x]
  BY <1>1 DEF RecoverSaga, Readings
<1>3. x \in Places /\ x.at = "get" /\ x.claimed = TRUE
  BY <1>1 DEF Places
<1> HIDE DEF x
<1>4. /\ rec' \in [Managers -> Places] /\ rec'[r] = x
      /\ \A q \in Managers \ {r} : rec'[q] = rec[q]
  BY <1>1, <1>2, <1>3 DEF Readings
<1>5. Readings'
  BY <1>1, <1>3, <1>4 DEF Readings, At
<1>6. \A q \in Managers : ~rec[q].claimed
  BY <1>1 DEF Claimed
<1>7. \A q \in Managers : rec'[q].claimed <=> q = r
  BY <1>3, <1>4, <1>6
<1>8. \A q \in Managers : rec'[q].claimed <=> q \in Recoverers /\ ~At(q, "idle")'
  BY <1>1, <1>3, <1>4 DEF Claimed, At
<1>9. Claimed'
  BY <1>1, <1>7, <1>8 DEF Claimed
<1>10. QED
  BY <1>1, <1>5, <1>9, SagaUntouched

(* A recovery that returns takes its own mark away, and an operator none.      *)
LEMMA RecoverReturnsRInv ==
    ASSUME RInv, NEW r \in Managers, RecoverReturns(r)
    PROVE  RInv'
<1>1. /\ UNCHANGED <<vars, progress>> /\ undone' = undone
      /\ Readings /\ Claimed /\ rec[r] \in Places
      /\ rec' = [rec EXCEPT ![r] = Over(r)] /\ recovering' = (recovering /\ ~rec[r].claimed)
  BY DEF RecoverReturns, vars, undoing, RInv, Readings
<1>2. /\ Over(r) \in Places /\ ~Over(r).claimed /\ Over(r).at \in {"idle", "gone"}
      /\ Over(r).at = "idle" \/ r \notin Recoverers
  BY DEF Over, Idle, Gone, Places, SagaStates, CompStates
<1>3. /\ rec' \in [Managers -> Places] /\ rec'[r] = Over(r)
      /\ \A q \in Managers \ {r} : rec'[q] = rec[q]
  BY <1>1, <1>2 DEF Readings
<1>4. Readings'
  BY <1>1, <1>2, <1>3 DEF Readings, At
<1>5. Claimed'
  <2>1. \A q \in Managers : rec'[q].claimed <=> q # r /\ rec[q].claimed
    BY <1>2, <1>3
  <2>2. \A q \in Managers : rec'[q].claimed <=> q \in Recoverers /\ ~At(q, "idle")'
    BY <1>1, <1>2, <1>3 DEF Claimed, At
  <2>3. recovering' <=> \E q \in Managers : rec'[q].claimed
    BY <1>1, <2>1 DEF Claimed
  <2>4. /\ recovering' \in BOOLEAN
        /\ \A p, q \in Managers : rec'[p].claimed /\ rec'[q].claimed => p = q
    BY <1>1, <2>1 DEF Claimed
  <2>5. QED
    BY <2>2, <2>3, <2>4 DEF Claimed
<1>6. QED
  BY <1>1, <1>4, <1>5, SagaUntouched

(* retryCurrentStep puts a record back that was true when it was read, and     *)
(* still is.                                                                   *)
LEMMA RetryRInv ==
    ASSUME RInv, NEW r \in Managers, retryCurrentStep(r)
    PROVE  RInv'
<1> DEFINE i == rec[r].step
           c == rec[r].record
<1>1. /\ i \in Steps /\ c \in CompStates /\ (c = "Completed" => i \in undone)
      /\ Readings /\ Claimed /\ ~At(r, "idle") /\ "Running" \in SagaStates \ {"Completed"}
  BY DEF retryCurrentStep, RInv, Readings, Places, At, SagaStates
<1>2. /\ saved' = Recorded(i) /\ comp' = [comp EXCEPT ![i] = c] /\ reset' = reset \cup {i}
      /\ ToUpdate(r, "Running")
      /\ blank' \subseteq blank \cup done
      /\ UNCHANGED <<mem, stored, registry, contexts, active, completedSteps, done, step,
                     undoing, flow, starter, monitor, currentStep, storedStep, outcome,
                     recovering, crashes>>
  BY DEF retryCurrentStep
<1> HIDE DEF i, c
<1>3. UNCHANGED <<undone, gaveUp, todo, given, pc, intent, after, attempt>>
  BY <1>2 DEF undoing, flow
<1>4. saved \in Seq(Steps) /\ Append(saved, i) \in Seq(Steps)
      /\ stored \in SagaStates \cup {"none"} /\ gaveUp \in [Undoers -> SUBSET Steps]
      /\ undone \subseteq Steps /\ blank \subseteq Steps /\ done \subseteq Steps
  BY <1>1, SMT DEF RInv, IInv, TypeOK
<1>5. saved' \in Seq(Steps) /\ blank' \subseteq Steps
  BY <1>2, <1>4 DEF Recorded
<1>6. IInv(FALSE)'
  BY <1>2, <1>3, <1>4, <1>5, ManagerIInv DEF RInv
<1>7. \A j : Has(saved, j) => Has(saved', j)
  BY <1>1, <1>2, <1>4, RecordedHas
<1>8. Journal'
  BY <1>2, <1>3, <1>7 DEF RInv, Journal
<1>9. /\ comp' \in [Steps -> CompStates] /\ comp'[i] = c
      /\ \A j \in Steps \ {i} : comp'[j] = comp[j]
  BY <1>1, <1>2 DEF RInv, Marks
<1>10. \A j \in Steps : Marked(j) => Marked(j)'
  BY <1>2, <1>9 DEF Marked
<1>11. Marks'
  <2>1. \A b \in Undoers : pc'[b] \in {"undoing", "compensating"} => Marked(Head(todo[b]))'
    <3> SUFFICES ASSUME NEW b \in Undoers, pc[b] \in {"undoing", "compensating"}
                 PROVE  Marked(Head(todo[b]))'
      BY <1>3
    <3>1. Head(todo[b]) \in Steps /\ Marked(Head(todo[b]))
      BY NextToUndo DEF RInv, Marks
    <3>2. QED
      BY <1>3, <1>10, <3>1 DEF Marked
  <2>2. QED
    BY <1>3, <1>4, <1>9, <1>10, <2>1 DEF RInv, Marks
<1>12. Truth'
  BY <1>1, <1>2, <1>3, <1>9 DEF RInv, Truth
<1>13. Positions'
  BY <1>2 DEF RInv, Positions
<1>14. Readings' /\ Claimed'
  BY <1>1, <1>2, <1>3, ToUpdateStep
<1>15. QED
  BY <1>6, <1>8, <1>11, <1>12, <1>13, <1>14 DEF RInv

(* A manager writes the state it decided on.                                   *)
LEMMA UpdateSagaStateRInv ==
    ASSUME RInv, NEW r \in Managers, UpdateSagaState(r)
    PROVE  RInv'
<1>1. /\ rec[r].state \in SagaStates \ {"Completed"} /\ stored' = rec[r].state
      /\ Readings /\ Claimed /\ ~At(r, "idle")
  BY DEF UpdateSagaState, RInv, Readings, At
<1>2. /\ Move(r, "return")
      /\ UNCHANGED <<mem, registry, contexts, active, steps, undoing, flow, starter,
                     monitor, progress, recovering, crashes>>
  BY DEF UpdateSagaState
<1>3. UNCHANGED <<completedSteps, saved, blank, done, step, undone, gaveUp, todo, given, pc,
                  intent, after, attempt, currentStep, storedStep, comp, outcome, reset>>
  BY <1>2 DEF steps, undoing, flow, progress
<1>4. /\ saved' \in Seq(Steps) /\ blank' \subseteq Steps
      /\ gaveUp' \in [Undoers -> SUBSET Steps]
  BY <1>3 DEF RInv, IInv, TypeOK
<1>5. IInv(FALSE)'
  BY <1>1, <1>2, <1>3, <1>4, ManagerIInv DEF RInv
<1>6. Journal' /\ Positions'
  BY <1>3 DEF RInv, Journal, Positions
<1>7. Marks' /\ Truth'
  BY <1>3 DEF RInv, Marks, Marked, Truth
<1>8. Readings' /\ Claimed'
  BY <1>1, <1>2, <1>3, MoveStep
<1>9. QED
  BY <1>5, <1>6, <1>7, <1>8 DEF RInv

(* CancelSaga returns to a manager.                                            *)
LEMMA CancelReturnsRInv ==
    ASSUME RInv, NEW r \in Managers, CancelReturns(r)
    PROVE  RInv'
<1>1. Readings /\ Claimed /\ ~At(r, "idle") /\ r \in Actors \ {Worker} /\ TypeOK
  BY DEF CancelReturns, RInv, IInv, At
<1>2. /\ Move(r, "return") /\ Goto(r, "idle") /\ gaveUp' = [gaveUp EXCEPT ![r] = {}]
      /\ UNCHANGED <<mem, stored, registry, contexts, active, steps, undone, todo, given,
                     intent, after, attempt, starter, monitor, progress, recovering, crashes>>
  BY DEF CancelReturns
<1>3. UNCHANGED <<completedSteps, saved, blank, done, step, currentStep, storedStep, comp,
                  outcome, reset>>
  BY <1>2 DEF steps, progress
<1>4. /\ saved' \in Seq(Steps) /\ blank' \subseteq Steps
      /\ gaveUp' \in [Undoers -> SUBSET Steps] /\ stored' \in SagaStates \cup {"none"}
  BY <1>1, <1>2, <1>3 DEF TypeOK
<1>5. IInv(FALSE)'
  BY <1>2, <1>3, <1>4, ManagerIInv DEF RInv
<1>6. Still
  <2>1. "idle" \in CallerLabels \ {"undoing", "compensating"}
    BY DEF CallerLabels
  <2>2. QED
    BY <1>1, <1>2, <2>1, CallerStill
<1>7. Journal' /\ Positions'
  BY <1>3, <1>6, JournalStill DEF RInv, Positions
<1>8. Marks' /\ Truth'
  BY <1>2, <1>3, <1>6 DEF RInv, Marks, Marked, Truth, Still, UndoStill
<1>9. Readings' /\ Claimed'
  BY <1>1, <1>2, MoveStep
<1>10. QED
  BY <1>5, <1>7, <1>8, <1>9 DEF RInv

-------------------------------------------------------------------------------
(* Every step keeps the invariant.                                             *)
LEMMA NextRInv == RInv /\ [RecoveryNext]_rvars => RInv'
<1> SUFFICES ASSUME RInv, [RecoveryNext]_rvars PROVE RInv'
  OBVIOUS
<1>1. CASE Coordinate
  BY <1>1, CoordinateRInv
<1>2. CASE Crash
  BY <1>2, CrashRInv
<1>3. ASSUME NEW r \in Recoverers, RecoverSaga(r) PROVE RInv'
  BY <1>3, RecoverSagaRInv
<1>4. ASSUME NEW o \in Operators, ForceCompensate(o) \/ MarkAsFailed(o) \/ RetrySaga(o)
      PROVE  RInv'
  BY <1>4, DecideRInv
<1>5. ASSUME NEW r \in Managers, Recover(r) PROVE RInv'
  BY <1>5, DecideRInv, RetryRInv, UpdateSagaStateRInv, CancelReturnsRInv, RecoverReturnsRInv
     DEF Recover
<1>6. CASE UNCHANGED rvars
  <2>1. UNCHANGED <<vars, progress>> /\ UNCHANGED <<recovering, rec, undone>>
    BY <1>6 DEF rvars, recovery, vars, undoing
  <2>2. Readings' /\ Claimed'
    BY <2>1 DEF RInv, Readings, Claimed, At
  <2>3. QED
    BY <2>1, <2>2, SagaUntouched
<1>7. QED
  BY <1>1, <1>2, <1>3, <1>4, <1>5, <1>6 DEF RecoveryNext

(* The invariant of a saga under crashes and recoveries                        *)
THEOREM RecoveryInvariance == RecoverySpec => []RInv
BY InitRInv, NextRInv, PTL DEF RecoverySpec

(* Intent before effect: whenever the process dies, the storage has a record   *)
(* of every step that may have taken effect (executeStep saves its StepState   *)
(* before it calls the step), and a mark on every step that may have been      *)
(* compensated (compensateStep), unless retryCurrentStep has put its record    *)
(* back.                                                                       *)
THEOREM IntentBeforeEffect == RecoverySpec => []RecordedBeforeDone
<1>1. RInv => RecordedBeforeDone
  BY DEF RInv, Journal, Has, Marks, Marked, RecordedBeforeDone
<1>2. QED
  BY <1>1, RecoveryInvariance, PTL

(* A record of a completed compensation is true, whoever saves which copy of   *)
(* it when (compensateStep, retryCurrentStep).                                 *)
THEOREM RecordsAreTrue == RecoverySpec => []CompensationRecordsTrue
<1>1. RInv => CompensationRecordsTrue
  BY DEF RInv, Truth, CompensationRecordsTrue
<1>2. QED
  BY <1>1, RecoveryInvariance, PTL

(* Neither a crash, nor a recovery, nor an operator makes the storage say      *)
(* Completed of a saga one of whose steps did not succeed (UpdateSagaState).   *)
THEOREM CompletedStaysTrue == RecoverySpec => []CompletedIsTrue
<1>1. RInv => CompletedIsTrue
  BY DEF RInv, IInv, Claims, Claim, CompletedIsTrue
<1>2. QED
  BY <1>1, RecoveryInvariance, PTL

(* Any number of goroutines may call RecoverSaga for the saga: at most one of  *)
(* them recovers it, and rm.recovering says so exactly while it does.          *)
THEOREM RecoveryExclusive == RecoverySpec => []OneRecoveryAtATime
<1>1. RInv => OneRecoveryAtATime
  <2> SUFFICES ASSUME RInv PROVE OneRecoveryAtATime
    OBVIOUS
  <2> DEFINE Running == {r \in Recoverers : ~At(r, "idle") /\ rec[r].claimed}
  <2>1. \A r, q \in Running : r = q
    BY DEF RInv, Claimed
  <2>2. recovering <=> Running # {}
    BY DEF RInv, Claimed
  <2>3. Cardinality(Running) <= 1
    <3>1. CASE Running = {}
      BY <3>1, FS_EmptySet, SMT
    <3>2. CASE Running # {}
      <4>1. PICK r : r \in Running
        BY <3>2
      <4>2. Running = {r}
        BY <2>1, <4>1
      <4> HIDE DEF Running
      <4>3. QED
        BY <4>2, FS_Singleton, SMT
    <3>3. QED
      BY <3>1, <3>2
  <2>4. QED
    BY <2>2, <2>3 DEF OneRecoveryAtATime
<1>2. QED
  BY <1>1, RecoveryInvariance, PTL

(* Crashes and recoveries included, only steps that succeeded are compensated. *)
THEOREM RecoveryUndoesOnlyDone == RecoverySpec => [](TypeOK /\ UndoneOnlyIfDone)
<1>1. RInv => TypeOK /\ UndoneOnlyIfDone
  BY NextToUndo DEF RInv, IInv, UndoneOnlyIfDone
<1>2. QED
  BY <1>1, RecoveryInvariance, PTL
===============================================================================
