----------------------------- MODULE SagaRecovery -----------------------------
(* The orchestrator's process dies and comes back, and the RecoveryManager of   *)
(* pkg/saga/state looks after the saga that is left in the storage.             *)
(*                                                                             *)
(* SagaOrchestrator is extended by what a crash leaves behind and a recovery   *)
(* reads: the CurrentStep and Error of the stored saga, the CompensationState   *)
(* of the stored steps.  The storage keeps what it is given (postgres.go); it  *)
(* answers every call, so crashes are the only fault.  A recoverer is a        *)
(* goroutine of performRecoveryBatch, an operator somebody who calls           *)
(* recovery_manual.go; where they call CancelSaga they are cancellers of       *)
(* SagaOrchestrator.                                                           *)
EXTENDS SagaOrchestrator

CONSTANTS
    Recoverers,     \* goroutines that call RecoverSaga, again and again
    Operators,      \* goroutines that call a manual operation, once each
    Late,           \* bound: those of them that only act after a crash
    MaxCrashes      \* bound: how often the process dies

ASSUME RecoveryAssumption ==
    /\ Recoverers \cup Operators \subseteq Cancellers
    /\ Recoverers \cap Operators = {}
    /\ Late \subseteq Recoverers \cup Operators
    /\ MaxCrashes \in Nat
    /\ ~StorageFaults

VARIABLES
    currentStep,    \* instance.currentStep; None before the first step
    storedStep,     \* CurrentStep of the stored saga
    sagaError,      \* instance.sagaError, by what a recovery would do about it
    storedError,    \* Error of the stored saga
    comp,           \* per step, CompensationState.State of its stored record:
                    \* "none", "Running", "Completed", "Failed" or "Exhausted"
    outcome,        \* per actor, the end of a compensation it still has to record
    recovering,     \* rm.recovering has the saga
    rec,            \* per recoverer and operator, where it is
    reset,          \* steps whose record retryCurrentStep has put back
    crashes         \* how often the process died

failure  == <<sagaError, storedError>>
progress == <<currentStep, storedStep, failure, comp, outcome, reset>>
recovery == <<recovering, rec>>
rvars    == <<vars, progress, recovery, crashes>>

Managers == Recoverers \cup Operators

Active == {"Running", "StepCompleted", "Compensating"}

(* Retryable and of type timeout, network or service; business, validation,     *)
(* data or not retryable; a retryable error of another type.                    *)
Errors == {"transient", "lasting", "other"}

Idle == [at |-> "idle", claimed |-> FALSE, state |-> "Pending", step |-> None,
         strategy |-> "retry", record |-> "none", output |-> FALSE]
Gone == [Idle EXCEPT !.at = "gone"]

At(r, l) == rec[r].at = l

(* A recoverer may start again, an operator does not.                           *)
Over(r) == IF r \in Recoverers THEN Idle ELSE Gone

-------------------------------------------------------------------------------
(* The coordinator, with what it leaves in the storage *)

(* SaveSaga stores the instance's current step and error, UpdateSagaState       *)
(* neither.                                                                     *)
SaveSaga(saves) ==
    /\ storedStep' = IF saves THEN currentStep ELSE storedStep
    /\ storedError' = IF saves THEN sagaError ELSE storedError

StoreBy(a) == SaveSaga(intent[a] = "live")

(* StartSaga saves the saga, and once more if it gets no slot; a timeout leaves *)
(* an error that is not retryable.                                              *)
StartOrTimeOut ==
    /\ StartSaga \/ Deadline \/ Monitor
    /\ SaveSaga(starter' # starter /\ stored' # stored)
    /\ sagaError' = IF monitor' # monitor /\ monitor' = "timedOut" THEN "lasting"
                                                                  ELSE sagaError
    /\ UNCHANGED <<currentStep, comp, outcome, reset>>

(* updateCurrentStep *)
BeginStepAt ==
    /\ BeginStep
    /\ currentStep' = step
    /\ UNCHANGED <<storedStep, failure, comp, outcome, reset>>

(* A step that failed for good leaves its error in the instance; that its state *)
(* is still the one before is what StopSaga may save.                           *)
FailStep ==
    /\ outcome[Worker] = <<>>
    /\ TryStep \/ StepFails
    /\ IF pc'[Worker] = "failed" THEN sagaError' \in Errors ELSE UNCHANGED sagaError
    /\ UNCHANGED <<currentStep, storedStep, storedError, comp, outcome, reset>>

PersistWithStep ==
    /\ \/ PersistWrite /\ StoreBy(Worker)
       \/ \E c \in Cancellers : SaveCancelled(c) /\ StoreBy(c)
       \/ \E s \in Stoppers : SaveStopped(s) /\ StoreBy(s)
    /\ UNCHANGED <<currentStep, sagaError, comp, outcome, reset>>

(* Mutant of BeginUndo: the record waits until the compensation has ended *)
BeginUndoUnrecorded(a) ==
    /\ outcome[a] = <<>>
    /\ compensateStep(a)
    /\ UNCHANGED progress

(* compensateStep records that it is running before it calls the step.          *)
BeginUndo(a) ==
    /\ outcome[a] = <<>>
    /\ compensateStep(a)
    /\ comp' = [comp EXCEPT ![Head(todo[a])] = "Running"]
    /\ UNCHANGED <<currentStep, storedStep, failure, outcome, reset>>

(* Mutant of EndUndo: an error of Compensate is not looked at *)
EndUndoAlwaysCompleted(a) ==
    /\ CompensateSucceeds(a) \/ CompensateFails(a)
    /\ outcome' = [outcome EXCEPT ![a] = <<Head(todo[a]), "Completed">>]
    /\ UNCHANGED <<currentStep, storedStep, failure, comp, reset>>

(* Compensate returns; what the record is to say has not been saved yet.  A     *)
(* recovery takes up a failed compensation while its record shows fewer         *)
(* attempts than allowed ("Failed"); how many those are is left open.           *)
EndUndo(a) ==
    LET Ended(s) == outcome' = [outcome EXCEPT ![a] = <<Head(todo[a]), s>>] IN
    /\ \/ CompensateSucceeds(a) /\ Ended("Completed")
       \/ CompensateFails(a) /\ todo' # todo /\ (Ended("Failed") \/ Ended("Exhausted"))
       \/ CompensateFails(a) /\ todo' = todo /\ UNCHANGED outcome
    /\ UNCHANGED <<currentStep, storedStep, failure, comp, reset>>

(* The storage refuses a cancelled context; the failure is only logged.         *)
RecordUndo(a) ==
    /\ outcome[a] # <<>>
    /\ comp' = IF Err(a) = "live" THEN [comp EXCEPT ![outcome[a][1]] = outcome[a][2]]
                                  ELSE comp
    /\ outcome' = [outcome EXCEPT ![a] = <<>>]
    /\ UNCHANGED <<vars, currentStep, storedStep, failure, reset>>

Undo(a) == BeginUndo(a) \/ EndUndo(a) \/ RecordUndo(a)

(* Steps that leave nothing more in the storage than SagaOrchestrator says.     *)
WorkerStep ==
    /\ outcome[Worker] = <<>>
    /\ \/ TakeTask \/ BeginSaga \/ PersistCheck \/ StepsInterrupted
       \/ handleSagaCompletion \/ StepSucceeds \/ incrementCompletedSteps
       \/ MarkStepCompleted \/ handleStepFailure
       \/ BeginCompensation \/ handleCompensationSkipped \/ TryCompensate(Worker)
       \/ CompensationInterrupted \/ handleCompensationFailure
       \/ handleCompensationCompletion \/ RetireSaga \/ EndTask
    /\ UNCHANGED progress

(* CancelSaga gives the saga an error of type business if it has none.          *)
CancelStep(c) ==
    /\ outcome[c] = <<>>
    /\ \/ /\ \/ LoadForCancel(c) /\ (c \in Managers => rec[c].at = "cancel")
             \/ InterruptForCancel(c) \/ compensateForCancellation(c)
             \/ TryCompensate(c) \/ FinishCancel(c)
          /\ UNCHANGED sagaError
       \/ /\ MarkCancelled(c)
          /\ sagaError' = IF sagaError = "none" THEN "lasting" ELSE sagaError
    /\ UNCHANGED <<currentStep, storedStep, storedError, comp, outcome, reset>>

Coordinate ==
    /\ \/ StartOrTimeOut
       \/ BeginStepAt
       \/ FailStep
       \/ PersistWithStep
       \/ WorkerStep
       \/ \E c \in Cancellers : CancelStep(c)
       \/ \E s \in Stoppers : (LoadForStop(s) \/ InterruptForStop(s)) /\ UNCHANGED progress
       \/ \E a \in Undoers : Undo(a)
    /\ UNCHANGED <<recovery, crashes>>

(* The process dies; a new one starts with empty maps.  The saga is known to    *)
(* the storage alone, and nobody executes it any more.                          *)
Crash ==
    /\ crashes < MaxCrashes /\ SagaExists
    /\ crashes' = crashes + 1
    /\ inMemory' = FALSE /\ defined' = FALSE /\ cancelFunc' = FALSE
    /\ execDone' = TRUE /\ ctx' = "Canceled"
    /\ active' = 0
    /\ pc' = [a \in Actors |-> IF a = Worker THEN "ended" ELSE "idle"]
    /\ intent' = [a \in Actors |-> "live"]
    /\ todo' = [a \in Undoers |-> <<>>]
    /\ given' = [a \in Undoers |-> None]
    /\ attempt' = [a \in Undoers |-> 0]
    /\ gaveUp' = [a \in Undoers |-> {}]
    /\ starter' = "returned"
    /\ monitor' = "ended"
    /\ outcome' = [a \in Undoers |-> <<>>]
    /\ recovering' = FALSE
    /\ rec' = [r \in Managers |-> IF At(r, "idle") THEN Idle ELSE Over(r)]
    /\ mem' = "Pending" /\ completedSteps' = 0 /\ step' = 1 /\ after' = "loop"
    /\ currentStep' = None /\ sagaError' = "none"
    /\ UNCHANGED <<stored, saved, blank, done, undone, storedStep, storedError, comp,
                   reset>>

-------------------------------------------------------------------------------
(* The recovery manager *)

CanAct(r) == At(r, "idle") /\ SagaExists /\ (r \in Late => crashes > 0)

Move(r, l) == rec' = [rec EXCEPT ![r].at = l]

(* markSagaAsFailed, updateSagaState and RetrySaga all end in this call.        *)
ToUpdate(r, s) == rec' = [rec EXCEPT ![r].at = "update", ![r].state = s]

(* Mutant of RecoverSaga: the mark is looked at but never set *)
RecoverSagaUnmarked(r) ==
    /\ CanAct(r) /\ ~recovering
    /\ rec' = [rec EXCEPT ![r].at = "get", ![r].claimed = TRUE]
    /\ UNCHANGED <<vars, progress, recovering, crashes>>

(* RecoverSaga turns away a second recovery of the same saga.                   *)
RecoverSaga(r) ==
    /\ CanAct(r) /\ ~recovering
    /\ recovering' = TRUE
    /\ rec' = [rec EXCEPT ![r].at = "get", ![r].claimed = TRUE]
    /\ UNCHANGED <<vars, progress, crashes>>

(* SelectStrategy.  The number of completed steps that it compares with zero is *)
(* the stored CurrentStep, which counts from zero.                              *)
SelectStrategy ==
    CASE stored \in {"Running", "StepCompleted"} /\ storedError \in {"none", "transient"}
             -> "retry"
      [] stored \in {"Running", "StepCompleted"} /\ storedError = "lasting"
             /\ storedStep # 1
             -> "compensate"
      [] OTHER -> "markFailed"

(* recoverSagaInstance.  The count of attempts it checks first is the one of    *)
(* the entry RecoverSaga has just made, always zero.                            *)
recoverSagaInstance(r) ==
    /\ At(r, "get")
    /\ rec' = [rec EXCEPT ![r].at = IF stored \in Active THEN "found" ELSE "return",
                          ![r].state = stored,
                          ![r].step = storedStep,
                          ![r].strategy = SelectStrategy]
    /\ UNCHANGED <<vars, progress, recovering, crashes>>

(* Mutant of recoverRunningSaga: no valid step means there is none left to do *)
recoverRunningSagaCompletes(r) ==
    /\ At(r, "found") /\ rec[r].state \in {"Running", "StepCompleted"}
    /\ rec[r].step = None
    /\ ToUpdate(r, "Completed")
    /\ UNCHANGED <<vars, progress, recovering, crashes>>

(* Without a valid step the strategy is not looked at.  To compensate is to     *)
(* call CancelSaga.                                                             *)
recoverRunningSaga(r) ==
    /\ At(r, "found") /\ rec[r].state \in {"Running", "StepCompleted"}
    /\ \/ /\ rec[r].step = None \/ rec[r].strategy = "markFailed"
          /\ ToUpdate(r, "Failed")
       \/ /\ rec[r].step # None /\ rec[r].strategy = "compensate"
          /\ Move(r, "cancel")
       \/ /\ rec[r].step # None /\ rec[r].strategy = "retry"
          /\ rec' = [rec EXCEPT ![r].at = "retry", ![r].record = comp[rec[r].step],
                                ![r].output = rec[r].step \in done \ blank]
    /\ UNCHANGED <<vars, progress, recovering, crashes>>

(* retryCurrentStep saves the record as it was read, as pending: with the       *)
(* compensation and the output that it had then.                                *)
retryCurrentStep(r) ==
    /\ At(r, "retry")
    /\ saved' = Recorded(rec[r].step)
    /\ comp' = [comp EXCEPT ![rec[r].step] = rec[r].record]
    /\ blank' = IF rec[r].output THEN blank \ {rec[r].step}
                                 ELSE blank \cup (done \cap {rec[r].step})
    /\ reset' = reset \cup {rec[r].step}
    /\ ToUpdate(r, "Running")
    /\ UNCHANGED <<mem, stored, registry, contexts, active, completedSteps, done, step,
                   undoing, flow, starter, monitor, currentStep, storedStep, failure,
                   outcome, recovering, crashes>>

(* Compensated if no record shows an unfinished compensation, else CancelSaga.  *)
recoverCompensatingSaga(r) ==
    /\ At(r, "found") /\ rec[r].state = "Compensating"
    /\ IF \E i \in Steps : comp[i] \in {"Running", "Failed"}
       THEN Move(r, "cancel")
       ELSE ToUpdate(r, "Compensated")
    /\ UNCHANGED <<vars, progress, recovering, crashes>>

UpdateSagaState(r) ==
    /\ At(r, "update")
    /\ stored' = rec[r].state
    /\ Move(r, "return")
    /\ UNCHANGED <<mem, registry, contexts, active, steps, undoing, flow, starter,
                   monitor, progress, recovering, crashes>>

CancelReturns(r) ==
    /\ At(r, "cancel") /\ pc[r] \in {"cancelled", "rejected"}
    /\ Goto(r, "idle")
    /\ gaveUp' = [gaveUp EXCEPT ![r] = {}]
    /\ Move(r, "return")
    /\ UNCHANGED <<mem, stored, registry, contexts, active, steps, undone, todo, given,
                   intent, after, attempt, starter, monitor, progress, recovering, crashes>>

(* Mutant of RecoverReturns: the mark of a recovery stays behind *)
RecoverReturnsMarked(r) ==
    /\ At(r, "return")
    /\ rec' = [rec EXCEPT ![r] = Over(r)]
    /\ UNCHANGED <<vars, progress, recovering, crashes>>

(* The deferred delete of RecoverSaga                                           *)
RecoverReturns(r) ==
    /\ At(r, "return")
    /\ recovering' = (recovering /\ ~rec[r].claimed)
    /\ rec' = [rec EXCEPT ![r] = Over(r)]
    /\ UNCHANGED <<vars, progress, crashes>>

(* The operator's calls look at the saga, but not at rm.recovering.             *)
Manual(r) == CanAct(r) /\ ~IsTerminal(stored)

ForceCompensate(r) ==
    /\ Manual(r)
    /\ Move(r, "cancel")
    /\ UNCHANGED <<vars, progress, recovering, crashes>>

MarkAsFailed(r) ==
    /\ Manual(r)
    /\ ToUpdate(r, "Failed")
    /\ UNCHANGED <<vars, progress, recovering, crashes>>

RetrySaga(r) ==
    /\ Manual(r)
    /\ ToUpdate(r, IF stored = "Running" THEN "StepCompleted" ELSE "Running")
    /\ UNCHANGED <<vars, progress, recovering, crashes>>

-------------------------------------------------------------------------------
RecoveryInit ==
    /\ Init
    /\ currentStep = None
    /\ storedStep = None
    /\ sagaError = "none"
    /\ storedError = "none"
    /\ comp = [i \in Steps |-> "none"]
    /\ outcome = [a \in Undoers |-> <<>>]
    /\ recovering = FALSE
    /\ rec = [r \in Managers |-> Idle]
    /\ reset = {}
    /\ crashes = 0

(* What a recovery does once it has begun *)
Recover(r) ==
    \/ recoverSagaInstance(r) \/ recoverRunningSaga(r) \/ retryCurrentStep(r)
    \/ recoverCompensatingSaga(r) \/ UpdateSagaState(r)
    \/ CancelReturns(r) \/ RecoverReturns(r)

RecoveryNext ==
    \/ Coordinate
    \/ Crash
    \/ \E r \in Recoverers : RecoverSaga(r)
    \/ \E o \in Operators : ForceCompensate(o) \/ MarkAsFailed(o) \/ RetrySaga(o)
    \/ \E r \in Managers : Recover(r)

(* performRecoveryCheck finds a saga that nobody has updated for long: after a  *)
(* crash, every saga that the storage shows as active.                          *)
Detected(r) == crashes > 0 /\ stored \in Active /\ RecoverSaga(r)

CancelOf(r) ==
    /\ \/ CancelStep(r) \/ Undo(r)
       \/ /\ SaveCancelled(r) /\ StoreBy(r)
          /\ UNCHANGED <<currentStep, sagaError, comp, outcome, reset>>
    /\ UNCHANGED <<recovery, crashes>>

RecoverySpec ==
    /\ RecoveryInit /\ [][RecoveryNext]_rvars
    /\ \A r \in Managers : WF_rvars(Recover(r)) /\ WF_rvars(CancelOf(r))
    /\ \A r \in Recoverers : WF_rvars(Detected(r))

-------------------------------------------------------------------------------
(* Properties *)

(* Intent is recorded before effect.  Whenever the process dies, the storage    *)
(* has a record of every step that may have taken effect, and a mark on every   *)
(* step that may have been compensated; retryCurrentStep alone can remove such  *)
(* a mark, because it saves a record it read earlier.                           *)
RecordedBeforeDone ==
    /\ \A i \in done : \E k \in DOMAIN saved : saved[k] = i
    /\ \A i \in undone \ reset : comp[i] # "none"

(* A record that says a compensation has completed is true, though two actors   *)
(* may compensate the same step and each saves its own copy of the record.      *)
CompensationRecordsTrue ==
    \A i \in Steps : comp[i] = "Completed" => i \in undone

(* Crash, recovery and operators included, the storage says Completed only if   *)
(* every step has succeeded.                                                    *)
CompletedIsTrue == stored = "Completed" => done = Steps

(* "An error ... if the Saga is already being recovered" (RecoverSaga): two     *)
(* recoveries of a saga never overlap, and the mark is there while one runs.    *)
OneRecoveryAtATime ==
    LET Running == {r \in Recoverers : ~At(r, "idle") /\ rec[r].claimed} IN
    /\ Cardinality(Running) <= 1
    /\ recovering <=> Running # {}

(* A saga that a crash has left active comes to an end in the storage.  Two     *)
(* things are in the way.  A saga that is stored with a position (by StopSaga's *)
(* SaveSaga, or CancelSaga's with a late write of an active state behind it)    *)
(* and with no error, or a transient one, is put back to Running for ever.  And *)
(* a state StopSaga read before a recovery it may write after it, Pending among *)
(* them, which no detection looks for.                                          *)
RecoveryEnds ==
    LET LeftActive == /\ crashes > 0 /\ stored \in Active
                      /\ storedStep = None \/ storedError \in {"lasting", "other"}
    IN LeftActive ~> IsTerminal(stored) \/ stored = "Pending"

(* "All compensation steps completed, update Saga state"                        *)
(* (recoverCompensatingSaga): the storage says Compensated only if every step   *)
(* that succeeded has been compensated.                                         *)
CompensatedIsTrue == stored = "Compensated" => undone = done
===============================================================================
