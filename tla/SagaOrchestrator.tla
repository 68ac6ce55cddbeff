--------------------------- MODULE SagaOrchestrator ---------------------------
(* One saga under the orchestrator of pkg/saga/coordinator: the caller of      *)
(* StartSaga, the worker that executes and compensates its steps, the monitor  *)
(* of its timeout, and any number of callers of CancelSaga and StopSaga.       *)
(*                                                                             *)
(* The actors share the instance (its own mutex), the storage (its own mutex), *)
(* three maps of the coordinator and two contexts, and no lock spans any two   *)
(* of them: one action is one critical section, or one call into user code.    *)
(*                                                                             *)
(* The storage is state/storage/memory.go, or any StateStorage that may in     *)
(* addition fail transiently when StorageFaults is set.                        *)
EXTENDS Integers, Sequences, FiniteSets

CONSTANTS
    N,              \* number of steps of the definition
    MaxAttempts,    \* retry policy: attempts for a step or a compensation
    Reverse,        \* GetCompensationOrder: reverse order, or the order of the steps
    MaySkip,        \* a custom strategy's ShouldCompensate may say no
    HasTimeout,     \* the definition has a timeout
    StorageFaults,  \* a call to the storage may fail
    MayRefuse,      \* AcquireSlot may time out
    Worker,         \* the goroutine that executes the saga
    Cancellers,     \* goroutines that call CancelSaga, once each
    Stoppers        \* goroutines that call StopSaga, once each

ASSUME SagaAssumption ==
    /\ N \in Nat \ {0}
    /\ MaxAttempts \in Nat \ {0}
    /\ {Reverse, MaySkip, HasTimeout, StorageFaults, MayRefuse} \subseteq BOOLEAN
    /\ Worker \notin Cancellers \cup Stoppers
    /\ Cancellers \cap Stoppers = {}

VARIABLES
    mem,             \* instance.state
    stored,          \* the saga's state in the storage
    inMemory,        \* oc.instances has the saga
    defined,         \* oc.definitions has the saga
    cancelFunc,      \* oc.cancelFuncs has the saga
    execDone,        \* execCtx is cancelled
    ctx,             \* Err() of the context the worker runs under
    active,          \* metrics.ActiveSagas, this saga's share
    completedSteps,  \* instance.completedSteps
    saved,           \* steps with a StepState in the storage, in slice order
    blank,           \* those whose StepState was replaced by one without output
    done,            \* steps whose Execute succeeded
    undone,          \* steps whose Compensate succeeded
    gaveUp,          \* per actor, steps whose Compensate failed for good
    pc,              \* where the worker, a canceller, a stopper is
    intent,          \* the state the actor is about to store; "live": instance.state
    todo,            \* steps an actor still has to compensate
    given,           \* the step whose output Compensate is called with
    attempt,         \* attempts made at the current step or compensation
    step,            \* the worker's loop variable
    after,           \* where the worker goes on after storing
    starter,         \* where the caller of StartSaga is
    monitor          \* where monitorSagaTimeout is

registry == <<inMemory, defined, cancelFunc>>
contexts == <<execDone, ctx>>
steps    == <<completedSteps, saved, blank, done, step>>
undoing  == <<undone, gaveUp, todo, given>>
flow     == <<pc, intent, after, attempt>>
vars     == <<mem, stored, registry, contexts, active, steps, undoing, flow,
              starter, monitor>>

Steps    == 1 .. N
Undoers  == {Worker} \cup Cancellers
Actors   == Undoers \cup Stoppers
None     == 0          \* no output

SagaStates == {"Pending", "Running", "StepCompleted", "Completed", "Compensating",
               "Compensated", "Failed", "Cancelled", "TimedOut"}

IsTerminal(s) == s \in {"Completed", "Compensated", "Failed", "Cancelled", "TimedOut"}

(* GetCompensationOrder of the first k steps *)
GetCompensationOrder(k) ==
    IF Reverse THEN [i \in 1 .. k |-> k + 1 - i] ELSE [i \in 1 .. k |-> i]

-------------------------------------------------------------------------------
(* Contexts and the coordinator's maps *)

(* Cancelling execCtx also ends the worker's context, which derives from it.   *)
CancelContext ==
    /\ execDone' = TRUE
    /\ ctx' = IF ctx = "live" THEN "Canceled" ELSE ctx

cancelExecution ==
    IF cancelFunc THEN CancelContext ELSE UNCHANGED contexts

releaseExecution ==
    /\ cancelExecution
    /\ cancelFunc' = FALSE
    /\ defined' = FALSE

(* SaveSaga converts the instance as it is now; UpdateSagaState is given the   *)
(* state.                                                                      *)
Store(a) == stored' = IF intent[a] = "live" THEN mem ELSE intent[a]

(* Mutant of Recorded: a new record goes to the front *)
RecordedFirst(i) == IF \E k \in DOMAIN saved : saved[k] = i THEN saved ELSE <<i>> \o saved

(* SaveStepState, under a context with error c: the record of step i is        *)
(* replaced or appended.                                                       *)
Recorded(i) == IF \E k \in DOMAIN saved : saved[k] = i THEN saved ELSE Append(saved, i)

SaveStepState(c, i) ==
    \/ c = "live" /\ saved' = Recorded(i)
    \/ (c # "live" \/ StorageFaults) /\ UNCHANGED saved

-------------------------------------------------------------------------------
(* The worker: how it moves on, and updateSagaState *)

WorkerAt(l) == pc[Worker] = l

Goto(a, l) == pc' = [pc EXCEPT ![a] = l]

(* The worker has set instance.state to s and now stores w, under its context  *)
(* or in the background, before it goes on at l.                               *)
UpdateState(s, w, background, l) ==
    /\ mem' = s
    /\ intent' = [intent EXCEPT ![Worker] = w]
    /\ after' = l
    /\ Goto(Worker, IF background THEN "write" ELSE "persist")

updateSagaState(s, l) == UpdateState(s, s, FALSE, l)

(* handleContextCancellation of both executors *)
handleContextCancellation == UpdateState("Cancelled", "Cancelled", TRUE, "returning")

(* The storage refuses a cancelled context; the failure is only logged.        *)
PersistCheck ==
    /\ WorkerAt("persist")
    /\ Goto(Worker, IF ctx = "live" THEN "write" ELSE after)
    /\ UNCHANGED <<mem, stored, registry, contexts, active, steps, undoing,
                   intent, after, attempt, starter, monitor>>

(* Mutant of PersistWrite: a failing storage ends the execution *)
PersistWriteAborts ==
    /\ WorkerAt("write")
    /\ \/ Store(Worker) /\ Goto(Worker, after)
       \/ StorageFaults /\ UNCHANGED stored /\ Goto(Worker, "returning")
    /\ UNCHANGED <<mem, registry, contexts, active, steps, undoing,
                   intent, after, attempt, starter, monitor>>

PersistWrite ==
    /\ WorkerAt("write")
    /\ \/ Store(Worker)
       \/ StorageFaults /\ UNCHANGED stored
    /\ Goto(Worker, after)
    /\ UNCHANGED <<mem, registry, contexts, active, steps, undoing,
                   intent, after, attempt, starter, monitor>>

-------------------------------------------------------------------------------
(* The worker: executeSteps and executeStep *)

(* A worker takes the task off the channel, and drops it if it was cancelled.  *)
TakeTask ==
    /\ WorkerAt("queued")
    /\ Goto(Worker, IF execDone THEN "ended" ELSE "starting")
    /\ UNCHANGED <<mem, stored, registry, contexts, active, steps, undoing,
                   intent, after, attempt, starter, monitor>>

BeginSaga ==
    /\ WorkerAt("starting")
    /\ monitor' = IF HasTimeout THEN "watching" ELSE monitor
    /\ updateSagaState("Running", "loop")
    /\ UNCHANGED <<stored, registry, contexts, active, steps, undoing, attempt, starter>>

(* The loop over the steps, with its check of the context *)
BeginStep ==
    /\ WorkerAt("loop") /\ step <= N /\ ctx = "live"
    /\ SaveStepState(ctx, step)
    /\ attempt' = [attempt EXCEPT ![Worker] = 0]
    /\ Goto(Worker, "trying")
    /\ UNCHANGED <<mem, stored, registry, contexts, active, completedSteps, blank,
                   done, step, undoing, intent, after, starter, monitor>>

StepsInterrupted ==
    /\ WorkerAt("loop") /\ step <= N /\ ctx # "live"
    /\ handleContextCancellation
    /\ UNCHANGED <<stored, registry, contexts, active, steps, undoing, attempt,
                   starter, monitor>>

(* After the last step the context is not looked at again. *)
handleSagaCompletion ==
    /\ WorkerAt("loop") /\ step > N
    /\ UpdateState("Completed", "live", FALSE, "retire")
    /\ UNCHANGED <<stored, registry, contexts, active, steps, undoing, attempt,
                   starter, monitor>>

(* retryExecutor.Execute: an attempt begins unless the context has ended.      *)
TryStep ==
    /\ WorkerAt("trying")
    /\ IF ctx = "live"
       THEN /\ attempt' = [attempt EXCEPT ![Worker] = @ + 1]
            /\ SaveStepState(ctx, step)
            /\ Goto(Worker, "running")
       ELSE /\ Goto(Worker, "failed")
            /\ UNCHANGED <<attempt, saved>>
    /\ UNCHANGED <<mem, stored, registry, contexts, active, completedSteps, blank,
                   done, step, undoing, intent, after, starter, monitor>>

(* step.Execute returns; the context may have ended meanwhile.                 *)
StepSucceeds ==
    /\ WorkerAt("running")
    /\ done' = done \cup {step}
    /\ SaveStepState(ctx, step)
    /\ Goto(Worker, "counting")
    /\ UNCHANGED <<mem, stored, registry, contexts, active, completedSteps, blank,
                   step, undoing, intent, after, attempt, starter, monitor>>

StepFails ==
    /\ WorkerAt("running")
    /\ \/ attempt[Worker] < MaxAttempts /\ Goto(Worker, "trying")
       \/ Goto(Worker, "failed")
    /\ SaveStepState(ctx, step)
    /\ UNCHANGED <<mem, stored, registry, contexts, active, completedSteps, blank,
                   done, step, undoing, intent, after, attempt, starter, monitor>>

incrementCompletedSteps ==
    /\ WorkerAt("counting")
    /\ completedSteps' = completedSteps + 1
    /\ Goto(Worker, "counted")
    /\ UNCHANGED <<mem, stored, registry, contexts, active, saved, blank, done, step,
                   undoing, intent, after, attempt, starter, monitor>>

MarkStepCompleted ==
    /\ WorkerAt("counted")
    /\ step' = step + 1
    /\ updateSagaState("StepCompleted", "loop")
    /\ UNCHANGED <<stored, registry, contexts, active, completedSteps, saved, blank,
                   done, undoing, attempt, starter, monitor>>

(* Mutant of handleStepFailure: the first completed step is overlooked *)
handleStepFailureOffByOne ==
    /\ WorkerAt("failed")
    /\ SaveStepState(ctx, step)
    /\ IF step > 2 THEN updateSagaState("Compensating", "decide")
                   ELSE updateSagaState("Failed", "retire")
    /\ UNCHANGED <<stored, registry, contexts, active, completedSteps, blank, done,
                   step, undoing, attempt, starter, monitor>>

(* The step failed for good: compensate the steps before it, if any.           *)
handleStepFailure ==
    /\ WorkerAt("failed")
    /\ SaveStepState(ctx, step)
    /\ IF step > 1 THEN updateSagaState("Compensating", "decide")
                   ELSE updateSagaState("Failed", "retire")
    /\ UNCHANGED <<stored, registry, contexts, active, completedSteps, blank, done,
                   step, undoing, attempt, starter, monitor>>

(* Mutant of RetireSaga: only a saga that completed is taken off the gauge *)
RetireSagaIfCompleted ==
    /\ WorkerAt("retire")
    /\ active' = IF mem = "Completed" THEN active - 1 ELSE active
    /\ Goto(Worker, "returning")
    /\ UNCHANGED <<mem, stored, registry, contexts, steps, undoing, intent, after,
                   attempt, starter, monitor>>

(* ActiveSagas-- and the other counters of the handler *)
RetireSaga ==
    /\ WorkerAt("retire")
    /\ active' = active - 1
    /\ Goto(Worker, "returning")
    /\ UNCHANGED <<mem, stored, registry, contexts, steps, undoing, intent, after,
                   attempt, starter, monitor>>

(* executeSteps returns: the deferred cancel of its timeout ends the context.   *)
EndTask ==
    /\ WorkerAt("returning")
    /\ ctx' = IF HasTimeout /\ ctx = "live" THEN "Canceled" ELSE ctx
    /\ Goto(Worker, "ended")
    /\ UNCHANGED <<mem, stored, registry, execDone, active, steps, undoing, intent,
                   after, attempt, starter, monitor>>

-------------------------------------------------------------------------------
(* Compensation, by the worker (executeCompensation) or by a canceller          *)
(* (compensateForCancellation), both through compensateStep                     *)

(* ShouldCompensate of the strategy.  The instance's error is never nil here   *)
(* and never of type business: the retry executor wraps what a step returns.   *)
BeginCompensation ==
    /\ WorkerAt("decide")
    /\ todo' = [todo EXCEPT ![Worker] = GetCompensationOrder(step - 1)]
    /\ Goto(Worker, "undo")
    /\ UNCHANGED <<mem, stored, registry, contexts, active, steps, undone, gaveUp,
                   given, intent, after, attempt, starter, monitor>>

handleCompensationSkipped ==
    /\ WorkerAt("decide") /\ MaySkip
    /\ updateSagaState("Failed", "returning")
    /\ UNCHANGED <<stored, registry, contexts, active, steps, undoing, attempt,
                   starter, monitor>>

(* A canceller compensates under its caller's context, the worker under ctx.   *)
Err(a) == IF a = Worker THEN ctx ELSE "live"

(* compensateStep looks its StepState up by position; if there is none, or the *)
(* storage does not answer, it makes a fresh one without output and saves it.  *)
compensateStep(a) ==
    LET i == Head(todo[a]) IN
    /\ pc[a] = "undo" /\ todo[a] # <<>> /\ Err(a) = "live"
    /\ \/ /\ i <= Len(saved)
          /\ given' = [given EXCEPT ![a] =
                          IF saved[i] \in done \ blank THEN saved[i] ELSE None]
          /\ UNCHANGED <<saved, blank>>
       \/ /\ i > Len(saved) \/ StorageFaults
          /\ given' = [given EXCEPT ![a] = None]
          /\ \/ saved' = Recorded(i) /\ blank' = blank \cup {i}
             \/ StorageFaults /\ UNCHANGED <<saved, blank>>
    /\ attempt' = [attempt EXCEPT ![a] = 0]
    /\ Goto(a, "undoing")
    /\ UNCHANGED <<mem, stored, registry, contexts, active, completedSteps, done, step,
                   undone, gaveUp, todo, intent, after, starter, monitor>>

TryCompensate(a) ==
    /\ pc[a] = "undoing" /\ Err(a) = "live"
    /\ attempt' = [attempt EXCEPT ![a] = @ + 1]
    /\ Goto(a, "compensating")
    /\ UNCHANGED <<mem, stored, registry, contexts, active, steps, undoing, intent,
                   after, starter, monitor>>

CompensateSucceeds(a) ==
    /\ pc[a] = "compensating"
    /\ undone' = undone \cup {Head(todo[a])}
    /\ todo' = [todo EXCEPT ![a] = Tail(@)]
    /\ Goto(a, "undo")
    /\ UNCHANGED <<mem, stored, registry, contexts, active, steps, gaveUp, given,
                   intent, after, attempt, starter, monitor>>

CompensateFails(a) ==
    /\ pc[a] = "compensating"
    /\ \/ /\ attempt[a] < MaxAttempts
          /\ Goto(a, "undoing")
          /\ UNCHANGED <<gaveUp, todo>>
       \/ /\ gaveUp' = [gaveUp EXCEPT ![a] = @ \cup {Head(todo[a])}]
          /\ todo' = [todo EXCEPT ![a] = Tail(@)]
          /\ Goto(a, "undo")
    /\ UNCHANGED <<mem, stored, registry, contexts, active, steps, undone, given,
                   intent, after, attempt, starter, monitor>>

(* Mutant of CompensationInterrupted: it returns without a new state *)
CompensationInterruptedSilently ==
    /\ \/ WorkerAt("undo") /\ todo[Worker] # <<>>
       \/ WorkerAt("undoing")
    /\ ctx # "live"
    /\ Goto(Worker, "returning")
    /\ UNCHANGED <<mem, stored, registry, contexts, active, steps, undoing, attempt,
                   intent, after, starter, monitor>>

(* The worker's context ended: between two steps, or between two attempts.     *)
CompensationInterrupted ==
    /\ \/ WorkerAt("undo") /\ todo[Worker] # <<>>
       \/ WorkerAt("undoing")
    /\ ctx # "live"
    /\ handleContextCancellation
    /\ UNCHANGED <<stored, registry, contexts, active, steps, undoing, attempt,
                   starter, monitor>>

(* Mutant of handleCompensationFailure: the state is not stored *)
handleCompensationFailureUnsaved ==
    /\ WorkerAt("undo") /\ todo[Worker] = <<>> /\ gaveUp[Worker] # {}
    /\ mem' = "Failed"
    /\ Goto(Worker, "returning")
    /\ UNCHANGED <<stored, registry, contexts, active, steps, undoing, attempt,
                   intent, after, starter, monitor>>

handleCompensationFailure ==
    /\ WorkerAt("undo") /\ todo[Worker] = <<>> /\ gaveUp[Worker] # {}
    /\ updateSagaState("Failed", "returning")
    /\ UNCHANGED <<stored, registry, contexts, active, steps, undoing, attempt,
                   starter, monitor>>

(* Mutant of handleCompensationCompletion: failed compensations are forgotten *)
handleCompensationCompletionAlways ==
    /\ WorkerAt("undo") /\ todo[Worker] = <<>>
    /\ UpdateState("Compensated", "live", FALSE, "retire")
    /\ UNCHANGED <<stored, registry, contexts, active, steps, undoing, attempt,
                   starter, monitor>>

handleCompensationCompletion ==
    /\ WorkerAt("undo") /\ todo[Worker] = <<>> /\ gaveUp[Worker] = {}
    /\ UpdateState("Compensated", "live", FALSE, "retire")
    /\ UNCHANGED <<stored, registry, contexts, active, steps, undoing, attempt,
                   starter, monitor>>

-------------------------------------------------------------------------------
(* CancelSaga(c) *)

(* loadInstance: the live instance if the coordinator has it, else the storage's *)
SagaExists == stored # "none"
LoadedState == IF inMemory THEN mem ELSE stored

LoadForCancel(c) ==
    /\ pc[c] = "idle" /\ SagaExists
    /\ Goto(c, IF IsTerminal(LoadedState) THEN "rejected" ELSE "loaded")
    /\ intent' = [intent EXCEPT ![c] = IF inMemory THEN "live" ELSE "Cancelled"]
    /\ UNCHANGED <<mem, stored, registry, contexts, active, steps, undoing, after,
                   attempt, starter, monitor>>

InterruptForCancel(c) ==
    /\ pc[c] = "loaded"
    /\ cancelExecution
    /\ Goto(c, IF intent[c] = "live" THEN "interrupted" ELSE "saving")
    /\ UNCHANGED <<mem, stored, registry, active, steps, undoing, intent, after,
                   attempt, starter, monitor>>

(* Mutant of compensateForCancellation: it goes by the step being executed *)
compensateForCancellationCurrent(c) ==
    /\ pc[c] = "interrupted"
    /\ mem' = "Compensating"
    /\ todo' = [todo EXCEPT ![c] = GetCompensationOrder(IF step > N THEN N ELSE step)]
    /\ Goto(c, "undo")
    /\ UNCHANGED <<stored, registry, contexts, active, steps, undone, gaveUp, given,
                   intent, after, attempt, starter, monitor>>

compensateForCancellation(c) ==
    /\ pc[c] = "interrupted"
    /\ IF defined /\ completedSteps > 0
       THEN /\ mem' = "Compensating"
            /\ todo' = [todo EXCEPT ![c] = GetCompensationOrder(completedSteps)]
            /\ Goto(c, "undo")
       ELSE /\ Goto(c, "marking")
            /\ UNCHANGED <<mem, todo>>
    /\ UNCHANGED <<stored, registry, contexts, active, steps, undone, gaveUp, given,
                   intent, after, attempt, starter, monitor>>

MarkCancelled(c) ==
    /\ pc[c] = "marking" \/ (pc[c] = "undo" /\ todo[c] = <<>>)
    /\ mem' = "Cancelled"
    /\ Goto(c, "saving")
    /\ UNCHANGED <<stored, registry, contexts, active, steps, undoing, intent, after,
                   attempt, starter, monitor>>

SaveCancelled(c) ==
    /\ pc[c] = "saving"
    /\ \/ Store(c) /\ Goto(c, "cleanup")
       \/ StorageFaults /\ Goto(c, "error") /\ UNCHANGED stored
    /\ UNCHANGED <<mem, registry, contexts, active, steps, undoing, intent, after,
                   attempt, starter, monitor>>

FinishCancel(c) ==
    /\ pc[c] = "cleanup"
    /\ active' = IF active > 0 THEN active - 1 ELSE active
    /\ inMemory' = FALSE
    /\ releaseExecution
    /\ Goto(c, "cancelled")
    /\ UNCHANGED <<mem, stored, steps, undoing, intent, after, attempt, starter, monitor>>

(* StopSaga(s) *)

LoadForStop(s) ==
    /\ pc[s] = "idle" /\ SagaExists
    /\ Goto(s, IF IsTerminal(LoadedState) THEN "rejected" ELSE "loaded")
    /\ intent' = [intent EXCEPT ![s] = IF inMemory THEN "live" ELSE stored]
    /\ UNCHANGED <<mem, stored, registry, contexts, active, steps, undoing, after,
                   attempt, starter, monitor>>

InterruptForStop(s) ==
    /\ pc[s] = "loaded"
    /\ cancelExecution
    /\ Goto(s, "saving")
    /\ UNCHANGED <<mem, stored, registry, active, steps, undoing, intent, after,
                   attempt, starter, monitor>>

SaveStopped(s) ==
    /\ pc[s] = "saving"
    /\ \/ Store(s) /\ Goto(s, "stopped")
       \/ StorageFaults /\ Goto(s, "error") /\ UNCHANGED stored
    /\ UNCHANGED <<mem, registry, contexts, active, steps, undoing, intent, after,
                   attempt, starter, monitor>>

-------------------------------------------------------------------------------
(* The caller of StartSaga *)

(* Nobody knows the saga before it is in the coordinator's map.                *)
CreateSaga ==
    /\ starter = "new"
    /\ \/ /\ stored' = "Pending"
          /\ inMemory' = TRUE
          /\ active' = active + 1
          /\ starter' = "created"
       \/ /\ StorageFaults
          /\ starter' = "refused"
          /\ UNCHANGED <<stored, inMemory, active>>
    /\ UNCHANGED <<mem, defined, cancelFunc, contexts, steps, undoing, flow, monitor>>

(* The SagaStarted event is out before the saga can be cancelled.              *)
TrackSaga ==
    /\ starter = "created"
    /\ defined' = TRUE
    /\ cancelFunc' = TRUE
    /\ starter' = "tracked"
    /\ UNCHANGED <<mem, stored, inMemory, contexts, active, steps, undoing, flow, monitor>>

AcquireSlotFails ==
    /\ starter = "tracked" /\ MayRefuse
    /\ releaseExecution
    /\ stored' = mem \/ UNCHANGED stored     \* the caller's context may be why
    /\ starter' = "refused"
    /\ UNCHANGED <<mem, inMemory, active, steps, undoing, flow, monitor>>

(* Submit: a cancelled context may win against room in the task channel.       *)
SubmitTask ==
    /\ starter = "tracked"
    /\ starter' = "waiting"
    /\ \/ Goto(Worker, "queued")
       \/ execDone /\ UNCHANGED pc
    /\ UNCHANGED <<mem, stored, registry, contexts, active, steps, undoing, intent,
                   after, attempt, monitor>>

(* Mutant of SubmitReturns: the worker's report is not waited for *)
SubmitReturnsIfCancelled ==
    /\ starter = "waiting"
    /\ execDone
    /\ releaseExecution
    /\ starter' = "returned"
    /\ UNCHANGED <<mem, stored, inMemory, active, steps, undoing, flow, monitor>>

(* Submit returns when the worker has reported or the context is cancelled.    *)
SubmitReturns ==
    /\ starter = "waiting"
    /\ WorkerAt("ended") \/ execDone
    /\ releaseExecution
    /\ starter' = "returned"
    /\ UNCHANGED <<mem, stored, inMemory, active, steps, undoing, flow, monitor>>

-------------------------------------------------------------------------------
(* The timeout of the saga *)

Deadline ==
    /\ monitor = "watching" /\ ctx = "live"
    /\ ctx' = "DeadlineExceeded"
    /\ UNCHANGED <<mem, stored, registry, execDone, active, steps, undoing, flow,
                   starter, monitor>>

monitorSagaTimeout ==
    /\ monitor = "watching" /\ ctx # "live"
    /\ IF ctx = "DeadlineExceeded"
       THEN mem' = "TimedOut" /\ monitor' = "timedOut"
       ELSE monitor' = "ended" /\ UNCHANGED mem
    /\ UNCHANGED <<stored, registry, contexts, active, steps, undoing, flow, starter>>

handleSagaTimeout ==
    /\ monitor = "timedOut"
    /\ stored' = "TimedOut" \/ (StorageFaults /\ UNCHANGED stored)
    /\ active' = active - 1
    /\ monitor' = "handled"
    /\ UNCHANGED <<mem, registry, contexts, steps, undoing, flow, starter>>

-------------------------------------------------------------------------------
Init ==
    /\ mem = "Pending"
    /\ stored = "none"
    /\ inMemory = FALSE
    /\ defined = FALSE
    /\ cancelFunc = FALSE
    /\ execDone = FALSE
    /\ ctx = "live"
    /\ active = 0
    /\ completedSteps = 0
    /\ saved = <<>>
    /\ blank = {}
    /\ done = {}
    /\ undone = {}
    /\ gaveUp = [a \in Undoers |-> {}]
    /\ pc = [a \in Actors |-> "idle"]
    /\ intent = [a \in Actors |-> "live"]
    /\ todo = [a \in Undoers |-> <<>>]
    /\ given = [a \in Undoers |-> None]
    /\ attempt = [a \in Undoers |-> 0]
    /\ step = 1
    /\ after = "loop"
    /\ starter = "new"
    /\ monitor = "off"

Compensate(a) ==
    compensateStep(a) \/ TryCompensate(a) \/ CompensateSucceeds(a) \/ CompensateFails(a)

StartSaga == CreateSaga \/ TrackSaga \/ AcquireSlotFails \/ SubmitTask \/ SubmitReturns

executeSteps ==
    \/ TakeTask \/ BeginSaga \/ PersistCheck \/ PersistWrite
    \/ BeginStep \/ StepsInterrupted \/ handleSagaCompletion
    \/ TryStep \/ StepSucceeds \/ StepFails
    \/ incrementCompletedSteps \/ MarkStepCompleted \/ handleStepFailure
    \/ BeginCompensation \/ handleCompensationSkipped \/ Compensate(Worker)
    \/ CompensationInterrupted \/ handleCompensationFailure
    \/ handleCompensationCompletion \/ RetireSaga \/ EndTask

FinishCancelSaga(c) ==
    \/ InterruptForCancel(c) \/ compensateForCancellation(c) \/ Compensate(c)
    \/ MarkCancelled(c) \/ SaveCancelled(c) \/ FinishCancel(c)

CancelSaga(c) == LoadForCancel(c) \/ FinishCancelSaga(c)

FinishStopSaga(s) == InterruptForStop(s) \/ SaveStopped(s)

StopSaga(s) == LoadForStop(s) \/ FinishStopSaga(s)

Monitor == monitorSagaTimeout \/ handleSagaTimeout

Next ==
    \/ StartSaga
    \/ executeSteps
    \/ \E c \in Cancellers : CancelSaga(c)
    \/ \E s \in Stoppers : StopSaga(s)
    \/ Deadline
    \/ Monitor

(* Goroutines run, and user code called with a deadline returns.  Nothing      *)
(* makes anybody call CancelSaga or StopSaga, or a deadline pass.              *)
Fairness ==
    /\ WF_vars(StartSaga)
    /\ WF_vars(executeSteps)
    /\ WF_vars(Monitor)
    /\ \A c \in Cancellers : WF_vars(FinishCancelSaga(c))
    /\ \A s \in Stoppers : WF_vars(FinishStopSaga(s))

Spec == Init /\ [][Next]_vars /\ Fairness

-------------------------------------------------------------------------------
(* Properties *)

WorkerLabels ==
    {"idle", "queued", "starting", "persist", "write", "loop", "trying", "running",
     "counting", "counted", "failed", "decide", "undo", "undoing", "compensating",
     "retire", "returning", "ended"}

CallerLabels ==
    {"idle", "loaded", "rejected", "interrupted", "undo", "undoing", "compensating",
     "marking", "saving", "cleanup", "cancelled", "stopped", "error"}

(* Types of the saga's state, and for each goroutine the places it can be at:   *)
(* StartSaga, the worker, CancelSaga, StopSaga and the timeout monitor.         *)
TypeOK ==
    /\ mem \in SagaStates
    /\ stored \in SagaStates \cup {"none"}
    /\ inMemory \in BOOLEAN /\ defined \in BOOLEAN /\ cancelFunc \in BOOLEAN
    /\ execDone \in BOOLEAN
    /\ ctx \in {"live", "Canceled", "DeadlineExceeded"}
    /\ active \in Int
    /\ completedSteps \in 0 .. N
    /\ saved \in Seq(Steps)
    /\ blank \subseteq Steps
    /\ done \subseteq Steps
    /\ undone \subseteq Steps
    /\ gaveUp \in [Undoers -> SUBSET Steps]
    /\ pc \in [Actors -> WorkerLabels \cup CallerLabels]
    /\ pc[Worker] \in WorkerLabels
    /\ \A a \in Actors \ {Worker} : pc[a] \in CallerLabels
    /\ intent \in [Actors -> SagaStates \cup {"live"}]
    /\ todo \in [Undoers -> Seq(Steps)]
    /\ given \in [Undoers -> Steps \cup {None}]
    /\ attempt \in [Undoers -> 0 .. MaxAttempts]
    /\ step \in 1 .. N + 1
    /\ after \in {"loop", "decide", "retire", "returning"}
    /\ starter \in {"new", "created", "tracked", "waiting", "returned", "refused"}
    /\ monitor \in {"off", "watching", "timedOut", "handled", "ended"}

(* Compensate is called only for steps whose Execute succeeded, whoever calls  *)
(* it: the worker counts its position, a canceller reads completedSteps while  *)
(* the worker is still executing.                                              *)
UndoneOnlyIfDone ==
    /\ undone \subseteq done
    /\ \A a \in Undoers : pc[a] = "compensating" => Head(todo[a]) \in done

(* completedSteps, which CancelSaga goes by, counts a gap-free prefix of the   *)
(* steps that succeeded and lags by at most the step that is just returning.   *)
CompletedStepsIsPrefix ==
    /\ done \in {1 .. completedSteps, 1 .. (completedSteps + 1)}
    /\ done # 1 .. completedSteps => WorkerAt("counting")

(* Neither the instance nor the storage ever says Completed before all steps   *)
(* succeeded, or Compensated while a step that succeeded is not undone.        *)
OutcomeIsTrue ==
    \A s \in {mem, stored} :
        /\ s = "Completed" => done = Steps
        /\ s = "Compensated" => undone = done

(* compensateStep finds its StepState by position, not by name: what it hands  *)
(* to Compensate is nevertheless the output of the very step it undoes.        *)
OwnOutput ==
    \A a \in Undoers :
        pc[a] = "compensating" => given[a] = Head(todo[a])

(* Once a worker has begun a saga, the instance reaches a terminal state and   *)
(* stays in terminal states, whatever cancels and timeouts do.                 *)
EventuallyTerminal == WorkerAt("starting") ~> [](IsTerminal(mem))

(* The caller of StartSaga gets its answer: the task is reported or cancelled. *)
StartSagaReturns == starter = "tracked" ~> starter \in {"returned", "refused"}

(* What the storage says and what the instance says are the same in the end.   *)
StorageConverges == <>[](stored = mem)

(* All calls have returned; nothing but a new caller can act.                  *)
Settled ==
    /\ pc[Worker] \in {"idle", "ended"}
    /\ starter \in {"returned", "refused"}
    /\ monitor \in {"off", "ended", "handled"}
    /\ \A a \in Actors \ {Worker} :
           pc[a] \in {"idle", "rejected", "cancelled", "stopped", "error"}

(* "Active Sagas are those in Running, StepCompleted, or Compensating states"  *)
(* (GetActiveSagas): the gauge ActiveSagas does not count a saga that has      *)
(* completed, was compensated, or failed in its first step.  (The handlers of  *)
(* a failed or skipped compensation do not decrement it.)                      *)
GaugeSettles ==
    Settled /\ (mem \in {"Completed", "Compensated"} \/ (mem = "Failed" /\ done = {}))
        => active = 0

(* Without interference the orchestrator implements the abstract saga.         *)
SagaPhase ==
    CASE mem = "Completed" -> "committed"
      [] mem = "Compensated" -> "aborted"
      [] mem = "Failed" -> IF undone = done THEN "aborted" ELSE "incomplete"
      [] mem = "Compensating" -> "backward"
      [] OTHER -> "forward"

Abstract == INSTANCE Saga WITH phase <- SagaPhase

(* The saga as its users see it, through instance.state and the effects of the *)
(* steps: all done, or turned back once and undone in the strategy's order,    *)
(* with a final outcome that comes (executeSteps, executeCompensation).        *)
ImplementsSaga == Abstract!SagaSpec
===============================================================================
