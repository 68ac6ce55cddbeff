------------------------- MODULE ConcurrencyController -------------------------
(* The concurrency controller and the worker pool of pkg/saga/coordinator      *)
(* (concurrency.go) as StartSaga uses them: several sagas compete for slots,   *)
(* their tasks go through one channel to the workers, executions fail and are  *)
(* cancelled, and Shutdown closes everything under them.                       *)
(*                                                                             *)
(* One action is one critical section or one channel operation.  What a task   *)
(* does is SagaOrchestrator; here it runs, and ends with or without an error.  *)
EXTENDS Integers, Sequences, FiniteSets

CONSTANTS
    Sagas,                \* callers of StartSaga, one saga each
    Workers,              \* the pool's goroutines: WorkerPoolSize of them
    MaxConcurrentSagas,   \* ConcurrencyConfig.MaxConcurrentSagas
    Closers,              \* goroutines that call Shutdown, once each
    MayFail,              \* executeSteps may return an error
    MayCancel             \* CancelSaga or StopSaga may cancel an execution context

ASSUME ControllerAssumption ==
    /\ IsFiniteSet(Sagas) /\ IsFiniteSet(Workers) /\ Workers # {}
    /\ MaxConcurrentSagas \in Nat \ {0}
    /\ {MayFail, MayCancel} \subseteq BOOLEAN

VARIABLES
    semaphore,         \* tokens in cc.semaphore
    activeSagaCount,   \* cc.activeSagaCount
    activeInstances,   \* keys of cc.activeInstances
    closed,            \* cc.closed; cc.shutdownCh is closed with it
    taskCh,            \* wp.taskCh
    poolClosed,        \* wp.closed; wp.taskCh is closed with it
    worker,            \* per worker: where it is, and the saga whose task it has
    report,            \* per saga: what task.done holds
    cancelled,         \* sagas whose execution context is cancelled
    pc,                \* per saga: where its StartSaga is
    shutdown,          \* per closer: where its Shutdown is
    released           \* history: sagas for which ReleaseSlot was called

slots == <<semaphore, activeSagaCount, activeInstances>>
pool  == <<taskCh, poolClosed, worker, report>>
vars  == <<slots, closed, pool, cancelled, pc, shutdown, released>>

QueueSize == 2 * Cardinality(Workers)     \* NewWorkerPool

Idle == [at |-> "idle"]
Exited == [at |-> "exited"]
Has(l, s) == [at |-> l, saga |-> s]

Goto(s, l) == pc' = [pc EXCEPT ![s] = l]

-------------------------------------------------------------------------------
(* AcquireSlot and ReleaseSlot *)

CheckOpen(s) ==
    /\ pc[s] = "new"
    /\ Goto(s, IF closed THEN "refused" ELSE "acquiring")
    /\ UNCHANGED <<slots, closed, pool, cancelled, shutdown, released>>

TakeSlot(s) ==
    /\ pc[s] = "acquiring" /\ semaphore < MaxConcurrentSagas
    /\ semaphore' = semaphore + 1
    /\ Goto(s, "counting")
    /\ UNCHANGED <<activeSagaCount, activeInstances, closed, pool, cancelled,
                   shutdown, released>>

(* AcquireTimeout, the caller's context, or Shutdown *)
AcquireFails(s) ==
    /\ pc[s] = "acquiring"
    /\ Goto(s, "refused")
    /\ UNCHANGED <<slots, closed, pool, cancelled, shutdown, released>>

CountSlot(s) ==
    /\ pc[s] = "counting"
    /\ activeSagaCount' = activeSagaCount + 1
    /\ activeInstances' = activeInstances \cup {s}
    /\ Goto(s, "acquired")
    /\ UNCHANGED <<semaphore, closed, pool, cancelled, shutdown, released>>

(* Mutant of ReleaseSlot: the count stays *)
ReleaseSlotKeepsCount(s) ==
    /\ released' = released \cup {s}
    /\ activeInstances' = activeInstances \ {s}
    /\ semaphore' = IF semaphore > 0 THEN semaphore - 1 ELSE 0
    /\ UNCHANGED activeSagaCount

ReleaseSlot(s) ==
    /\ released' = released \cup {s}
    /\ IF closed THEN UNCHANGED slots
       ELSE /\ activeInstances' = activeInstances \ {s}
            /\ activeSagaCount' = activeSagaCount - 1
            /\ semaphore' = IF semaphore > 0 THEN semaphore - 1 ELSE 0

-------------------------------------------------------------------------------
(* The rest of StartSaga: SubmitTask, Submit, and what follows.  Its call of   *)
(* releaseExecution cancels a context nobody listens to any more.              *)

SubmitTask(s) ==
    /\ pc[s] = "acquired"
    /\ Goto(s, IF closed THEN "releasing" ELSE "submitting")
    /\ UNCHANGED <<slots, closed, pool, cancelled, shutdown, released>>

Submit(s) ==
    /\ pc[s] = "submitting"
    /\ Goto(s, IF poolClosed THEN "releasing" ELSE "sending")
    /\ UNCHANGED <<slots, closed, pool, cancelled, shutdown, released>>

SendTask(s) ==
    /\ pc[s] = "sending" /\ ~poolClosed /\ Len(taskCh) < QueueSize
    /\ taskCh' = Append(taskCh, s)
    /\ Goto(s, "waiting")
    /\ UNCHANGED <<slots, closed, poolClosed, worker, report, cancelled, shutdown,
                   released>>

(* A send on a closed channel, or blocked in one that gets closed, panics.     *)
SendPanics(s) ==
    /\ pc[s] = "sending" /\ poolClosed
    /\ Goto(s, "panicked")
    /\ UNCHANGED <<slots, closed, pool, cancelled, shutdown, released>>

SendCancelled(s) ==
    /\ pc[s] = "sending" /\ s \in cancelled
    /\ Goto(s, "releasing")
    /\ UNCHANGED <<slots, closed, pool, cancelled, shutdown, released>>

SubmitReturns(s) ==
    /\ pc[s] = "waiting"
    /\ \/ report[s] = "ok" /\ Goto(s, "returned")
       \/ report[s] = "error" /\ Goto(s, "releasing")
       \/ s \in cancelled /\ Goto(s, "releasing")
    /\ UNCHANGED <<slots, closed, pool, cancelled, shutdown, released>>

(* Mutant of ReleaseAfterError: the slot of a task that never ran is forgotten *)
ReleaseAfterErrorForgotten(s) ==
    /\ pc[s] = "releasing"
    /\ Goto(s, "failed")
    /\ UNCHANGED <<slots, closed, pool, cancelled, shutdown, released>>

ReleaseAfterError(s) ==
    /\ pc[s] = "releasing"
    /\ ReleaseSlot(s)
    /\ Goto(s, "failed")
    /\ UNCHANGED <<closed, pool, cancelled, shutdown>>

(* CancelSaga or StopSaga, as long as StartSaga tracks the execution           *)
Cancel(s) ==
    /\ MayCancel /\ s \notin cancelled
    /\ pc[s] \in {"acquiring", "counting", "acquired", "submitting", "sending", "waiting"}
    /\ cancelled' = cancelled \cup {s}
    /\ UNCHANGED <<slots, closed, pool, pc, shutdown, released>>

-------------------------------------------------------------------------------
(* A worker *)

SetWorker(w, x) == worker' = [worker EXCEPT ![w] = x]

TakeTask(w) ==
    LET s == Head(taskCh) IN
    /\ worker[w] = Idle /\ taskCh # <<>>
    /\ taskCh' = Tail(taskCh)
    /\ IF s \in cancelled
       THEN report' = [report EXCEPT ![s] = "error"] /\ UNCHANGED worker
       ELSE SetWorker(w, Has("running", s)) /\ UNCHANGED report
    /\ UNCHANGED <<slots, closed, poolClosed, cancelled, pc, shutdown, released>>

(* The task ends: its deferred ReleaseSlot runs.                               *)
EndTask(w) ==
    /\ worker[w].at = "running"
    /\ LET s == worker[w].saga IN
       /\ ReleaseSlot(s)
       /\ \/ SetWorker(w, Has("ok", s))
          \/ (MayFail \/ s \in cancelled) /\ SetWorker(w, Has("error", s))
    /\ UNCHANGED <<closed, taskCh, poolClosed, report, cancelled, pc, shutdown>>

(* Mutant of Report: only a success is reported *)
ReportOnlySuccess(w) ==
    /\ worker[w].at \in {"ok", "error"}
    /\ report' = IF worker[w].at = "ok"
                 THEN [report EXCEPT ![worker[w].saga] = "ok"] ELSE report
    /\ SetWorker(w, Idle)
    /\ UNCHANGED <<slots, closed, taskCh, poolClosed, cancelled, pc, shutdown, released>>

Report(w) ==
    /\ worker[w].at \in {"ok", "error"}
    /\ LET s == worker[w].saga IN
       \/ report' = [report EXCEPT ![s] = worker[w].at]
       \/ s \in cancelled /\ UNCHANGED report
    /\ SetWorker(w, Idle)
    /\ UNCHANGED <<slots, closed, taskCh, poolClosed, cancelled, pc, shutdown, released>>

(* The range over the channel ends when it is closed and empty.                *)
ExitWorker(w) ==
    /\ worker[w] = Idle /\ poolClosed /\ taskCh = <<>>
    /\ SetWorker(w, Exited)
    /\ UNCHANGED <<slots, closed, taskCh, poolClosed, report, cancelled, pc, shutdown,
                   released>>

-------------------------------------------------------------------------------
(* Shutdown.  cc.wg counts nothing, so the wait for it ends at once.            *)

BeginShutdown(k) ==
    /\ shutdown[k] = "idle"
    /\ shutdown' = [shutdown EXCEPT ![k] = IF closed THEN "returned" ELSE "closing"]
    /\ closed' = TRUE
    /\ UNCHANGED <<slots, pool, cancelled, pc, released>>

(* Mutant of ClosePool: the channel is not closed *)
ClosePoolKeepsChannel(k) ==
    /\ shutdown[k] = "closing"
    /\ shutdown' = [shutdown EXCEPT ![k] = "waiting"]
    /\ UNCHANGED <<slots, closed, pool, cancelled, pc, released>>

ClosePool(k) ==
    /\ shutdown[k] = "closing"
    /\ poolClosed' = TRUE
    /\ shutdown' = [shutdown EXCEPT ![k] = "waiting"]
    /\ UNCHANGED <<slots, closed, taskCh, worker, report, cancelled, pc, released>>

(* Mutant of EndShutdown: it does not wait for the workers *)
EndShutdownNoWait(k) ==
    /\ shutdown[k] = "waiting"
    /\ shutdown' = [shutdown EXCEPT ![k] = "drained"]
    /\ UNCHANGED <<slots, closed, pool, cancelled, pc, released>>

EndShutdown(k) ==
    /\ shutdown[k] = "waiting" /\ \A w \in Workers : worker[w] = Exited
    /\ shutdown' = [shutdown EXCEPT ![k] = "drained"]
    /\ UNCHANGED <<slots, closed, pool, cancelled, pc, released>>

-------------------------------------------------------------------------------
Init ==
    /\ semaphore = 0
    /\ activeSagaCount = 0
    /\ activeInstances = {}
    /\ closed = FALSE
    /\ taskCh = <<>>
    /\ poolClosed = FALSE
    /\ worker = [w \in Workers |-> Idle]
    /\ report = [s \in Sagas |-> "none"]
    /\ cancelled = {}
    /\ pc = [s \in Sagas |-> "new"]
    /\ shutdown = [k \in Closers |-> "idle"]
    /\ released = {}

Send(s) == SendTask(s) \/ SendPanics(s) \/ SendCancelled(s)

FinishStartSaga(s) ==
    \/ TakeSlot(s) \/ AcquireFails(s) \/ CountSlot(s) \/ SubmitTask(s) \/ Submit(s)
    \/ Send(s) \/ SubmitReturns(s) \/ ReleaseAfterError(s)

RunWorker(w) == TakeTask(w) \/ Report(w) \/ ExitWorker(w)

FinishShutdown(k) == ClosePool(k) \/ EndShutdown(k)

(* A panic ends the process. *)
Crashed == \E s \in Sagas : pc[s] = "panicked"

Next ==
    /\ ~Crashed
    /\ \/ \E s \in Sagas : CheckOpen(s) \/ FinishStartSaga(s) \/ Cancel(s)
       \/ \E w \in Workers : RunWorker(w) \/ EndTask(w)
       \/ \E k \in Closers : BeginShutdown(k) \/ FinishShutdown(k)

(* Goroutines run, and tasks end (SagaOrchestrator's EventuallyTerminal).       *)
(* Nothing makes anybody call StartSaga, Shutdown or CancelSaga.               *)
Fairness ==
    /\ \A s \in Sagas : WF_vars(~Crashed /\ FinishStartSaga(s))
    /\ \A w \in Workers : WF_vars(~Crashed /\ (RunWorker(w) \/ EndTask(w)))
    /\ \A k \in Closers : WF_vars(~Crashed /\ FinishShutdown(k))

Spec == Init /\ [][Next]_vars /\ Fairness

-------------------------------------------------------------------------------
Labels == {"new", "refused", "acquiring", "counting", "acquired", "submitting",
           "sending", "waiting", "returned", "releasing", "failed", "panicked"}

(* Types, and the semaphore within its capacity (AcquireSlot, ReleaseSlot);     *)
(* activeSagaCount may go below zero, see Undisturbed.                          *)
TypeOK ==
    /\ semaphore \in 0 .. MaxConcurrentSagas
    /\ activeSagaCount \in Int
    /\ activeInstances \subseteq Sagas
    /\ closed \in BOOLEAN
    /\ taskCh \in Seq(Sagas)
    /\ poolClosed \in BOOLEAN
    /\ worker \in [Workers -> {Idle, Exited} \cup
                                 [at : {"running", "ok", "error"}, saga : Sagas]]
    /\ report \in [Sagas -> {"none", "ok", "error"}]
    /\ cancelled \subseteq Sagas
    /\ pc \in [Sagas -> Labels]
    /\ shutdown \in [Closers -> {"idle", "returned", "closing", "waiting", "drained"}]
    /\ released \subseteq Sagas

Executing == {w \in Workers : worker[w].at = "running"}

(* Sagas that took a token, whose StartSaga has not returned and for which     *)
(* ReleaseSlot was not called                                                  *)
Holders ==
    {s \in Sagas : pc[s] \notin {"new", "refused", "acquiring", "returned", "failed"}}
        \ released

(* A slot that was taken comes back: the semaphore never holds more tokens     *)
(* than there are sagas still to give theirs back, however tasks are dropped,  *)
(* cancelled or fail between StartSaga, the channel and the worker.            *)
NoSlotLeak == ~closed => semaphore <= Cardinality(Holders)

(* No task has ended with an error and no execution was cancelled: both the    *)
(* worker and StartSaga call ReleaseSlot then, the second time for a token     *)
(* that may be another saga's.                                                 *)
Undisturbed ==
    /\ cancelled = {}
    /\ \A s \in Sagas : report[s] # "error"
    /\ \A w \in Workers : worker[w].at # "error"

(* As long as nothing fails and nothing is cancelled, AcquireSlot and          *)
(* ReleaseSlot keep exact books: the tokens are the holders, and               *)
(* activeSagaCount and activeInstances follow them up to the lock that         *)
(* AcquireSlot takes after the token.                                          *)
BooksExact ==
    Undisturbed /\ ~closed =>
        /\ semaphore = Cardinality(Holders)
        /\ activeInstances = {s \in Holders : pc[s] # "counting"}
        /\ activeSagaCount = Cardinality(activeInstances)

(* When the Shutdown that closed the pool returns, no task is running or left  *)
(* in the channel, and every StartSaga that was waiting has its answer.        *)
ShutdownDrains ==
    (\E k \in Closers : shutdown[k] = "drained") =>
        /\ Executing = {} /\ taskCh = <<>>
        /\ \A s \in Sagas : pc[s] = "waiting" => report[s] # "none" \/ s \in cancelled

(* StartSaga returns, whether its task runs, is cancelled or is refused.       *)
StartSagaAnswers ==
    \A s \in Sagas :
        pc[s] = "acquiring" ~> pc[s] \in {"returned", "refused", "failed"} \/ Crashed

(* Shutdown returns once the tasks it found have ended: workers, channel and   *)
(* the callers in between do not wait for each other.                          *)
ShutdownReturns ==
    \A k \in Closers :
        shutdown[k] = "closing" ~> shutdown[k] = "drained" \/ Crashed
===============================================================================
