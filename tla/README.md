# Verification of the swit coordination core

swit is a Go framework for microservices: a base server with HTTP and gRPC
transports, service discovery, a messaging layer over several brokers, and, on
top of them, what a distributed application needs to stay consistent: sagas,
two-phase commit, an outbox and an inbox, circuit breakers and retries.  This
directory holds TLA+ models of the parts that coordinate concurrent actors, the
TLC configurations that model-check them, and the proofs TLAPS checks.

Paths below are relative to the root of the repository.

## 1. The system: an inventory

### Saga orchestration (`pkg/saga`)

| Part | State | Operations |
|---|---|---|
| Orchestrator (`coordinator/orchestrator.go`) | `instances`, `definitions`, `cancelFuncs`, `metrics`, `closed`; per saga: `state`, `currentStep`, `completedSteps`, `sagaError` | StartSaga, CancelSaga, StopSaga, GetSagaInstance, GetActiveSagas, Close |
| Step executor (`coordinator/execution.go`) | position in the step list, attempt | executeSteps, executeStep, updateSagaState, handleStepFailure, handleSagaCompletion, handleContextCancellation |
| Compensation executor (`coordinator/compensation.go`) | position in the compensation order, errors so far | executeCompensation, compensateStep and its four handlers |
| Timeout detector (`coordinator/timeout.go`) | trackers per saga and step | StartSagaTimeout, monitorSagaTimeout, handleSagaTimeout, the same for steps |
| Concurrency controller and worker pool (`coordinator/concurrency.go`) | semaphore, `activeSagaCount`, `closed`, task channel | AcquireSlot, ReleaseSlot, SubmitTask, Shutdown, worker, Submit, Close |
| Retry executor and its breaker (`retry/`) | attempt; breaker state, failures, half-open requests | Execute, ShouldRetry, recordSuccess, recordFailure, checkResetTimeout |
| State storage (`state/storage/memory.go`, `redis.go`, `postgres.go`) | sagas, step states | SaveSaga, UpdateSagaState, SaveStepState, GetStepStates, DeleteSaga, CleanupExpiredSagas |
| Recovery (`state/recovery*.go`, `state/manager.go`) | recovery attempts | scan, recover, alerts |
| Choreography, hybrid, mode selection (`coordinator/choreography*.go`, `hybrid*.go`) | handlers, routing | HandleEvent, mode selection |
| Saga events (`messaging/`) | publishers, dead letters | publish, subscribe, route |
| DSL, monitoring, security (`dsl/`, `monitoring/`, `security/`) | parsed definitions; dashboards; access rules | parse, serve, authorise |

A saga is driven by several goroutines at once: the caller of StartSaga, a
worker that executes the steps, a timeout monitor, and any number of callers of
CancelSaga and StopSaga.  The saga's state is written by all of them, each time
first in memory and then, as a separate step, in the storage.

### Transaction and messaging patterns (`pkg/patterns`)

| Part | State | Operations |
|---|---|---|
| Two-phase commit (`transaction/`) | phase, participants prepared and committed | Execute, prepare, commit, rollback with retries; Begin, Cleanup of the coordinator |
| Outbox (`outbox/`) | entries with processed, retry count, error | SaveForPublish, Start, Stop, processBatch, processEntry, cleanup |
| Inbox (`inbox/`) | records (message, handler, result) | Process, ProcessWithTransaction, ProcessWithResult, cleanup |
| CQRS, in-memory saga (`cqrs/`, `saga/`) | handlers | Dispatch, Ask |

### Resilience (`pkg/resilience`)

| Part | State | Operations |
|---|---|---|
| Circuit breaker | state, generation, counts, expiry, probes | beforeRequest, afterRequest, GetState, Reset |
| Rate limiter, bulk executor, retry executor, dead-letter queue | tokens and windows; batches; attempts; queued messages | Allow, Wait; Execute; Do; Enqueue, Retry |

### Messaging (`pkg/messaging`)

The in-memory broker (`inmemory/`), the coordinator and lifecycle that start and
stop brokers and handlers (`coordinator.go`, `lifecycle.go`), connections and
pools (`connection.go`, `pool.go`), a circuit breaker and retries of their own
(`circuit.go`, `retry.go`), recovery (`recovery.go`), and the adapters for Kafka,
NATS and RabbitMQ.

### Server (`pkg/server`, `pkg/transport`, `pkg/discovery`)

The base server starts and stops transports, registrations and hooks in order
(`base.go`, `lifecycle.go`, `transport.go`, `discovery.go`); the dependency
container (`dependency.go`) initialises and closes services; discovery providers
register instances with Consul, etcd or Kubernetes.

### The rest

Security, middleware, tracing, configuration, generators (`switctl`), the two
demonstration services (`switauth`, `switserve`) and the documentation site are
request/response code, input validation, I/O and generated code with no
protocol between concurrent actors; they are listed as not modelled.

### What is hard here

* An operation runs without the lock that guards its bookkeeping, so its result
  meets a state that has moved on (circuit breaker, step executor, outbox).
* A check and the act it allows are two steps (CancelSaga's terminal check, the
  worker's cancelled check, storage's context check).
* Memory and storage are written one after the other, and the write to storage
  is skipped when the context is already cancelled.
* One saga is written by four kinds of goroutine with no common lock.
* Cancellation wakes the caller that waits for the work it cancels.
* Cleaning up is done twice, or by whoever gets there first.

## 2. What is modelled

| Module | Models | Its state in the code |
|---|---|---|
| `CircuitBreaker` | `pkg/resilience/circuit_breaker.go` | the fields of `CircuitBreaker`; time is the one bit "expiry is past" |
| `Saga` | nothing: the abstract saga that users are promised | |
| `SagaOrchestrator` | one saga under `orchestrator.go`, `execution.go`, `compensation.go`, `timeout.go`, with the retry executor and the in-memory storage as they are used there | the instance's `state` and `completedSteps`, the coordinator's maps, the two contexts, the storage's saga and step states, and where every goroutine is |
| `SagaRecovery` | crashes, and `pkg/saga/state/recovery*.go`, on top of `SagaOrchestrator` | the `CurrentStep`, `Error` and `CompensationState` in the storage, `rm.recovering`, and where every recovery is |
| `RetryBreaker` | `pkg/saga/retry/circuit_breaker.go` under `executor.go` | the fields of `CircuitBreaker`; time is the one bit "the reset timeout is past" |
| `ConcurrencyController` | `concurrency.go` and the part of StartSaga around it, for several sagas | semaphore, counters, task channel, `closed` flags, workers |
| `Transaction` | `pkg/patterns/transaction`: the coordinator with both strategies | `State`, `CompletedAt` and the strategy; what each participant holds; for each caller of Execute its loop variables and its context |
| `Publication` | nothing: what the outbox promises to the application and the broker | |
| `Outbox` | `pkg/patterns/outbox/processor.go` over `postgres_storage.go` | the rows, the open transaction, what each goroutine has fetched, and whose context has ended |
| `Inbox` | `pkg/patterns/inbox/processor.go`, Process and the cleanup | the records, and where every call is |
| `RabbitConsumer` | `pkg/messaging/rabbitmq/consumer.go` and the queues it works on | queues, unacknowledged deliveries and tags; the loop's session, hand and pause; the workers, also those of earlier subscriptions |
| `Delivery` | composition of `Publication`, `RabbitConsumer` and `Inbox` | |
| `*Proofs`, `SagaOrchestratorInvariant` | theorems, see section 5 | |
| `MC*` | the modules that the `.cfg` files instantiate | |

### The circuit breaker

Every method holds the mutex, so one action is one critical section.  `Execute`
is two of them, `beforeRequest` and `afterRequest`, and the operation runs
between the two without the lock.  `currentState` and `toNewGeneration` are
operators on the breaker as a record, because they are called in the middle of a
critical section.  `admitted` is a history variable.

### One orchestrated saga

The actors are the caller of StartSaga, one worker, the timeout monitor, and
callers of CancelSaga and StopSaga.  One action is one critical section (the
instance's mutex, the storage's mutex, one operation on a `sync.Map`, one
channel operation) or one call into user code.  What matters about a step is
whether it was done and undone, so data is left out except for one thing:
`given` records whose output a compensation is handed, because compensateStep
finds its StepState by position in a list.

Saving happens in two steps for the worker: the storage refuses a context that
has ended (`PersistCheck`), and then writes (`PersistWrite`).  `intent` is what
will be written: a state that was passed, or `"live"`, the instance as it is at
that moment (SaveSaga converts the instance it is given).

A few critical sections are merged, where no other actor can tell:

* `CreateSaga`: nobody knows the saga before it is in the coordinator's map.
* `TrackSaga`: the definition is stored just before the cancel function; a
  canceller that finds one without the other finds no completed step.
* `AcquireSlotFails`: no worker ever starts.
* `compensateForCancellation` reads the definition and `completedSteps` and sets
  the state; `FinishCancel` decrements the gauge and deletes from the maps;
  `handleSagaTimeout` writes the storage and the gauge.  Only the steps that
  touch the saga's state are ordered against other actors' steps.
* `compensateStep` looks at the context and the step states; if the context ends
  in between, Compensate is not called, which is `CompensationInterrupted`.

Taken from the code and used as facts: `ShouldCompensate` of the built-in
strategies never declines here, since the instance's error is neither nil nor of
type business (the retry executor wraps what a step returns); a custom strategy
may decline (`MaySkip`).  Callers of CancelSaga and StopSaga use contexts that
stay live.

The storage is `memory.go`.  `StorageFaults` adds that any call may fail, which
the comments in `execution.go` expect of a storage ("storage may be temporarily
unavailable").

### The concurrency controller

Several callers of StartSaga go through AcquireSlot, SubmitTask and Submit, while
workers take tasks off the channel and callers of Shutdown close both.  A task
is opaque: it runs, releases its slot in its `defer`, and ends with or without
error.  A send on a closed channel panics and ends the process (`Crashed`).
`releaseExecution` is left out: it cancels a context that nobody listens to any
more when StartSaga calls it.  `SagaOrchestrator` has, of all this, what one
saga sees: its slot may be refused, its task may be dropped, Submit may return
because of a report or because of the context.

### Crash and recovery of a saga

`SagaRecovery` extends `SagaOrchestrator`: every action of the coordinator is
there, together with what it leaves behind for a recovery to read.  SaveSaga
stores the instance's current step and error, UpdateSagaState neither; compensateStep
saves a record before it calls Compensate and another one after it, and a crash
may fall between any two of these steps (`BeginUndo`, `EndUndo`, `RecordUndo`).
`Crash` empties the maps and ends every goroutine.  A recoverer is a goroutine of
`performRecoveryBatch`; an operator calls one of ForceCompensate, MarkAsFailed
and RetrySaga.  Where they call CancelSaga, they become cancellers of
`SagaOrchestrator`.  Recoveries also run beside a coordinator that is alive: a
saga is detected by its age, not by the death of its process.

`SelectStrategy` decides by the stored state, error and step.  Of an error it
matters whether it is retryable and of a type the retry strategy takes
(`"transient"`), whether the compensate strategy takes it (`"lasting"`), or neither
(`"other"`).  A saga in an active state usually has no stored error, but it may:
handleStepFailure sets the instance's error before it changes the state
(`execution.go:460`), and a StopSaga in between saves both; or CancelSaga's save is
followed by a late UpdateSagaState of the worker.  A saga that recovery compensates
goes through CancelSaga.  Two facts taken from the code: the count of attempts that
`recoverSagaInstance` compares is the one RecoverSaga has just set to zero, and
`continueNextStep` is not reached, because the selector's list does not have the
strategy that asks for it.

The outputs in the records (`given`, `blank`) follow `memory.go`, where coordinator
and storage share the records, except that `retryCurrentStep` puts back the output
it has read; none of the properties checked under recovery is about them.

### The breaker of the retry executor

A second breaker, with a different contract: it wraps a retry policy, is told of
errors by ShouldRetry, and takes its lock up to five times in one call.  Each
critical section is one action.  `Guarded` is whether the executor was given the
breaker (WithCircuitBreaker) and asks it before each attempt.

### Transactions

One transaction, goroutines that call Execute on it, one after the other or at
once, and around them SetStrategy, the cleanup and the end of each call's context.
One action is one call of a participant with the bookkeeping up to the next call.
Execute looks at the state without a lock and its strategy changes it in a later
step (`Execute`, `Enter`), so several calls may pass.  A call of a participant may
fail, may succeed, or may take effect and return an error all the same (`Outcomes`),
which is what makes retries and rollback interesting.  `doubtful` and `gaveUp` are
history: who acted without acknowledging, and whose undo failed on every attempt;
`overlapped` says that a call has passed the check while another was under way.

### From an event to its handler

`Outbox` has an application that saves entries alone or in a transaction, a
processor with its worker and cleanup, callers of ProcessOnce, and a database.
One action is one SQL statement or one publish.  Goroutines work on copies, so
the retry count they decide on may be old.  A publish that fails may have reached
the broker.  The context given to Start or to ProcessOnce may end (`EndContext`):
then the storage refuses further calls, and the worker leaves (`WorkerLeaves`) with
`started` still set, so that this processor is never started again.  A crash loses
what a goroutine holds and nothing else, and a new processor takes over.  The
refinement mapping to `Publication` has one substitution: an event is settled
when it is committed and no longer pending.

`RabbitConsumer` is a subscription: the loop that takes deliveries and starts
workers, the session it reopens, retry and dead-letter queues, pausing, and both
acknowledgment modes.  The loop looks at `paused` and then waits (`waits`), so that
one more delivery may be taken after Pause.  A republish that fails is followed by a
Nack on the same session (`RepublishFails`).  Unsubscribe need not wait for the
workers: those of a subscription that is over (`"orphan"`) finish beside the next
one, whose own workers are bounded by `Concurrency`.  The broker is external and has
what the code relies on: tags count from one in each session, what was not
acknowledged goes back to the head of the queue when the session ends, and an
unknown tag closes the session.
The worker acknowledges on the session the loop holds at that moment, as its
closure does.

`Inbox` checks, handles, records: three steps, with a crash possible after each.
`Delivery` puts the three together.  Publishing is whatever `Publication` allows,
which is sound because the outbox is proved to implement it.

## 3. The runs

| Run | Question | Answer |
|---|---|---|
| `breaker` | Do callers, clock and Reset together keep the breaker's books? | Yes: every result is counted once and in its own generation, probes are bounded, a failure that reaches a threshold trips the breaker, it closes only after all probes succeeded, and does not stay half-open with all probes out |
| `saga_quiet` | Without interference, does the orchestrator implement `Saga`, and do storage and gauge follow? | Yes, with retries, failed compensations and a declining strategy; the gauge, for sagas that completed, were compensated or failed in their first step |
| `saga_races` | What survives a cancel, a stop, a timeout and a refused slot at once? | Only done steps are undone; Completed and Compensated are true where they are written; compensations get their own output; the saga ends; StartSaga returns |
| `saga_faults` | Does a saga end when every call to the storage may fail and a cancel races with it? | Yes |
| `controller` | With failures, cancels and Shutdown: does a slot leak, does everybody get an answer? | No leak; StartSaga and Shutdown return, Shutdown drains; the books are exact as long as nothing fails |
| `transactions` | What may a caller conclude from the result of Execute, under either strategy, with two goroutines that call it? | Until two calls overlap: success means committed everywhere; failed, that nothing is left but with participants that could not be undone; votes come first, the order of undoing is reversed, a decision is final.  Overlapping or not, Execute returns |
| `outbox` | Does the outbox keep its promise with two goroutines, faults, contexts that end, crashes, Stop and cleanup? | It implements `Publication`; nothing is lost or given up too early, duplicates are bounded, and everything is settled in the end, unless every processor has been stopped or has lost its context for good |
| `delivery` | Does a message reach its handler, and how often? | It is handled, discarded, dead-lettered or still held; more than once only per concurrent worker and per forgotten record; it is processed in the end |
| `recovery` | What can be relied on after crashes at any moment? | Intent is recorded before effect, records and Completed are true, recoveries do not overlap, and a detected saga leaves the active states |
| `delivery_reconnect` | Is a message acknowledged only for its own processing? | No, after a reconnect |
| `recovery_compensated` | Is Compensated true when recovery writes it? | No |
| `retry_open` | Does the retry breaker leave Open by itself? | No |

The last three end in a violation.  Each states what a comment says of the code;
`PROJECT.json` quotes the line and the code that disagrees.

* `delivery_reconnect`: the worker's closure uses `c`, which the loop reassigns
  when it reconnects (`consumer.go:230`, `342`).  The old tag names another
  delivery on the new session.  `NeverDropped` and `EventuallyProcessed` are
  therefore stated up to messages acknowledged in that way (`misacked`).
* `recovery_compensated`: recovery counts unfinished compensation records, and a
  compensation that was not begun has none (`recovery_execution.go:333-354`).
* `retry_open`: Execute fails fast before anything it calls looks at the clock
  (`executor.go:211`).

Why the passing properties are the ones they are:

* `OutcomeIsTrue` is the reason to use a saga: whatever order four goroutines
  write `state` and the storage in, `Completed` means all steps were done and
  `Compensated` means everything done was undone.  It says nothing of `Cancelled`,
  `Failed` and `TimedOut`, which promise nothing about effects.
* `UndoneOnlyIfDone` is what a canceller relies on when it compensates while the
  worker is still executing.
* `OwnOutput` holds without storage faults although the lookup is by position,
  because records are appended in the order of the steps.
* `NoSlotLeak` is the direction of the semaphore's book-keeping that survives
  double releases: slots can be given back too often, never too rarely.
* `FailedNowhere` names exactly who may be left with work after a failure.
* `DuplicatesExplained` and `HandledOnceUnlessForgotten` make "at least once" and
  "at most once" precise: they bound the exceptions by the number of concurrent
  goroutines and of faults.
* `RecordedBeforeDone` is what makes recovery possible at all; it exempts records
  that `retryCurrentStep` has put back, because it saves what it read earlier.
* `NoFailureOverlooked` speaks of failures: onSuccess does not ask ReadyToTrip, so
  a closed breaker may be at a threshold (below).
* `DecisionIsFinal` and the other properties of a transaction speak of it until two
  calls of Execute overlap; what happens then is described below.
* `EventuallySettled` leaves open what happens while no processor can run.
* `RecoveryEnds` excludes sagas that are stored with a position and without an
  error that recovery would give up on: it puts those back to Running, and nothing
  executes them (below).

### What reading the code showed, without a run of its own

Sagas:

* a terminal state may be overwritten by the goroutine it races with: CancelSaga
  checks at `orchestrator.go:656` and writes at `680` without looking again, while
  `types.go:88` says of a terminal state "no further execution possible";
* a step that completes while CancelSaga runs is left uncompensated
  (`orchestrator.go:1040`; the comment at `625` says "all completed steps"), and
  so it is with a timeout between two steps (`timeout.go:244`);
* a saga whose compensation fails or is skipped stays in the gauge of active
  sagas (`compensation.go:469`);
* a failed first save of a step's record shifts the positions by which
  compensation finds the outputs (`compensation.go:166`, `memory.go:315`);
* a task that fails releases its slot, and StartSaga releases it again
  (`orchestrator.go:468`, `486`), so with more workers than slots more sagas
  execute than the limit of `concurrency.go:105` says, and `activeSagaCount` may
  fall below zero; Submit may send on the channel that Close has just closed,
  which panics (`concurrency.go:385`);
* after StopSaga the worker's writes are refused with its context, so the storage
  may keep an older state than the instance (`orchestrator.go:967`);
* Shutdown's timeout bounds a wait for nothing; the wait for the workers has no
  bound (`concurrency.go:256`, `413`).

Recovery:

* a saga that crashes in Running or StepCompleted is normally stored with no
  current step, so recovery marks it Failed and nothing is compensated; if a
  SaveSaga had stored a position (StopSaga's, or CancelSaga's with a late write of
  the worker behind it), recovery writes Running and nobody executes the step
  (`recovery_execution.go:426`), again and again, unless the stored error selects
  another strategy;
* the compensate strategy wants a completed step and gets the index of the current
  one from the PostgreSQL storage (`postgres.go:1294`), so a saga stopped in its
  first step is marked Failed instead;
* `retryCurrentStep` saves a record it has read before, over what a compensation
  may have recorded meanwhile (`recovery_execution.go:412`);
* CancelSaga of a saga known only to the storage stores Cancelled and compensates
  nothing; a saga stored as Pending is never detected; the limit on recovery
  attempts never applies, because each recovery starts its own count;
* Close of the recovery manager sets its flag first, so its call of Stop returns
  at once and the loop goes on.

Patterns and messaging:

* the compensation strategy does not set CompletedAt on failure, so the cleanup
  never removes such a transaction;
* `coordinator.go:46` says of the transaction coordinator that a mutex protects its
  state ("线程安全：使用互斥锁保护内部状态"), but Execute looks at a transaction's
  state without it (`coordinator.go:133`).  Two goroutines that execute the same
  transaction may both pass.  Then one may roll back what the other has committed:
  Execute returns nil over participants that are undone, and a transaction in
  StateCommitted goes on to StateFailed.  Without `~overlapped`, TLC finds each of
  these;
* once the context given to the outbox's Start has ended, the worker has left and
  `started` is still set, so Start returns an error until somebody calls Stop
  (`processor.go:81-83`, `148-149`), and after Stop it is of no use (next); what is
  committed waits for a new processor;
* the outbox processor cannot be started after Stop: its worker leaves at once,
  and a second Stop panics (`processor.go:79`, `102`);
* a comment in the inbox says that a failed record is not returned
  (`processor.go:137`), and the next line returns it; with the outbox on Redis,
  two updates of an entry may lose one (`redis_storage.go:223`);
* with AckModeAuto a message is acknowledged when it is delivered, where
  `pkg/messaging/config.go:778` says "after processing".

The circuit breaker ignores a result when the statistics window rolled over, not
only when the state changed (`circuit_breaker.go:219`).  It asks ReadyToTrip after a
failure only; when a success brings the requests to MinimumRequests
(`circuit_breaker.go:69-74`), the breaker stays closed at a threshold until the next
failure.

### Bounds

`CircuitBreaker`: three callers, two probes, a threshold of two failures
or of 60%, both of at least three requests, generations up to 5 and four admissions
per generation: enough for a result to arrive two state changes late, for probes to
compete, and for either threshold to be the one that is reached.  `MaxGeneration`
and `MaxWindow` are the only bounds; the theorems hold for every value of them.

`SagaOrchestrator` is finite as it is.  With two steps a step can succeed, be
compensated and race with another; `saga_quiet` has four steps and three attempts
each, so that an order can be wrong in the middle.  One attempt per step is
enough where retries do not matter.  Each caller acts once.

`SagaRecovery`: two steps, so that a crash can fall between two compensations; two
crashes, so that a recovery can die too; two recoverers, one of which and the
operator act only after a crash (`Late`, a bound on the state space: the other
recoverer also meets a coordinator that is alive).  One attempt per step and per
compensation: a failure is then the last one, which is what leaves an error.

`ConcurrencyController`: more workers than slots, so that what limits the sagas is
the semaphore; one slot and two sagas, so that one waits for the other.

`Transaction`: two callers and two calls of Execute (`MaxCalls`), at once or one
after the other; two participants, so that there is one before and one after
another; one retry.

`Outbox`: two entries in a batch of two; a worker and a caller of ProcessOnce; one
retry; two faults (`MaxFaults`), so that a crash can follow a failed call.  The
context of Start may end and that of ProcessOnce does not (`Cancellable`); the
theorems hold for any choice.

`Delivery`: two messages, two workers and a prefetch of two, so that two deliveries
of one session are outstanding, and so that a worker left from an earlier
subscription runs beside one of the next; two retries, so that one retry precedes the dead
letter; two faults.  `MaxCopies` bounds how often the outbox publishes an event:
once in `delivery`, where redeliveries come from the broker, twice in
`delivery_reconnect`, with one worker.

`RetryBreaker`: two executors and a threshold of two failures.

### Fairness

Goroutines run: weak fairness of every actor that is not blocked.  User code
called with a deadline returns (the executors pass a context with a timeout), so
the steps in which Execute and Compensate return are fair; so are the calls of a
transaction's participants and of the outbox's publisher, which take a context.
Workers become free.  Nobody is assumed to call CancelSaga, StopSaga, Shutdown,
Reset or Unsubscribe, and no clock is assumed to pass a deadline.

`Outbox`: a processor that is not running is started, since the process that died
is restarted, and its ticker ticks.  Callers of ProcessOnce are not assumed to
call it.  `Delivery`: the broker delivers, the retry queue's time to live passes,
and whoever runs the subscription subscribes again and resumes it.  Faults are
finite, so the rest is not starved by them.  `SagaRecovery`: the detection loop
runs (`Detected`), which finds what a crash has left; recoveries that began go on.
`RetryBreaker`: executions keep coming and the reset timeout passes, which is all
that the code could be waiting for.

## 4. Deadlock

`Transaction.cfg` and `RetryOpen.cfg` check for deadlock.  The others say
`CHECK_DEADLOCK FALSE` because the system really may stop: a saga ends, every saga
of the controller is started once, every message may have been handled, and the
breaker's bound on generations stops it.  What must not get stuck is stated as
liveness instead.

## 5. What the proofs show

| Theorems | For | Say |
|---|---|---|
| `BreakerSafety`, `BreakerTypes`, `BreakerProbesBounded`, `BreakerTripsOnFailure`, `BreakerClosesAfterAllProbes` | any set of callers, any configuration that `Validate` accepts | the invariants and the action property of `breaker`, and `TypeOK` |
| `SagaSafety`, `SagaTypes`, `SagaUndoesOnlyDone`, `SagaCountsSteps` | any number of steps, attempts, cancellers and stoppers; with or without timeout, storage faults, refused slots, declining strategies; either compensation order | `TypeOK`, `UndoneOnlyIfDone`, `CompletedStepsIsPrefix`, `OutcomeIsTrue` |
| `SagaGivesOwnOutput` | the same, without storage faults | `OwnOutput` |
| `SagaGaugeSettles` | the same, without cancellers and timeout | `GaugeSettles` |
| `SagaRefines` | the same, without cancellers, stoppers and timeout | the safety part of `ImplementsSaga`: the initial state and every step are those of `Saga` |
| `ControllerTypes`, `NoLeak`, `ShutdownLeavesNothing`, `ExactBooks` | any number of sagas, workers, slots and callers of Shutdown, with failing and cancelled tasks | `TypeOK`, `NoSlotLeak`, `ShutdownDrains`, `BooksExact` |
| `IntentBeforeEffect`, `RecordsAreTrue`, `CompletedStaysTrue`, `RecoveryExclusive`, `RecoveryUndoesOnlyDone` | any number of steps, crashes, recoverers, operators and late callers | `RecordedBeforeDone`, `CompensationRecordsTrue`, `CompletedIsTrue`, `OneRecoveryAtATime`, `UndoneOnlyIfDone` of the coordinator under recovery |
| `TypeCorrect`, `AllOrError`, `NothingLeft`, `ReverseOrder`, `CleanupSafe`, `VotesFirst`, `Final` of `TransactionProofs` | any number of callers, participants, retries and calls of Execute, under the same `~overlapped` as the properties | `TypeOK`, `CommittedEverywhere`, `FailedNowhere`, `UndoneInReverse`, `CleanedOnlyWhenOver`, `CommitNeedsVotes`, `DecisionIsFinal` |
| `TypeCorrect`, `GhostFree`, `Lossless`, `RetriesExhausted`, `DuplicatesBounded`, `Refinement` of `OutboxProofs` | any number of entries, processors, callers, retries and faults, any of the contexts cancellable | `TypeOK`, `NoGhostEvents`, `NeverLost`, `GivesUpOnlyAfterRetries`, `DuplicatesExplained`, `ImplementsPublication` |
| `TypeCorrect`, `NothingDropped`, `HandledBound`, `NothingSwallowed` of `DeliveryProofs` | any number of messages, workers, prefetched deliveries, retries and faults | `TypeOK`, `NeverDropped`, `HandledOnceUnlessForgotten`, `RecordedMeansHandled` |

The assumptions are `ConfigAssumption`, `SagaAssumption`, `ControllerAssumption`,
`RecoveryAssumption`, `TransactionAssumption`, `OutboxAssumption`,
`ConsumerAssumption` and `DeliveryAssumption`: positive sizes, finite sets of
goroutines, distinct goroutines.  `RecoveryAssumption` also excludes storage
faults: `SagaRecovery` asks what a crash leaves in a storage that works.

*Breaker.*  The invariants are not inductive.  `Good` adds that no operation in
flight carries a generation the breaker has not reached, which is why a late
result can never be counted, that a half-open breaker has counted nothing but
successes, and that a closed one was below both thresholds when it counted its last
failure.  It is stated of a breaker value, so that each operator of a critical
section has its own lemma.

*Saga.*  `IInv` adds to the properties how the worker's loop variable,
`completedSteps` and the steps done hang together at each place (`Position`);
that whoever compensates has only done steps before it (`TodoDone`); that while
the worker compensates, every done step is undone, given up or still to come
(`Cover`); and that what any actor has written or is about to write is true
(`Claims`).  The last is the heart: `Compensated` stays true because it is
claimed only when the worker can do no further step (`WorkOver`), and the claim
travels from `mem` through an actor's `intent` to the storage.
`SagaOrchestratorInvariant` has the invariant, generic lemmas on steps that touch
one group of variables, and one lemma per group of actions;
`SagaOrchestratorProofs` has the theorems.  The invariant takes a parameter:
`IInv(TRUE)` is for an orchestrator alone with its saga, `IInv(FALSE)` leaves out
what a crash and a recovery break.

Three properties need more, and hypotheses none of which can be dropped (with two
steps and any one of them dropped, TLC finds a counterexample):

* `OwnOutput` rests on `Outputs`: the records are those of the first steps in
  their order, one for each step that was begun, and none is blank.  With storage
  faults a record can be missing or made anew without its output.
* `GaugeSettles` rests on `Gauge`: the saga is on the gauge exactly once from its
  creation until its worker retires it, and a worker that leaves without retiring
  leaves in a state the property does not speak of.  CancelSaga and the timeout
  handler decrement the gauge on their own account, so that it is wrong after a
  race.  StopSaga leaves it alone and is included.
* `SagaRefines` rests on `Course`: the context of the worker lives as long as the
  worker works, `state` follows the worker's place, and what is still to be undone
  comes after what was undone (`InOrder`).  A successful step is `DoStep`,
  handleSagaCompletion `Commit`, handleStepFailure `TurnBack`, a successful
  compensation `Undo`, the three ends of a compensation `Finish`, and everything
  else, storage faults included, a stutter.  A stop, a cancel or a timeout ends the
  worker between two steps, which the abstract saga does not do.

*Controller.*  `NoSlotLeak` needs that a task which ended, and a success that
was reported, have released the slot (`Reported`), and that a task exists only
for a saga that has its slot (`Submitted`).  `ShutdownDrains` needs `Drained`: a
worker leaves only when the channel is closed and empty, and whoever waits for an
answer has one, or has a task in the channel or with a worker.  `BooksExact` needs
`Books`: a saga has at most one task and it is in one place (`OneTask`), and while
nothing failed and nothing was cancelled, nobody is on an error path and a task
not yet run has not released its slot (`Quiet`).  So each release takes the token
of its own saga out, and the numbers of tokens and of holders move together.

*Recovery.*  `RInv` starts from `IInv(FALSE)`: every step of the coordinator under
recovery is one of `SagaOrchestrator` or a stutter of it (`CoordinateNext`), so its
invariant is not proved again.  To it come what the storage has of the steps done
and undone (`Journal`, `Marks`), that compensations said to have completed have
(`Truth`), that what a recovery read and still holds is true (`Readings`), and that
`rm.recovering` belongs to the one recovery that claimed it (`Claimed`).

*Transaction.*  `IInv` is `TypeOK`, the bounds of the loops, and, as long as no two
calls have overlapped, `Solo`: at most one caller is under way (`Alone`), and for
each place it may be at, what the participants hold.  Before the loop position they
have voted or committed, after it they are untouched (`AtPrepare`, `AtCommit`); at
the function call all have (`AtFn`); while undoing, those behind the position are
undone or accounted for (`AtUndo`); and what the final states imply (`Rest`).  An
initial state means that nobody was called, which is why the check in Execute
keeps calls apart that come one after the other.  There is one lemma per action.

*Outbox.*  `Held` says of every copy that a goroutine holds that it is of a
committed entry, that its retry count is no newer than the errors of the entry,
and that it is the only one of its entry in that batch.  `RetryBooks` relates
`retry_count` to the errors, with the increments still to come.  `SentBooks` is
what makes `DuplicatesExplained` inductive: while an entry is pending, every send
but those of goroutines about to mark it has cost a fault; once it is not, only a
goroutine that still holds a copy can send it again, and each one does so once.  A
goroutine whose context has ended can no longer mark what it sends (`Late`); the
fault that ended the context pays for that.
The refinement uses the same invariant, one step per action.

*Delivery.*  The inbox and the consumer are proved apart and meet in two facts: a
worker has a call of Process exactly while it handles its delivery, and `handled`
only grows.  `InboxInv` counts for each message the calls that may still handle
it; that is what bounds `handled` by workers and forgotten records.
`ConsumerInv` says of every delivery that the loop, the buffer or a worker holds
which message its tag stands for in this session (`Known`).  A message is
`Covered` if it waits in a queue, something was done with it, or some delivery of
it is unacknowledged and is not just about to be acknowledged because a copy was
published (`Settling`).  `NeverDropped` itself is not inductive: it would count
that last delivery as the one that holds the message.

Only model-checked: all liveness properties, since fairness is out of the prover's
reach (`FullHalfOpenResolves`, `StorageConverges`, `EventuallyTerminal`,
`StartSagaReturns`, `StartSagaAnswers`, `ShutdownReturns`, `ExecuteReturns`,
`EventuallySettled`, `EventuallyProcessed`, `RecoveryEnds`), the fairness part of
`ImplementsSaga`, and everything about `RetryBreaker`.

## 6. How the parts hang together

`ConcurrencyController` is the pool in which `SagaOrchestrator` runs; the latter has
of it what one saga sees.  `SagaRecovery` extends `SagaOrchestrator` and inherits
its actions unchanged.  `Outbox` implements `Publication`, and `Delivery` composes
`Publication` with `RabbitConsumer` and `Inbox`: what `delivery` shows of
publishing, it shows of the outbox.  `CircuitBreaker`, `RetryBreaker` and
`Transaction` stand alone, as their packages do.

## 7. What is not modelled

`PROJECT.json` lists every part with its reason.  In short:

* External services (Redis, Kafka, NATS, Consul) stand behind interfaces.
  PostgreSQL and RabbitMQ are there as far as the code relies on them.  The Redis
  storages read, change and write in separate calls and would need models of
  their own, as would the Kafka consumer with its offsets.
* Parsing, serialisation, metrics, dashboards, HTTP and gRPC middleware, security
  and the command-line generator keep no protocol state between concurrent
  actors.  They are most of the repository.
* Rate limiters, the dead-letter queue manager and the base server do each
  operation under one lock.
* The in-memory broker, the messaging coordinator and its pools, and choreography
  have some concurrency of their own.  They could be modelled and are not.
* The dependency container runs the factory of a singleton outside its lock; of
  two first callers, the second returns the instance it made and not the stored
  one (`pkg/server/dependency.go:192-206`).
* Of the orchestrator, events, spans and metrics other than the gauge of active
  sagas are left out, as are the queries and Close (whose effect is the
  controller's Shutdown).  Of the inbox, ProcessWithTransaction and
  ProcessWithResult; of the RabbitMQ consumer, the fallback for an unknown error
  action; of the retry breaker, recordSuccess, which no executor calls; of
  recovery, its timeout, its alerts and `continueNextStep`, which no stored saga
  reaches.
