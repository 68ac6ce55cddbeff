------------------------ MODULE SagaOrchestratorProofs ------------------------
(* What the invariant of SagaOrchestrator gives.  Its safety properties hold   *)
(* for any number of steps, attempts, cancellers and stoppers, with and        *)
(* without timeouts and storage faults.  Three more results each need an       *)
(* invariant of their own, and the absence of what really breaks them:         *)
(*   Outputs  compensateStep finds its StepState by position, and it is that   *)
(*            of its step, as long as the storage saves what it is given;      *)
(*   Gauge    a saga is on the gauge ActiveSagas until it is retired, as long  *)
(*            as neither a cancel nor a timeout takes it off as well;          *)
(*   Course   the worker does what the abstract saga does, as long as nobody   *)
(*            ends its context.                                                *)
EXTENDS SagaOrchestratorInvariant

USE SagaAssumption, Zenon DEF Steps, Undoers, Actors

(* The invariant implies the properties that the runs check.                   *)
LEMMA IInvImplies ==
    IInv(TRUE) => TypeOK /\ UndoneOnlyIfDone /\ CompletedStepsIsPrefix /\ OutcomeIsTrue
<1> SUFFICES ASSUME IInv(TRUE)
             PROVE  TypeOK /\ UndoneOnlyIfDone /\ CompletedStepsIsPrefix /\ OutcomeIsTrue
  OBVIOUS
<1>1. UndoneOnlyIfDone
  BY NextToUndo DEF IInv, UndoneOnlyIfDone
<1>2. CompletedStepsIsPrefix
  <2>1. CASE WorkerAt("counting")
    <3>1. 1 .. step \subseteq done /\ done \subseteq 1 .. step
      BY <2>1 DEF IInv, Position, Reached
    <3>2. completedSteps + 1 = step
      BY <2>1, SMT DEF IInv, TypeOK, Position, WorkerAt
    <3>3. QED
      BY <2>1, <3>1, <3>2 DEF CompletedStepsIsPrefix
  <2>2. CASE ~WorkerAt("counting")
    BY <2>2 DEF IInv, Position, Reached, CompletedStepsIsPrefix
  <2>3. QED
    BY <2>1, <2>2
<1>3. OutcomeIsTrue
  BY DEF IInv, Claims, Claim, OutcomeIsTrue
<1>4. QED
  BY <1>1, <1>2, <1>3 DEF IInv

(* The invariant is one.                                                       *)
LEMMA SagaInductive == Spec => []IInv(TRUE)
<1>1. Init => IInv(TRUE)
  BY InitIInv
<1>2. IInv(TRUE) /\ [Next]_vars => IInv(TRUE)'
  BY NextIInv
<1>3. QED
  BY <1>1, <1>2, PTL DEF Spec

(* Whatever cancels, stops, timeouts and storage faults do, and for any number *)
(* of steps and callers: only steps that succeeded are compensated, by anybody *)
(* (executeCompensation, compensateForCancellation); completedSteps counts the *)
(* steps that succeeded; and "Completed" and "Compensated", in the instance or *)
(* in the storage, are true.                                                   *)
THEOREM SagaSafety ==
    Spec => [](TypeOK /\ UndoneOnlyIfDone /\ CompletedStepsIsPrefix /\ OutcomeIsTrue)
BY SagaInductive, IInvImplies, PTL

(* The parts of SagaSafety by name: the types, ...                              *)
THEOREM SagaTypes == Spec => []TypeOK
BY SagaSafety, PTL

(* ... that no step is compensated that did not succeed (executeCompensation,   *)
(* compensateForCancellation), ...                                              *)
THEOREM SagaUndoesOnlyDone == Spec => []UndoneOnlyIfDone
BY SagaSafety, PTL

(* ... and that completedSteps counts exactly the steps that succeeded.         *)
THEOREM SagaCountsSteps == Spec => []CompletedStepsIsPrefix
BY SagaSafety, PTL

-------------------------------------------------------------------------------
(* compensateStep hands every step its own output, unless the storage fails:   *)
(* the records are in the order of the steps, none is blank, and there is one  *)
(* for every step that was begun.                                              *)

InStep == pc[Worker] \in {"trying", "running", "failed", "counting", "counted"}

Outputs ==
    /\ blank = {}
    /\ \A k \in 1 .. Len(saved) : saved[k] = k
    /\ step - 1 <= Len(saved)
    /\ InStep => step <= Len(saved)
    /\ \A a \in Undoers : pc[a] \in {"undoing", "compensating"} => given[a] = Head(todo[a])

(* Whoever touches no record and begins no compensation keeps them.            *)
LEMMA OutputsKept ==
    ASSUME Outputs, UNCHANGED <<saved, blank, step>>, InStep' => InStep,
           \A a \in Undoers : pc'[a] \in {"undoing", "compensating"} =>
               /\ pc[a] \in {"undoing", "compensating"}
               /\ given'[a] = given[a] /\ todo'[a] = todo[a]
    PROVE  Outputs'
BY DEF Outputs

(* SaveStepState of the step at hand finds its record, or appends it.          *)
LEMMA SaveInOrder ==
    ASSUME TypeOK, Outputs, ~StorageFaults, step \in Steps, NEW c, SaveStepState(c, step)
    PROVE  /\ \A k \in 1 .. Len(saved') : saved'[k] = k
           /\ Len(saved) <= Len(saved') /\ Len(saved') \in Nat /\ Len(saved) \in Nat
           /\ c = "live" => step <= Len(saved')
<1>0. saved \in Seq(Steps) /\ Len(saved) \in Nat /\ DOMAIN saved = 1 .. Len(saved)
  BY SMT DEF TypeOK
<1>1. step - 1 <= Len(saved) /\ step \in Int /\ \A k \in 1 .. Len(saved) : saved[k] = k
  BY SMT DEF Outputs
<1>2. CASE saved' = saved /\ c # "live"
  BY <1>0, <1>1, <1>2, SMT
<1>3. CASE c = "live" /\ saved' = Recorded(step)
  <2>1. CASE step <= Len(saved)
    <3>1. step \in DOMAIN saved /\ saved[step] = step
      BY <1>0, <1>1, <2>1, SMT
    <3>2. saved' = saved
      BY <1>3, <3>1 DEF Recorded
    <3> QED BY <1>0, <1>1, <2>1, <3>2, SMT
  <2>2. CASE ~(step <= Len(saved))
    <3>1. Len(saved) = step - 1
      BY <1>0, <1>1, <2>2, SMT
    <3>2. \A k \in DOMAIN saved : saved[k] # step
      BY <1>0, <1>1, <3>1, SMT
    <3>3. saved' = Append(saved, step)
      BY <1>3, <3>2 DEF Recorded
    <3> QED BY <1>0, <1>1, <3>1, <3>3, SMT
  <2> QED BY <2>1, <2>2
<1> QED BY <1>2, <1>3 DEF SaveStepState

(* The worker's steps that save a StepState keep the records in order.         *)
LEMMA OutputsSaving ==
    ASSUME IInv(TRUE), Outputs, ~StorageFaults,
           \/ BeginStep \/ TryStep \/ StepSucceeds \/ StepFails \/ handleStepFailure
    PROVE  Outputs'
<1>0. /\ TypeOK /\ pc[Worker] \in {"loop", "trying", "running", "failed"}
      /\ UNCHANGED <<blank, step, undoing>>
  BY DEF IInv, BeginStep, TryStep, StepSucceeds, StepFails, handleStepFailure, WorkerAt
<1>1. step \in Steps
  BY SMT DEF IInv, TypeOK, Position, BeginStep, TryStep, StepSucceeds, StepFails,
             handleStepFailure, WorkerAt
<1>2. \/ SaveStepState(ctx, step) /\ (pc[Worker] = "loop" => ctx = "live")
      \/ saved' = saved /\ pc[Worker] = "trying"
  BY DEF BeginStep, TryStep, StepSucceeds, StepFails, handleStepFailure, WorkerAt
<1>3. /\ \A k \in 1 .. Len(saved') : saved'[k] = k
      /\ step <= Len(saved')
  <2>1. CASE SaveStepState(ctx, step) /\ (pc[Worker] = "loop" => ctx = "live")
    <3>1. /\ \A k \in 1 .. Len(saved') : saved'[k] = k
          /\ Len(saved) <= Len(saved') /\ Len(saved') \in Nat /\ Len(saved) \in Nat
          /\ ctx = "live" => step <= Len(saved')
      BY <1>0, <1>1, <2>1, SaveInOrder
    <3>2. pc[Worker] # "loop" => step <= Len(saved)
      BY <1>0 DEF Outputs, InStep
    <3> QED BY <1>1, <2>1, <3>1, <3>2, SMT
  <2>2. CASE saved' = saved /\ pc[Worker] = "trying"
    BY <2>2 DEF Outputs, InStep
  <2> QED BY <1>2, <2>1, <2>2
<1>4. step' - 1 <= Len(saved')
  <2>1. saved' \in Seq(Steps)
    BY <1>0, <1>1, <1>2, SaveTyped DEF TypeOK
  <2> QED BY <1>0, <1>1, <1>3, <2>1, SMT
<1>5. PICK l \in {"trying", "running", "counting", "failed", "persist"} : Goto(Worker, l)
  BY DEF BeginStep, TryStep, StepSucceeds, StepFails, handleStepFailure, updateSagaState,
         UpdateState
<1>6. \A a \in Undoers : pc'[a] \in {"undoing", "compensating"} => pc'[a] = pc[a]
  BY <1>0, <1>5 DEF Goto, TypeOK
<1> QED BY <1>0, <1>3, <1>4, <1>6 DEF Outputs, undoing

(* compensateStep finds the record of its step, with the output.               *)
LEMMA OutputsCompensating ==
    ASSUME IInv(TRUE), Outputs, ~StorageFaults, NEW a \in Undoers, Compensate(a)
    PROVE  Outputs'
<1>0. TypeOK
  BY DEF IInv
<1>1. CASE compensateStep(a)
  <2> DEFINE i == Head(todo[a])
  <2>1. pc[a] = "undo" /\ todo[a] # <<>> /\ i \in Steps /\ i \in done
    BY <1>1, NextToUndo DEF compensateStep
  <2> HIDE DEF i
  <2>2. done \subseteq 1 .. Len(saved)
    <3>1. /\ step \in Int /\ Len(saved) \in Nat /\ completedSteps \in Int
          /\ step - 1 <= Len(saved) /\ (InStep => step <= Len(saved))
      BY <1>0, SMT DEF TypeOK, Outputs
    <3>2. \/ done \subseteq 1 .. step /\ InStep
          \/ done \subseteq 1 .. (step - 1)
      BY DEF IInv, Position, Reached, InStep, WorkerAt
    <3> QED BY <3>1, <3>2, SMT
  <2>3. i \in 1 .. Len(saved) /\ saved[i] = i /\ ~(i > Len(saved)) /\ blank = {}
    <3>1. i \in 1 .. Len(saved)
      BY <2>1, <2>2
    <3> QED BY <1>0, <3>1, SMT DEF Outputs, TypeOK
  <2>4. /\ given' = [given EXCEPT ![a] = i] /\ Goto(a, "undoing")
        /\ UNCHANGED <<saved, blank, step, todo>>
    BY <1>1, <2>1, <2>3 DEF compensateStep, i
  <2>5. pc'[a] = "undoing" /\ \A b \in Actors \ {a} : pc'[b] = pc[b]
    BY <1>0, <2>4, GotoUndoer
  <2>6. given'[a] = i /\ \A b \in Undoers \ {a} : given'[b] = given[b]
    BY <1>0, <2>4 DEF TypeOK
  <2>7. InStep' => InStep
    BY <2>1, <2>5 DEF InStep
  <2> QED BY <2>4, <2>5, <2>6, <2>7 DEF Outputs, i
<1>2. CASE TryCompensate(a) \/ CompensateSucceeds(a) \/ CompensateFails(a)
  <2>1. PICK l \in {"undo", "undoing", "compensating"} : Goto(a, l)
    BY <1>2 DEF TryCompensate, CompensateSucceeds, CompensateFails
  <2>2. pc'[a] = l /\ \A b \in Actors \ {a} : pc'[b] = pc[b]
    BY <1>0, <2>1, GotoUndoer
  <2>3. UNCHANGED <<saved, blank, step, given>> /\ pc[a] \in {"undoing", "compensating"}
    BY <1>2 DEF TryCompensate, CompensateSucceeds, CompensateFails, steps, undoing
  <2>4. /\ todo' = todo \/ (todo' = [todo EXCEPT ![a] = Tail(@)] /\ Goto(a, "undo"))
    BY <1>2 DEF TryCompensate, CompensateSucceeds, CompensateFails, undoing
  <2>5. \A b \in Undoers : todo'[b] = todo[b] \/ (b = a /\ pc'[b] = "undo")
    BY <1>0, <2>4 DEF TypeOK, Goto
  <2>6. InStep' => InStep
    BY <2>2 DEF InStep
  <2> QED BY <2>2, <2>3, <2>5, <2>6, OutputsKept
<1> QED BY <1>1, <1>2 DEF Compensate

(* Every step keeps the records in order.                                      *)
LEMMA OutputsNext ==
    ASSUME IInv(TRUE), Outputs, ~StorageFaults, [Next]_vars
    PROVE  Outputs'
<1>0. TypeOK /\ Worker \in Undoers /\ Worker \in Actors
  BY DEF IInv
<1>1. ASSUME UNCHANGED <<saved, blank, step, given, todo>>, pc' = pc
      PROVE  Outputs'
  BY <1>1, OutputsKept DEF InStep
<1>2. ASSUME UNCHANGED <<saved, blank, step, given>>,
             NEW c \in Actors \ {Worker}, NEW l \in CallerLabels \ {"undoing", "compensating"},
             Goto(c, l), \A b \in Undoers \ {c} : todo'[b] = todo[b]
      PROVE  Outputs'
  <2>1. /\ pc'[Worker] = pc[Worker] /\ pc'[c] = l
        /\ \A b \in Actors \ {c} : pc'[b] = pc[b]
    BY <1>0, <1>2, GotoCaller
  <2> QED BY <1>2, <2>1, OutputsKept DEF InStep
<1>3. ASSUME UNCHANGED <<saved, blank, given>>, NEW l \in WorkerLabels \ {"undoing", "compensating"},
             Goto(Worker, l), \A b \in Undoers \ {Worker} : todo'[b] = todo[b],
             \/ step' = step /\ (InStep \/ l \notin {"trying", "running", "failed", "counting", "counted"})
             \/ step' = step + 1 /\ InStep /\ l = "persist"
      PROVE  Outputs'
  <2>1. pc'[Worker] = l /\ \A b \in Actors \ {Worker} : pc'[b] = pc[b]
    BY <1>0, <1>3, GotoWorker
  <2>2. CASE step' = step
    BY <1>3, <2>1, <2>2, OutputsKept DEF InStep
  <2>3. CASE step' = step + 1 /\ InStep /\ l = "persist"
    <3>1. step' - 1 <= Len(saved)
      BY <1>0, <2>3, SMT DEF Outputs, TypeOK
    <3> QED BY <1>3, <2>1, <2>3, <3>1 DEF Outputs, InStep
  <2> QED BY <1>3, <2>2, <2>3
<1>4. CASE StartSaga
  <2>1. CASE SubmitTask
    <3>1. UNCHANGED <<saved, blank, given, step, todo>>
      BY <2>1 DEF SubmitTask, steps, undoing
    <3>2. "queued" \in WorkerLabels \ {"undoing", "compensating"}
      BY DEF WorkerLabels
    <3>3. pc' = pc \/ Goto(Worker, "queued")
      BY <2>1 DEF SubmitTask
    <3> QED BY <1>1, <1>3, <3>1, <3>2, <3>3
  <2>2. CASE ~SubmitTask
    BY <1>1, <1>4, <2>2 DEF StartSaga, CreateSaga, TrackSaga, AcquireSlotFails, SubmitReturns,
       steps, undoing, flow
  <2> QED BY <2>1, <2>2
<1>5. CASE Deadline \/ Monitor
  BY <1>1, <1>5 DEF Deadline, Monitor, monitorSagaTimeout, handleSagaTimeout, steps, undoing, flow
<1>6. CASE UNCHANGED vars
  BY <1>1, <1>6 DEF vars, steps, undoing, flow
<1>7. ASSUME NEW s \in Stoppers, StopSaga(s) PROVE Outputs'
  <2>1. UNCHANGED <<saved, blank, step, given, todo>>
    BY <1>7 DEF StopSaga, FinishStopSaga, LoadForStop, InterruptForStop, SaveStopped, steps, undoing
  <2>2. \E l \in {"rejected", "loaded", "saving", "stopped", "error"} : Goto(s, l)
    BY <1>7 DEF StopSaga, FinishStopSaga, LoadForStop, InterruptForStop, SaveStopped
  <2>3. {"rejected", "loaded", "saving", "stopped", "error"}
          \subseteq CallerLabels \ {"undoing", "compensating"}
    BY DEF CallerLabels
  <2> QED BY <1>2, <2>1, <2>2, <2>3
<1>8. ASSUME NEW c \in Cancellers, CancelSaga(c) PROVE Outputs'
  <2>1. CASE Compensate(c)
    BY <2>1, OutputsCompensating
  <2>2. CASE ~Compensate(c)
    <3>1. UNCHANGED <<saved, blank, step, given>>
      BY <1>8, <2>2 DEF CancelSaga, FinishCancelSaga, LoadForCancel, InterruptForCancel,
         compensateForCancellation, MarkCancelled, SaveCancelled, FinishCancel, steps, undoing
    <3>2. \E l \in {"rejected", "loaded", "interrupted", "saving", "undo", "marking", "cleanup",
                    "error", "cancelled"} : Goto(c, l)
      BY <1>8, <2>2 DEF CancelSaga, FinishCancelSaga, LoadForCancel, InterruptForCancel,
         compensateForCancellation, MarkCancelled, SaveCancelled, FinishCancel
    <3>3. {"rejected", "loaded", "interrupted", "saving", "undo", "marking", "cleanup",
           "error", "cancelled"} \subseteq CallerLabels \ {"undoing", "compensating"}
      BY DEF CallerLabels
    <3>4. todo' = todo \/ \E o : todo' = [todo EXCEPT ![c] = o]
      BY <1>8, <2>2 DEF CancelSaga, FinishCancelSaga, LoadForCancel, InterruptForCancel,
         compensateForCancellation, MarkCancelled, SaveCancelled, FinishCancel, undoing
    <3>5. \A b \in Undoers \ {c} : todo'[b] = todo[b]
      BY <1>0, <3>4 DEF TypeOK
    <3> QED BY <1>2, <3>1, <3>2, <3>3, <3>5
  <2> QED BY <2>1, <2>2
<1>9. CASE executeSteps
  <2>1. CASE \/ BeginStep \/ TryStep \/ StepSucceeds \/ StepFails \/ handleStepFailure
    BY <2>1, OutputsSaving
  <2>2. CASE Compensate(Worker)
    BY <2>2, OutputsCompensating
  <2>3. CASE incrementCompletedSteps \/ MarkStepCompleted
    <3>1. /\ InStep /\ UNCHANGED <<saved, blank, given, todo>>
          /\ \/ step' = step /\ Goto(Worker, "counted")
             \/ step' = step + 1 /\ Goto(Worker, "persist")
      BY <2>3 DEF incrementCompletedSteps, MarkStepCompleted, updateSagaState, UpdateState,
         InStep, WorkerAt, undoing
    <3>2. {"counted", "persist"} \subseteq WorkerLabels \ {"undoing", "compensating"}
      BY DEF WorkerLabels
    <3> QED BY <1>3, <3>1, <3>2
  <2>4. CASE PersistCheck \/ PersistWrite \/ RetireSaga \/ EndTask \/ TakeTask \/ BeginCompensation
    <3>1. UNCHANGED <<saved, blank, given, step>>
      BY <2>4 DEF PersistCheck, PersistWrite, RetireSaga, EndTask, TakeTask, BeginCompensation,
         steps, undoing
    <3>2. \E l \in {"write", after, "returning", "ended", "starting", "undo"} : Goto(Worker, l)
      BY <2>4 DEF PersistCheck, PersistWrite, RetireSaga, EndTask, TakeTask, BeginCompensation
    <3>3. {"write", after, "returning", "ended", "starting", "undo"}
            \subseteq WorkerLabels \ {"undoing", "compensating", "trying", "running", "failed",
                                      "counting", "counted"}
      BY <1>0 DEF WorkerLabels, TypeOK
    <3>4. todo' = todo \/ \E o : todo' = [todo EXCEPT ![Worker] = o]
      BY <2>4 DEF PersistCheck, PersistWrite, RetireSaga, EndTask, TakeTask, BeginCompensation,
         undoing
    <3>5. \A b \in Undoers \ {Worker} : todo'[b] = todo[b]
      BY <1>0, <3>4 DEF TypeOK
    <3> QED BY <1>3, <3>1, <3>2, <3>3, <3>5
  <2>5. CASE \/ BeginSaga \/ StepsInterrupted \/ handleSagaCompletion
             \/ handleCompensationSkipped \/ CompensationInterrupted
             \/ handleCompensationFailure \/ handleCompensationCompletion
    <3>1. UNCHANGED <<saved, blank, given, step, todo>>
      BY <2>5 DEF BeginSaga, StepsInterrupted, handleSagaCompletion, handleCompensationSkipped,
         CompensationInterrupted, handleCompensationFailure, handleCompensationCompletion,
         steps, undoing
    <3>2. Goto(Worker, "persist") \/ Goto(Worker, "write")
      BY <2>5 DEF BeginSaga, StepsInterrupted, handleSagaCompletion, handleCompensationSkipped,
         CompensationInterrupted, handleCompensationFailure, handleCompensationCompletion,
         handleContextCancellation, updateSagaState, UpdateState
    <3>3. {"write", "persist"} \subseteq WorkerLabels \ {"undoing", "compensating"}
      BY DEF WorkerLabels
    <3> QED BY <1>3, <3>1, <3>2, <3>3
  <2> QED BY <1>9, <2>1, <2>2, <2>3, <2>4, <2>5 DEF executeSteps
<1> QED BY <1>4, <1>5, <1>6, <1>7, <1>8, <1>9 DEF Next

(* If the storage does not fail, whoever compensates a step hands it the       *)
(* output of that step, whatever cancels, stops and timeouts do and for any    *)
(* number of steps and callers: compensateStep looks records up by position.   *)
THEOREM SagaGivesOwnOutput ==
    ASSUME ~StorageFaults PROVE Spec => []OwnOutput
<1>1. Init => Outputs
  BY SMT DEF Init, Outputs, InStep
<1>2. IInv(TRUE) /\ Outputs /\ [Next]_vars => Outputs'
  BY OutputsNext
<1>3. Outputs => OwnOutput
  BY DEF Outputs, OwnOutput
<1> QED BY <1>1, <1>2, <1>3, SagaInductive, PTL DEF Spec

-------------------------------------------------------------------------------
(* The gauge of active sagas, if nobody cancels and there is no timeout: it    *)
(* counts the saga from its creation until its worker retires it, and the      *)
(* worker retires every saga whose state is Over, and no other.                *)

Storing(l) == pc[Worker] \in {"persist", "write"} /\ after = l

TurnedBack ==
    pc[Worker] \in {"decide", "undo", "undoing", "compensating"} \/ Storing("decide")

Retiring == pc[Worker] = "retire" \/ Storing("retire")

Over == mem \in {"Completed", "Compensated"} \/ (mem = "Failed" /\ done = {})

Working ==
    starter \in {"created", "tracked"} \/ pc[Worker] \notin {"idle", "returning", "ended"}

Gauge ==
    /\ monitor = "off"
    /\ starter = "new" => active = 0
    /\ Working => active = 1
    /\ Over => Retiring \/ (pc[Worker] \in {"returning", "ended"} /\ active = 0)
    /\ TurnedBack => step > 1

(* The worker sets a state: it is Over only if the worker goes on to retire.   *)
LEMMA GaugeUpdates ==
    ASSUME IInv(TRUE), Gauge, NEW s, NEW w, NEW background \in BOOLEAN,
           NEW l \in {"loop", "decide", "retire", "returning"},
           UpdateState(s, w, background, l), UNCHANGED <<done, active, starter, monitor>>,
           pc[Worker] \notin {"idle", "returning", "ended"}, l = "decide" => step' > 1,
           s \in {"Completed", "Compensated"} \/ (s = "Failed" /\ done = {}) => l = "retire"
    PROVE  Gauge'
<1>1. mem' = s /\ after' = l /\ pc'[Worker] \in {"write", "persist"}
  BY DEF UpdateState, Goto, IInv, TypeOK
<1>2. active = 1 /\ monitor = "off"
  BY DEF Gauge, Working
<1>3. starter # "new"
  BY DEF IInv, Unstarted, WorkerAt
<1>4. Over' => Retiring'
  BY <1>1 DEF Over, Retiring, Storing
<1>5. TurnedBack' => step' > 1
  BY <1>1 DEF TurnedBack, Storing
<1> QED BY <1>2, <1>3, <1>4, <1>5 DEF Gauge

(* Every step of the orchestrator keeps the gauge right.                       *)
LEMMA GaugeNext ==
    ASSUME IInv(TRUE), Gauge, Cancellers = {}, ~HasTimeout, [Next]_vars
    PROVE  Gauge'
<1>0. TypeOK /\ Worker \in Undoers /\ Worker \in Actors /\ monitor = "off"
      /\ step \in Nat /\ TRUE \in BOOLEAN /\ FALSE \in BOOLEAN
  BY SMT DEF IInv, Gauge, TypeOK
<1>1. ASSUME UNCHANGED <<mem, done, step, active, monitor, after, starter>>,
             pc'[Worker] = pc[Worker]
      PROVE  Gauge'
  BY <1>1 DEF Gauge, Working, Over, Retiring, TurnedBack, Storing
<1>2. ASSUME TurnedBack PROVE done # {}
  <2>1. step > 1 /\ pc[Worker] \notin {"counted", "counting"}
    BY <1>2 DEF Gauge, TurnedBack, Storing
  <2>2. 1 .. (step - 1) \subseteq done
    BY <2>1 DEF IInv, Position, Reached, WorkerAt
  <2>3. 1 \in 1 .. (step - 1)
    BY <1>0, <2>1, SMT
  <2> QED BY <2>2, <2>3
<1>3. CASE StartSaga
  <2>1. CASE SubmitTask
    <3>1. /\ UNCHANGED <<mem, done, step, active, monitor, after>> /\ starter = "tracked"
          /\ starter' = "waiting" /\ pc[Worker] = "idle"
      BY <2>1 DEF SubmitTask, steps, IInv, Unstarted, WorkerAt
    <3>2. pc'[Worker] \in {"idle", "queued"}
      BY <1>0, <2>1, <3>1 DEF SubmitTask, Goto, TypeOK
    <3>3. active = 1 /\ ~Over
      BY <3>1 DEF Gauge, Working, Retiring, Storing
    <3> QED BY <1>0, <3>1, <3>2, <3>3 DEF Gauge, Over, TurnedBack, Storing
  <2>2. CASE CreateSaga
    <3>1. /\ UNCHANGED <<mem, done, step, monitor, after, pc>> /\ starter = "new"
          /\ starter' \in {"created", "refused"} /\ pc[Worker] = "idle"
          /\ starter' = "created" => active' = active + 1
      BY <2>2 DEF CreateSaga, steps, flow, IInv, Unstarted, WorkerAt
    <3>2. active = 0 /\ ~Over
      BY <3>1 DEF Gauge, Retiring, Storing
    <3>3. starter' = "created" => active' = 1
      BY <3>1, <3>2, SMT
    <3> QED BY <1>0, <3>1, <3>2, <3>3 DEF Gauge, Over, Working, TurnedBack, Storing
  <2>3. CASE TrackSaga \/ AcquireSlotFails \/ SubmitReturns
    <3>1. /\ UNCHANGED <<mem, done, step, active, monitor, after, pc>>
          /\ starter' \in {"tracked", "refused", "returned"}
          /\ starter' = "tracked" => starter = "created"
      BY <2>3 DEF TrackSaga, AcquireSlotFails, SubmitReturns, steps, flow
    <3>2. Working' => Working
      BY <3>1 DEF Working
    <3> QED BY <3>1, <3>2 DEF Gauge, Over, Retiring, TurnedBack, Storing
  <2> QED BY <1>3, <2>1, <2>2, <2>3 DEF StartSaga
<1>4. ~Deadline /\ ~Monitor
  BY <1>0 DEF Deadline, Monitor, monitorSagaTimeout, handleSagaTimeout
<1>5. CASE UNCHANGED vars
  BY <1>1, <1>5 DEF vars, steps, flow
<1>6. ASSUME NEW s \in Stoppers, StopSaga(s) PROVE Gauge'
  <2>1. /\ UNCHANGED <<mem, done, step, active, monitor, after, starter>>
        /\ \E l : Goto(s, l)
    BY <1>6 DEF StopSaga, FinishStopSaga, LoadForStop, InterruptForStop, SaveStopped, steps
  <2>2. pc'[Worker] = pc[Worker]
    BY <1>0, <2>1 DEF Goto, TypeOK
  <2> QED BY <1>1, <2>1, <2>2
<1>7. CASE executeSteps
  <2>1. ASSUME NEW l, Goto(Worker, l) PROVE pc'[Worker] = l
    BY <1>0, <2>1 DEF Goto, TypeOK
  <2>2. CASE BeginSaga \/ StepsInterrupted \/ MarkStepCompleted
    <3>1. /\ UNCHANGED <<done, active, starter, monitor>>
          /\ pc[Worker] \notin {"idle", "returning", "ended"}
      BY <1>0, <2>2 DEF BeginSaga, StepsInterrupted, MarkStepCompleted, WorkerAt, steps
    <3>2. CASE UpdateState("Running", "Running", FALSE, "loop")
      BY <1>0, <3>1, <3>2, GaugeUpdates
    <3>3. CASE UpdateState("StepCompleted", "StepCompleted", FALSE, "loop")
      BY <1>0, <3>1, <3>3, GaugeUpdates
    <3>4. CASE UpdateState("Cancelled", "Cancelled", TRUE, "returning")
      BY <1>0, <3>1, <3>4, GaugeUpdates
    <3> QED BY <2>2, <3>2, <3>3, <3>4 DEF BeginSaga, StepsInterrupted, MarkStepCompleted,
            updateSagaState, handleContextCancellation
  <2>3. CASE handleSagaCompletion
    <3>1. /\ UNCHANGED <<done, active, starter, monitor>> /\ pc[Worker] = "loop"
          /\ UpdateState("Completed", "live", FALSE, "retire")
      BY <2>3 DEF handleSagaCompletion, WorkerAt, steps
    <3> QED BY <1>0, <3>1, GaugeUpdates
  <2>4. CASE handleStepFailure
    <3>1. /\ UNCHANGED <<done, step, active, starter, monitor>> /\ pc[Worker] = "failed"
          /\ \/ step > 1 /\ UpdateState("Compensating", "Compensating", FALSE, "decide")
             \/ UpdateState("Failed", "Failed", FALSE, "retire")
      BY <2>4 DEF handleStepFailure, updateSagaState, WorkerAt
    <3> QED BY <1>0, <3>1, GaugeUpdates
  <2>5. CASE \/ handleCompensationSkipped \/ CompensationInterrupted \/ handleCompensationFailure
    <3>1. /\ UNCHANGED <<done, active, starter, monitor>>
          /\ pc[Worker] \in {"decide", "undo", "undoing"}
      BY <2>5 DEF handleCompensationSkipped, CompensationInterrupted,
         handleCompensationFailure, WorkerAt, steps
    <3>2. done # {}
      BY <1>2, <3>1 DEF TurnedBack
    <3>3. CASE UpdateState("Failed", "Failed", FALSE, "returning")
      BY <1>0, <3>1, <3>2, <3>3, GaugeUpdates
    <3>4. CASE UpdateState("Cancelled", "Cancelled", TRUE, "returning")
      BY <1>0, <3>1, <3>4, GaugeUpdates
    <3> QED BY <2>5, <3>3, <3>4 DEF handleCompensationSkipped, CompensationInterrupted,
            handleCompensationFailure, updateSagaState, handleContextCancellation
  <2>6. CASE handleCompensationCompletion
    <3>1. /\ UNCHANGED <<done, active, starter, monitor>> /\ pc[Worker] = "undo"
          /\ UpdateState("Compensated", "live", FALSE, "retire")
      BY <2>6 DEF handleCompensationCompletion, WorkerAt, steps
    <3> QED BY <1>0, <3>1, GaugeUpdates
  <2>7. CASE PersistCheck \/ PersistWrite
    <3>1. /\ UNCHANGED <<mem, done, step, active, monitor, after, starter>>
          /\ pc[Worker] \in {"persist", "write"}
          /\ \E l \in {"write", after} : Goto(Worker, l)
      BY <2>7 DEF PersistCheck, PersistWrite, WorkerAt, steps
    <3>2. pc'[Worker] \in {"write", after} /\ after \in {"loop", "decide", "retire", "returning"}
      BY <1>0, <2>1, <3>1 DEF TypeOK
    <3>3. active = 1 /\ starter # "new" /\ (Over => after = "retire")
      BY <3>1 DEF Gauge, Working, Retiring, Storing, IInv, Unstarted, WorkerAt
    <3>4. Over' => Retiring'
      BY <3>1, <3>2, <3>3 DEF Over, Retiring, Storing
    <3>5. TurnedBack' => TurnedBack
      BY <3>1, <3>2 DEF TurnedBack, Storing
    <3> QED BY <3>1, <3>3, <3>4, <3>5 DEF Gauge
  <2>8. CASE TakeTask \/ BeginStep \/ TryStep \/ StepFails \/ incrementCompletedSteps
    <3>1. /\ UNCHANGED <<mem, done, step, active, monitor, after, starter>>
          /\ pc[Worker] \in {"queued", "loop", "trying", "running", "counting"}
          /\ \E l \in {"ended", "starting", "trying", "running", "failed", "counted"} :
                 Goto(Worker, l)
      BY <2>8 DEF TakeTask, BeginStep, TryStep, StepFails, incrementCompletedSteps, WorkerAt, steps
    <3>2. pc'[Worker] \in {"ended", "starting", "trying", "running", "failed", "counted"}
      BY <2>1, <3>1
    <3>3. active = 1 /\ starter # "new" /\ ~Over
      BY <3>1 DEF Gauge, Working, Retiring, Storing, IInv, Unstarted, WorkerAt
    <3>4. ~Over' /\ ~TurnedBack'
      BY <3>1, <3>2, <3>3 DEF Over, TurnedBack, Storing
    <3> QED BY <1>0, <3>1, <3>3, <3>4 DEF Gauge
  <2>9. CASE StepSucceeds
    <3>1. /\ UNCHANGED <<mem, step, active, monitor, after, starter>>
          /\ pc[Worker] = "running" /\ pc'[Worker] = "counting" /\ done' = done \cup {step}
      BY <2>1, <2>9 DEF StepSucceeds, WorkerAt
    <3>2. active = 1 /\ starter # "new" /\ ~Over
      BY <3>1 DEF Gauge, Working, Retiring, Storing, IInv, Unstarted, WorkerAt
    <3>3. ~Over' /\ ~TurnedBack'
      BY <3>1, <3>2 DEF Over, TurnedBack, Storing
    <3> QED BY <1>0, <3>1, <3>2, <3>3 DEF Gauge
  <2>10. CASE BeginCompensation \/ Compensate(Worker)
    <3>1. /\ UNCHANGED <<mem, done, step, active, monitor, after, starter>>
          /\ pc[Worker] \in {"decide", "undo", "undoing", "compensating"}
          /\ \E l \in {"undo", "undoing", "compensating"} : Goto(Worker, l)
      BY <2>10 DEF BeginCompensation, Compensate, compensateStep, TryCompensate,
         CompensateSucceeds, CompensateFails, WorkerAt, steps
    <3>2. pc'[Worker] \in {"undo", "undoing", "compensating"}
      BY <2>1, <3>1
    <3>3. active = 1 /\ starter # "new" /\ ~Over /\ TurnedBack
      BY <3>1 DEF Gauge, Working, Retiring, Storing, IInv, Unstarted, WorkerAt, TurnedBack
    <3>4. ~Over'
      BY <3>1, <3>3 DEF Over
    <3> QED BY <1>0, <3>1, <3>3, <3>4 DEF Gauge
  <2>11. CASE RetireSaga
    <3>1. /\ UNCHANGED <<mem, done, step, monitor, after, starter>> /\ active' = active - 1
          /\ pc[Worker] = "retire" /\ pc'[Worker] = "returning"
      BY <2>1, <2>11 DEF RetireSaga, WorkerAt, steps
    <3>2. active = 1 /\ starter \notin {"new", "created", "tracked"}
      BY <3>1 DEF Gauge, Working, IInv, Unstarted, WorkerAt
    <3>3. active' = 0
      BY <3>1, <3>2, SMT
    <3> QED BY <1>0, <3>1, <3>2, <3>3 DEF Gauge, Working, TurnedBack, Storing
  <2>12. CASE EndTask
    <3>1. /\ UNCHANGED <<mem, done, step, active, monitor, after, starter>>
          /\ pc[Worker] = "returning" /\ pc'[Worker] = "ended"
      BY <2>1, <2>12 DEF EndTask, WorkerAt, steps
    <3>2. starter \notin {"new", "created", "tracked"} /\ (Over => active = 0)
      BY <3>1 DEF Gauge, IInv, Unstarted, WorkerAt, Retiring, Storing
    <3>3. Over' => Over
      BY <3>1 DEF Over
    <3> QED BY <1>0, <3>1, <3>2, <3>3 DEF Gauge, Working, TurnedBack, Storing
  <2> QED BY <1>7, <2>2, <2>3, <2>4, <2>5, <2>6, <2>7, <2>8, <2>9, <2>10, <2>11, <2>12
          DEF executeSteps
<1> QED BY <1>3, <1>4, <1>5, <1>6, <1>7 DEF Next

(* Without CancelSaga and timeouts, and whatever stops and storage faults do,  *)
(* a saga that has completed, was compensated or failed in its first step has  *)
(* been taken off the gauge exactly once (RetireSaga, StartSaga).              *)
THEOREM SagaGaugeSettles ==
    ASSUME Cancellers = {}, ~HasTimeout PROVE Spec => []GaugeSettles
<1>1. Init => Gauge
  BY DEF Init, Gauge, Working, Over, Retiring, TurnedBack, Storing
<1>2. IInv(TRUE) /\ Gauge /\ [Next]_vars => Gauge'
  BY GaugeNext
<1>3. Gauge => GaugeSettles
  BY DEF Gauge, Over, Retiring, Storing, Settled, GaugeSettles
<1> QED BY <1>1, <1>2, <1>3, SagaInductive, PTL DEF Spec

-------------------------------------------------------------------------------
(* Without interference the orchestrator takes only the steps of the abstract  *)
(* saga.  Its context then lives as long as the worker works, the state of the *)
(* instance follows the place of the worker, and what is still to be undone    *)
(* comes, in the order of the strategy, after what has been undone.            *)

Before(i, j) == IF Reverse THEN j < i ELSE i < j

InOrder ==
    /\ \A i \in undone : \A k \in 1 .. Len(todo[Worker]) : Before(i, todo[Worker][k])
    /\ \A k, l \in 1 .. Len(todo[Worker]) : k < l => Before(todo[Worker][k], todo[Worker][l])

Alive ==
    \/ ctx = "live" /\ ~execDone
    \/ pc[Worker] \in {"idle", "ended"} /\ starter \in {"refused", "returned"}

Course ==
    /\ monitor = "off"
    /\ Alive
    /\ ~TurnedBack /\ ~WorkOver => undone = {} /\ mem \in {"Pending", "Running", "StepCompleted"}
    /\ TurnedBack => mem = "Compensating" /\ step > 1
    /\ pc[Worker] = "decide" \/ Storing("decide") => undone = {}
    /\ pc[Worker] \in {"undo", "undoing", "compensating"} => InOrder

AbstractStep == [Abstract!SagaNext]_(Abstract!sagaVars)

(* The abstract phase for each state of the instance.                          *)
LEMMA PhaseNow ==
    /\ mem \in {"Pending", "Running", "StepCompleted"} => SagaPhase = "forward"
    /\ mem = "Compensating" => SagaPhase = "backward"
    /\ mem = "Completed" => SagaPhase = "committed"
    /\ mem = "Compensated" => SagaPhase = "aborted"
    /\ mem = "Failed" => SagaPhase = IF undone = done THEN "aborted" ELSE "incomplete"
BY DEF SagaPhase

(* And after a step.                                                           *)
LEMMA PhaseNext ==
    /\ mem' \in {"Pending", "Running", "StepCompleted"} => SagaPhase' = "forward"
    /\ mem' = "Compensating" => SagaPhase' = "backward"
    /\ mem' = "Completed" => SagaPhase' = "committed"
    /\ mem' = "Compensated" => SagaPhase' = "aborted"
    /\ mem' = "Failed" => SagaPhase' = IF undone' = done' THEN "aborted" ELSE "incomplete"
BY DEF SagaPhase

(* A step that neither does nor undoes a step nor sets a state is a stutter.   *)
LEMMA AbstractStutter ==
    ASSUME UNCHANGED <<mem, done, undone>> PROVE AbstractStep
BY DEF AbstractStep, SagaPhase, Abstract!sagaVars

(* GetCompensationOrder lists the steps in the order of the strategy.          *)
LEMMA OrderSorted ==
    ASSUME NEW k \in 0 .. N
    PROVE  LET o == GetCompensationOrder(k) IN
           \A i, j \in 1 .. Len(o) : i < j => Before(o[i], o[j])
<1>1. CASE Reverse
  BY <1>1, SMT DEF GetCompensationOrder, Before
<1>2. CASE ~Reverse
  BY <1>2, SMT DEF GetCompensationOrder, Before
<1> QED BY <1>1, <1>2

(* What the worker has done while it is neither counting nor past a step.      *)
LEMMA DoneSoFar ==
    ASSUME IInv(TRUE), pc[Worker] \notin {"counting", "counted"}
    PROVE  done = 1 .. (step - 1) /\ step \in 1 .. N + 1
<1>1. completedSteps = step - 1 /\ Reached(TRUE, done, completedSteps)
  BY DEF IInv, Position, WorkerAt
<1>2. 1 .. (step - 1) \subseteq done /\ done \subseteq 1 .. (step - 1)
  BY <1>1 DEF Reached
<1> QED BY <1>2 DEF IInv, TypeOK

(* The worker sets a state and goes on: what that asks of the course.          *)
LEMMA CourseUpdates ==
    ASSUME IInv(TRUE), Course, NEW s, NEW w,
           NEW l \in {"loop", "decide", "retire", "returning"},
           UpdateState(s, w, FALSE, l), UNCHANGED <<contexts, undone, starter, monitor>>,
           pc[Worker] \notin {"idle", "ended"},
           l = "loop" => undone = {} /\ s \in {"Running", "StepCompleted"},
           l = "decide" => undone = {} /\ s = "Compensating" /\ step' > 1
    PROVE  Course'
<1>1. mem' = s /\ after' = l /\ pc'[Worker] = "persist"
  BY DEF UpdateState, Goto, IInv, TypeOK
<1>2. Alive'
  BY DEF Course, Alive, contexts
<1>3. /\ WorkOver' <=> l \in {"retire", "returning"}
      /\ TurnedBack' <=> l = "decide"
      /\ Storing("decide")' <=> l = "decide"
  BY <1>1 DEF WorkOver, TurnedBack, Storing
<1> QED BY <1>1, <1>2, <1>3 DEF Course

(* Before it turns back the worker takes only steps forward, commits, or turns *)
(* back.                                                                       *)
LEMMA CourseForward ==
    ASSUME IInv(TRUE), Course, ~HasTimeout,
           \/ BeginSaga \/ handleSagaCompletion \/ StepSucceeds \/ MarkStepCompleted
           \/ handleStepFailure
    PROVE  Course' /\ AbstractStep
<1>0. /\ pc[Worker] \in {"starting", "loop", "running", "counted", "failed"}
      /\ UNCHANGED <<contexts, undone, starter>> /\ TypeOK /\ FALSE \in BOOLEAN
  BY DEF BeginSaga, handleSagaCompletion, StepSucceeds, MarkStepCompleted, handleStepFailure,
         WorkerAt, undoing, IInv
<1>1. /\ undone = {} /\ mem \in {"Pending", "Running", "StepCompleted"} /\ monitor = "off"
      /\ SagaPhase = "forward"
  BY <1>0, PhaseNow DEF Course, TurnedBack, WorkOver, Storing
<1>2. CASE BeginSaga
  <2>1. /\ UpdateState("Running", "Running", FALSE, "loop") /\ monitor' = monitor
        /\ mem' = "Running" /\ done' = done
    BY <1>2 DEF BeginSaga, updateSagaState, UpdateState, steps
  <2>2. Course'
    BY <1>0, <1>1, <2>1, CourseUpdates
  <2> QED BY <1>0, <1>1, <2>1, <2>2, PhaseNext DEF AbstractStep, Abstract!sagaVars
<1>3. CASE MarkStepCompleted
  <2>1. /\ UpdateState("StepCompleted", "StepCompleted", FALSE, "loop") /\ monitor' = monitor
        /\ mem' = "StepCompleted" /\ done' = done
    BY <1>3 DEF MarkStepCompleted, updateSagaState, UpdateState
  <2>2. Course'
    BY <1>0, <1>1, <2>1, CourseUpdates
  <2> QED BY <1>0, <1>1, <2>1, <2>2, PhaseNext DEF AbstractStep, Abstract!sagaVars
<1>4. CASE handleSagaCompletion
  <2>1. /\ UpdateState("Completed", "live", FALSE, "retire") /\ monitor' = monitor
        /\ mem' = "Completed" /\ done' = done /\ step > N /\ pc[Worker] = "loop"
    BY <1>4 DEF handleSagaCompletion, UpdateState, steps, WorkerAt
  <2>2. Course'
    BY <1>0, <2>1, CourseUpdates
  <2>3. done = 1 .. N
    <3>1. done = 1 .. (step - 1) /\ step \in 1 .. N + 1
      BY <2>1, DoneSoFar
    <3>2. step - 1 = N
      BY <2>1, <3>1, SMT
    <3> QED BY <3>1, <3>2
  <2>4. Abstract!Commit
    BY <1>0, <1>1, <2>1, <2>3, PhaseNext DEF Abstract!Commit
  <2> QED BY <2>2, <2>4 DEF AbstractStep, Abstract!SagaNext
<1>5. CASE handleStepFailure
  <2>1. /\ UNCHANGED <<done, step, monitor>> /\ pc[Worker] = "failed"
    BY <1>5 DEF handleStepFailure, WorkerAt
  <2>2. done = 1 .. (step - 1) /\ step \in 1 .. N + 1
    BY <2>1, DoneSoFar
  <2>3. CASE step > 1
    <3>1. UpdateState("Compensating", "Compensating", FALSE, "decide") /\ mem' = "Compensating"
      BY <1>5, <2>3 DEF handleStepFailure, updateSagaState, UpdateState
    <3>2. Course'
      BY <1>0, <1>1, <2>1, <2>3, <3>1, CourseUpdates
    <3>3. done # {}
      <4>1. 1 \in 1 .. (step - 1)
        BY <2>2, <2>3, SMT
      <4> QED BY <2>2, <4>1
    <3>4. Abstract!TurnBack
      BY <1>0, <1>1, <2>1, <3>1, <3>3, PhaseNext DEF Abstract!TurnBack
    <3> QED BY <3>2, <3>4 DEF AbstractStep, Abstract!SagaNext
  <2>4. CASE ~(step > 1)
    <3>1. UpdateState("Failed", "Failed", FALSE, "retire") /\ mem' = "Failed"
      BY <1>5, <2>4 DEF handleStepFailure, updateSagaState, UpdateState
    <3>2. Course'
      BY <1>0, <2>1, <3>1, CourseUpdates
    <3>3. done = {}
      <4>1. step - 1 = 0 /\ 1 .. 0 = {}
        BY <2>2, <2>4, SMT
      <4> QED BY <2>2, <4>1
    <3>4. Abstract!TurnBack
      BY <1>0, <1>1, <2>1, <3>1, <3>3, PhaseNext DEF Abstract!TurnBack
    <3> QED BY <3>2, <3>4 DEF AbstractStep, Abstract!SagaNext
  <2> QED BY <2>3, <2>4
<1>6. CASE StepSucceeds
  <2>1. /\ pc[Worker] = "running" /\ done' = done \cup {step} /\ UNCHANGED <<mem, monitor>>
        /\ Goto(Worker, "counting")
    BY <1>6 DEF StepSucceeds, WorkerAt
  <2>2. done = 1 .. (step - 1) /\ step \in 1 .. N
    <3>1. step <= N
      BY <2>1 DEF IInv, Position
    <3> QED BY <2>1, <3>1, DoneSoFar, SMT
  <2>3. done' = 1 .. step
    <3>1. (1 .. (step - 1)) \cup {step} = 1 .. step
      BY <2>2, SMT
    <3> QED BY <2>1, <2>2, <3>1
  <2>4. Abstract!DoStep
    BY <1>0, <1>1, <2>1, <2>2, <2>3, PhaseNext DEF Abstract!DoStep
  <2>5. Course'
    <3>1. pc'[Worker] = "counting"
      BY <1>0, <2>1 DEF Goto, TypeOK
    <3>2. Alive'
      BY <1>0, <2>1 DEF Course, Alive, contexts
    <3> QED BY <1>0, <1>1, <2>1, <3>1, <3>2 DEF Course, TurnedBack, Storing
  <2> QED BY <2>4, <2>5 DEF AbstractStep, Abstract!SagaNext
<1> QED BY <1>2, <1>3, <1>4, <1>5, <1>6

(* Taking a step off the list keeps the order, also when the step is undone.   *)
LEMMA InOrderPop ==
    ASSUME IInv(TRUE), InOrder, pc[Worker] = "compensating",
           todo' = [todo EXCEPT ![Worker] = Tail(@)],
           undone' \in {undone, undone \cup {Head(todo[Worker])}}
    PROVE  /\ InOrder'
           /\ \A j \in undone : Before(j, Head(todo[Worker]))
           /\ Head(todo[Worker]) \in done
<1> DEFINE s == todo[Worker]
<1>0. Worker \in Undoers /\ TRUE \in BOOLEAN /\ TypeOK
  BY DEF IInv
<1>1. s \in Seq(Steps) /\ s # <<>> /\ Head(s) \in done
  BY <1>0, NextToUndo
<1>2. /\ Head(s) = s[1] /\ 1 \in 1 .. Len(s) /\ Tail(s) \in Seq(Steps)
      /\ \A k \in 1 .. Len(Tail(s)) :
             k + 1 \in 1 .. Len(s) /\ Tail(s)[k] = s[k + 1] /\ 1 < k + 1
      /\ \A k, l \in 1 .. Len(Tail(s)) : k < l => k + 1 < l + 1
  <2> HIDE DEF s
  <2>1. /\ Head(s) = s[1] /\ Len(s) >= 1 /\ Tail(s) \in Seq(Steps)
        /\ \A k \in 1 .. Len(Tail(s)) : k + 1 \in 1 .. Len(s) /\ Tail(s)[k] = s[k + 1]
    BY <1>1, HeadAndTail
  <2>2. Len(s) \in Nat
    BY <1>1, SMT
  <2>3. 1 \in 1 .. Len(s)
    BY <2>1, <2>2, SMT
  <2>4. /\ \A k \in 1 .. Len(Tail(s)) : 1 < k + 1
        /\ \A k, l \in 1 .. Len(Tail(s)) : k < l => k + 1 < l + 1
    BY SMT
  <2> QED BY <2>1, <2>3, <2>4
<1>3. todo'[Worker] = Tail(s)
  BY <1>0 DEF TypeOK
<1>4. /\ \A j \in undone : Before(j, Head(s))
      /\ \A j \in undone \cup {Head(s)} : \A k \in 1 .. Len(Tail(s)) : Before(j, Tail(s)[k])
      /\ \A k, l \in 1 .. Len(Tail(s)) : k < l => Before(Tail(s)[k], Tail(s)[l])
  <2> HIDE DEF s
  <2>1. /\ \A i \in undone : \A k \in 1 .. Len(s) : Before(i, s[k])
        /\ \A k, l \in 1 .. Len(s) : k < l => Before(s[k], s[l])
    BY DEF InOrder, s
  <2>2. \A j \in undone : Before(j, Head(s))
    BY <1>2, <2>1
  <2>3. ASSUME NEW k \in 1 .. Len(Tail(s))
        PROVE  /\ Before(Head(s), Tail(s)[k])
               /\ \A j \in undone : Before(j, Tail(s)[k])
    BY <1>2, <2>1
  <2>4. \A k, l \in 1 .. Len(Tail(s)) : k < l => Before(Tail(s)[k], Tail(s)[l])
    BY <1>2, <2>1
  <2> QED BY <2>2, <2>3, <2>4
<1> HIDE DEF s
<1>5. InOrder'
  <2>1. /\ \A j \in undone' : \A k \in 1 .. Len(Tail(s)) : Before(j, Tail(s)[k])
        /\ \A k, l \in 1 .. Len(Tail(s)) : k < l => Before(Tail(s)[k], Tail(s)[l])
    BY <1>4 DEF s
  <2> QED BY <1>3, <2>1 DEF InOrder, Before
<1> QED BY <1>1, <1>4, <1>5 DEF s

(* Once it has turned back the worker undoes one step at a time in the order   *)
(* of the strategy, and finishes.                                              *)
LEMMA CourseBackward ==
    ASSUME IInv(TRUE), Course,
           \/ BeginCompensation \/ handleCompensationSkipped \/ Compensate(Worker)
           \/ handleCompensationFailure \/ handleCompensationCompletion
    PROVE  Course' /\ AbstractStep
<1>0. /\ pc[Worker] \in {"decide", "undo", "undoing", "compensating"}
      /\ UNCHANGED <<contexts, starter, monitor, done, step>> /\ TypeOK /\ FALSE \in BOOLEAN
      /\ Worker \in Undoers /\ Worker \in Actors
  BY DEF BeginCompensation, handleCompensationSkipped, Compensate, compensateStep,
         TryCompensate, CompensateSucceeds, CompensateFails, handleCompensationFailure,
         handleCompensationCompletion, WorkerAt, steps, IInv
<1>1. /\ mem = "Compensating" /\ SagaPhase = "backward" /\ step > 1 /\ monitor = "off"
      /\ ctx = "live" /\ ~execDone
  BY <1>0, PhaseNow DEF Course, TurnedBack, Alive
<1>2. Alive'
  BY <1>0, <1>1 DEF Alive, contexts
<1>3. ASSUME mem' = mem, pc'[Worker] \in {"undo", "undoing", "compensating"}, InOrder'
      PROVE  Course'
  BY <1>0, <1>1, <1>2, <1>3 DEF Course, TurnedBack, Storing
<1>4. ASSUME NEW l \in {"undo", "undoing", "compensating"}, Goto(Worker, l)
      PROVE  pc'[Worker] = l
  BY <1>0, <1>4 DEF Goto, TypeOK
<1>5. CASE BeginCompensation
  <2>1. /\ UNCHANGED <<mem, undone>> /\ pc[Worker] = "decide" /\ undone = {}
        /\ todo' = [todo EXCEPT ![Worker] = GetCompensationOrder(step - 1)]
        /\ pc'[Worker] = "undo"
    BY <1>4, <1>5 DEF BeginCompensation, WorkerAt, Course
  <2>2. todo'[Worker] = GetCompensationOrder(step - 1) /\ undone' = {}
    BY <1>0, <2>1 DEF TypeOK
  <2>3. step - 1 \in 0 .. N
    <3>1. step \in 1 .. N + 1
      BY <1>0 DEF TypeOK
    <3> QED BY <3>1, SMT
  <2>4. InOrder'
    <3> DEFINE o == GetCompensationOrder(step - 1)
    <3>1. \A i, j \in 1 .. Len(o) : i < j => Before(o[i], o[j])
      BY <2>3, OrderSorted
    <3> HIDE DEF o
    <3>2. todo'[Worker] = o
      BY <2>2 DEF o
    <3> QED BY <2>2, <3>1, <3>2 DEF InOrder, Before
  <2> QED BY <1>0, <1>3, <2>1, <2>4, AbstractStutter
<1>6. CASE Compensate(Worker)
  <2>0. InOrder /\ mem' = mem
    BY <1>6 DEF Compensate, compensateStep, TryCompensate, CompensateSucceeds,
       CompensateFails, Course
  <2>1. CASE compensateStep(Worker) \/ TryCompensate(Worker)
    <3>1. /\ UNCHANGED <<undone, todo>> /\ \E l \in {"undoing", "compensating"} : Goto(Worker, l)
      BY <2>1 DEF compensateStep, TryCompensate, undoing
    <3>2. InOrder' /\ pc'[Worker] \in {"undo", "undoing", "compensating"}
      BY <1>4, <2>0, <3>1 DEF InOrder
    <3> QED BY <1>0, <1>3, <2>0, <3>1, <3>2, AbstractStutter
  <2>2. CASE CompensateSucceeds(Worker)
    <3>1. /\ undone' = undone \cup {Head(todo[Worker])} /\ pc'[Worker] = "undo"
          /\ todo' = [todo EXCEPT ![Worker] = Tail(@)] /\ pc[Worker] = "compensating"
      BY <1>4, <2>2 DEF CompensateSucceeds
    <3>2. /\ InOrder' /\ Head(todo[Worker]) \in done
          /\ \A j \in undone : Before(j, Head(todo[Worker]))
      BY <2>0, <3>1, InOrderPop
    <3>3. Course'
      BY <1>3, <2>0, <3>1, <3>2
    <3>4. Abstract!Undo(Head(todo[Worker])) /\ Head(todo[Worker]) \in 1 .. N
      BY <1>0, <1>1, <2>0, <3>1, <3>2, PhaseNext DEF Abstract!Undo, Before, TypeOK
    <3> QED BY <3>3, <3>4 DEF AbstractStep, Abstract!SagaNext
  <2>3. CASE CompensateFails(Worker)
    <3>1. undone' = undone /\ pc[Worker] = "compensating"
      BY <2>3 DEF CompensateFails
    <3>2. CASE Goto(Worker, "undoing") /\ todo' = todo
      BY <1>0, <1>3, <1>4, <2>0, <3>1, <3>2, AbstractStutter DEF InOrder
    <3>3. CASE Goto(Worker, "undo") /\ todo' = [todo EXCEPT ![Worker] = Tail(@)]
      BY <1>0, <1>3, <1>4, <2>0, <3>1, <3>3, InOrderPop, AbstractStutter
    <3> QED BY <2>3, <3>2, <3>3 DEF CompensateFails
  <2> QED BY <1>6, <2>1, <2>2, <2>3 DEF Compensate
<1>7. CASE handleCompensationSkipped \/ handleCompensationFailure
  <2>1. UpdateState("Failed", "Failed", FALSE, "returning") /\ undone' = undone /\ mem' = "Failed"
    BY <1>7 DEF handleCompensationSkipped, handleCompensationFailure, updateSagaState,
       UpdateState, undoing
  <2>2. Course'
    BY <1>0, <2>1, CourseUpdates
  <2>3. Abstract!Finish
    BY <1>0, <1>1, <2>1, PhaseNext DEF Abstract!Finish
  <2> QED BY <2>2, <2>3 DEF AbstractStep, Abstract!SagaNext
<1>8. CASE handleCompensationCompletion
  <2>1. /\ UpdateState("Compensated", "live", FALSE, "retire") /\ undone' = undone
        /\ mem' = "Compensated" /\ pc[Worker] = "undo" /\ todo[Worker] = <<>>
        /\ gaveUp[Worker] = {}
    BY <1>8 DEF handleCompensationCompletion, UpdateState, WorkerAt, undoing
  <2>2. Course'
    BY <1>0, <2>1, CourseUpdates
  <2>3. undone = done
    <3>1. 1 .. Len(todo[Worker]) = {}
      BY <2>1, SMT
    <3> QED BY <2>1, <3>1 DEF IInv, Cover
  <2>4. Abstract!Finish
    BY <1>0, <1>1, <2>1, <2>3, PhaseNext DEF Abstract!Finish
  <2> QED BY <2>2, <2>4 DEF AbstractStep, Abstract!SagaNext
<1> QED BY <1>5, <1>6, <1>7, <1>8

(* The worker's other steps leave the state and the effects alone.             *)
LEMMA CourseMoves ==
    ASSUME IInv(TRUE), Course, ~HasTimeout,
           \/ TakeTask \/ PersistCheck \/ PersistWrite \/ BeginStep \/ TryStep \/ StepFails
           \/ incrementCompletedSteps \/ RetireSaga \/ EndTask
    PROVE  Course' /\ AbstractStep
<1>0. /\ UNCHANGED <<mem, done, undone, step, todo, contexts, starter, monitor, after>>
      /\ pc[Worker] \notin {"idle", "ended"} /\ TypeOK /\ Worker \in Actors
  BY DEF TakeTask, PersistCheck, PersistWrite, BeginStep, TryStep, StepFails,
         incrementCompletedSteps, RetireSaga, EndTask, WorkerAt, IInv, steps, undoing, contexts
<1>1. ctx = "live" /\ ~execDone
  BY <1>0 DEF Course, Alive
<1>2. Alive' /\ AbstractStep
  BY <1>0, <1>1, AbstractStutter DEF Alive, contexts
<1>3. ASSUME NEW l, Goto(Worker, l) PROVE pc'[Worker] = l
  BY <1>0, <1>3 DEF Goto, TypeOK
<1>4. CASE PersistCheck \/ PersistWrite
  <2>1. pc'[Worker] \in {"write", after} /\ pc[Worker] \in {"persist", "write"}
    BY <1>3, <1>4 DEF PersistCheck, PersistWrite, WorkerAt
  <2>2. after \in {"loop", "decide", "retire", "returning"}
    BY <1>0 DEF TypeOK
  <2>3. /\ TurnedBack' <=> TurnedBack
        /\ WorkOver' <=> WorkOver
        /\ (pc[Worker] = "decide" \/ Storing("decide"))' <=> (pc[Worker] = "decide" \/ Storing("decide"))
        /\ pc'[Worker] \notin {"undo", "undoing", "compensating"}
    BY <1>0, <2>1, <2>2 DEF TurnedBack, WorkOver, Storing
  <2> QED BY <1>0, <1>2, <2>3 DEF Course
<1>5. CASE TakeTask \/ BeginStep \/ TryStep \/ StepFails \/ incrementCompletedSteps
  <2>1. /\ pc[Worker] \in {"queued", "loop", "trying", "running", "counting"}
        /\ pc'[Worker] \in {"starting", "trying", "running", "failed", "counted"}
    BY <1>1, <1>3, <1>5 DEF TakeTask, BeginStep, TryStep, StepFails,
       incrementCompletedSteps, WorkerAt
  <2> QED BY <1>0, <1>2, <2>1 DEF Course, TurnedBack, WorkOver, Storing
<1>6. CASE RetireSaga \/ EndTask
  <2>1. pc'[Worker] \in {"returning", "ended"}
    BY <1>3, <1>6 DEF RetireSaga, EndTask
  <2> QED BY <1>0, <1>2, <2>1 DEF Course, TurnedBack, WorkOver, Storing
<1> QED BY <1>4, <1>5, <1>6

(* The caller of StartSaga ends the context only of a worker that never began  *)
(* or has ended.                                                               *)
LEMMA CourseStart ==
    ASSUME IInv(TRUE), Course, StartSaga
    PROVE  Course' /\ AbstractStep
<1>0. /\ UNCHANGED <<mem, done, undone, step, todo, monitor, after>>
      /\ TypeOK /\ Worker \in Actors
  BY DEF StartSaga, CreateSaga, TrackSaga, AcquireSlotFails, SubmitTask, SubmitReturns,
         IInv, steps, undoing, flow
<1>1. AbstractStep
  BY <1>0, AbstractStutter
<1>2. ASSUME pc' = pc, Alive' PROVE Course'
  BY <1>0, <1>2 DEF Course, TurnedBack, WorkOver, Storing, InOrder
<1>3. CASE CreateSaga \/ TrackSaga
  <2>1. pc' = pc /\ UNCHANGED contexts /\ starter \notin {"refused", "returned"}
    BY <1>3 DEF CreateSaga, TrackSaga, flow
  <2>2. Alive'
    BY <2>1 DEF Course, Alive, contexts
  <2> QED BY <1>1, <1>2, <2>1, <2>2
<1>4. CASE AcquireSlotFails
  <2>1. pc' = pc /\ starter' = "refused" /\ pc[Worker] = "idle"
    BY <1>4 DEF AcquireSlotFails, flow, IInv, Unstarted, WorkerAt
  <2> QED BY <1>1, <1>2, <2>1 DEF Alive
<1>5. CASE SubmitReturns
  <2>1. pc' = pc /\ starter' = "returned" /\ starter = "waiting" /\ (WorkerAt("ended") \/ execDone)
    BY <1>5 DEF SubmitReturns, flow
  <2>2. pc[Worker] = "ended"
    BY <2>1 DEF Course, Alive, WorkerAt
  <2> QED BY <1>1, <1>2, <2>1, <2>2 DEF Alive
<1>6. CASE SubmitTask
  <2>1. /\ starter = "tracked" /\ pc[Worker] = "idle" /\ UNCHANGED contexts
    BY <1>6 DEF SubmitTask, IInv, Unstarted, WorkerAt
  <2>2. ctx = "live" /\ ~execDone
    BY <2>1 DEF Course, Alive
  <2>3. pc'[Worker] = "queued"
    BY <1>0, <1>6, <2>2 DEF SubmitTask, Goto, TypeOK
  <2>4. Alive'
    BY <2>1, <2>2 DEF Alive, contexts
  <2> QED BY <1>0, <1>1, <2>1, <2>3, <2>4 DEF Course, TurnedBack, WorkOver, Storing
<1> QED BY <1>3, <1>4, <1>5, <1>6 DEF StartSaga

(* All steps together.                                                         *)
LEMMA CourseNext ==
    ASSUME IInv(TRUE), Course, Cancellers = {}, Stoppers = {}, ~HasTimeout, [Next]_vars
    PROVE  Course' /\ AbstractStep
<1>1. CASE UNCHANGED vars
  <2>1. UNCHANGED <<mem, done, undone, step, todo, ctx, execDone, starter, monitor, after, pc>>
    BY <1>1 DEF vars, steps, undoing, flow, contexts
  <2> QED BY <2>1, AbstractStutter
          DEF Course, Alive, TurnedBack, WorkOver, Storing, InOrder
<1>2. CASE StartSaga
  BY <1>2, CourseStart
<1>3. CASE executeSteps
  <2>1. ~StepsInterrupted /\ ~CompensationInterrupted
    BY DEF StepsInterrupted, CompensationInterrupted, WorkerAt, Course, Alive
  <2> QED BY <1>3, <2>1, CourseForward, CourseBackward, CourseMoves DEF executeSteps
<1>4. ~Deadline /\ ~Monitor
  BY DEF Course, Deadline, Monitor, monitorSagaTimeout, handleSagaTimeout
<1> QED BY <1>1, <1>2, <1>3, <1>4 DEF Next

(* Without cancels, stops and timeouts, and whatever storage faults and        *)
(* refusals do, every step of the orchestrator is a step of the abstract saga  *)
(* or none: the steps succeed in order, the saga commits only when all have,   *)
(* turns back at most once, and undoes each step at most once and in the order *)
(* of the strategy (executeSteps, executeCompensation).  This is the safety    *)
(* part of ImplementsSaga.                                                     *)
THEOREM SagaRefines ==
    ASSUME Cancellers = {}, Stoppers = {}, ~HasTimeout
    PROVE  Spec => Abstract!SagaInit /\ [][Abstract!SagaNext]_(Abstract!sagaVars)
<1>1. Init => Course /\ Abstract!SagaInit
  BY PhaseNow DEF Init, Course, Alive, TurnedBack, Storing, InOrder, Abstract!SagaInit
<1>2. IInv(TRUE) /\ Course /\ [Next]_vars => Course' /\ [Abstract!SagaNext]_(Abstract!sagaVars)
  BY CourseNext DEF AbstractStep
<1> QED BY <1>1, <1>2, SagaInductive, PTL DEF Spec
===============================================================================
