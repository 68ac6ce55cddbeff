---------------------- MODULE ConcurrencyControllerProofs ----------------------
(* No slot leaks from the concurrency controller, Shutdown leaves nothing, and *)
(* the books are exact while nothing fails: for any number of sagas, workers,  *)
(* slots and callers of Shutdown.                                              *)
(*                                                                             *)
(* NoSlotLeak is not inductive by itself: a saga whose StartSaga returns is no *)
(* longer a holder, so one has to know that its task gave the slot back.       *)
(* Nor must a slot be given back before it is taken.                           *)
(*   Reported   a task that ended, and a success that was reported, have       *)
(*              released the slot;                                             *)
(*   Submitted  a task in the channel or with a worker is of a saga that has   *)
(*              its slot, and a saga that has yet to get one released none.    *)
(* For ShutdownDrains, Drained says where the task of a waiting saga is.  For  *)
(* BooksExact, Books adds that a saga has one task, in one place, and that     *)
(* without errors and cancels only that task's worker releases its slot.       *)
EXTENDS ConcurrencyController, FiniteSetTheorems, TLAPS

Reported ==
    /\ \A w \in Workers : worker[w].at \in {"ok", "error"} => worker[w].saga \in released
    /\ \A s \in Sagas : report[s] = "ok" => s \in released

SubmittedLabels == {"waiting", "returned", "releasing", "failed"}

Submitted ==
    /\ \A i \in 1 .. Len(taskCh) : pc[taskCh[i]] \in SubmittedLabels
    /\ \A w \in Workers :
           worker[w].at \in {"running", "ok", "error"} => pc[worker[w].saga] \in SubmittedLabels
    /\ \A s \in Sagas : pc[s] \in {"new", "acquiring"} => s \notin released

(* The inductive invariant *)
IInv == TypeOK /\ Reported /\ Submitted /\ NoSlotLeak

USE ControllerAssumption, Zenon

WorkerStates ==
    {Idle, Exited} \cup [at : {"running", "ok", "error"}, saga : Sagas]

-------------------------------------------------------------------------------
(* What a worker can be, taken apart: Idle and Exited carry no saga.           *)
LEMMA WorkerCases ==
    ASSUME NEW x \in WorkerStates
    PROVE  /\ x.at \in {"idle", "exited", "running", "ok", "error"}
           /\ x.at \in {"running", "ok", "error"} =>
                  x.saga \in Sagas /\ x = Has(x.at, x.saga)
BY SMT DEF WorkerStates, Idle, Exited, Has

(* The holders are finitely many, before and after a step.                     *)
LEMMA HoldersFinite == IsFiniteSet(Holders) /\ IsFiniteSet(Holders')
BY FS_Subset DEF Holders

(* A step that changes the semaphore by no more than it does the holders, or    *)
(* that happens after Shutdown began, leaks no slot.                           *)
LEMMA SameHolders ==
    ASSUME TypeOK, NoSlotLeak, TypeOK', Holders \subseteq Holders',
           semaphore' <= semaphore, closed => closed'
    PROVE  NoSlotLeak'
<1>1. Cardinality(Holders) <= Cardinality(Holders')
  BY HoldersFinite, FS_Subset
<1>2. Cardinality(Holders) \in Nat /\ Cardinality(Holders') \in Nat
  BY HoldersFinite, FS_CardinalityType
<1> QED BY <1>1, <1>2, SMT DEF NoSlotLeak, TypeOK

(* ReleaseSlot takes one token out, and at most one saga out of the holders.   *)
LEMMA ReleaseLeaksNothing ==
    ASSUME TypeOK, NoSlotLeak, NEW s \in Sagas, ReleaseSlot(s), TypeOK',
           Holders \ {s} \subseteq Holders', closed' = closed
    PROVE  NoSlotLeak'
<1>0. Cardinality(Holders) \in Nat /\ Cardinality(Holders') \in Nat
  BY HoldersFinite, FS_CardinalityType
<1>1. IsFiniteSet(Holders \ {s})
  BY HoldersFinite, FS_Subset
<1>2. Cardinality(Holders \ {s}) <= Cardinality(Holders')
  BY <1>1, HoldersFinite, FS_Subset
<1>3. Cardinality(Holders \ {s}) >= Cardinality(Holders) - 1
  <2> DEFINE H == Holders
  <2>1. IsFiniteSet(H)
    BY HoldersFinite
  <2> HIDE DEF H
  <2>2. Cardinality(H \ {s}) = IF s \in H THEN Cardinality(H) - 1 ELSE Cardinality(H)
    BY <2>1, FS_RemoveElement
  <2>3. Cardinality(H) \in Nat
    BY <2>1, FS_CardinalityType
  <2>4. Cardinality(H \ {s}) >= Cardinality(H) - 1
    BY <2>2, <2>3, SMT
  <2> QED BY <2>4 DEF H
<1>4. Cardinality(Holders \ {s}) \in Nat
  BY <1>1, FS_CardinalityType
<1> QED BY <1>0, <1>2, <1>3, <1>4, SMT DEF NoSlotLeak, TypeOK, ReleaseSlot, slots

(* TakeSlot puts one token in and makes its saga a holder.                     *)
LEMMA TakeLeaksNothing ==
    ASSUME TypeOK, NoSlotLeak, NEW s \in Sagas, s \notin Holders, TypeOK',
           Holders' = Holders \cup {s}, semaphore' = semaphore + 1, closed' = closed
    PROVE  NoSlotLeak'
<1>0. Cardinality(Holders) \in Nat
  BY HoldersFinite, FS_CardinalityType
<1>1. Cardinality(Holders') = Cardinality(Holders) + 1
  BY HoldersFinite, FS_AddElement
<1> QED BY <1>0, <1>1, SMT DEF NoSlotLeak, TypeOK

-------------------------------------------------------------------------------
(* The type invariant, step by step.  The groups of variables are expanded     *)
(* everywhere; Has, Idle and Exited are the values a worker takes.             *)
USE DEF slots, pool, vars

(* ReleaseSlot keeps the types of what it touches.                             *)
LEMMA ReleaseTyped ==
    ASSUME TypeOK, NEW s \in Sagas, ReleaseSlot(s)
    PROVE  /\ semaphore' \in 0 .. MaxConcurrentSagas
           /\ activeSagaCount' \in Int
           /\ activeInstances' \subseteq Sagas
           /\ released' \subseteq Sagas
           /\ released \subseteq released'
           /\ s \in released'
BY SMT DEF TypeOK, ReleaseSlot

(* A StartSaga that moves on with its task, if it has one, still submitted.    *)
LEMMA SubmittedKept ==
    ASSUME TypeOK, Submitted, NEW s \in Sagas, NEW l \in Labels, Goto(s, l),
           UNCHANGED <<taskCh, worker>>,
           released' \in {released, released \cup {s}},
           l \in {"new", "acquiring"} => pc[s] = "new" /\ released' = released,
           pc[s] \in SubmittedLabels => l \in SubmittedLabels
    PROVE  Submitted'
<1>1. /\ pc' = [pc EXCEPT ![s] = l] /\ pc \in [Sagas -> Labels]
      /\ \A r \in Sagas : pc[r] \in SubmittedLabels => pc'[r] \in SubmittedLabels
  BY DEF Goto, TypeOK
<1>2. \A i \in 1 .. Len(taskCh)' : pc'[taskCh'[i]] \in SubmittedLabels
  BY <1>1, SMT DEF Submitted, TypeOK
<1>3. ASSUME NEW w \in Workers, worker[w].at \in {"running", "ok", "error"}
      PROVE  pc'[worker[w].saga] \in SubmittedLabels
  BY <1>1, <1>3, WorkerCases DEF Submitted, TypeOK, WorkerStates
<1>4. ASSUME NEW r \in Sagas, pc'[r] \in {"new", "acquiring"}
      PROVE  r \notin released'
  BY <1>1, <1>4 DEF Submitted
<1> QED BY <1>2, <1>3, <1>4 DEF Submitted

(* A StartSaga that only moves on.                                             *)
LEMMA StartSagaMoves ==
    ASSUME IInv, NEW s \in Sagas, NEW l \in Labels, Goto(s, l),
           UNCHANGED <<slots, closed, pool, cancelled, shutdown, released>>,
           l \in {"new", "refused", "acquiring", "returned", "failed"} =>
               s \in released \/ pc[s] \in {"new", "acquiring"},
           l \in {"new", "acquiring"} => pc[s] = "new",
           pc[s] \in SubmittedLabels => l \in SubmittedLabels
    PROVE  IInv'
<1>1. TypeOK'
  BY DEF IInv, TypeOK, Goto
<1>2. Reported'
  BY DEF IInv, Reported
<1>3. ASSUME NEW t \in Holders PROVE t \in Holders'
  <2>1. t \in Sagas /\ t \notin released /\ released' = released
    BY DEF Holders
  <2>2. pc' = [pc EXCEPT ![s] = l] /\ pc \in [Sagas -> Labels]
    BY DEF IInv, TypeOK, Goto
  <2>3. CASE t = s
    <3>1. l \notin {"new", "refused", "acquiring", "returned", "failed"}
      BY <2>1, <2>3 DEF Holders
    <3> QED BY <2>1, <2>2, <2>3, <3>1 DEF Holders
  <2>4. CASE t # s
    BY <2>1, <2>2, <2>4 DEF Holders
  <2> QED BY <2>3, <2>4
<1>4. NoSlotLeak'
  BY <1>1, <1>3, SameHolders, SMT DEF IInv, TypeOK
<1>5. Submitted'
  BY SubmittedKept DEF IInv, Submitted, Goto
<1> QED BY <1>1, <1>2, <1>4, <1>5 DEF IInv

(* A step of a worker that releases nothing.                                   *)
LEMMA WorkerMoves ==
    ASSUME IInv, TypeOK', Reported', Submitted', UNCHANGED <<semaphore, pc, released>>,
           closed => closed'
    PROVE  IInv'
<1>1. Holders' = Holders
  BY DEF Holders
<1>2. NoSlotLeak'
  BY <1>1, SameHolders, SMT DEF IInv, TypeOK
<1> QED BY <1>2 DEF IInv

-------------------------------------------------------------------------------
(* Initially no saga holds a slot and there is no token.                       *)
LEMMA InitIInv == Init => IInv
<1> SUFFICES ASSUME Init PROVE IInv
  OBVIOUS
<1>1. TypeOK
  <2>1. /\ semaphore \in 0 .. MaxConcurrentSagas /\ activeSagaCount \in Int
        /\ taskCh \in Seq(Sagas)
    BY SMT DEF Init
  <2>2. pc \in [Sagas -> Labels]
    BY DEF Init, Labels
  <2>3. worker \in [Workers -> {Idle, Exited} \cup
                                 [at : {"running", "ok", "error"}, saga : Sagas]]
    BY DEF Init
  <2> QED BY <2>1, <2>2, <2>3 DEF Init, TypeOK
<1>2. Reported
  BY DEF Init, Reported, Idle
<1>5. Submitted
  BY SMT DEF Init, Submitted, Idle
<1>3. Holders = {}
  BY DEF Init, Holders
<1>4. NoSlotLeak
  BY <1>3, FS_EmptySet, SMT DEF Init, NoSlotLeak
<1> QED BY <1>1, <1>2, <1>4, <1>5 DEF IInv

(* Every step of StartSaga keeps the invariant.                                *)
LEMMA StartSagaStep ==
    ASSUME IInv, NEW s \in Sagas, CheckOpen(s) \/ FinishStartSaga(s)
    PROVE  IInv'
<1>1. CASE CheckOpen(s)
  BY <1>1, StartSagaMoves DEF CheckOpen, Labels, SubmittedLabels
<1>2. CASE TakeSlot(s)
  <2>1. TypeOK'
    BY <1>2, SMT DEF IInv, TypeOK, TakeSlot, Goto, Labels
  <2>2. Reported'
    BY <1>2 DEF IInv, Reported, TakeSlot
  <2>3. Submitted'
    BY <1>2, SubmittedKept DEF IInv, TakeSlot, Labels, SubmittedLabels
  <2>4. s \notin released
    BY <1>2 DEF IInv, Submitted, TakeSlot
  <2>5. s \notin Holders /\ Holders' = Holders \cup {s}
    BY <1>2, <2>4 DEF IInv, TypeOK, TakeSlot, Goto, Holders
  <2> QED BY <1>2, <2>1, <2>2, <2>3, <2>5, TakeLeaksNothing DEF IInv, TakeSlot
<1>3. CASE AcquireFails(s)
  BY <1>3, StartSagaMoves DEF AcquireFails, Labels, SubmittedLabels
<1>4. CASE CountSlot(s)
  <2>1. TypeOK'
    BY <1>4, SMT DEF IInv, TypeOK, CountSlot, Goto, Labels
  <2>2. Reported'
    BY <1>4 DEF IInv, Reported, CountSlot
  <2>3. Holders \subseteq Holders'
    BY <1>4 DEF IInv, TypeOK, CountSlot, Goto, Holders
  <2>4. Submitted'
    BY <1>4, SubmittedKept DEF IInv, CountSlot, Labels, SubmittedLabels
  <2> QED BY <1>4, <2>1, <2>2, <2>3, <2>4, SameHolders, SMT DEF IInv, TypeOK, CountSlot
<1>5. CASE SubmitTask(s)
  BY <1>5, StartSagaMoves DEF SubmitTask, Labels, SubmittedLabels
<1>6. CASE Submit(s)
  BY <1>6, StartSagaMoves DEF Submit, Labels, SubmittedLabels
<1>7. CASE SendTask(s)
  <2>1. TypeOK'
    BY <1>7, SMT DEF IInv, TypeOK, SendTask, Goto, Labels
  <2>2. Reported'
    BY <1>7 DEF IInv, Reported, SendTask
  <2>3. Holders \subseteq Holders'
    BY <1>7 DEF IInv, TypeOK, SendTask, Goto, Holders
  <2>4. Submitted'
    <3>1. /\ pc' = [pc EXCEPT ![s] = "waiting"] /\ pc \in [Sagas -> Labels]
          /\ pc[s] = "sending" /\ taskCh \in Seq(Sagas)
          /\ taskCh' = Append(taskCh, s) /\ UNCHANGED <<worker, released>>
      BY <1>7 DEF IInv, TypeOK, SendTask, Goto
    <3>2. \A r \in Sagas : pc[r] \in SubmittedLabels => pc'[r] \in SubmittedLabels
      BY <3>1 DEF SubmittedLabels
    <3>3. ASSUME NEW i \in 1 .. Len(taskCh') PROVE pc'[taskCh'[i]] \in SubmittedLabels
      <4>1. CASE i = Len(taskCh) + 1
        BY <3>1, <4>1, SMT DEF SubmittedLabels
      <4>2. CASE i \in 1 .. Len(taskCh)
        BY <3>1, <3>2, <4>2, SMT DEF IInv, Submitted
      <4> QED BY <3>1, <4>1, <4>2, SMT
    <3>4. ASSUME NEW w \in Workers, worker[w].at \in {"running", "ok", "error"}
          PROVE  pc'[worker[w].saga] \in SubmittedLabels
      BY <3>2, <3>4, WorkerCases DEF IInv, Submitted, TypeOK, WorkerStates
    <3> QED BY <3>1, <3>3, <3>4 DEF IInv, Submitted
  <2> QED BY <1>7, <2>1, <2>2, <2>3, <2>4, SameHolders, SMT DEF IInv, TypeOK, SendTask
<1>8. CASE SendPanics(s)
  BY <1>8, StartSagaMoves DEF SendPanics, Labels, SubmittedLabels
<1>9. CASE SendCancelled(s)
  BY <1>9, StartSagaMoves DEF SendCancelled, Labels, SubmittedLabels
<1>10. CASE SubmitReturns(s)
  BY <1>10, StartSagaMoves DEF SubmitReturns, Labels, SubmittedLabels, IInv, Reported
<1>11. CASE ReleaseAfterError(s)
  <2>1. TypeOK'
    BY <1>11, ReleaseTyped DEF IInv, TypeOK, ReleaseAfterError, Goto, Labels
  <2>2. Reported'
    BY <1>11, ReleaseTyped DEF IInv, Reported, ReleaseAfterError
  <2>3. Holders \ {s} \subseteq Holders'
    BY <1>11 DEF IInv, TypeOK, ReleaseAfterError, ReleaseSlot, Goto, Holders
  <2>4. Submitted'
    BY <1>11, SubmittedKept DEF IInv, ReleaseAfterError, ReleaseSlot, Labels, SubmittedLabels
  <2> QED BY <1>11, <2>1, <2>2, <2>3, <2>4, ReleaseLeaksNothing DEF IInv, ReleaseAfterError
<1> QED BY <1>1, <1>2, <1>3, <1>4, <1>5, <1>6, <1>7, <1>8, <1>9, <1>10, <1>11
        DEF FinishStartSaga, Send

(* Every step of a worker keeps the invariant.                                 *)
LEMMA WorkerStep ==
    ASSUME IInv, NEW w \in Workers, RunWorker(w) \/ EndTask(w)
    PROVE  IInv'
<1>0. /\ worker \in [Workers -> WorkerStates] /\ worker[w] \in WorkerStates
      /\ Idle \in WorkerStates /\ Exited \in WorkerStates
  BY DEF IInv, TypeOK, WorkerStates
<1>1. CASE TakeTask(w)
  <2> DEFINE s == Head(taskCh)
  <2>1. /\ taskCh \in Seq(Sagas) /\ taskCh # <<>> /\ s \in Sagas
        /\ taskCh' = Tail(taskCh) /\ taskCh' \in Seq(Sagas)
        /\ \A i \in 1 .. Len(taskCh') : taskCh'[i] = taskCh[i + 1] /\ i + 1 \in 1 .. Len(taskCh)
        /\ pc[s] \in SubmittedLabels
    BY <1>1, SMT DEF IInv, TypeOK, TakeTask, Submitted
  <2>2. \/ worker' = worker /\ report' = [report EXCEPT ![s] = "error"]
        \/ worker' = [worker EXCEPT ![w] = Has("running", s)] /\ report' = report
    BY <1>1 DEF TakeTask, SetWorker, s
  <2>3. Has("running", s) \in WorkerStates
    BY <2>1 DEF Has, WorkerStates
  <2>4. UNCHANGED <<slots, closed, poolClosed, cancelled, pc, shutdown, released>>
    BY <1>1 DEF TakeTask
  <2>5. TypeOK'
    BY <1>0, <2>1, <2>2, <2>3, <2>4, SMT DEF IInv, TypeOK, WorkerStates
  <2>6. Reported'
    <3>1. ASSUME NEW v \in Workers, worker'[v].at \in {"ok", "error"}
          PROVE  worker'[v] = worker[v]
      BY <1>0, <2>2, <3>1, SMT DEF Has
    <3>2. ASSUME NEW r \in Sagas, report'[r] = "ok"
          PROVE  report[r] = "ok"
      BY <2>2, <3>2 DEF IInv, TypeOK
    <3> QED BY <2>4, <3>1, <3>2 DEF IInv, Reported
  <2>7. Submitted'
    <3>1. ASSUME NEW v \in Workers, worker'[v].at \in {"running", "ok", "error"}
          PROVE  worker'[v] = worker[v] \/ worker'[v].saga = s
      BY <1>0, <2>2, <3>1, SMT DEF Has
    <3>2. \A i \in 1 .. Len(taskCh') : pc[taskCh'[i]] \in SubmittedLabels
      BY <2>1 DEF IInv, Submitted
    <3> QED BY <2>1, <2>4, <3>1, <3>2 DEF IInv, Submitted
  <2> QED BY <2>4, <2>5, <2>6, <2>7, WorkerMoves
<1>2. CASE Report(w)
  <2> DEFINE s == worker[w].saga
  <2>1. s \in Sagas /\ worker[w].at \in {"ok", "error"} /\ s \in released
    BY <1>0, <1>2, WorkerCases DEF Report, IInv, Reported
  <2>2. /\ worker' = [worker EXCEPT ![w] = Idle]
        /\ report' \in {report, [report EXCEPT ![s] = worker[w].at]}
        /\ UNCHANGED <<slots, closed, taskCh, poolClosed, cancelled, pc, shutdown, released>>
    BY <1>2 DEF Report, SetWorker
  <2>3. TypeOK'
    BY <1>0, <2>1, <2>2 DEF IInv, TypeOK, WorkerStates
  <2>4. Reported'
    BY <1>0, <2>1, <2>2 DEF IInv, TypeOK, Reported, Idle
  <2>5. Submitted'
    BY <1>0, <2>2 DEF IInv, Submitted, Idle
  <2> QED BY <2>2, <2>3, <2>4, <2>5, WorkerMoves
<1>3. CASE ExitWorker(w)
  <2>1. /\ worker' = [worker EXCEPT ![w] = Exited]
        /\ UNCHANGED <<slots, closed, taskCh, poolClosed, report, cancelled, pc,
                       shutdown, released>>
    BY <1>3 DEF ExitWorker, SetWorker
  <2>2. TypeOK'
    BY <1>0, <2>1 DEF IInv, TypeOK, WorkerStates
  <2>3. Reported'
    BY <1>0, <2>1 DEF IInv, Reported, Exited
  <2>4. Submitted'
    BY <1>0, <2>1 DEF IInv, Submitted, Exited
  <2> QED BY <2>1, <2>2, <2>3, <2>4, WorkerMoves
<1>4. CASE EndTask(w)
  <2> DEFINE s == worker[w].saga
  <2>1. s \in Sagas /\ worker[w].at = "running" /\ ReleaseSlot(s)
    BY <1>0, <1>4, WorkerCases DEF EndTask
  <2>2. PICK l \in {"ok", "error"} : worker' = [worker EXCEPT ![w] = Has(l, s)]
    BY <1>4 DEF EndTask, SetWorker
  <2>3. UNCHANGED <<closed, taskCh, poolClosed, report, cancelled, pc, shutdown>>
    BY <1>4 DEF EndTask
  <2>4. /\ released' = released \cup {s}
        /\ pc[s] \in SubmittedLabels /\ Has(l, s) \in WorkerStates
    BY <2>1 DEF ReleaseSlot, IInv, Submitted, Has, WorkerStates
  <2>5. TypeOK'
    BY <1>0, <2>1, <2>2, <2>3, <2>4, ReleaseTyped DEF IInv, TypeOK, WorkerStates
  <2>6. Reported'
    BY <1>0, <2>1, <2>2, <2>3, <2>4 DEF IInv, Reported, Has
  <2>7. Submitted'
    BY <1>0, <2>1, <2>2, <2>3, <2>4 DEF IInv, Submitted, Has, SubmittedLabels
  <2>8. Holders \ {s} \subseteq Holders'
    BY <2>3, <2>4 DEF Holders
  <2> QED BY <2>1, <2>3, <2>5, <2>6, <2>7, <2>8, ReleaseLeaksNothing DEF IInv
<1> QED BY <1>1, <1>2, <1>3, <1>4 DEF RunWorker

(* Cancelling an execution and shutting down touch neither slots nor tasks.    *)
LEMMA OutsiderStep ==
    ASSUME IInv,
           \/ \E s \in Sagas : Cancel(s)
           \/ \E k \in Closers : BeginShutdown(k) \/ FinishShutdown(k)
           \/ UNCHANGED vars
    PROVE  IInv'
<1>1. /\ UNCHANGED <<slots, taskCh, worker, report, pc, released>>
      /\ closed' \in {closed, TRUE} /\ poolClosed' \in {poolClosed, TRUE}
      /\ cancelled' \subseteq Sagas
      /\ shutdown' \in [Closers -> {"idle", "returned", "closing", "waiting", "drained"}]
  BY DEF IInv, TypeOK, Cancel, BeginShutdown, FinishShutdown, ClosePool, EndShutdown
<1>2. TypeOK'
  BY <1>1 DEF IInv, TypeOK
<1>3. Reported' /\ Submitted'
  BY <1>1 DEF IInv, Reported, Submitted
<1>4. closed => closed'
  BY <1>1
<1>5. UNCHANGED <<semaphore, pc, released>>
  BY <1>1
<1> QED BY <1>2, <1>3, <1>4, <1>5, WorkerMoves

(* All steps together.                                                         *)
LEMMA NextIInv == ASSUME IInv, [Next]_vars PROVE IInv'
<1>1. CASE \E s \in Sagas : CheckOpen(s) \/ FinishStartSaga(s)
  BY <1>1, StartSagaStep
<1>2. CASE \E w \in Workers : RunWorker(w) \/ EndTask(w)
  BY <1>2, WorkerStep
<1>3. CASE \/ \E s \in Sagas : Cancel(s)
           \/ \E k \in Closers : BeginShutdown(k) \/ FinishShutdown(k)
           \/ UNCHANGED vars
  BY <1>3, OutsiderStep
<1>4. CASE Next
  BY <1>1, <1>2, <1>3, <1>4 DEF Next
<1> QED BY <1>3, <1>4

(* The invariant always holds.                                                 *)
LEMMA Inductive == Spec => []IInv
BY InitIInv, NextIInv, PTL DEF Spec

(* The controller's variables keep their types: semaphore stays within the     *)
(* capacity of the channel NewConcurrencyController makes.                     *)
THEOREM ControllerTypes == Spec => []TypeOK
BY Inductive, PTL DEF IInv

(* Whatever sagas, workers and callers of Shutdown do, no slot leaks:          *)
(* AcquireSlot, ReleaseSlot, Submit, worker and Shutdown.                      *)
THEOREM NoLeak == Spec => []NoSlotLeak
BY Inductive, PTL DEF IInv

-------------------------------------------------------------------------------
(* What Shutdown leaves behind.  A saga that waits without an answer has its   *)
(* task in the channel or with a worker; a worker leaves only when the channel *)
(* is closed and empty, and it stays empty.                                    *)

Queued(s)   == \E i \in 1 .. Len(taskCh) : taskCh[i] = s
HasTask(s)  == \E w \in Workers : worker[w].at \in {"running", "ok", "error"}
                                     /\ worker[w].saga = s
Answered(s) == report[s] # "none" \/ s \in cancelled

Drained ==
    /\ \A k \in Closers : shutdown[k] = "drained" => \A w \in Workers : worker[w] = Exited
    /\ \A w \in Workers : worker[w] = Exited => poolClosed /\ taskCh = <<>>
    /\ \A s \in Sagas : pc[s] = "waiting" => Answered(s) \/ Queued(s) \/ HasTask(s)

(* A step that neither touches the pool nor makes a saga wait, nor ends a      *)
(* Shutdown.                                                                   *)
LEMMA DrainedKept ==
    ASSUME IInv, Drained, UNCHANGED <<taskCh, worker, report>>, cancelled \subseteq cancelled',
           poolClosed => poolClosed',
           \A s \in Sagas : pc'[s] = "waiting" => pc[s] = "waiting",
           \A k \in Closers : shutdown'[k] = "drained" => shutdown[k] = "drained"
    PROVE  Drained'
BY DEF Drained, Answered, Queued, HasTask

(* StartSaga sends no task to workers that have left, and waits only for a     *)
(* task that is somewhere.                                                     *)
LEMMA DrainedStartSaga ==
    ASSUME IInv, Drained, NEW s \in Sagas, CheckOpen(s) \/ FinishStartSaga(s)
    PROVE  Drained'
<1>1. CASE SendTask(s)
  <2>1. /\ ~poolClosed /\ taskCh \in Seq(Sagas) /\ taskCh' = Append(taskCh, s)
        /\ UNCHANGED <<worker, report, cancelled, poolClosed, shutdown>>
        /\ \A t \in Sagas : t # s => pc'[t] = pc[t]
    BY <1>1 DEF SendTask, Goto, IInv, TypeOK
  <2>2. \A t \in Sagas : Queued(t) \/ t = s => Queued(t)'
    BY <2>1, SMT DEF Queued
  <2>3. \A w \in Workers : worker[w] # Exited
    BY <2>1 DEF Drained
  <2> QED BY <2>1, <2>2, <2>3 DEF Drained, Answered, HasTask
<1>2. CASE ~SendTask(s)
  <2>1. /\ UNCHANGED <<taskCh, worker, report, cancelled, poolClosed, shutdown>>
        /\ \E l \in Labels \ {"waiting"} : pc' = [pc EXCEPT ![s] = l]
    BY <1>2 DEF CheckOpen, FinishStartSaga, Send, TakeSlot, AcquireFails, CountSlot,
       SubmitTask, Submit, SendPanics, SendCancelled, SubmitReturns, ReleaseAfterError, Goto,
       Labels, pool
  <2> QED BY <2>1, DrainedKept DEF IInv, TypeOK
<1> QED BY <1>1, <1>2

(* A worker leaves only after it has nothing to run.                           *)
LEMMA DrainedWorker ==
    ASSUME IInv, Drained, NEW w \in Workers, RunWorker(w) \/ EndTask(w)
    PROVE  Drained'
<1>0. /\ worker \in [Workers -> WorkerStates] /\ worker[w] \in WorkerStates
      /\ worker[w] # Exited /\ UNCHANGED <<poolClosed, cancelled, pc, shutdown>>
  BY SMT DEF IInv, TypeOK, WorkerStates, RunWorker, TakeTask, Report, ExitWorker, EndTask,
         Idle, Exited
<1>1. \A k \in Closers : shutdown'[k] # "drained"
  BY <1>0 DEF Drained
<1>2. CASE TakeTask(w)
  <2>1. taskCh \in Seq(Sagas) /\ taskCh # <<>> /\ taskCh' = Tail(taskCh)
    BY <1>2 DEF IInv, TypeOK, TakeTask
  <2>s. PICK s \in Sagas : s = Head(taskCh)
    BY <2>1, SMT
  <2>2. \A t \in Sagas : Queued(t) => t = s \/ Queued(t)'
    <3> SUFFICES ASSUME NEW t \in Sagas, NEW i \in 1 .. Len(taskCh), taskCh[i] = t, t # s
                 PROVE  \E j \in 1 .. Len(taskCh') : taskCh'[j] = t
      BY DEF Queued
    <3>1. i # 1 /\ i - 1 \in 1 .. Len(taskCh') /\ taskCh'[i - 1] = t
      BY <2>1, <2>s, SMT
    <3> QED BY <3>1
  <2>3. \/ worker' = worker /\ report' = [report EXCEPT ![s] = "error"]
        \/ worker' = [worker EXCEPT ![w] = Has("running", s)] /\ report' = report
    BY <1>2, <2>s DEF TakeTask, SetWorker
  <2>4. \A v \in Workers : worker'[v] # Exited /\ worker[v] # Exited
    BY <1>0, <2>1, <2>3, SMT DEF Drained, Has, Exited
  <2>5. worker[w] = Idle
    BY <1>2 DEF TakeTask
  <2>6. \A t \in Sagas : HasTask(t) => HasTask(t)'
    BY <1>0, <2>3, <2>5, SMT DEF HasTask, Idle
  <2>7. \A t \in Sagas : Answered(t) => Answered(t)'
    BY <1>0, <2>1, <2>3 DEF Answered, IInv, TypeOK
  <2>8. ASSUME report' = [report EXCEPT ![s] = "error"] PROVE Answered(s)'
    BY <2>1, <2>8 DEF Answered, IInv, TypeOK
  <2>9. ASSUME worker' = [worker EXCEPT ![w] = Has("running", s)] PROVE HasTask(s)'
    BY <1>0, <2>9 DEF HasTask, Has
  <2>10. Answered(s)' \/ HasTask(s)'
    BY <2>3, <2>8, <2>9
  <2>11. ASSUME NEW t \in Sagas, pc'[t] = "waiting"
         PROVE  Answered(t)' \/ Queued(t)' \/ HasTask(t)'
    <3>1. Answered(t) \/ Queued(t) \/ HasTask(t)
      BY <1>0, <2>11 DEF Drained
    <3> QED BY <3>1, <2>2, <2>6, <2>7, <2>10
  <2> QED BY <1>0, <1>1, <2>4, <2>11 DEF Drained
<1>3. CASE Report(w)
  <2>1. PICK s \in Sagas, l \in {"ok", "error"} : s = worker[w].saga /\ l = worker[w].at
    BY <1>0, <1>3, WorkerCases DEF Report
  <2>2. worker' = [worker EXCEPT ![w] = Idle] /\ taskCh' = taskCh
    BY <1>3 DEF Report, SetWorker
  <2>3. report' = [report EXCEPT ![s] = l] \/ (s \in cancelled /\ report' = report)
    BY <1>3, <2>1 DEF Report
  <2>4. \A t \in Sagas : HasTask(t) /\ t # s => HasTask(t)'
    BY <1>0, <2>1, <2>2 DEF HasTask
  <2>5. Answered(s)' /\ \A t \in Sagas : Answered(t) => Answered(t)'
    BY <1>0, <2>1, <2>3 DEF Answered, IInv, TypeOK
  <2>6. \A v \in Workers : worker'[v] = Exited => worker[v] = Exited
    BY <1>0, <2>2 DEF Idle, Exited
  <2>7. ASSUME NEW t \in Sagas, pc'[t] = "waiting"
        PROVE  Answered(t)' \/ Queued(t)' \/ HasTask(t)'
    <3>1. Answered(t) \/ Queued(t) \/ HasTask(t)
      BY <1>0, <2>7 DEF Drained
    <3>2. Queued(t) => Queued(t)'
      BY <2>2 DEF Queued
    <3> QED BY <3>1, <3>2, <2>4, <2>5
  <2> QED BY <1>0, <1>1, <2>2, <2>6, <2>7 DEF Drained
<1>4. CASE ExitWorker(w)
  <2>1. /\ worker' = [worker EXCEPT ![w] = Exited] /\ worker[w] = Idle
        /\ poolClosed /\ taskCh = <<>> /\ UNCHANGED <<taskCh, report>>
    BY <1>4 DEF ExitWorker, SetWorker
  <2>2. \A t \in Sagas : HasTask(t) => HasTask(t)'
    BY <1>0, <2>1, SMT DEF HasTask, Idle
  <2> QED BY <1>0, <1>1, <2>1, <2>2 DEF Drained, Answered, Queued
<1>5. CASE EndTask(w)
  <2>1. \E l \in {"ok", "error"} : worker' = [worker EXCEPT ![w] = Has(l, worker[w].saga)]
    BY <1>5 DEF EndTask, SetWorker
  <2>2. worker[w].at = "running" /\ UNCHANGED <<taskCh, report>>
    BY <1>5 DEF EndTask
  <2>3. \A t \in Sagas : HasTask(t) => HasTask(t)'
    BY <1>0, <2>1, <2>2, SMT DEF HasTask, Has
  <2>4. \A v \in Workers : worker'[v] = Exited => worker[v] = Exited
    BY <1>0, <2>1, SMT DEF Has, Exited
  <2> QED BY <1>0, <1>1, <2>2, <2>3, <2>4 DEF Drained, Answered, Queued
<1> QED BY <1>2, <1>3, <1>4, <1>5 DEF RunWorker

(* All steps together.                                                         *)
LEMMA DrainedNext == ASSUME IInv, Drained, [Next]_vars PROVE Drained'
<1>1. CASE \E k \in Closers : EndShutdown(k)
  <2>1. PICK k \in Closers : EndShutdown(k)
    BY <1>1
  <2>2. /\ \A w \in Workers : worker[w] = Exited
        /\ UNCHANGED <<taskCh, worker, report, cancelled, poolClosed, pc>>
    BY <2>1 DEF EndShutdown, pool
  <2> QED BY <2>2 DEF Drained, Answered, Queued, HasTask
<1>2. CASE \E k \in Closers : BeginShutdown(k) \/ ClosePool(k)
  BY <1>2, DrainedKept, SMT DEF BeginShutdown, ClosePool, pool, IInv, TypeOK
<1>3. CASE \E s \in Sagas : Cancel(s)
  BY <1>3, DrainedKept, SMT DEF Cancel, pool
<1>4. CASE UNCHANGED vars
  BY <1>4, DrainedKept DEF vars, pool
<1>5. CASE Next
  BY <1>1, <1>2, <1>3, <1>5, DrainedStartSaga, DrainedWorker DEF Next, FinishShutdown
<1> QED BY <1>4, <1>5

(* When the Shutdown that closed the pool returns, nothing runs, nothing is    *)
(* queued and every waiting StartSaga has its answer, for any number of sagas, *)
(* workers and callers of Shutdown (Shutdown, WorkerPool.Close, worker).       *)
THEOREM ShutdownLeavesNothing == Spec => []ShutdownDrains
<1>1. Init => Drained
  BY SMT DEF Init, Drained, Idle, Exited
<1>2. Drained => ShutdownDrains
  <2> SUFFICES ASSUME Drained, NEW k \in Closers, shutdown[k] = "drained"
               PROVE  /\ Executing = {} /\ taskCh = <<>>
                      /\ \A s \in Sagas : pc[s] = "waiting" => Answered(s)
    BY DEF ShutdownDrains, Answered
  <2>1. \A w \in Workers : worker[w] = Exited
    BY DEF Drained
  <2>2. Executing = {}
    BY <2>1, SMT DEF Executing, Exited
  <2>3. taskCh = <<>>
    BY <2>1 DEF Drained
  <2>4. \A s \in Sagas : ~Queued(s) /\ ~HasTask(s)
    BY <2>1, <2>3, SMT DEF Queued, HasTask, Exited
  <2> QED BY <2>2, <2>3, <2>4 DEF Drained
<1> QED BY <1>1, <1>2, DrainedNext, Inductive, PTL DEF Spec

-------------------------------------------------------------------------------
(* While nothing fails and nothing is cancelled the books are exact.  A slot   *)
(* must then be given back once: a saga has one task, in the channel or with   *)
(* one worker, and not after it was answered (OneTask), and the caller gives   *)
(* back nothing itself unless Shutdown refused it (Closing, Quiet).            *)

Busy(w) == worker[w].at \in {"running", "ok", "error"}

OneTask ==
    /\ \A i, j \in 1 .. Len(taskCh) : taskCh[i] = taskCh[j] => i = j
    /\ \A v, w \in Workers : Busy(v) /\ Busy(w) /\ worker[v].saga = worker[w].saga => v = w
    /\ \A s \in Sagas : Queued(s) => ~HasTask(s)
    /\ \A s \in Sagas : report[s] # "none" =>
           ~Queued(s) /\ ~HasTask(s) /\ pc[s] \in SubmittedLabels
    /\ \A s \in Sagas : s \in released => pc[s] \in SubmittedLabels

Closing ==
    /\ poolClosed => closed
    /\ \A k \in Closers : shutdown[k] = "closing" => closed

Pending(s) ==
    Queued(s) \/ \E w \in Workers : worker[w].at = "running" /\ worker[w].saga = s

Quiet ==
    /\ \A s \in Sagas : pc[s] \notin {"releasing", "failed"}
    /\ \A s \in Sagas : Pending(s) => pc[s] = "waiting" /\ s \notin released

Exact ==
    /\ semaphore = Cardinality(Holders)
    /\ activeInstances = {s \in Holders : pc[s] # "counting"}
    /\ activeSagaCount = Cardinality(activeInstances)

Books == OneTask /\ Closing /\ (Undisturbed /\ ~closed => Quiet /\ Exact)

(* The channel and the workers when a task is sent, taken or given up.         *)
LEMMA SendQueues ==
    ASSUME TypeOK, NEW s \in Sagas, taskCh' = Append(taskCh, s)
    PROVE  /\ \A t \in Sagas : Queued(t)' => Queued(t) \/ t = s
           /\ (\A i, j \in 1 .. Len(taskCh) : taskCh[i] = taskCh[j] => i = j) /\ ~Queued(s) =>
                  \A i, j \in 1 .. Len(taskCh') : taskCh'[i] = taskCh'[j] => i = j
<1>0. taskCh \in Seq(Sagas)
  BY DEF TypeOK
<1>1. /\ Len(taskCh) \in Nat /\ Len(taskCh') = Len(taskCh) + 1
      /\ \A i \in 1 .. Len(taskCh) : taskCh'[i] = taskCh[i]
      /\ taskCh'[Len(taskCh) + 1] = s
  BY <1>0, SMT
<1>2. \A i \in 1 .. Len(taskCh') : i \in 1 .. Len(taskCh) \/ i = Len(taskCh) + 1
  BY <1>1, SMT
<1>3. \A t \in Sagas : Queued(t)' => Queued(t) \/ t = s
  BY <1>1, <1>2 DEF Queued
<1>4. ASSUME \A i, j \in 1 .. Len(taskCh) : taskCh[i] = taskCh[j] => i = j, ~Queued(s),
             NEW i \in 1 .. Len(taskCh'), NEW j \in 1 .. Len(taskCh'), taskCh'[i] = taskCh'[j]
      PROVE  i = j
  BY <1>1, <1>2, <1>4 DEF Queued
<1> QED BY <1>3, <1>4

(* A worker takes the first saga off the channel, and no saga twice.           *)
LEMMA TakeDequeues ==
    ASSUME TypeOK, taskCh # <<>>, taskCh' = Tail(taskCh)
    PROVE  /\ Head(taskCh) \in Sagas /\ Queued(Head(taskCh))
           /\ \A t \in Sagas : Queued(t)' => Queued(t)
           /\ (\A i, j \in 1 .. Len(taskCh) : taskCh[i] = taskCh[j] => i = j) =>
                  /\ \A i, j \in 1 .. Len(taskCh') : taskCh'[i] = taskCh'[j] => i = j
                  /\ \A t \in Sagas : Queued(t)' => t # Head(taskCh)
<1>0. taskCh \in Seq(Sagas)
  BY DEF TypeOK
<1>1. /\ Head(taskCh) \in Sagas /\ 1 \in 1 .. Len(taskCh) /\ taskCh[1] = Head(taskCh)
      /\ \A i \in 1 .. Len(taskCh') : i + 1 \in 1 .. Len(taskCh) /\ taskCh'[i] = taskCh[i + 1]
                                        /\ i + 1 # 1
      /\ \A i, j \in 1 .. Len(taskCh') : i + 1 = j + 1 => i = j
  BY <1>0, SMT
<1>2. Queued(Head(taskCh)) /\ \A t \in Sagas : Queued(t)' => Queued(t)
  BY <1>1 DEF Queued
<1>3. ASSUME \A i, j \in 1 .. Len(taskCh) : taskCh[i] = taskCh[j] => i = j
      PROVE  /\ \A i, j \in 1 .. Len(taskCh') : taskCh'[i] = taskCh'[j] => i = j
             /\ \A t \in Sagas : Queued(t)' => t # Head(taskCh)
  <2>1. \A i, j \in 1 .. Len(taskCh') : taskCh'[i] = taskCh'[j] => i = j
    <3> SUFFICES ASSUME NEW i \in 1 .. Len(taskCh'), NEW j \in 1 .. Len(taskCh'),
                        taskCh'[i] = taskCh'[j]
                 PROVE  i = j
      OBVIOUS
    <3>1. i + 1 \in 1 .. Len(taskCh) /\ j + 1 \in 1 .. Len(taskCh)
          /\ taskCh[i + 1] = taskCh[j + 1]
      BY <1>1
    <3>2. i + 1 = j + 1
      BY <1>3, <3>1
    <3> QED BY <1>1, <3>2
  <2>2. \A i \in 1 .. Len(taskCh') : taskCh'[i] # Head(taskCh)
    BY <1>1, <1>3
  <2> QED BY <2>1, <2>2 DEF Queued
<1> QED BY <1>1, <1>2, <1>3

-------------------------------------------------------------------------------
(* OneTask, step by step.                                                      *)

(* A step of StartSaga that sends no task.                                     *)
LEMMA OneTaskKept ==
    ASSUME OneTask, UNCHANGED <<taskCh, worker, report>>,
           \A s \in Sagas : pc[s] \in SubmittedLabels => pc'[s] \in SubmittedLabels,
           \A s \in Sagas : s \in released' => s \in released \/ pc'[s] \in SubmittedLabels
    PROVE  OneTask'
<1>1. \A s \in Sagas : (Queued(s)' <=> Queued(s)) /\ (HasTask(s)' <=> HasTask(s))
  BY DEF Queued, HasTask
<1>2. \A w \in Workers : Busy(w)' <=> Busy(w)
  BY DEF Busy
<1> QED BY <1>1, <1>2 DEF OneTask

(* The caller of StartSaga submits its task once.                              *)
LEMMA OneTaskStartSaga ==
    ASSUME IInv, OneTask, NEW s \in Sagas, CheckOpen(s) \/ FinishStartSaga(s)
    PROVE  OneTask'
<1>0. TypeOK /\ Submitted /\ pc \in [Sagas -> Labels]
  BY DEF IInv, TypeOK
<1>1. CASE SendTask(s)
  <2>1. /\ taskCh' = Append(taskCh, s) /\ pc[s] = "sending" /\ pc' = [pc EXCEPT ![s] = "waiting"]
        /\ UNCHANGED <<worker, report, released>>
    BY <1>1 DEF SendTask, Goto
  <2>2. pc[s] \notin SubmittedLabels
    BY <2>1 DEF SubmittedLabels
  <2>3. ~Queued(s) /\ ~HasTask(s) /\ report[s] = "none"
    BY <2>2, <1>0 DEF OneTask, Submitted, Queued, HasTask
  <2>4. \A t \in Sagas : (HasTask(t)' <=> HasTask(t)) /\ (Queued(t)' => Queued(t) \/ t = s)
    BY <1>0, <2>1, SendQueues DEF HasTask
  <2>5. \A i, j \in 1 .. Len(taskCh') : taskCh'[i] = taskCh'[j] => i = j
    BY <1>0, <2>1, <2>3, SendQueues DEF OneTask
  <2>6. \A t \in Sagas : pc[t] \in SubmittedLabels => pc'[t] \in SubmittedLabels
    BY <1>0, <2>1 DEF SubmittedLabels
  <2>7. \A w \in Workers : Busy(w)' <=> Busy(w)
    BY <2>1 DEF Busy
  <2> QED BY <2>1, <2>3, <2>4, <2>5, <2>6, <2>7 DEF OneTask
<1>2. CASE ~SendTask(s)
  <2>1. UNCHANGED <<taskCh, worker, report>>
    BY <1>2 DEF CheckOpen, FinishStartSaga, Send, TakeSlot, AcquireFails, CountSlot,
       SubmitTask, Submit, SendPanics, SendCancelled, SubmitReturns, ReleaseAfterError
  <2>2. CASE pc[s] \in SubmittedLabels
    <3>1. \E l \in SubmittedLabels : pc' = [pc EXCEPT ![s] = l]
      BY <1>2, <2>2 DEF CheckOpen, FinishStartSaga, Send, TakeSlot, AcquireFails, CountSlot,
         SubmitTask, Submit, SendPanics, SendCancelled, SubmitReturns, ReleaseAfterError,
         Goto, SubmittedLabels
    <3>2. released' \in {released, released \cup {s}}
      BY <1>2 DEF CheckOpen, FinishStartSaga, Send, TakeSlot, AcquireFails, CountSlot,
         SubmitTask, Submit, SendPanics, SendCancelled, SubmitReturns, ReleaseAfterError,
         ReleaseSlot
    <3>3. \A t \in Sagas : pc[t] \in SubmittedLabels => pc'[t] \in SubmittedLabels
      BY <1>0, <3>1
    <3>4. pc'[s] \in SubmittedLabels
      BY <1>0, <3>1
    <3> QED BY <2>1, <3>2, <3>3, <3>4, OneTaskKept
  <2>3. CASE pc[s] \notin SubmittedLabels
    <3>1. \E l \in Labels : pc' = [pc EXCEPT ![s] = l]
      BY <1>2, <2>3 DEF CheckOpen, FinishStartSaga, Send, TakeSlot, AcquireFails, CountSlot,
         SubmitTask, Submit, SendPanics, SendCancelled, SubmitReturns, ReleaseAfterError,
         Goto, SubmittedLabels, Labels
    <3>2. released' = released
      BY <1>2, <2>3 DEF CheckOpen, FinishStartSaga, Send, TakeSlot, AcquireFails, CountSlot,
         SubmitTask, Submit, SendPanics, SendCancelled, SubmitReturns, ReleaseAfterError,
         SubmittedLabels
    <3>3. \A t \in Sagas : pc[t] \in SubmittedLabels => pc'[t] \in SubmittedLabels
      BY <1>0, <2>3, <3>1
    <3> QED BY <2>1, <3>2, <3>3, OneTaskKept
  <2> QED BY <2>2, <2>3
<1> QED BY <1>1, <1>2

(* A worker hands its task to nobody else.                                     *)
LEMMA OneTaskWorker ==
    ASSUME IInv, OneTask, NEW w \in Workers, RunWorker(w) \/ EndTask(w)
    PROVE  OneTask'
<1>0. /\ worker \in [Workers -> WorkerStates] /\ TypeOK /\ Submitted
      /\ report \in [Sagas -> {"none", "ok", "error"}]
  BY DEF IInv, TypeOK, WorkerStates
<1>1. CASE TakeTask(w)
  <2> DEFINE s == Head(taskCh)
  <2>1. taskCh # <<>> /\ taskCh' = Tail(taskCh) /\ worker[w] = Idle /\ UNCHANGED <<pc, released>>
    BY <1>1 DEF TakeTask
  <2>2. \/ worker' = worker /\ report' = [report EXCEPT ![s] = "error"]
        \/ worker' = [worker EXCEPT ![w] = Has("running", s)] /\ report' = report
    BY <1>1 DEF TakeTask, SetWorker
  <2>3. /\ s \in Sagas /\ Queued(s) /\ \A t \in Sagas : Queued(t)' => Queued(t) /\ t # s
        /\ \A i, j \in 1 .. Len(taskCh') : taskCh'[i] = taskCh'[j] => i = j
    BY <1>0, <2>1, TakeDequeues DEF OneTask
  <2> HIDE DEF s
  <2>4. ~HasTask(s) /\ pc[s] \in SubmittedLabels /\ report[s] = "none"
    BY <1>0, <2>3 DEF OneTask, Submitted, Queued
  <2>5. CASE worker' = worker /\ report' = [report EXCEPT ![s] = "error"]
    <3>1. \A t \in Sagas : HasTask(t)' <=> HasTask(t)
      BY <2>5 DEF HasTask
    <3>2. \A v \in Workers : Busy(v)' <=> Busy(v)
      BY <2>5 DEF Busy
    <3>3. \A t \in Sagas : report'[t] # "none" => report[t] # "none" \/ t = s
      BY <1>0, <2>5
    <3> QED BY <2>1, <2>3, <2>4, <2>5, <3>1, <3>2, <3>3 DEF OneTask
  <2>6. CASE worker' = [worker EXCEPT ![w] = Has("running", s)] /\ report' = report
    <3>1. \A v \in Workers :
              Busy(v)' => \/ v # w /\ Busy(v) /\ worker'[v] = worker[v]
                          \/ v = w /\ worker'[v].saga = s
      <4>1. worker'[w].saga = s
        BY <1>0, <2>6 DEF Has
      <4>2. \A v \in Workers : v # w => worker'[v] = worker[v]
        BY <1>0, <2>6
      <4> QED BY <4>1, <4>2, SMT DEF Busy
    <3>2. \A t \in Sagas : HasTask(t)' => HasTask(t) \/ t = s
      BY <3>1 DEF HasTask, Busy
    <3>3. \A v \in Workers : Busy(v) => worker[v].saga # s
      BY <2>4 DEF HasTask, Busy
    <3>4. \A u, v \in Workers : Busy(u)' /\ Busy(v)' /\ worker'[u].saga = worker'[v].saga => u = v
      BY <3>1, <3>3 DEF OneTask
    <3> QED BY <2>1, <2>3, <2>4, <2>6, <3>2, <3>4 DEF OneTask
  <2> QED BY <2>2, <2>5, <2>6
<1>2. CASE Report(w)
  <2>1. PICK s \in Sagas : s = worker[w].saga
    BY <1>0, <1>2, WorkerCases DEF Report
  <2>2. /\ worker' = [worker EXCEPT ![w] = Idle] /\ UNCHANGED <<taskCh, pc, released>> /\ Busy(w)
        /\ report' \in {report, [report EXCEPT ![s] = worker[w].at]}
    BY <1>2, <2>1 DEF Report, SetWorker, Busy
  <2>3. \A v \in Workers : Busy(v)' => Busy(v) /\ worker'[v] = worker[v] /\ v # w
    BY <1>0, <2>2 DEF Busy, Idle
  <2>4. HasTask(s) /\ ~Queued(s) /\ pc[s] \in SubmittedLabels
    BY <2>1, <2>2, <1>0 DEF OneTask, HasTask, Busy, Submitted
  <2>5. \A t \in Sagas : HasTask(t)' => HasTask(t) /\ t # s
    <3> SUFFICES ASSUME NEW t \in Sagas, NEW v \in Workers, Busy(v)', worker'[v].saga = t
                 PROVE  HasTask(t) /\ t # s
      BY DEF HasTask, Busy
    <3>1. Busy(v) /\ worker[v].saga = t /\ v # w
      BY <2>3
    <3> QED BY <2>1, <2>2, <3>1 DEF HasTask, Busy, OneTask
  <2>6. \A t \in Sagas : Queued(t)' <=> Queued(t)
    BY <2>2 DEF Queued
  <2>7. \A t \in Sagas : report'[t] # "none" => report[t] # "none" \/ t = s
    BY <1>0, <2>2
  <2>8. \A u, v \in Workers : Busy(u)' /\ Busy(v)' /\ worker'[u].saga = worker'[v].saga => u = v
    BY <2>3 DEF OneTask
  <2> QED BY <2>2, <2>4, <2>5, <2>6, <2>7, <2>8 DEF OneTask
<1>3. CASE ExitWorker(w)
  <2>1. /\ worker' = [worker EXCEPT ![w] = Exited] /\ UNCHANGED <<taskCh, pc, report, released>>
    BY <1>3 DEF ExitWorker, SetWorker
  <2>2. \A v \in Workers : Busy(v)' => Busy(v) /\ worker'[v] = worker[v]
    BY <1>0, <2>1 DEF Busy, Exited
  <2>3. \A t \in Sagas : (HasTask(t)' => HasTask(t)) /\ (Queued(t)' <=> Queued(t))
    BY <2>1, <2>2 DEF HasTask, Busy, Queued
  <2> QED BY <2>1, <2>2, <2>3 DEF OneTask
<1>4. CASE EndTask(w)
  <2>1. PICK s \in Sagas : s = worker[w].saga
    BY <1>0, <1>4, WorkerCases DEF EndTask
  <2>2. /\ \E l \in {"ok", "error"} : worker' = [worker EXCEPT ![w] = Has(l, s)]
        /\ UNCHANGED <<taskCh, pc, report>> /\ Busy(w) /\ released' = released \cup {s}
    BY <1>4, <2>1 DEF EndTask, SetWorker, Busy, ReleaseSlot
  <2>3. \A v \in Workers : Busy(v)' => Busy(v) /\ worker'[v].saga = worker[v].saga
    <3>1. worker'[w].saga = worker[w].saga
      <4>1. PICK l \in {"ok", "error"} : worker' = [worker EXCEPT ![w] = Has(l, s)]
        BY <2>2
      <4> QED BY <1>0, <2>1, <4>1 DEF Has
    <3>2. \A v \in Workers : v # w => worker'[v] = worker[v]
      BY <1>0, <2>2
    <3> QED BY <2>2, <3>1, <3>2 DEF Busy
  <2>4. \A t \in Sagas : (HasTask(t)' => HasTask(t)) /\ (Queued(t)' <=> Queued(t))
    BY <2>2, <2>3 DEF HasTask, Busy, Queued
  <2>5. pc[s] \in SubmittedLabels
    BY <1>0, <2>1, <2>2 DEF Submitted, Busy
  <2> QED BY <2>2, <2>3, <2>4, <2>5 DEF OneTask
<1> QED BY <1>1, <1>2, <1>3, <1>4 DEF RunWorker

(* Cancelling and Shutdown leave the tasks alone.                              *)
LEMMA OneTaskNext == ASSUME IInv, OneTask, [Next]_vars PROVE OneTask'
<1>1. CASE \E s \in Sagas : CheckOpen(s) \/ FinishStartSaga(s)
  BY <1>1, OneTaskStartSaga
<1>2. CASE \E w \in Workers : RunWorker(w) \/ EndTask(w)
  BY <1>2, OneTaskWorker
<1>3. CASE \/ \E s \in Sagas : Cancel(s)
           \/ \E k \in Closers : BeginShutdown(k) \/ FinishShutdown(k)
           \/ UNCHANGED vars
  <2>1. UNCHANGED <<taskCh, worker, report, pc, released>>
    BY <1>3 DEF Cancel, BeginShutdown, FinishShutdown, ClosePool, EndShutdown
  <2> QED BY <2>1, OneTaskKept
<1> QED BY <1>1, <1>2, <1>3 DEF Next

-------------------------------------------------------------------------------
(* Shutdown closes the controller before the pool.                             *)
LEMMA ClosingNext == ASSUME TypeOK, Closing, [Next]_vars PROVE Closing'
<1>1. CASE \E k \in Closers : BeginShutdown(k)
  BY <1>1 DEF BeginShutdown, Closing
<1>2. CASE \E k \in Closers : ClosePool(k)
  <2>1. PICK k \in Closers : ClosePool(k)
    BY <1>2
  <2>2. closed /\ closed'
    BY <2>1, SMT DEF ClosePool, Closing
  <2> QED BY <2>2 DEF Closing
<1>3. CASE \E k \in Closers : EndShutdown(k)
  <2>1. PICK k \in Closers : EndShutdown(k)
    BY <1>3
  <2>2. \A j \in Closers : shutdown'[j] = "closing" => shutdown[j] = "closing"
    BY <2>1 DEF EndShutdown, TypeOK
  <2>3. UNCHANGED <<closed, poolClosed>>
    BY <2>1 DEF EndShutdown
  <2> QED BY <2>2, <2>3, SMT DEF Closing
<1>4. CASE UNCHANGED <<poolClosed, closed, shutdown>>
  BY <1>4 DEF Closing
<1>5. ASSUME NEW s \in Sagas, CheckOpen(s) \/ FinishStartSaga(s) \/ Cancel(s)
      PROVE  UNCHANGED <<poolClosed, closed, shutdown>>
  BY <1>5 DEF CheckOpen, FinishStartSaga, Send, TakeSlot, AcquireFails, CountSlot,
     SubmitTask, Submit, SendTask, SendPanics, SendCancelled, SubmitReturns, ReleaseAfterError,
     Cancel
<1>6. ASSUME NEW w \in Workers, RunWorker(w) \/ EndTask(w)
      PROVE  UNCHANGED <<poolClosed, closed, shutdown>>
  BY <1>6 DEF RunWorker, TakeTask, Report, ExitWorker, EndTask
<1> QED BY <1>1, <1>2, <1>3, <1>4, <1>5, <1>6 DEF Next, FinishShutdown

(* An error, a cancellation and a Shutdown are not forgotten: the report of a  *)
(* task is not overwritten.                                                    *)
LEMMA StaysDisturbed ==
    ASSUME IInv, OneTask, [Next]_vars, Undisturbed', ~closed'
    PROVE  Undisturbed /\ ~closed
<1>0. /\ worker \in [Workers -> WorkerStates] /\ report \in [Sagas -> {"none", "ok", "error"}]
  BY DEF IInv, TypeOK, WorkerStates
<1>1. cancelled' = {} /\ (\A s \in Sagas : report'[s] # "error")
      /\ \A v \in Workers : worker'[v].at # "error"
  BY DEF Undisturbed
<1> SUFFICES /\ cancelled \subseteq cancelled' /\ (closed => closed')
             /\ \A s \in Sagas : report[s] # "error"
             /\ \A v \in Workers : worker[v].at # "error"
  BY <1>1 DEF Undisturbed
<1>2. ASSUME NEW s \in Sagas, CheckOpen(s) \/ FinishStartSaga(s) \/ Cancel(s)
      PROVE  UNCHANGED <<worker, report, closed>> /\ cancelled \subseteq cancelled'
  BY <1>2 DEF CheckOpen, FinishStartSaga, Send, TakeSlot, AcquireFails, CountSlot,
     SubmitTask, Submit, SendTask, SendPanics, SendCancelled, SubmitReturns, ReleaseAfterError,
     Cancel
<1>3. ASSUME NEW k \in Closers, BeginShutdown(k) \/ FinishShutdown(k)
      PROVE  UNCHANGED <<worker, report, cancelled>> /\ (closed => closed')
  <2>1. UNCHANGED <<worker, report, cancelled>> /\ (closed' = TRUE \/ closed' = closed)
    BY <1>3 DEF BeginShutdown, FinishShutdown, ClosePool, EndShutdown
  <2> QED BY <2>1, SMT
<1>4. CASE UNCHANGED <<worker, report>> /\ cancelled \subseteq cancelled' /\ (closed => closed')
  BY <1>1, <1>4
<1>5. ASSUME NEW w \in Workers, TakeTask(w) \/ ExitWorker(w) \/ EndTask(w)
      PROVE  /\ UNCHANGED <<cancelled, closed>>
             /\ \A s \in Sagas : report[s] # "error"
             /\ \A v \in Workers : worker[v].at # "error"
  <2>1. UNCHANGED <<cancelled, closed>> /\ worker[w].at \in {"idle", "running"}
    BY <1>5, SMT DEF TakeTask, ExitWorker, EndTask, Idle
  <2>2. /\ report' = report \/ \E s : report' = [report EXCEPT ![s] = "error"]
        /\ worker' = worker \/ \E x : worker' = [worker EXCEPT ![w] = x]
    BY <1>5 DEF TakeTask, ExitWorker, EndTask, SetWorker
  <2>3. \A v \in Workers : worker[v].at # "error"
    BY <1>0, <1>1, <2>1, <2>2
  <2>4. \A s \in Sagas : report[s] # "error"
    BY <1>0, <1>1, <2>2
  <2> QED BY <2>1, <2>3, <2>4
<1>6. ASSUME NEW w \in Workers, Report(w)
      PROVE  /\ UNCHANGED <<cancelled, closed>>
             /\ \A s \in Sagas : report[s] # "error"
             /\ \A v \in Workers : worker[v].at # "error"
  <2>1. PICK s \in Sagas : s = worker[w].saga
    BY <1>0, <1>6, WorkerCases DEF Report
  <2>2. /\ UNCHANGED <<cancelled, closed>> /\ worker' = [worker EXCEPT ![w] = Idle]
        /\ report' = [report EXCEPT ![s] = worker[w].at] \/ s \in cancelled
        /\ worker[w].at \in {"ok", "error"}
    BY <1>6, <2>1 DEF Report, SetWorker
  <2>3. report' = [report EXCEPT ![s] = worker[w].at]
    BY <1>1, <2>2
  <2>4. report[s] = "none"
    BY <2>1, <2>2 DEF OneTask, HasTask
  <2>5. worker[w].at # "error"
    BY <1>0, <1>1, <2>3
  <2>6. \A v \in Workers : worker[v].at # "error"
    BY <1>0, <1>1, <2>2, <2>5
  <2>7. \A t \in Sagas : report[t] # "error"
    BY <1>0, <1>1, <2>3, <2>4
  <2> QED BY <2>2, <2>6, <2>7
<1>7. CASE \E s \in Sagas : CheckOpen(s) \/ FinishStartSaga(s) \/ Cancel(s)
  <2>1. UNCHANGED <<worker, report, closed>> /\ cancelled \subseteq cancelled'
    BY <1>2, <1>7
  <2> QED BY <1>4, <2>1, SMT
<1>8. CASE \E k \in Closers : BeginShutdown(k) \/ FinishShutdown(k)
  BY <1>3, <1>4, <1>8
<1>9. CASE \E w \in Workers : RunWorker(w) \/ EndTask(w)
  <2>1. /\ UNCHANGED <<cancelled, closed>>
        /\ \A s \in Sagas : report[s] # "error"
        /\ \A v \in Workers : worker[v].at # "error"
    BY <1>5, <1>6, <1>9 DEF RunWorker
  <2> QED BY <2>1, SMT
<1>10. CASE UNCHANGED vars
  BY <1>4, <1>10, SMT
<1> QED BY <1>7, <1>8, <1>9, <1>10 DEF Next

(* A step that moves no token and no holder keeps the books.                   *)
LEMMA ExactKept ==
    ASSUME Exact, UNCHANGED slots, \A s \in Sagas : s \in Holders' <=> s \in Holders,
           \A s \in Holders : pc'[s] = "counting" <=> pc[s] = "counting"
    PROVE  Exact'
<1>1. Holders' = Holders
  BY DEF Holders
<1>2. {s \in Holders : pc'[s] # "counting"} = {s \in Holders : pc[s] # "counting"}
  OBVIOUS
<1> QED BY <1>1, <1>2 DEF Exact

(* Nor does one in which StartSaga moves on.                                   *)
LEMMA ExactMoves ==
    ASSUME TypeOK, Exact, NEW s \in Sagas, NEW l \in Labels, Goto(s, l),
           UNCHANGED <<slots, released>>, l # "counting", pc[s] # "counting",
           \/ s \in released
           \/ (pc[s] \in {"new", "acquiring"} <=> l \in {"refused", "acquiring"})
                 /\ pc[s] \notin {"refused", "returned", "failed"}
                 /\ l \notin {"new", "returned", "failed"}
    PROVE  Exact'
<1>1. pc' = [pc EXCEPT ![s] = l] /\ pc \in [Sagas -> Labels]
  BY DEF Goto, TypeOK
<1>2. \A t \in Sagas : t # s => (t \in Holders' <=> t \in Holders)
  BY <1>1 DEF Holders
<1>3. s \in Holders' <=> s \in Holders
  BY <1>1 DEF Holders
<1>4. \A t \in Holders : pc'[t] = "counting" <=> pc[t] = "counting"
  BY <1>1 DEF Holders
<1> QED BY <1>2, <1>3, <1>4, ExactKept

(* Cardinality after one element more or less, for the two sets of the books.  *)
LEMMA BookCounts ==
    ASSUME TypeOK
    PROVE  /\ \A s \in Sagas : s \notin Holders =>
                  Cardinality(Holders \cup {s}) = Cardinality(Holders) + 1
           /\ \A s \in Holders : /\ Cardinality(Holders \ {s}) = Cardinality(Holders) - 1
                                 /\ Cardinality(Holders) > 0
           /\ \A s \in Sagas \ activeInstances :
                  Cardinality(activeInstances \cup {s}) = Cardinality(activeInstances) + 1
           /\ \A s \in activeInstances :
                  Cardinality(activeInstances \ {s}) = Cardinality(activeInstances) - 1
<1>1. ASSUME NEW S, IsFiniteSet(S)
      PROVE  /\ \A s : s \notin S => Cardinality(S \cup {s}) = Cardinality(S) + 1
             /\ \A s \in S : Cardinality(S \ {s}) = Cardinality(S) - 1 /\ Cardinality(S) > 0
  <2>1. \A s : s \notin S => Cardinality(S \cup {s}) = Cardinality(S) + 1
    BY <1>1, FS_AddElement
  <2>2. ASSUME NEW s \in S PROVE Cardinality(S \ {s}) = Cardinality(S) - 1
    BY <1>1, FS_RemoveElement
  <2>3. ASSUME NEW s \in S PROVE Cardinality(S) > 0
    <3>1. Cardinality(S) \in Nat /\ Cardinality(S) # 0
      BY <1>1, FS_CardinalityType, FS_EmptySet
    <3> QED BY <3>1, SMT
  <2> QED BY <2>1, <2>2, <2>3
<1>2. IsFiniteSet(Holders) /\ IsFiniteSet(activeInstances)
  BY HoldersFinite, FS_Subset DEF TypeOK
<1> QED BY <1>1, <1>2

-------------------------------------------------------------------------------
(* The books under the steps of StartSaga.                                     *)
LEMMA BooksStartSaga ==
    ASSUME IInv, OneTask, Closing, Quiet, Exact, Undisturbed, ~closed,
           NEW s \in Sagas, CheckOpen(s) \/ FinishStartSaga(s)
    PROVE  Quiet' /\ Exact'
<1>0. /\ TypeOK /\ Submitted /\ Reported /\ pc \in [Sagas -> Labels] /\ ~poolClosed
      /\ cancelled = {} /\ report[s] # "error" /\ pc[s] \notin {"releasing", "failed"}
  BY DEF IInv, TypeOK, Closing, Quiet, Undisturbed
<1>1. ASSUME UNCHANGED <<taskCh, worker, released>>,
             NEW l \in Labels \ {"releasing", "failed"}, Goto(s, l), ~Pending(s)
      PROVE  Quiet'
  <2>1. pc' = [pc EXCEPT ![s] = l]
    BY <1>1 DEF Goto
  <2>2. \A t \in Sagas : Pending(t)' <=> Pending(t)
    BY <1>1 DEF Pending, Queued
  <2>3. \A t \in Sagas : pc'[t] \notin {"releasing", "failed"}
    BY <1>0, <2>1 DEF Quiet
  <2>4. \A t \in Sagas : t # s => pc'[t] = pc[t]
    BY <1>0, <2>1
  <2> QED BY <1>1, <2>2, <2>3, <2>4 DEF Quiet
<1>2. Pending(s) => pc[s] = "waiting"
  BY DEF Quiet
<1>3. CASE CheckOpen(s)
  <2>1. pc[s] = "new" /\ Goto(s, "acquiring") /\ UNCHANGED <<slots, pool, released>>
    BY <1>3 DEF CheckOpen
  <2>2. ~Pending(s)
    BY <1>2, <2>1
  <2> QED BY <1>0, <1>1, <2>1, <2>2, ExactMoves DEF Labels
<1>4. CASE AcquireFails(s)
  <2>1. pc[s] = "acquiring" /\ Goto(s, "refused") /\ UNCHANGED <<slots, pool, released>>
    BY <1>4 DEF AcquireFails
  <2>2. ~Pending(s)
    BY <1>2, <2>1
  <2> QED BY <1>0, <1>1, <2>1, <2>2, ExactMoves DEF Labels
<1>5. CASE SubmitTask(s)
  <2>1. pc[s] = "acquired" /\ Goto(s, "submitting") /\ UNCHANGED <<slots, pool, released>>
    BY <1>5 DEF SubmitTask
  <2>2. ~Pending(s)
    BY <1>2, <2>1
  <2> QED BY <1>0, <1>1, <2>1, <2>2, ExactMoves DEF Labels
<1>6. CASE Submit(s)
  <2>1. pc[s] = "submitting" /\ Goto(s, "sending") /\ UNCHANGED <<slots, pool, released>>
    BY <1>0, <1>6 DEF Submit
  <2>2. ~Pending(s)
    BY <1>2, <2>1
  <2> QED BY <1>0, <1>1, <2>1, <2>2, ExactMoves DEF Labels
<1>7. CASE SendTask(s)
  <2>1. /\ pc[s] = "sending" /\ Goto(s, "waiting") /\ UNCHANGED <<slots, worker, released>>
        /\ taskCh' = Append(taskCh, s) /\ pc' = [pc EXCEPT ![s] = "waiting"]
    BY <1>7 DEF SendTask, Goto
  <2>2. Exact'
    BY <1>0, <2>1, ExactMoves DEF Labels
  <2>3. s \notin released
    BY <2>1 DEF OneTask, SubmittedLabels
  <2>4. \A t \in Sagas : Pending(t)' => Pending(t) \/ t = s
    <3>1. \A t \in Sagas : Queued(t)' => Queued(t) \/ t = s
      BY <1>0, <2>1, SendQueues
    <3> QED BY <2>1, <3>1 DEF Pending
  <2>5. \A t \in Sagas : pc'[t] \notin {"releasing", "failed"}
                          /\ (pc[t] = "waiting" => pc'[t] = "waiting")
    BY <1>0, <2>1 DEF Quiet
  <2>6. pc'[s] = "waiting"
    BY <1>0, <2>1
  <2> QED BY <2>1, <2>2, <2>3, <2>4, <2>5, <2>6 DEF Quiet
<1>8. CASE SubmitReturns(s)
  <2>1. /\ pc[s] = "waiting" /\ Goto(s, "returned") /\ UNCHANGED <<slots, pool, released>>
        /\ report[s] = "ok"
    BY <1>0, <1>8 DEF SubmitReturns
  <2>2. s \in released
    BY <1>0, <2>1 DEF Reported
  <2>3. ~Pending(s)
    BY <2>2 DEF Quiet
  <2> QED BY <1>0, <1>1, <2>1, <2>2, <2>3, ExactMoves DEF Labels
<1>9. CASE TakeSlot(s)
  <2>1. /\ pc[s] = "acquiring" /\ Goto(s, "counting") /\ pc' = [pc EXCEPT ![s] = "counting"]
        /\ UNCHANGED <<activeSagaCount, activeInstances, pool, released>>
        /\ semaphore' = semaphore + 1
    BY <1>9 DEF TakeSlot, Goto
  <2>2. Quiet'
    BY <1>1, <1>2, <2>1 DEF Labels
  <2>3. s \notin released /\ s \notin Holders
    BY <1>0, <2>1 DEF Submitted, Holders
  <2>4. Holders' = Holders \cup {s}
    BY <1>0, <2>1, <2>3 DEF Holders
  <2>5. {t \in Holders' : pc'[t] # "counting"} = {t \in Holders : pc[t] # "counting"}
    BY <1>0, <2>1, <2>3, <2>4 DEF Holders
  <2>6. Cardinality(Holders') = Cardinality(Holders) + 1
    BY <1>0, <2>3, <2>4, BookCounts
  <2> QED BY <2>1, <2>2, <2>5, <2>6 DEF Exact
<1>10. CASE CountSlot(s)
  <2>1. /\ pc[s] = "counting" /\ Goto(s, "acquired") /\ pc' = [pc EXCEPT ![s] = "acquired"]
        /\ UNCHANGED <<semaphore, pool, released>>
        /\ activeSagaCount' = activeSagaCount + 1 /\ activeInstances' = activeInstances \cup {s}
    BY <1>10 DEF CountSlot, Goto
  <2>2. Quiet'
    BY <1>1, <1>2, <2>1 DEF Labels
  <2>3. s \notin released /\ s \in Holders /\ s \in Sagas \ activeInstances
    BY <2>1 DEF OneTask, SubmittedLabels, Holders, Exact
  <2>4. Holders' = Holders
    BY <1>0, <2>1, <2>3 DEF Holders
  <2>5. {t \in Holders : pc'[t] # "counting"} = {t \in Holders : pc[t] # "counting"} \cup {s}
    BY <1>0, <2>1, <2>3 DEF Holders
  <2>6. Cardinality(activeInstances') = Cardinality(activeInstances) + 1
    BY <1>0, <2>1, <2>3, BookCounts
  <2> QED BY <2>1, <2>2, <2>4, <2>5, <2>6 DEF Exact
<1>11. ~SendPanics(s) /\ ~SendCancelled(s) /\ ~ReleaseAfterError(s)
  BY <1>0 DEF SendPanics, SendCancelled, ReleaseAfterError
<1> QED BY <1>3, <1>4, <1>5, <1>6, <1>7, <1>8, <1>9, <1>10, <1>11 DEF FinishStartSaga, Send

(* The books under the steps of a worker: a task gives back the slot of a      *)
(* holder, once.                                                               *)
LEMMA BooksWorker ==
    ASSUME IInv, OneTask, Quiet, Exact, Undisturbed, NEW w \in Workers, RunWorker(w) \/ EndTask(w),
           ~closed
    PROVE  Quiet' /\ Exact'
<1>0. /\ worker \in [Workers -> WorkerStates] /\ TypeOK /\ worker[w] \in WorkerStates
  BY DEF IInv, TypeOK, WorkerStates
<1>1. ASSUME UNCHANGED <<slots, pc, released>>, \A t \in Sagas : Pending(t)' => Pending(t)
      PROVE  Quiet' /\ Exact'
  <2>1. Quiet'
    BY <1>1 DEF Quiet
  <2>2. \A t \in Sagas : t \in Holders' <=> t \in Holders
    BY <1>1 DEF Holders
  <2> QED BY <1>1, <2>1, <2>2, ExactKept
<1>2. CASE TakeTask(w)
  <2>1. /\ taskCh # <<>> /\ taskCh' = Tail(taskCh) /\ UNCHANGED <<slots, pc, released>>
        /\ worker' = worker \/ worker' = [worker EXCEPT ![w] = Has("running", Head(taskCh))]
    BY <1>2 DEF TakeTask, SetWorker
  <2>2. /\ \A t \in Sagas : Queued(t)' => Queued(t)
        /\ Queued(Head(taskCh))
    BY <1>0, <2>1, TakeDequeues
  <2>3. \A t \in Sagas : Pending(t)' => Pending(t)
    <3>1. Has("running", Head(taskCh)).saga = Head(taskCh)
      BY DEF Has
    <3>2. \A v \in Workers :
              worker'[v] = worker[v] \/ worker'[v] = Has("running", Head(taskCh))
      BY <1>0, <2>1
    <3> QED BY <2>2, <3>1, <3>2 DEF Pending
  <2> QED BY <1>1, <2>1, <2>3
<1>3. CASE Report(w) \/ ExitWorker(w)
  <2>1. /\ UNCHANGED <<slots, pc, released, taskCh>>
        /\ worker' = [worker EXCEPT ![w] = Idle] \/ worker' = [worker EXCEPT ![w] = Exited]
    BY <1>3 DEF Report, ExitWorker, SetWorker
  <2>2. \A v \in Workers : worker'[v].at = "running" => worker'[v] = worker[v]
    BY <1>0, <2>1, SMT DEF Idle, Exited
  <2>3. \A t \in Sagas : Pending(t)' => Pending(t)
    BY <2>1, <2>2 DEF Pending, Queued
  <2> QED BY <1>1, <2>1, <2>3
<1>4. CASE EndTask(w)
  <2>1. PICK s \in Sagas : s = worker[w].saga
    BY <1>0, <1>4, WorkerCases DEF EndTask
  <2>2. /\ \E l \in {"ok", "error"} : worker' = [worker EXCEPT ![w] = Has(l, s)]
        /\ UNCHANGED <<taskCh, pc>> /\ worker[w].at = "running" /\ released' = released \cup {s}
        /\ activeInstances' = activeInstances \ {s} /\ activeSagaCount' = activeSagaCount - 1
        /\ semaphore' = IF semaphore > 0 THEN semaphore - 1 ELSE 0
    BY <1>4, <2>1 DEF EndTask, SetWorker, ReleaseSlot
  <2>3. pc[s] = "waiting" /\ s \notin released
    BY <2>1, <2>2 DEF Quiet, Pending
  <2>4. s \in Holders /\ Holders' = Holders \ {s} /\ s \in activeInstances
    BY <2>2, <2>3 DEF Holders, Exact
  <2>5. /\ Cardinality(Holders') = Cardinality(Holders) - 1 /\ Cardinality(Holders) > 0
        /\ Cardinality(activeInstances') = Cardinality(activeInstances) - 1
    BY <1>0, <2>2, <2>4, BookCounts
  <2>6. semaphore' = Cardinality(Holders')
    BY <2>2, <2>5 DEF Exact
  <2>7. {t \in Holders' : pc'[t] # "counting"} = {t \in Holders : pc[t] # "counting"} \ {s}
    BY <2>2, <2>4
  <2>8. Exact'
    BY <2>2, <2>5, <2>6, <2>7 DEF Exact
  <2>9. \A v \in Workers : worker'[v].at = "running" => worker'[v] = worker[v] /\ v # w
    BY <1>0, <2>2, SMT DEF Has
  <2>10. HasTask(s) /\ ~Queued(s)
    BY <2>1, <2>2 DEF HasTask, OneTask
  <2>11. \A t \in Sagas : Pending(t)' => Pending(t) /\ t # s
    <3>1. ASSUME NEW t \in Sagas, NEW v \in Workers, worker'[v].at = "running", worker'[v].saga = t
          PROVE  Pending(t) /\ t # s
      <4>1. worker[v].at = "running" /\ worker[v].saga = t /\ v # w
        BY <2>9, <3>1
      <4> QED BY <2>1, <2>2, <4>1 DEF Pending, OneTask, Busy
    <3>2. ASSUME NEW t \in Sagas, Queued(t)' PROVE Pending(t) /\ t # s
      BY <2>2, <2>10, <3>2 DEF Queued, Pending
    <3> QED BY <3>1, <3>2 DEF Pending
  <2>12. Quiet'
    BY <2>2, <2>11 DEF Quiet
  <2> QED BY <2>8, <2>12
<1> QED BY <1>2, <1>3, <1>4 DEF RunWorker

(* As long as nothing fails, nothing is cancelled and nobody calls Shutdown,   *)
(* the semaphore, activeSagaCount and activeInstances are exact, for any       *)
(* number of sagas, workers and slots (AcquireSlot, ReleaseSlot, SubmitTask).  *)
THEOREM ExactBooks == Spec => []BooksExact
<1>1. Init => Books
  <2> SUFFICES ASSUME Init PROVE Books
    OBVIOUS
  <2>1. /\ \A s \in Sagas : ~Queued(s) /\ ~HasTask(s) /\ ~Pending(s)
        /\ \A w \in Workers : ~Busy(w)
    BY SMT DEF Init, Queued, HasTask, Pending, Busy, Idle
  <2>2. OneTask
    BY <2>1, SMT DEF Init, OneTask
  <2>3. Holders = {} /\ Cardinality(Holders) = 0 /\ Cardinality({}) = 0
    BY FS_EmptySet DEF Init, Holders
  <2>4. Closing /\ Quiet /\ Exact
    BY <2>1, <2>3 DEF Init, Closing, Quiet, Exact
  <2> QED BY <2>2, <2>4 DEF Books
<1>2. ASSUME IInv, Books, [Next]_vars PROVE Books'
  <2>1. OneTask' /\ Closing'
    BY <1>2, OneTaskNext, ClosingNext DEF Books, IInv
  <2>2. ASSUME Undisturbed', ~closed' PROVE Quiet' /\ Exact'
    <3>1. Undisturbed /\ ~closed
      BY <1>2, <2>2, StaysDisturbed DEF Books
    <3>2. OneTask /\ Closing /\ Quiet /\ Exact /\ IInv
      BY <1>2, <3>1 DEF Books
    <3>3. CASE \E s \in Sagas : CheckOpen(s) \/ FinishStartSaga(s)
      BY <3>1, <3>2, <3>3, BooksStartSaga
    <3>4. CASE \E w \in Workers : RunWorker(w) \/ EndTask(w)
      BY <3>1, <3>2, <3>4, BooksWorker
    <3>5. CASE \/ \E s \in Sagas : Cancel(s)
               \/ \E k \in Closers : BeginShutdown(k) \/ FinishShutdown(k)
               \/ UNCHANGED vars
      <4>1. UNCHANGED <<slots, taskCh, worker, pc, released>>
        BY <3>5 DEF Cancel, BeginShutdown, FinishShutdown, ClosePool, EndShutdown
      <4>2. \A t \in Sagas : (Pending(t)' <=> Pending(t)) /\ (t \in Holders' <=> t \in Holders)
        BY <4>1 DEF Pending, Queued, Holders
      <4> QED BY <3>2, <4>1, <4>2, ExactKept DEF Quiet
    <3> QED BY <1>2, <3>3, <3>4, <3>5 DEF Next
  <2> QED BY <2>1, <2>2 DEF Books
<1>3. Books => BooksExact
  BY DEF Books, Exact, BooksExact
<1> QED BY <1>1, <1>2, <1>3, Inductive, PTL DEF Spec
===============================================================================
