---------------------- MODULE SagaOrchestratorInvariant -----------------------
(* An invariant of one orchestrated saga that every action keeps, for any      *)
(* number of steps, attempts, cancellers and stoppers, with and without        *)
(* timeouts and storage faults.                                                *)
(*                                                                             *)
(* The properties of SagaOrchestrator are not inductive.  What is missing:     *)
(*   Unstarted the worker has not begun before its task is submitted;          *)
(*   Position  how the worker's loop variable, completedSteps and the steps    *)
(*             really done hang together at each place of the worker;          *)
(*   TodoDone  whoever compensates has only steps before it that were done;    *)
(*   Cover     while the worker compensates, every step done is undone, given  *)
(*             up by the worker, or still before it;                           *)
(*   Claims    what any actor has written or is about to write is true, and    *)
(*             "Compensated" comes only when no step can be done any more.     *)
(* The parameter says whether the orchestrator is alone with its saga.  If its *)
(* process may die and others may write to the storage (SagaRecovery), steps   *)
(* may be done that it has forgotten, and "Compensated" be written by somebody *)
(* who knows less; the rest of the invariant does not need that.               *)
EXTENDS SagaOrchestrator, TLAPS

Attempts ==
    \A a \in Undoers : pc[a] \in {"trying", "undoing"} => attempt[a] < MaxAttempts

Unstarted ==
    starter \in {"new", "created", "tracked"} => WorkerAt("idle")

(* The first k steps are in d, and if the orchestrator is alone nothing else.  *)
Reached(alone, d, k) == 1 .. k \subseteq d /\ (alone => d \subseteq 1 .. k)

Position(alone) ==
    /\ completedSteps = IF WorkerAt("counted") THEN step ELSE step - 1
    /\ Reached(alone, done, IF WorkerAt("counting") THEN step ELSE completedSteps)
    /\ pc[Worker] \in {"trying", "running", "failed", "counting", "counted"} => step <= N

TodoDone ==
    \A a \in Undoers :
        /\ \A k \in 1 .. Len(todo[a]) : todo[a][k] \in done
        /\ pc[a] \in {"undoing", "compensating"} => todo[a] # <<>>

Cover(alone) ==
    alone /\ pc[Worker] \in {"undo", "undoing", "compensating"} =>
        \A i \in done : \/ i \in undone \cup gaveUp[Worker]
                        \/ \E k \in 1 .. Len(todo[Worker]) : todo[Worker][k] = i

WorkOver ==
    \/ pc[Worker] \in {"retire", "returning", "ended"}
    \/ pc[Worker] \in {"persist", "write"} /\ after \in {"retire", "returning"}

Claim(alone, s) ==
    /\ s = "Completed" => done = Steps
    /\ alone /\ s = "Compensated" => undone = done /\ WorkOver

Claims(alone) ==
    /\ Claim(alone, mem)
    /\ Claim(alone, stored)
    /\ \A a \in Actors : Claim(alone, intent[a])

(* The inductive invariant *)
IInv(alone) ==
    /\ TypeOK
    /\ Attempts
    /\ Unstarted
    /\ Position(alone)
    /\ undone \subseteq done
    /\ TodoDone
    /\ Cover(alone)
    /\ Claims(alone)

-------------------------------------------------------------------------------
(* The assumption on the constants and the index sets are used throughout.     *)
USE SagaAssumption, Zenon DEF Steps, Undoers, Actors

(* TypeOK in parts, one for each group of variables that actions change together *)
StateTyped ==
    /\ mem \in SagaStates
    /\ stored \in SagaStates \cup {"none"}

MapsTyped == inMemory \in BOOLEAN /\ defined \in BOOLEAN /\ cancelFunc \in BOOLEAN

ContextsTyped ==
    /\ execDone \in BOOLEAN
    /\ ctx \in {"live", "Canceled", "DeadlineExceeded"}

StepsTyped ==
    /\ completedSteps \in 0 .. N
    /\ saved \in Seq(Steps)
    /\ blank \subseteq Steps
    /\ done \subseteq Steps
    /\ step \in 1 .. N + 1

UndoingTyped ==
    /\ undone \subseteq Steps
    /\ gaveUp \in [Undoers -> SUBSET Steps]
    /\ todo \in [Undoers -> Seq(Steps)]
    /\ given \in [Undoers -> Steps \cup {None}]

PcTyped ==
    /\ pc \in [Actors -> WorkerLabels \cup CallerLabels]
    /\ pc[Worker] \in WorkerLabels
    /\ \A a \in Actors \ {Worker} : pc[a] \in CallerLabels

IntentTyped ==
    /\ intent \in [Actors -> SagaStates \cup {"live"}]
    /\ after \in {"loop", "decide", "retire", "returning"}

AttemptTyped == attempt \in [Undoers -> 0 .. MaxAttempts]

OthersTyped ==
    /\ active \in Int
    /\ starter \in {"new", "created", "tracked", "waiting", "returned", "refused"}
    /\ monitor \in {"off", "watching", "timedOut", "handled", "ended"}

Parts ==
    /\ StateTyped /\ MapsTyped /\ ContextsTyped /\ StepsTyped /\ UndoingTyped
    /\ PcTyped /\ IntentTyped /\ AttemptTyped /\ OthersTyped

(* The parts make up TypeOK, before and after a step.                          *)
LEMMA TypeParts ==
    /\ TypeOK <=> Parts
    /\ TypeOK' <=> Parts'
<1>1. TypeOK <=> Parts
  BY Zenon DEF TypeOK, Parts, StateTyped, MapsTyped, ContextsTyped, StepsTyped, UndoingTyped,
         PcTyped, IntentTyped, AttemptTyped, OthersTyped
<1>2. TypeOK' <=> Parts'
  BY Zenon DEF TypeOK, Parts, StateTyped, MapsTyped, ContextsTyped, StepsTyped, UndoingTyped,
         PcTyped, IntentTyped, AttemptTyped, OthersTyped
<1>3. QED
  BY <1>1, <1>2

(* A part whose variables do not change stays.                                 *)
LEMMA KeepTypes ==
    ASSUME TypeOK
    PROVE  /\ UNCHANGED <<mem, stored>> => StateTyped'
           /\ UNCHANGED registry => MapsTyped'
           /\ UNCHANGED contexts => ContextsTyped'
           /\ UNCHANGED steps => StepsTyped'
           /\ UNCHANGED undoing => UndoingTyped'
           /\ UNCHANGED <<intent, after>> => IntentTyped'
           /\ UNCHANGED attempt => AttemptTyped'
           /\ UNCHANGED <<active, starter, monitor>> => OthersTyped'
           /\ UNCHANGED flow => PcTyped' /\ IntentTyped' /\ AttemptTyped'
<1>1. Parts
  BY TypeParts
<1>2. UNCHANGED <<mem, stored>> => StateTyped'
  BY <1>1 DEF Parts, StateTyped
<1>3. UNCHANGED registry => MapsTyped'
  BY <1>1 DEF Parts, MapsTyped, registry
<1>4. UNCHANGED contexts => ContextsTyped'
  BY <1>1 DEF Parts, ContextsTyped, contexts
<1>5. UNCHANGED steps => StepsTyped'
  BY <1>1 DEF Parts, StepsTyped, steps
<1>6. UNCHANGED undoing => UndoingTyped'
  BY <1>1 DEF Parts, UndoingTyped, undoing
<1>7. UNCHANGED <<intent, after>> => IntentTyped'
  BY <1>1 DEF Parts, IntentTyped
<1>8. UNCHANGED attempt => AttemptTyped'
  BY <1>1 DEF Parts, AttemptTyped
<1>9. UNCHANGED <<active, starter, monitor>> => OthersTyped'
  BY <1>1 DEF Parts, OthersTyped
<1>10. UNCHANGED flow => PcTyped' /\ IntentTyped' /\ AttemptTyped'
  BY <1>1 DEF Parts, PcTyped, IntentTyped, AttemptTyped, flow
<1>11. QED
  BY <1>2, <1>3, <1>4, <1>5, <1>6, <1>7, <1>8, <1>9, <1>10

(* A worker that moves on stays at a place of the worker and moves nobody else. *)
LEMMA GotoWorker ==
    ASSUME TypeOK, NEW l \in WorkerLabels, Goto(Worker, l)
    PROVE  /\ PcTyped'
           /\ pc'[Worker] = l
           /\ \A b \in Actors \ {Worker} : pc'[b] = pc[b]
<1>1. PcTyped
  BY TypeParts DEF Parts
<1>2. QED
  BY <1>1 DEF PcTyped, Goto

(* A caller that moves on stays at a place of a caller and does not move the   *)
(* worker.                                                                     *)
LEMMA GotoCaller ==
    ASSUME TypeOK, NEW a \in Actors \ {Worker}, NEW l \in CallerLabels, Goto(a, l)
    PROVE  /\ PcTyped'
           /\ pc'[Worker] = pc[Worker]
           /\ pc'[a] = l
           /\ \A b \in Actors \ {a} : pc'[b] = pc[b]
<1>1. PcTyped
  BY TypeParts DEF Parts
<1>2. QED
  BY <1>1 DEF PcTyped, Goto

(* An undoer, worker or canceller, that moves on in compensateStep stays in it. *)
LEMMA GotoUndoer ==
    ASSUME TypeOK, NEW a \in Undoers, NEW l \in {"undo", "undoing", "compensating"},
           Goto(a, l)
    PROVE  /\ PcTyped'
           /\ pc'[a] = l
           /\ \A b \in Actors \ {a} : pc'[b] = pc[b]
<1>1. PcTyped
  BY TypeParts DEF Parts
<1>2. l \in WorkerLabels /\ l \in CallerLabels
  BY DEF WorkerLabels, CallerLabels
<1>3. QED
  BY <1>1, <1>2 DEF PcTyped, Goto

(* What SaveSaga and UpdateSagaState write is a state of a saga.               *)
LEMMA StoreTyped ==
    ASSUME TypeOK, NEW a \in Actors, Store(a)
    PROVE  /\ stored' \in SagaStates \cup {"none"}
           /\ stored' \in {mem, intent[a]}
BY DEF TypeOK, Store

(* cancelExecution leaves the two contexts well-typed.                         *)
LEMMA CancelTyped ==
    ASSUME TypeOK, cancelExecution
    PROVE  /\ execDone' \in BOOLEAN
           /\ ctx' \in {"live", "Canceled", "DeadlineExceeded"}
<1>1. CASE cancelFunc
  BY <1>1 DEF TypeOK, cancelExecution, CancelContext
<1>2. CASE ~cancelFunc
  BY <1>2 DEF TypeOK, cancelExecution, contexts
<1>3. QED
  BY <1>1, <1>2

(* SaveStepState keeps the slice of step states a sequence of steps.           *)
LEMMA SaveTyped ==
    ASSUME TypeOK, NEW i \in Steps, NEW c, SaveStepState(c, i)
    PROVE  saved' \in Seq(Steps)
<1>1. saved \in Seq(Steps) /\ Append(saved, i) \in Seq(Steps)
  BY SMT DEF TypeOK
<1>2. QED
  BY <1>1 DEF SaveStepState, Recorded

(* GetCompensationOrder of the first k steps lists exactly those steps.        *)
LEMMA OrderCovers ==
    ASSUME NEW k \in 0 .. N
    PROVE  LET o == GetCompensationOrder(k) IN
           /\ o \in Seq(Steps)
           /\ \A j \in 1 .. Len(o) : o[j] \in 1 .. k
           /\ \A i \in 1 .. k : \E j \in 1 .. Len(o) : o[j] = i
<1>1. CASE Reverse
  <2>1. GetCompensationOrder(k) = [i \in 1 .. k |-> k + 1 - i]
    BY <1>1 DEF GetCompensationOrder
  <2>2. \A i \in 1 .. k : k + 1 - i \in 1 .. k /\ k + 1 - (k + 1 - i) = i
    BY SMT
  <2>3. QED
    BY <2>1, <2>2, SMT
<1>2. CASE ~Reverse
  BY <1>2, SMT DEF GetCompensationOrder
<1>3. QED
  BY <1>1, <1>2

(* Taking the head off a sequence loses nothing but the head.                  *)
LEMMA HeadAndTail ==
    ASSUME NEW s \in Seq(Steps), s # <<>>
    PROVE  /\ Head(s) \in Steps /\ Head(s) = s[1] /\ Len(s) >= 1
           /\ Tail(s) \in Seq(Steps)
           /\ \A k \in 1 .. Len(Tail(s)) : k + 1 \in 1 .. Len(s) /\ Tail(s)[k] = s[k + 1]
           /\ \A k \in 1 .. Len(s) :
                  s[k] = Head(s) \/ \E j \in 1 .. Len(Tail(s)) : Tail(s)[j] = s[k]
<1>1. \A k \in 1 .. Len(Tail(s)) : k + 1 \in 1 .. Len(s) /\ Tail(s)[k] = s[k + 1]
  BY SMT
<1>2. /\ Head(s) \in Steps /\ Head(s) = s[1]
      /\ Len(s) \in Nat \ {0} /\ Len(Tail(s)) = Len(s) - 1
      /\ Tail(s) \in Seq(Steps)
  BY SMT
<1>3. ASSUME NEW k \in 1 .. Len(s), k # 1
      PROVE  \E j \in 1 .. Len(Tail(s)) : Tail(s)[j] = s[k]
  <2>1. k - 1 \in 1 .. Len(Tail(s)) /\ (k - 1) + 1 = k
    BY <1>2, <1>3, SMT
  <2>2. QED
    BY <2>1, <1>1
<1>4. QED
  BY <1>1, <1>2, <1>3, SMT

(* Giving one undoer a new list of steps leaves the others' lists alone.       *)
LEMMA SetTodo ==
    ASSUME TypeOK, NEW a \in Undoers, NEW o \in Seq(Steps),
           todo' = [todo EXCEPT ![a] = o]
    PROVE  /\ todo' \in [Undoers -> Seq(Steps)]
           /\ todo'[a] = o
           /\ \A b \in Undoers \ {a} : todo'[b] = todo[b]
BY DEF TypeOK

(* An undoer that is compensating has a step before it, and that step is done. *)
LEMMA NextToUndo ==
    ASSUME NEW alone \in BOOLEAN, IInv(alone),
           NEW a \in Undoers, pc[a] \in {"undoing", "compensating"} \/ todo[a] # <<>>
    PROVE  /\ todo[a] \in Seq(Steps) /\ todo[a] # <<>>
           /\ Head(todo[a]) \in Steps /\ Head(todo[a]) \in done
<1>1. todo[a] \in Seq(Steps) /\ todo[a] # <<>>
  BY DEF IInv, TypeOK, TodoDone
<1>2. Head(todo[a]) \in Steps /\ Head(todo[a]) = todo[a][1] /\ 1 \in 1 .. Len(todo[a])
  BY <1>1, HeadAndTail, SMT
<1>3. QED
  BY <1>1, <1>2 DEF IInv, TodoDone

-------------------------------------------------------------------------------
(* The invariant holds when nothing has happened yet.                          *)
LEMMA InitIInv ==
    ASSUME NEW alone \in BOOLEAN, Init
    PROVE  IInv(alone)
<1>1. TypeOK
  <2>1. pc \in [Actors -> WorkerLabels \cup CallerLabels]
    BY DEF Init, WorkerLabels
  <2>2. pc[Worker] \in WorkerLabels /\ \A a \in Actors \ {Worker} : pc[a] \in CallerLabels
    BY DEF Init, WorkerLabels, CallerLabels
  <2>3. saved \in Seq(Steps) /\ todo \in [Undoers -> Seq(Steps)]
    BY SMT DEF Init
  <2>4. intent \in [Actors -> SagaStates \cup {"live"}]
    BY DEF Init
  <2>5. /\ gaveUp \in [Undoers -> SUBSET Steps]
        /\ given \in [Undoers -> Steps \cup {None}]
        /\ attempt \in [Undoers -> 0 .. MaxAttempts]
    BY SMT DEF Init
  <2>6. mem \in SagaStates /\ stored \in SagaStates \cup {"none"}
    BY DEF Init, SagaStates
  <2>7. completedSteps \in 0 .. N /\ step \in 1 .. N + 1 /\ active \in Int
    BY SMT DEF Init
  <2>8. QED
    BY <2>1, <2>2, <2>3, <2>4, <2>5, <2>6, <2>7 DEF Init, TypeOK
<1>2. Attempts /\ Unstarted /\ TodoDone /\ Cover(alone)
  BY SMT DEF Init, Attempts, Unstarted, TodoDone, Cover, WorkerAt
<1>3. Position(alone) /\ undone \subseteq done
  <2>1. 1 .. 0 = {}
    BY SMT
  <2>2. QED
    BY <2>1, SMT DEF Init, Position, Reached, WorkerAt
<1>4. Claims(alone)
  BY DEF Init, Claims, Claim, WorkOver
<1>5. QED
  BY <1>1, <1>2, <1>3, <1>4 DEF IInv

-------------------------------------------------------------------------------
(* What is written already, what an actor is about to write, and what claims   *)
(* nothing                                                                     *)
Harmless(s) ==
    \/ s \notin {"Completed", "Compensated"}
    \/ s \in {mem, stored}
    \/ \E a \in Actors : s = intent[a]

(* The claims stay true if only harmless states are written, no step is undone *)
(* or done that was not, and the worker does not take up work again.           *)
LEMMA ClaimsKept ==
    ASSUME NEW alone \in BOOLEAN, IInv(alone), UNCHANGED <<done, undone>>,
           WorkOver => WorkOver',
           Harmless(mem'), Harmless(stored'), \A a \in Actors : Harmless(intent'[a])
    PROVE  Claims(alone)'
<1>1. ASSUME NEW s, Harmless(s)
      PROVE  /\ s = "Completed" => done' = Steps
             /\ alone /\ s = "Compensated" => undone' = done' /\ WorkOver'
  <2>1. Claim(alone, s) \/ s \notin {"Completed", "Compensated"}
    BY <1>1 DEF Harmless, IInv, Claims
  <2>2. QED
    BY <2>1 DEF Claim
<1>2. QED
  BY <1>1 DEF Claims, Claim

(* A worker that moves to a place outside compensation keeps what is said of   *)
(* the lists of steps to compensate.                                           *)
LEMMA WorkerFrame ==
    ASSUME NEW alone \in BOOLEAN, IInv(alone),
           NEW l \in WorkerLabels \ {"undo", "undoing", "compensating"},
           Goto(Worker, l), pc[Worker] # "idle",
           UNCHANGED <<undoing, starter>>, done \subseteq done',
           \A b \in Undoers \ {Worker} : attempt'[b] = attempt[b],
           l = "trying" => attempt'[Worker] < MaxAttempts
    PROVE  /\ PcTyped' /\ pc'[Worker] = l
           /\ Attempts' /\ Unstarted' /\ undone' \subseteq done' /\ TodoDone' /\ Cover(alone)'
<1>1. PcTyped' /\ pc'[Worker] = l /\ \A b \in Actors \ {Worker} : pc'[b] = pc[b]
  BY GotoWorker DEF IInv
<1>2. Attempts'
  BY <1>1 DEF IInv, Attempts
<1>3. Unstarted'
  BY DEF IInv, Unstarted, WorkerAt
<1>4. undone' \subseteq done' /\ todo' = todo
  BY DEF IInv, undoing
<1>5. TodoDone'
  BY <1>1, <1>4 DEF IInv, TodoDone
<1>6. Cover(alone)'
  BY <1>1 DEF Cover
<1>7. QED
  BY <1>1, <1>2, <1>3, <1>4, <1>5, <1>6

(* The worker sets and stores a new state (updateSagaState and its kin) while  *)
(* it still has work: the invariant is kept if the state is true.              *)
LEMMA UpdateStateStep ==
    ASSUME NEW alone \in BOOLEAN, IInv(alone),
           NEW s \in SagaStates, NEW w \in {s, "live"}, NEW background \in BOOLEAN,
           NEW l \in {"loop", "decide", "retire", "returning"},
           UpdateState(s, w, background, l),
           pc[Worker] # "idle", ~WorkOver,
           UNCHANGED <<stored, registry, contexts, active, done, undoing, attempt, starter>>,
           StepsTyped', monitor' \in {monitor, "watching"},
           /\ completedSteps' = step' - 1
           /\ Reached(alone, done', completedSteps'),
           s = "Completed" => done = Steps,
           alone /\ s = "Compensated" => undone = done /\ l \in {"retire", "returning"}
    PROVE  IInv(alone)'
<1> DEFINE p == IF background THEN "write" ELSE "persist"
<1>1. p \in {"write", "persist"} /\ Goto(Worker, p)
  BY DEF UpdateState
<1> HIDE DEF p
<1>2. p \in WorkerLabels \ {"undo", "undoing", "compensating"}
  BY <1>1 DEF WorkerLabels
<1>3. mem' = s /\ intent' = [intent EXCEPT ![Worker] = w] /\ after' = l
  BY DEF UpdateState
<1>4. /\ PcTyped' /\ pc'[Worker] = p
      /\ Attempts' /\ Unstarted' /\ undone' \subseteq done' /\ TodoDone' /\ Cover(alone)'
  <2>1. p # "trying" /\ done \subseteq done' /\ attempt' = attempt
    BY <1>1
  <2>2. QED
    BY <1>1, <1>2, <2>1, WorkerFrame
<1>5. Position(alone)'
  BY <1>1, <1>4 DEF Position, WorkerAt
<1>6. Parts
  BY TypeParts DEF IInv
<1>7. TypeOK'
  <2>1. StateTyped' /\ IntentTyped'
    BY <1>3, <1>6 DEF Parts, StateTyped, IntentTyped
  <2>2. OthersTyped'
    BY <1>6 DEF Parts, OthersTyped
  <2>3. MapsTyped' /\ ContextsTyped' /\ UndoingTyped' /\ AttemptTyped'
    BY KeepTypes DEF IInv
  <2>4. QED
    BY <1>4, <2>1, <2>2, <2>3, TypeParts DEF Parts
<1>8. Claims(alone)'
  <2>1. l \in {"retire", "returning"} => WorkOver'
    BY <1>1, <1>3, <1>4 DEF WorkOver
  <2>2. undone' = undone
    BY DEF undoing
  <2>3. /\ s = "Completed" => done' = Steps
        /\ alone /\ s = "Compensated" => undone' = done' /\ WorkOver'
    BY <2>1, <2>2
  <2>4. ASSUME NEW x, Claim(alone, x)
        PROVE  /\ x = "Completed" => done' = Steps
               /\ alone /\ x = "Compensated" => undone' = done' /\ WorkOver'
    BY <2>4 DEF Claim
  <2>5. Claim(alone, mem)'
    BY <1>3, <2>3 DEF Claim
  <2>6. Claim(alone, stored)'
    BY <2>4 DEF IInv, Claims, Claim
  <2>7. ASSUME NEW a \in Actors PROVE Claim(alone, intent[a])'
    <3>1. intent'[a] = intent[a] \/ intent'[a] = s \/ intent'[a] = "live"
      BY <1>3, <1>6 DEF Parts, IntentTyped
    <3>2. QED
      BY <3>1, <2>3, <2>4 DEF IInv, Claims, Claim
  <2>8. QED
    BY <2>5, <2>6, <2>7 DEF Claims
<1>9. QED
  BY <1>4, <1>5, <1>7, <1>8 DEF IInv

(* The worker moves on without setting a state: the invariant is kept if the   *)
(* position is right and the work that was over stays over.                    *)
LEMMA WorkerMoves ==
    ASSUME NEW alone \in BOOLEAN, IInv(alone),
           NEW l \in WorkerLabels \ {"undo", "undoing", "compensating"},
           Goto(Worker, l), pc[Worker] # "idle",
           UNCHANGED <<mem, registry, undoing, intent, after, starter, monitor>>,
           Harmless(stored'), stored' \in SagaStates \cup {"none"},
           ContextsTyped', active' \in Int, StepsTyped', AttemptTyped',
           \A b \in Undoers \ {Worker} : attempt'[b] = attempt[b],
           l = "trying" => attempt'[Worker] < MaxAttempts,
           done \subseteq done',
           WorkOver => /\ done' = done
                       /\ \/ l \in {"retire", "returning", "ended"}
                          \/ l = "write" /\ after \in {"retire", "returning"},
           /\ completedSteps' = IF l = "counted" THEN step' ELSE step' - 1
           /\ Reached(alone, done', IF l = "counting" THEN step' ELSE completedSteps')
           /\ l \in {"trying", "running", "failed", "counting", "counted"} => step' <= N
    PROVE  IInv(alone)'
<1>1. /\ PcTyped' /\ pc'[Worker] = l
      /\ Attempts' /\ Unstarted' /\ undone' \subseteq done' /\ TodoDone' /\ Cover(alone)'
  BY WorkerFrame
<1>2. Position(alone)'
  BY <1>1 DEF Position, WorkerAt
<1>3. TypeOK'
  <2>1. StateTyped' /\ OthersTyped'
    BY TypeParts DEF IInv, Parts, StateTyped, OthersTyped
  <2>2. MapsTyped' /\ UndoingTyped' /\ IntentTyped'
    BY KeepTypes DEF IInv
  <2>3. QED
    BY <1>1, <2>1, <2>2, TypeParts DEF Parts
<1>4. Claims(alone)'
  <2>1. WorkOver => WorkOver'
    BY <1>1 DEF WorkOver
  <2>2. undone' = undone /\ done' \subseteq Steps
    BY Zenon DEF undoing, StepsTyped
  <2>3. ASSUME NEW s, Harmless(s)
        PROVE  /\ s = "Completed" => done' = Steps
               /\ alone /\ s = "Compensated" => undone' = done' /\ WorkOver'
    <3>1. Claim(alone, s) \/ s \notin {"Completed", "Compensated"}
      BY <2>3 DEF Harmless, IInv, Claims
    <3>2. QED
      BY <2>1, <2>2, <3>1 DEF Claim
  <2>4. Harmless(mem') /\ \A a \in Actors : Harmless(intent'[a])
    BY DEF Harmless
  <2>5. QED
    BY <2>3, <2>4 DEF Claims, Claim
<1>5. QED
  BY <1>1, <1>2, <1>3, <1>4 DEF IInv

(* An undoer, the worker or a canceller that races with it, moves inside       *)
(* compensateStep: the invariant is kept if the lists of steps are right.      *)
LEMMA UndoerMoves ==
    ASSUME NEW alone \in BOOLEAN, IInv(alone),
           NEW a \in Undoers, NEW l \in {"undo", "undoing", "compensating"},
           pc[a] \in {"undo", "undoing", "compensating"}, Goto(a, l),
           UNCHANGED <<mem, stored, registry, contexts, active, completedSteps, done, step,
                       intent, after, starter, monitor>>,
           undone \subseteq undone', undone' \subseteq done,
           StepsTyped', UndoingTyped', AttemptTyped',
           \A b \in Undoers \ {a} : attempt'[b] = attempt[b],
           l = "undoing" => attempt'[a] < MaxAttempts,
           TodoDone', Cover(alone)'
    PROVE  IInv(alone)'
<1>1. PcTyped' /\ pc'[a] = l /\ \A b \in Actors \ {a} : pc'[b] = pc[b]
  BY GotoUndoer DEF IInv
<1>2. \/ pc'[Worker] = pc[Worker]
      \/ /\ pc[Worker] \in {"undo", "undoing", "compensating"}
         /\ pc'[Worker] \in {"undo", "undoing", "compensating"}
  BY <1>1
<1>3. Unstarted' /\ Position(alone)' /\ undone' \subseteq done'
  BY <1>2 DEF IInv, Unstarted, Position, WorkerAt
<1>4. Attempts'
  BY <1>1 DEF IInv, Attempts
<1>5. Claims(alone)'
  <2>1. WorkOver => WorkOver'
    BY <1>2 DEF WorkOver
  <2>2. ASSUME NEW s, Claim(alone, s)
        PROVE  /\ s = "Completed" => done' = Steps
               /\ alone /\ s = "Compensated" => undone' = done' /\ WorkOver'
    BY <2>1, <2>2 DEF Claim
  <2>3. QED
    BY <2>2, SMTT(20) DEF IInv, Claims, Claim
<1>6. TypeOK'
  <2>1. StateTyped' /\ MapsTyped' /\ ContextsTyped' /\ IntentTyped' /\ OthersTyped'
    BY KeepTypes DEF IInv
  <2>2. QED
    BY <1>1, <2>1, TypeParts DEF Parts
<1>7. QED
  BY <1>3, <1>4, <1>5, <1>6 DEF IInv

(* Whoever leaves the steps and the lists alone, moves neither the worker nor  *)
(* an undoer into compensateStep, and writes only harmless states keeps the    *)
(* invariant.                                                                  *)
LEMMA OutsiderMoves ==
    ASSUME NEW alone \in BOOLEAN, IInv(alone), PcTyped', pc'[Worker] = pc[Worker],
           \A b \in Undoers : pc'[b] \in {"trying", "undoing", "compensating"} => pc'[b] = pc[b],
           UNCHANGED <<steps, undoing, after, attempt>>, Unstarted',
           Harmless(mem'), Harmless(stored'), \A a \in Actors : Harmless(intent'[a]),
           StateTyped', MapsTyped', ContextsTyped', IntentTyped', OthersTyped'
    PROVE  IInv(alone)'
<1>1. Attempts' /\ Position(alone)' /\ undone' \subseteq done'
  BY DEF IInv, Attempts, Position, WorkerAt, steps, undoing
<1>2. TodoDone' /\ Cover(alone)'
  BY DEF IInv, TodoDone, Cover, steps, undoing
<1>3. UNCHANGED <<done, undone>> /\ (WorkOver => WorkOver')
  BY DEF WorkOver, steps, undoing
<1>4. Claims(alone)'
  BY <1>3, ClaimsKept
<1>5. TypeOK'
  <2>1. StepsTyped' /\ UndoingTyped' /\ AttemptTyped'
    BY KeepTypes DEF IInv
  <2>2. QED
    BY <2>1, TypeParts DEF Parts
<1>6. QED
  BY <1>1, <1>2, <1>4, <1>5 DEF IInv

(* A caller of CancelSaga or StopSaga that moves outside compensateStep        *)
LEMMA CallerMoves ==
    ASSUME NEW alone \in BOOLEAN, IInv(alone),
           NEW c \in Actors \ {Worker},
           NEW l \in CallerLabels \ {"undoing", "compensating"}, Goto(c, l),
           UNCHANGED <<steps, undoing, after, attempt, starter, monitor>>, active' \in Int,
           Harmless(mem'), Harmless(stored'), \A a \in Actors : Harmless(intent'[a]),
           StateTyped', MapsTyped', ContextsTyped', IntentTyped'
    PROVE  IInv(alone)'
<1>1. /\ PcTyped' /\ pc'[Worker] = pc[Worker] /\ pc'[c] = l
      /\ \A b \in Actors \ {c} : pc'[b] = pc[b]
  BY GotoCaller DEF IInv
<1>2. \A b \in Undoers : pc'[b] \in {"trying", "undoing", "compensating"} => pc'[b] = pc[b]
  BY <1>1 DEF CallerLabels
<1>3. Unstarted'
  BY <1>1 DEF IInv, Unstarted, WorkerAt
<1>4. OthersTyped'
  BY TypeParts DEF IInv, Parts, OthersTyped
<1>5. QED
  BY <1>1, <1>2, <1>3, <1>4, OutsiderMoves

(* An action that moves nobody                                                 *)
LEMMA NobodyMoves ==
    ASSUME NEW alone \in BOOLEAN, IInv(alone), UNCHANGED <<steps, undoing, flow>>, Unstarted',
           Harmless(mem'), Harmless(stored'),
           StateTyped', MapsTyped', ContextsTyped', OthersTyped'
    PROVE  IInv(alone)'
<1>1. PcTyped' /\ IntentTyped'
  BY KeepTypes DEF IInv
<1>2. UNCHANGED <<pc, intent, after, attempt>>
  BY DEF flow
<1>3. \A a \in Actors : Harmless(intent'[a])
  BY <1>2 DEF Harmless
<1>4. QED
  BY <1>1, <1>2, <1>3, OutsiderMoves

(* Taking the step at hand off an undoer's list, once it is undone or given    *)
(* up by that undoer, keeps the lists right.                                   *)
LEMMA PopTodo ==
    ASSUME NEW alone \in BOOLEAN, IInv(alone),
           NEW a \in Undoers, pc[a] = "compensating",
           todo' = [todo EXCEPT ![a] = Tail(@)],
           pc'[a] = "undo", \A b \in Actors \ {a} : pc'[b] = pc[b],
           done' = done,
           undone \subseteq undone', \A b \in Undoers : gaveUp[b] \subseteq gaveUp'[b],
           Head(todo[a]) \in undone' \cup gaveUp'[a]
    PROVE  /\ todo' \in [Undoers -> Seq(Steps)]
           /\ TodoDone' /\ Cover(alone)'
<1> DEFINE s == todo[a]
<1>1. s \in Seq(Steps) /\ s # <<>>
  BY NextToUndo
<1>2. /\ Tail(s) \in Seq(Steps)
      /\ \A k \in 1 .. Len(Tail(s)) : k + 1 \in 1 .. Len(s) /\ Tail(s)[k] = s[k + 1]
      /\ \A k \in 1 .. Len(s) :
             s[k] = Head(s) \/ \E j \in 1 .. Len(Tail(s)) : Tail(s)[j] = s[k]
  BY <1>1, HeadAndTail
<1> DEFINE t == Tail(s)
<1>3. todo' = [todo EXCEPT ![a] = t]
  OBVIOUS
<1> HIDE DEF t
<1>4. /\ todo' \in [Undoers -> Seq(Steps)]
      /\ todo'[a] = t
      /\ \A b \in Undoers \ {a} : todo'[b] = todo[b]
  BY <1>2, <1>3, SetTodo DEF IInv, t
<1>5. \A k \in 1 .. Len(t) : t[k] \in done
  BY <1>2 DEF IInv, TodoDone, t
<1>6. TodoDone'
  BY <1>4, <1>5 DEF IInv, TodoDone
<1>7. Cover(alone)'
  <2>1. CASE a = Worker
    <3>1. ASSUME alone, NEW i \in done
          PROVE  \/ i \in undone' \cup gaveUp'[Worker]
                 \/ \E j \in 1 .. Len(t) : t[j] = i
      <4>1. i \in undone \cup gaveUp[a] \/ \E k \in 1 .. Len(s) : s[k] = i
        BY <2>1, <3>1 DEF IInv, Cover
      <4>2. CASE i \in undone \cup gaveUp[a]
        BY <2>1, <4>2
      <4>3. CASE \E k \in 1 .. Len(s) : s[k] = i
        <5>1. i = Head(s) \/ \E j \in 1 .. Len(t) : t[j] = i
          BY <4>3, <1>2 DEF t
        <5>2. QED
          BY <2>1, <5>1
      <4>4. QED
        BY <4>1, <4>2, <4>3
    <3>2. todo'[Worker] = t
      BY <2>1, <1>4
    <3>3. QED
      BY <3>1, <3>2 DEF Cover
  <2>2. CASE a # Worker
    <3>1. pc'[Worker] = pc[Worker] /\ todo'[Worker] = todo[Worker] /\ Worker \in Undoers
      BY <2>2, <1>4
    <3>2. gaveUp[Worker] \subseteq gaveUp'[Worker]
      OBVIOUS
    <3>3. QED
      BY <3>1, <3>2, SMT DEF IInv, Cover
  <2>3. QED
    BY <2>1, <2>2
<1>8. QED
  BY <1>4, <1>6, <1>7

-------------------------------------------------------------------------------
(* The steps of the worker outside compensateStep *)

(* The handlers that set a new state are such steps.                           *)
LEMMA UpdatingStep ==
    ASSUME NEW alone \in BOOLEAN, IInv(alone),
           \/ BeginSaga \/ StepsInterrupted \/ handleSagaCompletion \/ MarkStepCompleted
           \/ handleStepFailure \/ handleCompensationSkipped \/ CompensationInterrupted
           \/ handleCompensationFailure \/ handleCompensationCompletion
    PROVE  IInv(alone)'
<1>0. /\ TRUE \in BOOLEAN /\ FALSE \in BOOLEAN
      /\ {"Running", "StepCompleted", "Completed", "Compensating", "Compensated", "Failed",
          "Cancelled"} \subseteq SagaStates
  BY DEF SagaStates
<1>1. pc[Worker] \notin {"idle", "counting", "counted", "retire", "returning", "ended",
                         "persist", "write"}
         => /\ pc[Worker] # "idle" /\ ~WorkOver
            /\ completedSteps = step - 1 /\ Reached(alone, done, completedSteps)
  BY DEF IInv, Position, WorkerAt, WorkOver
<1>2. UNCHANGED steps => StepsTyped'
  BY KeepTypes DEF IInv
<1>3. CASE BeginSaga
  BY <1>0, <1>1, <1>2, <1>3, UpdateStateStep
     DEF BeginSaga, updateSagaState, WorkerAt, steps
<1>4. CASE StepsInterrupted
  BY <1>0, <1>1, <1>2, <1>4, UpdateStateStep
     DEF StepsInterrupted, handleContextCancellation, WorkerAt, steps
<1>5. CASE handleSagaCompletion
  <2>1. done = Steps
    <3>1. step > N /\ completedSteps = step - 1 /\ 1 .. completedSteps \subseteq done
      BY <1>1, <1>5 DEF handleSagaCompletion, WorkerAt, Reached
    <3>2. step \in 1 .. N + 1 /\ done \subseteq Steps
      BY DEF IInv, TypeOK
    <3>3. completedSteps = N
      BY <3>1, <3>2, SMT
    <3>4. QED
      BY <3>1, <3>2, <3>3
  <2>2. /\ pc[Worker] = "loop" /\ UpdateState("Completed", "live", FALSE, "retire")
        /\ UNCHANGED steps /\ monitor' = monitor
        /\ UNCHANGED <<stored, registry, contexts, active, undoing, attempt, starter>>
    BY <1>5 DEF handleSagaCompletion, WorkerAt
  <2>3. /\ completedSteps' = step' - 1 /\ Reached(alone, done', completedSteps')
        /\ done' = done /\ pc[Worker] # "idle" /\ ~WorkOver
    BY <1>1, <2>2 DEF steps
  <2>4. QED
    BY <1>0, <1>2, <2>1, <2>2, <2>3, UpdateStateStep
<1>6. CASE MarkStepCompleted
  <2>1. /\ pc[Worker] = "counted" /\ step' = step + 1
        /\ UNCHANGED <<completedSteps, saved, blank, done>>
        /\ updateSagaState("StepCompleted", "loop")
        /\ UNCHANGED <<stored, registry, contexts, active, undoing, attempt, starter, monitor>>
    BY <1>6 DEF MarkStepCompleted, WorkerAt
  <2>2. completedSteps = step /\ Reached(alone, done, completedSteps) /\ step \in 1 .. N
    BY <2>1, SMT DEF IInv, TypeOK, Position, WorkerAt
  <2>3. StepsTyped'
    <3>1. StepsTyped
      BY TypeParts DEF IInv, Parts
    <3>2. QED
      BY <2>1, <2>2, <3>1, SMT DEF StepsTyped
  <2>4. ~WorkOver
    BY <2>1 DEF WorkOver
  <2>5. completedSteps' = step' - 1 /\ Reached(alone, done', completedSteps')
    BY <2>1, <2>2, SMT
  <2>6. QED
    BY <1>0, <2>1, <2>3, <2>4, <2>5, UpdateStateStep DEF updateSagaState
<1>7. CASE handleStepFailure
  <2>1. pc[Worker] = "failed" /\ step \in Steps
    BY <1>7, SMT DEF handleStepFailure, WorkerAt, IInv, TypeOK, Position
  <2>2. saved' \in Seq(Steps)
    BY <1>7, <2>1, SaveTyped DEF handleStepFailure, IInv
  <2>3. StepsTyped'
    <3>1. StepsTyped
      BY TypeParts DEF IInv, Parts
    <3>2. QED
      BY <1>7, <2>2, <3>1 DEF StepsTyped, handleStepFailure
  <2>4. \/ UpdateState("Compensating", "Compensating", FALSE, "decide")
        \/ UpdateState("Failed", "Failed", FALSE, "retire")
    BY <1>7 DEF handleStepFailure, updateSagaState
  <2>5. QED
    BY <1>0, <1>1, <1>7, <2>1, <2>3, <2>4, UpdateStateStep DEF handleStepFailure
<1>8. CASE handleCompensationSkipped
  BY <1>0, <1>1, <1>2, <1>8, UpdateStateStep
     DEF handleCompensationSkipped, updateSagaState, WorkerAt, steps
<1>9. CASE CompensationInterrupted
  BY <1>0, <1>1, <1>2, <1>9, UpdateStateStep
     DEF CompensationInterrupted, handleContextCancellation, WorkerAt, steps
<1>10. CASE handleCompensationFailure
  BY <1>0, <1>1, <1>2, <1>10, UpdateStateStep
     DEF handleCompensationFailure, updateSagaState, WorkerAt, steps
<1>11. CASE handleCompensationCompletion
  (* Nothing is left to undo and nothing was given up: everything is undone. *)
  <2>1. todo[Worker] = <<>> /\ gaveUp[Worker] = {} /\ pc[Worker] = "undo"
    BY <1>11 DEF handleCompensationCompletion, WorkerAt
  <2>2. ~ \E k \in 1 .. Len(todo[Worker]) : TRUE
    BY <2>1, SMT
  <2>3. alone => undone = done
    BY <2>1, <2>2 DEF IInv, Cover
  <2>4. QED
    BY <1>0, <1>1, <1>2, <1>11, <2>1, <2>3, UpdateStateStep
       DEF handleCompensationCompletion, steps
<1>12. QED
  BY <1>3, <1>4, <1>5, <1>6, <1>7, <1>8, <1>9, <1>10, <1>11

(* The worker moves on without a new state: writing to the storage, attempts,  *)
(* counting and leaving keep the invariant.                                    *)
LEMMA MovingStep ==
    ASSUME NEW alone \in BOOLEAN, IInv(alone),
           \/ PersistCheck \/ PersistWrite \/ TakeTask \/ BeginStep \/ TryStep \/ StepSucceeds
           \/ StepFails \/ incrementCompletedSteps \/ RetireSaga \/ EndTask
    PROVE  IInv(alone)'
<1>0. /\ Parts /\ Worker \in Undoers /\ Worker \in Actors
      /\ after \in {"loop", "decide", "retire", "returning"}
      /\ {"persist", "write", "loop", "decide", "retire", "returning", "queued", "starting",
          "ended", "trying", "running", "failed", "counting", "counted"}
            \subseteq WorkerLabels \ {"undo", "undoing", "compensating"}
  BY TypeParts DEF IInv, Parts, IntentTyped, WorkerLabels
<1>1. Harmless(stored) /\ stored \in SagaStates \cup {"none"} /\ active \in Int
  BY <1>0 DEF Harmless, Parts, StateTyped, OthersTyped
<1>2. /\ UNCHANGED contexts => ContextsTyped'
      /\ UNCHANGED steps => StepsTyped'
      /\ UNCHANGED attempt => AttemptTyped'
  BY KeepTypes DEF IInv
<1>3. CASE PersistCheck
  <2>1. PICK l \in {"write", "loop", "decide", "retire", "returning"} :
            Goto(Worker, l) /\ l \in {"write", after}
    BY <1>0, <1>3 DEF PersistCheck
  <2>2. completedSteps = step - 1 /\ Reached(alone, done, completedSteps)
    BY <1>3 DEF PersistCheck, IInv, Position, WorkerAt
  <2>3. WorkOver => after \in {"retire", "returning"}
    BY <1>3 DEF PersistCheck, WorkOver, WorkerAt
  <2>4. QED
    BY <1>0, <1>1, <1>2, <1>3, <2>1, <2>2, <2>3, WorkerMoves
       DEF PersistCheck, WorkerAt, steps
<1>4. CASE PersistWrite
  <2>1. completedSteps = step - 1 /\ Reached(alone, done, completedSteps)
    BY <1>4 DEF PersistWrite, IInv, Position, WorkerAt
  <2>2. WorkOver => after \in {"retire", "returning"}
    BY <1>4 DEF PersistWrite, WorkOver, WorkerAt
  <2>3. stored' \in SagaStates \cup {"none"} /\ Harmless(stored')
    BY <1>0, <1>1, <1>4, StoreTyped DEF PersistWrite, IInv, Harmless
  <2>4. QED
    BY <1>0, <1>1, <1>2, <1>4, <2>1, <2>2, <2>3, WorkerMoves
       DEF PersistWrite, WorkerAt, steps
<1>5. CASE TakeTask
  <2>1. PICK l \in {"starting", "ended"} : Goto(Worker, l)
    BY <1>5 DEF TakeTask
  <2>2. completedSteps = step - 1 /\ Reached(alone, done, completedSteps) /\ ~WorkOver
    BY <1>5 DEF TakeTask, IInv, Position, WorkOver, WorkerAt
  <2>3. QED
    BY <1>0, <1>1, <1>2, <1>5, <2>1, <2>2, WorkerMoves DEF TakeTask, WorkerAt, steps
<1>6. CASE BeginStep
  <2>1. pc[Worker] = "loop" /\ step \in Steps /\ step <= N /\ SaveStepState(ctx, step)
        /\ completedSteps = step - 1 /\ Reached(alone, done, completedSteps) /\ ~WorkOver
    BY <1>0, <1>6, SMT DEF BeginStep, WorkerAt, Parts, StepsTyped, IInv, Position, WorkOver
  <2>2. AttemptTyped' /\ attempt'[Worker] < MaxAttempts
        /\ \A b \in Undoers \ {Worker} : attempt'[b] = attempt[b]
    BY <1>0, <1>6, SMT DEF BeginStep, Parts, AttemptTyped
  <2>3. StepsTyped'
    BY <1>0, <1>6, <2>1, SaveTyped DEF BeginStep, IInv, Parts, StepsTyped
  <2>4. QED
    BY <1>0, <1>1, <1>2, <1>6, <2>1, <2>2, <2>3, WorkerMoves DEF BeginStep
<1>7. CASE TryStep
  <2>1. pc[Worker] = "trying" /\ step \in Steps /\ step <= N /\ attempt[Worker] < MaxAttempts
        /\ completedSteps = step - 1 /\ Reached(alone, done, completedSteps) /\ ~WorkOver
    BY <1>0, <1>7, SMT
       DEF TryStep, WorkerAt, Parts, StepsTyped, IInv, Position, Attempts, WorkOver
  <2>2. AttemptTyped' /\ \A b \in Undoers \ {Worker} : attempt'[b] = attempt[b]
    BY <1>0, <1>7, <2>1, SMT DEF TryStep, Parts, AttemptTyped
  <2>3. PICK l \in {"running", "failed"} : Goto(Worker, l)
    BY <1>7 DEF TryStep
  <2>4. StepsTyped'
    BY <1>0, <1>7, <2>1, SaveTyped DEF TryStep, IInv, Parts, StepsTyped
  <2>5. QED
    BY <1>0, <1>1, <1>2, <1>7, <2>1, <2>2, <2>3, <2>4, WorkerMoves DEF TryStep
<1>8. CASE StepSucceeds
  <2>1. pc[Worker] = "running" /\ step \in Steps /\ step <= N /\ SaveStepState(ctx, step)
        /\ completedSteps = step - 1 /\ Reached(alone, done, completedSteps) /\ ~WorkOver
    BY <1>0, <1>8, SMT DEF StepSucceeds, WorkerAt, Parts, StepsTyped, IInv, Position, WorkOver
  <2>2. done' = done \cup {step} /\ Reached(alone, done', step)
    <3>1. done' = done \cup {step} /\ Reached(alone, done, step - 1) /\ step \in 1 .. N
      BY <1>8, <2>1 DEF StepSucceeds
    <3>2. (1 .. (step - 1)) \cup {step} = 1 .. step
      BY <3>1, SMT
    <3>3. QED
      BY <3>1, <3>2 DEF Reached
  <2>3. StepsTyped'
    BY <1>0, <1>8, <2>1, <2>2, SaveTyped DEF StepSucceeds, IInv, Parts, StepsTyped
  <2>4. QED
    BY <1>0, <1>1, <1>2, <1>8, <2>1, <2>2, <2>3, WorkerMoves DEF StepSucceeds
<1>9. CASE StepFails
  <2>1. pc[Worker] = "running" /\ step \in Steps /\ step <= N /\ SaveStepState(ctx, step)
        /\ completedSteps = step - 1 /\ Reached(alone, done, completedSteps) /\ ~WorkOver
    BY <1>0, <1>9, SMT DEF StepFails, WorkerAt, Parts, StepsTyped, IInv, Position, WorkOver
  <2>2. PICK l \in {"trying", "failed"} :
            Goto(Worker, l) /\ (l = "trying" => attempt'[Worker] < MaxAttempts)
    BY <1>9 DEF StepFails
  <2>3. StepsTyped'
    BY <1>0, <1>9, <2>1, SaveTyped DEF StepFails, IInv, Parts, StepsTyped
  <2>4. QED
    BY <1>0, <1>1, <1>2, <1>9, <2>1, <2>2, <2>3, WorkerMoves DEF StepFails
<1>10. CASE incrementCompletedSteps
  <2>1. pc[Worker] = "counting" /\ step \in Steps /\ step <= N
        /\ completedSteps = step - 1 /\ Reached(alone, done, step) /\ ~WorkOver
    BY <1>0, <1>10, SMT
       DEF incrementCompletedSteps, WorkerAt, Parts, StepsTyped, IInv, Position, WorkOver
  <2>2. StepsTyped' /\ completedSteps' = step
    BY <1>0, <1>10, <2>1, SMT DEF incrementCompletedSteps, Parts, StepsTyped
  <2>3. QED
    BY <1>0, <1>1, <1>2, <1>10, <2>1, <2>2, WorkerMoves DEF incrementCompletedSteps
<1>11. CASE RetireSaga
  <2>1. /\ pc[Worker] = "retire"
        /\ completedSteps = step - 1 /\ Reached(alone, done, completedSteps)
    BY <1>11 DEF RetireSaga, WorkerAt, IInv, Position
  <2>2. /\ Goto(Worker, "returning") /\ active' = active - 1
        /\ UNCHANGED <<mem, stored, registry, contexts, steps, undoing, intent, after,
                       attempt, starter, monitor, completedSteps, done, step>>
    BY <1>11 DEF RetireSaga, steps
  <2>3. QED
    BY <1>0, <1>1, <1>2, <2>1, <2>2, WorkerMoves, SMT
<1>12. CASE EndTask
  <2>1. /\ pc[Worker] = "returning"
        /\ completedSteps = step - 1 /\ Reached(alone, done, completedSteps)
    BY <1>12 DEF EndTask, WorkerAt, IInv, Position
  <2>2. ContextsTyped'
    BY <1>0, <1>12 DEF EndTask, Parts, ContextsTyped
  <2>3. /\ Goto(Worker, "ended")
        /\ UNCHANGED <<mem, stored, registry, active, steps, undoing, intent, after,
                       attempt, starter, monitor, completedSteps, done, step>>
    BY <1>12 DEF EndTask, steps
  <2>4. QED
    BY <1>0, <1>1, <1>2, <2>1, <2>2, <2>3, WorkerMoves
<1>13. QED
  BY <1>3, <1>4, <1>5, <1>6, <1>7, <1>8, <1>9, <1>10, <1>11, <1>12

(* The worker turns back with the steps before the failed one, which are all   *)
(* the steps done: the invariant is kept.                                      *)
LEMMA BeginCompensationStep ==
    ASSUME NEW alone \in BOOLEAN, IInv(alone), BeginCompensation
    PROVE  IInv(alone)'
<1> DEFINE o == GetCompensationOrder(step - 1)
<1>1. step - 1 \in 0 .. N /\ Reached(alone, done, step - 1)
  BY DEF IInv, TypeOK, Position, BeginCompensation, WorkerAt
<1>2. /\ o \in Seq(Steps)
      /\ \A j \in 1 .. Len(o) : o[j] \in done
      /\ alone => \A i \in done : \E j \in 1 .. Len(o) : o[j] = i
  BY <1>1, OrderCovers DEF Reached
<1>3. todo' = [todo EXCEPT ![Worker] = o] /\ Worker \in Undoers
  BY DEF BeginCompensation
<1> HIDE DEF o
<1>4. /\ todo' \in [Undoers -> Seq(Steps)]
      /\ todo'[Worker] = o
      /\ \A b \in Undoers \ {Worker} : todo'[b] = todo[b]
  BY <1>2, <1>3, SetTodo DEF IInv
<1>5. TypeOK'
  <2>1. PcTyped'
    BY GotoUndoer DEF IInv, BeginCompensation
  <2>2. UndoingTyped'
    BY <1>4, TypeParts DEF IInv, Parts, UndoingTyped, BeginCompensation
  <2>3. StateTyped' /\ MapsTyped' /\ ContextsTyped' /\ StepsTyped' /\ IntentTyped'
        /\ AttemptTyped' /\ OthersTyped'
    BY KeepTypes DEF IInv, BeginCompensation
  <2>4. QED
    BY <2>1, <2>2, <2>3, TypeParts DEF Parts
<1>6. Attempts' /\ Unstarted' /\ Position(alone)'
  BY DEF IInv, TypeOK, Attempts, Unstarted, Position, BeginCompensation, WorkerAt, Goto,
         steps
<1>7. undone' \subseteq done' /\ TodoDone'
  <2>1. pc'[Worker] = "undo" /\ \A b \in Undoers \ {Worker} : pc'[b] = pc[b]
    BY DEF IInv, TypeOK, BeginCompensation, Goto
  <2>2. done' = done /\ undone' = undone
    BY DEF BeginCompensation, steps
  <2>3. QED
    BY <1>2, <1>4, <2>1, <2>2 DEF IInv, TodoDone
<1>8. Cover(alone)'
  <2>1. done' = done
    BY DEF BeginCompensation, steps
  <2>2. QED
    BY <1>2, <1>4, <2>1 DEF Cover
<1>9. Claims(alone)'
  BY DEF IInv, TypeOK, Claims, Claim, WorkOver, BeginCompensation, WorkerAt, Goto, steps
<1>10. QED
  BY <1>5, <1>6, <1>7, <1>8, <1>9 DEF IInv

-------------------------------------------------------------------------------
(* compensateStep, by the worker or by a canceller that races with it: every   *)
(* step of it keeps the invariant.                                             *)
LEMMA CompensateStep ==
    ASSUME NEW alone \in BOOLEAN, IInv(alone),
           NEW a \in Undoers, Compensate(a)
    PROVE  IInv(alone)'
<1>0. Parts
  BY TypeParts DEF IInv
<1>1. UNCHANGED steps => StepsTyped'
  BY KeepTypes DEF IInv
<1>2. CASE compensateStep(a)
  <2> DEFINE i == Head(todo[a])
  <2>1. pc[a] = "undo" /\ todo[a] # <<>> /\ i \in Steps
    BY <1>2, NextToUndo DEF compensateStep
  <2>2. saved \in Seq(Steps) /\ Append(saved, i) \in Seq(Steps) /\ blank \subseteq Steps
        /\ (i <= Len(saved) => saved[i] \in Steps)
    BY <1>0, <2>1, SMT DEF Parts, StepsTyped
  <2>3. StepsTyped'
    <3>1. saved' \in Seq(Steps) /\ blank' \subseteq Steps
      BY <1>2, <2>1, <2>2 DEF compensateStep, Recorded
    <3>2. QED
      BY <1>0, <1>2, <3>1 DEF Parts, StepsTyped, compensateStep
  <2>4. UndoingTyped'
    <3>1. \E g \in Steps \cup {None} : given' = [given EXCEPT ![a] = g]
      BY <1>2, <2>2 DEF compensateStep
    <3>2. given' \in [Undoers -> Steps \cup {None}]
      BY <1>0, <3>1 DEF Parts, UndoingTyped
    <3>3. UNCHANGED <<undone, gaveUp, todo>>
      BY <1>2 DEF compensateStep
    <3>4. QED
      BY <1>0, <3>2, <3>3 DEF Parts, UndoingTyped
  <2>5. AttemptTyped' /\ attempt'[a] < MaxAttempts
        /\ \A b \in Undoers \ {a} : attempt'[b] = attempt[b]
    BY <1>0, <1>2, SMT DEF Parts, AttemptTyped, compensateStep
  <2>6. /\ pc'[a] = "undoing" /\ \A b \in Actors \ {a} : pc'[b] = pc[b]
        /\ UNCHANGED <<done, undone, gaveUp, todo>>
    BY <1>2, GotoUndoer DEF IInv, compensateStep
  <2>7. TodoDone' /\ Cover(alone)'
    BY <2>1, <2>6 DEF IInv, TodoDone, Cover
  <2>8. QED
    BY <1>2, <2>1, <2>3, <2>4, <2>5, <2>6, <2>7, UndoerMoves DEF compensateStep, IInv
<1>3. CASE TryCompensate(a)
  <2>1. AttemptTyped' /\ \A b \in Undoers \ {a} : attempt'[b] = attempt[b]
    BY <1>0, <1>3, SMT DEF Parts, AttemptTyped, IInv, Attempts, TryCompensate
  <2>2. /\ pc[a] = "undoing" /\ pc'[a] = "compensating"
        /\ \A b \in Actors \ {a} : pc'[b] = pc[b]
        /\ UNCHANGED <<done, undone, gaveUp, todo>>
    BY <1>3, GotoUndoer DEF IInv, TryCompensate, steps, undoing
  <2>3. TodoDone' /\ Cover(alone)'
    BY <2>2 DEF IInv, TodoDone, Cover
  <2>4. UndoingTyped'
    BY <1>3, KeepTypes DEF IInv, TryCompensate
  <2>5. QED
    BY <1>1, <1>3, <2>1, <2>2, <2>3, <2>4, UndoerMoves DEF TryCompensate, IInv, steps
<1>4. CASE CompensateSucceeds(a)
  <2>1. pc[a] = "compensating" /\ Head(todo[a]) \in Steps /\ Head(todo[a]) \in done
    BY <1>4, NextToUndo DEF CompensateSucceeds
  <2>2. /\ pc'[a] = "undo" /\ \A b \in Actors \ {a} : pc'[b] = pc[b]
    BY <1>4, GotoUndoer DEF IInv, CompensateSucceeds
  <2>3. todo' \in [Undoers -> Seq(Steps)] /\ TodoDone' /\ Cover(alone)'
    BY <1>4, <2>1, <2>2, PopTodo DEF CompensateSucceeds, steps
  <2>4. UndoingTyped' /\ AttemptTyped'
    BY <1>0, <1>4, <2>1, <2>3 DEF Parts, UndoingTyped, AttemptTyped, CompensateSucceeds
  <2>5. undone \subseteq undone' /\ undone' \subseteq done
    BY <1>4, <2>1 DEF CompensateSucceeds, IInv
  <2>6. QED
    BY <1>1, <1>4, <2>1, <2>3, <2>4, <2>5, UndoerMoves DEF CompensateSucceeds, steps
<1>5. CASE CompensateFails(a)
  <2>1. pc[a] = "compensating" /\ Head(todo[a]) \in Steps
        /\ AttemptTyped' /\ undone' = undone /\ done' = done
    BY <1>0, <1>5, NextToUndo DEF CompensateFails, Parts, AttemptTyped, steps
  <2>2. CASE attempt[a] < MaxAttempts /\ Goto(a, "undoing") /\ UNCHANGED <<gaveUp, todo>>
    <3>1. /\ pc'[a] = "undoing" /\ \A b \in Actors \ {a} : pc'[b] = pc[b]
      BY <2>2, GotoUndoer DEF IInv
    <3>2. TodoDone' /\ Cover(alone)'
      BY <2>1, <2>2, <3>1 DEF IInv, TodoDone, Cover
    <3>3. UndoingTyped'
      BY <1>0, <1>5, <2>2 DEF Parts, UndoingTyped, CompensateFails
    <3>4. QED
      BY <1>1, <1>5, <2>1, <2>2, <3>2, <3>3, UndoerMoves DEF CompensateFails, IInv, steps
  <2>3. CASE /\ gaveUp' = [gaveUp EXCEPT ![a] = @ \cup {Head(todo[a])}]
             /\ todo' = [todo EXCEPT ![a] = Tail(@)]
             /\ Goto(a, "undo")
    <3>1. /\ pc'[a] = "undo" /\ \A b \in Actors \ {a} : pc'[b] = pc[b]
      BY <2>3, GotoUndoer DEF IInv
    <3>2. /\ gaveUp' \in [Undoers -> SUBSET Steps]
          /\ \A b \in Undoers : gaveUp[b] \subseteq gaveUp'[b]
          /\ Head(todo[a]) \in gaveUp'[a]
      BY <1>0, <2>1, <2>3 DEF Parts, UndoingTyped
    <3>3. todo' \in [Undoers -> Seq(Steps)] /\ TodoDone' /\ Cover(alone)'
      BY <2>1, <2>3, <3>1, <3>2, PopTodo
    <3>4. UndoingTyped'
      BY <1>0, <1>5, <3>2, <3>3 DEF Parts, UndoingTyped, CompensateFails
    <3>5. QED
      BY <1>1, <1>5, <2>1, <2>3, <3>3, <3>4, UndoerMoves DEF CompensateFails, IInv, steps
  <2>4. QED
    BY <1>5, <2>2, <2>3 DEF CompensateFails
<1>6. QED
  BY <1>2, <1>3, <1>4, <1>5 DEF Compensate

-------------------------------------------------------------------------------
(* The callers of CancelSaga, StopSaga and StartSaga, and the monitor          *)

(* The steps of CancelSaga outside compensateStep keep the invariant, except   *)
(* for the one that makes the list, below.                                     *)
LEMMA CancelSagaStep ==
    ASSUME NEW alone \in BOOLEAN, IInv(alone),
           NEW c \in Cancellers,
           \/ LoadForCancel(c) \/ InterruptForCancel(c) \/ MarkCancelled(c)
           \/ SaveCancelled(c) \/ FinishCancel(c)
    PROVE  IInv(alone)'
<1>0. c \in Actors \ {Worker} /\ Parts
  BY TypeParts DEF IInv
<1>1. /\ UNCHANGED registry => MapsTyped'
      /\ UNCHANGED contexts => ContextsTyped'
      /\ UNCHANGED <<mem, stored>> => StateTyped'
      /\ UNCHANGED <<intent, after>> => IntentTyped'
      /\ active \in Int
  BY <1>0, KeepTypes DEF IInv, Parts, OthersTyped
<1>2. Harmless(mem) /\ Harmless(stored) /\ \A a \in Actors : Harmless(intent[a])
  BY DEF Harmless
<1>3. {"rejected", "loaded", "interrupted", "saving", "cleanup", "error", "cancelled"}
        \subseteq CallerLabels \ {"undoing", "compensating"}
  BY DEF CallerLabels
<1>4. CASE LoadForCancel(c)
  <2>1. IntentTyped' /\ \A a \in Actors : Harmless(intent'[a])
    BY <1>0, <1>4 DEF Parts, IntentTyped, LoadForCancel, Harmless, SagaStates
  <2>2. PICK l \in {"rejected", "loaded"} : Goto(c, l)
    BY <1>4 DEF LoadForCancel
  <2>3. QED
    BY <1>0, <1>1, <1>2, <1>3, <1>4, <2>1, <2>2, CallerMoves DEF LoadForCancel
<1>5. CASE InterruptForCancel(c)
  <2>1. ContextsTyped'
    BY <1>5, CancelTyped DEF IInv, InterruptForCancel, ContextsTyped
  <2>2. PICK l \in {"interrupted", "saving"} : Goto(c, l)
    BY <1>5 DEF InterruptForCancel
  <2>3. QED
    BY <1>0, <1>1, <1>2, <1>3, <1>5, <2>1, <2>2, CallerMoves DEF InterruptForCancel
<1>6. CASE MarkCancelled(c)
  <2>1. StateTyped' /\ Harmless(mem')
    BY <1>0, <1>6 DEF Parts, StateTyped, MarkCancelled, SagaStates, Harmless
  <2>2. QED
    BY <1>0, <1>1, <1>2, <1>3, <1>6, <2>1, CallerMoves DEF MarkCancelled
<1>7. CASE SaveCancelled(c)
  <2>1. StateTyped' /\ Harmless(stored')
    BY <1>0, <1>2, <1>7, StoreTyped DEF IInv, Parts, StateTyped, SaveCancelled
  <2>2. PICK l \in {"cleanup", "error"} : Goto(c, l)
    BY <1>7 DEF SaveCancelled
  <2>3. QED
    BY <1>0, <1>1, <1>2, <1>3, <1>7, <2>1, <2>2, CallerMoves DEF SaveCancelled
<1>8. CASE FinishCancel(c)
  <2>1. ContextsTyped'
    BY <1>8, CancelTyped DEF IInv, FinishCancel, releaseExecution, ContextsTyped
  <2>2. MapsTyped'
    BY <1>8 DEF FinishCancel, releaseExecution, MapsTyped
  <2>3. active' \in {active, active - 1}
    BY <1>8 DEF FinishCancel
  <2>4. QED
    BY <1>0, <1>1, <1>2, <1>3, <1>8, <2>1, <2>2, <2>3, CallerMoves, SMT DEF FinishCancel
<1>9. QED
  BY <1>4, <1>5, <1>6, <1>7, <1>8

(* The steps of StopSaga keep the invariant.                                   *)
LEMMA StopStep ==
    ASSUME NEW alone \in BOOLEAN, IInv(alone),
           NEW s \in Stoppers, StopSaga(s)
    PROVE  IInv(alone)'
<1>0. s \in Actors \ {Worker} /\ Parts
  BY TypeParts DEF IInv
<1>1. /\ UNCHANGED registry => MapsTyped'
      /\ UNCHANGED contexts => ContextsTyped'
      /\ UNCHANGED <<mem, stored>> => StateTyped'
      /\ UNCHANGED <<intent, after>> => IntentTyped'
      /\ active \in Int
  BY <1>0, KeepTypes DEF IInv, Parts, OthersTyped
<1>2. Harmless(mem) /\ Harmless(stored) /\ \A a \in Actors : Harmless(intent[a])
  BY DEF Harmless
<1>3. {"rejected", "loaded", "saving", "error", "stopped"}
        \subseteq CallerLabels \ {"undoing", "compensating"}
  BY DEF CallerLabels
<1>4. CASE LoadForStop(s)
  <2>1. IntentTyped' /\ \A a \in Actors : Harmless(intent'[a])
    BY <1>0, <1>4
       DEF Parts, StateTyped, IntentTyped, LoadForStop, SagaExists, Harmless, SagaStates
  <2>2. PICK l \in {"rejected", "loaded"} : Goto(s, l)
    BY <1>4 DEF LoadForStop
  <2>3. QED
    BY <1>0, <1>1, <1>2, <1>3, <1>4, <2>1, <2>2, CallerMoves DEF LoadForStop
<1>5. CASE InterruptForStop(s)
  <2>1. ContextsTyped'
    BY <1>5, CancelTyped DEF IInv, InterruptForStop, ContextsTyped
  <2>2. QED
    BY <1>0, <1>1, <1>2, <1>3, <1>5, <2>1, CallerMoves DEF InterruptForStop
<1>6. CASE SaveStopped(s)
  <2>1. StateTyped' /\ Harmless(stored')
    BY <1>0, <1>2, <1>6, StoreTyped DEF IInv, Parts, StateTyped, SaveStopped
  <2>2. PICK l \in {"stopped", "error"} : Goto(s, l)
    BY <1>6 DEF SaveStopped
  <2>3. QED
    BY <1>0, <1>1, <1>2, <1>3, <1>6, <2>1, <2>2, CallerMoves DEF SaveStopped
<1>7. QED
  BY <1>4, <1>5, <1>6 DEF StopSaga, FinishStopSaga

(* A canceller's list holds the steps counted by completedSteps, all of them   *)
(* done, however far the worker is: the invariant is kept.                     *)
LEMMA compensateForCancellationStep ==
    ASSUME NEW alone \in BOOLEAN, IInv(alone),
           NEW c \in Cancellers, compensateForCancellation(c)
    PROVE  IInv(alone)'
<1>0. c \in Actors \ {Worker} /\ c \in Undoers /\ c # Worker
  OBVIOUS
<1>1. CASE ~(defined /\ completedSteps > 0)
  <2>1. UNCHANGED <<mem, stored, registry, contexts, active, steps, undoing, intent, after,
                    attempt, starter, monitor>>
    BY <1>1 DEF compensateForCancellation, undoing
  <2>2. Goto(c, "marking") /\ "marking" \in CallerLabels \ {"undoing", "compensating"}
    BY <1>1 DEF compensateForCancellation, CallerLabels
  <2>3. StateTyped' /\ MapsTyped' /\ ContextsTyped' /\ IntentTyped' /\ active' \in Int
    BY <2>1, KeepTypes, TypeParts DEF IInv, Parts, OthersTyped
  <2>4. Harmless(mem') /\ Harmless(stored') /\ \A a \in Actors : Harmless(intent'[a])
    BY <2>1 DEF Harmless
  <2>5. QED
    BY <1>0, <2>1, <2>2, <2>3, <2>4, CallerMoves
<1>2. CASE defined /\ completedSteps > 0
  <2> DEFINE o == GetCompensationOrder(completedSteps)
  <2>1. o \in Seq(Steps) /\ \A j \in 1 .. Len(o) : o[j] \in done
    <3>1. completedSteps \in 0 .. N /\ 1 .. completedSteps \subseteq done
      <4>1. /\ step \in 1 .. N + 1 /\ completedSteps \in 0 .. N
            /\ completedSteps <= step
        BY SMT DEF IInv, TypeOK, Position
      <4>2. 1 .. completedSteps \subseteq 1 .. step
        BY <4>1, SMT
      <4>3. QED
        BY <4>1, <4>2 DEF IInv, Position, Reached
    <3>2. QED
      BY <3>1, OrderCovers
  <2>2. /\ mem' = "Compensating" /\ todo' = [todo EXCEPT ![c] = o] /\ Goto(c, "undo")
        /\ UNCHANGED <<stored, registry, contexts, active, steps, undone, gaveUp, given,
                       intent, after, attempt, starter, monitor>>
    BY <1>2 DEF compensateForCancellation
  <2> HIDE DEF o
  <2>3. /\ todo' \in [Undoers -> Seq(Steps)]
        /\ todo'[c] = o
        /\ \A b \in Undoers \ {c} : todo'[b] = todo[b]
    BY <1>0, <2>1, <2>2, SetTodo DEF IInv
  <2>4. /\ PcTyped' /\ pc'[Worker] = pc[Worker] /\ pc'[c] = "undo"
        /\ \A b \in Actors \ {c} : pc'[b] = pc[b]
    BY <1>0, <2>2, GotoCaller DEF IInv, CallerLabels
  <2>5. TypeOK'
    <3>1. mem' \in SagaStates
      BY <2>2 DEF SagaStates
    <3>2. StateTyped' /\ UndoingTyped'
      BY <2>2, <2>3, <3>1, TypeParts DEF IInv, Parts, StateTyped, UndoingTyped
    <3>3. MapsTyped' /\ ContextsTyped' /\ StepsTyped' /\ IntentTyped' /\ AttemptTyped'
          /\ OthersTyped'
      BY <2>2, KeepTypes DEF IInv
    <3>4. QED
      BY <2>4, <3>2, <3>3, TypeParts DEF Parts
  <2>6. Attempts' /\ Unstarted' /\ Position(alone)' /\ undone' \subseteq done'
    BY <2>2, <2>4 DEF IInv, Attempts, Unstarted, Position, WorkerAt, steps
  <2>7. TodoDone'
    BY <2>1, <2>2, <2>3, <2>4 DEF IInv, TodoDone, steps
  <2>8. Cover(alone)'
    <3>1. todo'[Worker] = todo[Worker]
      BY <1>0, <2>3
    <3>2. QED
      BY <2>2, <2>4, <3>1 DEF IInv, Cover, steps
  <2>9. Claims(alone)'
    BY <2>2, <2>4 DEF IInv, Claims, Claim, WorkOver, steps
  <2>10. QED
    BY <2>5, <2>6, <2>7, <2>8, <2>9 DEF IInv
<1>3. QED
  BY <1>1, <1>2

(* The steps of StartSaga keep the invariant.                                  *)
LEMMA StartStep ==
    ASSUME NEW alone \in BOOLEAN, IInv(alone), StartSaga
    PROVE  IInv(alone)'
<1>0. Parts
  BY TypeParts DEF IInv
<1>1. /\ UNCHANGED contexts => ContextsTyped'
      /\ UNCHANGED <<mem, stored>> => StateTyped'
  BY KeepTypes DEF IInv
<1>2. Harmless(mem) /\ Harmless(stored)
  BY DEF Harmless
<1>3. CASE CreateSaga
  <2>1. /\ stored' \in {stored, "Pending"} /\ inMemory' \in {inMemory, TRUE}
        /\ active' \in {active, active + 1} /\ starter' \in {"created", "refused"}
        /\ UNCHANGED <<mem, defined, cancelFunc, monitor>>
    BY <1>3 DEF CreateSaga
  <2>2. StateTyped' /\ OthersTyped' /\ Harmless(stored')
    BY <1>0, <2>1, SMT DEF Parts, StateTyped, OthersTyped, SagaStates, Harmless
  <2>3. MapsTyped'
    BY <1>0, <2>1 DEF Parts, MapsTyped
  <2>4. Unstarted'
    BY <1>3 DEF IInv, Unstarted, WorkerAt, CreateSaga, flow
  <2>5. QED
    BY <1>1, <1>2, <1>3, <2>2, <2>3, <2>4, NobodyMoves DEF CreateSaga
<1>4. CASE TrackSaga
  <2>1. MapsTyped' /\ OthersTyped'
    BY <1>0, <1>4 DEF TrackSaga, Parts, MapsTyped, OthersTyped
  <2>2. Unstarted'
    BY <1>4 DEF IInv, Unstarted, WorkerAt, TrackSaga, flow
  <2>3. QED
    BY <1>1, <1>2, <1>4, <2>1, <2>2, NobodyMoves DEF TrackSaga
<1>5. CASE AcquireSlotFails
  <2>1. ContextsTyped'
    BY <1>5, CancelTyped DEF IInv, AcquireSlotFails, releaseExecution, ContextsTyped
  <2>2. StateTyped' /\ MapsTyped' /\ OthersTyped' /\ Harmless(stored')
    BY <1>0, <1>2, <1>5
       DEF AcquireSlotFails, releaseExecution, Parts, StateTyped, MapsTyped, OthersTyped
  <2>3. Unstarted'
    BY <1>5 DEF Unstarted, AcquireSlotFails
  <2>4. QED
    BY <1>2, <1>5, <2>1, <2>2, <2>3, NobodyMoves DEF AcquireSlotFails
<1>6. CASE SubmitTask
  <2>1. /\ pc[Worker] = "idle" /\ pc'[Worker] \in {"idle", "queued"}
        /\ \A b \in Actors \ {Worker} : pc'[b] = pc[b]
        /\ PcTyped'
    BY <1>0, <1>6
       DEF Parts, PcTyped, IInv, Unstarted, WorkerAt, SubmitTask, Goto, WorkerLabels
  <2>2. /\ starter' = "waiting"
        /\ UNCHANGED <<mem, stored, registry, contexts, active, steps, undoing, intent,
                       after, attempt, monitor>>
    BY <1>6 DEF SubmitTask
  <2>3. TypeOK'
    <3>1. OthersTyped'
      BY <1>0, <2>2 DEF Parts, OthersTyped
    <3>2. QED
      BY <2>1, <2>2, <3>1, KeepTypes, TypeParts DEF IInv, Parts
  <2>4. Attempts' /\ Unstarted' /\ Position(alone)' /\ undone' \subseteq done'
    BY <2>1, <2>2 DEF IInv, Attempts, Unstarted, Position, WorkerAt, steps, undoing
  <2>5. TodoDone' /\ Cover(alone)'
    BY <2>1, <2>2 DEF IInv, TodoDone, Cover, steps, undoing
  <2>6. Claims(alone)'
    BY <2>1, <2>2 DEF IInv, Claims, Claim, WorkOver, steps, undoing
  <2>7. QED
    BY <2>3, <2>4, <2>5, <2>6 DEF IInv
<1>7. CASE SubmitReturns
  <2>1. ContextsTyped'
    BY <1>7, CancelTyped DEF IInv, SubmitReturns, releaseExecution, ContextsTyped
  <2>2. MapsTyped' /\ OthersTyped'
    BY <1>0, <1>7 DEF SubmitReturns, releaseExecution, Parts, MapsTyped, OthersTyped
  <2>3. Unstarted'
    BY <1>7 DEF Unstarted, SubmitReturns
  <2>4. QED
    BY <1>1, <1>2, <1>7, <2>1, <2>2, <2>3, NobodyMoves DEF SubmitReturns
<1>8. QED
  BY <1>3, <1>4, <1>5, <1>6, <1>7 DEF StartSaga

(* A deadline that passes and what the monitor makes of it keep the invariant. *)
LEMMA TimeoutStep ==
    ASSUME NEW alone \in BOOLEAN, IInv(alone), Deadline \/ Monitor
    PROVE  IInv(alone)'
<1>1. /\ UNCHANGED <<registry, execDone, steps, undoing, flow, starter>>
      /\ ctx' \in {ctx, "DeadlineExceeded"}
      /\ mem' \in {mem, "TimedOut"} /\ stored' \in {stored, "TimedOut"}
      /\ active' \in {active, active - 1}
      /\ monitor' \in {monitor, "timedOut", "ended", "handled"}
  BY DEF Deadline, Monitor, monitorSagaTimeout, handleSagaTimeout, contexts
<1>2. StateTyped' /\ ContextsTyped' /\ OthersTyped'
  BY <1>1, TypeParts, SMT DEF IInv, Parts, StateTyped, ContextsTyped, OthersTyped, SagaStates
<1>3. MapsTyped'
  BY <1>1, KeepTypes DEF IInv
<1>4. Unstarted' /\ Harmless(mem') /\ Harmless(stored')
  BY <1>1 DEF IInv, Unstarted, WorkerAt, flow, Harmless
<1>5. QED
  BY <1>1, <1>2, <1>3, <1>4, NobodyMoves

-------------------------------------------------------------------------------
(* Every step of the orchestrator keeps the invariant.                         *)
LEMMA NextIInv ==
    ASSUME NEW alone \in BOOLEAN, IInv(alone), [Next]_vars
    PROVE  IInv(alone)'
<1>1. CASE StartSaga
  BY <1>1, StartStep
<1>2. ASSUME NEW a \in Undoers, Compensate(a) PROVE IInv(alone)'
  BY <1>2, CompensateStep
<1>3. CASE executeSteps
  BY <1>2, <1>3, UpdatingStep, MovingStep, BeginCompensationStep DEF executeSteps
<1>4. ASSUME NEW c \in Cancellers, CancelSaga(c) PROVE IInv(alone)'
  BY <1>2, <1>4, CancelSagaStep, compensateForCancellationStep DEF CancelSaga, FinishCancelSaga
<1>5. ASSUME NEW s \in Stoppers, StopSaga(s) PROVE IInv(alone)'
  BY <1>5, StopStep
<1>6. CASE Deadline \/ Monitor
  BY <1>6, TimeoutStep
<1>7. CASE UNCHANGED vars
  <2>1. StateTyped' /\ MapsTyped' /\ ContextsTyped' /\ OthersTyped'
    BY <1>7, KeepTypes DEF IInv, vars
  <2>2. Unstarted' /\ Harmless(mem') /\ Harmless(stored')
    BY <1>7 DEF IInv, Unstarted, WorkerAt, Harmless, vars, flow
  <2>3. QED
    BY <1>7, <2>1, <2>2, NobodyMoves DEF vars
<1>8. QED
  BY <1>1, <1>3, <1>4, <1>5, <1>6, <1>7 DEF Next
===============================================================================
