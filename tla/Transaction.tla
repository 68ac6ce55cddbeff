------------------------------ MODULE Transaction ------------------------------
(* One transaction of pkg/patterns/transaction: DefaultCoordinator's Begin and  *)
(* Execute (coordinator.go) over the strategy that is set when Execute is       *)
(* called, two-phase commit (two_phase_commit.go) or compensation               *)
(* (compensation_strategy.go).  Several goroutines may call Execute on it.      *)
(* Other transactions share the store's lock and the strategy with this one     *)
(* and nothing else: SetStrategy and CleanupCompletedTransactions happen at any *)
(* moment.                                                                      *)
(*                                                                              *)
(* One action is one participant call, with the bookkeeping up to the next one. *)
(* A call may take effect and still return an error: the caller cannot tell.    *)
EXTENDS Integers, FiniteSets

CONSTANTS
    Callers,        \* the goroutines that call Execute with this transaction
    N,              \* len(txExec.Participants); Begin refuses an empty list
    MaxRetries,     \* TransactionConfig.MaxRetries
    MaxCalls        \* bound: Execute calls on this transaction

ASSUME TransactionAssumption ==
    N \in Nat \ {0} /\ MaxRetries \in Nat /\ MaxCalls \in Nat

Participants == 1..N

Strategies == {"2pc", "compensation"}

States == {"Initial", "Preparing", "Prepared", "Committing", "Committed",
           "RollingBack", "RolledBack", "Failed"}

Outcomes == {"ok",      \* done, returned nil
             "unsure",  \* done, but the call returned an error
             "error"}   \* not done, returned an error

VARIABLES
    strategy,     \* c.strategy
    stored,       \* the transaction is in c.store
    state,        \* txExec.State; "none" before Begin
    completed,    \* txExec.CompletedAt is set
    part,         \* per participant: what it has done for this transaction
    calls,        \* Execute calls so far
    \* per caller
    pc,           \* where its call of Execute is
    running,      \* the strategy that call took
    i,            \* the participant at hand
    attempt,      \* the attempt of the retry loop, from 0
    firstErr,     \* commit's firstErr is set
    ctxDone,      \* the context of the call is cancelled or timed out
    result,       \* what its last call returned
    \* history
    voted,        \* participants whose Prepare returned nil
    doubtful,     \* participants whose Commit compensation gave up, unanswered
    gaveUp,       \* participants whose Rollback failed on every attempt
    overlapped    \* a call passed Execute's check while another was under way

exec    == <<pc, running, i, attempt, firstErr, ctxDone>>
entry   == <<calls, overlapped>>
history == <<voted, doubtful, gaveUp>>
vars    == <<strategy, stored, state, completed, exec, result, entry, part, history>>

Init ==
    /\ strategy \in Strategies
    /\ stored = FALSE /\ state = "none" /\ completed = FALSE
    /\ pc = [c \in Callers |-> "idle"] /\ running = [c \in Callers |-> "2pc"]
    /\ i = [c \in Callers |-> 0] /\ attempt = [c \in Callers |-> 0]
    /\ firstErr = [c \in Callers |-> FALSE] /\ ctxDone = [c \in Callers |-> FALSE]
    /\ result = [c \in Callers |-> "none"] /\ calls = 0
    /\ part = [p \in Participants |-> "untouched"]
    /\ voted = {} /\ doubtful = {} /\ gaveUp = {} /\ overlapped = FALSE

-------------------------------------------------------------------------------
(* DefaultCoordinator *)

Begin ==
    /\ state = "none"
    /\ state' = "Initial" /\ stored' = TRUE
    /\ UNCHANGED <<strategy, completed, exec, result, entry, part, history>>

(* Execute goes on to the strategy that is set; the state does not show it yet  *)
Pass(c) ==
    /\ pc' = [pc EXCEPT ![c] = "enter"]
    /\ running' = [running EXCEPT ![c] = strategy]
    /\ result' = [result EXCEPT ![c] = "none"]
    /\ \E d \in BOOLEAN : ctxDone' = [ctxDone EXCEPT ![c] = d]
    /\ overlapped' = (overlapped \/ \E d \in Callers : pc[d] # "idle")
    /\ UNCHANGED <<i, attempt, firstErr>>

(* Mutant of Execute: it does not look at the state *)
ExecuteAgain(c) ==
    /\ pc[c] = "idle" /\ state # "none" /\ calls < MaxCalls
    /\ calls' = calls + 1
    /\ Pass(c)
    /\ UNCHANGED <<strategy, stored, state, completed, part, history>>

(* A transaction that is no longer in its initial state is refused.  No lock    *)
(* is held from this look at the state to the strategy's first change of it     *)
(* (Enter), so several calls may pass.  The store holds the same object: the    *)
(* update after the strategy changes nothing.                                   *)
Execute(c) ==
    /\ pc[c] = "idle" /\ state # "none" /\ calls < MaxCalls
    /\ calls' = calls + 1
    /\ \/ /\ state # "Initial"
          /\ result' = [result EXCEPT ![c] = "error"]
          /\ UNCHANGED <<exec, overlapped>>
       \/ state = "Initial" /\ Pass(c)
    /\ UNCHANGED <<strategy, stored, state, completed, part, history>>

SetStrategy(s) ==
    /\ s # strategy /\ strategy' = s
    /\ UNCHANGED <<stored, state, completed, exec, result, entry, part, history>>

CleanupCompletedTransactions ==
    /\ stored /\ completed
    /\ stored' = FALSE
    /\ UNCHANGED <<strategy, state, completed, exec, result, entry, part, history>>

-------------------------------------------------------------------------------
(* Steps that both strategies take *)

ContextDone(c) ==
    /\ pc[c] # "idle" /\ ~ctxDone[c]
    /\ ctxDone' = [ctxDone EXCEPT ![c] = TRUE]
    /\ UNCHANGED <<strategy, stored, state, completed, pc, running, i, attempt,
                   firstErr, result, entry, part, history>>

GoOnWith(c, l, p) ==
    /\ pc' = [pc EXCEPT ![c] = l]
    /\ i' = [i EXCEPT ![c] = p]
    /\ attempt' = [attempt EXCEPT ![c] = 0]

(* Mutant of StartUndo: the loop starts one participant too early in the list *)
StartUndoOneShort(c, last) ==
    /\ GoOnWith(c, "undo", IF last > 0 THEN last - 1 ELSE 0)
    /\ state' = IF running[c] = "2pc" THEN "RollingBack" ELSE state

(* rollback(ctx, txExec), over all participants, or compensate(ctx, executed,  *)
(* txExec.ID), over the first ones; only the first changes the state           *)
StartUndo(c, last) ==
    /\ GoOnWith(c, "undo", last)
    /\ state' = IF running[c] = "2pc" THEN "RollingBack" ELSE state

(* A history gets the participant at hand.  No property needs the histories once *)
(* calls have overlapped; they end there, to keep the state space small.       *)
Noted(c, h) == IF overlapped THEN h ELSE h \union {i[c]}

(* What the participant at hand has done after a call that asks it for `effect' *)
Effect(c, o, effect) ==
    part' = IF o = "error" THEN part ELSE [part EXCEPT ![i[c]] = effect]

Retry(c) ==
    /\ attempt[c] < MaxRetries
    /\ attempt' = [attempt EXCEPT ![c] = @ + 1]
    /\ UNCHANGED <<pc, i, state>>

Return(c, r) ==
    GoOnWith(c, "idle", 0) /\ result' = [result EXCEPT ![c] = r]

(* The context is checked before a participant's first attempt; between two    *)
(* attempts the select may find the delay over as well and go on.              *)
MayCall(c) == attempt[c] = 0 => ~ctxDone[c]

(* Execute's own first lines: a context that is done leaves the transaction    *)
(* initial, to be executed again                                               *)
Enter(c) ==
    /\ pc[c] = "enter"
    /\ \/ /\ ctxDone[c]
          /\ Return(c, "error")
          /\ UNCHANGED state
       \/ /\ ~ctxDone[c]
          /\ IF running[c] = "2pc" THEN state' = "Preparing" /\ GoOnWith(c, "prepare", 1)
                                   ELSE state' = "Committing" /\ GoOnWith(c, "commit", 1)
          /\ UNCHANGED result
    /\ UNCHANGED <<strategy, stored, completed, running, firstErr, ctxDone, entry,
                   part, history>>

-------------------------------------------------------------------------------
(* Phase one: prepare and prepareWithRetry *)

(* Mutant of Prepare: the result of a participant's last attempt is not looked at *)
PrepareLosesLastError(c) ==
    /\ pc[c] = "prepare" /\ i[c] <= N /\ MayCall(c)
    /\ \E o \in Outcomes :
          /\ Effect(c, o, "prepared")
          /\ voted' = IF o = "ok" THEN Noted(c, voted) ELSE voted
          /\ \/ o # "ok" /\ Retry(c)
             \/ /\ o = "ok" \/ attempt[c] = MaxRetries
                /\ GoOnWith(c, "prepare", i[c] + 1) /\ UNCHANGED state
    /\ UNCHANGED <<strategy, stored, completed, running, firstErr, ctxDone, result,
                   entry, doubtful, gaveUp>>

Prepare(c) ==
    /\ pc[c] = "prepare" /\ i[c] <= N /\ MayCall(c)
    /\ \E o \in Outcomes :
          /\ Effect(c, o, "prepared")
          /\ voted' = IF o = "ok" THEN Noted(c, voted) ELSE voted
          /\ \/ o = "ok" /\ GoOnWith(c, "prepare", i[c] + 1) /\ UNCHANGED state
             \/ o # "ok" /\ Retry(c)
             \/ o # "ok" /\ attempt[c] = MaxRetries /\ StartUndo(c, N)
    /\ UNCHANGED <<strategy, stored, completed, running, firstErr, ctxDone, result,
                   entry, doubtful, gaveUp>>

PrepareCancelled(c) ==
    /\ pc[c] = "prepare" /\ i[c] <= N /\ ctxDone[c]
    /\ StartUndo(c, N)
    /\ UNCHANGED <<strategy, stored, completed, running, firstErr, ctxDone, result,
                   entry, part, history>>

AllPrepared(c) ==
    /\ pc[c] = "prepare" /\ i[c] > N
    /\ state' = "Prepared" /\ pc' = [pc EXCEPT ![c] = "fn"]
    /\ UNCHANGED <<strategy, stored, completed, running, i, attempt, firstErr, ctxDone,
                   result, entry, part, history>>

-------------------------------------------------------------------------------
(* The business function, between the phases or after the last Commit *)

Finish(c) ==
    /\ state' = "Committed" /\ completed' = TRUE
    /\ Return(c, "ok")

Fn(c) ==
    /\ pc[c] = "fn"
    /\ \/ StartUndo(c, N) /\ UNCHANGED <<completed, result, firstErr>>
       \/ /\ running[c] = "2pc"
          /\ state' = "Committing" /\ GoOnWith(c, "commit", 1)
          /\ firstErr' = [firstErr EXCEPT ![c] = FALSE]
          /\ UNCHANGED <<completed, result>>
       \/ running[c] = "compensation" /\ Finish(c) /\ UNCHANGED firstErr
    /\ UNCHANGED <<strategy, stored, running, ctxDone, entry, part, history>>

-------------------------------------------------------------------------------
(* Phase two, or compensation's only one: commit and commitWithRetry, the loop *)
(* of CompensationStrategy.Execute and executeWithRetry                        *)

(* This participant is given up: two-phase commit goes on to the next one,     *)
(* compensation stops                                                          *)
GiveUpCommit(c) ==
    \/ /\ running[c] = "2pc"
       /\ firstErr' = [firstErr EXCEPT ![c] = TRUE]
       /\ GoOnWith(c, "commit", i[c] + 1)
       /\ UNCHANGED <<state, doubtful>>
    \/ /\ running[c] = "compensation"
       /\ doubtful' = Noted(c, doubtful)
       /\ StartUndo(c, i[c] - 1)
       /\ UNCHANGED firstErr

(* Mutant of Commit: a participant that is given up does not set firstErr *)
CommitForgetsError(c) ==
    /\ pc[c] = "commit" /\ i[c] <= N /\ MayCall(c)
    /\ \E o \in Outcomes :
          /\ Effect(c, o, "committed")
          /\ \/ /\ o = "ok" \/ attempt[c] = MaxRetries
                /\ GoOnWith(c, "commit", i[c] + 1)
                /\ UNCHANGED <<state, firstErr, doubtful>>
             \/ o # "ok" /\ Retry(c) /\ UNCHANGED <<firstErr, doubtful>>
    /\ UNCHANGED <<strategy, stored, completed, running, ctxDone, result, entry,
                   voted, gaveUp>>

Commit(c) ==
    /\ pc[c] = "commit" /\ i[c] <= N /\ MayCall(c)
    /\ \E o \in Outcomes :
          /\ Effect(c, o, "committed")
          /\ \/ /\ o = "ok" /\ GoOnWith(c, "commit", i[c] + 1)
                /\ UNCHANGED <<state, firstErr, doubtful>>
             \/ o # "ok" /\ Retry(c) /\ UNCHANGED <<firstErr, doubtful>>
             \/ o # "ok" /\ attempt[c] = MaxRetries /\ GiveUpCommit(c)
    /\ UNCHANGED <<strategy, stored, completed, running, ctxDone, result, entry,
                   voted, gaveUp>>

(* Between two attempts the participant is given up; before the first one      *)
(* two-phase commit stops at once, and compensation has nothing more to undo   *)
CommitCancelled(c) ==
    /\ pc[c] = "commit" /\ i[c] <= N /\ ctxDone[c]
    /\ \/ attempt[c] > 0 /\ GiveUpCommit(c)
       \/ /\ attempt[c] = 0
          /\ StartUndo(c, IF running[c] = "2pc" THEN N ELSE i[c] - 1)
          /\ UNCHANGED <<firstErr, doubtful>>
    /\ UNCHANGED <<strategy, stored, completed, running, ctxDone, result, entry, part,
                   voted, gaveUp>>

AllCommitted(c) ==
    /\ pc[c] = "commit" /\ i[c] > N
    /\ \/ /\ running[c] = "2pc" /\ firstErr[c] /\ StartUndo(c, N)
          /\ UNCHANGED <<completed, result>>
       \/ running[c] = "2pc" /\ ~firstErr[c] /\ Finish(c)
       \/ /\ running[c] = "compensation" /\ pc' = [pc EXCEPT ![c] = "fn"]
          /\ UNCHANGED <<state, completed, result, i, attempt>>
    /\ UNCHANGED <<strategy, stored, running, firstErr, ctxDone, entry, part, history>>

-------------------------------------------------------------------------------
(* rollback and rollbackWithRetry, compensate and compensateWithRetry: from the *)
(* last participant back, whatever the context and whatever fails              *)

(* Mutant of Rollback: a context that is done ends the retries *)
RollbackHeedsContext(c) ==
    /\ pc[c] = "undo" /\ i[c] >= 1
    /\ \/ /\ ctxDone[c]
          /\ GoOnWith(c, "undo", i[c] - 1) /\ UNCHANGED <<state, part, gaveUp>>
       \/ /\ ~ctxDone[c]
          /\ \E o \in Outcomes :
                /\ Effect(c, o, "undone")
                /\ \/ o # "ok" /\ Retry(c) /\ UNCHANGED gaveUp
                   \/ /\ o = "ok" \/ attempt[c] = MaxRetries
                      /\ gaveUp' = IF o = "ok" THEN gaveUp ELSE Noted(c, gaveUp)
                      /\ GoOnWith(c, "undo", i[c] - 1) /\ UNCHANGED state
    /\ UNCHANGED <<strategy, stored, completed, running, firstErr, ctxDone, result,
                   entry, voted, doubtful>>

(* Mutant of Rollback: it is called until it succeeds *)
RollbackUntilDone(c) ==
    /\ pc[c] = "undo" /\ i[c] >= 1
    /\ \E o \in Outcomes :
          /\ Effect(c, o, "undone")
          /\ IF o = "ok" THEN GoOnWith(c, "undo", i[c] - 1)
             ELSE /\ attempt' = [attempt EXCEPT ![c] = (@ + 1) % (MaxRetries + 1)]
                  /\ UNCHANGED <<pc, i>>
    /\ UNCHANGED <<strategy, stored, state, completed, running, firstErr, ctxDone, result,
                   entry, history>>

Rollback(c) ==
    /\ pc[c] = "undo" /\ i[c] >= 1
    /\ \E o \in Outcomes :
          /\ Effect(c, o, "undone")
          /\ \/ o # "ok" /\ Retry(c) /\ UNCHANGED gaveUp
             \/ /\ o = "ok" \/ attempt[c] = MaxRetries
                /\ gaveUp' = IF o = "ok" THEN gaveUp ELSE Noted(c, gaveUp)
                /\ GoOnWith(c, "undo", i[c] - 1) /\ UNCHANGED state
    /\ UNCHANGED <<strategy, stored, completed, running, firstErr, ctxDone, result,
                   entry, voted, doubtful>>

(* Two-phase commit calls the transaction rolled back, and completed, before    *)
(* Execute calls it failed; compensation never sets CompletedAt                *)
UndoDone(c) ==
    /\ pc[c] = "undo" /\ i[c] = 0
    /\ pc' = [pc EXCEPT ![c] = "fail"]
    /\ IF running[c] = "2pc" THEN state' = "RolledBack" /\ completed' = TRUE
                             ELSE UNCHANGED <<state, completed>>
    /\ UNCHANGED <<strategy, stored, running, i, attempt, firstErr, ctxDone, result,
                   entry, part, history>>

Fail(c) ==
    /\ pc[c] = "fail"
    /\ state' = "Failed" /\ Return(c, "error")
    /\ UNCHANGED <<strategy, stored, completed, running, firstErr, ctxDone, entry, part,
                   history>>

-------------------------------------------------------------------------------
Step(c) ==
    \/ Enter(c) \/ Prepare(c) \/ PrepareCancelled(c) \/ AllPrepared(c) \/ Fn(c)
    \/ Commit(c) \/ CommitCancelled(c) \/ AllCommitted(c)
    \/ Rollback(c) \/ UndoDone(c) \/ Fail(c)

Next ==
    \/ Begin \/ CleanupCompletedTransactions
    \/ \E s \in Strategies : SetStrategy(s)
    \/ \E c \in Callers : Execute(c) \/ ContextDone(c) \/ Step(c)

(* Execute runs in its caller's goroutine and every participant call returns,  *)
(* with or without an error: the goroutine is not left standing.               *)
Fairness == \A c \in Callers : WF_vars(Step(c))

Spec == Init /\ [][Next]_vars /\ Fairness

-------------------------------------------------------------------------------
(* Types, and the retry loops within MaxRetries (prepareWithRetry and its kin). *)
TypeOK ==
    /\ strategy \in Strategies /\ running \in [Callers -> Strategies]
    /\ state \in States \union {"none"}
    /\ pc \in [Callers -> {"idle", "enter", "prepare", "fn", "commit", "undo", "fail"}]
    /\ i \in [Callers -> 0..N+1] /\ attempt \in [Callers -> 0..MaxRetries]
    /\ stored \in BOOLEAN /\ completed \in BOOLEAN
    /\ firstErr \in [Callers -> BOOLEAN] /\ ctxDone \in [Callers -> BOOLEAN]
    /\ result \in [Callers -> {"none", "ok", "error"}] /\ calls \in 0..MaxCalls
    /\ part \in [Participants -> {"untouched", "prepared", "committed", "undone"}]
    /\ voted \subseteq Participants /\ doubtful \subseteq Participants
    /\ gaveUp \subseteq Participants
    /\ overlapped \in BOOLEAN

(* Nothing in the code keeps two goroutines from executing the same transaction *)
(* at the same time, and then one call undoes what the other decides: of the    *)
(* properties below only ExecuteReturns is left.  The others speak of a         *)
(* transaction until two of its calls overlap.                                  *)

(* Execute returns nil, or the transaction is in StateCommitted, only when     *)
(* every participant has committed, whatever was retried, cancelled or timed   *)
(* out on the way                                                              *)
CommittedEverywhere ==
    ~overlapped /\ (state = "Committed" \/ \E c \in Callers : result[c] = "ok") =>
        \A p \in Participants : part[p] = "committed"

(* A transaction in StateFailed has left nothing behind: a participant that    *)
(* still holds prepared or committed work is one whose Rollback failed on every *)
(* attempt or, with compensation, the one whose Commit took effect and still   *)
(* returned an error: compensate is called with the acknowledged ones only     *)
FailedNowhere ==
    ~overlapped /\ state = "Failed" =>
        \A p \in Participants :
            part[p] \in {"untouched", "undone"} \/ p \in gaveUp \union doubtful

(* Under two-phase commit a participant commits only after every participant   *)
(* voted, and never once the rollback has begun                                *)
CommitNeedsVotes ==
    [][\A c \in Callers, p \in Participants :
          ~overlapped /\ pc[c] # "idle" /\ running[c] = "2pc"
                      /\ part[p] # "committed" /\ part'[p] = "committed"
              => voted = Participants /\ state = "Committing"]_vars

(* Participants are undone in the reverse order of the list: while one is      *)
(* being rolled back, none before it has been, and each one after it that had  *)
(* work to undo is undone or given up                                          *)
UndoneInReverse ==
    \A c \in Callers : ~overlapped /\ pc[c] = "undo" =>
        /\ \A p \in Participants : p < i[c] => part[p] # "undone"
        /\ \A p \in Participants : p > i[c] =>
              part[p] \in {"untouched", "undone"} \/ p \in gaveUp \union doubtful

(* A decision stands: once a transaction is committed or failed, neither its   *)
(* state nor any participant changes again, by however many goroutines Execute *)
(* is called on it afterwards; only a call that had passed the check before    *)
(* the first change of the state can still revise it                           *)
DecisionIsFinal ==
    [][~overlapped /\ (state = "Committed" \/ state = "Failed")
          => UNCHANGED <<state, part>>]_vars

(* CleanupCompletedTransactions never drops a transaction from the store while *)
(* a participant is still to be called                                         *)
CleanedOnlyWhenOver ==
    ~overlapped /\ ~stored => state \in {"none", "Committed", "RolledBack", "Failed"}

(* Execute returns: the retry loops and the rollback end, whatever fails and   *)
(* whoever else executes the transaction                                       *)
ExecuteReturns == \A c \in Callers : pc[c] # "idle" ~> pc[c] = "idle"

===============================================================================
