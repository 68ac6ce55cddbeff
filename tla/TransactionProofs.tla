--------------------------- MODULE TransactionProofs ---------------------------
(* The safety of Transaction for every number of callers, participants and      *)
(* retries.  Whatever overlaps, the loops stay within the list of participants. *)
(* As long as no two calls of Execute have overlapped, at most one is under way, *)
(* and the inductive invariant says, for every place it can be in, how far the  *)
(* participants are.                                                            *)
EXTENDS Transaction, TLAPS

(* Participant p has nothing left to undo, or somebody gave it up               *)
Undone(p) == part[p] \in {"untouched", "undone"} \/ p \in gaveUp \union doubtful

Loops ==
    \A c \in Callers :
        /\ pc[c] \in {"prepare", "commit"} => i[c] >= 1
        /\ pc[c] = "undo" => i[c] <= N

Untouched == \A p \in Participants : part[p] = "untouched"

AtEnter(c) ==
    pc[c] = "enter" => state = "Initial" /\ Untouched

AtPrepare(c) ==
    pc[c] = "prepare" =>
        /\ running[c] = "2pc" /\ state = "Preparing"
        /\ \A p \in Participants : part[p] \in {"untouched", "prepared"}
        /\ \A p \in Participants : p < i[c] => part[p] = "prepared" /\ p \in voted

AtFn(c) ==
    pc[c] = "fn" =>
        /\ state \in {"Prepared", "Committing"}
        /\ running[c] = "2pc" =>
              voted = Participants /\ \A p \in Participants : part[p] = "prepared"
        /\ running[c] = "compensation" =>
              state = "Committing" /\ \A p \in Participants : part[p] = "committed"

AtCommit(c) ==
    pc[c] = "commit" =>
        /\ state = "Committing"
        /\ \A p \in Participants : part[p] # "undone"
        /\ running[c] = "2pc" =>
              /\ voted = Participants
              /\ ~firstErr[c] => \A p \in Participants : p < i[c] => part[p] = "committed"
        /\ running[c] = "compensation" =>
              /\ \A p \in Participants : p < i[c] => part[p] = "committed"
              /\ \A p \in Participants : p > i[c] => part[p] = "untouched"
              /\ attempt[c] = 0 => \A p \in Participants : p = i[c] => part[p] = "untouched"

AtUndo(c) ==
    pc[c] = "undo" =>
        /\ state = IF running[c] = "2pc" THEN "RollingBack" ELSE "Committing"
        /\ \A p \in Participants : p < i[c] => part[p] # "undone"
        /\ \A p \in Participants : p > i[c] => Undone(p)

AtFail(c) ==
    pc[c] = "fail" =>
        /\ state = IF running[c] = "2pc" THEN "RolledBack" ELSE "Committing"
        /\ \A p \in Participants : Undone(p)

Busy(c) ==
    AtEnter(c) /\ AtPrepare(c) /\ AtFn(c) /\ AtCommit(c) /\ AtUndo(c) /\ AtFail(c)

(* One call at a time, and what is true when there is none                      *)
Alone == \A c, d \in Callers : pc[c] # "idle" /\ pc[d] # "idle" => c = d

Rest ==
    (\A c \in Callers : pc[c] = "idle") =>
        /\ state \in {"none", "Initial", "Committed", "Failed"}
        /\ state \in {"none", "Initial"} => Untouched
        /\ state = "Committed" => \A p \in Participants : part[p] = "committed"
        /\ state = "Failed" => \A p \in Participants : Undone(p)

Books ==
    /\ (\E c \in Callers : result[c] = "ok") => state = "Committed"
    /\ completed => state \in {"Committed", "RolledBack", "Failed"}
    /\ ~stored => completed \/ state = "none"

Solo == Alone /\ (\A c \in Callers : Busy(c)) /\ Rest /\ Books

IInv == TypeOK /\ Loops /\ (~overlapped => Solo)

-------------------------------------------------------------------------------
(* What the invariant says about the call that is under way *)

(* The state a busy call leaves no room for *)
LEMMA BusyState ==
    ASSUME IInv, ~overlapped, NEW c \in Callers, pc[c] # "idle"
    PROVE  /\ state \notin {"none", "Committed", "Failed"}
           /\ \A d \in Callers : d # c => pc[d] = "idle"
           /\ \A d \in Callers : result[d] # "ok"
<1>1. Busy(c) /\ Alone /\ Books
  BY DEF IInv, Solo
<1>2. state \notin {"none", "Committed", "Failed"}
  BY <1>1 DEF Busy, AtEnter, AtPrepare, AtFn, AtCommit, AtUndo, AtFail, IInv, TypeOK
<1> QED BY <1>1, <1>2 DEF Alone, Books

(* A step of the only call that is under way, and does not return *)
LEMMA SoloStep ==
    ASSUME IInv, ~overlapped, NEW c \in Callers, pc[c] # "idle",
           \A d \in Callers : d # c => pc'[d] = pc[d],
           pc'[c] # "idle", Busy(c)', Books'
    PROVE  Solo'
<1>1. \A d \in Callers : d # c => pc'[d] = "idle"
  BY BusyState
<1>2. \A d \in Callers : Busy(d)'
  BY <1>1 DEF Busy, AtEnter, AtPrepare, AtFn, AtCommit, AtUndo, AtFail
<1>3. Alone' /\ Rest'
  BY <1>1 DEF Alone, Rest
<1> QED BY <1>2, <1>3 DEF Solo

(* Its last step *)
LEMMA SoloReturn ==
    ASSUME IInv, ~overlapped, NEW c \in Callers, pc[c] # "idle",
           \A d \in Callers : d # c => pc'[d] = pc[d],
           pc'[c] = "idle", Rest', Books'
    PROVE  Solo'
<1>1. \A d \in Callers : pc'[d] = "idle"
  BY BusyState
<1>2. \A d \in Callers : Busy(d)'
  BY <1>1 DEF Busy, AtEnter, AtPrepare, AtFn, AtCommit, AtUndo, AtFail
<1> QED BY <1>1, <1>2 DEF Alone, Solo

Places == {"idle", "enter", "prepare", "fn", "commit", "undo", "fail"}

(* Call c goes on with participant p at place l, where p may be *)
GoesOn(c, l, p) ==
    /\ GoOnWith(c, l, p) /\ l \in Places /\ p \in 0..N+1
    /\ l \in {"prepare", "commit"} => p >= 1
    /\ l = "undo" => p <= N

Passes(c, l) ==
    /\ pc' = [pc EXCEPT ![c] = l] /\ l \in {"fn", "fail"}
    /\ UNCHANGED <<i, attempt>>

(* The three ways a step moves its call, and no other one *)
Moves(c) == (\E l, p : GoesOn(c, l, p)) \/ Retry(c) \/ (\E l : Passes(c, l))

LEMMA MovesInv ==
    ASSUME TypeOK, Loops, NEW c \in Callers, Moves(c)
    PROVE  /\ pc' \in [Callers -> Places] /\ i' \in [Callers -> 0..N+1]
           /\ attempt' \in [Callers -> 0..MaxRetries]
           /\ Loops'
<1>1. ASSUME NEW l, NEW p, GoesOn(c, l, p)
      PROVE  /\ pc' \in [Callers -> Places] /\ i' \in [Callers -> 0..N+1]
             /\ attempt' \in [Callers -> 0..MaxRetries]
             /\ Loops'
  <2>1. /\ pc' \in [Callers -> Places] /\ i' \in [Callers -> 0..N+1]
        /\ attempt' \in [Callers -> 0..MaxRetries]
    BY <1>1, TransactionAssumption DEF GoesOn, GoOnWith, TypeOK, Places
  <2>2. /\ pc'[c] = l /\ i'[c] = p
        /\ \A d \in Callers : d # c => pc'[d] = pc[d] /\ i'[d] = i[d]
    BY <1>1 DEF GoesOn, GoOnWith, TypeOK
  <2>3. Loops'
    BY <1>1, <2>2 DEF GoesOn, Loops
  <2> QED BY <2>1, <2>3
<1>2. CASE Retry(c)
  BY <1>2, TransactionAssumption DEF Retry, TypeOK, Loops, Places
<1>3. ASSUME NEW l, Passes(c, l)
      PROVE  /\ pc' \in [Callers -> Places] /\ i' \in [Callers -> 0..N+1]
             /\ attempt' \in [Callers -> 0..MaxRetries]
             /\ Loops'
  BY <1>3 DEF Passes, TypeOK, Loops, Places
<1> QED BY <1>1, <1>2, <1>3 DEF Moves

-------------------------------------------------------------------------------
(* The three facts of the induction: Init, one lemma per action, stuttering. *)

LEMMA InitInv == Init => IInv
<1> SUFFICES ASSUME Init PROVE IInv
  OBVIOUS
<1>1. TypeOK
  <2>1. 0 \in 0..N+1 /\ 0 \in 0..MaxRetries /\ calls \in 0..MaxCalls
    BY TransactionAssumption DEF Init
  <2>2. /\ running \in [Callers -> Strategies] /\ i \in [Callers -> 0..N+1]
        /\ attempt \in [Callers -> 0..MaxRetries]
    BY <2>1 DEF Init, Strategies
  <2> QED BY <2>1, <2>2, Zenon DEF Init, TypeOK
<1>2. Loops
  BY DEF Init, Loops
<1>3. Solo
  BY DEF Init, Solo, Alone, Busy, AtEnter, AtPrepare, AtFn, AtCommit, AtUndo, AtFail,
     Rest, Untouched, Books
<1> QED BY <1>1, <1>2, <1>3 DEF IInv

LEMMA BeginInv == ASSUME IInv, Begin PROVE IInv'
<1>1. TypeOK'
  BY DEF Begin, exec, entry, history, IInv, TypeOK, States
<1>2. Loops'
  BY DEF Begin, exec, IInv, Loops
<1>3. ASSUME ~overlapped' PROVE Solo'
  <2>1. ~overlapped
    BY <1>3 DEF Begin, entry
  <2>2. \A c \in Callers : pc[c] = "idle"
    BY <2>1, BusyState DEF Begin
  <2>3. /\ Solo
        /\ \A c \in Callers : pc'[c] = "idle"
    BY <2>1, <2>2 DEF Begin, exec, IInv
  <2>4. \A c \in Callers : Busy(c)'
    BY <2>3 DEF Busy, AtEnter, AtPrepare, AtFn, AtCommit, AtUndo, AtFail
  <2>5. Rest'
    BY <2>2, <2>3 DEF Begin, Solo, Rest, Untouched
  <2>6. Books'
    BY <2>3 DEF Begin, Solo, Books
  <2> QED BY <2>3, <2>4, <2>5, <2>6 DEF Solo, Alone
<1> QED BY <1>1, <1>2, <1>3 DEF IInv

LEMMA ExecuteInv == ASSUME IInv, NEW c \in Callers, Execute(c) PROVE IInv'
<1>1. TypeOK'
  <2>1. /\ strategy' \in Strategies /\ running' \in [Callers -> Strategies]
        /\ pc' \in [Callers -> {"idle", "enter", "prepare", "fn", "commit", "undo", "fail"}]
        /\ result' \in [Callers -> {"none", "ok", "error"}] /\ calls' \in 0..MaxCalls
    BY TransactionAssumption DEF Execute, Pass, exec, IInv, TypeOK
  <2>2. firstErr' = firstErr
    BY Zenon DEF Execute, Pass, exec
  <2>5. ctxDone' \in [Callers -> BOOLEAN]
    <3>1. ctxDone' = ctxDone \/ \E d \in BOOLEAN : ctxDone' = [ctxDone EXCEPT ![c] = d]
      BY Zenon DEF Execute, Pass, exec
    <3> QED BY <3>1, Zenon DEF IInv, TypeOK
  <2>4. overlapped' \in BOOLEAN
    BY Zenon DEF Execute, Pass, exec, IInv, TypeOK
  <2>3. i' \in [Callers -> 0..N+1] /\ attempt' \in [Callers -> 0..MaxRetries]
    BY DEF Execute, Pass, exec, IInv, TypeOK
  <2> QED BY <2>1, <2>2, <2>3, <2>4, <2>5 DEF Execute, history, IInv, TypeOK
<1>2. Loops'
  BY DEF Execute, Pass, exec, IInv, Loops, TypeOK
<1>3. ASSUME ~overlapped' PROVE Solo'
  <2>1. CASE state # "Initial"
    BY <1>3, <2>1 DEF Execute, Pass, exec, history, IInv, TypeOK, Solo, Alone, Busy,
       AtEnter, AtPrepare, AtFn, AtCommit, AtUndo, AtFail, Undone, Rest, Untouched, Books
  <2>2. CASE state = "Initial"
    <3>1. ~overlapped /\ \A d \in Callers : pc[d] = "idle"
      BY <1>3, <2>2, Zenon DEF Execute, Pass, IInv, TypeOK
    <3>2. Solo /\ Untouched
      BY <2>2, <3>1 DEF IInv, Solo, Rest
    <3>3. /\ pc'[c] = "enter" /\ \A d \in Callers : d # c => pc'[d] = "idle"
          /\ \A d \in Callers : result'[d] = "ok" => result[d] = "ok"
          /\ state' = state /\ part' = part /\ completed' = completed /\ stored' = stored
      BY <2>2, <3>1 DEF Execute, Pass, IInv, TypeOK
    <3>4. \A d \in Callers : Busy(d)'
      BY <2>2, <3>2, <3>3 DEF Busy, AtEnter, AtPrepare, AtFn, AtCommit, AtUndo, AtFail,
         Untouched
    <3>5. Alone' /\ Rest'
      BY <3>3 DEF Alone, Rest
    <3>6. Books'
      BY <3>2, <3>3 DEF Solo, Books
    <3> QED BY <3>4, <3>5, <3>6 DEF Solo
  <2> QED BY <2>1, <2>2
<1> QED BY <1>1, <1>2, <1>3 DEF IInv

LEMMA SideStepInv ==
    ASSUME IInv,
           \/ CleanupCompletedTransactions
           \/ \E s \in Strategies : SetStrategy(s)
           \/ \E c \in Callers : ContextDone(c)
    PROVE  IInv'
<1>1. /\ UNCHANGED <<state, completed, pc, running, i, attempt, firstErr, result, calls,
                     overlapped, part, voted, doubtful, gaveUp>>
      /\ stored' = stored \/ completed
  BY DEF CleanupCompletedTransactions, SetStrategy, ContextDone, exec, entry, history
<1>2. TypeOK'
  <2>1. strategy' \in Strategies /\ stored' \in BOOLEAN /\ ctxDone' \in [Callers -> BOOLEAN]
    BY Zenon DEF CleanupCompletedTransactions, SetStrategy, ContextDone, exec, IInv,
       TypeOK
  <2> QED BY <1>1, <2>1 DEF IInv, TypeOK
<1>3. Loops'
  BY <1>1 DEF IInv, Loops
<1>4. ASSUME Solo PROVE Solo'
  BY <1>1, <1>4 DEF Solo, Alone, Busy, AtEnter, AtPrepare, AtFn, AtCommit, AtUndo, AtFail,
     Undone, Rest, Untouched, Books
<1> QED BY <1>1, <1>2, <1>3, <1>4 DEF IInv

LEMMA EnterInv == ASSUME IInv, NEW c \in Callers, Enter(c) PROVE IInv'
<1>1. pc[c] = "enter" /\ \A d \in Callers : d # c => pc'[d] = pc[d]
  BY DEF Enter, GoOnWith, Return, IInv, TypeOK
<1>3. Moves(c)
  <2>1. /\ 1 \in 0..N+1 /\ N \in 0..N+1 /\ 0 \in 0..N+1 /\ 0 <= N /\ N <= N /\ 1 >= 1
    BY TransactionAssumption
  <2> QED BY <2>1 DEF Enter, Return, Moves, GoesOn, Passes, Places
<1>4. TypeOK' /\ Loops'
  <2>1. /\ pc' \in [Callers -> Places] /\ i' \in [Callers -> 0..N+1]
        /\ attempt' \in [Callers -> 0..MaxRetries]
        /\ Loops'
    BY <1>3, MovesInv DEF IInv
  <2>2. /\ strategy' \in Strategies /\ running' \in [Callers -> Strategies]
        /\ state' \in States \union {"none"}
        /\ result' \in [Callers -> {"none", "ok", "error"}] /\ calls' \in 0..MaxCalls
    BY DEF Enter, GoOnWith, Return, entry, IInv, TypeOK, States
  <2>3. /\ stored' \in BOOLEAN /\ completed' \in BOOLEAN /\ overlapped' \in BOOLEAN
        /\ firstErr' \in [Callers -> BOOLEAN] /\ ctxDone' \in [Callers -> BOOLEAN]
    BY Zenon DEF Enter, GoOnWith, Return, entry, IInv, TypeOK
  <2>4. part' \in [Participants -> {"untouched", "prepared", "committed", "undone"}]
    BY DEF Enter, GoOnWith, Return, IInv, TypeOK
  <2>5. /\ voted' \subseteq Participants /\ doubtful' \subseteq Participants
        /\ gaveUp' \subseteq Participants
    BY DEF Enter, GoOnWith, Return, history, IInv, TypeOK
  <2> QED BY <2>1, <2>2, <2>3, <2>4, <2>5 DEF TypeOK, Places
<1>5. ASSUME ~overlapped' PROVE Solo'
  <2>1. ~overlapped /\ Busy(c) /\ Books
    BY <1>5 DEF Enter, entry, IInv, Solo
  <2>2. /\ state \notin {"none", "Committed", "Failed"}
        /\ \A d \in Callers : result[d] # "ok"
    BY <1>1, <2>1, BusyState
  <2>3. Busy(c)'
    <3>1. AtPrepare(c)'
      BY TransactionAssumption, <1>1, <2>1 DEF Enter, GoOnWith, Return, history, IInv,
         TypeOK, Busy, AtPrepare, AtEnter, Undone, Untouched, Participants, Strategies
    <3>2. AtCommit(c)'
      BY TransactionAssumption, <1>1, <2>1 DEF Enter, GoOnWith, Return, history, IInv,
         TypeOK, Busy, AtCommit, AtEnter, Undone, Untouched, Participants, Strategies
    <3>3. AtEnter(c)' /\ AtFn(c)' /\ AtUndo(c)' /\ AtFail(c)'
      BY <1>1 DEF Enter, GoOnWith, Return, IInv, TypeOK, AtEnter, AtFn, AtUndo, AtFail
    <3> QED BY <3>1, <3>2, <3>3 DEF Busy
  <2>4. pc'[c] = "idle" => Rest'
    BY TransactionAssumption, <1>1, <2>1 DEF Enter, GoOnWith, Return, history, IInv,
       TypeOK, Busy, AtEnter, Undone, Rest, Untouched, Participants
  <2>5. Books'
    BY <1>1, <2>1, <2>2 DEF Enter, GoOnWith, Return, entry, history, Books, Busy, AtEnter,
       IInv, TypeOK
  <2> QED BY <1>1, <2>1, <2>3, <2>4, <2>5, SoloStep, SoloReturn, SMTT(30)
<1> QED BY <1>4, <1>5 DEF IInv

LEMMA PrepareInv == ASSUME IInv, NEW c \in Callers, Prepare(c) PROVE IInv'
<1>1. pc[c] = "prepare" /\ \A d \in Callers : d # c => pc'[d] = pc[d]
  BY DEF Prepare, Effect, Noted, GoOnWith, Retry, StartUndo, IInv, TypeOK
<1>2. i[c] \in Participants
  BY TransactionAssumption, SMTT(30) DEF Prepare, IInv, TypeOK, Loops, Participants
<1>3. Moves(c)
  <2>1. /\ 1 \in 0..N+1 /\ N \in 0..N+1 /\ 0 \in 0..N+1 /\ 0 <= N /\ N <= N /\ 1 >= 1
    BY TransactionAssumption
  <2>2. /\ i[c] + 1 \in 0..N+1 /\ i[c] - 1 \in 0..N+1
        /\ i[c] + 1 >= 1 /\ i[c] - 1 <= N
    BY <1>2, TransactionAssumption DEF Participants
  <2> QED BY <2>1, <2>2 DEF Prepare, Effect, Noted, StartUndo, Moves, GoesOn, Passes,
             Places
<1>4. TypeOK' /\ Loops'
  <2>1. /\ pc' \in [Callers -> Places] /\ i' \in [Callers -> 0..N+1]
        /\ attempt' \in [Callers -> 0..MaxRetries]
        /\ Loops'
    BY <1>3, MovesInv DEF IInv
  <2>2. /\ strategy' \in Strategies /\ running' \in [Callers -> Strategies]
        /\ state' \in States \union {"none"}
        /\ result' \in [Callers -> {"none", "ok", "error"}] /\ calls' \in 0..MaxCalls
    BY DEF Prepare, Effect, Noted, GoOnWith, Retry, StartUndo, entry, IInv, TypeOK, States
  <2>3. /\ stored' \in BOOLEAN /\ completed' \in BOOLEAN /\ overlapped' \in BOOLEAN
        /\ firstErr' \in [Callers -> BOOLEAN] /\ ctxDone' \in [Callers -> BOOLEAN]
    BY Zenon DEF Prepare, Effect, Noted, GoOnWith, Retry, StartUndo, entry, IInv, TypeOK
  <2>4. part' \in [Participants -> {"untouched", "prepared", "committed", "undone"}]
    BY <1>2 DEF Prepare, Effect, Noted, GoOnWith, Retry, StartUndo, IInv, TypeOK
  <2>5. /\ voted' \subseteq Participants /\ doubtful' \subseteq Participants
        /\ gaveUp' \subseteq Participants
    BY <1>2 DEF Prepare, Effect, Noted, GoOnWith, Retry, StartUndo, history, IInv, TypeOK
  <2> QED BY <2>1, <2>2, <2>3, <2>4, <2>5 DEF TypeOK, Places
<1>5. ASSUME ~overlapped' PROVE Solo'
  <2>1. ~overlapped /\ Busy(c) /\ Books
    BY <1>5 DEF Prepare, entry, IInv, Solo
  <2>2. /\ state \notin {"none", "Committed", "Failed"}
        /\ \A d \in Callers : result[d] # "ok"
    BY <1>1, <2>1, BusyState
  <2>3. pc'[c] # "idle"
    BY <1>1 DEF Prepare, Effect, Noted, GoOnWith, Retry, StartUndo, IInv, TypeOK
  <2>4. Busy(c)'
    <3>1. AtPrepare(c)'
      BY TransactionAssumption, <1>1, <1>2, <2>1 DEF Prepare, Effect, Noted, GoOnWith,
         Retry, StartUndo, history, IInv, TypeOK, Busy, AtPrepare, Undone, Untouched,
         Participants, Strategies
    <3>2. AtUndo(c)'
      BY TransactionAssumption, <1>1, <1>2, <2>1 DEF Prepare, Effect, Noted, GoOnWith,
         Retry, StartUndo, history, IInv, TypeOK, Busy, AtUndo, AtPrepare, Undone,
         Untouched, Participants, Strategies
    <3>3. AtEnter(c)' /\ AtFn(c)' /\ AtCommit(c)' /\ AtFail(c)'
      BY <1>1 DEF Prepare, Effect, Noted, GoOnWith, Retry, StartUndo, IInv, TypeOK,
         AtEnter, AtFn, AtCommit, AtFail
    <3> QED BY <3>1, <3>2, <3>3 DEF Busy
  <2>5. Books'
    BY <1>1, <2>1, <2>2 DEF Prepare, Effect, Noted, GoOnWith, Retry, StartUndo, entry,
       history, Books, Busy, AtPrepare, IInv, TypeOK
  <2> QED BY <1>1, <2>1, <2>3, <2>4, <2>5, SoloStep, SMTT(30)
<1> QED BY <1>4, <1>5 DEF IInv

LEMMA PrepareCancelledInv == ASSUME IInv, NEW c \in Callers, PrepareCancelled(c) PROVE IInv'
<1>1. pc[c] = "prepare" /\ \A d \in Callers : d # c => pc'[d] = pc[d]
  BY DEF PrepareCancelled, GoOnWith, StartUndo, IInv, TypeOK
<1>3. Moves(c)
  <2>1. /\ 1 \in 0..N+1 /\ N \in 0..N+1 /\ 0 \in 0..N+1 /\ 0 <= N /\ N <= N /\ 1 >= 1
    BY TransactionAssumption
  <2> QED BY <2>1 DEF PrepareCancelled, StartUndo, Moves, GoesOn, Passes, Places
<1>4. TypeOK' /\ Loops'
  <2>1. /\ pc' \in [Callers -> Places] /\ i' \in [Callers -> 0..N+1]
        /\ attempt' \in [Callers -> 0..MaxRetries]
        /\ Loops'
    BY <1>3, MovesInv DEF IInv
  <2>2. /\ strategy' \in Strategies /\ running' \in [Callers -> Strategies]
        /\ state' \in States \union {"none"}
        /\ result' \in [Callers -> {"none", "ok", "error"}] /\ calls' \in 0..MaxCalls
    BY DEF PrepareCancelled, GoOnWith, StartUndo, entry, IInv, TypeOK, States
  <2>3. /\ stored' \in BOOLEAN /\ completed' \in BOOLEAN /\ overlapped' \in BOOLEAN
        /\ firstErr' \in [Callers -> BOOLEAN] /\ ctxDone' \in [Callers -> BOOLEAN]
    BY Zenon DEF PrepareCancelled, GoOnWith, StartUndo, entry, IInv, TypeOK
  <2>4. part' \in [Participants -> {"untouched", "prepared", "committed", "undone"}]
    BY DEF PrepareCancelled, GoOnWith, StartUndo, IInv, TypeOK
  <2>5. /\ voted' \subseteq Participants /\ doubtful' \subseteq Participants
        /\ gaveUp' \subseteq Participants
    BY DEF PrepareCancelled, GoOnWith, StartUndo, history, IInv, TypeOK
  <2> QED BY <2>1, <2>2, <2>3, <2>4, <2>5 DEF TypeOK, Places
<1>5. ASSUME ~overlapped' PROVE Solo'
  <2>1. ~overlapped /\ Busy(c) /\ Books
    BY <1>5 DEF PrepareCancelled, entry, IInv, Solo
  <2>2. /\ state \notin {"none", "Committed", "Failed"}
        /\ \A d \in Callers : result[d] # "ok"
    BY <1>1, <2>1, BusyState
  <2>3. pc'[c] # "idle"
    BY <1>1 DEF PrepareCancelled, GoOnWith, StartUndo, IInv, TypeOK
  <2>4. Busy(c)'
    <3>1. AtUndo(c)'
      <4>1. /\ i'[c] = N /\ running'[c] = "2pc" /\ state' = "RollingBack"
            /\ \A p \in Participants : part'[p] \in {"untouched", "prepared"}
        BY <1>1, <2>1 DEF PrepareCancelled, StartUndo, GoOnWith, IInv, TypeOK, Busy,
           AtPrepare
      <4>2. \A p \in Participants : ~(p > N)
        BY TransactionAssumption DEF Participants
      <4> QED BY <4>1, <4>2 DEF AtUndo
    <3>2. AtEnter(c)' /\ AtPrepare(c)' /\ AtFn(c)' /\ AtCommit(c)' /\ AtFail(c)'
      BY <1>1 DEF PrepareCancelled, GoOnWith, StartUndo, IInv, TypeOK, AtEnter, AtPrepare,
         AtFn, AtCommit, AtFail
    <3> QED BY <3>1, <3>2 DEF Busy
  <2>5. Books'
    BY <1>1, <2>1, <2>2 DEF PrepareCancelled, GoOnWith, StartUndo, entry, history, Books,
       Busy, AtPrepare, IInv, TypeOK
  <2> QED BY <1>1, <2>1, <2>3, <2>4, <2>5, SoloStep, SMTT(30)
<1> QED BY <1>4, <1>5 DEF IInv

LEMMA AllPreparedInv == ASSUME IInv, NEW c \in Callers, AllPrepared(c) PROVE IInv'
<1>1. pc[c] = "prepare" /\ \A d \in Callers : d # c => pc'[d] = pc[d]
  BY DEF AllPrepared, IInv, TypeOK
<1>3. Moves(c)
  <2>1. /\ 1 \in 0..N+1 /\ N \in 0..N+1 /\ 0 \in 0..N+1 /\ 0 <= N /\ N <= N /\ 1 >= 1
    BY TransactionAssumption
  <2> QED BY <2>1, Zenon DEF AllPrepared, Moves, GoesOn, Passes, Places
<1>4. TypeOK' /\ Loops'
  <2>1. /\ pc' \in [Callers -> Places] /\ i' \in [Callers -> 0..N+1]
        /\ attempt' \in [Callers -> 0..MaxRetries]
        /\ Loops'
    BY <1>3, MovesInv DEF IInv
  <2>2. /\ strategy' \in Strategies /\ running' \in [Callers -> Strategies]
        /\ state' \in States \union {"none"}
        /\ result' \in [Callers -> {"none", "ok", "error"}] /\ calls' \in 0..MaxCalls
    BY DEF AllPrepared, entry, IInv, TypeOK, States
  <2>3. /\ stored' \in BOOLEAN /\ completed' \in BOOLEAN /\ overlapped' \in BOOLEAN
        /\ firstErr' \in [Callers -> BOOLEAN] /\ ctxDone' \in [Callers -> BOOLEAN]
    BY Zenon DEF AllPrepared, entry, IInv, TypeOK
  <2>4. part' \in [Participants -> {"untouched", "prepared", "committed", "undone"}]
    BY DEF AllPrepared, IInv, TypeOK
  <2>5. /\ voted' \subseteq Participants /\ doubtful' \subseteq Participants
        /\ gaveUp' \subseteq Participants
    BY DEF AllPrepared, history, IInv, TypeOK
  <2> QED BY <2>1, <2>2, <2>3, <2>4, <2>5 DEF TypeOK, Places
<1>5. ASSUME ~overlapped' PROVE Solo'
  <2>1. ~overlapped /\ Busy(c) /\ Books
    BY <1>5 DEF AllPrepared, entry, IInv, Solo
  <2>2. /\ state \notin {"none", "Committed", "Failed"}
        /\ \A d \in Callers : result[d] # "ok"
    BY <1>1, <2>1, BusyState
  <2>3. pc'[c] # "idle"
    BY <1>1 DEF AllPrepared, IInv, TypeOK
  <2>4. Busy(c)'
    <3>1. AtFn(c)'
      <4>1. \A p \in Participants : p < i[c] /\ p \in voted /\ part[p] = "prepared"
        BY TransactionAssumption, <1>1, <2>1 DEF AllPrepared, IInv, TypeOK, Busy,
           AtPrepare, Participants
      <4>2. voted = Participants /\ running[c] = "2pc"
        BY <1>1, <2>1, <4>1 DEF IInv, TypeOK, Busy, AtPrepare
      <4> QED BY <4>1, <4>2 DEF AllPrepared, history, IInv, TypeOK, AtFn
    <3>2. AtEnter(c)' /\ AtPrepare(c)' /\ AtCommit(c)' /\ AtUndo(c)' /\ AtFail(c)'
      BY <1>1 DEF AllPrepared, IInv, TypeOK, AtEnter, AtPrepare, AtCommit, AtUndo, AtFail
    <3> QED BY <3>1, <3>2 DEF Busy
  <2>5. Books'
    BY <1>1, <2>1, <2>2 DEF AllPrepared, entry, history, Books, Busy, AtPrepare, IInv,
       TypeOK
  <2> QED BY <1>1, <2>1, <2>3, <2>4, <2>5, SoloStep, SMTT(30)
<1> QED BY <1>4, <1>5 DEF IInv

LEMMA FnInv == ASSUME IInv, NEW c \in Callers, Fn(c) PROVE IInv'
<1>1. pc[c] = "fn" /\ \A d \in Callers : d # c => pc'[d] = pc[d]
  BY DEF Fn, GoOnWith, StartUndo, Finish, Return, IInv, TypeOK
<1>3. Moves(c)
  <2>1. /\ 1 \in 0..N+1 /\ N \in 0..N+1 /\ 0 \in 0..N+1 /\ 0 <= N /\ N <= N /\ 1 >= 1
    BY TransactionAssumption
  <2> QED BY <2>1 DEF Fn, StartUndo, Finish, Return, Moves, GoesOn, Passes, Places
<1>4. TypeOK' /\ Loops'
  <2>1. /\ pc' \in [Callers -> Places] /\ i' \in [Callers -> 0..N+1]
        /\ attempt' \in [Callers -> 0..MaxRetries]
        /\ Loops'
    BY <1>3, MovesInv DEF IInv
  <2>2. /\ strategy' \in Strategies /\ running' \in [Callers -> Strategies]
        /\ state' \in States \union {"none"}
        /\ result' \in [Callers -> {"none", "ok", "error"}] /\ calls' \in 0..MaxCalls
    BY DEF Fn, GoOnWith, StartUndo, Finish, Return, entry, IInv, TypeOK, States
  <2>3. /\ stored' \in BOOLEAN /\ completed' \in BOOLEAN /\ overlapped' \in BOOLEAN
        /\ firstErr' \in [Callers -> BOOLEAN] /\ ctxDone' \in [Callers -> BOOLEAN]
    BY Zenon DEF Fn, GoOnWith, StartUndo, Finish, Return, entry, IInv, TypeOK
  <2>4. part' \in [Participants -> {"untouched", "prepared", "committed", "undone"}]
    BY DEF Fn, GoOnWith, StartUndo, Finish, Return, IInv, TypeOK
  <2>5. /\ voted' \subseteq Participants /\ doubtful' \subseteq Participants
        /\ gaveUp' \subseteq Participants
    BY DEF Fn, GoOnWith, StartUndo, Finish, Return, history, IInv, TypeOK
  <2> QED BY <2>1, <2>2, <2>3, <2>4, <2>5 DEF TypeOK, Places
<1>5. ASSUME ~overlapped' PROVE Solo'
  <2>1. ~overlapped /\ Busy(c) /\ Books
    BY <1>5 DEF Fn, entry, IInv, Solo
  <2>2. /\ state \notin {"none", "Committed", "Failed"}
        /\ \A d \in Callers : result[d] # "ok"
    BY <1>1, <2>1, BusyState
  <2>3. Busy(c)'
    <3>1. AtCommit(c)'
      BY TransactionAssumption, <1>1, <2>1 DEF Fn, GoOnWith, StartUndo, Finish, Return,
         history, IInv, TypeOK, Busy, AtCommit, AtFn, Undone, Untouched, Participants,
         Strategies
    <3>2. AtUndo(c)'
      BY TransactionAssumption, <1>1, <2>1 DEF Fn, GoOnWith, StartUndo, Finish, Return,
         history, IInv, TypeOK, Busy, AtUndo, AtFn, Undone, Untouched, Participants,
         Strategies
    <3>3. AtEnter(c)' /\ AtPrepare(c)' /\ AtFn(c)' /\ AtFail(c)'
      BY <1>1 DEF Fn, GoOnWith, StartUndo, Finish, Return, IInv, TypeOK, AtEnter,
         AtPrepare, AtFn, AtFail
    <3> QED BY <3>1, <3>2, <3>3 DEF Busy
  <2>4. pc'[c] = "idle" => Rest'
    BY TransactionAssumption, <1>1, <2>1 DEF Fn, GoOnWith, StartUndo, Finish, Return,
       history, IInv, TypeOK, Busy, AtFn, Undone, Rest, Untouched, Participants
  <2>5. Books'
    BY <1>1, <2>1, <2>2 DEF Fn, GoOnWith, StartUndo, Finish, Return, entry, history,
       Books, Busy, AtFn, IInv, TypeOK
  <2> QED BY <1>1, <2>1, <2>3, <2>4, <2>5, SoloStep, SoloReturn, SMTT(30)
<1> QED BY <1>4, <1>5 DEF IInv

LEMMA CommitInv == ASSUME IInv, NEW c \in Callers, Commit(c) PROVE IInv'
<1>1. pc[c] = "commit" /\ \A d \in Callers : d # c => pc'[d] = pc[d]
  BY DEF Commit, Effect, Noted, GoOnWith, Retry, StartUndo, GiveUpCommit, IInv, TypeOK
<1>2. i[c] \in Participants
  BY TransactionAssumption, SMTT(30) DEF Commit, IInv, TypeOK, Loops, Participants
<1>3. Moves(c)
  <2>1. /\ 1 \in 0..N+1 /\ N \in 0..N+1 /\ 0 \in 0..N+1 /\ 0 <= N /\ N <= N /\ 1 >= 1
    BY TransactionAssumption
  <2>2. /\ i[c] + 1 \in 0..N+1 /\ i[c] - 1 \in 0..N+1
        /\ i[c] + 1 >= 1 /\ i[c] - 1 <= N
    BY <1>2, TransactionAssumption DEF Participants
  <2> QED BY <2>1, <2>2 DEF Commit, Effect, Noted, StartUndo, GiveUpCommit, Moves, GoesOn,
             Passes, Places
<1>4. TypeOK' /\ Loops'
  <2>1. /\ pc' \in [Callers -> Places] /\ i' \in [Callers -> 0..N+1]
        /\ attempt' \in [Callers -> 0..MaxRetries]
        /\ Loops'
    BY <1>3, MovesInv DEF IInv
  <2>2. /\ strategy' \in Strategies /\ running' \in [Callers -> Strategies]
        /\ state' \in States \union {"none"}
        /\ result' \in [Callers -> {"none", "ok", "error"}] /\ calls' \in 0..MaxCalls
    BY DEF Commit, Effect, Noted, GoOnWith, Retry, StartUndo, GiveUpCommit, entry, IInv,
       TypeOK, States
  <2>3. /\ stored' \in BOOLEAN /\ completed' \in BOOLEAN /\ overlapped' \in BOOLEAN
        /\ firstErr' \in [Callers -> BOOLEAN] /\ ctxDone' \in [Callers -> BOOLEAN]
    BY Zenon DEF Commit, Effect, Noted, GoOnWith, Retry, StartUndo, GiveUpCommit, entry,
       IInv, TypeOK
  <2>4. part' \in [Participants -> {"untouched", "prepared", "committed", "undone"}]
    BY <1>2 DEF Commit, Effect, Noted, GoOnWith, Retry, StartUndo, GiveUpCommit, IInv,
       TypeOK
  <2>5. /\ voted' \subseteq Participants /\ doubtful' \subseteq Participants
        /\ gaveUp' \subseteq Participants
    BY <1>2 DEF Commit, Effect, Noted, GoOnWith, Retry, StartUndo, GiveUpCommit, history,
       IInv, TypeOK
  <2> QED BY <2>1, <2>2, <2>3, <2>4, <2>5 DEF TypeOK, Places
<1>5. ASSUME ~overlapped' PROVE Solo'
  <2>1. ~overlapped /\ Busy(c) /\ Books
    BY <1>5 DEF Commit, entry, IInv, Solo
  <2>2. /\ state \notin {"none", "Committed", "Failed"}
        /\ \A d \in Callers : result[d] # "ok"
    BY <1>1, <2>1, BusyState
  <2>3. pc'[c] # "idle"
    BY <1>1 DEF Commit, Effect, Noted, GoOnWith, Retry, StartUndo, GiveUpCommit, IInv,
       TypeOK
  <2>4. Busy(c)'
    <3>1. AtCommit(c)'
      BY TransactionAssumption, <1>1, <1>2, <2>1 DEF Commit, Effect, Noted, GoOnWith,
         Retry, StartUndo, GiveUpCommit, history, IInv, TypeOK, Busy, AtCommit, Undone,
         Untouched, Participants, Strategies
    <3>2. AtUndo(c)'
      BY TransactionAssumption, <1>1, <1>2, <2>1 DEF Commit, Effect, Noted, GoOnWith,
         Retry, StartUndo, GiveUpCommit, history, IInv, TypeOK, Busy, AtUndo, AtCommit,
         Undone, Untouched, Participants, Strategies
    <3>3. AtEnter(c)' /\ AtPrepare(c)' /\ AtFn(c)' /\ AtFail(c)'
      BY <1>1 DEF Commit, Effect, Noted, GoOnWith, Retry, StartUndo, GiveUpCommit, IInv,
         TypeOK, AtEnter, AtPrepare, AtFn, AtFail
    <3> QED BY <3>1, <3>2, <3>3 DEF Busy
  <2>5. Books'
    BY <1>1, <2>1, <2>2 DEF Commit, Effect, Noted, GoOnWith, Retry, StartUndo,
       GiveUpCommit, entry, history, Books, Busy, AtCommit, IInv, TypeOK
  <2> QED BY <1>1, <2>1, <2>3, <2>4, <2>5, SoloStep, SMTT(30)
<1> QED BY <1>4, <1>5 DEF IInv

LEMMA CommitCancelledInv == ASSUME IInv, NEW c \in Callers, CommitCancelled(c) PROVE IInv'
<1>1. pc[c] = "commit" /\ \A d \in Callers : d # c => pc'[d] = pc[d]
  BY DEF CommitCancelled, Noted, GoOnWith, StartUndo, GiveUpCommit, IInv, TypeOK
<1>2. i[c] \in Participants
  BY TransactionAssumption, SMTT(30) DEF CommitCancelled, IInv, TypeOK, Loops,
     Participants
<1>3. Moves(c)
  <2>1. /\ 1 \in 0..N+1 /\ N \in 0..N+1 /\ 0 \in 0..N+1 /\ 0 <= N /\ N <= N /\ 1 >= 1
    BY TransactionAssumption
  <2>2. /\ i[c] + 1 \in 0..N+1 /\ i[c] - 1 \in 0..N+1
        /\ i[c] + 1 >= 1 /\ i[c] - 1 <= N
    BY <1>2, TransactionAssumption DEF Participants
  <2> QED BY <2>1, <2>2, Zenon DEF CommitCancelled, Noted, StartUndo, GiveUpCommit, Moves,
             GoesOn, Passes, Places
<1>4. TypeOK' /\ Loops'
  <2>1. /\ pc' \in [Callers -> Places] /\ i' \in [Callers -> 0..N+1]
        /\ attempt' \in [Callers -> 0..MaxRetries]
        /\ Loops'
    BY <1>3, MovesInv DEF IInv
  <2>2. /\ strategy' \in Strategies /\ running' \in [Callers -> Strategies]
        /\ state' \in States \union {"none"}
        /\ result' \in [Callers -> {"none", "ok", "error"}] /\ calls' \in 0..MaxCalls
    BY DEF CommitCancelled, Noted, GoOnWith, StartUndo, GiveUpCommit, entry, IInv, TypeOK,
       States
  <2>3. /\ stored' \in BOOLEAN /\ completed' \in BOOLEAN /\ overlapped' \in BOOLEAN
        /\ firstErr' \in [Callers -> BOOLEAN] /\ ctxDone' \in [Callers -> BOOLEAN]
    BY Zenon DEF CommitCancelled, Noted, GoOnWith, StartUndo, GiveUpCommit, entry, IInv,
       TypeOK
  <2>4. part' \in [Participants -> {"untouched", "prepared", "committed", "undone"}]
    BY <1>2 DEF CommitCancelled, Noted, GoOnWith, StartUndo, GiveUpCommit, IInv, TypeOK
  <2>5. /\ voted' \subseteq Participants /\ doubtful' \subseteq Participants
        /\ gaveUp' \subseteq Participants
    BY <1>2 DEF CommitCancelled, Noted, GoOnWith, StartUndo, GiveUpCommit, history, IInv,
       TypeOK
  <2> QED BY <2>1, <2>2, <2>3, <2>4, <2>5 DEF TypeOK, Places
<1>5. ASSUME ~overlapped' PROVE Solo'
  <2>1. ~overlapped /\ Busy(c) /\ Books
    BY <1>5 DEF CommitCancelled, entry, IInv, Solo
  <2>2. /\ state \notin {"none", "Committed", "Failed"}
        /\ \A d \in Callers : result[d] # "ok"
    BY <1>1, <2>1, BusyState
  <2>3. pc'[c] # "idle"
    BY <1>1 DEF CommitCancelled, Noted, GoOnWith, StartUndo, GiveUpCommit, IInv, TypeOK
  <2>4. Busy(c)'
    <3>1. AtCommit(c)'
      BY TransactionAssumption, <1>1, <1>2, <2>1 DEF CommitCancelled, Noted, GoOnWith,
         StartUndo, GiveUpCommit, history, IInv, TypeOK, Busy, AtCommit, Undone,
         Untouched, Participants, Strategies
    <3>2. AtUndo(c)'
      BY TransactionAssumption, <1>1, <1>2, <2>1 DEF CommitCancelled, Noted, GoOnWith,
         StartUndo, GiveUpCommit, history, IInv, TypeOK, Busy, AtUndo, AtCommit, Undone,
         Untouched, Participants, Strategies
    <3>3. AtEnter(c)' /\ AtPrepare(c)' /\ AtFn(c)' /\ AtFail(c)'
      BY <1>1 DEF CommitCancelled, Noted, GoOnWith, StartUndo, GiveUpCommit, IInv, TypeOK,
         AtEnter, AtPrepare, AtFn, AtFail
    <3> QED BY <3>1, <3>2, <3>3 DEF Busy
  <2>5. Books'
    BY <1>1, <2>1, <2>2 DEF CommitCancelled, Noted, GoOnWith, StartUndo, GiveUpCommit,
       entry, history, Books, Busy, AtCommit, IInv, TypeOK
  <2> QED BY <1>1, <2>1, <2>3, <2>4, <2>5, SoloStep, SMTT(30)
<1> QED BY <1>4, <1>5 DEF IInv

LEMMA AllCommittedInv == ASSUME IInv, NEW c \in Callers, AllCommitted(c) PROVE IInv'
<1>1. pc[c] = "commit" /\ \A d \in Callers : d # c => pc'[d] = pc[d]
  BY DEF AllCommitted, GoOnWith, StartUndo, Finish, Return, IInv, TypeOK
<1>3. Moves(c)
  <2>1. /\ 1 \in 0..N+1 /\ N \in 0..N+1 /\ 0 \in 0..N+1 /\ 0 <= N /\ N <= N /\ 1 >= 1
    BY TransactionAssumption
  <2> QED BY <2>1 DEF AllCommitted, StartUndo, Finish, Return, Moves, GoesOn, Passes,
             Places
<1>4. TypeOK' /\ Loops'
  <2>1. /\ pc' \in [Callers -> Places] /\ i' \in [Callers -> 0..N+1]
        /\ attempt' \in [Callers -> 0..MaxRetries]
        /\ Loops'
    BY <1>3, MovesInv DEF IInv
  <2>2. /\ strategy' \in Strategies /\ running' \in [Callers -> Strategies]
        /\ state' \in States \union {"none"}
        /\ result' \in [Callers -> {"none", "ok", "error"}] /\ calls' \in 0..MaxCalls
    BY DEF AllCommitted, GoOnWith, StartUndo, Finish, Return, entry, IInv, TypeOK, States
  <2>3. /\ stored' \in BOOLEAN /\ completed' \in BOOLEAN /\ overlapped' \in BOOLEAN
        /\ firstErr' \in [Callers -> BOOLEAN] /\ ctxDone' \in [Callers -> BOOLEAN]
    BY Zenon DEF AllCommitted, GoOnWith, StartUndo, Finish, Return, entry, IInv, TypeOK
  <2>4. part' \in [Participants -> {"untouched", "prepared", "committed", "undone"}]
    BY DEF AllCommitted, GoOnWith, StartUndo, Finish, Return, IInv, TypeOK
  <2>5. /\ voted' \subseteq Participants /\ doubtful' \subseteq Participants
        /\ gaveUp' \subseteq Participants
    BY DEF AllCommitted, GoOnWith, StartUndo, Finish, Return, history, IInv, TypeOK
  <2> QED BY <2>1, <2>2, <2>3, <2>4, <2>5 DEF TypeOK, Places
<1>5. ASSUME ~overlapped' PROVE Solo'
  <2>1. ~overlapped /\ Busy(c) /\ Books
    BY <1>5, Zenon DEF AllCommitted, entry, IInv, Solo
  <2>2. /\ state \notin {"none", "Committed", "Failed"}
        /\ \A d \in Callers : result[d] # "ok"
    BY <1>1, <2>1, BusyState
  <2>3. Busy(c)'
    <3>1. AtFn(c)'
      BY TransactionAssumption, <1>1, <2>1 DEF AllCommitted, GoOnWith, StartUndo, Finish,
         Return, history, IInv, TypeOK, Busy, AtFn, AtCommit, Undone, Untouched,
         Participants, Strategies
    <3>2. AtUndo(c)'
      BY TransactionAssumption, <1>1, <2>1 DEF AllCommitted, GoOnWith, StartUndo, Finish,
         Return, history, IInv, TypeOK, Busy, AtUndo, AtCommit, Undone, Untouched,
         Participants, Strategies
    <3>3. AtEnter(c)' /\ AtPrepare(c)' /\ AtCommit(c)' /\ AtFail(c)'
      BY <1>1 DEF AllCommitted, GoOnWith, StartUndo, Finish, Return, IInv, TypeOK,
         AtEnter, AtPrepare, AtCommit, AtFail
    <3> QED BY <3>1, <3>2, <3>3 DEF Busy
  <2>4. pc'[c] = "idle" => Rest'
    BY TransactionAssumption, <1>1, <2>1 DEF AllCommitted, GoOnWith, StartUndo, Finish,
       Return, history, IInv, TypeOK, Busy, AtCommit, Undone, Rest, Untouched,
       Participants
  <2>5. Books'
    BY <1>1, <2>1, <2>2 DEF AllCommitted, GoOnWith, StartUndo, Finish, Return, entry,
       history, Books, Busy, AtCommit, IInv, TypeOK
  <2> QED BY <1>1, <2>1, <2>3, <2>4, <2>5, SoloStep, SoloReturn, SMTT(30)
<1> QED BY <1>4, <1>5 DEF IInv

LEMMA RollbackInv == ASSUME IInv, NEW c \in Callers, Rollback(c) PROVE IInv'
<1>1. pc[c] = "undo" /\ \A d \in Callers : d # c => pc'[d] = pc[d]
  BY DEF Rollback, Effect, Noted, GoOnWith, Retry, IInv, TypeOK
<1>2. i[c] \in Participants
  BY TransactionAssumption, SMTT(30) DEF Rollback, IInv, TypeOK, Loops, Participants
<1>3. Moves(c)
  <2>1. /\ 1 \in 0..N+1 /\ N \in 0..N+1 /\ 0 \in 0..N+1 /\ 0 <= N /\ N <= N /\ 1 >= 1
    BY TransactionAssumption
  <2>2. /\ i[c] + 1 \in 0..N+1 /\ i[c] - 1 \in 0..N+1
        /\ i[c] + 1 >= 1 /\ i[c] - 1 <= N
    BY <1>2, TransactionAssumption DEF Participants
  <2> QED BY <2>1, <2>2 DEF Rollback, Effect, Noted, Moves, GoesOn, Passes, Places
<1>4. TypeOK' /\ Loops'
  <2>1. /\ pc' \in [Callers -> Places] /\ i' \in [Callers -> 0..N+1]
        /\ attempt' \in [Callers -> 0..MaxRetries]
        /\ Loops'
    BY <1>3, MovesInv DEF IInv
  <2>2. /\ strategy' \in Strategies /\ running' \in [Callers -> Strategies]
        /\ state' \in States \union {"none"}
        /\ result' \in [Callers -> {"none", "ok", "error"}] /\ calls' \in 0..MaxCalls
    BY DEF Rollback, Effect, Noted, GoOnWith, Retry, entry, IInv, TypeOK, States
  <2>3. /\ stored' \in BOOLEAN /\ completed' \in BOOLEAN /\ overlapped' \in BOOLEAN
        /\ firstErr' \in [Callers -> BOOLEAN] /\ ctxDone' \in [Callers -> BOOLEAN]
    BY Zenon DEF Rollback, Effect, Noted, GoOnWith, Retry, entry, IInv, TypeOK
  <2>4. part' \in [Participants -> {"untouched", "prepared", "committed", "undone"}]
    BY <1>2 DEF Rollback, Effect, Noted, GoOnWith, Retry, IInv, TypeOK
  <2>5. /\ voted' \subseteq Participants /\ doubtful' \subseteq Participants
        /\ gaveUp' \subseteq Participants
    BY <1>2 DEF Rollback, Effect, Noted, GoOnWith, Retry, history, IInv, TypeOK
  <2> QED BY <2>1, <2>2, <2>3, <2>4, <2>5 DEF TypeOK, Places
<1>5. ASSUME ~overlapped' PROVE Solo'
  <2>1. ~overlapped /\ Busy(c) /\ Books
    BY <1>5 DEF Rollback, entry, IInv, Solo
  <2>2. /\ state \notin {"none", "Committed", "Failed"}
        /\ \A d \in Callers : result[d] # "ok"
    BY <1>1, <2>1, BusyState
  <2>3. pc'[c] # "idle"
    BY <1>1 DEF Rollback, Effect, Noted, GoOnWith, Retry, IInv, TypeOK
  <2>4. Busy(c)'
    <3>1. AtUndo(c)'
      BY TransactionAssumption, <1>1, <1>2, <2>1 DEF Rollback, Effect, Noted, GoOnWith,
         Retry, history, IInv, TypeOK, Busy, AtUndo, Undone, Untouched, Participants,
         Strategies
    <3>2. AtEnter(c)' /\ AtPrepare(c)' /\ AtFn(c)' /\ AtCommit(c)' /\ AtFail(c)'
      BY <1>1 DEF Rollback, Effect, Noted, GoOnWith, Retry, IInv, TypeOK, AtEnter,
         AtPrepare, AtFn, AtCommit, AtFail
    <3> QED BY <3>1, <3>2 DEF Busy
  <2>5. Books'
    BY <1>1, <2>1, <2>2 DEF Rollback, Effect, Noted, GoOnWith, Retry, entry, history,
       Books, Busy, AtUndo, IInv, TypeOK
  <2> QED BY <1>1, <2>1, <2>3, <2>4, <2>5, SoloStep, SMTT(30)
<1> QED BY <1>4, <1>5 DEF IInv

LEMMA UndoDoneInv == ASSUME IInv, NEW c \in Callers, UndoDone(c) PROVE IInv'
<1>1. pc[c] = "undo" /\ \A d \in Callers : d # c => pc'[d] = pc[d]
  BY DEF UndoDone, IInv, TypeOK
<1>3. Moves(c)
  <2>1. /\ 1 \in 0..N+1 /\ N \in 0..N+1 /\ 0 \in 0..N+1 /\ 0 <= N /\ N <= N /\ 1 >= 1
    BY TransactionAssumption
  <2> QED BY <2>1, Zenon DEF UndoDone, Moves, GoesOn, Passes, Places
<1>4. TypeOK' /\ Loops'
  <2>1. /\ pc' \in [Callers -> Places] /\ i' \in [Callers -> 0..N+1]
        /\ attempt' \in [Callers -> 0..MaxRetries]
        /\ Loops'
    BY <1>3, MovesInv DEF IInv
  <2>2. /\ strategy' \in Strategies /\ running' \in [Callers -> Strategies]
        /\ state' \in States \union {"none"}
        /\ result' \in [Callers -> {"none", "ok", "error"}] /\ calls' \in 0..MaxCalls
    BY DEF UndoDone, entry, IInv, TypeOK, States
  <2>3. /\ stored' \in BOOLEAN /\ completed' \in BOOLEAN /\ overlapped' \in BOOLEAN
        /\ firstErr' \in [Callers -> BOOLEAN] /\ ctxDone' \in [Callers -> BOOLEAN]
    BY Zenon DEF UndoDone, entry, IInv, TypeOK
  <2>4. part' \in [Participants -> {"untouched", "prepared", "committed", "undone"}]
    BY DEF UndoDone, IInv, TypeOK
  <2>5. /\ voted' \subseteq Participants /\ doubtful' \subseteq Participants
        /\ gaveUp' \subseteq Participants
    BY DEF UndoDone, history, IInv, TypeOK
  <2> QED BY <2>1, <2>2, <2>3, <2>4, <2>5 DEF TypeOK, Places
<1>5. ASSUME ~overlapped' PROVE Solo'
  <2>1. ~overlapped /\ Busy(c) /\ Books
    BY <1>5 DEF UndoDone, entry, IInv, Solo
  <2>2. /\ state \notin {"none", "Committed", "Failed"}
        /\ \A d \in Callers : result[d] # "ok"
    BY <1>1, <2>1, BusyState
  <2>3. pc'[c] # "idle"
    BY <1>1 DEF UndoDone, IInv, TypeOK
  <2>4. Busy(c)'
    <3>1. AtFail(c)'
      BY TransactionAssumption, <1>1, <2>1 DEF UndoDone, history, IInv, TypeOK, Busy,
         AtFail, AtUndo, Undone, Untouched, Participants, Strategies
    <3>2. AtEnter(c)' /\ AtPrepare(c)' /\ AtFn(c)' /\ AtCommit(c)' /\ AtUndo(c)'
      BY <1>1 DEF UndoDone, IInv, TypeOK, AtEnter, AtPrepare, AtFn, AtCommit, AtUndo
    <3> QED BY <3>1, <3>2 DEF Busy
  <2>5. Books'
    BY <1>1, <2>1, <2>2 DEF UndoDone, entry, history, Books, Busy, AtUndo, IInv, TypeOK
  <2> QED BY <1>1, <2>1, <2>3, <2>4, <2>5, SoloStep, SMTT(30)
<1> QED BY <1>4, <1>5 DEF IInv

LEMMA FailInv == ASSUME IInv, NEW c \in Callers, Fail(c) PROVE IInv'
<1>1. pc[c] = "fail" /\ \A d \in Callers : d # c => pc'[d] = pc[d]
  BY SMTT(30) DEF Fail, GoOnWith, Return, IInv, TypeOK
<1>3. Moves(c)
  <2>1. /\ 1 \in 0..N+1 /\ N \in 0..N+1 /\ 0 \in 0..N+1 /\ 0 <= N /\ N <= N /\ 1 >= 1
    BY TransactionAssumption
  <2> QED BY <2>1, Zenon DEF Fail, Return, Moves, GoesOn, Passes, Places
<1>4. TypeOK' /\ Loops'
  <2>1. /\ pc' \in [Callers -> Places] /\ i' \in [Callers -> 0..N+1]
        /\ attempt' \in [Callers -> 0..MaxRetries]
        /\ Loops'
    BY <1>3, MovesInv DEF IInv
  <2>2. /\ strategy' \in Strategies /\ running' \in [Callers -> Strategies]
        /\ state' \in States \union {"none"}
        /\ result' \in [Callers -> {"none", "ok", "error"}] /\ calls' \in 0..MaxCalls
    BY DEF Fail, GoOnWith, Return, entry, IInv, TypeOK, States
  <2>3. /\ stored' \in BOOLEAN /\ completed' \in BOOLEAN /\ overlapped' \in BOOLEAN
        /\ firstErr' \in [Callers -> BOOLEAN] /\ ctxDone' \in [Callers -> BOOLEAN]
    BY Zenon DEF Fail, GoOnWith, Return, entry, IInv, TypeOK
  <2>4. part' \in [Participants -> {"untouched", "prepared", "committed", "undone"}]
    BY DEF Fail, GoOnWith, Return, IInv, TypeOK
  <2>5. /\ voted' \subseteq Participants /\ doubtful' \subseteq Participants
        /\ gaveUp' \subseteq Participants
    BY DEF Fail, GoOnWith, Return, history, IInv, TypeOK
  <2> QED BY <2>1, <2>2, <2>3, <2>4, <2>5 DEF TypeOK, Places
<1>5. ASSUME ~overlapped' PROVE Solo'
  <2>1. ~overlapped /\ Busy(c) /\ Books
    BY <1>5 DEF Fail, entry, IInv, Solo
  <2>2. /\ state \notin {"none", "Committed", "Failed"}
        /\ \A d \in Callers : result[d] # "ok"
    BY <1>1, <2>1, BusyState
  <2>3. pc'[c] = "idle"
    BY <1>1 DEF Fail, GoOnWith, Return, IInv, TypeOK
  <2>4. Rest'
    BY <1>1, <2>1 DEF Fail, GoOnWith, Return, history, IInv, TypeOK, Busy, AtFail, Undone,
       Rest, Untouched
  <2>5. Books'
    BY <1>1, <2>1, <2>2 DEF Fail, GoOnWith, Return, entry, history, Books, Busy, AtFail,
       IInv, TypeOK
  <2> QED BY <1>1, <2>1, <2>3, <2>4, <2>5, SoloReturn
<1> QED BY <1>4, <1>5 DEF IInv

LEMMA NextInv == ASSUME IInv, [Next]_vars PROVE IInv'
<1>1. CASE UNCHANGED vars
  <2>1. UNCHANGED <<strategy, stored, state, completed, pc, running, i, attempt, firstErr,
                    ctxDone, result, calls, overlapped, part, voted, doubtful, gaveUp>>
    BY <1>1 DEF vars, exec, entry, history
  <2>2. TypeOK'
    BY <2>1 DEF IInv, TypeOK
  <2>3. Loops'
    BY <2>1, Zenon DEF IInv, Loops
  <2>4. ASSUME Solo PROVE Solo'
    BY <2>1, <2>4, SMTT(30) DEF Solo, Alone, Busy, AtEnter, AtPrepare, AtFn, AtCommit,
       AtUndo, AtFail, Undone, Rest, Untouched, Books
  <2> QED BY <2>1, <2>2, <2>3, <2>4 DEF IInv
<1>2. CASE Begin
  BY <1>2, BeginInv
<1>3. CASE \/ CleanupCompletedTransactions
           \/ \E s \in Strategies : SetStrategy(s)
           \/ \E c \in Callers : ContextDone(c)
  BY <1>3, SideStepInv
<1>4. CASE \E c \in Callers : Execute(c)
  BY <1>4, ExecuteInv
<1>5. CASE \E c \in Callers : Step(c)
  BY <1>5, EnterInv, PrepareInv, PrepareCancelledInv, AllPreparedInv, FnInv, CommitInv,
     CommitCancelledInv, AllCommittedInv, RollbackInv, UndoDoneInv, FailInv DEF Step
<1> QED BY <1>1, <1>2, <1>3, <1>4, <1>5 DEF Next

LEMMA Inductive == Spec => []IInv
BY InitInv, NextInv, PTL DEF Spec

-------------------------------------------------------------------------------
(* The theorems *)

(* The variables keep their types; in particular the loops over the participants *)
(* and the retry loops stay within their bounds, whoever else executes the      *)
(* transaction                                                                  *)
THEOREM TypeCorrect == Spec => []TypeOK
BY Inductive, PTL DEF IInv

(* Unless calls of Execute overlap, one reports success only when every         *)
(* participant has committed                                                    *)
THEOREM AllOrError == Spec => []CommittedEverywhere
<1>1. IInv => CommittedEverywhere
  <2> SUFFICES ASSUME IInv, ~overlapped,
                      state = "Committed" \/ \E c \in Callers : result[c] = "ok"
               PROVE  \A p \in Participants : part[p] = "committed"
    BY DEF CommittedEverywhere
  <2>1. state = "Committed"
    BY DEF IInv, Solo, Books
  <2>2. \A c \in Callers : pc[c] = "idle"
    BY <2>1, BusyState
  <2> QED BY <2>1, <2>2 DEF IInv, Solo, Rest
<1> QED BY <1>1, Inductive, PTL

(* Unless calls of Execute overlap, a failed transaction leaves behind only what *)
(* a participant refused to undo or what compensation never learned of          *)
THEOREM NothingLeft == Spec => []FailedNowhere
<1>1. IInv => FailedNowhere
  <2> SUFFICES ASSUME IInv, ~overlapped, state = "Failed"
               PROVE  \A p \in Participants : Undone(p)
    BY DEF FailedNowhere, Undone
  <2>1. \A c \in Callers : pc[c] = "idle"
    BY BusyState
  <2> QED BY <2>1 DEF IInv, Solo, Rest
<1> QED BY <1>1, Inductive, PTL

(* Unless calls of Execute overlap, rollback and compensation go through the    *)
(* participants from the last one back                                          *)
THEOREM ReverseOrder == Spec => []UndoneInReverse
<1>1. IInv => UndoneInReverse
  BY DEF IInv, Solo, Busy, AtUndo, Undone, UndoneInReverse
<1> QED BY <1>1, Inductive, PTL

(* Unless calls of Execute overlap, only a transaction that is over leaves the  *)
(* coordinator's store                                                          *)
THEOREM CleanupSafe == Spec => []CleanedOnlyWhenOver
<1>1. IInv => CleanedOnlyWhenOver
  BY DEF IInv, Solo, Books, CleanedOnlyWhenOver
<1> QED BY <1>1, Inductive, PTL

(* Only a call that is under way takes steps *)
LEMMA StepIsBusy == ASSUME NEW c \in Callers, Step(c) PROVE pc[c] # "idle"
<1>1. CASE Enter(c)
  BY <1>1, Zenon DEF Enter
<1>2. CASE Prepare(c)
  BY <1>2, Zenon DEF Prepare
<1>3. CASE PrepareCancelled(c)
  BY <1>3, Zenon DEF PrepareCancelled
<1>4. CASE AllPrepared(c)
  BY <1>4, Zenon DEF AllPrepared
<1>5. CASE Fn(c)
  BY <1>5, Zenon DEF Fn
<1>6. CASE Commit(c)
  BY <1>6, Zenon DEF Commit
<1>7. CASE CommitCancelled(c)
  BY <1>7, Zenon DEF CommitCancelled
<1>8. CASE AllCommitted(c)
  BY <1>8, Zenon DEF AllCommitted
<1>9. CASE Rollback(c)
  BY <1>9, Zenon DEF Rollback
<1>10. CASE UndoDone(c)
  BY <1>10, Zenon DEF UndoDone
<1>11. CASE Fail(c)
  BY <1>11, Zenon DEF Fail
<1> QED BY <1>1, <1>2, <1>3, <1>4, <1>5, <1>6, <1>7, <1>8, <1>9, <1>10, <1>11,
           SMTT(30) DEF Step

(* Participants are called in three places only *)
LEMMA PartsAtRest ==
    ASSUME NEW c \in Callers, Step(c), ~Prepare(c), ~Commit(c), ~Rollback(c)
    PROVE  part' = part
<1>1. CASE Enter(c)
  BY <1>1, Zenon DEF Enter
<1>2. CASE PrepareCancelled(c)
  BY <1>2, Zenon DEF PrepareCancelled
<1>3. CASE AllPrepared(c)
  BY <1>3, Zenon DEF AllPrepared
<1>4. CASE Fn(c)
  BY <1>4, Zenon DEF Fn
<1>5. CASE CommitCancelled(c)
  BY <1>5, Zenon DEF CommitCancelled
<1>6. CASE AllCommitted(c)
  BY <1>6, Zenon DEF AllCommitted
<1>7. CASE UndoDone(c)
  BY <1>7, Zenon DEF UndoDone
<1>8. CASE Fail(c)
  BY <1>8, Zenon DEF Fail
<1> QED BY <1>1, <1>2, <1>3, <1>4, <1>5, <1>6, <1>7, <1>8, SMTT(30) DEF Step

(* The other actions decide nothing *)
LEMMA SideStep ==
    ASSUME \/ \E c \in Callers : Execute(c) \/ ContextDone(c)
           \/ \E s \in Strategies : SetStrategy(s)
           \/ CleanupCompletedTransactions
           \/ UNCHANGED vars
    PROVE  UNCHANGED <<state, part>>
<1>1. ASSUME NEW c \in Callers, Execute(c) \/ ContextDone(c) PROVE UNCHANGED <<state, part>>
  BY <1>1, Zenon DEF Execute, ContextDone
<1>2. ASSUME NEW s \in Strategies, SetStrategy(s) PROVE UNCHANGED <<state, part>>
  BY <1>2, Zenon DEF SetStrategy
<1>3. CASE CleanupCompletedTransactions \/ UNCHANGED vars
  BY <1>3, Zenon DEF CleanupCompletedTransactions, vars
<1> QED BY <1>1, <1>2, <1>3

(* Unless calls of Execute overlap, under two-phase commit nobody commits before *)
(* everybody has voted                                                          *)
THEOREM VotesFirst == Spec => CommitNeedsVotes
<1>1. ASSUME IInv, [Next]_vars, NEW c \in Callers, NEW p \in Participants,
             ~overlapped, pc[c] # "idle", running[c] = "2pc",
             part[p] # "committed", part'[p] = "committed"
      PROVE  voted = Participants /\ state = "Committing"
  <2>1. \A d \in Callers : Step(d) => d = c
    BY <1>1, BusyState, StepIsBusy
  <2>2. CASE Commit(c)
    BY <1>1, <2>2, Zenon DEF Commit, IInv, Solo, Busy, AtCommit
  <2>3. CASE Prepare(c)
    BY <1>1, <2>3 DEF Prepare, Effect, IInv, TypeOK
  <2>4. CASE Rollback(c)
    BY <1>1, <2>4 DEF Rollback, Effect, IInv, TypeOK
  <2>5. ~ part' = part
    BY <1>1
  <2>6. CASE Step(c)
    BY <2>2, <2>3, <2>4, <2>5, <2>6, PartsAtRest
  <2>7. CASE \E d \in Callers : Step(d)
    BY <2>1, <2>6, <2>7
  <2>8. ~Begin
    BY <2>5 DEF Begin
  <2> QED BY <1>1, <2>5, <2>7, <2>8, SideStep, SMTT(30) DEF Next
<1>2. IInv /\ [Next]_vars =>
        [\A c \in Callers, p \in Participants :
           ~overlapped /\ pc[c] # "idle" /\ running[c] = "2pc"
                       /\ part[p] # "committed" /\ part'[p] = "committed"
              => voted = Participants /\ state = "Committing"]_vars
  BY <1>1
<1> QED BY <1>2, Inductive, PTL DEF Spec, CommitNeedsVotes

(* Only a call of Execute that passed the check before another one changed the  *)
(* state can revise a decision: without such an overlap it stands for ever      *)
THEOREM Final == Spec => DecisionIsFinal
<1>1. ASSUME IInv, [Next]_vars, ~overlapped, state = "Committed" \/ state = "Failed"
      PROVE  UNCHANGED <<state, part>>
  <2>1. \A c \in Callers : pc[c] = "idle"
    BY <1>1, BusyState
  <2>2. \A c \in Callers : ~Step(c)
    BY <2>1, StepIsBusy
  <2>3. ~Begin
    BY <1>1 DEF Begin
  <2> QED BY <1>1, <2>2, <2>3, SideStep, SMTT(30) DEF Next
<1>2. IInv /\ [Next]_vars =>
        [~overlapped /\ (state = "Committed" \/ state = "Failed")
            => UNCHANGED <<state, part>>]_vars
  BY <1>1
<1> QED BY <1>2, Inductive, PTL DEF Spec, DecisionIsFinal

===============================================================================
