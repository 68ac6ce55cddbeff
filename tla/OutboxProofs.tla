---------------------------- MODULE OutboxProofs ----------------------------
(***************************************************************************)
(* The safety of Outbox, and that it implements Publication, for every     *)
(* number of entries, processors, retries and faults.                      *)
(*                                                                         *)
(* The inductive invariant adds to the properties what the fetched copies  *)
(* have in common with the rows they were taken from (Held), and two       *)
(* countings: a publish error that is not yet in retry_count belongs to a  *)
(* runner about to increment it (RetryBooks), and a message the broker has *)
(* was paid for by a fault or by a runner that will not publish it again,  *)
(* where the fault that ended a context pays for what its runner publishes *)
(* afterwards and cannot mark (SentBooks).                                 *)
(***************************************************************************)
EXTENDS Outbox, FiniteSetTheorems, TLAPS

Known == /\ rows \subseteq committed /\ gaveUp \subseteq committed
         /\ draft \cap committed = {}

Held ==
  \A r \in Runners :
    /\ \A c \in batch[r] : c.id \in committed /\ c.retry <= errors[c.id]
    /\ \A c, d \in batch[r] : c.id = d.id => c = d
    /\ copy[r] # NoCopy => /\ copy[r].id \in committed
                           /\ copy[r].retry <= errors[copy[r].id]
                           /\ \A c \in batch[r] : c.id # copy[r].id
    /\ pc[r] = "mark" => sent[copy[r].id] > 0
    /\ pc[r] = "fail" => copy[r].retry >= MaxRetries

\* A processor that is not started has no worker.
Down == \A w \in Workers : ~started[w] => pc[w] = "off"

\* The runners with an error of m that retry_count does not show yet.
Incrementing(m) == {r \in Runners : pc[r] = "increment" /\ copy[r].id = m}
RetryBooks ==
  \A m \in Messages : retries[m] + Cardinality(Incrementing(m)) <= errors[m]

\* Runner r is going to publish the copy of m it has.
Holds(r, m) == \/ \E c \in batch[r] : c.id = m
               \/ pc[r] = "publish" /\ copy[r].id = m

\* The runners whose publish of m was their last one, as far as one can tell now.
Spent(m) == IF m \in Pending THEN {r \in Runners : pc[r] = "mark" /\ copy[r].id = m}
                             ELSE {r \in Runners : ~Holds(r, m)}
\* The runners that may still publish m, or mark it, without a context to mark it in.
Late(m) == {r \in Runners : /\ ctxDone[r]
                            /\ Holds(r, m) \/ (pc[r] = "mark" /\ copy[r].id = m)}
SentBooks ==
  \A m \in Messages : sent[m] + Cardinality(Late(m)) <= faults + Cardinality(Spent(m))

IInv == /\ TypeOK /\ Down /\ Known /\ Held /\ NoGhostEvents /\ NeverLost
        /\ GivesUpOnlyAfterRetries /\ RetryBooks /\ SentBooks

USE Zenon

---------------------------------------------------------------------------
(* Counting runners.                                                       *)

LEMMA RunnersFinite ==
  ASSUME NEW S \in SUBSET Runners
  PROVE  IsFiniteSet(S) /\ Cardinality(S) \in Nat
BY OutboxAssumption, FS_Subset, FS_CardinalityType DEF Runners

LEMMA CountMonotone ==
  ASSUME NEW T \in SUBSET Runners, NEW S \in SUBSET T
  PROVE  Cardinality(S) <= Cardinality(T)
BY RunnersFinite, FS_Subset

LEMMA CountOneMore ==
  ASSUME NEW S \in SUBSET Runners, NEW r \in Runners, r \notin S
  PROVE  Cardinality(S \cup {r}) = Cardinality(S) + 1
BY RunnersFinite, FS_AddElement

LEMMA CountWithoutOne ==
  ASSUME NEW S \in SUBSET Runners, NEW T \in SUBSET Runners, NEW r, S \ {r} \subseteq T
  PROVE  Cardinality(S) <= Cardinality(T) + 1
<1>1. CASE r \in S
  <2>1. Cardinality((S \ {r}) \cup {r}) = Cardinality(S \ {r}) + 1
    BY <1>1, CountOneMore
  <2>2. (S \ {r}) \cup {r} = S
    BY <1>1
  <2>3. Cardinality(S \ {r}) <= Cardinality(T)
    BY CountMonotone
  <2> DEFINE a == Cardinality(S)  b == Cardinality(S \ {r})  c == Cardinality(T)
  <2>4. a \in Nat /\ b \in Nat /\ c \in Nat
    BY RunnersFinite
  <2>5. a = b + 1 /\ b <= c
    BY <2>1, <2>2, <2>3
  <2> HIDE DEF a, b, c
  <2>6. a <= c + 1
    BY <2>4, <2>5, SMT
  <2> QED BY <2>6 DEF a, c
<1>2. CASE r \notin S
  <2>1. S \subseteq T
    BY <1>2
  <2> DEFINE a == Cardinality(S)  c == Cardinality(T)
  <2>2. a \in Nat /\ c \in Nat /\ a <= c
    BY <2>1, RunnersFinite, CountMonotone
  <2> HIDE DEF a, c
  <2>3. a <= c + 1
    BY <2>2, SMT
  <2> QED BY <2>3 DEF a, c
<1> QED BY <1>1, <1>2

LEMMA CountOneLess ==
  ASSUME NEW T \in SUBSET Runners, NEW r \in T, NEW S \in SUBSET T, r \notin S
  PROVE  Cardinality(S) + 1 <= Cardinality(T)
<1>1. Cardinality(S \cup {r}) = Cardinality(S) + 1
  BY CountOneMore
<1>2. Cardinality(S \cup {r}) <= Cardinality(T)
  BY CountMonotone
<1> QED BY <1>1, <1>2

(* A step that adds no runner to Incrementing keeps RetryBooks, and one that *)
(* takes none out of Spent and adds none to Late keeps SentBooks; a fault    *)
(* may take one out, or add one.                                             *)

LEMMA RetryBooksKept ==
  ASSUME IInv, TypeOK', errors' = errors, retries' = retries,
         \A m \in Messages : Incrementing(m)' \subseteq Incrementing(m)
  PROVE  RetryBooks'
<1> SUFFICES ASSUME NEW m \in Messages
             PROVE  retries'[m] + Cardinality(Incrementing(m)') <= errors'[m]
  BY DEF RetryBooks
<1> DEFINE a == Cardinality(Incrementing(m))  b == Cardinality(Incrementing(m)')
<1>1. a \in Nat /\ b \in Nat /\ b <= a
  BY RunnersFinite, CountMonotone DEF Incrementing
<1>2. retries[m] + a <= errors[m] /\ retries[m] \in Nat /\ errors[m] \in Nat
  BY DEF IInv, TypeOK, RetryBooks
<1> HIDE DEF a, b
<1>3. retries[m] + b <= errors[m]
  BY <1>1, <1>2, SMT
<1> QED BY <1>3 DEF b

\* What SentBooks says now, and what it takes to hold again.
LEMMA SentBooksNow ==
  ASSUME IInv, TypeOK', NEW m \in Messages
  PROVE  /\ Spent(m) \in SUBSET Runners /\ Spent(m)' \in SUBSET Runners
         /\ Late(m) \in SUBSET Runners /\ Late(m)' \in SUBSET Runners
         /\ Cardinality(Spent(m)) \in Nat /\ Cardinality(Spent(m)') \in Nat
         /\ Cardinality(Late(m)) \in Nat /\ Cardinality(Late(m)') \in Nat
         /\ sent[m] + Cardinality(Late(m)) <= faults + Cardinality(Spent(m))
         /\ sent[m] \in Nat /\ sent'[m] \in Nat /\ faults \in Nat /\ faults' \in Nat
<1>1. /\ Spent(m) \in SUBSET Runners /\ Spent(m)' \in SUBSET Runners
      /\ Late(m) \in SUBSET Runners /\ Late(m)' \in SUBSET Runners
  BY DEF Spent, Late
<1>2. faults \in Nat /\ faults' \in Nat
  BY SMT DEF IInv, TypeOK
<1> QED BY <1>1, <1>2, RunnersFinite DEF IInv, TypeOK, SentBooks

LEMMA SentBooksKept ==
  ASSUME IInv, TypeOK', sent' = sent, faults' >= faults,
         \A m \in Messages : Spent(m) \subseteq Spent(m)' /\ Late(m)' \subseteq Late(m)
  PROVE  SentBooks'
<1> SUFFICES ASSUME NEW m \in Messages
             PROVE  sent'[m] + Cardinality(Late(m)') <= faults' + Cardinality(Spent(m)')
  BY DEF SentBooks
<1> DEFINE a == Cardinality(Spent(m))  b == Cardinality(Spent(m)')
           l == Cardinality(Late(m))   k == Cardinality(Late(m)')
<1>1. a <= b /\ k <= l
  BY SentBooksNow, CountMonotone
<1>2. /\ a \in Nat /\ b \in Nat /\ l \in Nat /\ k \in Nat
      /\ sent[m] + l <= faults + a /\ sent[m] \in Nat /\ faults \in Nat /\ faults' \in Nat
  BY SentBooksNow
<1> HIDE DEF a, b, l, k
<1>3. sent[m] + k <= faults' + b
  BY <1>1, <1>2, SMT
<1> QED BY <1>3 DEF b, k

LEMMA SentBooksFault ==
  ASSUME IInv, TypeOK', sent' = sent, faults' = faults + 1, NEW r,
         \A m \in Messages :
           \/ Spent(m) \ {r} \subseteq Spent(m)' /\ Late(m)' \subseteq Late(m)
           \/ Spent(m) \subseteq Spent(m)' /\ Late(m)' \ {r} \subseteq Late(m)
  PROVE  SentBooks'
<1> SUFFICES ASSUME NEW m \in Messages
             PROVE  sent'[m] + Cardinality(Late(m)') <= faults' + Cardinality(Spent(m)')
  BY DEF SentBooks
<1> DEFINE a == Cardinality(Spent(m))  b == Cardinality(Spent(m)')
           l == Cardinality(Late(m))   k == Cardinality(Late(m)')
<1>1. \/ a <= b + 1 /\ k <= l
      \/ a <= b /\ k <= l + 1
  BY SentBooksNow, CountMonotone, CountWithoutOne
<1>2. /\ a \in Nat /\ b \in Nat /\ l \in Nat /\ k \in Nat
      /\ sent[m] + l <= faults + a /\ sent[m] \in Nat /\ faults \in Nat /\ faults' \in Nat
  BY SentBooksNow
<1> HIDE DEF a, b, l, k
<1>3. sent[m] + k <= faults' + b
  BY <1>1, <1>2, SMT
<1> QED BY <1>3 DEF b, k

---------------------------------------------------------------------------
(* Init and the actions of the application.                                *)

LEMMA InitInv == Init => IInv
<1> SUFFICES ASSUME Init PROVE IInv
  OBVIOUS
<1>1. TypeOK
  BY OutboxAssumption, SMT DEF Init, TypeOK
<1>2. Down /\ Known /\ Held /\ NoGhostEvents /\ NeverLost /\ GivesUpOnlyAfterRetries
  BY SMT DEF Init, Down, Runners, Known, Held, NoGhostEvents, NeverLost,
         GivesUpOnlyAfterRetries
<1>3. RetryBooks
  <2>1. \A m \in Messages : Incrementing(m) = {}
    BY DEF Init, Incrementing
  <2>2. \A m \in Messages : Cardinality(Incrementing(m)) = 0
    BY <2>1, FS_EmptySet
  <2>3. \A m \in Messages : retries[m] + 0 <= errors[m]
    BY SMT DEF Init
  <2> QED BY <2>2, <2>3 DEF RetryBooks
<1>4. SentBooks
  <2> SUFFICES ASSUME NEW m \in Messages
               PROVE  sent[m] + Cardinality(Late(m)) <= faults + Cardinality(Spent(m))
    BY DEF SentBooks
  <2> DEFINE a == Cardinality(Spent(m))  l == Cardinality(Late(m))
  <2>1. Late(m) = {}
    BY DEF Init, Late
  <2>2. a \in Nat /\ l = 0
    BY <2>1, RunnersFinite, FS_EmptySet DEF Spent
  <2> HIDE DEF a, l
  <2>3. sent[m] + l <= faults + a
    BY <2>2, SMT DEF Init
  <2> QED BY <2>3 DEF a, l
<1> QED BY <1>1, <1>2, <1>3, <1>4 DEF IInv

\* Entries become visible: rows and committed grow by the same new ones.
LEMMA CommitInv ==
  ASSUME IInv, TypeOK', Down', NEW S \in SUBSET Messages, S \cap committed = {},
         rows' = rows \cup S, committed' = committed \cup S,
         draft' \cap committed' = {},
         UNCHANGED <<done, retries, ctxDone, local, sent, errors, gaveUp, faults>>
  PROVE  IInv'
<1>1. Known' /\ Held'
  BY DEF IInv, Known, Held, local
<1>2. NoGhostEvents' /\ GivesUpOnlyAfterRetries'
  BY DEF IInv, NoGhostEvents, GivesUpOnlyAfterRetries
<1>3. NeverLost'
  BY DEF IInv, TypeOK, Known, NeverLost, Pending
<1>4. RetryBooks'
  BY RetryBooksKept DEF Incrementing, local
<1>5. SentBooks'
  <2> SUFFICES ASSUME NEW m \in Messages
               PROVE  sent'[m] + Cardinality(Late(m)') <= faults' + Cardinality(Spent(m)')
    BY DEF SentBooks
  <2>1. CASE m \in S
    <3> DEFINE a == Cardinality(Spent(m)')  l == Cardinality(Late(m)')
    <3>1. Late(m)' = {}
      <4>1. m \notin committed /\ Late(m)' = Late(m)
        BY <2>1 DEF Late, Holds, local
      <4>2. \A q \in Runners : \A c \in batch[q] : c.id # m
        BY <4>1, SMT DEF IInv, Held
      <4>3. \A q \in Runners : pc[q] \in {"publish", "mark"} => copy[q].id # m
        BY <4>1, ZenonT(30) DEF IInv, TypeOK, Held
      <4> QED BY <4>1, <4>2, <4>3 DEF Late, Holds
    <3>2. a \in Nat /\ l = 0
      BY <3>1, RunnersFinite, FS_EmptySet DEF Spent
    <3>3. sent[m] = 0 /\ faults \in Nat
      BY <2>1, SMT DEF IInv, TypeOK, NoGhostEvents
    <3> HIDE DEF a, l
    <3>4. sent[m] + l <= faults + a
      BY <3>2, <3>3, SMT
    <3> QED BY <3>4 DEF a, l
  <2>2. CASE m \notin S
    <3>1. Spent(m)' = Spent(m) /\ Late(m)' = Late(m)
      BY <2>2 DEF Spent, Late, Pending, Holds, local
    <3> QED BY <3>1 DEF IInv, SentBooks
  <2> QED BY <2>1, <2>2
<1> QED BY <1>1, <1>2, <1>3, <1>4, <1>5 DEF IInv

LEMMA SaveForPublishInv == ASSUME IInv, NEW m \in Messages, SaveForPublish(m) PROVE IInv'
<1>1. TypeOK'
  BY DEF SaveForPublish, lifecycle, local, IInv, TypeOK
<1>2. draft' \cap committed' = {}
  BY DEF SaveForPublish, Fresh, IInv, Known
<1>3. Down'
  BY DEF SaveForPublish, lifecycle, local, IInv, Down
<1>4. {m} \in SUBSET Messages /\ {m} \cap committed = {}
  BY DEF SaveForPublish, Fresh
<1> QED BY <1>1, <1>2, <1>3, <1>4, CommitInv DEF SaveForPublish, lifecycle

LEMMA CommitTxInv == ASSUME IInv, CommitTx PROVE IInv'
<1>1. TypeOK'
  BY DEF CommitTx, lifecycle, local, IInv, TypeOK
<1>2. draft \in SUBSET Messages /\ draft \cap committed = {} /\ draft' \cap committed' = {}
  BY DEF CommitTx, IInv, TypeOK, Known
<1>3. Down'
  BY DEF CommitTx, lifecycle, local, IInv, Down
<1> QED BY <1>1, <1>2, <1>3, CommitInv DEF CommitTx, lifecycle

\* Neither a row nor a copy changes.
LEMMA DraftInv ==
  ASSUME IInv, TypeOK', Down', draft' \cap committed = {},
         UNCHANGED <<rows, done, retries, ctxDone, local, history, faults>>
  PROVE  IInv'
<1>1. /\ Known' /\ Held' /\ NoGhostEvents' /\ NeverLost' /\ GivesUpOnlyAfterRetries'
  BY DEF IInv, Known, Held, NoGhostEvents, NeverLost, GivesUpOnlyAfterRetries, Pending,
         local, history
<1>2. RetryBooks' /\ SentBooks'
  BY DEF IInv, RetryBooks, SentBooks, Incrementing, Spent, Late, Holds, Pending, local,
     history
<1> QED BY <1>1, <1>2 DEF IInv

LEMMA SaveWithTransactionInv ==
  ASSUME IInv, NEW m \in Messages, SaveWithTransaction(m) PROVE IInv'
<1>1. TypeOK'
  BY DEF SaveWithTransaction, lifecycle, local, history, IInv, TypeOK
<1>3. Down'
  BY DEF SaveWithTransaction, lifecycle, local, IInv, Down
<1> QED BY <1>1, <1>3, DraftInv DEF SaveWithTransaction, Fresh, lifecycle, IInv, Known

LEMMA RollbackTxInv == ASSUME IInv, RollbackTx PROVE IInv'
<1>1. TypeOK'
  BY DEF RollbackTx, lifecycle, local, history, IInv, TypeOK
<1>3. Down'
  BY DEF RollbackTx, lifecycle, local, IInv, Down
<1> QED BY <1>1, <1>3, DraftInv DEF RollbackTx, lifecycle

---------------------------------------------------------------------------
(* The life of a processor.                                                *)

\* A runner stops or starts, and keeps nothing of a batch.
LEMMA LoseInv ==
  ASSUME IInv, TypeOK', Down', NEW r \in Runners, Lose(r), Fault, UNCHANGED <<storage, history>>
  PROVE  IInv'
<1>1. /\ Known' /\ NoGhostEvents' /\ NeverLost' /\ GivesUpOnlyAfterRetries'
  BY DEF IInv, Known, NoGhostEvents, NeverLost, GivesUpOnlyAfterRetries, Pending, storage,
         history
<1>2. Held'
  BY SMT DEF IInv, TypeOK, Held, Lose, storage, history
<1>3. RetryBooks'
  <2>1. \A m \in Messages : Incrementing(m)' \subseteq Incrementing(m)
    BY DEF IInv, TypeOK, Incrementing, Lose
  <2> QED BY <2>1, RetryBooksKept DEF storage, history
<1>4. SentBooks'
  <2>1. \A m \in Messages : Spent(m) \ {r} \subseteq Spent(m)'
    BY ZenonT(30) DEF IInv, TypeOK, Spent, Holds, Pending, Lose, storage
  <2>2. \A m \in Messages : Late(m)' \subseteq Late(m)
    BY ZenonT(30) DEF IInv, TypeOK, Late, Holds, Lose
  <2> QED BY <2>1, <2>2, SentBooksFault DEF Fault, history
<1> QED BY <1>1, <1>2, <1>3, <1>4 DEF IInv

LEMMA LoseType ==
  ASSUME IInv, NEW r \in Runners, Lose(r), Fault, UNCHANGED <<storage, history>>
  PROVE  TypeOK' /\ Down'
<1>1. /\ pc' \in [Runners -> {"off", "poll", "next", "publish", "mark", "fail", "increment"}]
      /\ batch' \in [Runners -> SUBSET Copies]
      /\ copy' \in [Runners -> Copies \cup {NoCopy}]
      /\ \A q \in Runners : (copy'[q] = NoCopy) <=> (pc'[q] \in {"off", "poll", "next"})
  BY DEF Lose, IInv, TypeOK
<1>2. /\ started' \in [Workers -> BOOLEAN] /\ closed' \in [Workers -> BOOLEAN]
      /\ stopping' \in [Workers -> BOOLEAN] /\ ctxDone' \in [Runners -> BOOLEAN]
  BY DEF Lose, lifecycle, IInv, TypeOK
<1>3. faults' \in 0..MaxFaults
  BY OutboxAssumption, SMT DEF Fault, IInv, TypeOK
<1>4. Down'
  BY DEF Lose, lifecycle, Runners, IInv, TypeOK, Down
<1> QED BY <1>1, <1>2, <1>3, <1>4 DEF storage, history, IInv, TypeOK

LEMMA CrashInv == ASSUME IInv, NEW r \in Runners, Crash(r) PROVE IInv'
BY LoseType, LoseInv DEF Crash

\* The fault pays for the messages the runner publishes and can no longer mark.
LEMMA EndContextInv == ASSUME IInv, NEW r \in Runners, EndContext(r) PROVE IInv'
<1>1. faults' \in 0..MaxFaults
  BY OutboxAssumption, SMT DEF EndContext, Fault, IInv, TypeOK
<1>2. TypeOK' /\ Down'
  BY <1>1 DEF EndContext, storage, local, history, IInv, TypeOK, Down
<1>3. Known' /\ Held' /\ NoGhostEvents' /\ NeverLost' /\ GivesUpOnlyAfterRetries'
  BY DEF EndContext, IInv, Known, Held, NoGhostEvents, NeverLost, GivesUpOnlyAfterRetries,
         Pending, storage, local, history
<1>4. RetryBooks'
  BY DEF EndContext, IInv, RetryBooks, Incrementing, storage, local, history
<1>5. SentBooks'
  <2>1. \A m \in Messages : Spent(m)' = Spent(m)
    BY DEF EndContext, Spent, Holds, Pending, storage, local
  <2>2. \A m \in Messages : Late(m)' \ {r} \subseteq Late(m)
    BY DEF EndContext, Late, Holds, local, IInv, TypeOK
  <2> QED BY <1>2, <2>1, <2>2, SentBooksFault DEF EndContext, Fault, history
<1> QED BY <1>2, <1>3, <1>4, <1>5 DEF IInv

\* Only the flags change, or a runner without a batch in hand moves.
LEMMA LifecycleInv ==
  ASSUME IInv, TypeOK', Down', NEW w \in Workers,
         \/ UNCHANGED pc
         \/ /\ pc[w] \in {"off", "poll"}
            /\ \E l \in {"off", "poll"} : pc' = [pc EXCEPT ![w] = l],
         \A r \in Runners : ctxDone'[r] => ctxDone[r],
         UNCHANGED <<storage, batch, copy, history, faults>>
  PROVE  IInv'
<1>0. w \in Runners
  BY DEF Runners
<1>1. /\ Known' /\ NoGhostEvents' /\ NeverLost' /\ GivesUpOnlyAfterRetries'
  BY DEF IInv, Known, NoGhostEvents, NeverLost, GivesUpOnlyAfterRetries, Pending, storage,
         history
<1>2. \A r \in Runners, l \in {"publish", "mark", "fail", "increment"} :
        (pc'[r] = l) <=> (pc[r] = l)
  BY <1>0 DEF IInv, TypeOK
<1>3. Held'
  BY <1>2 DEF IInv, Held, storage, history
<1>4. RetryBooks'
  <2>1. \A m \in Messages : Incrementing(m)' = Incrementing(m)
    BY <1>2 DEF Incrementing
  <2> QED BY <2>1, RetryBooksKept DEF storage, history
<1>5. SentBooks'
  <2>1. \A m \in Messages : Spent(m)' = Spent(m)
    BY <1>2 DEF Spent, Holds, Pending, storage
  <2>2. sent' = sent /\ faults' >= faults
    BY SMT DEF history, IInv, TypeOK
  <2>3. \A m \in Messages : Late(m)' \subseteq Late(m)
    BY <1>2 DEF Late, Holds
  <2> QED BY <2>1, <2>2, <2>3, SentBooksKept
<1> QED BY <1>1, <1>3, <1>4, <1>5 DEF IInv

LEMMA StartInv == ASSUME IInv, NEW w \in Workers, Start(w) PROVE IInv'
<1>1. w \in Runners /\ pc[w] = "off"
  BY DEF Runners, Start, IInv, Down
<1>2. TypeOK'
  BY <1>1 DEF Start, storage, history, IInv, TypeOK
<1>3. Down'
  BY <1>1 DEF Start, Runners, IInv, TypeOK, Down
<1>4. \E l \in {"off", "poll"} : pc' = [pc EXCEPT ![w] = l]
  BY DEF Start
<1>5. UNCHANGED <<storage, batch, copy, history, faults>>
  BY DEF Start
<1>6. \A r \in Runners : ctxDone'[r] => ctxDone[r]
  BY DEF Start, IInv, TypeOK
<1> QED BY <1>1, <1>2, <1>3, <1>4, <1>5, <1>6, LifecycleInv

LEMMA StopInv == ASSUME IInv, NEW w \in Workers, Stop(w) PROVE IInv'
<1>1. CASE closed[w]
  BY <1>1, LoseType, LoseInv DEF Stop, Runners
<1>2. CASE ~closed[w]
  <2>1. TypeOK' /\ Down'
    <3>1. TypeOK'
      BY <1>2 DEF Stop, storage, local, history, IInv, TypeOK
    <3> QED BY <1>2, <3>1 DEF Stop, local, IInv, Down
  <2>2. UNCHANGED <<storage, ctxDone, local, history, faults>>
    BY <1>2 DEF Stop
  <2> QED BY <2>1, <2>2, LifecycleInv DEF local
<1> QED BY <1>1, <1>2

LEMMA StopReturnsInv == ASSUME IInv, NEW w \in Workers, StopReturns(w) PROVE IInv'
<1>1. TypeOK'
  BY DEF StopReturns, storage, local, history, IInv, TypeOK
<1>2. Down'
  BY DEF StopReturns, local, IInv, TypeOK, Down
<1> QED BY <1>1, <1>2, LifecycleInv DEF StopReturns, local

LEMMA WorkerLeavesInv == ASSUME IInv, NEW w \in Workers, WorkerLeaves(w) PROVE IInv'
<1>1. w \in Runners
  BY DEF Runners
<1>2. TypeOK' /\ Down'
  BY <1>1 DEF WorkerLeaves, Runners, storage, lifecycle, history, IInv, TypeOK, Down
<1>3. pc[w] \in {"off", "poll"} /\ \E l \in {"off", "poll"} : pc' = [pc EXCEPT ![w] = l]
  BY DEF WorkerLeaves
<1>4. UNCHANGED <<storage, ctxDone, batch, copy, history, faults>>
  BY DEF WorkerLeaves, lifecycle
<1> QED BY <1>2, <1>3, <1>4, LifecycleInv

\* The rows the cleanup deletes were not pending: no copy and no count is about them.
LEMMA RunCleanupInv == ASSUME IInv, NEW w \in Workers, RunCleanup(w) PROVE IInv'
<1>1. PICK S \in SUBSET done : DeleteProcessedBefore(S)
  BY DEF RunCleanup
<1>2. Pending' = Pending
  BY <1>1 DEF DeleteProcessedBefore, Pending
<1>3. TypeOK' /\ Down'
  <2>1. rows' \subseteq Messages /\ done' \subseteq rows' /\ UNCHANGED <<draft, retries>>
    BY <1>1 DEF DeleteProcessedBefore, IInv, TypeOK
  <2>2. UNCHANGED <<lifecycle, local, history, faults>>
    BY <1>1 DEF RunCleanup, DeleteProcessedBefore
  <2> QED BY <2>1, <2>2 DEF lifecycle, local, history, IInv, TypeOK, Down
<1>4. Known' /\ Held' /\ NoGhostEvents' /\ NeverLost' /\ GivesUpOnlyAfterRetries'
  BY <1>1, <1>2 DEF RunCleanup, DeleteProcessedBefore, local, history, IInv, Known, Held,
     NoGhostEvents, NeverLost, GivesUpOnlyAfterRetries
<1>5. RetryBooks' /\ SentBooks'
  BY <1>1, <1>2 DEF RunCleanup, DeleteProcessedBefore, lifecycle, local, history, IInv,
     RetryBooks, SentBooks, Incrementing, Spent, Late, Holds
<1> QED BY <1>3, <1>4, <1>5 DEF IInv

---------------------------------------------------------------------------
(* Fetching a batch and taking its entries.                                *)

LEMMA RetriesBelowErrors == ASSUME IInv, NEW m \in Messages PROVE retries[m] <= errors[m]
<1> DEFINE a == Cardinality(Incrementing(m))
<1>1. a \in Nat
  BY RunnersFinite DEF Incrementing
<1>2. retries[m] + a <= errors[m] /\ retries[m] \in Nat /\ errors[m] \in Nat
  BY DEF IInv, TypeOK, RetryBooks
<1> HIDE DEF a
<1> QED BY <1>1, <1>2, SMT

LEMMA ProcessBatchInv == ASSUME IInv, NEW r \in Runners, ProcessBatch(r) PROVE IInv'
<1>1. PICK S \in SUBSET Pending :
        batch' = [batch EXCEPT ![r] = {[id |-> m, retry |-> retries[m]] : m \in S}]
  BY DEF ProcessBatch, FetchUnprocessed
<1> DEFINE B == {[id |-> m, retry |-> retries[m]] : m \in S}
<1>2. /\ B \in SUBSET Copies
      /\ \A c \in B : c.id \in S /\ c.retry = retries[c.id]
      /\ \A c, d \in B : c.id = d.id => c = d
  <2>1. S \subseteq Messages
    BY DEF Pending, IInv, TypeOK
  <2> QED BY <2>1, SMT DEF Copies, IInv, TypeOK
<1>3. batch' = [batch EXCEPT ![r] = B]
  BY <1>1
<1> HIDE DEF B
<1>4. TypeOK'
  BY <1>2, <1>3 DEF ProcessBatch, storage, history, IInv, TypeOK
<1>5. Down'
  BY DEF ProcessBatch, Runners, IInv, TypeOK, Down
<1>6. /\ Known' /\ NoGhostEvents' /\ NeverLost' /\ GivesUpOnlyAfterRetries'
  BY DEF ProcessBatch, IInv, Known, NoGhostEvents, NeverLost, GivesUpOnlyAfterRetries,
         Pending, storage, history
<1>7. Held'
  <2>1. \A c \in B : c.id \in committed /\ c.retry <= errors[c.id]
    BY <1>2, RetriesBelowErrors DEF Pending, IInv, TypeOK, Known
  <2>2. copy[r] = NoCopy
    BY DEF ProcessBatch, IInv, TypeOK
  <2>3. \A q \in Runners : batch'[q] = IF q = r THEN B ELSE batch[q]
    BY <1>3 DEF IInv, TypeOK
  <2>4. \A q \in Runners : pc'[q] = IF q = r THEN "next" ELSE pc[q]
    BY DEF ProcessBatch, IInv, TypeOK
  <2>5. UNCHANGED <<copy, committed, sent, errors>>
    BY DEF ProcessBatch, history
  <2> QED BY <1>2, <2>1, <2>2, <2>3, <2>4, <2>5 DEF IInv, Held
<1>8. RetryBooks'
  <2>1. \A m \in Messages : Incrementing(m)' \subseteq Incrementing(m)
    BY DEF ProcessBatch, IInv, TypeOK, Incrementing
  <2> QED BY <1>4, <2>1, RetryBooksKept DEF ProcessBatch, storage, history
<1>9. SentBooks'
  <2>1. \A m \in Messages : Spent(m) \subseteq Spent(m)'
    <3>1. \A m \in Messages : m \notin Pending => \A c \in B : c.id # m
      BY <1>2
    <3>2. Pending' = Pending
      BY DEF ProcessBatch, Pending, storage
    <3>3. pc[r] \notin {"mark", "publish"}
      BY DEF ProcessBatch
    <3> QED BY <1>3, <3>1, <3>2, <3>3 DEF ProcessBatch, IInv, TypeOK, Spent, Holds
  <2>2. sent' = sent /\ faults' >= faults
    BY SMT DEF ProcessBatch, history, IInv, TypeOK
  <2>3. \A m \in Messages : Late(m)' \subseteq Late(m)
    <3>1. ~ctxDone'[r] /\ \A q \in Runners : q # r => /\ ctxDone'[q] = ctxDone[q]
                                                    /\ batch'[q] = batch[q]
                                                    /\ pc'[q] = pc[q] /\ copy'[q] = copy[q]
      BY <1>3 DEF ProcessBatch, IInv, TypeOK
    <3> QED BY <3>1 DEF Late, Holds
  <2> QED BY <1>4, <2>1, <2>2, <2>3, SentBooksKept
<1> QED BY <1>4, <1>5, <1>6, <1>7, <1>8, <1>9 DEF IInv

LEMMA NextEntryInv == ASSUME IInv, NEW r \in Runners, NextEntry(r) PROVE IInv'
<1>0. pc[r] = "next" /\ copy[r] = NoCopy
  BY DEF NextEntry, IInv, TypeOK
<1>1. TypeOK'
  BY <1>0, SMTT(30) DEF NextEntry, storage, lifecycle, history, IInv, TypeOK, Copies, NoCopy
<1>2. Down'
  BY DEF NextEntry, lifecycle, Runners, IInv, TypeOK, Down
<1>3. /\ Known' /\ NoGhostEvents' /\ NeverLost' /\ GivesUpOnlyAfterRetries'
  BY DEF NextEntry, IInv, Known, NoGhostEvents, NeverLost, GivesUpOnlyAfterRetries,
         Pending, storage, history
<1>4. Held'
  BY <1>0, SMT DEF NextEntry, history, IInv, TypeOK, Held
<1>5. RetryBooks'
  <2>1. \A m \in Messages : Incrementing(m)' \subseteq Incrementing(m)
    BY DEF NextEntry, IInv, TypeOK, Incrementing
  <2> QED BY <1>1, <2>1, RetryBooksKept DEF NextEntry, storage, history
<1>6. SentBooks'
  <2>1. \A m \in Messages : Spent(m) \subseteq Spent(m)'
    BY <1>0, SMT DEF NextEntry, storage, Pending, IInv, TypeOK, Spent, Holds
  <2>2. sent' = sent /\ faults' >= faults
    BY SMT DEF NextEntry, history, IInv, TypeOK
  <2>3. \A m \in Messages : Late(m)' \subseteq Late(m)
    BY <1>0, SMT DEF NextEntry, lifecycle, IInv, TypeOK, Late, Holds
  <2> QED BY <1>1, <2>1, <2>2, <2>3, SentBooksKept
<1> QED BY <1>1, <1>2, <1>3, <1>4, <1>5, <1>6 DEF IInv

---------------------------------------------------------------------------
(* Publishing an entry and updating its row.                               *)

LEMMA PublishInv == ASSUME IInv, NEW r \in Runners, Publish(r) PROVE IInv'
<1> DEFINE k == copy[r].id
<1>0. /\ pc[r] = "publish" /\ copy[r] # NoCopy /\ k \in Messages /\ k \in committed
      /\ UNCHANGED <<storage, batch, copy, committed, gaveUp>> /\ Pending' = Pending
  BY DEF Publish, Pending, storage, IInv, TypeOK, Held, Copies
<1>1. /\ \/ sent' = [sent EXCEPT ![k] = @ + 1] \/ sent' = [sent EXCEPT ![k] = @ + 0]
      /\ \/ /\ pc' = [pc EXCEPT ![r] = "mark"] /\ sent' = [sent EXCEPT ![k] = @ + 1]
            /\ UNCHANGED <<errors, faults>>
         \/ /\ pc' = [pc EXCEPT ![r] = "increment"] /\ CallFails(r)
            /\ errors' = [errors EXCEPT ![k] = @ + 1]
  BY DEF Publish, Accept
<1> HIDE DEF k
<1>2. TypeOK'
  <2>1. sent' \in [Messages -> Nat] /\ errors' \in [Messages -> Nat]
    BY <1>0, <1>1, SMT DEF IInv, TypeOK
  <2>2. faults' \in 0..MaxFaults
    BY <1>1, OutboxAssumption, SMT DEF CallFails, Fault, IInv, TypeOK
  <2>3. /\ pc' \in [Runners -> {"off", "poll", "next", "publish", "mark", "fail", "increment"}]
        /\ \A q \in Runners : (copy'[q] = NoCopy) <=> (pc'[q] \in {"off", "poll", "next"})
    BY <1>0, <1>1 DEF IInv, TypeOK
  <2> QED BY <1>0, <2>1, <2>2, <2>3 DEF Publish, storage, lifecycle, IInv, TypeOK
<1>3. Down'
  BY <1>0, <1>1 DEF Publish, lifecycle, Runners, IInv, TypeOK, Down
<1>4. /\ \A m \in Messages : sent'[m] >= sent[m] /\ errors'[m] >= errors[m]
      /\ \A m \in Messages : m # k => sent'[m] = sent[m] /\ errors'[m] = errors[m]
  BY <1>0, <1>1, SMT DEF IInv, TypeOK
<1>5. Known' /\ NoGhostEvents' /\ NeverLost' /\ GivesUpOnlyAfterRetries'
  BY <1>0, <1>2, <1>4, OutboxAssumption, SMT DEF storage, IInv, TypeOK, Known, NoGhostEvents,
     NeverLost, GivesUpOnlyAfterRetries
<1>6. Held'
  <2>1. pc'[r] = "mark" => sent'[k] > 0
    BY <1>0, <1>1, SMT DEF IInv, TypeOK
  <2>2. pc'[r] # "fail" /\ \A q \in Runners : q # r => pc'[q] = pc[q]
    BY <1>1 DEF IInv, TypeOK
  <2> SUFFICES ASSUME NEW q \in Runners
               PROVE  /\ \A c \in batch'[q] : c.id \in committed' /\ c.retry <= errors'[c.id]
                      /\ \A c, d \in batch'[q] : c.id = d.id => c = d
                      /\ copy'[q] # NoCopy => /\ copy'[q].id \in committed'
                                              /\ copy'[q].retry <= errors'[copy'[q].id]
                                              /\ \A c \in batch'[q] : c.id # copy'[q].id
                      /\ pc'[q] = "mark" => sent'[copy'[q].id] > 0
                      /\ pc'[q] = "fail" => copy'[q].retry >= MaxRetries
    BY DEF Held
  <2>3. \A c \in batch[q] : c.id \in Messages /\ c.retry \in Nat
    BY SMT DEF IInv, TypeOK, Copies
  <2>4. copy[q] # NoCopy => copy[q].id \in Messages /\ copy[q].retry \in Nat
    BY DEF IInv, TypeOK, Copies
  <2>5. pc[q] = "mark" => copy[q] # NoCopy
    BY DEF IInv, TypeOK
  <2>6. \A m \in Messages : /\ errors[m] \in Nat /\ errors'[m] \in Nat
                            /\ sent[m] \in Nat /\ sent'[m] \in Nat
    BY <1>2 DEF IInv, TypeOK
  <2> QED BY <1>0, <1>4, <2>1, <2>2, <2>3, <2>4, <2>5, <2>6, SMT DEF IInv, Held, k
<1>7. RetryBooks'
  <2> SUFFICES ASSUME NEW m \in Messages
               PROVE  retries'[m] + Cardinality(Incrementing(m)') <= errors'[m]
    BY DEF RetryBooks
  <2> DEFINE a == Cardinality(Incrementing(m))  b == Cardinality(Incrementing(m)')
  <2>1. a \in Nat /\ b \in Nat
    BY RunnersFinite DEF Incrementing
  <2>2. /\ retries[m] + a <= errors[m] /\ retries[m] \in Nat /\ retries'[m] = retries[m]
        /\ errors[m] \in Nat /\ errors'[m] \in Nat
    BY <1>0, <1>2 DEF storage, IInv, TypeOK, RetryBooks
  <2>3. CASE m = k /\ errors'[m] = errors[m] + 1
    <3>1. Incrementing(m)' \ {r} \subseteq Incrementing(m)
      BY <1>0, <1>1 DEF IInv, TypeOK, Incrementing
    <3>2. b <= a + 1
      BY <3>1, CountWithoutOne DEF Incrementing
    <3> HIDE DEF a, b
    <3>3. retries'[m] + b <= errors'[m]
      BY <2>1, <2>2, <2>3, <3>2, SMT
    <3> QED BY <3>3 DEF b
  <2>4. CASE ~(m = k /\ errors'[m] = errors[m] + 1)
    <3>1. Incrementing(m)' \subseteq Incrementing(m)
      BY <1>0, <1>1, <2>4, SMT DEF IInv, TypeOK, Incrementing, k
    <3>2. b <= a /\ errors'[m] >= errors[m]
      BY <1>4, <3>1, CountMonotone DEF Incrementing
    <3> HIDE DEF a, b
    <3>3. retries'[m] + b <= errors'[m]
      BY <2>1, <2>2, <3>2, SMT
    <3> QED BY <3>3 DEF b
  <2> QED BY <2>3, <2>4
<1>8. SentBooks'
  <2> SUFFICES ASSUME NEW m \in Messages
               PROVE  sent'[m] + Cardinality(Late(m)') <= faults' + Cardinality(Spent(m)')
    BY DEF SentBooks
  <2> DEFINE a == Cardinality(Spent(m))  b == Cardinality(Spent(m)')
             l == Cardinality(Late(m))   j == Cardinality(Late(m)')
  <2>0. UNCHANGED ctxDone
    BY DEF Publish, lifecycle
  <2>1. Spent(m) \subseteq Spent(m)' /\ Late(m)' \subseteq Late(m)
    <3>1. Spent(m) \subseteq Spent(m)'
      BY <1>0, <1>1 DEF IInv, TypeOK, Spent, Holds
    <3>2. Late(m)' \subseteq Late(m)
      BY <1>0, <1>1, <2>0 DEF IInv, TypeOK, Late, Holds
    <3> QED BY <3>1, <3>2
  <2>2. a <= b /\ j <= l
    BY <1>2, <2>1, SentBooksNow, CountMonotone
  <2>3. /\ a \in Nat /\ b \in Nat /\ l \in Nat /\ j \in Nat
        /\ sent[m] + l <= faults + a /\ sent[m] \in Nat /\ sent'[m] \in Nat
        /\ faults \in Nat /\ faults' \in Nat
    BY <1>2, SentBooksNow
  <2>4. faults' = faults \/ faults' = faults + 1
    BY <1>1 DEF CallFails, Fault
  <2>5. sent'[m] <= sent[m] + 1
    BY <1>0, <1>1, SMT DEF IInv, TypeOK
  <2>6. CASE faults' = faults + 1 \/ m # k
    <3>1. CASE faults' = faults + 1
      <4> HIDE DEF a, b, l, j
      <4>1. sent'[m] + j <= faults' + b
        BY <2>2, <2>3, <2>5, <3>1, SMT
      <4> QED BY <4>1 DEF b, j
    <3>2. CASE m # k
      <4>1. sent'[m] = sent[m]
        BY <1>4, <3>2
      <4> HIDE DEF a, b, l, j
      <4>2. sent'[m] + j <= faults' + b
        BY <2>2, <2>3, <2>4, <4>1, SMT
      <4> QED BY <4>2 DEF b, j
    <3> QED BY <2>6, <3>1, <3>2
  <2>7. CASE m = k /\ faults' = faults /\ pc' = [pc EXCEPT ![r] = "mark"]
    <3>1. r \in Spent(m)' /\ r \notin Spent(m)
      BY <1>0, <2>7 DEF IInv, TypeOK, Held, Spent, Holds, k
    <3>2. a + 1 <= b
      BY <1>2, <2>1, <3>1, SentBooksNow, CountOneLess
    <3> HIDE DEF a, b, l, j
    <3>3. sent'[m] + j <= faults' + b
      BY <2>2, <2>3, <2>5, <2>7, <3>2, SMT
    <3> QED BY <3>3 DEF b, j
  <2>8. CASE m = k /\ faults' = faults /\ pc' = [pc EXCEPT ![r] = "increment"] /\ CallFails(r)
    <3>1. ctxDone[r]
      <4>1. faults + 1 # faults
        BY <2>3, SMT
      <4> QED BY <2>8, <4>1 DEF CallFails, Fault
    <3>2. r \in Late(m) /\ r \notin Late(m)'
      BY <1>0, <2>8, <3>1 DEF IInv, TypeOK, Held, Late, Holds, k
    <3>3. j + 1 <= l
      BY <1>2, <2>1, <3>2, SentBooksNow, CountOneLess
    <3> HIDE DEF a, b, l, j
    <3>4. sent'[m] + j <= faults' + b
      BY <2>2, <2>3, <2>5, <2>8, <3>3, SMT
    <3> QED BY <3>4 DEF b, j
  <2> QED BY <1>1, <2>4, <2>6, <2>7, <2>8
<1> QED BY <1>2, <1>3, <1>5, <1>6, <1>7, <1>8 DEF IInv

\* What the four outcomes of Update have in common.
LEMMA UpdateLocal ==
  ASSUME IInv, NEW r \in Runners, Update(r)
  PROVE  /\ \A q \in Runners : /\ pc'[q] = IF q = r THEN "next" ELSE pc[q]
                               /\ copy'[q] = IF q = r THEN NoCopy ELSE copy[q]
         /\ pc' \in [Runners -> {"off", "poll", "next", "publish", "mark", "fail", "increment"}]
         /\ copy' \in [Runners -> Copies \cup {NoCopy}]
         /\ UNCHANGED <<lifecycle, batch, draft, rows, committed, sent, errors>>
         /\ copy[r] # NoCopy /\ copy[r].id \in Messages /\ copy[r].id \in committed
<1>1. copy[r] # NoCopy /\ copy[r].id \in Messages /\ copy[r].id \in committed
  BY DEF Update, IInv, TypeOK, Held, Copies
<1> QED BY <1>1 DEF Update, MarkAsProcessed, MarkAsFailed, IncrementRetry, storage, history,
                    IInv, TypeOK

LEMMA UpdateType == ASSUME IInv, NEW r \in Runners, Update(r) PROVE TypeOK'
<1>1. faults' \in 0..MaxFaults
  BY OutboxAssumption, SMT DEF Update, CallFails, Fault, IInv, TypeOK
<1>2. retries' \in [Messages -> Nat]
  <2>1. CASE IncrementRetry(copy[r].id)
    BY <2>1, UpdateLocal, SMT DEF IncrementRetry, IInv, TypeOK
  <2>2. CASE retries' = retries
    BY <2>2 DEF IInv, TypeOK
  <2> QED BY <2>1, <2>2 DEF Update, MarkAsProcessed, MarkAsFailed, storage
<1>3. done' \subseteq rows' /\ gaveUp' \subseteq Messages
  BY UpdateLocal DEF Update, MarkAsProcessed, MarkAsFailed, IncrementRetry, storage, history,
     IInv, TypeOK
<1>4. \A q \in Runners : (copy'[q] = NoCopy) <=> (pc'[q] \in {"off", "poll", "next"})
  BY UpdateLocal DEF IInv, TypeOK
<1> QED BY <1>1, <1>2, <1>3, <1>4, UpdateLocal DEF lifecycle, IInv, TypeOK

LEMMA UpdateInv == ASSUME IInv, NEW r \in Runners, Update(r) PROVE IInv'
<1> DEFINE k == copy[r].id
<1>1. k \in Messages /\ k \in committed /\ copy[r] # NoCopy
  BY UpdateLocal
<1>2. TypeOK'
  BY UpdateType
<1>3. Down'
  <2>1. pc[r] # "off"
    BY DEF Update
  <2> QED BY <2>1, UpdateLocal DEF lifecycle, Runners, IInv, Down
<1>4. Known'
  BY UpdateLocal DEF Update, MarkAsProcessed, MarkAsFailed, IncrementRetry, storage, history,
     IInv, Known
<1>5. Held'
  BY UpdateLocal DEF IInv, Held
<1>6. NoGhostEvents'
  BY UpdateLocal DEF IInv, NoGhostEvents
<1>7. NeverLost'
  <2>1. CASE pc[r] = "mark" /\ MarkAsProcessed(k)
    BY <1>1, <2>1, UpdateLocal DEF MarkAsProcessed, Pending, IInv, TypeOK, Held, NeverLost
  <2>2. CASE MarkAsFailed(k)
    BY <2>2, UpdateLocal DEF MarkAsFailed, Pending, IInv, NeverLost
  <2>3. CASE UNCHANGED <<done, gaveUp>>
    BY <2>3, UpdateLocal DEF Pending, IInv, NeverLost
  <2> QED BY <2>1, <2>2, <2>3 DEF Update, IncrementRetry, storage, history
<1>8. GivesUpOnlyAfterRetries'
  <2>1. CASE pc[r] = "fail" /\ MarkAsFailed(k)
    <3>1. errors[k] >= MaxRetries
      <4>1. copy[r].retry >= MaxRetries /\ copy[r].retry <= errors[k]
        BY <1>1, <2>1 DEF IInv, Held
      <4>2. copy[r].retry \in Nat /\ errors[k] \in Nat
        BY <1>1 DEF IInv, TypeOK, Copies
      <4> QED BY <4>1, <4>2, OutboxAssumption, SMT
    <3> QED BY <2>1, <3>1, UpdateLocal DEF MarkAsFailed, IInv, GivesUpOnlyAfterRetries
  <2>2. CASE UNCHANGED gaveUp
    BY <2>2, UpdateLocal DEF IInv, GivesUpOnlyAfterRetries
  <2> QED BY <2>1, <2>2 DEF Update, MarkAsProcessed, IncrementRetry, history
<1>9. RetryBooks'
  <2>1. \A m \in Messages : Incrementing(m)' = Incrementing(m) \ {r}
    BY UpdateLocal DEF Incrementing
  <2>2. CASE UNCHANGED retries
    BY <1>2, <2>1, <2>2, UpdateLocal, RetryBooksKept
  <2>3. CASE pc[r] = "increment" /\ IncrementRetry(k)
    <3> SUFFICES ASSUME NEW m \in Messages
                 PROVE  retries'[m] + Cardinality(Incrementing(m)') <= errors'[m]
      BY DEF RetryBooks
    <3> DEFINE a == Cardinality(Incrementing(m))  b == Cardinality(Incrementing(m)')
    <3>1. a \in Nat /\ b \in Nat
      BY RunnersFinite DEF Incrementing
    <3>2. /\ retries[m] + a <= errors[m] /\ retries[m] \in Nat /\ retries'[m] \in Nat
          /\ errors[m] \in Nat /\ errors'[m] = errors[m]
      BY <1>2, UpdateLocal DEF IInv, TypeOK, RetryBooks
    <3>3. CASE m = k
      <4>1. r \in Incrementing(m) /\ r \notin Incrementing(m)'
        BY <2>1, <2>3, <3>3 DEF Incrementing
      <4>2. Cardinality(Incrementing(m)' \cup {r}) = b + 1
        BY <4>1, CountOneMore DEF Incrementing
      <4>3. Incrementing(m)' \cup {r} = Incrementing(m)
        BY <2>1, <4>1
      <4>4. a = b + 1
        BY <4>2, <4>3
      <4>5. retries'[m] <= retries[m] + 1
        <5>1. retries' = retries \/ retries' = [retries EXCEPT ![m] = retries[m] + 1]
          BY <2>3, <3>3 DEF IncrementRetry
        <5>2. retries \in [Messages -> Nat]
          BY DEF IInv, TypeOK
        <5> QED BY <5>1, <5>2, SMT
      <4> HIDE DEF a, b
      <4>6. retries'[m] + b <= errors'[m]
        BY <3>1, <3>2, <4>4, <4>5, SMT
      <4> QED BY <4>6 DEF b
    <3>4. CASE m # k
      <4>1. retries'[m] = retries[m]
        BY <2>3, <3>4 DEF IncrementRetry, IInv, TypeOK
      <4>2. b <= a
        BY <2>1, CountMonotone DEF Incrementing
      <4> HIDE DEF a, b
      <4>3. retries'[m] + b <= errors'[m]
        BY <3>1, <3>2, <4>1, <4>2, SMT
      <4> QED BY <4>3 DEF b
    <3> QED BY <3>3, <3>4
  <2> QED BY <2>2, <2>3 DEF Update, MarkAsProcessed, MarkAsFailed, storage
<1>10. SentBooks'
  <2>0. \A m \in Messages : Late(m)' \subseteq Late(m)
    BY UpdateLocal DEF lifecycle, Late, Holds
  <2>1. CASE Fault /\ UNCHANGED done
    <3>1. \A m \in Messages : Spent(m) \ {r} \subseteq Spent(m)'
      BY <2>1, UpdateLocal DEF Spent, Holds, Pending
    <3> QED BY <1>2, <2>0, <2>1, <3>1, UpdateLocal, SentBooksFault DEF Fault
  <2>2. CASE UNCHANGED faults /\ UNCHANGED done /\ pc[r] # "mark"
    <3>1. \A m \in Messages : Spent(m) \subseteq Spent(m)'
      BY <2>2, UpdateLocal DEF Spent, Holds, Pending
    <3>2. faults' >= faults
      BY <2>2, SMT DEF IInv, TypeOK
    <3> QED BY <1>2, <2>0, <3>1, <3>2, UpdateLocal, SentBooksKept
  <2>3. CASE /\ UNCHANGED faults /\ pc[r] \in {"mark", "fail"}
             /\ done' = done \cup ({k} \cap rows)
    <3>1. \A q \in Runners, m \in Messages :
            pc[q] = "mark" /\ copy[q].id = m => \A c \in batch[q] : c.id # m
      BY DEF IInv, TypeOK, Held
    <3>2. \A m \in Messages : m # k => (m \in Pending' <=> m \in Pending)
      BY <2>3, UpdateLocal DEF Pending
    <3>3. k \notin Pending'
      BY <2>3, UpdateLocal DEF Pending
    <3>4. \A m \in Messages : Spent(m) \subseteq Spent(m)'
      BY <2>3, <3>1, <3>2, <3>3, UpdateLocal, SMT DEF Spent, Holds
    <3>5. faults' >= faults
      BY <2>3, SMT DEF IInv, TypeOK
    <3> QED BY <1>2, <2>0, <3>4, <3>5, UpdateLocal, SentBooksKept
  <2>4. CASE ctxDone[r] /\ UNCHANGED faults /\ UNCHANGED done /\ pc[r] = "mark"
    <3> SUFFICES ASSUME NEW m \in Messages
                 PROVE  sent'[m] + Cardinality(Late(m)') <= faults' + Cardinality(Spent(m)')
      BY DEF SentBooks
    <3> DEFINE a == Cardinality(Spent(m))  b == Cardinality(Spent(m)')
               l == Cardinality(Late(m))   j == Cardinality(Late(m)')
    <3>1. /\ a \in Nat /\ b \in Nat /\ l \in Nat /\ j \in Nat
          /\ sent[m] + l <= faults + a /\ sent[m] \in Nat /\ faults \in Nat
      BY <1>2, SentBooksNow
    <3>2. CASE m = k
      <4>1. r \in Late(m) /\ r \notin Late(m)'
        BY <2>4, <3>2, UpdateLocal DEF IInv, TypeOK, Held, Late, Holds
      <4>2. j + 1 <= l
        BY <1>2, <2>0, <4>1, SentBooksNow, CountOneLess
      <4>3. Spent(m) \ {r} \subseteq Spent(m)'
        BY <2>4, UpdateLocal DEF Spent, Holds, Pending
      <4>4. a <= b + 1
        BY <1>2, <4>3, SentBooksNow, CountWithoutOne
      <4> HIDE DEF a, b, l, j
      <4>5. sent[m] + j <= faults + b
        BY <3>1, <4>2, <4>4, SMT
      <4> QED BY <2>4, <4>5, UpdateLocal DEF b, j
    <3>3. CASE m # k
      <4>1. Spent(m) \subseteq Spent(m)'
        BY <2>4, <3>3, UpdateLocal DEF Spent, Holds, Pending
      <4>2. a <= b /\ j <= l
        BY <1>2, <2>0, <4>1, SentBooksNow, CountMonotone
      <4> HIDE DEF a, b, l, j
      <4>3. sent[m] + j <= faults + b
        BY <3>1, <4>2, SMT
      <4> QED BY <2>4, <4>3, UpdateLocal DEF b, j
    <3> QED BY <3>2, <3>3
  <2> QED BY <2>1, <2>2, <2>3, <2>4 DEF Update, CallFails, MarkAsProcessed, MarkAsFailed,
             IncrementRetry, storage
<1> QED BY <1>2, <1>3, <1>4, <1>5, <1>6, <1>7, <1>8, <1>9, <1>10 DEF IInv

LEMMA NextInv == ASSUME IInv, [Next]_vars PROVE IInv'
<1>1. CASE UNCHANGED vars
  <2>1. TypeOK' /\ Down' /\ draft' \cap committed = {}
    BY <1>1 DEF vars, storage, lifecycle, local, history, IInv, TypeOK, Down, Known
  <2> QED BY <1>1, <2>1, DraftInv DEF vars, storage, lifecycle
<1>2. CASE \E m \in Messages : SaveForPublish(m) \/ SaveWithTransaction(m)
  BY <1>2, SaveForPublishInv, SaveWithTransactionInv
<1>3. CASE CommitTx \/ RollbackTx
  BY <1>3, CommitTxInv, RollbackTxInv
<1>4. CASE \E w \in Workers : \/ Start(w) \/ Stop(w) \/ StopReturns(w) \/ WorkerLeaves(w)
                              \/ RunCleanup(w)
  BY <1>4, StartInv, StopInv, StopReturnsInv, WorkerLeavesInv, RunCleanupInv
<1>5. CASE \E r \in Runners : EndContext(r) \/ Crash(r) \/ ProcessBatch(r) \/ ProcessEntry(r)
  BY <1>5, EndContextInv, CrashInv, ProcessBatchInv, NextEntryInv, PublishInv, UpdateInv
     DEF ProcessEntry
<1> QED BY <1>1, <1>2, <1>3, <1>4, <1>5 DEF Next

LEMMA Inductive == Spec => []IInv
BY InitInv, NextInv, PTL DEF Spec

---------------------------------------------------------------------------
(* The theorems.                                                           *)

\* The variables keep their types: every row that is processed exists, and a runner
\* has a copy in hand exactly between taking it and updating its row.
THEOREM TypeCorrect == Spec => []TypeOK
BY Inductive, PTL DEF IInv

\* No event reaches the broker before its transaction has committed, for every
\* number of processors, whenever they fetch (SaveWithTransaction, FetchUnprocessed).
THEOREM GhostFree == Spec => []NoGhostEvents
BY Inductive, PTL DEF IInv

\* No crash, failed update or cleanup loses a committed event (processEntry).
THEOREM Lossless == Spec => []NeverLost
BY Inductive, PTL DEF IInv

\* A stale copy never makes a processor give an event up early (processEntry).
THEOREM RetriesExhausted == Spec => []GivesUpOnlyAfterRetries
BY Inductive, PTL DEF IInv

\* The number of duplicates is bounded by the runners and the faults (processEntry).
THEOREM DuplicatesBounded == Spec => []DuplicatesExplained
<1>1. IInv => DuplicatesExplained
  <2> SUFFICES ASSUME IInv, NEW m \in Messages
               PROVE  sent[m] <= Cardinality(Runners) + faults
    BY DEF DuplicatesExplained
  <2> DEFINE a == Cardinality(Spent(m))  l == Cardinality(Late(m))  n == Cardinality(Runners)
  <2>1. a \in Nat /\ n \in Nat /\ a <= n /\ l \in Nat
    BY RunnersFinite, CountMonotone DEF Spent, Late
  <2>2. faults \in Nat /\ sent[m] \in Nat
    BY SMT DEF IInv, TypeOK
  <2>4. sent[m] + l <= faults + a
    BY DEF IInv, SentBooks
  <2> HIDE DEF a, l, n
  <2>3. sent[m] <= n + faults
    BY <2>1, <2>2, <2>4, SMT
  <2> QED BY <2>3 DEF n
<1> QED BY <1>1, Inductive, PTL

\* Every step of the outbox is a step of Publication or changes nothing it talks about.
LEMMA StepRefines ==
  ASSUME IInv, [Next]_vars PROVE [Abstract!PubNext]_(Abstract!pubVars)
<1> DEFINE settled == committed \ Pending
<1>0. SUFFICES \/ \E S \in SUBSET Messages : Abstract!CommitEvents(S)
               \/ \E m \in Messages : Abstract!Send(m) \/ Abstract!Settle(m) \/ Abstract!GiveUp(m)
               \/ UNCHANGED <<committed, sent, settled, gaveUp>>
  BY DEF Abstract!PubNext, Abstract!pubVars
<1>1. ASSUME NEW S \in SUBSET Messages, S \cap committed = {}, rows' = rows \cup S,
             committed' = committed \cup S, UNCHANGED <<done, sent, gaveUp>>
      PROVE  Abstract!CommitEvents(S)
  BY <1>1 DEF Abstract!CommitEvents, Pending, IInv, TypeOK, Known
<1>2. CASE \E m \in Messages : SaveForPublish(m) \/ SaveWithTransaction(m)
  <2>1. ASSUME NEW m \in Messages, SaveForPublish(m) PROVE Abstract!CommitEvents({m})
    BY <1>1, <2>1, {m} \in SUBSET Messages, {m} \cap committed = {} DEF SaveForPublish, Fresh
  <2>2. ASSUME NEW m \in Messages, SaveWithTransaction(m)
        PROVE  UNCHANGED <<committed, sent, settled, gaveUp>>
    BY <2>2 DEF SaveWithTransaction, Pending, history
  <2>3. \A m \in Messages : {m} \in SUBSET Messages
    OBVIOUS
  <2> HIDE DEF settled
  <2> QED BY <1>2, <2>1, <2>2, <2>3
<1>3. CASE CommitTx \/ RollbackTx
  <2>1. draft \in SUBSET Messages /\ draft \cap committed = {}
    BY DEF IInv, TypeOK, Known
  <2> QED BY <1>1, <1>3, <2>1 DEF CommitTx, RollbackTx, Pending, history
<1>4. CASE \E w \in Workers : Start(w) \/ Stop(w) \/ StopReturns(w) \/ WorkerLeaves(w)
  BY <1>4 DEF Start, Stop, StopReturns, WorkerLeaves, Pending, storage, history
<1>5. CASE \E w \in Workers : RunCleanup(w)
  <2>1. PICK S \in SUBSET done : DeleteProcessedBefore(S)
    BY <1>5 DEF RunCleanup
  <2>2. Pending' = Pending
    BY <2>1 DEF DeleteProcessedBefore, Pending
  <2> QED BY <2>1, <2>2 DEF DeleteProcessedBefore, history
<1>6. CASE \E r \in Runners : EndContext(r) \/ Crash(r) \/ ProcessBatch(r) \/ NextEntry(r)
  BY <1>6 DEF EndContext, Crash, ProcessBatch, NextEntry, Pending, storage, history
<1>7. ASSUME NEW r \in Runners, Publish(r)
      PROVE  Abstract!Send(copy[r].id) \/ UNCHANGED <<committed, sent, settled, gaveUp>>
  <2>1. copy[r].id \in committed /\ copy[r].id \in Messages
    BY <1>7 DEF Publish, IInv, TypeOK, Held
  <2>2. UNCHANGED <<committed, settled, gaveUp>>
    BY <1>7 DEF Publish, Pending, storage
  <2>3. \/ sent' = [sent EXCEPT ![copy[r].id] = @ + 1]
        \/ sent' = [sent EXCEPT ![copy[r].id] = @ + 0]
    BY <1>7 DEF Publish, Accept
  <2>4. [sent EXCEPT ![copy[r].id] = @ + 0] = sent
    BY <2>1, SMT DEF IInv, TypeOK
  <2> QED BY <2>1, <2>2, <2>3, <2>4 DEF Abstract!Send
<1>8. ASSUME NEW r \in Runners, Update(r)
      PROVE  \/ Abstract!Settle(copy[r].id) \/ Abstract!GiveUp(copy[r].id)
             \/ UNCHANGED <<committed, sent, settled, gaveUp>>
  <2> DEFINE k == copy[r].id
  <2>1. k \in committed /\ k \in Messages /\ UNCHANGED <<committed, sent, rows>>
    BY <1>8, UpdateLocal
  <2>2. CASE UNCHANGED <<done, gaveUp>>
    BY <2>1, <2>2 DEF Pending
  <2>3. CASE k \notin rows /\ (MarkAsProcessed(k) \/ MarkAsFailed(k))
    BY <2>1, <2>3 DEF MarkAsProcessed, MarkAsFailed, Pending
  <2>4. CASE k \in rows /\ pc[r] = "mark" /\ MarkAsProcessed(k)
    <3>1. sent[k] > 0
      BY <2>4 DEF IInv, Held
    <3> QED BY <2>1, <2>4, <3>1 DEF MarkAsProcessed, Pending, Abstract!Settle
  <2>5. CASE k \in rows /\ MarkAsFailed(k)
    BY <2>1, <2>5 DEF MarkAsFailed, Pending, Abstract!GiveUp
  <2>6. \/ pc[r] = "mark" /\ MarkAsProcessed(k)
        \/ MarkAsFailed(k)
        \/ UNCHANGED <<done, gaveUp>>
    BY <1>8 DEF Update, IncrementRetry, storage, history
  <2> HIDE DEF settled
  <2> QED BY <2>2, <2>3, <2>4, <2>5, <2>6
<1>9. ASSUME NEW r \in Runners, Publish(r) \/ Update(r) PROVE copy[r].id \in Messages
  BY <1>9 DEF Publish, Update, IInv, TypeOK, Held
<1>10. CASE UNCHANGED vars
  BY <1>10 DEF vars, storage, history, Pending
<1> QED BY <1>2, <1>3, <1>4, <1>5, <1>6, <1>7, <1>8, <1>9, <1>10 DEF Next, ProcessEntry

\* The outbox keeps its promise to the application and the broker: it implements
\* Publication, whatever crashes, fails or is fetched twice.
THEOREM Refinement == Spec => ImplementsPublication
<1>1. Init => Abstract!PubInit
  BY DEF Init, Abstract!PubInit, Pending
<1> QED BY <1>1, Inductive, StepRefines, PTL DEF Spec, ImplementsPublication, Abstract!PubSpec
=============================================================================
