------------------------------- MODULE Outbox -------------------------------
(***************************************************************************)
(* The transactional outbox, pkg/patterns/outbox: an application saves     *)
(* entries, alone or in a transaction; the worker of a processor and the   *)
(* callers of ProcessOnce fetch copies of the unprocessed entries, publish *)
(* each and then update its row.  The storage is the durable one           *)
(* (postgres_storage.go), so a process may crash between any two steps and *)
(* start again with a new processor over the same rows.                    *)
(*                                                                         *)
(* Faults (a publish that fails, with or without the broker having stored  *)
(* the message, a storage update that fails, a context that ends, a crash) *)
(* are bounded by MaxFaults.                                               *)
(***************************************************************************)
EXTENDS Naturals, FiniteSets

CONSTANTS
  Messages,    \* the identifiers of the entries the application saves
  Workers,     \* processors, each with its worker goroutine
  Callers,     \* goroutines calling ProcessOnce
  Cancellable, \* those of both that are given a context that may end
  BatchSize,   \* ProcessorConfig.BatchSize
  MaxRetries,  \* ProcessorConfig.MaxRetries
  MaxFaults    \* bound on the number of faults

ASSUME OutboxAssumption ==
  /\ Workers \cap Callers = {}
  /\ IsFiniteSet(Messages) /\ IsFiniteSet(Workers \cup Callers)
  /\ BatchSize \in Nat \ {0} /\ MaxRetries \in Nat /\ MaxFaults \in Nat

VARIABLES
  draft,    \* entries saved in the open transaction of the application
  rows,     \* entries the storage holds
  done,     \* rows with a processed_at
  retries,  \* retry_count of each row
  started, closed, stopping,  \* of each processor: the flag, whether stopChan is
                              \* closed, whether a call of Stop is waiting
  ctxDone,  \* the context given to Start, or to the call of ProcessOnce, is over
  pc,       \* what each goroutine is doing
  batch,    \* the fetched copies it has not yet looked at
  copy,     \* the copy it is processing
  \* history
  committed, sent, errors, gaveUp,
  faults    \* faults so far

storage == <<draft, rows, done, retries>>
lifecycle == <<started, closed, stopping, ctxDone>>
local == <<pc, batch, copy>>
history == <<committed, sent, errors, gaveUp>>
vars == <<storage, lifecycle, local, history, faults>>

Runners == Workers \cup Callers

\* A fetched entry: its identifier and the retry count it had when fetched.
Copies == [id : Messages, retry : Nat]

\* No entry in hand.
NoCopy == [id |-> "none"]

Init == /\ draft = {} /\ rows = {} /\ done = {}
        /\ retries = [m \in Messages |-> 0]
        /\ started = [w \in Workers |-> FALSE]
        /\ closed = [w \in Workers |-> FALSE]
        /\ stopping = [w \in Workers |-> FALSE]
        /\ ctxDone = [r \in Runners |-> FALSE]
        /\ pc = [r \in Runners |-> "off"]
        /\ batch = [r \in Runners |-> {}]
        /\ copy = [r \in Runners |-> NoCopy]
        /\ committed = {} /\ gaveUp = {}
        /\ sent = [m \in Messages |-> 0]
        /\ errors = [m \in Messages |-> 0]
        /\ faults = 0

Fault == /\ faults < MaxFaults
         /\ faults' = faults + 1

\* A call returns an error: it went wrong, or its context is over.
CallFails(r) == IF ctxDone[r] THEN UNCHANGED faults ELSE Fault

---------------------------------------------------------------------------
(* The application.  Entry identifiers are fresh: an entry is saved once.  *)

Fresh(m) == m \notin committed \cup draft

\* SaveForPublish: a row of its own, at once.
SaveForPublish(m) ==
  /\ Fresh(m)
  /\ rows' = rows \cup {m}
  /\ committed' = committed \cup {m}
  /\ UNCHANGED <<draft, done, retries, lifecycle, local, sent, errors, gaveUp, faults>>

\* SaveWithTransaction: the row belongs to the open transaction.
SaveWithTransaction(m) ==
  /\ Fresh(m)
  /\ draft' = draft \cup {m}
  /\ UNCHANGED <<rows, done, retries, lifecycle, local, history, faults>>

CommitTx ==
  /\ draft # {}
  /\ rows' = rows \cup draft
  /\ committed' = committed \cup draft
  /\ draft' = {}
  /\ UNCHANGED <<done, retries, lifecycle, local, sent, errors, gaveUp, faults>>

RollbackTx ==
  /\ draft # {}
  /\ draft' = {}
  /\ UNCHANGED <<rows, done, retries, lifecycle, local, history, faults>>

---------------------------------------------------------------------------
(* The storage operations, one SQL statement each.  An update of a row that *)
(* is not there changes nothing and returns ErrEntryNotFound.               *)

Pending == rows \ done

\* At most n unprocessed rows; fewer only when there are no more.
FetchUnprocessed(n) ==
  {S \in SUBSET Pending :
     Cardinality(S) = IF Cardinality(Pending) < n THEN Cardinality(Pending) ELSE n}

\* Mutant of MarkAsProcessed: the update finds no row
MarkAsNothing(m) ==
  UNCHANGED <<storage, history>>

MarkAsProcessed(m) ==
  /\ done' = done \cup ({m} \cap rows)
  /\ UNCHANGED <<draft, rows, retries, committed, sent, errors, gaveUp>>

MarkAsFailed(m) ==
  /\ done' = done \cup ({m} \cap rows)
  /\ gaveUp' = gaveUp \cup ({m} \cap rows)
  /\ UNCHANGED <<draft, rows, retries, committed, sent, errors>>

IncrementRetry(m) ==
  /\ retries' = IF m \in rows THEN [retries EXCEPT ![m] = @ + 1] ELSE retries
  /\ UNCHANGED <<draft, rows, done, history>>

DeleteProcessedBefore(S) ==
  /\ rows' = rows \ S
  /\ done' = done \ S
  /\ UNCHANGED <<draft, retries, history>>

---------------------------------------------------------------------------
(* The life of a processor.                                                 *)

\* Start.  The worker of a processor whose stopChan is already closed leaves
\* at its first select.
Start(w) ==
  /\ ~started[w] /\ ~stopping[w]
  /\ started' = [started EXCEPT ![w] = TRUE]
  /\ ctxDone' = [ctxDone EXCEPT ![w] = FALSE]
  /\ pc' = [pc EXCEPT ![w] = IF closed[w] THEN "off" ELSE "poll"]
  /\ UNCHANGED <<storage, closed, stopping, batch, copy, history, faults>>

\* Everything in memory is lost.  The process that starts again creates a new
\* processor: NewProcessor makes a new stopChan.
Lose(r) ==
  /\ pc' = [pc EXCEPT ![r] = "off"]
  /\ batch' = [batch EXCEPT ![r] = {}]
  /\ copy' = [copy EXCEPT ![r] = NoCopy]
  /\ ctxDone' = [ctxDone EXCEPT ![r] = FALSE]
  /\ IF r \in Workers
     THEN /\ started' = [started EXCEPT ![r] = FALSE]
          /\ closed' = [closed EXCEPT ![r] = FALSE]
          /\ stopping' = [stopping EXCEPT ![r] = FALSE]
     ELSE UNCHANGED <<started, closed, stopping>>

\* Stop closes stopChan and waits; a second Stop closes it again, which panics.
Stop(w) ==
  /\ started[w]
  /\ IF closed[w]
     THEN Fault /\ Lose(w)
     ELSE /\ closed' = [closed EXCEPT ![w] = TRUE]
          /\ stopping' = [stopping EXCEPT ![w] = TRUE]
          /\ UNCHANGED <<started, ctxDone, local, faults>>
  /\ UNCHANGED <<storage, history>>

\* Stop returns: its goroutines have left, or its context is done first.
StopReturns(w) ==
  /\ stopping[w]
  /\ stopping' = [stopping EXCEPT ![w] = FALSE]
  /\ \/ pc[w] = "off" /\ started' = [started EXCEPT ![w] = FALSE]
     \/ UNCHANGED started
  /\ UNCHANGED <<storage, closed, ctxDone, local, history, faults>>

\* The context of a worker or of a caller is cancelled or times out.
EndContext(r) ==
  /\ r \in Cancellable /\ pc[r] # "off" /\ ~ctxDone[r]
  /\ Fault
  /\ ctxDone' = [ctxDone EXCEPT ![r] = TRUE]
  /\ UNCHANGED <<storage, started, closed, stopping, local, history>>

\* The worker sees stopChan closed, or the context of Start over.  In the second
\* case the processor still counts as started: it can be stopped, not started.
WorkerLeaves(w) ==
  /\ pc[w] = "poll" /\ (closed[w] \/ ctxDone[w])
  /\ pc' = [pc EXCEPT ![w] = "off"]
  /\ UNCHANGED <<storage, lifecycle, batch, copy, history, faults>>

\* The process of a goroutine, or of a processor whose worker has left, dies.
Crash(r) ==
  /\ pc[r] # "off" \/ (r \in Workers /\ started[r])
  /\ Fault
  /\ Lose(r)
  /\ UNCHANGED <<storage, history>>

\* Mutant of RunCleanup: by age alone, not by processed_at
CleanupByAge(w) ==
  /\ started[w] /\ ~closed[w] /\ ~ctxDone[w]
  /\ \E S \in SUBSET rows \ {{}} : DeleteProcessedBefore(S)
  /\ UNCHANGED <<lifecycle, local, faults>>

\* The cleanup goroutine deletes the rows processed long enough ago.
RunCleanup(w) ==
  /\ started[w] /\ ~closed[w] /\ ~ctxDone[w]
  /\ \E S \in SUBSET done \ {{}} : DeleteProcessedBefore(S)
  /\ UNCHANGED <<lifecycle, local, faults>>

---------------------------------------------------------------------------
(* One pass over a batch.                                                   *)

\* processBatch fetches copies.  The worker does so at a tick: with stopChan
\* closed and a tick waiting, its select may still choose the tick; with the
\* context over the fetch fails and nothing follows.  A call of ProcessOnce comes
\* with a context of its own.
ProcessBatch(r) ==
  /\ IF r \in Workers THEN pc[r] = "poll" /\ ~ctxDone[r] ELSE pc[r] = "off"
  /\ ctxDone' = [ctxDone EXCEPT ![r] = FALSE]
  /\ Pending # {}
  /\ \E S \in FetchUnprocessed(BatchSize) :
       batch' = [batch EXCEPT ![r] = {[id |-> m, retry |-> retries[m]] : m \in S}]
  /\ pc' = [pc EXCEPT ![r] = "next"]
  /\ UNCHANGED <<storage, started, closed, stopping, copy, history, faults>>

\* Mutant of NextEntry: the retry before the last is taken for the last
NextEntryOneLess(r) ==
  /\ pc[r] = "next"
  /\ \/ \E c \in batch[r] :
          /\ copy' = [copy EXCEPT ![r] = c]
          /\ batch' = [batch EXCEPT ![r] = @ \ {c}]
          /\ pc' = [pc EXCEPT ![r] = IF c.retry + 1 >= MaxRetries THEN "fail" ELSE "publish"]
     \/ /\ batch[r] = {}
        /\ pc' = [pc EXCEPT ![r] = IF r \in Workers THEN "poll" ELSE "off"]
        /\ UNCHANGED <<batch, copy>>
  /\ UNCHANGED <<storage, lifecycle, history, faults>>

\* Mutant of NextEntry: the worker leaves after its batch
NextEntryThenLeaves(r) ==
  /\ pc[r] = "next"
  /\ \/ \E c \in batch[r] :
          /\ copy' = [copy EXCEPT ![r] = c]
          /\ batch' = [batch EXCEPT ![r] = @ \ {c}]
          /\ pc' = [pc EXCEPT ![r] = IF c.retry >= MaxRetries THEN "fail" ELSE "publish"]
     \/ /\ batch[r] = {}
        /\ pc' = [pc EXCEPT ![r] = "off"]
        /\ UNCHANGED <<batch, copy>>
  /\ UNCHANGED <<storage, lifecycle, history, faults>>

\* The next entry of the batch, or the end of it.
NextEntry(r) ==
  /\ pc[r] = "next"
  /\ \/ \E c \in batch[r] :
          /\ copy' = [copy EXCEPT ![r] = c]
          /\ batch' = [batch EXCEPT ![r] = @ \ {c}]
          /\ pc' = [pc EXCEPT ![r] = IF c.retry >= MaxRetries THEN "fail" ELSE "publish"]
     \/ /\ batch[r] = {}
        /\ pc' = [pc EXCEPT ![r] = IF r \in Workers THEN "poll" ELSE "off"]
        /\ UNCHANGED <<batch, copy>>
  /\ UNCHANGED <<storage, lifecycle, history, faults>>

\* The broker stores the message n times.
Accept(m, n) == sent' = [sent EXCEPT ![m] = @ + n]

\* Mutant of Publish: an error is taken for a success
PublishLosesError(r) ==
  /\ pc[r] = "publish"
  /\ LET m == copy[r].id IN
     \/ /\ Accept(m, 1)
        /\ pc' = [pc EXCEPT ![r] = "mark"]
        /\ UNCHANGED <<errors, faults>>
     \/ /\ CallFails(r)
        /\ \E n \in {0, 1} : Accept(m, n)
        /\ errors' = [errors EXCEPT ![m] = @ + 1]
        /\ pc' = [pc EXCEPT ![r] = "mark"]
  /\ UNCHANGED <<storage, lifecycle, batch, copy, committed, gaveUp>>

\* publisher.Publish.  An error does not tell whether the broker has the message.
Publish(r) ==
  /\ pc[r] = "publish"
  /\ LET m == copy[r].id IN
     \/ /\ Accept(m, 1)
        /\ pc' = [pc EXCEPT ![r] = "mark"]
        /\ UNCHANGED <<errors, faults>>
     \/ /\ CallFails(r)
        /\ \E n \in {0, 1} : Accept(m, n)
        /\ errors' = [errors EXCEPT ![m] = @ + 1]
        /\ pc' = [pc EXCEPT ![r] = "increment"]
  /\ UNCHANGED <<storage, lifecycle, batch, copy, committed, gaveUp>>

\* The update of the row, which may fail, and does once the context is over;
\* either way the batch goes on.
Update(r) ==
  /\ \/ /\ ~ctxDone[r] /\ UNCHANGED faults
        /\ \/ pc[r] = "mark" /\ MarkAsProcessed(copy[r].id)
           \/ pc[r] = "fail" /\ MarkAsFailed(copy[r].id)
           \/ pc[r] = "increment" /\ IncrementRetry(copy[r].id)
     \/ pc[r] \in {"mark", "fail", "increment"} /\ CallFails(r) /\ UNCHANGED <<storage, history>>
  /\ copy' = [copy EXCEPT ![r] = NoCopy]
  /\ pc' = [pc EXCEPT ![r] = "next"]
  /\ UNCHANGED <<lifecycle, batch>>

ProcessEntry(r) == NextEntry(r) \/ Publish(r) \/ Update(r)

Next == \/ \E m \in Messages : SaveForPublish(m) \/ SaveWithTransaction(m)
        \/ CommitTx \/ RollbackTx
        \/ \E w \in Workers : \/ Start(w) \/ Stop(w) \/ StopReturns(w) \/ WorkerLeaves(w)
                              \/ RunCleanup(w)
        \/ \E r \in Runners : EndContext(r) \/ Crash(r) \/ ProcessBatch(r) \/ ProcessEntry(r)

(* The ticker of a worker keeps firing and the scheduler runs every          *)
(* goroutine; a processor that is down is started again.  Nothing forces an  *)
(* application to save, to stop a processor or to call ProcessOnce.          *)
Fairness == /\ \A w \in Workers : WF_vars(Start(w)) /\ WF_vars(ProcessBatch(w))
            /\ \A r \in Runners : WF_vars(ProcessEntry(r))

Spec == Init /\ [][Next]_vars /\ Fairness

---------------------------------------------------------------------------
(* Properties.                                                              *)

\* Types; a processed row is a row, and a goroutine holds a copy of an entry
\* exactly while it is in processEntry.
TypeOK == /\ draft \subseteq Messages /\ rows \subseteq Messages
          /\ done \subseteq rows
          /\ retries \in [Messages -> Nat]
          /\ started \in [Workers -> BOOLEAN] /\ closed \in [Workers -> BOOLEAN]
          /\ stopping \in [Workers -> BOOLEAN] /\ ctxDone \in [Runners -> BOOLEAN]
          /\ pc \in [Runners -> {"off", "poll", "next", "publish", "mark", "fail", "increment"}]
          /\ batch \in [Runners -> SUBSET Copies]
          /\ copy \in [Runners -> Copies \cup {NoCopy}]
          /\ \A r \in Runners : (copy[r] = NoCopy) <=> (pc[r] \in {"off", "poll", "next"})
          /\ committed \subseteq Messages /\ gaveUp \subseteq Messages
          /\ sent \in [Messages -> Nat] /\ errors \in [Messages -> Nat]
          /\ faults \in 0..MaxFaults

\* An event of a transaction that rolled back, or has not committed yet, never
\* reaches the broker, however the workers' fetches fall between the statements
\* of the transaction (SaveWithTransaction, FetchUnprocessed).
NoGhostEvents == \A m \in Messages : sent[m] > 0 => m \in committed

\* A committed event is never lost: as long as its row is not waiting to be
\* published the broker has it, or the processor has marked it as failed; crashes,
\* failed updates and the cleanup of old rows do not change that (processEntry).
NeverLost == \A m \in committed : m \in Pending \/ sent[m] > 0 \/ m \in gaveUp

\* An event is marked as failed only after MaxRetries publish errors of its own,
\* although workers decide on the retry count of a stale copy (processEntry).
GivesUpOnlyAfterRetries == \A m \in gaveUp : errors[m] >= MaxRetries

\* The broker gets an event more than once only for a reason: each goroutine that
\* processes batches may publish it once, and each fault may repeat it once, a
\* context that ends in the middle of a batch included (processEntry publishes
\* first and marks the row afterwards, in the same context).
DuplicatesExplained == \A m \in Messages : sent[m] <= Cardinality(Runners) + faults

\* Every committed event is published or marked as failed in the end, unless no
\* processor is ever up again: each was told to stop, or its worker left with the
\* context of Start, after which Start is refused (runWorker, processBatch, Start).
EventuallySettled ==
  \A m \in Messages :
    (m \in committed) ~>
      \/ sent[m] > 0 \/ m \in gaveUp
      \/ [](\A w \in Workers : closed[w] \/ ctxDone[w])

\* The outbox implements what it promises to the application and the broker.
Abstract == INSTANCE Publication WITH settled <- committed \ Pending
ImplementsPublication == Abstract!PubSpec
=============================================================================
