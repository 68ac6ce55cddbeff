---------------------------- MODULE CircuitBreaker ----------------------------
(* The circuit breaker of pkg/resilience/circuit_breaker.go.                   *)
(*                                                                             *)
(* Every method of the breaker runs under its mutex, so one action is one      *)
(* critical section.  A caller's Execute is two of them, beforeRequest and     *)
(* afterRequest, with the protected operation running in between without the  *)
(* lock: that gap is where other callers, the clock and Reset interleave.      *)
(*                                                                             *)
(* Time is abstracted to the one bit the code reads, "expiry is before now":   *)
(* toNewGeneration clears it (Interval and Timeout are positive, Validate) and *)
(* the clock may set it at any later moment.                                   *)
EXTENDS Integers, FiniteSets

CONSTANTS
    Callers,              \* goroutines calling Execute
    MaxRequests,          \* CircuitBreakerConfig.MaxRequests
    MinimumRequests,      \* CircuitBreakerConfig.MinimumRequests
    FailureThreshold,     \* CircuitBreakerConfig.FailureThreshold
    FailureRatePercent,   \* CircuitBreakerConfig.FailureRateThreshold * 100
    MaxGeneration,        \* bound: no request is admitted and no timer fires beyond it
    MaxWindow             \* bound: requests admitted in one generation

(* CircuitBreakerConfig.Validate *)
ASSUME ConfigAssumption ==
    /\ IsFiniteSet(Callers)
    /\ MaxRequests \in Nat \ {0}
    /\ MinimumRequests \in Nat \ {0}
    /\ FailureThreshold \in Nat
    /\ FailureRatePercent \in 0 .. 100
    /\ MaxGeneration \in Nat
    /\ MaxWindow \in Nat

VARIABLES
    state,             \* cb.state
    generation,        \* cb.generation
    counts,            \* cb.counts
    expired,           \* cb.expiry.Before(time.Now())
    halfOpenSuccess,   \* cb.halfOpenSuccess: probes admitted while half-open
    running,           \* caller -> generation its operation was admitted in
    admitted           \* history: requests admitted in the current generation

vars == <<state, generation, counts, expired, halfOpenSuccess, running,
          admitted>>

Idle == -1             \* the caller has no operation in flight

States == {"closed", "half-open", "open"}

Counts == [Requests : Nat, TotalFailures : Nat,
           ConsecutiveSuccesses : Nat, ConsecutiveFailures : Nat]

ZeroCounts == [Requests |-> 0, TotalFailures |-> 0,
               ConsecutiveSuccesses |-> 0, ConsecutiveFailures |-> 0]

(* Counts.onSuccess and Counts.onFailure *)
CountSuccess(c) ==
    [Requests |-> c.Requests + 1, TotalFailures |-> c.TotalFailures,
     ConsecutiveSuccesses |-> c.ConsecutiveSuccesses + 1, ConsecutiveFailures |-> 0]

CountFailure(c) ==
    [Requests |-> c.Requests + 1, TotalFailures |-> c.TotalFailures + 1,
     ConsecutiveSuccesses |-> 0, ConsecutiveFailures |-> c.ConsecutiveFailures + 1]

(* The default ReadyToTrip installed by NewCircuitBreaker *)
ReadyToTrip(c) ==
    /\ c.Requests >= MinimumRequests
    /\ \/ c.TotalFailures >= FailureThreshold
       \/ c.TotalFailures * 100 >= FailureRatePercent * c.Requests

-------------------------------------------------------------------------------
(* The breaker proper, as a record: what currentState and toNewGeneration      *)
(* compute inside one critical section before it goes on.                      *)

Breaker == [st |-> state, gen |-> generation, cnt |-> counts,
            exp |-> expired, half |-> halfOpenSuccess, adm |-> admitted]

toNewGeneration(b, newState) ==
    [st |-> newState, gen |-> b.gen + 1, cnt |-> ZeroCounts,
     exp |-> FALSE, half |-> 0, adm |-> 0]

currentState(b) ==
    IF b.exp /\ b.st = "closed" THEN toNewGeneration(b, "closed")
    ELSE IF b.exp /\ b.st = "open" THEN toNewGeneration(b, "half-open")
    ELSE b

SetBreaker(b) ==
    /\ state' = b.st
    /\ generation' = b.gen
    /\ counts' = b.cnt
    /\ expired' = b.exp
    /\ halfOpenSuccess' = b.half
    /\ admitted' = b.adm

Init ==
    /\ state = "closed"
    /\ generation = 0
    /\ counts = ZeroCounts
    /\ expired = FALSE
    /\ halfOpenSuccess = 0
    /\ running = [c \in Callers |-> Idle]
    /\ admitted = 0

(* Mutant of MayPass: one probe too many *)
MayPassOffByOne(b) ==
    /\ b.st # "open"
    /\ ~(b.st = "half-open" /\ b.half > MaxRequests)

(* beforeRequest: admitted, or rejected with ErrOpenState / ErrTooManyRequests *)
MayPass(b) ==
    /\ b.st # "open"
    /\ ~(b.st = "half-open" /\ b.half >= MaxRequests)

beforeRequest(c) ==
    LET b == currentState(Breaker) IN
    /\ running[c] = Idle
    /\ generation < MaxGeneration
    /\ admitted < MaxWindow
    /\ IF MayPass(b)
       THEN /\ SetBreaker([b EXCEPT !.half = IF b.st = "half-open" THEN @ + 1 ELSE @,
                                    !.adm = @ + 1])
            /\ running' = [running EXCEPT ![c] = b.gen]
       ELSE /\ SetBreaker(b)
            /\ UNCHANGED running

(* Mutant of onSuccess: the first successful probe closes the breaker          *)
onSuccessClosesEarly(b) ==
    IF b.st = "half-open" THEN toNewGeneration(b, "closed")
    ELSE [b EXCEPT !.cnt = CountSuccess(@)]

(* onSuccess and onFailure, in the state currentState returned *)
onSuccess(b) ==
    LET n == [b EXCEPT !.cnt = CountSuccess(@)] IN
    IF b.st = "half-open" /\ n.cnt.ConsecutiveSuccesses >= MaxRequests
    THEN toNewGeneration(n, "closed")
    ELSE IF b.st = "open" THEN b ELSE n

(* Mutants of onFailure: the threshold is tested before the failure is         *)
(* counted; a failed probe is not acted on                                     *)
onFailureTestsFirst(b) ==
    CASE b.st = "closed" /\ ReadyToTrip(b.cnt) -> toNewGeneration(b, "open")
      [] b.st = "closed" /\ ~ReadyToTrip(b.cnt) -> [b EXCEPT !.cnt = CountFailure(@)]
      [] b.st = "half-open" -> toNewGeneration(b, "open")
      [] OTHER -> b

onFailureForgetsProbe(b) ==
    LET n == [b EXCEPT !.cnt = CountFailure(@)] IN
    IF b.st = "closed" /\ ReadyToTrip(n.cnt) THEN toNewGeneration(n, "open") ELSE n

onFailure(b) ==
    LET n == [b EXCEPT !.cnt = CountFailure(@)] IN
    CASE b.st = "closed" -> IF ReadyToTrip(n.cnt) THEN toNewGeneration(n, "open") ELSE n
      [] b.st = "half-open" -> toNewGeneration(b, "open")
      [] OTHER -> b

(* Mutant of afterRequest: the generation is not compared *)
afterRequestAnyGeneration(c, success) ==
    LET b == currentState(Breaker) IN
    /\ running[c] # Idle
    /\ SetBreaker(IF success THEN onSuccess(b) ELSE onFailure(b))
    /\ running' = [running EXCEPT ![c] = Idle]

(* afterRequest: the operation returned, or panicked (counted as a failure)    *)
afterRequest(c, success) ==
    LET b == currentState(Breaker) IN
    /\ running[c] # Idle
    /\ IF running[c] # b.gen THEN SetBreaker(b)
       ELSE SetBreaker(IF success THEN onSuccess(b) ELSE onFailure(b))
    /\ running' = [running EXCEPT ![c] = Idle]

(* GetState also rolls an expired window over *)
GetState ==
    /\ expired
    /\ generation < MaxGeneration
    /\ SetBreaker(currentState(Breaker))
    /\ UNCHANGED running

Reset ==
    /\ generation < MaxGeneration
    /\ SetBreaker(toNewGeneration(Breaker, "closed"))
    /\ UNCHANGED running

(* The clock passes cb.expiry *)
Expire ==
    /\ ~expired
    /\ generation < MaxGeneration
    /\ expired' = TRUE
    /\ UNCHANGED <<state, generation, counts, halfOpenSuccess, running,
                   admitted>>

Next ==
    \/ \E c \in Callers : beforeRequest(c)
    \/ \E c \in Callers, ok \in BOOLEAN : afterRequest(c, ok)
    \/ GetState
    \/ Reset
    \/ Expire

(* Every admitted operation returns: Execute runs it on the caller's goroutine. *)
Fairness == \A c \in Callers : WF_vars(\E ok \in BOOLEAN : afterRequest(c, ok))

Spec == Init /\ [][Next]_vars /\ Fairness

-------------------------------------------------------------------------------
(* Requests of the current generation whose operation has not returned yet.    *)
InFlight == {c \in Callers : running[c] = generation}

(* The fields of CircuitBreaker keep their types; no count of onSuccess,        *)
(* onFailure and toNewGeneration goes below zero.                               *)
TypeOK ==
    /\ state \in States
    /\ generation \in Nat
    /\ counts \in Counts
    /\ expired \in BOOLEAN
    /\ halfOpenSuccess \in Nat
    /\ running \in [Callers -> Nat \cup {Idle}]
    /\ admitted \in Nat

(* Every request admitted in the current generation is either still in flight  *)
(* or counted exactly once, whatever callers, clock and Reset did meanwhile:   *)
(* no late result of an earlier generation is counted in this one.  While the  *)
(* breaker is open nothing of its generation is in flight or counted.          *)
CountedOnce ==
    /\ admitted = counts.Requests + Cardinality(InFlight)
    /\ state = "open" => admitted = 0

(* Half-open: the probes admitted are those in flight plus those that          *)
(* succeeded, and never more than MaxRequests (beforeRequest, onSuccess).      *)
ProbesBounded ==
    state = "half-open" =>
        /\ halfOpenSuccess = counts.ConsecutiveSuccesses + Cardinality(InFlight)
        /\ halfOpenSuccess <= MaxRequests

(* The counts as they were when the last failure was counted: the successes    *)
(* since then taken back.                                                      *)
AtLastFailure(c) == [c EXCEPT !.Requests = @ - c.ConsecutiveSuccesses]

(* No failure is overlooked: a breaker that is still closed was below its      *)
(* thresholds when it counted the last failure of this window, however many    *)
(* callers reported meanwhile.  The counts of now may well be at a threshold:  *)
(* onFailure asks ReadyToTrip, onSuccess does not, so a success that brings    *)
(* Requests to MinimumRequests leaves the breaker closed.                      *)
NoFailureOverlooked ==
    state = "closed" /\ counts.TotalFailures > 0 => ~ReadyToTrip(AtLastFailure(counts))

(* A half-open breaker that is closed by a result has had MaxRequests probes   *)
(* in that generation, all of them successful and none of them outstanding.    *)
ClosesAfterAllProbes ==
    [][state = "half-open" /\ state' = "closed" =>
          \/ Reset
          \/ /\ admitted = MaxRequests
             /\ counts.ConsecutiveSuccesses = MaxRequests - 1
             /\ Cardinality(InFlight) = 1]_vars

(* A half-open breaker that rejects callers because all its probes are out     *)
(* leaves that state once the probes return: the half-open state has no timer  *)
(* of its own (currentState), so this is its only way forward.                 *)
FullHalfOpenResolves ==
    (state = "half-open" /\ halfOpenSuccess = MaxRequests) ~> (state # "half-open")
===============================================================================
