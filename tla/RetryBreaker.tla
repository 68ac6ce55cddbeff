----------------------------- MODULE RetryBreaker -----------------------------
(* The circuit breaker of pkg/saga/retry and the executors that share it.      *)
(*                                                                             *)
(* Unlike the breaker of pkg/resilience it is a retry policy: it is told of an *)
(* error by ShouldRetry, between two attempts.  ShouldRetry takes the lock up  *)
(* to five times, so one action is one critical section or one attempt.  An    *)
(* executor never passes ShouldRetry the nil error, so recordSuccess is not    *)
(* part of what happens here.                                                  *)
EXTENDS Naturals

CONSTANTS
    Executors,            \* goroutines that call Execute, again and again
    MaxAttempts,          \* GetMaxAttempts of the base policy
    MaxFailures,          \* CircuitBreakerConfig
    HalfOpenMaxRequests,
    Guarded               \* WithCircuitBreaker; if not, the breaker is just the policy

VARIABLES
    state,                \* cb.state
    consecutiveFailures,
    halfOpenRequests,
    elapsed,              \* ResetTimeout has passed since lastStateChange
    pc,                   \* per executor, where it is
    attempt,              \* per executor, the loop variable
    seen                  \* per executor, the state ShouldRetry read last

breaker == <<state, consecutiveFailures, halfOpenRequests, elapsed>>
vars    == <<breaker, pc, attempt, seen>>

Goto(e, l) == pc' = [pc EXCEPT ![e] = l]

transitionTo(s) ==
    /\ state' = s
    /\ elapsed' = (elapsed /\ s = state)

Elapse ==
    /\ state = "open" /\ ~elapsed
    /\ elapsed' = TRUE
    /\ UNCHANGED <<state, consecutiveFailures, halfOpenRequests, pc, attempt, seen>>

-------------------------------------------------------------------------------
(* Execute *)

Execute(e) ==
    /\ pc[e] = "idle"
    /\ attempt' = [attempt EXCEPT ![e] = 1]
    /\ Goto(e, "check")
    /\ UNCHANGED <<breaker, seen>>

(* An open circuit fails fast; whether its time is up is not looked at.        *)
CheckCircuit(e) ==
    /\ pc[e] = "check"
    /\ Goto(e, IF Guarded /\ state = "open" THEN "idle" ELSE "trying")
    /\ UNCHANGED <<breaker, attempt, seen>>

(* fn returns: a success, a permanent error, or an error that may be retried.  *)
(* A context that ends between two attempts is like a permanent error.         *)
Attempt(e) ==
    /\ pc[e] = "trying"
    /\ Goto(e, "idle") \/ Goto(e, "asking")
    /\ UNCHANGED <<breaker, attempt, seen>>

(* ShouldRetry with an error: read the state, and see to an open circuit first *)
ReadState(e) ==
    /\ pc[e] \in {"asking", "reset"}
    /\ seen' = [seen EXCEPT ![e] = state]
    /\ Goto(e, IF pc[e] = "asking" /\ state = "open" THEN "opened" ELSE "limit")
    /\ UNCHANGED <<breaker, attempt>>

checkResetTimeout(e) ==
    /\ pc[e] = "opened"
    /\ IF state = "open" /\ elapsed
       THEN transitionTo("half-open") /\ halfOpenRequests' = 0
       ELSE UNCHANGED <<state, elapsed, halfOpenRequests>>
    /\ Goto(e, "reset")
    /\ UNCHANGED <<consecutiveFailures, attempt, seen>>

LimitHalfOpen(e) ==
    /\ pc[e] = "limit"
    /\ IF seen[e] = "open"
          \/ (seen[e] = "half-open" /\ halfOpenRequests >= HalfOpenMaxRequests)
       THEN Goto(e, "idle") /\ UNCHANGED halfOpenRequests
       ELSE /\ halfOpenRequests' = IF seen[e] = "half-open" THEN halfOpenRequests + 1
                                                            ELSE halfOpenRequests
            /\ Goto(e, "policy")
    /\ UNCHANGED <<state, consecutiveFailures, elapsed, attempt, seen>>

recordFailure ==
    CASE state = "closed" ->
           /\ consecutiveFailures' = consecutiveFailures + 1
           /\ IF consecutiveFailures' >= MaxFailures THEN transitionTo("open")
                                                     ELSE UNCHANGED <<state, elapsed>>
           /\ UNCHANGED halfOpenRequests
      [] state = "half-open" ->
           /\ transitionTo("open")
           /\ halfOpenRequests' = 0
           /\ UNCHANGED consecutiveFailures
      [] state = "open" -> UNCHANGED breaker

(* The base policy decides; only an error that is retried is recorded.         *)
AskPolicy(e) ==
    /\ pc[e] = "policy"
    /\ \/ /\ attempt[e] < MaxAttempts
          /\ recordFailure
          /\ attempt' = [attempt EXCEPT ![e] = @ + 1]
          /\ Goto(e, "check")
       \/ /\ Goto(e, "idle")
          /\ UNCHANGED <<breaker, attempt>>
    /\ UNCHANGED seen

Reset ==
    /\ transitionTo("closed")
    /\ consecutiveFailures' = 0
    /\ halfOpenRequests' = 0
    /\ UNCHANGED <<pc, attempt, seen>>

-------------------------------------------------------------------------------
Init ==
    /\ state = "closed" /\ consecutiveFailures = 0 /\ halfOpenRequests = 0
    /\ elapsed = FALSE
    /\ pc = [e \in Executors |-> "idle"]
    /\ attempt = [e \in Executors |-> 1]
    /\ seen = [e \in Executors |-> "closed"]

Run(e) ==
    \/ Execute(e) \/ CheckCircuit(e) \/ Attempt(e) \/ ReadState(e)
    \/ checkResetTimeout(e) \/ LimitHalfOpen(e) \/ AskPolicy(e)

Next == (\E e \in Executors : Run(e)) \/ Elapse \/ Reset

(* Executors keep calling Execute and time passes; nobody need call Reset.     *)
Spec ==
    /\ Init /\ [][Next]_vars
    /\ \A e \in Executors : WF_vars(Run(e))
    /\ WF_vars(Elapse)

(* "ResetTimeout is how long the circuit stays open before transitioning to    *)
(* half-open": an open circuit does not stay open for ever.                    *)
LeavesOpen == state = "open" ~> state # "open"
===============================================================================
