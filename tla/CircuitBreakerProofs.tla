-------------------------- MODULE CircuitBreakerProofs --------------------------
(* Safety of the circuit breaker for every number of callers and every         *)
(* configuration that Validate accepts.                                        *)
(*                                                                             *)
(* The invariants of CircuitBreaker are not inductive: that an operation of an *)
(* older generation can never be counted in this one rests on no operation     *)
(* carrying a generation the breaker has not reached yet, and the bound on     *)
(* probes rests on half-open counting nothing but successes.  Good states both *)
(* for a breaker value and the operations in flight, so that the lemmas follow *)
(* the breaker through one critical section, operator by operator.             *)
EXTENDS CircuitBreaker, TLAPS, FiniteSetTheorems

(* Operations admitted in generation g that have not returned, as run has them *)
Live(g, run) == {c \in Callers : run[c] = g}

BreakerType ==
    [st : States, gen : Nat, cnt : Counts, exp : BOOLEAN,
     half : Nat, adm : Nat]

Good(b, run) ==
    /\ b \in BreakerType
    /\ run \in [Callers -> Nat \cup {Idle}]
    /\ \A c \in Callers : run[c] <= b.gen
    /\ b.adm = b.cnt.Requests + Cardinality(Live(b.gen, run))
    /\ b.st = "open" => b.adm = 0
    /\ b.st = "half-open" => /\ b.half = b.adm
                             /\ b.cnt.ConsecutiveSuccesses = b.cnt.Requests
                             /\ b.half <= MaxRequests
    /\ b.st = "closed" /\ b.cnt.TotalFailures > 0 => ~ReadyToTrip(AtLastFailure(b.cnt))

(* The inductive invariant *)
IInv == Good(Breaker, running)

-------------------------------------------------------------------------------
(* An operation starts or returns: the live set gains or loses one member.     *)
LEMMA LiveFinite ==
    ASSUME NEW g, NEW run
    PROVE  /\ IsFiniteSet(Live(g, run))
           /\ Cardinality(Live(g, run)) \in Nat
<1>1. Live(g, run) \subseteq Callers
  BY DEF Live
<1>2. IsFiniteSet(Callers)
  BY ConfigAssumption
<1> QED
  BY <1>1, <1>2, FS_Subset, FS_CardinalityType

LEMMA LiveStart ==
    ASSUME NEW g \in Nat, NEW run \in [Callers -> Nat \cup {Idle}],
           NEW c \in Callers, run[c] = Idle
    PROVE  Cardinality(Live(g, [run EXCEPT ![c] = g])) = Cardinality(Live(g, run)) + 1
<1>1. Live(g, [run EXCEPT ![c] = g]) = Live(g, run) \cup {c}
  BY DEF Live
<1>2. c \notin Live(g, run)
  BY DEF Live, Idle
<1> QED
  BY <1>1, <1>2, LiveFinite, FS_AddElement

(* A returning operation leaves the live set of its own generation only. *)
LEMMA LiveReturn ==
    ASSUME NEW g \in Nat, NEW run \in [Callers -> Nat \cup {Idle}],
           NEW c \in Callers
    PROVE  Cardinality(Live(g, [run EXCEPT ![c] = Idle])) =
               IF run[c] = g THEN Cardinality(Live(g, run)) - 1
                             ELSE Cardinality(Live(g, run))
<1>1. Live(g, [run EXCEPT ![c] = Idle]) = Live(g, run) \ {c}
  BY DEF Live, Idle
<1>2. run[c] = g <=> c \in Live(g, run)
  BY DEF Live
<1>3. CASE run[c] = g
  <2> DEFINE L == Live(g, run)
  <2>1. IsFiniteSet(L) /\ c \in L
    BY <1>2, <1>3, LiveFinite
  <2> HIDE DEF L
  <2>2. Cardinality(L \ {c}) = Cardinality(L) - 1
    BY <2>1, FS_RemoveElement
  <2> QED
    BY <1>1, <1>3, <2>2 DEF L
<1>4. CASE run[c] # g
  <2>1. Live(g, run) \ {c} = Live(g, run)
    BY <1>2, <1>4
  <2> QED
    BY <1>1, <1>4, <2>1
<1> QED
  BY <1>3, <1>4

(* Nothing runs in a generation that has not begun. *)
LEMMA LiveFuture ==
    ASSUME NEW g \in Nat, NEW run \in [Callers -> Nat \cup {Idle}],
           \A c \in Callers : run[c] <= g
    PROVE  Cardinality(Live(g + 1, run)) = 0
<1>1. Live(g + 1, run) = {}
  BY DEF Live, Idle
<1> QED
  BY <1>1, FS_EmptySet

-------------------------------------------------------------------------------
(* What a critical section is made of keeps the breaker Good. *)
LEMMA NewGenerationGood ==
    ASSUME NEW b, NEW run, NEW s \in States,
           b \in BreakerType, run \in [Callers -> Nat \cup {Idle}],
           \A c \in Callers : run[c] <= b.gen
    PROVE  Good(toNewGeneration(b, s), run)
<1> DEFINE n == toNewGeneration(b, s)
<1>1. /\ n.st = s /\ n.gen = b.gen + 1 /\ n.cnt = ZeroCounts
      /\ n.half = 0 /\ n.adm = 0
  BY DEF toNewGeneration
<1>2. n \in BreakerType
  BY DEF toNewGeneration, BreakerType, Counts, ZeroCounts
<1>3. \A c \in Callers : run[c] <= n.gen
  BY <1>1 DEF BreakerType, Idle
<1>4. Cardinality(Live(n.gen, run)) = 0
  BY <1>1, LiveFuture DEF BreakerType
<1>5. /\ ZeroCounts.Requests = 0 /\ ZeroCounts.ConsecutiveSuccesses = 0
      /\ ZeroCounts.TotalFailures = 0
  BY DEF ZeroCounts
<1> HIDE DEF n
<1>6. Good(n, run)
  BY <1>1, <1>2, <1>3, <1>4, <1>5, ConfigAssumption DEF Good
<1> QED
  BY <1>6 DEF n

(* currentState rolls an expired window over, or leaves the breaker alone. *)
LEMMA CurrentStateGood ==
    ASSUME NEW b, NEW run, Good(b, run)
    PROVE  Good(currentState(b), run)
<1>1. /\ Good(toNewGeneration(b, "closed"), run)
      /\ Good(toNewGeneration(b, "half-open"), run)
  BY NewGenerationGood DEF Good, States
<1> QED
  BY <1>1 DEF currentState

(* beforeRequest admits a caller: one more probe, one more live operation. *)
LEMMA BeforeRequestGood ==
    ASSUME NEW b, NEW run, NEW c \in Callers, Good(b, run), run[c] = Idle, MayPass(b)
    PROVE  Good([b EXCEPT !.half = IF b.st = "half-open" THEN @ + 1 ELSE @,
                          !.adm = @ + 1],
                [run EXCEPT ![c] = b.gen])
<1> DEFINE n == [b EXCEPT !.half = IF b.st = "half-open" THEN @ + 1 ELSE @,
                          !.adm = @ + 1]
           r == [run EXCEPT ![c] = b.gen]
<1>1. /\ n \in BreakerType
      /\ n.st = b.st /\ n.gen = b.gen /\ n.cnt = b.cnt /\ n.adm = b.adm + 1
      /\ n.half = IF b.st = "half-open" THEN b.half + 1 ELSE b.half
  <2> DEFINE h == IF b.st = "half-open" THEN b.half + 1 ELSE b.half
  <2>1. b \in BreakerType
    BY DEF Good
  <2>2. h \in Nat /\ b.adm + 1 \in Nat
    BY <2>1 DEF BreakerType
  <2>3. n = [b EXCEPT !.half = h, !.adm = b.adm + 1]
    OBVIOUS
  <2> HIDE DEF h
  <2> QED
    BY <2>1, <2>2, <2>3 DEF BreakerType, h
<1>2. Cardinality(Live(n.gen, r)) = Cardinality(Live(b.gen, run)) + 1
  BY <1>1, LiveStart DEF Good, BreakerType
<1>3. Cardinality(Live(b.gen, run)) \in Nat
  BY LiveFinite
<1>4. /\ r \in [Callers -> Nat \cup {Idle}]
      /\ \A d \in Callers : r[d] <= n.gen
  BY <1>1 DEF Good, BreakerType
<1>5. n.adm = n.cnt.Requests + Cardinality(Live(n.gen, r))
  BY <1>1, <1>2, <1>3 DEF Good, BreakerType, Counts
<1>6. n.st # "open"
  BY <1>1 DEF MayPass
<1>7. n.st = "half-open" => /\ n.half = n.adm
                            /\ n.cnt.ConsecutiveSuccesses = n.cnt.Requests
                            /\ n.half <= MaxRequests
  BY <1>1, ConfigAssumption DEF Good, BreakerType, MayPass
<1> HIDE DEF n, r
<1>8. Good(n, r)
  BY <1>1, <1>4, <1>5, <1>6, <1>7 DEF Good
<1> QED
  BY <1>8 DEF n, r

(* A result of the current generation: the operation leaves the live set and   *)
(* is counted, so the sum of both is unchanged.                                *)
LEMMA CountedGood ==
    ASSUME NEW b, NEW run, NEW c \in Callers, NEW k \in Counts,
           Good(b, run), run[c] = b.gen,
           k.Requests = b.cnt.Requests + 1,
           b.st = "half-open" => k.ConsecutiveSuccesses = k.Requests,
           b.st = "closed" /\ k.TotalFailures > 0 => ~ReadyToTrip(AtLastFailure(k))
    PROVE  Good([b EXCEPT !.cnt = k], [run EXCEPT ![c] = Idle])
<1> DEFINE n == [b EXCEPT !.cnt = k]
           r == [run EXCEPT ![c] = Idle]
<1>1. /\ n \in BreakerType
      /\ n.st = b.st /\ n.gen = b.gen /\ n.cnt = k /\ n.adm = b.adm
      /\ n.half = b.half
  BY DEF Good, BreakerType
<1>2. Cardinality(Live(n.gen, r)) = Cardinality(Live(b.gen, run)) - 1
  <2>1. b.gen \in Nat /\ run \in [Callers -> Nat \cup {Idle}]
    BY DEF Good, BreakerType
  <2>2. Cardinality(Live(b.gen, r)) = Cardinality(Live(b.gen, run)) - 1
    BY <2>1, LiveReturn
  <2> QED
    BY <1>1, <2>2
<1>3. Cardinality(Live(b.gen, run)) \in Nat
  BY LiveFinite
<1>4. /\ r \in [Callers -> Nat \cup {Idle}]
      /\ \A d \in Callers : r[d] <= n.gen
  BY <1>1 DEF Good, BreakerType, Idle
<1>5. n.adm = n.cnt.Requests + Cardinality(Live(n.gen, r))
  BY <1>1, <1>2, <1>3 DEF Good, BreakerType, Counts
<1>6. n.st = "half-open" => /\ n.half = n.adm
                            /\ n.cnt.ConsecutiveSuccesses = n.cnt.Requests
                            /\ n.half <= MaxRequests
  BY <1>1 DEF Good
<1>7. n.st = "open" => n.adm = 0
  BY <1>1 DEF Good
<1> HIDE DEF n, r
<1>8. Good(n, r)
  BY <1>1, <1>4, <1>5, <1>6, <1>7 DEF Good
<1> QED
  BY <1>8 DEF n, r

(* A dropped result: the operation was of an older generation. *)
LEMMA DroppedGood ==
    ASSUME NEW b, NEW run, NEW c \in Callers, Good(b, run), run[c] # b.gen
    PROVE  Good(b, [run EXCEPT ![c] = Idle])
<1> DEFINE r == [run EXCEPT ![c] = Idle]
<1>1. Cardinality(Live(b.gen, r)) = Cardinality(Live(b.gen, run))
  <2>1. b.gen \in Nat /\ run \in [Callers -> Nat \cup {Idle}]
    BY DEF Good, BreakerType
  <2> QED
    BY <2>1, LiveReturn
<1>2. /\ r \in [Callers -> Nat \cup {Idle}]
      /\ \A d \in Callers : r[d] <= b.gen
  BY DEF Good, BreakerType, Idle
<1> HIDE DEF r
<1>3. Good(b, r)
  BY <1>1, <1>2 DEF Good
<1> QED
  BY <1>3 DEF r

(* An operation of the current generation is in flight: the breaker is not open. *)
LEMMA LiveNotOpen ==
    ASSUME NEW b, NEW run, NEW c \in Callers, Good(b, run), run[c] = b.gen
    PROVE  /\ b.st # "open"
           /\ Cardinality(Live(b.gen, run)) >= 1
<1>1. Cardinality(Live(b.gen, [run EXCEPT ![c] = Idle])) =
          Cardinality(Live(b.gen, run)) - 1
  BY LiveReturn DEF Good, BreakerType
<1>2. Cardinality(Live(b.gen, run)) >= 1
  BY <1>1, LiveFinite
<1>3. b.cnt.Requests \in Nat /\ b.adm \in Nat
  BY DEF Good, BreakerType, Counts
<1>4. b.adm # 0
  BY <1>2, <1>3, LiveFinite DEF Good
<1> QED
  BY <1>2, <1>4 DEF Good

(* afterRequest leaves the operations in flight typed and of begun generations. *)
LEMMA ReturnTyped ==
    ASSUME NEW b, NEW run, NEW c \in Callers, Good(b, run)
    PROVE  /\ [run EXCEPT ![c] = Idle] \in [Callers -> Nat \cup {Idle}]
           /\ \A d \in Callers : [run EXCEPT ![c] = Idle][d] <= b.gen
BY DEF Good, BreakerType, Idle

(* Counts.onSuccess and Counts.onFailure count one request. *)
LEMMA CountTyped ==
    ASSUME NEW k \in Counts
    PROVE  /\ CountSuccess(k) \in Counts
           /\ CountSuccess(k).Requests = k.Requests + 1
           /\ CountSuccess(k).ConsecutiveSuccesses = k.ConsecutiveSuccesses + 1
           /\ CountSuccess(k).TotalFailures = k.TotalFailures
           /\ CountFailure(k) \in Counts
           /\ CountFailure(k).Requests = k.Requests + 1
BY DEF CountSuccess, CountFailure, Counts

(* A success does not change what the counts were at the last failure, and a   *)
(* failure is the last one itself.                                             *)
LEMMA LastFailure ==
    ASSUME NEW k \in Counts
    PROVE  /\ ReadyToTrip(AtLastFailure(CountSuccess(k))) <=> ReadyToTrip(AtLastFailure(k))
           /\ ReadyToTrip(AtLastFailure(CountFailure(k))) <=> ReadyToTrip(CountFailure(k))
<1> DEFINE s == AtLastFailure(CountSuccess(k))  l == AtLastFailure(k)
           f == AtLastFailure(CountFailure(k))  n == CountFailure(k)
<1>1. s.Requests = l.Requests /\ s.TotalFailures = l.TotalFailures
  BY DEF AtLastFailure, CountSuccess, Counts
<1>2. f.Requests = n.Requests /\ f.TotalFailures = n.TotalFailures
  BY DEF AtLastFailure, CountFailure, Counts
<1> HIDE DEF s, l, f, n
<1>3. (ReadyToTrip(s) <=> ReadyToTrip(l)) /\ (ReadyToTrip(f) <=> ReadyToTrip(n))
  BY <1>1, <1>2 DEF ReadyToTrip
<1> QED
  BY <1>3 DEF s, l, f, n

(* onSuccess counts the result, and closes a half-open breaker when due. *)
LEMMA OnSuccessGood ==
    ASSUME NEW b, NEW run, NEW c \in Callers, Good(b, run), run[c] = b.gen
    PROVE  Good(onSuccess(b), [run EXCEPT ![c] = Idle])
<1> DEFINE k == CountSuccess(b.cnt)
           n == [b EXCEPT !.cnt = k]
           r == [run EXCEPT ![c] = Idle]
<1>1. b.cnt \in Counts
  BY DEF Good, BreakerType
<1>2. /\ k \in Counts
      /\ k.Requests = b.cnt.Requests + 1
      /\ k.ConsecutiveSuccesses = b.cnt.ConsecutiveSuccesses + 1
      /\ k.TotalFailures = b.cnt.TotalFailures
      /\ ReadyToTrip(AtLastFailure(k)) <=> ReadyToTrip(AtLastFailure(b.cnt))
  BY <1>1, CountTyped, LastFailure
<1>3. b.st = "half-open" => k.ConsecutiveSuccesses = k.Requests
  BY <1>2 DEF Good
<1> HIDE DEF k
<1>4. Good(n, r)
  <2>1. b.st = "closed" /\ k.TotalFailures > 0 => ~ReadyToTrip(AtLastFailure(k))
    BY <1>2 DEF Good
  <2> QED
    BY <1>2, <1>3, <2>1, CountedGood
<1>5. n \in BreakerType /\ n.gen = b.gen
  BY <1>2 DEF Good, BreakerType
<1>6. Good(toNewGeneration(n, "closed"), r)
  <2>1. r \in [Callers -> Nat \cup {Idle}] /\ \A d \in Callers : r[d] <= n.gen
    BY <1>5, ReturnTyped
  <2> HIDE DEF n, r
  <2> QED
    BY <1>5, <2>1, NewGenerationGood DEF States
<1>7. b.st # "open"
  BY LiveNotOpen
<1>8. onSuccess(b) = IF b.st = "half-open" /\ n.cnt.ConsecutiveSuccesses >= MaxRequests
                     THEN toNewGeneration(n, "closed") ELSE n
  BY <1>7 DEF onSuccess, k
<1> HIDE DEF n, r
<1>9. Good(onSuccess(b), r)
  BY <1>4, <1>6, <1>8
<1> QED
  BY <1>9 DEF r

(* onFailure counts the result, and opens the breaker when due. *)
LEMMA OnFailureGood ==
    ASSUME NEW b, NEW run, NEW c \in Callers, Good(b, run), run[c] = b.gen
    PROVE  Good(onFailure(b), [run EXCEPT ![c] = Idle])
<1> DEFINE k == CountFailure(b.cnt)
           n == [b EXCEPT !.cnt = k]
           r == [run EXCEPT ![c] = Idle]
<1>1. b.cnt \in Counts /\ b \in BreakerType /\ b.st \in States
  BY DEF Good, BreakerType
<1>2. /\ k \in Counts
      /\ k.Requests = b.cnt.Requests + 1
      /\ ReadyToTrip(AtLastFailure(k)) <=> ReadyToTrip(k)
  BY <1>1, CountTyped, LastFailure
<1> HIDE DEF k
<1>3. n \in BreakerType /\ n.gen = b.gen /\ n.cnt = k
  BY <1>1, <1>2 DEF BreakerType
<1>4. /\ Good(toNewGeneration(n, "open"), r)
      /\ Good(toNewGeneration(b, "open"), r)
  <2>1. /\ r \in [Callers -> Nat \cup {Idle}]
        /\ \A d \in Callers : r[d] <= n.gen
        /\ \A d \in Callers : r[d] <= b.gen
    BY <1>3, ReturnTyped
  <2> HIDE DEF n, r
  <2> QED
    BY <1>1, <1>3, <2>1, NewGenerationGood DEF States
<1>5. ASSUME b.st = "closed", ~ReadyToTrip(k)
      PROVE  Good(n, r)
  BY <1>2, <1>5, CountedGood
<1>6. CASE b.st = "closed"
  <2>1. onFailure(b) = IF ReadyToTrip(k) THEN toNewGeneration(n, "open") ELSE n
    BY <1>3, <1>6 DEF onFailure, k
  <2> QED
    BY <1>4, <1>5, <1>6, <2>1
<1>7. CASE b.st = "half-open"
  <2>1. onFailure(b) = toNewGeneration(b, "open")
    BY <1>7 DEF onFailure
  <2> QED
    BY <1>4, <2>1
<1> QED
  BY <1>1, <1>6, <1>7, LiveNotOpen DEF States

-------------------------------------------------------------------------------
(* Storing a Good value in the variables makes the next state satisfy IInv. *)
LEMMA SetBreakerGood ==
    ASSUME NEW b, Good(b, running'), SetBreaker(b)
    PROVE  IInv'
<1>1. /\ Breaker'.st = b.st /\ Breaker'.gen = b.gen /\ Breaker'.cnt = b.cnt
      /\ Breaker'.exp = b.exp /\ Breaker'.half = b.half /\ Breaker'.adm = b.adm
  BY DEF SetBreaker, Breaker
<1>2. Breaker' \in BreakerType
  BY DEF Good, SetBreaker, Breaker, BreakerType
<1> QED
  BY <1>1, <1>2 DEF IInv, Good

(* What the breaker's variables say, from the inductive invariant. *)
LEMMA IInvImplies ==
    ASSUME IInv
    PROVE  TypeOK /\ CountedOnce /\ ProbesBounded /\ NoFailureOverlooked
<1>1. /\ state = Breaker.st /\ generation = Breaker.gen /\ counts = Breaker.cnt
      /\ expired = Breaker.exp /\ halfOpenSuccess = Breaker.half
      /\ admitted = Breaker.adm
  BY DEF Breaker
<1>2. InFlight = Live(Breaker.gen, running)
  BY <1>1 DEF InFlight, Live
<1>3. TypeOK
  BY <1>1 DEF IInv, Good, BreakerType, TypeOK
<1>4. CountedOnce
  BY <1>1, <1>2 DEF IInv, Good, CountedOnce
<1>5. ProbesBounded
  BY <1>1, <1>2 DEF IInv, Good, ProbesBounded
<1>6. NoFailureOverlooked
  BY <1>1 DEF IInv, Good, NoFailureOverlooked
<1> QED
  BY <1>3, <1>4, <1>5, <1>6

(* A new breaker (NewCircuitBreaker) satisfies the inductive invariant. *)
LEMMA InitIInv == Init => IInv
<1> SUFFICES ASSUME Init PROVE IInv
  OBVIOUS
<1>1. Breaker \in BreakerType
  BY DEF Init, Breaker, BreakerType, States, Counts, ZeroCounts
<1>2. Live(0, running) = {}
  BY DEF Init, Live, Idle
<1>3. Cardinality(Live(Breaker.gen, running)) = 0
  BY <1>2, FS_EmptySet DEF Init, Breaker
<1>4. /\ running \in [Callers -> Nat \cup {Idle}]
      /\ \A c \in Callers : running[c] <= Breaker.gen
  BY DEF Init, Breaker, Idle
<1>5. /\ Breaker.adm = 0 /\ Breaker.cnt.Requests = 0 /\ Breaker.st = "closed"
      /\ Breaker.cnt.TotalFailures = 0
  BY DEF Init, Breaker, ZeroCounts
<1> QED
  BY <1>1, <1>3, <1>4, <1>5 DEF IInv, Good

(* Every critical section, and the clock, keeps the inductive invariant. *)
LEMMA NextIInv == IInv /\ [Next]_vars => IInv'
<1> SUFFICES ASSUME IInv, [Next]_vars PROVE IInv'
  OBVIOUS
<1> DEFINE b == currentState(Breaker)
<1>1. Good(b, running)
  BY CurrentStateGood DEF IInv
<1>2. ASSUME NEW c \in Callers, beforeRequest(c)
      PROVE  IInv'
  <2> DEFINE n == [b EXCEPT !.half = IF b.st = "half-open" THEN @ + 1 ELSE @,
                            !.adm = @ + 1]
  <2>1. CASE MayPass(b)
    <3>1. SetBreaker(n) /\ running' = [running EXCEPT ![c] = b.gen] /\ running[c] = Idle
      BY <1>2, <2>1 DEF beforeRequest
    <3> HIDE DEF b
    <3>2. Good(n, running')
      BY <1>1, <2>1, <3>1, BeforeRequestGood
    <3> HIDE DEF n
    <3> QED
      BY <3>1, <3>2, SetBreakerGood
  <2>2. CASE ~MayPass(b)
    <3>1. SetBreaker(b) /\ running' = running
      BY <1>2, <2>2 DEF beforeRequest
    <3> HIDE DEF b
    <3> QED
      BY <1>1, <3>1, SetBreakerGood
  <2> QED
    BY <2>1, <2>2
<1>3. ASSUME NEW c \in Callers, NEW ok \in BOOLEAN, afterRequest(c, ok)
      PROVE  IInv'
  <2> DEFINE r == [running EXCEPT ![c] = Idle]
  <2>1. running' = r
    BY <1>3 DEF afterRequest
  <2>2. CASE running[c] # b.gen
    <3>1. SetBreaker(b)
      BY <1>3, <2>2 DEF afterRequest
    <3> HIDE DEF b
    <3> QED
      BY <1>1, <2>1, <2>2, <3>1, DroppedGood, SetBreakerGood
  <2>3. CASE running[c] = b.gen
    <3>1. SetBreaker(IF ok THEN onSuccess(b) ELSE onFailure(b))
      BY <1>3, <2>3 DEF afterRequest
    <3> HIDE DEF b
    <3>2. Good(onSuccess(b), running') /\ Good(onFailure(b), running')
      BY <1>1, <2>1, <2>3, OnSuccessGood, OnFailureGood
    <3> QED
      BY <3>1, <3>2, SetBreakerGood
  <2> QED
    BY <2>2, <2>3
<1>4. CASE GetState
  BY <1>1, <1>4, SetBreakerGood DEF GetState
<1>5. CASE Reset
  <2> DEFINE n == toNewGeneration(Breaker, "closed")
  <2>1. Good(n, running)
    BY NewGenerationGood DEF IInv, Good, States
  <2>2. SetBreaker(n) /\ running' = running
    BY <1>5 DEF Reset
  <2> QED
    BY <2>1, <2>2, SetBreakerGood
<1>6. CASE Expire
  <2>1. /\ Breaker'.st = Breaker.st /\ Breaker'.gen = Breaker.gen
        /\ Breaker'.cnt = Breaker.cnt /\ Breaker'.half = Breaker.half
        /\ Breaker'.adm = Breaker.adm /\ running' = running
    BY <1>6 DEF Expire, Breaker
  <2>2. Breaker' \in BreakerType
    BY <1>6 DEF Expire, Breaker, BreakerType, IInv, Good
  <2> QED
    BY <2>1, <2>2 DEF IInv, Good
<1>7. CASE UNCHANGED vars
  BY <1>7 DEF vars, IInv, Good, Breaker, Live
<1> QED
  BY <1>2, <1>3, <1>4, <1>5, <1>6, <1>7 DEF Next

(* For every set of callers and every valid configuration: requests are        *)
(* counted exactly once and in their own generation, a half-open breaker never *)
(* has more than MaxRequests probes out, and no failure that reaches a         *)
(* threshold leaves the breaker closed                                         *)
(* (beforeRequest, afterRequest, onSuccess, onFailure, toNewGeneration).       *)
THEOREM BreakerSafety ==
    Spec => [](TypeOK /\ CountedOnce /\ ProbesBounded /\ NoFailureOverlooked)
<1>1. IInv => TypeOK /\ CountedOnce /\ ProbesBounded /\ NoFailureOverlooked
  BY IInvImplies
<1> QED
  BY <1>1, InitIInv, NextIInv, PTL DEF Spec

(* A result closes a half-open breaker only as the last of MaxRequests probes, *)
(* all of them successful (onSuccess, with beforeRequest's limit on probes).   *)
LEMMA CloseStep ==
    ASSUME IInv, Next, state = "half-open", state' = "closed", ~Reset
    PROVE  /\ admitted = MaxRequests
           /\ counts.ConsecutiveSuccesses = MaxRequests - 1
           /\ Cardinality(InFlight) = 1
<1> DEFINE b == Breaker
<1>1. /\ currentState(b) = b /\ b.st = "half-open" /\ b.gen = generation
      /\ b.cnt = counts /\ b.adm = admitted /\ b.half = halfOpenSuccess
  BY DEF currentState, Breaker
<1>2. InFlight = Live(b.gen, running)
  BY <1>1 DEF InFlight, Live
<1>3. b \in BreakerType /\ Good(b, running)
  BY DEF IInv, Good
<1>4. PICK c \in Callers, ok \in BOOLEAN : afterRequest(c, ok)
  <2>1. ASSUME NEW c \in Callers, beforeRequest(c)
        PROVE  FALSE
    <3>1. state' = b.st
      BY <1>1, <1>3, <2>1 DEF beforeRequest, SetBreaker, BreakerType
    <3> QED
      BY <1>1, <3>1
  <2>2. ~GetState /\ ~Expire
    BY <1>1 DEF GetState, Expire, SetBreaker
  <2> QED
    BY <2>1, <2>2 DEF Next
<1>5. running[c] = b.gen
  BY <1>1, <1>4 DEF afterRequest, SetBreaker
<1>6. state' = (IF ok THEN onSuccess(b) ELSE onFailure(b)).st
  BY <1>1, <1>4, <1>5 DEF afterRequest, SetBreaker
<1>7. ok
  BY <1>1, <1>6 DEF onFailure, toNewGeneration
<1>8. counts.ConsecutiveSuccesses + 1 >= MaxRequests
  <2> DEFINE n == [b EXCEPT !.cnt = CountSuccess(b.cnt)]
  <2>1. n.st = "half-open" /\ n.cnt = CountSuccess(counts)
    BY <1>1, <1>3 DEF BreakerType
  <2>2. n.cnt.ConsecutiveSuccesses >= MaxRequests
    BY <1>1, <1>6, <1>7, <2>1 DEF onSuccess
  <2> QED
    BY <2>1, <2>2 DEF CountSuccess
<1>9. /\ Cardinality(InFlight) >= 1 /\ Cardinality(InFlight) \in Nat
  BY <1>2, <1>3, <1>5, LiveNotOpen, LiveFinite
<1>10. /\ admitted = counts.Requests + Cardinality(InFlight)
       /\ admitted <= MaxRequests
       /\ counts.ConsecutiveSuccesses = counts.Requests
  BY <1>1, <1>2, <1>3 DEF Good
<1>11. counts \in Counts /\ admitted \in Nat
  BY IInvImplies DEF TypeOK
<1> QED
  BY <1>8, <1>9, <1>10, <1>11, ConfigAssumption DEF Counts

(* No interleaving of probes, late results, clock and state queries closes a   *)
(* half-open breaker before MaxRequests probes succeeded (onSuccess); only an  *)
(* operator's Reset does.                                                      *)
THEOREM BreakerClosesAfterAllProbes == Spec => ClosesAfterAllProbes
<1> DEFINE Step ==
      state = "half-open" /\ state' = "closed" =>
          \/ Reset
          \/ /\ admitted = MaxRequests
             /\ counts.ConsecutiveSuccesses = MaxRequests - 1
             /\ Cardinality(InFlight) = 1
<1>1. IInv /\ [Next]_vars => [Step]_vars
  BY CloseStep
<1> HIDE DEF Step
<1>2. Spec => [][Step]_vars
  BY <1>1, InitIInv, NextIInv, PTL DEF Spec
<1> QED
  BY <1>2 DEF ClosesAfterAllProbes, Step

(* The parts of BreakerSafety by name: the counters keep their types, ...      *)
THEOREM BreakerTypes == Spec => []TypeOK
BY BreakerSafety, PTL

(* ... MaxRequests bounds the probes beforeRequest admits in the half-open     *)
(* state, whatever the clock, Reset and late results do, ...                   *)
THEOREM BreakerProbesBounded == Spec => []ProbesBounded
BY BreakerSafety, PTL

(* ... and a failure that calls for tripping, by the default ReadyToTrip,      *)
(* opens the breaker in the step that counts it: a closed breaker was below    *)
(* its thresholds at its last failure.  Since then successes, which onSuccess  *)
(* does not test, may have brought Requests to MinimumRequests.                *)
THEOREM BreakerTripsOnFailure == Spec => []NoFailureOverlooked
BY BreakerSafety, PTL
===============================================================================
