--------------------------- MODULE DeliveryProofs ---------------------------
(***************************************************************************)
(* The safety of Delivery for every number of messages, worker slots,      *)
(* copies and faults.                                                      *)
(*                                                                         *)
(* The inbox and the subscription meet in two facts: a worker has a call   *)
(* of Process exactly while it handles its delivery, and handled never     *)
(* decreases.  The invariant of the inbox (InboxInv) counts the calls that *)
(* may still handle a message; the one of the subscription (ConsumerInv)   *)
(* says which delivery a tag stands for and where each message of the      *)
(* broker still is.                                                        *)
(***************************************************************************)
EXTENDS Delivery, FiniteSetTheorems, SequenceTheorems, TLAPS

USE Zenon

SlotCount == Cardinality(Slots)

---------------------------------------------------------------------------
(* The inbox.                                                              *)

Calls == [pc : {"check", "handle", "record"}, id : Messages]

InboxTyped ==
  /\ recorded \subseteq Messages
  /\ call \in [Slots -> Calls \cup {NoCall}]
  /\ handled \in [Messages -> Nat] /\ forgotten \in [Messages -> Nat]

\* The goroutines whose call of Process for m, by calls, is about to do l.
At(calls, l, m) == {w \in Slots : calls[w] = [pc |-> l, id |-> m]}

\* A call that is about to record its message has handled it.
Booked == \A w \in Slots : call[w].pc = "record" => handled[call[w].id] > 0

\* While m is not recorded, what was handled since it was last forgotten is about to
\* be recorded; once it is, only the calls that passed the check before can handle it.
Books ==
  \A m \in Messages :
    IF m \in recorded
    THEN handled[m] + Cardinality(At(call, "handle", m)) <= SlotCount * forgotten[m] + SlotCount
    ELSE handled[m] <= SlotCount * forgotten[m] + Cardinality(At(call, "record", m))

InboxInv == InboxTyped /\ RecordedMeansHandled /\ Booked /\ Books

\* A step of Inbox, or none
InboxStep ==
  \/ UNCHANGED inboxVars
  \/ \E w \in Slots, m \in Messages : Process(w, m)
  \/ \E w \in Slots, ok \in BOOLEAN :
       IsProcessedByHandler(w, ok) \/ HandleMessage(w, ok) \/ RecordMessage(w, ok)
  \/ InboxCrash
  \/ \E m \in Messages : DeleteBefore(m)

(* Any set of goroutines is finite and no larger than Slots.               *)
LEMMA SlotsFinite ==
  ASSUME NEW T \in SUBSET Slots
  PROVE  /\ IsFiniteSet(T) /\ Cardinality(T) \in Nat
         /\ SlotCount \in Nat /\ Cardinality(T) <= SlotCount
BY DeliveryAssumption, FS_Subset, FS_CardinalityType DEF SlotCount

(* Sets of goroutines that exclude each other share the slots.             *)
LEMMA SlotsShared ==
  ASSUME NEW T \in SUBSET Slots, NEW U \in SUBSET Slots, T \cap U = {}
  PROVE  Cardinality(T) + Cardinality(U) <= SlotCount
<1>1. /\ IsFiniteSet(T) /\ IsFiniteSet(U) /\ T \cup U \in SUBSET Slots
      /\ Cardinality(T) \in Nat /\ Cardinality(U) \in Nat
  BY SlotsFinite
<1>2. Cardinality(T \cup U)
        = Cardinality(T) + Cardinality(U) - Cardinality(T \cap U)
  BY <1>1, FS_Union
<1>3. Cardinality(T \cap U) = 0
  BY FS_EmptySet
<1>4. Cardinality(T \cup U) <= SlotCount
  BY <1>1, SlotsFinite
<1>5. QED
  BY <1>1, <1>2, <1>3, <1>4, SMT

(* A goroutine joins, or leaves, a set of them.                            *)
LEMMA OneMore ==
  ASSUME NEW T \in SUBSET Slots, NEW w \in Slots
  PROVE  /\ w \notin T => Cardinality(T \cup {w}) = Cardinality(T) + 1
         /\ w \in T => Cardinality(T \ {w}) = Cardinality(T) - 1
BY SlotsFinite, FS_AddElement, FS_RemoveElement

(* Forgetting a message allows each goroutine to handle it once more.      *)
LEMMA Times ==
  ASSUME NEW f \in Nat, SlotCount \in Nat
  PROVE  /\ SlotCount * f \in Nat
         /\ SlotCount * (f + 1) = SlotCount * f + SlotCount
         /\ SlotCount * (1 + f) = SlotCount * f + SlotCount
BY SMT

(* A goroutine goes on with its call.                                      *)
LEMMA GotoCall ==
  ASSUME InboxTyped, NEW w \in Slots, NEW l \in {"check", "handle", "record"},
         call[w] # NoCall, Goto(w, l)
  PROVE  /\ call[w] \in Calls
         /\ call' = [call EXCEPT ![w] = [pc |-> l, id |-> call[w].id]]
BY DEF InboxTyped, Goto, Calls

(* The check of a call, and the call that ends: who may handle or record a  *)
(* message only becomes fewer.                                              *)
LEMMA BooksWhenFewer ==
  ASSUME InboxTyped, Books, UNCHANGED <<recorded, handled, forgotten>>,
         \A m \in Messages : /\ At(call', "record", m) = At(call, "record", m)
                             /\ m \in recorded =>
                                  At(call', "handle", m) \subseteq At(call, "handle", m)
  PROVE  Books'
<1> SUFFICES ASSUME NEW m \in Messages
             PROVE  IF m \in recorded
                    THEN handled[m] + Cardinality(At(call', "handle", m))
                           <= SlotCount * forgotten[m] + SlotCount
                    ELSE handled[m]
                           <= SlotCount * forgotten[m] + Cardinality(At(call, "record", m))
  BY DEF Books
<1>1. At(call, "handle", m) \in SUBSET Slots /\ At(call', "handle", m) \in SUBSET Slots
  BY DEF At
<1>2. m \in recorded => /\ Cardinality(At(call', "handle", m)) <= Cardinality(At(call, "handle", m))
                        /\ Cardinality(At(call', "handle", m)) \in Nat
                        /\ Cardinality(At(call, "handle", m)) \in Nat
  BY <1>1, SlotsFinite, FS_Subset
<1>3. handled[m] \in Nat /\ SlotCount * forgotten[m] + SlotCount \in Nat
  BY SlotsFinite, Times, SMT DEF InboxTyped
<1>4. QED
  BY <1>2, <1>3, SMT DEF Books

LEMMA ProcessInbox ==
  ASSUME InboxInv, NEW w \in Slots, NEW m \in Messages, Process(w, m)
  PROVE  InboxInv'
<1> DEFINE c == [pc |-> "check", id |-> m]
<1>1. /\ call' = [call EXCEPT ![w] = c] /\ call[w] = NoCall /\ InboxTyped
      /\ UNCHANGED <<recorded, handled, forgotten>>
  BY DEF Process, InboxInv
<1>2. c \in Calls
  BY DEF Calls
<1>3. InboxTyped' /\ RecordedMeansHandled' /\ Booked'
  BY <1>1, <1>2 DEF InboxInv, InboxTyped, RecordedMeansHandled, Booked
<1>4. ASSUME NEW n \in Messages
      PROVE  /\ At(call', "record", n) = At(call, "record", n)
             /\ At(call', "handle", n) = At(call, "handle", n)
  <2>1. w \notin At(call, "record", n) /\ w \notin At(call, "handle", n)
    BY <1>1, SMT DEF At, NoCall
  <2>2. c # [pc |-> "record", id |-> n] /\ c # [pc |-> "handle", id |-> n]
    OBVIOUS
  <2> HIDE DEF c
  <2>3. QED
    BY <1>1, <2>1, <2>2 DEF InboxTyped, At
<1>5. QED
  BY <1>1, <1>3, <1>4, BooksWhenFewer DEF InboxInv

LEMMA CheckInbox ==
  ASSUME InboxInv, NEW w \in Slots, NEW ok \in BOOLEAN, IsProcessedByHandler(w, ok)
  PROVE  InboxInv'
<1> DEFINE m == call[w].id
           c == IF ok /\ m \notin recorded THEN [pc |-> "handle", id |-> m] ELSE NoCall
<1>1. /\ InboxTyped /\ call[w].pc = "check" /\ call[w] # NoCall
      /\ UNCHANGED <<recorded, handled, forgotten>>
  BY SMT DEF IsProcessedByHandler, InboxInv, NoCall
<1>2. call[w] \in Calls /\ m \in Messages /\ call' = [call EXCEPT ![w] = c]
  BY <1>1 DEF IsProcessedByHandler, InboxTyped, Calls, Goto, Return
<1>3. c \in Calls \cup {NoCall} /\ c.pc # "record"
  BY <1>2 DEF Calls, NoCall
<1>4. InboxTyped' /\ RecordedMeansHandled' /\ Booked'
  BY <1>1, <1>2, <1>3 DEF InboxInv, InboxTyped, RecordedMeansHandled, Booked
<1>5. ASSUME NEW n \in Messages
      PROVE  /\ At(call', "record", n) = At(call, "record", n)
             /\ n \in recorded => At(call', "handle", n) \subseteq At(call, "handle", n)
  <2>1. w \notin At(call, "record", n) /\ c # [pc |-> "record", id |-> n]
    BY <1>1, <1>3, SMT DEF At
  <2>2. n \in recorded => c # [pc |-> "handle", id |-> n]
    BY DEF NoCall
  <2> HIDE DEF c
  <2>3. QED
    BY <1>1, <1>2, <1>3, <2>1, <2>2 DEF InboxTyped, At
<1>6. QED
  BY <1>1, <1>4, <1>5, BooksWhenFewer DEF InboxInv

LEMMA HandleInbox ==
  ASSUME InboxInv, NEW w \in Slots, NEW ok \in BOOLEAN, HandleMessage(w, ok)
  PROVE  InboxInv'
<1> DEFINE m == call[w].id
<1>1. /\ InboxTyped /\ call[w].pc = "handle" /\ call[w] # NoCall
      /\ UNCHANGED <<recorded, forgotten>>
  BY SMT DEF HandleMessage, InboxInv, NoCall
<1>2. call[w] \in Calls /\ m \in Messages /\ call[w] = [pc |-> "handle", id |-> m]
  BY <1>1 DEF InboxTyped, Calls
<1>3. CASE ok
  <2> DEFINE c == [pc |-> "record", id |-> m]
  <2>1. /\ call' = [call EXCEPT ![w] = c]
        /\ handled' = [handled EXCEPT ![m] = @ + 1]
    BY <1>3 DEF HandleMessage, Goto
  <2>2. c \in Calls
    BY <1>2 DEF Calls
  <2>3. InboxTyped'
    BY <1>1, <1>2, <2>1, <2>2, SMT DEF InboxTyped
  <2>4. \A n \in Messages : /\ handled[n] \in Nat /\ handled'[n] \in Nat
                            /\ handled'[n] >= handled[n]
    BY <1>1, <1>2, <2>1, SMT DEF InboxTyped
  <2>5. handled'[m] = handled[m] + 1 /\ handled'[m] > 0
    <3> HIDE DEF m, c
    <3>1. handled'[m] = handled[m] + 1
      BY <1>1, <1>2, <2>1 DEF InboxTyped
    <3>2. QED
      BY <1>2, <2>4, <3>1, SMT
  <2>6. RecordedMeansHandled'
    BY <1>1, <2>4, SMT DEF InboxInv, RecordedMeansHandled, InboxTyped
  <2>7. Booked'
    <3> SUFFICES ASSUME NEW v \in Slots, call'[v].pc = "record"
                 PROVE  handled'[call'[v].id] > 0
      BY DEF Booked
    <3>1. CASE v = w
      BY <3>1, <1>1, <2>1, <2>5 DEF InboxTyped
    <3>2. CASE v # w
      <4>1. call'[v] = call[v] /\ call[v] \in Calls
        BY <3>2, <1>1, <2>1, SMT DEF InboxTyped, NoCall
      <4>2. call[v].id \in Messages /\ handled[call[v].id] > 0
        BY <4>1 DEF Calls, InboxInv, Booked
      <4>3. QED
        BY <4>1, <4>2, <2>4, SMT
    <3>3. QED
      BY <3>1, <3>2
  <2>8. ASSUME NEW n \in Messages
        PROVE  IF n \in recorded
               THEN handled'[n] + Cardinality(At(call', "handle", n))
                      <= SlotCount * forgotten[n] + SlotCount
               ELSE handled'[n]
                      <= SlotCount * forgotten[n] + Cardinality(At(call', "record", n))
    <3> DEFINE h == At(call, "handle", n)  h1 == At(call', "handle", n)
               r == At(call, "record", n)  r1 == At(call', "record", n)
               f == SlotCount * forgotten[n]
    <3>1. h \in SUBSET Slots /\ r \in SUBSET Slots
      BY DEF At
    <3>2. n = m => w \in h /\ w \notin r /\ h1 = h \ {w} /\ r1 = r \cup {w}
      <4>1. n = m => w \in h /\ w \notin r /\ c = [pc |-> "record", id |-> n]
                     /\ c # [pc |-> "handle", id |-> n]
        BY <1>2, SMT DEF At
      <4> HIDE DEF c
      <4>2. QED
        BY <1>1, <2>1, <4>1 DEF InboxTyped, At
    <3>3. n # m => h1 = h /\ r1 = r /\ handled'[n] = handled[n]
      <4>1. n # m => w \notin h /\ w \notin r /\ c # [pc |-> "handle", id |-> n]
                     /\ c # [pc |-> "record", id |-> n]
        BY <1>2, SMT DEF At
      <4>2. n # m => handled'[n] = handled[n]
        BY <2>1, <1>1 DEF InboxTyped
      <4> HIDE DEF c
      <4>3. QED
        BY <1>1, <2>1, <4>1, <4>2 DEF InboxTyped, At
    <3>4. Cardinality(h) \in Nat /\ Cardinality(r) \in Nat /\ f \in Nat
          /\ SlotCount \in Nat /\ handled[n] \in Nat
      BY <3>1, <1>1, SlotsFinite, Times DEF InboxTyped
    <3>5. n = m => Cardinality(h1) = Cardinality(h) - 1 /\ Cardinality(r1) = Cardinality(r) + 1
      BY <3>1, <3>2, OneMore
    <3>6. IF n \in recorded THEN handled[n] + Cardinality(h) <= f + SlotCount
                            ELSE handled[n] <= f + Cardinality(r)
      BY DEF InboxInv, Books
    <3>7. n = m => handled'[n] = handled[n] + 1
      BY <2>5
    <3> HIDE DEF h, r, h1, r1, f, m
    <3>8. IF n \in recorded THEN handled'[n] + Cardinality(h1) <= f + SlotCount
                            ELSE handled'[n] <= f + Cardinality(r1)
      BY <3>3, <3>4, <3>5, <3>6, <3>7, SMT
    <3>9. QED
      BY <3>8 DEF h1, r1, f
  <2>9. QED
    BY <1>1, <2>3, <2>6, <2>7, <2>8 DEF InboxInv, Books
<1>4. CASE ~ok
  <2>1. call' = [call EXCEPT ![w] = NoCall] /\ handled' = handled
    BY <1>4 DEF HandleMessage, Return
  <2>2. InboxTyped' /\ RecordedMeansHandled' /\ Booked'
    BY <1>1, <2>1 DEF InboxInv, InboxTyped, RecordedMeansHandled, Booked, NoCall
  <2>3. ASSUME NEW n \in Messages
        PROVE  /\ At(call', "record", n) = At(call, "record", n)
               /\ At(call', "handle", n) \subseteq At(call, "handle", n)
    <3>1. w \notin At(call, "record", n)
          /\ NoCall # [pc |-> "record", id |-> n] /\ NoCall # [pc |-> "handle", id |-> n]
      BY <1>2, SMT DEF At, NoCall
    <3>2. QED
      BY <1>1, <2>1, <3>1 DEF InboxTyped, At
  <2>4. QED
    BY <1>1, <2>1, <2>2, <2>3, BooksWhenFewer DEF InboxInv
<1>5. QED
  BY <1>3, <1>4

LEMMA RecordInbox ==
  ASSUME InboxInv, NEW w \in Slots, NEW ok \in BOOLEAN, RecordMessage(w, ok)
  PROVE  InboxInv'
<1> DEFINE m == call[w].id
<1>1. /\ InboxTyped /\ call[w].pc = "record" /\ call[w] # NoCall /\ handled' = handled
      /\ call' = [call EXCEPT ![w] = NoCall]
  BY SMT DEF RecordMessage, Return, InboxInv, NoCall
<1>2. m \in Messages /\ call[w] = [pc |-> "record", id |-> m] /\ handled[m] > 0
  BY <1>1 DEF InboxTyped, Calls, InboxInv, Booked
<1>3. /\ recorded' = IF ok THEN recorded \cup {m} ELSE recorded
      /\ forgotten' = IF ok THEN forgotten ELSE [forgotten EXCEPT ![m] = @ + 1]
  BY DEF RecordMessage
<1>4. InboxTyped'
  BY <1>1, <1>2, <1>3, SMT DEF InboxTyped
<1>5. RecordedMeansHandled' /\ Booked'
  BY <1>1, <1>2, <1>3 DEF InboxInv, InboxTyped, RecordedMeansHandled, Booked, NoCall
<1>6. ASSUME NEW n \in Messages
      PROVE  IF n \in recorded'
             THEN handled[n] + Cardinality(At(call', "handle", n))
                    <= SlotCount * forgotten'[n] + SlotCount
             ELSE handled[n]
                    <= SlotCount * forgotten'[n] + Cardinality(At(call', "record", n))
  <2> DEFINE h == At(call, "handle", n)  h1 == At(call', "handle", n)
             r == At(call, "record", n)  r1 == At(call', "record", n)
             f == SlotCount * forgotten[n]  f1 == SlotCount * forgotten'[n]
  <2>1. h \in SUBSET Slots /\ r \in SUBSET Slots /\ h \cap r = {}
    BY SMT DEF At
  <2>2. h1 = h /\ (n = m => w \in r /\ r1 = r \ {w}) /\ (n # m => r1 = r)
    BY <1>1, <1>2, SMT DEF At, InboxTyped, NoCall
  <2>3. Cardinality(h) \in Nat /\ Cardinality(r) \in Nat /\ f \in Nat
        /\ SlotCount \in Nat /\ handled[n] \in Nat
        /\ Cardinality(h) + Cardinality(r) <= SlotCount
    BY <2>1, <1>1, SlotsFinite, SlotsShared, Times DEF InboxTyped
  <2>4. IF n = m /\ ~ok THEN f1 = f + SlotCount ELSE f1 = f
    BY <1>1, <1>2, <1>3, <2>3, Times DEF InboxTyped
  <2>5. Cardinality(r1) \in Nat /\ (n = m => Cardinality(r1) = Cardinality(r) - 1)
    BY <2>1, <2>2, OneMore, SlotsFinite
  <2>6. IF n \in recorded THEN handled[n] + Cardinality(h) <= f + SlotCount
                          ELSE handled[n] <= f + Cardinality(r)
    BY DEF InboxInv, Books
  <2>7. n \in recorded' <=> n \in recorded \/ (ok /\ n = m)
    BY <1>3
  <2>8. h1 = h /\ (n # m => r1 = r)
    BY <2>2
  <2> HIDE DEF h, h1, r, r1, f, f1, m
  <2>9. IF n \in recorded' THEN handled[n] + Cardinality(h1) <= f1 + SlotCount
                           ELSE handled[n] <= f1 + Cardinality(r1)
    <3>1. CASE n = m
      BY <2>3, <2>4, <2>5, <2>6, <2>7, <2>8, <3>1, SMT
    <3>2. CASE n # m
      BY <2>3, <2>4, <2>6, <2>7, <2>8, <3>2
    <3>3. QED
      BY <3>1, <3>2
  <2>10. QED
    BY <2>9 DEF h1, r1, f1
<1>7. QED
  BY <1>1, <1>4, <1>5, <1>6 DEF InboxInv, Books

LEMMA CrashInbox ==
  ASSUME InboxInv, InboxCrash
  PROVE  InboxInv'
<1>1. /\ call' = [w \in Slots |-> NoCall] /\ UNCHANGED <<recorded, handled>>
      /\ InboxTyped
  BY DEF InboxCrash, InboxInv
<1>2. \A m \in Messages : /\ forgotten[m] \in Nat
                          /\ forgotten'[m] \in {forgotten[m], forgotten[m] + 1}
                          /\ At(call, "record", m) # {} => forgotten'[m] = forgotten[m] + 1
  BY <1>1, SMT DEF InboxCrash, InboxTyped, At
<1>3. InboxTyped'
  BY <1>1, SMT DEF InboxCrash, InboxTyped
<1>4. RecordedMeansHandled' /\ Booked'
  BY <1>1 DEF InboxInv, RecordedMeansHandled, Booked, NoCall
<1>5. ASSUME NEW m \in Messages
      PROVE  IF m \in recorded
             THEN handled[m] + Cardinality(At(call', "handle", m))
                    <= SlotCount * forgotten'[m] + SlotCount
             ELSE handled[m]
                    <= SlotCount * forgotten'[m] + Cardinality(At(call', "record", m))
  <2> DEFINE h == At(call, "handle", m)  r == At(call, "record", m)
             f == SlotCount * forgotten[m]  f1 == SlotCount * forgotten'[m]
  <2>1. At(call', "handle", m) = {} /\ At(call', "record", m) = {} /\ Cardinality({}) = 0
    BY <1>1, FS_EmptySet DEF At, NoCall
  <2>2. h \in SUBSET Slots /\ r \in SUBSET Slots
    BY DEF At
  <2>3. Cardinality(h) \in Nat /\ Cardinality(r) \in Nat /\ f \in Nat
        /\ SlotCount \in Nat /\ handled[m] \in Nat /\ Cardinality(r) <= SlotCount
        /\ (r = {} => Cardinality(r) = 0)
    BY <2>2, <1>1, SlotsFinite, Times, FS_EmptySet DEF InboxTyped
  <2>4. f1 = f \/ f1 = f + SlotCount
    BY <1>2, <2>3, Times
  <2>5. r # {} => f1 = f + SlotCount
    BY <1>2, <2>3, Times
  <2>6. IF m \in recorded THEN handled[m] + Cardinality(h) <= f + SlotCount
                          ELSE handled[m] <= f + Cardinality(r)
    BY DEF InboxInv, Books
  <2> HIDE DEF h, r, f, f1
  <2>7. IF m \in recorded THEN handled[m] + 0 <= f1 + SlotCount ELSE handled[m] <= f1 + 0
    BY <2>3, <2>4, <2>5, <2>6, SMT
  <2>8. QED
    BY <2>1, <2>7 DEF f1
<1>6. QED
  BY <1>1, <1>3, <1>4, <1>5 DEF InboxInv, Books

LEMMA DeleteInbox ==
  ASSUME InboxInv, NEW m \in Messages, DeleteBefore(m)
  PROVE  InboxInv'
<1>1. /\ m \in recorded /\ recorded' = recorded \ {m}
      /\ forgotten' = [forgotten EXCEPT ![m] = @ + 1]
      /\ UNCHANGED <<call, handled>> /\ InboxTyped
  BY DEF DeleteBefore, InboxInv
<1>2. InboxTyped' /\ RecordedMeansHandled' /\ Booked'
  BY <1>1, SMT DEF InboxInv, InboxTyped, RecordedMeansHandled, Booked
<1>3. ASSUME NEW n \in Messages
      PROVE  IF n \in recorded'
             THEN handled[n] + Cardinality(At(call, "handle", n))
                    <= SlotCount * forgotten'[n] + SlotCount
             ELSE handled[n]
                    <= SlotCount * forgotten'[n] + Cardinality(At(call, "record", n))
  <2> DEFINE h == At(call, "handle", n)  r == At(call, "record", n)
             f == SlotCount * forgotten[n]  f1 == SlotCount * forgotten'[n]
  <2>1. h \in SUBSET Slots /\ r \in SUBSET Slots
    BY DEF At
  <2>2. Cardinality(h) \in Nat /\ Cardinality(r) \in Nat /\ f \in Nat
        /\ SlotCount \in Nat /\ handled[n] \in Nat
    BY <2>1, <1>1, SlotsFinite, Times DEF InboxTyped
  <2>3. IF n = m THEN f1 = f + SlotCount ELSE f1 = f
    BY <1>1, <2>2, Times DEF InboxTyped
  <2>4. IF n \in recorded THEN handled[n] + Cardinality(h) <= f + SlotCount
                          ELSE handled[n] <= f + Cardinality(r)
    BY DEF InboxInv, Books
  <2>5. n \in recorded' <=> n \in recorded /\ n # m
    BY <1>1
  <2> HIDE DEF h, r, f, f1
  <2>6. IF n \in recorded' THEN handled[n] + Cardinality(h) <= f1 + SlotCount
                           ELSE handled[n] <= f1 + Cardinality(r)
    BY <1>1, <2>2, <2>3, <2>4, <2>5, SMT
  <2>7. QED
    BY <2>6 DEF h, r, f1
<1>4. QED
  BY <1>1, <1>2, <1>3 DEF InboxInv, Books

(* Every step of the inbox keeps its invariant, and handles at most more.  *)
LEMMA InboxStepInv ==
  ASSUME InboxInv, InboxStep
  PROVE  InboxInv' /\ \A m \in Messages : handled[m] > 0 => handled'[m] > 0
<1>1. CASE UNCHANGED inboxVars
  BY <1>1 DEF inboxVars, InboxInv, InboxTyped, RecordedMeansHandled, Booked, Books
<1>2. CASE ~UNCHANGED inboxVars
  <2>1. InboxInv'
    BY <1>2, ProcessInbox, CheckInbox, HandleInbox, RecordInbox, CrashInbox, DeleteInbox
       DEF InboxStep
  <2>2. handled' = handled \/ \E m : handled' = [handled EXCEPT ![m] = @ + 1]
    BY <1>2 DEF InboxStep, Process, IsProcessedByHandler, HandleMessage, RecordMessage,
                InboxCrash, DeleteBefore
  <2>3. QED
    BY <2>1, <2>2, SMT DEF InboxInv, InboxTyped
<1>3. QED
  BY <1>1, <1>2

(* The inbox keeps the bound.                                              *)
LEMMA BooksBound ==
  ASSUME InboxInv
  PROVE  HandledOnceUnlessForgotten
<1> SUFFICES ASSUME NEW m \in Messages
             PROVE  handled[m] <= SlotCount * (1 + forgotten[m])
  BY DEF HandledOnceUnlessForgotten, SlotCount
<1> DEFINE h == At(call, "handle", m)  r == At(call, "record", m)
           f == SlotCount * forgotten[m]
<1>1. h \in SUBSET Slots /\ r \in SUBSET Slots
  BY DEF At
<1>2. Cardinality(h) \in Nat /\ Cardinality(r) \in Nat /\ f \in Nat
      /\ SlotCount \in Nat /\ handled[m] \in Nat /\ Cardinality(r) <= SlotCount
  BY <1>1, SlotsFinite, Times DEF InboxInv, InboxTyped
<1>3. IF m \in recorded THEN handled[m] + Cardinality(h) <= f + SlotCount
                        ELSE handled[m] <= f + Cardinality(r)
  BY DEF InboxInv, Books
<1>4. SlotCount * (1 + forgotten[m]) = f + SlotCount
  BY <1>2, Times DEF InboxInv, InboxTyped
<1> HIDE DEF h, r, f
<1>5. QED
  BY <1>2, <1>3, <1>4, SMT

---------------------------------------------------------------------------
(* The subscription.                                                       *)

QueuesTyped ==
  ready \in Seq(Queued) /\ retryQueue \in Seq(Queued) /\ dlq \subseteq Messages

SessionTyped ==
  /\ nextTag \in Nat \ {0} /\ open \in BOOLEAN
  /\ unacked \in Seq(Deliveries) /\ buffer \in Seq(Deliveries)
  /\ \A i \in DOMAIN unacked : unacked[i].own /\ unacked[i].tag < nextTag
  /\ ~open => unacked = <<>> /\ buffer = <<>>

LoopTyped ==
  /\ sub \in {"off", "on", "cancelled", "left"} /\ (open => sub \in {"on", "cancelled"})
  /\ paused \in BOOLEAN /\ autoAck \in BOOLEAN
  /\ waits => hand = Nothing /\ sub \in {"on", "cancelled"}
  /\ hand \in Deliveries \cup {Nothing}

WorkTyped ==
  /\ pc \in [Slots -> Labels] /\ job \in [Slots -> Deliveries \cup {Nothing}]
  /\ \A w \in Slots : /\ (pc[w] = "idle") <=> (job[w] = Nothing)
                      /\ pc[w] = "retry" => job[w].attempt + 1 < MaxRetries
                      /\ pc[w] \in Republishing => open

LogTyped ==
  /\ discarded \subseteq Messages /\ misacked \subseteq Messages
  /\ sent \in [Messages -> Nat] /\ faults \in 0..MaxFaults

CallsMatch ==
  \A w \in Slots : /\ (pc[w] \in Handling) <=> (call[w] # NoCall)
                   /\ call[w] # NoCall => call[w].id = job[w].id

\* The tag of delivery d was given before next, and in the queue q of what waits for
\* an acknowledgment it stands for the message of d, if d is of the session.
Known(d, q, next) ==
  d.own => d.tag < next /\ \A i \in DOMAIN q : q[i].tag = d.tag => q[i].id = d.id

Held ==
  /\ \A i \in DOMAIN buffer : Known(buffer[i], unacked, nextTag)
  /\ hand # Nothing => Known(hand, unacked, nextTag)
  /\ \A w \in Slots : job[w] # Nothing => Known(job[w], unacked, nextTag)

\* A worker acknowledges at once only what was handled or is to be discarded.
Acked ==
  \A w \in Slots : pc[w] = "ack" => handled[job[w].id] > 0 \/ job[w].id \in discarded

\* The messages something was done with.
Finished == dlq \cup discarded \cup misacked \cup {m \in Messages : handled[m] > 0}

\* The tags that are about to be acknowledged because a copy was published.
Settling == {job[w].tag : w \in {v \in Slots : pc[v] = "settle" /\ job[v].own}}

\* A message is safe when it waits for a delivery, when something was done with it, or
\* when a delivery of it waits for more than such an acknowledgment.
Covered(m) ==
  \/ In(m, ready) \/ In(m, retryQueue) \/ m \in Finished
  \/ \E i \in DOMAIN unacked : unacked[i].id = m /\ unacked[i].tag \notin Settling
Kept == ~autoAck => \A m \in Messages : sent[m] > 0 => Covered(m)

ConsumerInv == /\ QueuesTyped /\ SessionTyped /\ LoopTyped /\ WorkTyped /\ LogTyped
               /\ CallsMatch /\ Held /\ Acked /\ Kept

(* What is appended to a queue, taken from its head or put before it.      *)
LEMMA InAppend ==
  ASSUME NEW T, NEW q \in Seq(T), NEW x, NEW m
  PROVE  /\ In(m, q) => In(m, Append(q, x))
         /\ x.id = m => In(m, Append(q, x))
<1>1. Len(q) \in Nat /\ DOMAIN q = 1..Len(q)
  BY SMT
<1>2. /\ DOMAIN Append(q, x) = 1..(Len(q) + 1) /\ Append(q, x)[Len(q) + 1] = x
      /\ \A i \in 1..Len(q) : Append(q, x)[i] = q[i]
  BY SMT
<1>3. Len(q) + 1 \in DOMAIN Append(q, x)
  BY <1>1, <1>2, SMT
<1>4. ASSUME NEW i \in DOMAIN q
      PROVE  i \in DOMAIN Append(q, x) /\ Append(q, x)[i] = q[i]
  BY <1>1, <1>2, SMT
<1>5. QED
  BY <1>2, <1>3, <1>4 DEF In

LEMMA InTail ==
  ASSUME NEW T, NEW q \in Seq(T), q # <<>>, NEW m, In(m, q)
  PROVE  Head(q).id = m \/ In(m, Tail(q))
<1>1. PICK i \in DOMAIN q : q[i].id = m
  BY DEF In
<1>2. /\ Len(q) \in Nat /\ i \in 1..Len(q) /\ Tail(q) \in Seq(T) /\ Len(Tail(q)) = Len(q) - 1
      /\ \A j \in 1..Len(Tail(q)) : Tail(q)[j] = q[j + 1]
      /\ Head(q) = q[1] /\ DOMAIN Tail(q) = 1..Len(Tail(q))
  BY HeadTailProperties, SMT
<1>3. CASE i = 1
  BY <1>1, <1>2, <1>3
<1>4. CASE i # 1
  <2>1. i - 1 \in 1..Len(Tail(q)) /\ Tail(q)[i - 1] = q[(i - 1) + 1] /\ (i - 1) + 1 = i
    BY <1>2, <1>4, SMT
  <2>2. QED
    BY <1>1, <1>2, <2>1 DEF In
<1>5. QED
  BY <1>3, <1>4

LEMMA InConcat ==
  ASSUME NEW T, NEW p \in Seq(T), NEW q \in Seq(T), NEW m
  PROVE  (In(m, p) \/ In(m, q)) => In(m, p \o q)
<1>1. /\ DOMAIN (p \o q) = 1..(Len(p) + Len(q)) /\ Len(p) \in Nat /\ Len(q) \in Nat
      /\ DOMAIN p = 1..Len(p) /\ DOMAIN q = 1..Len(q)
  BY ConcatProperties, LenProperties, SMT
<1>2. ASSUME NEW i \in DOMAIN p PROVE i \in DOMAIN (p \o q) /\ (p \o q)[i] = p[i]
  BY <1>1, ConcatProperties, SMT
<1>3. ASSUME NEW i \in DOMAIN q
      PROVE  Len(p) + i \in DOMAIN (p \o q) /\ (p \o q)[Len(p) + i] = q[i]
  <2>1. /\ Len(p) + i \in 1..(Len(p) + Len(q)) /\ Len(p) + i > Len(p)
        /\ (Len(p) + i) - Len(p) = i
    BY <1>1, SMT
  <2>2. QED
    BY <1>1, <2>1, ConcatProperties, SMT
<1>4. QED
  BY <1>2, <1>3 DEF In

(* Without drops the delivery at i and no other.                           *)
LEMMA WithoutOne ==
  ASSUME NEW q \in Seq(Deliveries), NEW i \in DOMAIN q
  PROVE  /\ Without(q, i) \in Seq(Deliveries)
         /\ \A j \in DOMAIN Without(q, i) : \E k \in DOMAIN q : Without(q, i)[j] = q[k]
         /\ \A k \in DOMAIN q \ {i} : \E j \in DOMAIN Without(q, i) : Without(q, i)[j] = q[k]
<1> DEFINE n == Len(q)  r == Without(q, i)
<1>1. n \in Nat /\ DOMAIN q = 1..n /\ i \in 1..n /\ n - 1 \in Nat
      /\ \A k \in 1..n : q[k] \in Deliveries
  BY SMT
<1>2. r = [j \in 1..(n - 1) |-> IF j < i THEN q[j] ELSE q[j + 1]]
  BY DEF Without
<1>3. \A j \in 1..(n - 1) : j \in 1..n /\ j + 1 \in 1..n
  BY <1>1, SMT
<1>4. r \in [1..(n - 1) -> Deliveries]
  BY <1>1, <1>2, <1>3
<1>5. r \in Seq(Deliveries) /\ DOMAIN r = 1..(n - 1)
  BY <1>1, <1>4, SeqDef
<1>6. ASSUME NEW j \in DOMAIN r PROVE \E k \in DOMAIN q : r[j] = q[k]
  BY <1>1, <1>2, <1>3, <1>5
<1>7. ASSUME NEW k \in DOMAIN q \ {i} PROVE \E j \in DOMAIN r : r[j] = q[k]
  <2>1. CASE k < i
    BY <1>1, <1>2, <1>5, <2>1, SMT
  <2>2. CASE k > i
    <3>1. k - 1 \in 1..(n - 1) /\ ~(k - 1 < i) /\ (k - 1) + 1 = k
      BY <1>1, <2>2, SMT
    <3>2. r[k - 1] = q[k]
      BY <1>2, <3>1
    <3>3. QED
      BY <1>5, <3>1, <3>2
  <2>3. QED
    BY <1>1, <2>1, <2>2, SMT
<1>8. QED
  BY <1>5, <1>6, <1>7

(* A delivery is not Nothing, and disowning it or noting the pause changes nothing   *)
(* else of it.                                                                       *)
LEMMA DeliveryIsSome == ASSUME NEW d \in Deliveries PROVE d # Nothing
BY SMT DEF Deliveries, Nothing

LEMMA DisownTyped ==
  ASSUME NEW d \in Deliveries
  PROVE  /\ Disown(d) \in Deliveries /\ Disown(d) # Nothing
         /\ Disown(d).own = FALSE /\ Disown(d).id = d.id /\ Disown(d).attempt = d.attempt
<1>1. Disown(d) = [d EXCEPT !.own = FALSE]
  BY DeliveryIsSome DEF Disown
<1>2. [d EXCEPT !.own = FALSE] \in Deliveries
  BY DEF Deliveries
<1>3. /\ [d EXCEPT !.own = FALSE].own = FALSE /\ [d EXCEPT !.own = FALSE].id = d.id
      /\ [d EXCEPT !.own = FALSE].attempt = d.attempt
  BY SMT DEF Deliveries
<1>4. QED
  BY <1>1, <1>2, <1>3, DeliveryIsSome

LEMMA PauseTyped ==
  ASSUME NEW d \in Deliveries, NEW b \in BOOLEAN
  PROVE  /\ [d EXCEPT !.pause = b] \in Deliveries
         /\ [d EXCEPT !.pause = b].own = d.own /\ [d EXCEPT !.pause = b].id = d.id
         /\ [d EXCEPT !.pause = b].tag = d.tag /\ [d EXCEPT !.pause = b].attempt = d.attempt
<1>1. [d EXCEPT !.pause = b] \in Deliveries
  BY DEF Deliveries
<1>2. /\ [d EXCEPT !.pause = b].own = d.own /\ [d EXCEPT !.pause = b].id = d.id
      /\ [d EXCEPT !.pause = b].tag = d.tag /\ [d EXCEPT !.pause = b].attempt = d.attempt
  BY SMT DEF Deliveries
<1>3. QED
  BY <1>1, <1>2

(* What a step leaves alone keeps its part of the invariant.               *)
LEMMA Frames ==
  ASSUME ConsumerInv
  PROVE  /\ UNCHANGED <<ready, retryQueue, dlq>> => QueuesTyped'
         /\ UNCHANGED <<nextTag, open, unacked, buffer>> => SessionTyped'
         /\ UNCHANGED <<sub, open, paused, waits, autoAck, hand>> => LoopTyped'
         /\ UNCHANGED <<job, pc, open>> => WorkTyped'
         /\ UNCHANGED <<discarded, misacked, sent, faults>> => LogTyped'
         /\ UNCHANGED <<job, pc, call>> => CallsMatch'
         /\ UNCHANGED <<unacked, nextTag, buffer, hand, job>> => Held'
         /\ UNCHANGED <<job, pc, handled, discarded>> => Acked'
         /\ UNCHANGED <<job, pc>> => Settling' = Settling
         /\ UNCHANGED <<dlq, discarded, misacked, handled>> => Finished' = Finished
<1>1. UNCHANGED <<ready, retryQueue, dlq>> => QueuesTyped'
  BY DEF ConsumerInv, QueuesTyped
<1>2. UNCHANGED <<nextTag, open, unacked, buffer>> => SessionTyped'
  BY SMT DEF ConsumerInv, SessionTyped
<1>3. UNCHANGED <<sub, open, paused, waits, autoAck, hand>> => LoopTyped'
  BY SMT DEF ConsumerInv, LoopTyped
<1>4. UNCHANGED <<job, pc, open>> => WorkTyped'
  <2>1. WorkTyped
    BY DEF ConsumerInv
  <2>2. QED
    BY <2>1, SMT DEF WorkTyped
<1>5. UNCHANGED <<discarded, misacked, sent, faults>> => LogTyped'
  BY DEF ConsumerInv, LogTyped
<1>6. UNCHANGED <<job, pc, call>> => CallsMatch'
  BY DEF ConsumerInv, CallsMatch
<1>7. UNCHANGED <<unacked, nextTag, buffer, hand, job>> => Held'
  BY DEF ConsumerInv, Held
<1>8. UNCHANGED <<job, pc, handled, discarded>> => Acked'
  BY DEF ConsumerInv, Acked
<1>9. /\ UNCHANGED <<job, pc>> => Settling' = Settling
      /\ UNCHANGED <<dlq, discarded, misacked, handled>> => Finished' = Finished
  BY DEF Settling, Finished
<1>10. QED
  BY <1>1, <1>2, <1>3, <1>4, <1>5, <1>6, <1>7, <1>8, <1>9

(* The queues stay, more is done and no further tag is about to be acknowledged.      *)
LEMMA KeptQuietly ==
  ASSUME Kept, UNCHANGED <<autoAck, sent, ready, retryQueue, unacked>>,
         Finished \subseteq Finished', Settling' \subseteq Settling
  PROVE  Kept'
BY DEF Kept, Covered

(* The broker is given a message.                                          *)
LEMMA PublishInv ==
  ASSUME ConsumerInv, NEW m \in Messages, Publish(m)
  PROVE  ConsumerInv'
<1>1. /\ sent' = [sent EXCEPT ![m] = @ + 1] /\ ready' = Append(ready, [id |-> m, attempt |-> 0])
      /\ UNCHANGED <<retryQueue, dlq, unacked, nextTag, loopVars, workVars, logVars,
                     inboxVars, faults>>
  BY DEF Publish, Source!Send, Arrives
<1>2. [id |-> m, attempt |-> 0] \in Queued
  BY ConsumerAssumption, SMT DEF Queued
<1>3. QueuesTyped'
  BY <1>1, <1>2, SMT DEF ConsumerInv, QueuesTyped
<1>4. LogTyped'
  BY <1>1, SMT DEF ConsumerInv, LogTyped, logVars
<1>5. SessionTyped' /\ LoopTyped' /\ WorkTyped' /\ CallsMatch' /\ Held' /\ Acked'
      /\ Settling' = Settling /\ Finished' = Finished
  BY <1>1, Frames DEF loopVars, workVars, logVars, inboxVars
<1>6. Kept'
  <2> SUFFICES ASSUME ~autoAck', NEW n \in Messages, sent'[n] > 0
               PROVE  Covered(n)'
    BY DEF Kept
  <2>1. ~autoAck
    BY <1>1 DEF loopVars
  <2>2. CASE n = m
    <3>1. In(m, ready')
      BY <1>1, InAppend DEF ConsumerInv, QueuesTyped
    <3>2. QED
      BY <2>2, <3>1 DEF Covered
  <2>3. CASE n # m
    <3>1. sent[n] > 0
      BY <2>3, <1>1 DEF ConsumerInv, LogTyped
    <3>2. Covered(n)
      BY <2>1, <3>1 DEF ConsumerInv, Kept
    <3>3. In(n, ready) => In(n, ready')
      BY <1>1, InAppend DEF ConsumerInv, QueuesTyped
    <3>4. QED
      BY <1>1, <1>5, <3>2, <3>3 DEF Covered
  <2>4. QED
    BY <2>2, <2>3
<1>7. QED
  BY <1>3, <1>4, <1>5, <1>6 DEF ConsumerInv

LEMMA RetryExpiresInv ==
  ASSUME ConsumerInv, RetryExpires, UNCHANGED <<inboxVars, sourceVars, faults>>
  PROVE  ConsumerInv'
<1>1. /\ retryQueue # <<>> /\ ready' = Append(ready, Head(retryQueue))
      /\ retryQueue' = Tail(retryQueue)
      /\ UNCHANGED <<dlq, unacked, nextTag, loopVars, workVars, logVars>>
  BY DEF RetryExpires
<1>2. ready \in Seq(Queued) /\ retryQueue \in Seq(Queued) /\ dlq \subseteq Messages
  BY DEF ConsumerInv, QueuesTyped
<1>3. QueuesTyped'
  BY <1>1, <1>2, SMT DEF QueuesTyped
<1>4. SessionTyped' /\ LoopTyped' /\ WorkTyped' /\ CallsMatch' /\ Held' /\ Acked' /\ LogTyped'
      /\ Settling' = Settling /\ Finished' = Finished
  BY <1>1, Frames DEF loopVars, workVars, logVars, inboxVars, sourceVars
<1>5. Kept'
  <2> SUFFICES ASSUME NEW n \in Messages, Covered(n)
               PROVE  Covered(n)'
    BY <1>1 DEF ConsumerInv, Kept, loopVars, sourceVars
  <2>1. In(n, ready) => In(n, ready')
    BY <1>1, <1>2, InAppend
  <2>2. Head(retryQueue).id = n => In(n, ready')
    BY <1>1, <1>2, InAppend
  <2>3. In(n, retryQueue) => Head(retryQueue).id = n \/ In(n, retryQueue')
    BY <1>1, <1>2, InTail
  <2>4. QED
    BY <1>1, <1>4, <2>1, <2>2, <2>3 DEF Covered
<1>6. QED
  BY <1>3, <1>4, <1>5 DEF ConsumerInv

(* Subscribe, Unsubscribe, Pause, Resume, Await and Reconnect only concern consumeLoop. *)
LEMMA LoopInv ==
  ASSUME ConsumerInv, Subscribe \/ Unsubscribe \/ Pause \/ Resume \/ Await \/ Reconnect,
         UNCHANGED <<inboxVars, sourceVars>>, faults' \in 0..MaxFaults
  PROVE  ConsumerInv'
<1>1. UNCHANGED <<autoAck, brokerVars, buffer, hand, workVars, logVars>>
  BY DEF Subscribe, Unsubscribe, Pause, Resume, Await, Reconnect
<1>2. QueuesTyped' /\ CallsMatch' /\ Held' /\ Acked'
      /\ Settling' = Settling /\ Finished' = Finished
  BY <1>1, Frames DEF brokerVars, workVars, logVars, inboxVars, sourceVars
<1>3. /\ open' \in BOOLEAN /\ (open' => sub' \in {"on", "cancelled"})
      /\ sub' \in {"off", "on", "cancelled", "left"} /\ paused' \in BOOLEAN
      /\ ~open' => ~open
      /\ waits' => hand = Nothing /\ sub' \in {"on", "cancelled"}
  <2>1. /\ open \in BOOLEAN /\ (open => sub \in {"on", "cancelled"})
        /\ sub \in {"off", "on", "cancelled", "left"} /\ paused \in BOOLEAN
        /\ waits => hand = Nothing /\ sub \in {"on", "cancelled"}
    BY DEF ConsumerInv, LoopTyped, SessionTyped
  <2>2. CASE Subscribe
    BY <2>1, <2>2 DEF Subscribe
  <2>3. CASE Unsubscribe
    BY <2>1, <2>3 DEF Unsubscribe
  <2>4. CASE Pause
    BY <2>1, <2>4 DEF Pause
  <2>5. CASE Resume
    BY <2>1, <2>5 DEF Resume
  <2>6. CASE Await
    BY <2>1, <2>6 DEF Await
  <2>7. CASE Reconnect
    BY <2>1, <2>7 DEF Reconnect
  <2>8. QED
    BY <2>2, <2>3, <2>4, <2>5, <2>6, <2>7
<1>4. SessionTyped' /\ LoopTyped' /\ LogTyped' /\ WorkTyped'
  <2>1. UNCHANGED <<autoAck, nextTag, unacked, buffer, hand, discarded, misacked, sent, job, pc>>
    BY <1>1 DEF brokerVars, workVars, logVars, sourceVars
  <2>2. SessionTyped' /\ LoopTyped' /\ LogTyped'
    BY <1>3, <2>1 DEF ConsumerInv, SessionTyped, LoopTyped, LogTyped
  <2>3. WorkTyped'
    BY <1>3, <2>1 DEF ConsumerInv, WorkTyped
  <2>4. QED
    BY <2>2, <2>3
<1>5. Kept'
  BY <1>1, <1>2, KeptQuietly DEF ConsumerInv, brokerVars, sourceVars
<1>6. QED
  BY <1>2, <1>4, <1>5 DEF ConsumerInv

(* consumeLoop takes a delivery from the session.                          *)
LEMMA TakeInv ==
  ASSUME ConsumerInv, Take, UNCHANGED <<inboxVars, sourceVars, faults>>
  PROVE  ConsumerInv'
<1>1. /\ buffer # <<>> /\ hand' = Head(buffer) /\ buffer' = Tail(buffer) /\ waits' = FALSE
      /\ UNCHANGED <<autoAck, brokerVars, sub, open, paused, workVars, logVars>>
  BY DEF Take
<1>2. QueuesTyped' /\ WorkTyped' /\ CallsMatch' /\ Acked' /\ LogTyped'
      /\ Settling' = Settling /\ Finished' = Finished
  BY <1>1, Frames DEF brokerVars, workVars, logVars, inboxVars, sourceVars
<1>3. /\ buffer \in Seq(Deliveries) /\ Head(buffer) = buffer[1] /\ 1 \in DOMAIN buffer
      /\ Head(buffer) \in Deliveries /\ Tail(buffer) \in Seq(Deliveries)
      /\ \A i \in DOMAIN Tail(buffer) : i + 1 \in DOMAIN buffer /\ Tail(buffer)[i] = buffer[i + 1]
  BY <1>1, SMT DEF ConsumerInv, SessionTyped
<1>4. SessionTyped' /\ LoopTyped'
  BY <1>1, <1>3 DEF ConsumerInv, SessionTyped, LoopTyped, brokerVars
<1>5. Held'
  <2>1. UNCHANGED <<unacked, nextTag, job>>
    BY <1>1 DEF brokerVars, workVars
  <2>2. Known(hand', unacked, nextTag)
    BY <1>1, <1>3 DEF ConsumerInv, Held
  <2>3. \A i \in DOMAIN buffer' : Known(buffer'[i], unacked, nextTag)
    BY <1>1, <1>3 DEF ConsumerInv, Held
  <2>4. QED
    BY <2>1, <2>2, <2>3 DEF ConsumerInv, Held
<1>6. Kept'
  BY <1>1, <1>2, KeptQuietly DEF ConsumerInv, brokerVars, sourceVars
<1>7. QED
  BY <1>2, <1>4, <1>5, <1>6 DEF ConsumerInv

(* A tag stays known when the broker delivers another message, and when a delivery  *)
(* is acknowledged.                                                                  *)
LEMMA KnownDeliver ==
  ASSUME NEW q \in Seq(Deliveries), NEW next \in Nat, NEW x \in Deliveries, x.tag = next,
         NEW d \in Deliveries, Known(d, q, next)
  PROVE  Known(d, Append(q, x), next + 1) /\ Known(d, q, next + 1)
<1>1. /\ DOMAIN q = 1..Len(q) /\ DOMAIN Append(q, x) = 1..(Len(q) + 1) /\ Len(q) \in Nat
      /\ Append(q, x)[Len(q) + 1] = x /\ \A i \in 1..Len(q) : Append(q, x)[i] = q[i]
  BY SMT
<1>2. d.own => d.tag < next + 1 /\ d.tag # next
  BY SMT DEF Known, Deliveries
<1>3. ASSUME d.own, NEW i \in DOMAIN Append(q, x), Append(q, x)[i].tag = d.tag
      PROVE  Append(q, x)[i].id = d.id
  <2>1. i # Len(q) + 1
    BY <1>1, <1>2, <1>3
  <2>2. i \in DOMAIN q /\ Append(q, x)[i] = q[i]
    BY <1>1, <2>1, SMT
  <2>3. QED
    BY <1>3, <2>2 DEF Known
<1>4. QED
  BY <1>2, <1>3 DEF Known

LEMMA KnownWithout ==
  ASSUME NEW q \in Seq(Deliveries), NEW next, NEW i \in DOMAIN q, NEW d, Known(d, q, next)
  PROVE  Known(d, Without(q, i), next)
<1>1. \A j \in DOMAIN Without(q, i) : \E k \in DOMAIN q : Without(q, i)[j] = q[k]
  BY WithoutOne
<1>2. ASSUME d.own, NEW j \in DOMAIN Without(q, i), Without(q, i)[j].tag = d.tag
      PROVE  Without(q, i)[j].id = d.id
  BY <1>1, <1>2 DEF Known
<1>3. QED
  BY <1>2 DEF Known

(* The tags that are about to be acknowledged belong to deliveries of the session.   *)
LEMMA SettlingKnown ==
  ASSUME ConsumerInv, NEW t \in Settling
  PROVE  /\ t < nextTag
         /\ \E w \in Slots : /\ pc[w] = "settle" /\ job[w].own /\ job[w].tag = t
                             /\ job[w] \in Deliveries /\ Known(job[w], unacked, nextTag)
<1>1. PICK w \in Slots : pc[w] = "settle" /\ job[w].own /\ job[w].tag = t
  BY DEF Settling
<1>2. job[w] # Nothing /\ job[w] \in Deliveries
  BY <1>1 DEF ConsumerInv, WorkTyped
<1>3. Known(job[w], unacked, nextTag)
  BY <1>2 DEF ConsumerInv, Held
<1>4. QED
  BY <1>1, <1>2, <1>3 DEF Known

LEMMA DeliverInv ==
  ASSUME ConsumerInv, Deliver, UNCHANGED <<inboxVars, sourceVars, faults>>
  PROVE  ConsumerInv'
<1> DEFINE d == [tag |-> nextTag, id |-> Head(ready).id, attempt |-> Head(ready).attempt,
                 own |-> TRUE, pause |-> FALSE]
<1>1. /\ open /\ ready # <<>> /\ buffer' = Append(buffer, d)
      /\ unacked' = IF autoAck THEN unacked ELSE Append(unacked, d)
      /\ ready' = Tail(ready) /\ nextTag' = nextTag + 1
      /\ UNCHANGED <<autoAck, retryQueue, dlq, sub, open, hand, paused, waits, workVars, logVars>>
  BY DEF Deliver
<1>2. /\ ready \in Seq(Queued) /\ Head(ready) \in Queued /\ Tail(ready) \in Seq(Queued)
      /\ nextTag \in Nat \ {0} /\ unacked \in Seq(Deliveries) /\ buffer \in Seq(Deliveries)
  BY <1>1, SMT DEF ConsumerInv, QueuesTyped, SessionTyped
<1>3. d \in Deliveries /\ d.tag = nextTag /\ d.own /\ d.id = Head(ready).id
  BY <1>2 DEF Deliveries, Queued
<1> HIDE DEF d
<1>4. /\ DOMAIN unacked = 1..Len(unacked) /\ Len(unacked) \in Nat
      /\ DOMAIN Append(unacked, d) = 1..(Len(unacked) + 1)
      /\ Append(unacked, d)[Len(unacked) + 1] = d
      /\ \A i \in 1..Len(unacked) : Append(unacked, d)[i] = unacked[i]
  BY <1>2, <1>3, SMT
<1>5. QueuesTyped'
  BY <1>1, <1>2 DEF ConsumerInv, QueuesTyped
<1>6. LoopTyped' /\ WorkTyped' /\ CallsMatch' /\ Acked' /\ LogTyped'
      /\ Settling' = Settling /\ Finished' = Finished
  BY <1>1, Frames DEF workVars, logVars, inboxVars, sourceVars
<1>7. SessionTyped'
  <2>1. unacked' \in Seq(Deliveries) /\ buffer' \in Seq(Deliveries)
        /\ nextTag' \in Nat \ {0} /\ open' \in BOOLEAN /\ open'
    BY <1>1, <1>2, <1>3, SMT DEF ConsumerInv, SessionTyped
  <2>2. \A i \in DOMAIN unacked : /\ unacked[i] \in Deliveries /\ unacked[i].own
                                  /\ unacked[i].tag < nextTag
    BY <1>2, SMT DEF ConsumerInv, SessionTyped
  <2>3. \A i \in DOMAIN unacked : unacked[i].own /\ unacked[i].tag < nextTag + 1
    BY <1>2, <2>2, SMT DEF Deliveries
  <2>4. \A i \in DOMAIN Append(unacked, d) :
            Append(unacked, d)[i].own /\ Append(unacked, d)[i].tag < nextTag + 1
    BY <1>2, <1>3, <1>4, <2>3, SMT
  <2>5. QED
    BY <1>1, <2>1, <2>3, <2>4 DEF SessionTyped
<1>8. Held'
  <2>1. ASSUME NEW x \in Deliveries, Known(x, unacked, nextTag)
        PROVE  Known(x, unacked', nextTag')
    BY <1>1, <1>2, <1>3, <2>1, KnownDeliver
  <2>2. Known(d, unacked', nextTag')
    <3>1. ASSUME NEW i \in DOMAIN unacked' , unacked'[i].tag = d.tag
          PROVE  unacked'[i].id = d.id
      <4>1. \A j \in DOMAIN unacked : unacked[j].tag # nextTag
        BY <1>2, SMT DEF ConsumerInv, SessionTyped, Deliveries
      <4>2. QED
        BY <1>1, <1>3, <1>4, <3>1, <4>1, SMT
    <3>2. QED
      BY <1>1, <1>2, <1>3, <3>1, SMT DEF Known
  <2>3. \A i \in DOMAIN buffer' : Known(buffer'[i], unacked', nextTag')
    <3>1. \A i \in DOMAIN buffer : Known(buffer[i], unacked', nextTag')
      BY <1>2, <2>1, SMT DEF ConsumerInv, Held
    <3>2. /\ DOMAIN buffer' = 1..(Len(buffer) + 1) /\ buffer'[Len(buffer) + 1] = d
          /\ DOMAIN buffer = 1..Len(buffer) /\ Len(buffer) \in Nat
          /\ \A i \in 1..Len(buffer) : buffer'[i] = buffer[i]
      BY <1>1, <1>2, <1>3, SMT
    <3>3. QED
      BY <2>2, <3>1, <3>2, SMT
  <2>4. hand' # Nothing => Known(hand', unacked', nextTag')
    BY <1>1, <2>1 DEF ConsumerInv, Held, LoopTyped
  <2>5. \A w \in Slots : job'[w] # Nothing => Known(job'[w], unacked', nextTag')
    BY <1>1, <2>1 DEF ConsumerInv, Held, WorkTyped, workVars
  <2>6. QED
    BY <2>3, <2>4, <2>5 DEF Held
<1>9. Kept'
  <2> SUFFICES ASSUME ~autoAck, NEW n \in Messages, Covered(n)
               PROVE  Covered(n)'
    BY <1>1 DEF ConsumerInv, Kept, sourceVars
  <2>1. In(n, ready) => n = d.id \/ In(n, ready')
    BY <1>1, <1>2, <1>3, InTail
  <2>2. nextTag \notin Settling
    BY <1>2, SettlingKnown, SMT
  <2>3. \A i \in DOMAIN unacked : i \in DOMAIN unacked' /\ unacked'[i] = unacked[i]
    BY <1>1, <1>4, SMT
  <2>4. Len(unacked) + 1 \in DOMAIN unacked' /\ unacked'[Len(unacked) + 1] = d
    BY <1>1, <1>4, SMT
  <2>5. QED
    BY <1>1, <1>3, <1>6, <2>1, <2>2, <2>3, <2>4 DEF Covered
<1>10. QED
  BY <1>5, <1>6, <1>7, <1>8, <1>9 DEF ConsumerInv

(* One worker moves on.                                                    *)
LEMMA OneWorker ==
  ASSUME ConsumerInv, NEW w \in Slots, NEW l \in Labels, NEW d \in Deliveries \cup {Nothing},
         pc' = [pc EXCEPT ![w] = l], job' = [job EXCEPT ![w] = d],
         (l = "idle") <=> (d = Nothing),
         l = "retry" => d.attempt + 1 < MaxRetries,
         l \in Republishing => open, open' = open
  PROVE  /\ WorkTyped' /\ pc'[w] = l /\ job'[w] = d
         /\ \A v \in Slots \ {w} : pc'[v] = pc[v] /\ job'[v] = job[v]
         /\ l # "settle" => Settling' \subseteq Settling
<1>1. /\ pc'[w] = l /\ job'[w] = d
      /\ \A v \in Slots \ {w} : pc'[v] = pc[v] /\ job'[v] = job[v]
      /\ pc' \in [Slots -> Labels] /\ job' \in [Slots -> Deliveries \cup {Nothing}]
  BY DEF ConsumerInv, WorkTyped
<1>2. ASSUME NEW v \in Slots
      PROVE  /\ (pc'[v] = "idle") <=> (job'[v] = Nothing)
             /\ pc'[v] = "retry" => job'[v].attempt + 1 < MaxRetries
             /\ pc'[v] \in Republishing => open'
  BY <1>1 DEF ConsumerInv, WorkTyped
<1>3. l # "settle" => Settling' \subseteq Settling
  BY <1>1 DEF Settling
<1>4. QED
  BY <1>1, <1>2, <1>3 DEF WorkTyped

(* The delivery a worker has afterwards is none, or known.                 *)
LEMMA HeldByWorker ==
  ASSUME ConsumerInv, NEW w \in Slots, UNCHANGED <<unacked, nextTag, buffer>>,
         hand' \in {hand, Nothing},
         \A v \in Slots \ {w} : job'[v] = job[v],
         job'[w] # Nothing => Known(job'[w], unacked, nextTag)
  PROVE  Held'
<1>1. \A v \in Slots : job'[v] # Nothing => Known(job'[v], unacked', nextTag')
  BY DEF ConsumerInv, Held
<1>2. QED
  BY <1>1 DEF ConsumerInv, Held

LEMMA FinishWorker ==
  ASSUME ConsumerInv, NEW w \in Slots, Finish(w), open' = open
  PROVE  /\ WorkTyped' /\ pc'[w] = "idle" /\ job'[w] = Nothing
         /\ \A v \in Slots \ {w} : pc'[v] = pc[v] /\ job'[v] = job[v]
         /\ Settling' \subseteq Settling
<1>1. "idle" \in Labels /\ Nothing \in Deliveries \cup {Nothing} /\ "idle" \notin Republishing
  BY DEF Labels, Republishing
<1>2. QED
  BY <1>1, OneWorker DEF Finish

(* What a call of Process and the message it is for have in common stays.  *)
LEMMA MatchKept ==
  ASSUME ConsumerInv, NEW w \in Slots,
         \A v \in Slots \ {w} : pc'[v] = pc[v] /\ job'[v] = job[v] /\ call'[v] = call[v],
         (pc'[w] \in Handling) <=> (call'[w] # NoCall),
         call'[w] # NoCall => call'[w].id = job'[w].id
  PROVE  CallsMatch'
BY DEF ConsumerInv, CallsMatch

(* A worker is started: it calls Process.                                  *)
LEMMA StartWorkerInv ==
  ASSUME ConsumerInv, InboxTyped, NEW w \in Slots, StartWorker(w), Process(w, hand.id),
         UNCHANGED <<sourceVars, faults>>
  PROVE  ConsumerInv' /\ hand.id \in Messages
<1>1. /\ hand # Nothing /\ pc[w] = "idle" /\ hand' = Nothing
      /\ job' = [job EXCEPT ![w] = hand] /\ pc' = [pc EXCEPT ![w] = "handle"]
      /\ UNCHANGED <<autoAck, brokerVars, sub, open, buffer, paused, waits, logVars>>
  BY DEF StartWorker
<1>2. call' = [call EXCEPT ![w] = [pc |-> "check", id |-> hand.id]]
      /\ UNCHANGED <<recorded, handled, forgotten>>
  BY DEF Process
<1>3. /\ hand \in Deliveries /\ hand.id \in Messages
      /\ "handle" \in Labels /\ "handle" \in Handling /\ "handle" \notin Republishing
  BY <1>1 DEF ConsumerInv, LoopTyped, Deliveries, Labels, Handling, Republishing
<1>4. /\ WorkTyped' /\ pc'[w] = "handle" /\ job'[w] = hand
      /\ \A v \in Slots \ {w} : pc'[v] = pc[v] /\ job'[v] = job[v]
      /\ Settling' \subseteq Settling
  BY <1>1, <1>3, OneWorker
<1>5. /\ call'[w] = [pc |-> "check", id |-> hand.id]
      /\ \A v \in Slots \ {w} : call'[v] = call[v]
  BY <1>2 DEF InboxTyped
<1>6. QueuesTyped' /\ SessionTyped' /\ LogTyped' /\ Finished' = Finished
  BY <1>1, <1>2, Frames DEF brokerVars, logVars, sourceVars
<1>7. LoopTyped'
  BY <1>1 DEF ConsumerInv, LoopTyped
<1>8. CallsMatch'
  <2>1. call'[w] # NoCall /\ call'[w].id = hand.id
    BY <1>5, SMT DEF NoCall
  <2>2. QED
    BY <1>3, <1>4, <1>5, <2>1, MatchKept
<1>9. Held'
  <2>1. Known(hand, unacked, nextTag)
    BY <1>1 DEF ConsumerInv, Held
  <2>2. QED
    BY <1>1, <1>4, <2>1, HeldByWorker DEF brokerVars
<1>10. Acked'
  BY <1>1, <1>2, <1>4, SMT DEF ConsumerInv, Acked, logVars
<1>11. Kept'
  BY <1>1, <1>4, <1>6, KeptQuietly DEF ConsumerInv, brokerVars, sourceVars
<1>12. QED
  BY <1>3, <1>4, <1>6, <1>7, <1>8, <1>9, <1>10, <1>11 DEF ConsumerInv

(* A step of a call of Process, and what it returns.                       *)
Calling(w, ok) == IsProcessedByHandler(w, ok) \/ HandleMessage(w, ok) \/ RecordMessage(w, ok)

LEMMA CallStep ==
  ASSUME InboxInv, NEW w \in Slots, NEW ok \in BOOLEAN, Calling(w, ok)
  PROVE  /\ call[w] # NoCall /\ call[w].id \in Messages
         /\ \A v \in Slots \ {w} : call'[v] = call[v]
         /\ call'[w] # NoCall => call'[w].id = call[w].id
         /\ call'[w] = NoCall /\ ok => handled'[call[w].id] > 0
         /\ \A m \in Messages : handled[m] > 0 => handled'[m] > 0
<1>1. \A m \in Messages : handled[m] > 0 => handled'[m] > 0
  BY InboxStepInv DEF InboxStep, Calling
<1>2. InboxTyped /\ RecordedMeansHandled /\ Booked
  BY DEF InboxInv
<1>3. call[w] # NoCall /\ call[w] \in Calls /\ call[w].id \in Messages
  BY <1>2, SMT DEF Calling, IsProcessedByHandler, HandleMessage, RecordMessage, NoCall, InboxTyped,
              Calls
<1>4. \/ call' = [call EXCEPT ![w] = NoCall]
      \/ \E l \in {"handle", "record"} :
           call' = [call EXCEPT ![w] = [pc |-> l, id |-> call[w].id]]
  BY DEF Calling, IsProcessedByHandler, HandleMessage, RecordMessage, Goto, Return
<1>5. /\ \A v \in Slots \ {w} : call'[v] = call[v]
      /\ call'[w] # NoCall => call'[w].id = call[w].id
  BY <1>2, <1>4, SMT DEF InboxTyped
<1>6. ASSUME call'[w] = NoCall, ok PROVE handled'[call[w].id] > 0
  <2>1. CASE IsProcessedByHandler(w, ok)
    <3>1. handled' = handled
      BY <2>1 DEF IsProcessedByHandler
    <3>2. ASSUME call[w].id \notin recorded PROVE FALSE
      <4>1. call' = [call EXCEPT ![w] = [pc |-> "handle", id |-> call[w].id]]
        BY <1>6, <2>1, <3>2 DEF IsProcessedByHandler, Goto
      <4>2. call'[w].pc = "handle"
        BY <4>1, <1>2 DEF InboxTyped
      <4>3. QED
        BY <1>6, <4>2, SMT DEF NoCall
    <3>3. QED
      BY <1>2, <3>1, <3>2 DEF RecordedMeansHandled
  <2>2. CASE HandleMessage(w, ok)
    <3>1. call' = [call EXCEPT ![w] = [pc |-> "record", id |-> call[w].id]]
      BY <1>6, <2>2 DEF HandleMessage, Goto
    <3>2. call'[w].pc = "record"
      BY <3>1, <1>2 DEF InboxTyped
    <3>3. QED
      BY <1>6, <3>2, SMT DEF NoCall
  <2>3. CASE RecordMessage(w, ok)
    BY <1>2, <2>3 DEF RecordMessage, Booked
  <2>4. QED
    BY <2>1, <2>2, <2>3 DEF Calling
<1>7. QED
  BY <1>1, <1>3, <1>5, <1>6

(* More was handled: what was finished stays so.                           *)
LEMMA FinishedGrows ==
  ASSUME \A m \in Messages : handled[m] > 0 => handled'[m] > 0,
         dlq \subseteq dlq', discarded \subseteq discarded', misacked \subseteq misacked'
  PROVE  Finished \subseteq Finished'
BY DEF Finished

(* Process goes on.                                                        *)
LEMMA GoesOnInv ==
  ASSUME ConsumerInv, InboxInv, NEW w \in Slots, NEW ok \in BOOLEAN, Calling(w, ok),
         call'[w] # NoCall, UNCHANGED <<consumerVars, sourceVars>>, faults' \in 0..MaxFaults
  PROVE  ConsumerInv'
<1>1. UNCHANGED <<brokerVars, loopVars, workVars, logVars, sourceVars>>
  BY DEF consumerVars
<1>2. QueuesTyped' /\ SessionTyped' /\ LoopTyped' /\ WorkTyped' /\ Held' /\ Settling' = Settling
  BY <1>1, Frames DEF brokerVars, loopVars, workVars
<1>3. LogTyped'
  BY <1>1 DEF ConsumerInv, LogTyped, logVars, sourceVars
<1>4. /\ call[w] # NoCall /\ call'[w].id = call[w].id /\ \A v \in Slots \ {w} : call'[v] = call[v]
      /\ \A m \in Messages : handled[m] > 0 => handled'[m] > 0
  BY CallStep
<1>5. CallsMatch'
  BY <1>1, <1>4, MatchKept DEF ConsumerInv, CallsMatch, workVars
<1>6. Acked'
  <2>1. \A v \in Slots : pc[v] = "ack" => job[v].id \in Messages
    BY DEF ConsumerInv, WorkTyped, Deliveries
  <2>2. QED
    BY <1>1, <1>4, <2>1 DEF ConsumerInv, Acked, workVars, logVars
<1>7. Kept'
  <2>1. Finished \subseteq Finished'
    BY <1>1, <1>4, FinishedGrows DEF brokerVars, logVars
  <2>2. QED
    BY <1>1, <1>2, <2>1, KeptQuietly DEF ConsumerInv, brokerVars, loopVars, sourceVars
<1>8. QED
  BY <1>2, <1>3, <1>5, <1>6, <1>7 DEF ConsumerInv

(* Process returns and the worker goes on to l with delivery d.            *)
LEMMA HandledInv ==
  ASSUME ConsumerInv, InboxInv, NEW w \in Slots, NEW ok \in BOOLEAN, Calling(w, ok),
         call'[w] = NoCall, pc[w] \in Handling,
         NEW l \in Labels \ {"handle", "orphan", "settle"}, NEW d \in Deliveries \cup {Nothing},
         pc' = [pc EXCEPT ![w] = l], job' = [job EXCEPT ![w] = d],
         (l = "idle") <=> (d = Nothing),
         l = "retry" => d.attempt + 1 < MaxRetries, l \in Republishing => open,
         d # Nothing => d.own = job[w].own /\ d.tag = job[w].tag /\ d.id = job[w].id,
         l = "ack" => ok \/ job[w].id \in discarded',
         discarded \subseteq discarded', discarded' \subseteq Messages,
         UNCHANGED <<brokerVars, loopVars, misacked, sourceVars>>, faults' \in 0..MaxFaults
  PROVE  ConsumerInv'
<1>1. /\ WorkTyped' /\ pc'[w] = l /\ job'[w] = d /\ Settling' \subseteq Settling
      /\ \A v \in Slots \ {w} : pc'[v] = pc[v] /\ job'[v] = job[v]
  BY OneWorker, ZenonT(30) DEF loopVars
<1>2. QueuesTyped' /\ SessionTyped' /\ LoopTyped'
  BY Frames DEF brokerVars, loopVars
<1>3. LogTyped'
  BY DEF ConsumerInv, LogTyped, sourceVars
<1>4. /\ call[w] # NoCall /\ \A v \in Slots \ {w} : call'[v] = call[v]
      /\ ok => handled'[call[w].id] > 0
      /\ \A m \in Messages : handled[m] > 0 => handled'[m] > 0
  BY CallStep
<1>5. CallsMatch'
  BY <1>1, <1>4, MatchKept DEF Handling
<1>6. Held'
  <2>1. job[w] # Nothing /\ Known(job[w], unacked, nextTag)
    BY DEF ConsumerInv, Held, WorkTyped, Handling
  <2>2. d # Nothing => Known(d, unacked, nextTag)
    BY <2>1 DEF Known
  <2>3. QED
    BY <1>1, <2>2, HeldByWorker DEF brokerVars, loopVars
<1>7. Acked'
  <2>1. call[w].id = job[w].id
    BY <1>4 DEF ConsumerInv, CallsMatch
  <2>2. l = "ack" => handled'[d.id] > 0 \/ d.id \in discarded'
    BY <1>4, <2>1
  <2>3. \A v \in Slots : pc[v] = "ack" =>
          job[v].id \in Messages /\ (handled[job[v].id] > 0 \/ job[v].id \in discarded)
    BY DEF ConsumerInv, WorkTyped, Acked, Deliveries
  <2>4. ASSUME NEW v \in Slots, pc'[v] = "ack"
        PROVE  handled'[job'[v].id] > 0 \/ job'[v].id \in discarded'
    BY <1>1, <1>4, <2>2, <2>3, <2>4
  <2>5. QED
    BY <2>4 DEF Acked
<1>8. Kept'
  <2>1. Finished \subseteq Finished'
    BY <1>4, FinishedGrows DEF brokerVars
  <2>2. QED
    BY <1>1, <2>1, KeptQuietly DEF ConsumerInv, brokerVars, loopVars, sourceVars
<1>9. QED
  BY <1>1, <1>2, <1>3, <1>5, <1>6, <1>7, <1>8 DEF ConsumerInv

LEMMA FaultsTyped ==
  ASSUME faults \in 0..MaxFaults, Fault \/ UNCHANGED faults
  PROVE  faults' \in 0..MaxFaults
BY DeliveryAssumption, SMT DEF Fault

(* A worker starts, its call of Process goes on, or the handler's result is acted on. *)
LEMMA SucceedsInv ==
  ASSUME ConsumerInv, InboxInv, NEW w \in Slots, Calling(w, TRUE), call'[w] = NoCall,
         HandlerSucceeds(w), UNCHANGED sourceVars, faults' \in 0..MaxFaults
  PROVE  ConsumerInv'
<1>1. pc[w] \in Handling /\ UNCHANGED <<brokerVars, loopVars, misacked, discarded>>
  BY DEF HandlerSucceeds, logVars
<1>2. discarded \subseteq discarded' /\ discarded' \subseteq Messages
  BY <1>1 DEF ConsumerInv, LogTyped
<1>3. /\ job[w] \in Deliveries /\ job[w] # Nothing
      /\ {"idle", "ack"} \subseteq Labels \ {"handle", "orphan", "settle"}
      /\ "idle" \notin Republishing /\ "ack" \notin Republishing
  BY <1>1 DEF ConsumerInv, WorkTyped, Labels, Handling, Republishing
<1>4. CASE NothingToDo(w)
  <2>1. pc' = [pc EXCEPT ![w] = "idle"] /\ job' = [job EXCEPT ![w] = Nothing]
    BY <1>4 DEF HandlerSucceeds, Finish
  <2>2. QED
    BY <1>1, <1>2, <1>3, <2>1, HandledInv
<1>5. CASE ~NothingToDo(w)
  <2>1. pc' = [pc EXCEPT ![w] = "ack"] /\ job' = job
    BY <1>5 DEF HandlerSucceeds
  <2>2. job' = [job EXCEPT ![w] = job[w]]
    BY <2>1 DEF ConsumerInv, WorkTyped
  <2>3. QED
    BY <1>1, <1>2, <1>3, <2>1, <2>2, HandledInv
<1>6. QED
  BY <1>4, <1>5

LEMMA FailsInv ==
  ASSUME ConsumerInv, InboxInv, NEW w \in Slots, Calling(w, FALSE), call'[w] = NoCall,
         NEW a \in Actions, HandlerFails(w, a), UNCHANGED sourceVars, faults' \in 0..MaxFaults
  PROVE  ConsumerInv'
<1>1. pc[w] \in Handling /\ UNCHANGED <<brokerVars, loopVars, misacked>>
  BY DEF HandlerFails
<1>2. /\ job[w] \in Deliveries /\ job[w] # Nothing /\ job[w].id \in Messages
      /\ {"idle", "ack", "dead", "retry", "gone"} \subseteq Labels \ {"handle", "orphan", "settle"}
  BY <1>1 DEF ConsumerInv, WorkTyped, Labels, Handling, Deliveries
<1>3. CASE NothingToDo(w)
  <2>1. /\ pc' = [pc EXCEPT ![w] = "idle"] /\ job' = [job EXCEPT ![w] = Nothing]
        /\ discarded' = discarded
    BY <1>3 DEF HandlerFails, Finish
  <2>2. discarded \subseteq discarded' /\ discarded' \subseteq Messages
        /\ "idle" \notin Republishing
    BY <2>1 DEF ConsumerInv, LogTyped, Republishing
  <2>3. QED
    BY <1>1, <1>2, <2>1, <2>2, HandledInv
<1>4. CASE ~NothingToDo(w)
  <2> DEFINE d == [job[w] EXCEPT !.pause = (a = "pause")]
             l == CASE a = "discard" -> "ack"
                    [] a = "deadLetter" /\ open -> "dead"
                    [] a \in {"retry", "pause"} /\ open ->
                         IF job[w].attempt + 1 >= MaxRetries THEN "dead" ELSE "retry"
                    [] a # "discard" /\ ~open -> "gone"
  <2>1. pc' = [pc EXCEPT ![w] = l]
    BY <1>4 DEF HandlerFails
  <2>2. /\ job' = [job EXCEPT ![w] = d]
        /\ discarded' = IF a = "discard" THEN discarded \cup {job[w].id} ELSE discarded
    BY <1>4 DEF HandlerFails
  <2>3. /\ d \in Deliveries /\ d.own = job[w].own /\ d.id = job[w].id /\ d.tag = job[w].tag
        /\ d.attempt = job[w].attempt
    <3>1. (a = "pause") \in BOOLEAN
      OBVIOUS
    <3>2. QED
      BY <1>2, <3>1, PauseTyped
  <2>4. /\ l \in {"ack", "dead", "retry", "gone"}
        /\ l = "retry" => job[w].attempt + 1 < MaxRetries
        /\ l = "ack" => a = "discard"
        /\ l \in {"dead", "retry"} => open
    <3>1. /\ open \in BOOLEAN
          /\ ~(job[w].attempt + 1 >= MaxRetries) => job[w].attempt + 1 < MaxRetries
      BY <1>2, ConsumerAssumption, SMT DEF Deliveries, ConsumerInv, SessionTyped
    <3>2. CASE a = "discard"
      BY <3>2
    <3>3. CASE a = "deadLetter"
      BY <3>1, <3>3
    <3>4. CASE a \in {"retry", "pause"}
      BY <3>1, <3>4
    <3>5. QED
      BY <3>2, <3>3, <3>4 DEF Actions
  <2> HIDE DEF d, l
  <2>5. d # Nothing
    BY <2>3, DeliveryIsSome
  <2>6. /\ l = "ack" => job[w].id \in discarded'
        /\ discarded \subseteq discarded' /\ discarded' \subseteq Messages
    BY <1>2, <2>2, <2>4 DEF ConsumerInv, LogTyped
  <2>7. /\ l \in Labels \ {"handle", "orphan", "settle"} /\ d \in Deliveries \cup {Nothing}
        /\ ((l = "idle") <=> (d = Nothing))
        /\ l = "retry" => d.attempt + 1 < MaxRetries
        /\ l \in Republishing => open
    <3>1. l \in Labels \ {"handle", "orphan", "settle"} /\ ((l = "idle") <=> (d = Nothing))
      BY <1>2, <2>4, <2>5
    <3>2. l = "retry" => d.attempt + 1 < MaxRetries
      BY <2>3, <2>4
    <3>3. l \in Republishing => open
      BY <2>4 DEF Republishing
    <3>4. QED
      BY <2>3, <3>1, <3>2, <3>3
  <2>8. QED
    BY <1>1, <2>1, <2>2, <2>3, <2>6, <2>7, HandledInv
<1>5. QED
  BY <1>3, <1>4

LEMMA WorkInv ==
  ASSUME ConsumerInv, InboxInv, NEW w \in Slots, Work(w)
  PROVE  ConsumerInv'
<1>1. UNCHANGED sourceVars /\ faults \in 0..MaxFaults
  BY DEF Work, ConsumerInv, LogTyped
<1>2. CASE StartWorker(w) /\ Process(w, hand.id) /\ UNCHANGED faults
  BY <1>1, <1>2, StartWorkerInv DEF InboxInv
<1>3. ASSUME NEW ok \in BOOLEAN, Calling(w, ok), Outcome(ok),
             CASE call'[w] # NoCall -> UNCHANGED consumerVars
               [] call'[w] = NoCall /\ ok -> HandlerSucceeds(w)
               [] call'[w] = NoCall /\ ~ok -> \E a \in Actions : HandlerFails(w, a)
      PROVE  ConsumerInv'
  <2>1. faults' \in 0..MaxFaults
    BY <1>1, <1>3, FaultsTyped DEF Outcome
  <2>2. CASE call'[w] # NoCall
    BY <1>1, <1>3, <2>1, <2>2, GoesOnInv
  <2>3. CASE call'[w] = NoCall /\ ok
    <3>1. ok = TRUE
      BY <2>3
    <3>2. HandlerSucceeds(w)
      BY <1>3, <2>3
    <3>3. Calling(w, TRUE)
      BY <1>3, <3>1
    <3>4. QED
      BY <1>1, <2>1, <2>3, <3>2, <3>3, SucceedsInv
  <2>4. CASE call'[w] = NoCall /\ ~ok
    <3>1. ok = FALSE
      BY <2>4
    <3>2. PICK a \in Actions : HandlerFails(w, a)
      BY <1>3, <2>4
    <3>3. Calling(w, FALSE)
      BY <1>3, <3>1
    <3>4. QED
      BY <1>1, <2>1, <2>4, <3>2, <3>3, FailsInv
  <2>5. QED
    BY <2>2, <2>3, <2>4
<1>4. QED
  BY <1>2, <1>3 DEF Work, Calling

(* A worker ends and leaves everything else alone, but for the pause.      *)
LEMMA FinishInv ==
  ASSUME ConsumerInv, NEW w \in Slots, Finish(w), pc[w] \notin Handling, paused' \in BOOLEAN,
         UNCHANGED <<brokerVars, autoAck, sub, open, buffer, hand, waits, logVars, inboxVars,
                     sourceVars, faults>>
  PROVE  ConsumerInv'
<1>1. /\ WorkTyped' /\ pc'[w] = "idle" /\ job'[w] = Nothing
      /\ \A v \in Slots \ {w} : pc'[v] = pc[v] /\ job'[v] = job[v]
      /\ Settling' \subseteq Settling
  BY FinishWorker
<1>2. QueuesTyped' /\ SessionTyped' /\ LogTyped' /\ Finished' = Finished
  BY Frames DEF brokerVars, logVars, inboxVars, sourceVars
<1>3. LoopTyped'
  BY SMT DEF ConsumerInv, LoopTyped
<1>4. CallsMatch'
  <2>1. call'[w] = NoCall /\ \A v \in Slots \ {w} : call'[v] = call[v]
    BY DEF ConsumerInv, CallsMatch, inboxVars
  <2>2. QED
    BY <1>1, <2>1, MatchKept DEF Handling
<1>5. Held'
  BY <1>1, HeldByWorker DEF brokerVars
<1>6. Acked'
  BY <1>1 DEF ConsumerInv, Acked, logVars, inboxVars
<1>7. Kept'
  BY <1>1, <1>2, KeptQuietly DEF ConsumerInv, brokerVars, sourceVars
<1>8. QED
  BY <1>1, <1>2, <1>3, <1>4, <1>5, <1>6, <1>7 DEF ConsumerInv

(* retryMessage and deadLetterMessage publish the copy.                    *)
LEMMA RepublishInv ==
  ASSUME ConsumerInv, NEW w \in Slots, Republish(w), UNCHANGED <<inboxVars, sourceVars, faults>>
  PROVE  ConsumerInv'
<1>1. pc[w] \in {"retry", "dead"} /\ UNCHANGED <<ready, unacked, nextTag, loopVars, job, logVars>>
  BY DEF Republish
<1>2. open
  BY <1>1 DEF ConsumerInv, WorkTyped, Republishing
<1>3. ConsumerInv'
  <2> DEFINE d == job[w]
             x == [id |-> d.id, attempt |-> d.attempt + 1]
  <2>1. /\ pc[w] = "dead" => dlq' = dlq \cup {d.id} /\ retryQueue' = retryQueue
        /\ pc[w] = "retry" => retryQueue' = Append(retryQueue, x) /\ dlq' = dlq
        /\ pc' = [pc EXCEPT ![w] = "settle"] /\ UNCHANGED job
    BY <1>1 DEF Republish
  <2>2. d \in Deliveries /\ d # Nothing /\ d.id \in Messages /\ Known(d, unacked, nextTag)
    BY <1>1 DEF ConsumerInv, WorkTyped, Held, Deliveries
  <2>3. pc[w] = "retry" => x \in Queued
    BY <2>2, ConsumerAssumption, SMT DEF ConsumerInv, WorkTyped, Deliveries, Queued
  <2>4. x.id = d.id
    OBVIOUS
  <2> HIDE DEF x
  <2>5. /\ WorkTyped' /\ pc'[w] = "settle"
        /\ \A v \in Slots \ {w} : pc'[v] = pc[v]
    <3>1. /\ "settle" \in Labels /\ d \in Deliveries \cup {Nothing}
          /\ job' = [job EXCEPT ![w] = d]
      BY <2>1, <2>2 DEF ConsumerInv, WorkTyped, Labels
    <3>2. pc' = [pc EXCEPT ![w] = "settle"] /\ d # Nothing /\ open' = open
      BY <1>1, <2>1, <2>2 DEF loopVars
    <3> HIDE DEF d
    <3>3. QED
      BY <1>2, <3>1, <3>2, OneWorker
  <2>6. QueuesTyped'
    <3> HIDE DEF d
    <3>1. QueuesTyped /\ ready' = ready
      BY <1>1 DEF ConsumerInv
    <3>2. CASE pc[w] = "dead"
      BY <2>1, <2>2, <3>1, <3>2, SMT DEF QueuesTyped
    <3>3. CASE pc[w] = "retry"
      <4>1. retryQueue' = Append(retryQueue, x) /\ dlq' = dlq /\ x \in Queued
        BY <2>1, <2>3, <3>3
      <4>2. retryQueue' \in Seq(Queued)
        BY <3>1, <4>1, SMT DEF QueuesTyped
      <4>3. QED
        BY <3>1, <4>1, <4>2 DEF QueuesTyped
    <3>4. QED
      BY <1>1, <3>2, <3>3
  <2>7. SessionTyped' /\ LoopTyped' /\ LogTyped' /\ Held'
    BY <1>1, <2>1, Frames DEF loopVars, logVars, sourceVars
  <2>8. CallsMatch'
    <3>1. call[w] = NoCall /\ call' = call
      BY <1>1 DEF ConsumerInv, CallsMatch, inboxVars, Handling
    <3>2. QED
      BY <2>1, <2>5, <3>1, MatchKept DEF Handling
  <2>9. Acked'
    BY <1>1, <2>1, <2>5 DEF ConsumerInv, Acked, logVars, inboxVars
  <2>10. Kept'
    <3> SUFFICES ASSUME NEW n \in Messages, Covered(n)
                 PROVE  Covered(n)'
      BY <1>1 DEF ConsumerInv, Kept, sourceVars, loopVars
    <3>1. Finished \subseteq Finished' /\ (pc[w] = "dead" => d.id \in Finished')
      BY <1>1, <2>1 DEF Finished, logVars, inboxVars
    <3>2. In(n, retryQueue) => In(n, retryQueue')
      <4>1. retryQueue \in Seq(Queued)
        BY DEF ConsumerInv, QueuesTyped
      <4>2. QED
        BY <1>1, <2>1, <4>1, InAppend
    <3>3. pc[w] = "retry" => In(d.id, retryQueue')
      <4>1. retryQueue \in Seq(Queued)
        BY DEF ConsumerInv, QueuesTyped
      <4>2. QED
        BY <2>1, <2>4, <4>1, InAppend
    <3>4. ASSUME NEW t \in Settling' PROVE t \in Settling \/ (d.own /\ t = d.tag)
      BY <2>1, <2>5 DEF Settling
    <3>5. ASSUME NEW i \in DOMAIN unacked, unacked[i].id = n, unacked[i].tag \notin Settling,
                 unacked[i].tag \in Settling'
          PROVE  n = d.id
      <4>1. d.own /\ unacked[i].tag = d.tag
        BY <3>4, <3>5
      <4>2. QED
        BY <2>2, <3>5, <4>1 DEF Known
    <3>6. d.id = n => In(n, retryQueue') \/ n \in Finished'
      BY <1>1, <3>1, <3>3
    <3>7. QED
      BY <1>1, <3>1, <3>2, <3>5, <3>6 DEF Covered
  <2>11. QED
    BY <2>5, <2>6, <2>7, <2>8, <2>9, <2>10 DEF ConsumerInv
<1>4. QED
  BY <1>3

(* They cannot, and send a Nack.                                           *)
LEMMA RepublishFailsInv ==
  ASSUME ConsumerInv, NEW w \in Slots, RepublishFails(w), UNCHANGED <<inboxVars, sourceVars>>,
         faults' \in 0..MaxFaults
  PROVE  ConsumerInv'
<1>1. /\ pc[w] \in {"retry", "dead"} /\ pc' = [pc EXCEPT ![w] = "nack"]
      /\ UNCHANGED <<brokerVars, loopVars, job, logVars>>
  BY DEF RepublishFails
<1>2. /\ open /\ open' = open /\ job[w] \in Deliveries /\ job[w] # Nothing /\ "nack" \in Labels
      /\ job' = [job EXCEPT ![w] = job[w]]
  BY <1>1 DEF ConsumerInv, WorkTyped, Republishing, loopVars, Labels
<1>3. /\ WorkTyped' /\ pc'[w] = "nack" /\ Settling' \subseteq Settling
      /\ \A v \in Slots \ {w} : pc'[v] = pc[v]
  <2> DEFINE d == job[w]
  <2>1. /\ d \in Deliveries \cup {Nothing} /\ d # Nothing
        /\ pc' = [pc EXCEPT ![w] = "nack"] /\ job' = [job EXCEPT ![w] = d]
        /\ "nack" \in Labels /\ open /\ open' = open
    BY <1>1, <1>2
  <2> HIDE DEF d
  <2>2. /\ WorkTyped' /\ pc'[w] = "nack"
        /\ \A v \in Slots \ {w} : pc'[v] = pc[v] /\ job'[v] = job[v]
        /\ "nack" # "settle" => Settling' \subseteq Settling
    BY <2>1, OneWorker
  <2>3. QED
    BY <2>2
<1>4. QueuesTyped' /\ SessionTyped' /\ LoopTyped' /\ Held' /\ Finished' = Finished
  BY <1>1, Frames DEF brokerVars, loopVars, logVars, inboxVars, sourceVars
<1>5. LogTyped'
  BY <1>1 DEF ConsumerInv, LogTyped, logVars, sourceVars
<1>6. CallsMatch'
  <2>1. call[w] = NoCall /\ call' = call
    BY <1>1 DEF ConsumerInv, CallsMatch, inboxVars, Handling
  <2>2. QED
    BY <1>1, <1>3, <2>1, MatchKept DEF Handling
<1>7. Acked'
  BY <1>1, <1>3 DEF ConsumerInv, Acked, logVars, inboxVars
<1>8. Kept'
  BY <1>1, <1>3, <1>4, KeptQuietly DEF ConsumerInv, brokerVars, loopVars, sourceVars
<1>9. QED
  BY <1>3, <1>4, <1>5, <1>6, <1>7, <1>8 DEF ConsumerInv

(* The session ends: what waited for an acknowledgment is back in the queue, and      *)
(* nobody holds a delivery of the session.                                            *)
Released(w) == job'[w] = Nothing /\ pc'[w] = "idle" /\ call'[w] = NoCall
Stranded(w) == /\ job[w] # Nothing /\ job'[w] = Disown(job[w])
               /\ pc'[w] \in Labels \ ({"idle"} \cup Republishing)
               /\ pc'[w] \in Handling <=> pc[w] \in Handling
               /\ pc'[w] = "ack" => pc[w] = "ack"
               /\ call'[w] = call[w]

LEMMA EndsInv ==
  ASSUME ConsumerInv, SessionEnds, DOMAIN job' = Slots, DOMAIN pc' = Slots,
         job' = [w \in Slots |-> job'[w]], pc' = [w \in Slots |-> pc'[w]],
         \A w \in Slots : Released(w) \/ Stranded(w),
         hand' \in {Nothing, Disown(hand)}, sub' \in {"off", "on", "cancelled", "left"},
         paused' \in BOOLEAN, faults' \in 0..MaxFaults,
         waits' => waits /\ sub' = sub,
         UNCHANGED <<autoAck, retryQueue, dlq, logVars, handled, sourceVars>>
  PROVE  ConsumerInv'
<1> DEFINE back == [i \in DOMAIN unacked |-> Content(unacked[i])]
<1>1. /\ open' = FALSE /\ ready' = back \o ready /\ unacked' = <<>> /\ buffer' = <<>>
      /\ nextTag' = 1
  BY DEF SessionEnds
<1>2. /\ back \in Seq(Queued) /\ DOMAIN back = DOMAIN unacked
      /\ \A i \in DOMAIN unacked : back[i].id = unacked[i].id
  <2>1. unacked \in Seq(Deliveries)
    BY DEF ConsumerInv, SessionTyped
  <2>2. \A i \in DOMAIN unacked : /\ Content(unacked[i]) \in Queued
                                  /\ Content(unacked[i]).id = unacked[i].id
    <3>1. ASSUME NEW d \in Deliveries PROVE Content(d) \in Queued /\ Content(d).id = d.id
      BY DEF Content, Deliveries, Queued
    <3>2. \A i \in DOMAIN unacked : unacked[i] \in Deliveries
      BY <2>1, SMT
    <3>3. QED
      BY <3>1, <3>2
  <2>3. back \in [1..Len(unacked) -> Queued] /\ DOMAIN unacked = 1..Len(unacked)
        /\ Len(unacked) \in Nat
    BY <2>1, <2>2, SMT
  <2>4. QED
    BY <2>2, <2>3, SeqDef, SMT
<1> HIDE DEF back
<1>3. QueuesTyped'
  BY <1>1, <1>2, ConcatProperties DEF ConsumerInv, QueuesTyped
<1>4. SessionTyped'
  <2>1. <<>> \in Seq(Deliveries) /\ DOMAIN <<>> = {} /\ 1 \in Nat \ {0}
    BY SMT
  <2>2. /\ nextTag' \in Nat \ {0} /\ open' \in BOOLEAN
        /\ unacked' \in Seq(Deliveries) /\ buffer' \in Seq(Deliveries)
        /\ DOMAIN unacked' = {}
    BY <1>1, <2>1
  <2>3. QED
    BY <1>1, <2>2 DEF SessionTyped
<1>5. hand' \in Deliveries \cup {Nothing} /\ (hand' # Nothing => ~hand'.own)
  <2>1. hand \in Deliveries \cup {Nothing} /\ Disown(Nothing) = Nothing
    BY DEF ConsumerInv, LoopTyped, Disown
  <2>2. QED
    BY <2>1, DisownTyped
<1>6. LoopTyped'
  <2>1. waits' => hand' = Nothing /\ sub' \in {"on", "cancelled"}
    BY DEF ConsumerInv, LoopTyped, Disown
  <2>2. QED
    BY <1>1, <1>5, <2>1 DEF ConsumerInv, LoopTyped
<1>7. ASSUME NEW w \in Slots, Stranded(w)
      PROVE  /\ job[w] \in Deliveries /\ job'[w] \in Deliveries /\ job'[w] # Nothing
             /\ job'[w].own = FALSE /\ job'[w].id = job[w].id
             /\ pc'[w] \in Labels /\ pc'[w] # "idle" /\ pc'[w] \notin Republishing
  <2>1. job[w] \in Deliveries /\ job'[w] = Disown(job[w])
    BY <1>7 DEF Stranded, ConsumerInv, WorkTyped
  <2>2. pc'[w] \in Labels /\ pc'[w] # "idle" /\ pc'[w] \notin Republishing
    BY <1>7 DEF Stranded
  <2>3. QED
    BY <2>1, <2>2, DisownTyped
<1>8. WorkTyped'
  <2>1. ASSUME NEW w \in Slots
        PROVE  /\ pc'[w] \in Labels /\ job'[w] \in Deliveries \cup {Nothing}
               /\ (pc'[w] = "idle") <=> (job'[w] = Nothing)
               /\ pc'[w] \notin Republishing
    <3>1. CASE Released(w)
      BY <3>1 DEF Released, Labels, Republishing
    <3>2. CASE Stranded(w)
      BY <3>2, <1>7
    <3>3. QED
      BY <3>1, <3>2
  <2>2. pc' \in [Slots -> Labels] /\ job' \in [Slots -> Deliveries \cup {Nothing}]
    BY <2>1
  <2>3. QED
    BY <2>1, <2>2 DEF WorkTyped, Republishing
<1>9. LogTyped'
  BY DEF ConsumerInv, LogTyped, logVars, sourceVars
<1>10. CallsMatch'
  <2>1. ASSUME NEW w \in Slots
        PROVE  /\ (pc'[w] \in Handling) <=> (call'[w] # NoCall)
               /\ call'[w] # NoCall => call'[w].id = job'[w].id
    <3>1. CASE Released(w)
      BY <3>1 DEF Released, Handling
    <3>2. CASE Stranded(w)
      BY <3>2, <1>7 DEF Stranded, ConsumerInv, CallsMatch
    <3>3. QED
      BY <3>1, <3>2
  <2>2. QED
    BY <2>1 DEF CallsMatch
<1>11. Held'
  <2>1. \A w \in Slots : job'[w] # Nothing => ~job'[w].own
    BY <1>7 DEF Released
  <2>2. QED
    BY <1>1, <1>5, <2>1, SMT DEF Held, Known
<1>12. Acked'
  <2>1. ASSUME NEW w \in Slots, pc'[w] = "ack"
        PROVE  pc[w] = "ack" /\ job'[w].id = job[w].id
    BY <1>7, <2>1 DEF Released, Stranded
  <2>2. QED
    BY <2>1 DEF ConsumerInv, Acked, logVars
<1>13. Kept'
  <2> SUFFICES ASSUME NEW n \in Messages, Covered(n)
               PROVE  Covered(n)'
    BY DEF ConsumerInv, Kept, sourceVars
  <2>1. Finished' = Finished
    BY DEF Finished, logVars
  <2>2. ready \in Seq(Queued)
    BY DEF ConsumerInv, QueuesTyped
  <2>3. In(n, ready) \/ In(n, back) => In(n, ready')
    BY <1>1, <1>2, <2>2, InConcat
  <2>4. ASSUME NEW i \in DOMAIN unacked, unacked[i].id = n PROVE In(n, back)
    BY <1>2, <2>4 DEF In
  <2>5. QED
    BY <2>1, <2>3, <2>4 DEF Covered
<1>14. QED
  BY <1>3, <1>4, <1>6, <1>8, <1>9, <1>10, <1>11, <1>12, <1>13 DEF ConsumerInv

(* A worker that keeps its place, but for the session.                     *)
LEMMA CutOffStrands ==
  ASSUME ConsumerInv, NEW w \in Slots, job'[w] = Disown(job[w]), pc'[w] = CutOff(pc[w]),
         call'[w] = call[w]
  PROVE  Released(w) \/ Stranded(w)
<1>1. CASE job[w] = Nothing
  <2>1. pc[w] = "idle" /\ call[w] = NoCall
    BY <1>1 DEF ConsumerInv, WorkTyped, CallsMatch, Handling
  <2>2. Disown(job[w]) = Nothing /\ CutOff("idle") = "idle"
    BY <1>1 DEF Disown, CutOff, Republishing
  <2>3. QED
    BY <2>1, <2>2 DEF Released
<1>2. CASE job[w] # Nothing
  <2>1. pc[w] \in Labels \ {"idle"}
    BY <1>2 DEF ConsumerInv, WorkTyped
  <2>2. CASE pc[w] \in Republishing
    BY <1>2, <2>2 DEF Stranded, CutOff, Republishing, Labels, Handling
  <2>3. CASE pc[w] \notin Republishing
    BY <1>2, <2>1, <2>3 DEF Stranded, CutOff
  <2>4. QED
    BY <2>2, <2>3
<1>3. QED
  BY <1>1, <1>2

(* The session of every worker is gone.                                    *)
LEMMA StrandedAll ==
  ASSUME ConsumerInv, Strand, call' = call
  PROVE  /\ DOMAIN job' = Slots /\ DOMAIN pc' = Slots
         /\ job' = [w \in Slots |-> job'[w]] /\ pc' = [w \in Slots |-> pc'[w]]
         /\ \A w \in Slots : Released(w) \/ Stranded(w)
<1>1. /\ job' = [w \in Slots |-> Disown(job[w])]
      /\ pc' = [w \in Slots |-> CutOff(pc[w])]
  BY DEF Strand
<1>2. ASSUME NEW w \in Slots PROVE Released(w) \/ Stranded(w)
  BY <1>1, CutOffStrands
<1>3. /\ DOMAIN job' = Slots /\ DOMAIN pc' = Slots
      /\ job' = [w \in Slots |-> job'[w]] /\ pc' = [w \in Slots |-> pc'[w]]
  BY <1>1
<1>4. QED
  BY <1>2, <1>3

LEMMA LoseSessionInv ==
  ASSUME ConsumerInv, LoseSession, UNCHANGED <<inboxVars, sourceVars>>, faults' \in 0..MaxFaults
  PROVE  ConsumerInv'
<1>1. /\ SessionEnds /\ Strand /\ hand' = Disown(hand)
      /\ UNCHANGED <<autoAck, retryQueue, dlq, sub, paused, waits, logVars>>
  BY DEF LoseSession
<1>2. sub' \in {"off", "on", "cancelled", "left"} /\ paused' \in BOOLEAN
  BY <1>1 DEF ConsumerInv, LoopTyped
<1>3. UNCHANGED <<call, handled>>
  BY DEF inboxVars
<1>4. QED
  BY <1>1, <1>2, <1>3, StrandedAll, EndsInv

(* The loop leaves; the handlers that run are on their own.                *)
LEMMA LoopLeavesInv ==
  ASSUME ConsumerInv, LoopLeaves, UNCHANGED <<inboxVars, sourceVars, faults>>
  PROVE  ConsumerInv'
<1>1. /\ sub' = "left" /\ hand' = Nothing /\ waits' = FALSE /\ SessionEnds
      /\ job' = [w \in Slots |-> IF pc[w] \in Handling THEN Disown(job[w]) ELSE Nothing]
      /\ pc' = [w \in Slots |-> IF pc[w] \in Handling THEN "orphan" ELSE "idle"]
      /\ UNCHANGED <<autoAck, retryQueue, dlq, paused, logVars>>
  BY DEF LoopLeaves
<1>2. UNCHANGED <<call, handled>> /\ paused' \in BOOLEAN /\ faults' \in 0..MaxFaults
  BY <1>1 DEF inboxVars, ConsumerInv, LoopTyped, LogTyped
<1>3. ASSUME NEW w \in Slots PROVE Released(w) \/ Stranded(w)
  <2>1. CASE pc[w] \in Handling
    <3>1. job[w] # Nothing
      BY <2>1 DEF ConsumerInv, WorkTyped, Handling
    <3>2. pc'[w] = "orphan" /\ job'[w] = Disown(job[w]) /\ call'[w] = call[w]
      BY <1>1, <1>2, <2>1
    <3>3. QED
      BY <2>1, <3>1, <3>2 DEF Stranded, Labels, Republishing, Handling
  <2>2. CASE pc[w] \notin Handling
    BY <1>1, <1>2, <2>2 DEF Released, ConsumerInv, CallsMatch
  <2>3. QED
    BY <2>1, <2>2
<1>4. /\ DOMAIN job' = Slots /\ DOMAIN pc' = Slots
      /\ job' = [w \in Slots |-> job'[w]] /\ pc' = [w \in Slots |-> pc'[w]]
  BY <1>1
<1>5. QED
  BY <1>1, <1>2, <1>3, <1>4, EndsInv

LEMMA ConsumerCrashInv ==
  ASSUME ConsumerInv, ConsumerCrash, InboxCrash, UNCHANGED sourceVars, faults' \in 0..MaxFaults
  PROVE  ConsumerInv'
<1>1. /\ SessionEnds /\ sub' = "off" /\ hand' = Nothing /\ paused' = FALSE /\ waits' = FALSE
      /\ job' = [w \in Slots |-> Nothing] /\ pc' = [w \in Slots |-> "idle"]
      /\ UNCHANGED <<autoAck, retryQueue, dlq, logVars>>
  BY DEF ConsumerCrash
<1>2. call' = [w \in Slots |-> NoCall] /\ handled' = handled
  BY DEF InboxCrash
<1>3. /\ DOMAIN job' = Slots /\ DOMAIN pc' = Slots
      /\ job' = [w \in Slots |-> job'[w]] /\ pc' = [w \in Slots |-> pc'[w]]
      /\ \A w \in Slots : Released(w)
  BY <1>1, <1>2 DEF Released
<1>4. /\ sub' \in {"off", "on", "cancelled", "left"} /\ paused' \in BOOLEAN
      /\ hand' \in {Nothing, Disown(hand)}
  BY <1>1
<1>5. QED
  BY <1>1, <1>2, <1>3, <1>4, EndsInv

(* The answer to a tag that waits for it: it was this worker's delivery and something  *)
(* was done with it, or another delivery, which is noted; or the message is back.      *)
LEMMA AnswerHitInv ==
  ASSUME ConsumerInv, NEW w \in Slots, NEW requeue \in BOOLEAN,
         IF requeue THEN pc[w] = "nack" ELSE pc[w] \in {"ack", "settle"},
         NEW i \in DOMAIN unacked, unacked[i].tag = job[w].tag,
         unacked' = Without(unacked, i),
         ready' = IF requeue THEN <<Content(unacked[i])>> \o ready ELSE ready,
         misacked' = IF requeue \/ job[w].own THEN misacked ELSE misacked \cup {unacked[i].id},
         Finish(w), paused' \in BOOLEAN, open,
         UNCHANGED <<nextTag, open, buffer, hand, autoAck, retryQueue, dlq, sub, waits, discarded,
                     inboxVars, sourceVars, faults>>
  PROVE  ConsumerInv'
<1>1. /\ unacked \in Seq(Deliveries) /\ unacked[i] \in Deliveries /\ unacked[i].id \in Messages
      /\ job[w] # Nothing /\ Known(job[w], unacked, nextTag)
  <2>1. unacked \in Seq(Deliveries) /\ unacked[i] \in Deliveries
    BY SMT DEF ConsumerInv, SessionTyped
  <2>2. unacked[i].id \in Messages
    BY <2>1 DEF Deliveries
  <2>3. job[w] # Nothing
    BY DEF ConsumerInv, WorkTyped
  <2>4. QED
    BY <2>1, <2>2, <2>3 DEF ConsumerInv, Held
<1>2. /\ WorkTyped' /\ pc'[w] = "idle" /\ job'[w] = Nothing
      /\ \A v \in Slots \ {w} : pc'[v] = pc[v] /\ job'[v] = job[v]
      /\ Settling' \subseteq Settling
  BY FinishWorker
<1>3. /\ unacked' \in Seq(Deliveries)
      /\ \A j \in DOMAIN unacked' : \E k \in DOMAIN unacked : unacked'[j] = unacked[k]
      /\ \A k \in DOMAIN unacked \ {i} : \E j \in DOMAIN unacked' : unacked'[j] = unacked[k]
  BY <1>1, WithoutOne
<1>4. /\ QueuesTyped' /\ \A n : In(n, ready) => In(n, ready')
      /\ requeue => In(unacked[i].id, ready')
  <2> DEFINE x == Content(unacked[i])  q == <<x>>
  <2>1. x \in Queued /\ x.id = unacked[i].id
    BY <1>1 DEF Content, Queued, Deliveries
  <2> HIDE DEF x
  <2>2. q \in Seq(Queued) /\ 1 \in DOMAIN q /\ q[1] = x /\ ready \in Seq(Queued)
    BY <2>1, SMT DEF ConsumerInv, QueuesTyped
  <2>3. In(unacked[i].id, q)
    BY <2>1, <2>2 DEF In
  <2> HIDE DEF q
  <2>4. ready' = (IF requeue THEN q \o ready ELSE ready)
    BY DEF q, x
  <2>5. ready' \in Seq(Queued)
    BY <2>2, <2>4, ConcatProperties
  <2>6. QED
    BY <2>2, <2>3, <2>4, <2>5, InConcat DEF ConsumerInv, QueuesTyped
<1>5. SessionTyped'
  <2>1. \A j \in DOMAIN unacked' : unacked'[j].own /\ unacked'[j].tag < nextTag
    BY <1>3 DEF ConsumerInv, SessionTyped
  <2>2. QED
    BY <1>3, <2>1 DEF ConsumerInv, SessionTyped
<1>6. LoopTyped' /\ LogTyped'
  BY <1>1, SMT DEF ConsumerInv, LoopTyped, LogTyped, sourceVars
<1>7. CallsMatch'
  <2>1. call'[w] = NoCall /\ \A v \in Slots \ {w} : call'[v] = call[v]
    BY DEF ConsumerInv, CallsMatch, inboxVars, Handling
  <2>2. QED
    BY <1>2, <2>1, MatchKept DEF Handling
<1>8. Held'
  <2>1. ASSUME NEW d, Known(d, unacked, nextTag)
        PROVE  Known(d, unacked', nextTag')
    BY <1>1, <2>1, KnownWithout
  <2>2. \A v \in Slots : job'[v] # Nothing => Known(job'[v], unacked', nextTag')
    BY <1>2, <2>1 DEF ConsumerInv, Held
  <2>3. QED
    BY <2>1, <2>2 DEF ConsumerInv, Held
<1>9. Acked'
  BY <1>2 DEF ConsumerInv, Acked, inboxVars
<1>10. Kept'
  <2> SUFFICES ASSUME NEW n \in Messages, Covered(n)
               PROVE  Covered(n)'
    BY DEF ConsumerInv, Kept, sourceVars
  <2>1. Finished \subseteq Finished'
    BY DEF Finished, inboxVars
  <2>2. unacked[i].tag \notin Settling /\ ~requeue => unacked[i].id \in Finished'
    <3>1. CASE requeue \/ ~job[w].own
      BY <3>1 DEF Finished
    <3>2. CASE ~requeue /\ job[w].own /\ pc[w] = "settle"
      BY <3>2 DEF Settling
    <3>3. CASE ~requeue /\ job[w].own /\ pc[w] = "ack"
      <4>1. unacked[i].id = job[w].id
        BY <1>1, <3>3 DEF Known
      <4>2. job[w].id \in Finished
        BY <1>1, <3>3, <4>1 DEF ConsumerInv, Acked, Finished
      <4>3. QED
        BY <2>1, <4>1, <4>2
    <3>4. QED
      BY <3>1, <3>2, <3>3
  <2>3. ASSUME NEW k \in DOMAIN unacked, unacked[k].id = n, unacked[k].tag \notin Settling
        PROVE  Covered(n)'
    <3>1. CASE k = i
      BY <1>4, <2>2, <2>3, <3>1 DEF Covered
    <3>2. CASE k # i
      <4>1. PICK j \in DOMAIN unacked' : unacked'[j] = unacked[k]
        BY <1>3, <3>2
      <4>2. unacked'[j].id = n /\ unacked'[j].tag \notin Settling'
        BY <1>2, <2>3, <4>1
      <4>3. QED
        BY <4>2 DEF Covered
    <3>3. QED
      BY <3>1, <3>2
  <2>4. QED
    BY <1>4, <2>1, <2>3 DEF Covered
<1>11. QED
  BY <1>2, <1>4, <1>5, <1>6, <1>7, <1>8, <1>9, <1>10 DEF ConsumerInv

(* The answer to a tag that is not known closes the session.               *)
LEMMA AnswerUnknownInv ==
  ASSUME ConsumerInv, NEW w \in Slots, pc[w] \in {"ack", "settle", "nack"}, SessionEnds,
         hand' = Disown(hand),
         job' = [v \in Slots |-> IF v = w THEN Nothing ELSE Disown(job[v])],
         pc' = [v \in Slots |-> IF v = w THEN "idle" ELSE CutOff(pc[v])],
         paused' \in BOOLEAN,
         UNCHANGED <<misacked, autoAck, retryQueue, dlq, sub, waits, discarded, inboxVars,
                     sourceVars, faults>>
  PROVE  ConsumerInv'
<1>1. UNCHANGED <<call, handled, logVars>> /\ call[w] = NoCall
  BY DEF inboxVars, logVars, ConsumerInv, CallsMatch, Handling
<1>2. ASSUME NEW v \in Slots PROVE Released(v) \/ Stranded(v)
  <2>1. CASE v = w
    <3>1. pc'[w] = "idle" /\ job'[w] = Nothing
      OBVIOUS
    <3>2. QED
      BY <1>1, <2>1, <3>1 DEF Released
  <2>2. CASE v # w
    <3>1. job'[v] = Disown(job[v]) /\ call'[v] = call[v] /\ pc'[v] = CutOff(pc[v])
      BY <1>1, <2>2
    <3>2. QED
      BY <3>1, CutOffStrands
  <2>3. QED
    BY <2>1, <2>2
<1>3. /\ DOMAIN job' = Slots /\ DOMAIN pc' = Slots
      /\ job' = [v \in Slots |-> job'[v]] /\ pc' = [v \in Slots |-> pc'[v]]
  OBVIOUS
<1>4. /\ sub' \in {"off", "on", "cancelled", "left"} /\ faults' \in 0..MaxFaults
      /\ hand' \in {Nothing, Disown(hand)}
  BY DEF ConsumerInv, LoopTyped, LogTyped
<1>5. QED
  BY <1>1, <1>2, <1>3, <1>4, EndsInv

LEMMA AcknowledgeInv ==
  ASSUME ConsumerInv, NEW w \in Slots, Acknowledge(w), UNCHANGED <<inboxVars, sourceVars, faults>>
  PROVE  ConsumerInv'
<1>1. UNCHANGED <<autoAck, retryQueue, dlq, sub, waits, discarded>>
  BY DEF Acknowledge
<1>2. paused' \in BOOLEAN /\ pc[w] \notin Handling
  BY DEF Acknowledge, PauseIfAsked, ConsumerInv, LoopTyped, Handling
<1>3. CASE pc[w] = "gone"
  <2>1. Finish(w) /\ UNCHANGED <<ready, unacked, nextTag, open, buffer, hand, misacked>>
    BY <1>3 DEF Acknowledge
  <2>2. QED
    BY <1>1, <1>2, <2>1, FinishInv DEF brokerVars, logVars
<1>4. CASE pc[w] # "gone"
  <2>1. PICK requeue \in BOOLEAN :
           /\ Answer(w, requeue)
           /\ IF requeue THEN pc[w] = "nack" ELSE pc[w] \in {"ack", "settle"}
    <3>1. \/ Answer(w, FALSE) /\ pc[w] \in {"ack", "settle"}
          \/ Answer(w, TRUE) /\ pc[w] = "nack"
      BY <1>4 DEF Acknowledge
    <3>2. QED
      BY <3>1
  <2>2. CASE /\ ~open /\ Finish(w)
             /\ UNCHANGED <<ready, unacked, nextTag, open, buffer, hand, misacked>>
    BY <1>1, <1>2, <2>2, FinishInv DEF brokerVars, logVars
  <2>3. ASSUME NEW i \in {j \in DOMAIN unacked : unacked[j].tag = job[w].tag},
               open, unacked' = Without(unacked, i),
               ready' = IF requeue THEN <<Content(unacked[i])>> \o ready ELSE ready,
               misacked' = IF requeue \/ job[w].own THEN misacked
                                                    ELSE misacked \cup {unacked[i].id},
               Finish(w), UNCHANGED <<nextTag, open, buffer, hand>>
        PROVE  ConsumerInv'
    BY <1>1, <1>2, <2>1, <2>3, AnswerHitInv
  <2>4. CASE /\ SessionEnds /\ hand' = Disown(hand)
             /\ job' = [v \in Slots |-> IF v = w THEN Nothing ELSE Disown(job[v])]
             /\ pc' = [v \in Slots |-> IF v = w THEN "idle" ELSE CutOff(pc[v])]
             /\ UNCHANGED misacked
    <3>1. pc[w] \in {"ack", "settle", "nack"}
      BY <2>1
    <3>2. QED
      BY <1>1, <1>2, <2>4, <3>1, AnswerUnknownInv
  <2>5. QED
    BY <2>1, <2>2, <2>3, <2>4 DEF Answer
<1>5. QED
  BY <1>3, <1>4

---------------------------------------------------------------------------
(* The composition.                                                        *)

IInv == InboxInv /\ ConsumerInv

LEMMA InitInv == Init => IInv
<1> SUFFICES ASSUME Init PROVE IInv
  OBVIOUS
<1>1. ConsumerInit /\ InboxInit /\ sent = [m \in Messages |-> 0] /\ faults = 0
  BY DEF Init
<1>2. InboxInv
  <2>1. InboxTyped /\ RecordedMeansHandled /\ Booked
    BY <1>1 DEF InboxInit, InboxTyped, Calls, NoCall, RecordedMeansHandled, Booked
  <2>2. ASSUME NEW m \in Messages
        PROVE  m \notin recorded /\ handled[m] = 0 /\ forgotten[m] = 0
               /\ At(call, "record", m) = {}
    BY <1>1 DEF InboxInit, At, NoCall
  <2>3. SlotCount \in Nat /\ SlotCount * 0 = 0 /\ Cardinality({}) = 0
    BY SlotsFinite, FS_EmptySet, SMT
  <2>4. Books
    <3>1. ASSUME NEW m \in Messages
          PROVE  /\ m \notin recorded /\ handled[m] = 0
                 /\ SlotCount * forgotten[m] = 0 /\ Cardinality(At(call, "record", m)) = 0
      BY <2>2, <2>3
    <3>2. 0 <= 0 + 0
      BY SMT
    <3>3. QED
      BY <3>1, <3>2 DEF Books
  <2>5. QED
    BY <2>1, <2>4 DEF InboxInv
<1>3. ConsumerInv
  <2>1. <<>> \in Seq(Queued) /\ <<>> \in Seq(Deliveries) /\ DOMAIN <<>> = {}
    BY SMT
  <2>2. QueuesTyped /\ SessionTyped /\ LoopTyped
    <3>1. QueuesTyped /\ LoopTyped
      BY <1>1, <2>1 DEF ConsumerInit, QueuesTyped, LoopTyped
    <3>2. 1 \in Nat \ {0}
      BY SMT
    <3>3. SessionTyped
      BY <1>1, <2>1, <3>2 DEF ConsumerInit, SessionTyped
    <3>4. QED
      BY <3>1, <3>3
  <2>3. WorkTyped /\ CallsMatch
    BY <1>1 DEF ConsumerInit, InboxInit, WorkTyped, CallsMatch, Labels, Handling, Republishing
  <2>4. LogTyped
    BY <1>1, DeliveryAssumption, SMT DEF ConsumerInit, LogTyped
  <2>5. Held /\ Acked
    BY <1>1, <2>1 DEF ConsumerInit, Held, Acked
  <2>6. Kept
    BY <1>1, SMT DEF Kept
  <2>7. QED
    BY <2>2, <2>3, <2>4, <2>5, <2>6 DEF ConsumerInv
<1>4. QED
  BY <1>2, <1>3 DEF IInv

(* Deleting old records of the inbox is no concern of the subscription.    *)
LEMMA CleanupInv ==
  ASSUME ConsumerInv, Cleanup
  PROVE  ConsumerInv'
<1>1. UNCHANGED <<call, handled, consumerVars, sourceVars>> /\ faults' \in 0..MaxFaults
  BY FaultsTyped DEF Cleanup, DeleteBefore, ConsumerInv, LogTyped
<1>2. UNCHANGED <<brokerVars, loopVars, workVars, logVars>>
  BY <1>1 DEF consumerVars
<1>3. QueuesTyped' /\ SessionTyped' /\ LoopTyped' /\ WorkTyped' /\ CallsMatch' /\ Held' /\ Acked'
      /\ Settling' = Settling /\ Finished' = Finished
  BY <1>1, <1>2, Frames DEF brokerVars, loopVars, workVars, logVars
<1>4. LogTyped'
  BY <1>1, <1>2 DEF ConsumerInv, LogTyped, logVars, sourceVars
<1>5. Kept'
  BY <1>1, <1>2, <1>3, KeptQuietly DEF ConsumerInv, brokerVars, loopVars, sourceVars
<1>6. QED
  BY <1>3, <1>4, <1>5 DEF ConsumerInv

LEMMA NextInbox ==
  ASSUME IInv, Next
  PROVE  InboxStep
<1>1. ASSUME NEW m \in Messages, Publish(m) PROVE InboxStep
  BY <1>1 DEF Publish, InboxStep
<1>2. CASE Quiet \/ Disturb
  BY <1>2 DEF Quiet, Disturb, InboxStep
<1>3. CASE Crash
  BY <1>3 DEF Crash, InboxStep
<1>4. CASE Cleanup
  BY <1>4 DEF Cleanup, InboxStep
<1>5. ASSUME NEW w \in Slots, Work(w) PROVE InboxStep
  <2>1. CASE StartWorker(w) /\ Process(w, hand.id) /\ UNCHANGED faults
    <3>1. hand.id \in Messages
      BY <1>5, <2>1, StartWorkerInv DEF IInv, InboxInv, Work
    <3>2. QED
      BY <2>1, <3>1 DEF InboxStep
  <2>2. CASE \E ok \in BOOLEAN :
               IsProcessedByHandler(w, ok) \/ HandleMessage(w, ok) \/ RecordMessage(w, ok)
    BY <2>2 DEF InboxStep
  <2>3. QED
    BY <1>5, <2>1, <2>2 DEF Work
<1>6. QED
  BY <1>1, <1>2, <1>3, <1>4, <1>5 DEF Next

LEMMA NextInv == IInv /\ [Next]_vars => IInv'
<1> SUFFICES ASSUME IInv, [Next]_vars PROVE IInv'
  OBVIOUS
<1>1. CASE UNCHANGED vars
  <2>1. UNCHANGED <<consumerVars, inboxVars, sourceVars, faults>>
    BY <1>1 DEF vars
  <2>2. InboxInv'
    BY <2>1, InboxStepInv DEF InboxStep, IInv
  <2>3. UNCHANGED <<brokerVars, loopVars, workVars, logVars>>
    BY <2>1 DEF consumerVars
  <2>4. QueuesTyped' /\ SessionTyped' /\ LoopTyped' /\ WorkTyped' /\ LogTyped' /\ CallsMatch'
        /\ Held' /\ Acked' /\ Settling' = Settling /\ Finished' = Finished
    BY <2>1, <2>3, Frames DEF IInv, brokerVars, loopVars, workVars, logVars, inboxVars,
                                     sourceVars
  <2>5. Kept'
    BY <2>1, <2>3, <2>4, KeptQuietly DEF IInv, ConsumerInv, brokerVars, loopVars, sourceVars
  <2>6. QED
    BY <2>2, <2>4, <2>5 DEF IInv, ConsumerInv
<1>2. CASE Next
  <2>1. InboxInv'
    BY <1>2, NextInbox, InboxStepInv DEF IInv
  <2> SUFFICES ConsumerInv'
    BY <2>1 DEF IInv
  <2>2. ConsumerInv /\ InboxInv /\ faults \in 0..MaxFaults
    BY DEF IInv, ConsumerInv, LogTyped
  <2>3. ASSUME NEW m \in Messages, Publish(m) PROVE ConsumerInv'
    BY <2>2, <2>3, PublishInv
  <2>4. CASE Quiet
    <3>1. UNCHANGED <<inboxVars, sourceVars, faults>> /\ faults' \in 0..MaxFaults
      BY <2>2, <2>4 DEF Quiet
    <3>2. CASE RetryExpires \/ Deliver \/ Take \/ LoopLeaves
      BY <2>2, <3>1, <3>2, RetryExpiresInv, DeliverInv, TakeInv, LoopLeavesInv
    <3>3. CASE Subscribe \/ Resume \/ Await \/ Reconnect
      BY <2>2, <3>1, <3>3, LoopInv
    <3>4. ASSUME NEW w \in Slots, WorkerStep(w) PROVE ConsumerInv'
      BY <2>2, <3>1, <3>4, RepublishInv, AcknowledgeInv DEF WorkerStep
    <3>5. QED
      BY <2>4, <3>2, <3>3, <3>4 DEF Quiet
  <2>5. CASE Disturb
    BY <2>2, <2>5, FaultsTyped, LoopInv, LoseSessionInv, RepublishFailsInv DEF Disturb
  <2>6. CASE Crash
    BY <2>2, <2>6, FaultsTyped, ConsumerCrashInv DEF Crash
  <2>7. CASE Cleanup
    BY <2>2, <2>7, CleanupInv
  <2>8. ASSUME NEW w \in Slots, Work(w) PROVE ConsumerInv'
    BY <2>2, <2>8, WorkInv
  <2>9. QED
    BY <1>2, <2>3, <2>4, <2>5, <2>6, <2>7, <2>8 DEF Next
<1>3. QED
  BY <1>1, <1>2

(* The invariant of the subscription and of the inbox holds in every behaviour, with   *)
(* any number of messages, workers, copies and faults.                                 *)
THEOREM Invariance == Spec => []IInv
BY InitInv, NextInv, PTL DEF Spec

(* Types; only an open session has deliveries, a worker of consumeLoop has a delivery  *)
(* exactly while it runs and a call of Process exactly while it handles it, and        *)
(* retryMessage and deadLetterMessage work on an open session or in vain.              *)
THEOREM TypeCorrect == Spec => []TypeOK
<1>1. IInv => TypeOK
  <2> SUFFICES ASSUME IInv PROVE TypeOK
    OBVIOUS
  <2>1. /\ ready \in Seq(Queued) /\ retryQueue \in Seq(Queued) /\ dlq \subseteq Messages
        /\ recorded \subseteq Messages /\ faults \in 0..MaxFaults
    BY DEF IInv, ConsumerInv, InboxInv, InboxTyped, QueuesTyped, LogTyped
  <2>2. /\ nextTag \in Nat \ {0}
        /\ \A i \in DOMAIN unacked : /\ unacked[i].own /\ unacked[i].tag < nextTag
                                     /\ unacked[i] \in Deliveries
        /\ ~open => unacked = <<>> /\ buffer = <<>>
    BY SMT DEF IInv, ConsumerInv, SessionTyped
  <2>3. /\ sub \in {"off", "on", "cancelled", "left"} /\ paused \in BOOLEAN
        /\ open => sub \in {"on", "cancelled"}
        /\ waits => hand = Nothing /\ sub \in {"on", "cancelled"}
    BY DEF IInv, ConsumerInv, LoopTyped
  <2>4. /\ pc \in [Slots -> Labels]
        /\ \A w \in Slots : /\ (pc[w] = "idle") <=> (job[w] = Nothing)
                            /\ (pc[w] \in Handling) <=> (call[w] # NoCall)
                            /\ pc[w] \in Republishing => open
                            /\ call[w] # NoCall => call[w].id = job[w].id
    BY DEF IInv, ConsumerInv, WorkTyped, CallsMatch
  <2>5. QED
    BY <2>1, <2>2, <2>3, <2>4 DEF TypeOK
<1>2. QED
  BY <1>1, Invariance, PTL

(* With manual acknowledgments no message is lost between the broker and the handler:  *)
(* consumeLoop, the workers, retryMessage and deadLetterMessage keep it in a queue     *)
(* until something was done with it, whatever sessions, crashes and workers of earlier *)
(* sessions do, except for an acknowledgment by a worker of a lost session.            *)
THEOREM NothingDropped == Spec => []NeverDropped
<1>1. IInv => NeverDropped
  BY DEF IInv, ConsumerInv, Kept, Covered, Finished, NeverDropped, BrokerHolds, In
<1>2. QED
  BY <1>1, Invariance, PTL

(* A message the inbox recorded has taken effect: Process checks, handles and then     *)
(* records, and no crash or failure between them makes the inbox swallow a message.    *)
THEOREM NothingSwallowed == Spec => []RecordedMeansHandled
<1>1. IInv => RecordedMeansHandled
  BY DEF IInv, InboxInv
<1>2. QED
  BY <1>1, Invariance, PTL

(* Behind the inbox a message takes effect at most once per worker slot, and once more *)
(* per slot each time its record was lost or deleted, for any number of workers,       *)
(* redeliveries and crashes.                                                           *)
THEOREM HandledBound == Spec => []HandledOnceUnlessForgotten
<1>1. IInv => HandledOnceUnlessForgotten
  BY BooksBound DEF IInv
<1>2. QED
  BY <1>1, Invariance, PTL

===============================================================================
