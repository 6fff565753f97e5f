--------------------------- MODULE BoardFeedProofs ---------------------------
(***************************************************************************)
(* Proofs about BoardFeed and the event loop it extends: aicrewd's record   *)
(* of the board is the board, an event is told once and in order, and a     *)
(* coordinator in a session knows the READY tasks, for any number of        *)
(* members, tasks and moves.                                                *)
(***************************************************************************)
EXTENDS BoardFeed, FiniteSetTheorems, SequenceTheorems, WellFoundedInduction, TLAPS

-----------------------------------------------------------------------------
(* Numbers and sequences *)

(* A set of naturals that is not empty has a least element.                  *)
LEMMA LeastNatural ==
    ASSUME NEW S, S \subseteq Nat, S # {}
    PROVE  \E n \in S : \A k \in S : n <= k
<1>1. PICK m \in S : TRUE
  OBVIOUS
<1>. DEFINE T == {0..k : k \in {j \in S : j <= m}}
            R == StrictSubsetOrdering(0..m)
<1>2. IsFiniteSet(0..m)
  BY <1>1, FS_Interval
<1>3. IsWellFoundedOn(R, FiniteSubsetsOf(0..m))
  BY <1>2, FS_StrictSubsetOrderingWellFounded
<1>4. T \subseteq FiniteSubsetsOf(0..m) /\ T # {}
  <2>1. \A k \in 0..m : IsFiniteSet(0..k)
    BY <1>1, FS_Interval
  <2>2. \A k \in {j \in S : j <= m} : 0..k \in FiniteSubsetsOf(0..m)
    BY <1>1, <2>1 DEF FiniteSubsetsOf
  <2>. QED
    BY <1>1, <2>2
<1>5. PICK Z \in T : \A Y \in T : ~ (<<Y, Z>> \in R)
  <2>. HIDE DEF T, R
  <2>. QED
    BY <1>3, <1>4, WFMin
<1>6. PICK n \in S : n <= m /\ Z = 0..n
  BY <1>5
<1>7. ASSUME NEW k \in S, k < n
      PROVE  FALSE
  <2>1. 0..k \in T
    BY <1>1, <1>6, <1>7
  <2>2. <<0..k, Z>> \notin R
    BY <1>5, <2>1
  <2>3. 0..k \subseteq 0..n /\ n \in 0..n /\ n \notin 0..k
    BY <1>6, <1>7
  <2>. QED
    BY <1>1, <1>6, <1>7, <2>2, <2>3 DEF StrictSubsetOrdering
<1>. QED
  BY <1>6, <1>7

(* The lesser of two numbers.                                                *)
LEMMA MinOfTwo ==
    ASSUME NEW a \in Nat, NEW b \in Nat
    PROVE  Min({a, b}) = IF a <= b THEN a ELSE b
<1>1. CASE a <= b
  <2>1. \A x \in {a, b} : (\A y \in {a, b} : x <= y) <=> x = a
    BY <1>1
  <2>. QED
    BY <1>1, <2>1 DEF Min
<1>2. CASE ~(a <= b)
  <2>1. \A x \in {a, b} : (\A y \in {a, b} : x <= y) <=> x = b
    BY <1>2
  <2>. QED
    BY <1>2, <2>1 DEF Min
<1>. QED
  BY <1>1, <1>2

(* How many elements of a set of numbers are at most n, and one step on.     *)
LEMMA RankStep ==
    ASSUME NEW at, IsFiniteSet(at), at \subseteq Nat, NEW n \in Nat
    PROVE  /\ Cardinality({m \in at : m <= n}) \in Nat
           /\ Cardinality({m \in at : m <= n + 1}) =
                 IF n + 1 \in at THEN Cardinality({m \in at : m <= n}) + 1
                 ELSE Cardinality({m \in at : m <= n})
<1>. DEFINE S == {m \in at : m <= n}
<1>1. IsFiniteSet(S) /\ Cardinality(S) \in Nat
  BY FS_Subset, FS_CardinalityType
<1>a. \A m \in at : m \in Nat /\ (m <= n + 1 <=> m <= n \/ m = n + 1)
  <2>1. \A m \in at : m \in Nat
    OBVIOUS
  <2>2. \A m \in Nat : m <= n + 1 <=> m <= n \/ m = n + 1
    OBVIOUS
  <2>. QED
    BY <2>1, <2>2
<1>2. CASE n + 1 \in at
  <2>1. {m \in at : m <= n + 1} = S \cup {n + 1} /\ n + 1 \notin S
    <3>1. ~(n + 1 <= n) /\ n + 1 <= n + 1
      OBVIOUS
    <3>. QED
      BY <1>2, <1>a, <3>1
  <2>. HIDE DEF S
  <2>2. Cardinality(S \cup {n + 1}) = Cardinality(S) + 1
    BY <1>1, <2>1, FS_AddElement
  <2>3. Cardinality({m \in at : m <= n + 1}) = Cardinality(S) + 1
    BY <2>1, <2>2
  <2>. QED
    BY <1>1, <1>2, <2>3 DEF S
<1>3. CASE n + 1 \notin at
  <2>1. {m \in at : m <= n + 1} = S
    BY <1>3, <1>a
  <2>. HIDE DEF S
  <2>2. Cardinality({m \in at : m <= n + 1}) = Cardinality(S)
    BY <2>1
  <2>. QED
    BY <1>1, <1>3, <2>2 DEF S
<1>. QED
  BY <1>2, <1>3

(* Each rank up to the number of elements is some element's.                 *)
LEMMA RankExists ==
    ASSUME NEW N \in Nat, NEW at, at \subseteq 1..N, NEW k \in 1 .. Cardinality(at)
    PROVE  \E n \in at : Cardinality({m \in at : m <= n}) = k
<1>. DEFINE Rank(n) == Cardinality({m \in at : m <= n})
            S == {n \in Nat : Rank(n) >= k}
<1>0. IsFiniteSet(1..N)
  BY FS_Interval
<1>1. IsFiniteSet(at) /\ Cardinality(at) \in Nat
  BY <1>0, FS_Subset, FS_CardinalityType
<1>a. \A m \in at : m \in Nat /\ m <= N /\ ~(m <= 0)
  OBVIOUS
<1>2. {m \in at : m <= N} = at /\ {m \in at : m <= 0} = {}
  BY <1>a
<1>3. Rank(N) = Cardinality(at) /\ Rank(0) = 0
  BY <1>2, FS_EmptySet
<1>4. \A n \in Nat : /\ Rank(n) \in Nat
                     /\ Rank(n + 1) = IF n + 1 \in at THEN Rank(n) + 1 ELSE Rank(n)
  <2>. at \subseteq Nat
    BY <1>a
  <2>. QED
    BY <1>1, RankStep
<1>. HIDE DEF Rank
<1>5. N \in S
  BY <1>1, <1>3
<1>6. PICK n \in S : \A j \in S : n <= j
  <2>. HIDE DEF S
  <2>1. S \subseteq Nat
    BY DEF S
  <2>. QED
    BY <1>5, <2>1, LeastNatural
<1>7. n \in Nat /\ Rank(n) >= k /\ n # 0
  BY <1>3, <1>6
<1>8. n - 1 \in Nat /\ n - 1 \notin S /\ n = (n - 1) + 1
  BY <1>6, <1>7
<1>9. Rank(n - 1) < k /\ Rank(n - 1) \in Nat
  BY <1>4, <1>8
<1>10. n \in at /\ Rank(n) = Rank(n - 1) + 1
  BY <1>4, <1>7, <1>8, <1>9
<1>. QED
  BY <1>7, <1>9, <1>10 DEF Rank

(* What is kept of a sequence is some of its elements, those in the set.     *)
LEMMA OnlyProperties ==
    ASSUME NEW X, NEW s \in Seq(X), NEW T
    PROVE  /\ Only(s, T) \in Seq(X)
           /\ \A k \in DOMAIN Only(s, T) : \E n \in DOMAIN s : Only(s, T)[k] = s[n] /\ s[n] \in T
<1>. DEFINE at == {n \in DOMAIN s : s[n] \in T}
            nth(k) == CHOOSE n \in at : Cardinality({m \in at : m <= n}) = k
            c == Cardinality(at)
<1>1. Len(s) \in Nat /\ DOMAIN s = 1..Len(s) /\ at \subseteq 1..Len(s)
  OBVIOUS
<1>2. IsFiniteSet(at) /\ c \in Nat
  <2>1. IsFiniteSet(1 .. Len(s))
    BY <1>1, FS_Interval
  <2>. QED
    BY <1>1, <2>1, FS_Subset, FS_CardinalityType
<1>3. ASSUME NEW k \in 1..c PROVE nth(k) \in at
  <2>. HIDE DEF at
  <2>1. \E n \in at : Cardinality({m \in at : m <= n}) = k
    BY <1>1, <1>3, RankExists
  <2>. QED
    BY <2>1
<1>4. Only(s, T) = [k \in 1..c |-> s[nth(k)]]
  BY DEF Only
<1>5. \A k \in 1..c : nth(k) \in DOMAIN s /\ s[nth(k)] \in T /\ s[nth(k)] \in X
  <2>. HIDE DEF nth, c
  <2>1. \A n \in at : n \in DOMAIN s /\ s[n] \in T /\ s[n] \in X
    BY <1>1
  <2>. QED
    BY <1>3, <2>1
<1>. HIDE DEF c, nth
<1>6. Only(s, T) \in [1..c -> X]
  BY <1>4, <1>5
<1>7. Only(s, T) \in Seq(X)
  BY <1>2, <1>6
<1>. QED
  BY <1>4, <1>5, <1>7

-----------------------------------------------------------------------------
(* The event loop's helpers *)

Deliveries == [state : {"none", "pending", "handled", "parked"}, by : 0..2]
Messages == [to : SUBSET Agents, events : SUBSET Nat, ready : SUBSET Tasks, parked : SUBSET Nat]

(* What is journaled is appended, each with a delivery of its own; all of it *)
(* is among the events given.                                                *)
LEMMA JournalGrows ==
    ASSUME NEW X, journal \in Seq(X), delivery \in Seq(Deliveries), Len(delivery) = Len(journal),
           NEW events \in Seq(X), NEW matched, JournalEvents(events, matched)
    PROVE  /\ journal' \in Seq(X) /\ delivery' \in Seq(Deliveries)
           /\ Len(journal') \in Nat /\ Len(delivery') = Len(journal') /\ Len(journal) <= Len(journal')
           /\ \A i \in 1 .. Len(journal) : journal'[i] = journal[i] /\ delivery'[i] = delivery[i]
           /\ \A i \in Len(journal) + 1 .. Len(journal') :
                 /\ \E n \in DOMAIN events : journal'[i] = events[n]
                 /\ delivery'[i] = IF journal'[i] \in matched THEN Queued ELSE Unqueued
<1>. DEFINE new == New(events)
            del == [n \in DOMAIN new |-> IF new[n] \in matched THEN Queued ELSE Unqueued]
<1>1. /\ new \in Seq(X)
      /\ \A k \in DOMAIN new : \E n \in DOMAIN events : new[k] = events[n]
  <2>. DEFINE T == Range(events) \ Range(journal)
  <2>1. new = Only(events, T)
    BY DEF New
  <2>. HIDE DEF new, T
  <2>2. /\ Only(events, T) \in Seq(X)
        /\ \A k \in DOMAIN Only(events, T) :
              \E n \in DOMAIN events : Only(events, T)[k] = events[n] /\ events[n] \in T
    BY OnlyProperties
  <2>. QED
    BY <2>1, <2>2
<1>2. journal' = journal \o new /\ delivery' = delivery \o del
  BY DEF JournalEvents
<1>. HIDE DEF new
<1>3. DOMAIN new = 1 .. Len(new) /\ Len(new) \in Nat
  BY <1>1
<1>4. Queued \in Deliveries /\ Unqueued \in Deliveries
  BY DEF Queued, Unqueued, Deliveries
<1>5. del \in [1 .. Len(new) -> Deliveries]
  BY <1>3, <1>4
<1>6. del \in Seq(Deliveries) /\ Len(del) = Len(new)
  BY <1>3, <1>5
<1>7. \A k \in 1 .. Len(new) : del[k] = IF new[k] \in matched THEN Queued ELSE Unqueued
  BY <1>3
<1>. HIDE DEF del
<1>8. /\ journal' \in Seq(X) /\ Len(journal') = Len(journal) + Len(new)
      /\ \A i \in 1 .. Len(journal) + Len(new) :
            journal'[i] = IF i <= Len(journal) THEN journal[i] ELSE new[i - Len(journal)]
  BY <1>1, <1>2, ConcatProperties
<1>9. /\ delivery' \in Seq(Deliveries) /\ Len(delivery') = Len(journal) + Len(new)
      /\ \A i \in 1 .. Len(journal) + Len(new) :
            delivery'[i] = IF i <= Len(journal) THEN delivery[i] ELSE del[i - Len(journal)]
  <2>1. /\ delivery \o del \in Seq(Deliveries) /\ Len(delivery \o del) = Len(delivery) + Len(del)
        /\ \A i \in 1 .. Len(delivery) + Len(del) :
              (delivery \o del)[i] = IF i <= Len(delivery) THEN delivery[i] ELSE del[i - Len(delivery)]
    BY <1>6, ConcatProperties
  <2>. QED
    BY <1>2, <1>6, <2>1
<1>10. Len(journal) \in Nat
  OBVIOUS
<1>11. \A i \in Len(journal) + 1 .. Len(journal) + Len(new) :
          /\ i - Len(journal) \in 1 .. Len(new)
          /\ journal'[i] = new[i - Len(journal)] /\ delivery'[i] = del[i - Len(journal)]
  BY <1>3, <1>8, <1>9, <1>10
<1>12. \A i \in 1 .. Len(journal) : journal'[i] = journal[i] /\ delivery'[i] = delivery[i]
  BY <1>3, <1>8, <1>9, <1>10
<1>13. \A i \in Len(journal) + 1 .. Len(journal') :
          /\ \E n \in DOMAIN events : journal'[i] = events[n]
          /\ delivery'[i] = IF journal'[i] \in matched THEN Queued ELSE Unqueued
  <2> SUFFICES ASSUME NEW i \in Len(journal) + 1 .. Len(journal) + Len(new)
               PROVE  /\ \E n \in DOMAIN events : journal'[i] = events[n]
                      /\ delivery'[i] = IF journal'[i] \in matched THEN Queued ELSE Unqueued
    BY <1>8
  <2>1. PICK k \in 1 .. Len(new) : journal'[i] = new[k] /\ delivery'[i] = del[k]
    BY <1>11
  <2>. QED
    BY <1>1, <1>3, <1>7, <2>1
<1>. QED
  BY <1>3, <1>8, <1>9, <1>10, <1>12, <1>13

(* A run's outcome is written to its events and to no other.                 *)
LEMMA MarkProperties ==
    ASSUME delivery \in Seq(Deliveries), version \in 1..2,
           NEW events, NEW state \in {"handled", "parked"}
    PROVE  /\ Mark(events, state) \in Seq(Deliveries)
           /\ Len(Mark(events, state)) = Len(delivery)
           /\ \A i \in 1 .. Len(delivery) :
                 Mark(events, state)[i] =
                    IF i \in events THEN [state |-> state, by |-> version] ELSE delivery[i]
<1>. DEFINE m == Mark(events, state)
<1>1. DOMAIN delivery = 1 .. Len(delivery) /\ Len(delivery) \in Nat
  OBVIOUS
<1>2. [state |-> state, by |-> version] \in Deliveries
  BY DEF Deliveries
<1>3. m = [i \in 1 .. Len(delivery) |->
             IF i \in events THEN [state |-> state, by |-> version] ELSE delivery[i]]
  BY <1>1 DEF Mark
<1>4. m \in [1 .. Len(delivery) -> Deliveries]
  BY <1>1, <1>2, <1>3
<1>5. m \in Seq(Deliveries) /\ Len(m) = Len(delivery)
  BY <1>1, <1>4
<1>. QED
  BY <1>3, <1>5

(* The only sequences of no message and of one.                              *)
LEMMA SetToSeqOfOne ==
    /\ SetToSeq({}) = <<>>
    /\ \A m : SetToSeq({m}) = <<m>>
<1>1. SetToSeq({}) = <<>>
  <2>1. Cardinality({}) = 0
    BY FS_EmptySet
  <2>2. \A f \in [1..0 -> {}] : f = <<>>
    OBVIOUS
  <2>3. <<>> \in [1..0 -> {}] /\ IsInjective(<<>>)
    BY DEF IsInjective
  <2>. QED
    BY <2>1, <2>2, <2>3 DEF SetToSeq
<1>2. ASSUME NEW m PROVE SetToSeq({m}) = <<m>>
  <2>1. Cardinality({m}) = 1
    BY FS_Singleton
  <2>2. \A f \in [1..1 -> {m}] : f = <<m>>
    OBVIOUS
  <2>3. <<m>> \in [1..1 -> {m}] /\ IsInjective(<<m>>)
    BY DEF IsInjective
  <2>. QED
    BY <2>1, <2>2, <2>3 DEF SetToSeq
<1>. QED
  BY <1>1, <1>2

(* The events of the queues run together, and the message about them.        *)
RunEvents(due) == UNION {PendingEvents(s) : s \in due}
Told(due) == [to |-> Coordinators, events |-> RunEvents(due), ready |-> {}, parked |-> {}]

(* The queues that run together make one message, to the coordinators, or    *)
(* none if the team has no coordinator.                                      *)
LEMMA OneMessage ==
    ASSUME NEW due \in SUBSET Subjects, due # {}
    PROVE  Wakes(UNION {WakeBoard[s] : s \in due}) =
              IF Coordinators = {} THEN <<>> ELSE <<Told(due)>>
<1>. DEFINE C == Coordinators
            outs == UNION {WakeBoard[s] : s \in due}
            groups == {o.to : o \in outs} \ {{}}
            merged(to) == [Message(to) EXCEPT !.events = UNION {o.events : o \in {x \in outs : x.to = to}}]
<1>1. outs = {[to |-> C, events |-> PendingEvents(s)] : s \in due}
  BY DEF WakeBoard
<1>2. {o.to : o \in outs} = {C}
  <2>. HIDE DEF outs, C
  <2>1. PICK s \in due : TRUE
    OBVIOUS
  <2>2. [to |-> C, events |-> PendingEvents(s)] \in outs
    BY <1>1
  <2>3. \A o \in outs : o.to = C
    BY <1>1
  <2>. QED
    BY <2>2, <2>3
<1>3. {x \in outs : x.to = C} = outs
  BY <1>1
<1>4. UNION {o.events : o \in outs} = RunEvents(due)
  <2>. HIDE DEF outs, C
  <2>1. {o.events : o \in outs} = {PendingEvents(s) : s \in due}
    <3>1. \A s \in due : [to |-> C, events |-> PendingEvents(s)] \in outs
      BY <1>1
    <3>2. \A o \in outs : \E s \in due : o.events = PendingEvents(s)
      BY <1>1
    <3>3. \A s \in due : \E o \in outs : o.events = PendingEvents(s)
      BY <3>1
    <3>. QED
      BY <3>2, <3>3
  <2>. QED
    BY <2>1 DEF RunEvents
<1>5. merged(C) = Told(due)
  <2>1. merged(C) = [Message(C) EXCEPT !.events = RunEvents(due)]
    <3>. HIDE DEF outs
    <3>. QED
      BY <1>3, <1>4
  <2>. QED
    BY <2>1 DEF Message, Told
<1>6. Wakes(outs) = SetToSeq({merged(to) : to \in groups})
  BY DEF Wakes
<1>. HIDE DEF outs, merged, C
<1>7. CASE C = {}
  <2>1. groups = {}
    BY <1>2, <1>7
  <2>2. {merged(to) : to \in groups} = {}
    BY <2>1
  <2>. QED
    BY <1>6, <1>7, <2>2, SetToSeqOfOne DEF C, outs
<1>8. CASE C # {}
  <2>1. groups = {C}
    BY <1>2, <1>8
  <2>2. {merged(to) : to \in groups} = {Told(due)}
    BY <1>5, <2>1
  <2>. QED
    BY <1>6, <1>8, <2>2, SetToSeqOfOne DEF C, outs
<1>. QED
  BY <1>7, <1>8

-----------------------------------------------------------------------------
(* The event loop's steps *)

LoopOK == DeliveryTypeOK(Change, Tasks) /\ LoopInv

Stays == UNCHANGED <<journal, delivery, log>>

Tells(due) ==
    /\ journal' = journal
    /\ \A i \in DOMAIN journal :
          delivery'[i].state = IF i \in RunEvents(due) THEN "handled" ELSE delivery[i].state
    /\ log' = IF Coordinators = {} THEN log ELSE Append(log, Told(due))

Parks(events) ==
    /\ journal' = journal
    /\ \A i \in events : delivery[i].state = "pending"
    /\ \A i \in DOMAIN journal :
          delivery'[i].state = IF i \in events THEN "parked" ELSE delivery[i].state
    /\ \/ log' = log
       \/ \E m \in Messages : m.events = {} /\ m.ready = {} /\ log' = Append(log, m)

Replays(events) ==
    /\ journal' = journal /\ log' = log
    /\ \A i \in events : delivery[i].state = "parked"
    /\ \A i \in DOMAIN journal :
          delivery'[i].state = IF i \in events THEN "pending" ELSE delivery[i].state

(* What the loop's typing says, part by part.                                *)
LEMMA LoopTypes ==
    ASSUME DeliveryTypeOK(Change, Tasks)
    PROVE  /\ journal \in Seq(Change) /\ Len(journal) \in Nat /\ DOMAIN journal = 1 .. Len(journal)
           /\ delivery \in Seq(Deliveries) /\ Len(delivery) = Len(journal)
           /\ DOMAIN delivery = DOMAIN journal
           /\ \A i \in DOMAIN delivery : delivery[i] \in Deliveries
           /\ log \in Seq(Messages) /\ Len(log) \in Nat /\ DOMAIN log = 1 .. Len(log)
           /\ \A n \in DOMAIN log : log[n] \in Messages
           /\ version \in 1..2 /\ Coordinators \subseteq Agents
           /\ loop \in [alone : SUBSET Nat, failed : SUBSET Nat]
           /\ failures \in [Subjects -> 0 .. maxHandlerFailures - 1]
           /\ moves \in 0..MaxMoves
           /\ \A i \in DOMAIN journal : journal[i] \in Change /\ journal[i].subject \in Subjects
<1>1. /\ journal \in Seq(Change) /\ Len(delivery) = Len(journal)
      /\ version \in 1..2
      /\ loop \in [alone : SUBSET Nat, failed : SUBSET Nat]
      /\ failures \in [Subjects -> 0 .. maxHandlerFailures - 1]
      /\ moves \in 0..MaxMoves
  BY DEF DeliveryTypeOK
<1>2. delivery \in Seq(Deliveries) /\ log \in Seq(Messages)
  BY DEF DeliveryTypeOK, Deliveries, Messages
<1>3. \A i \in DOMAIN journal : journal[i] \in Change
  BY <1>1
<1>4. \A i \in DOMAIN journal : journal[i].subject \in Subjects
  BY <1>3 DEF Change, Tasks
<1>5. Coordinators \subseteq Agents
  BY DEF Coordinators
<1>. QED
  BY <1>1, <1>2, <1>3, <1>4, <1>5

(* A run's events wait, and are all that wait of the run's subjects.         *)
LEMMA RunEventsWait ==
    ASSUME LoopOK, NEW due \in SUBSET Subjects
    PROVE  /\ RunEvents(due) \subseteq DOMAIN journal
           /\ \A i \in DOMAIN journal :
                 i \in RunEvents(due) <=> journal[i].subject \in due /\ delivery[i].state = "pending"
           /\ Told(due) \in Messages
<1>1. \A i : i \in RunEvents(due) <=>
               /\ i \in DOMAIN journal
               /\ journal[i].subject \in due /\ delivery[i].state = "pending"
  BY DEF RunEvents, PendingEvents
<1>2. DOMAIN journal \subseteq Nat /\ Coordinators \subseteq Agents
  BY LoopTypes DEF LoopOK
<1>3. RunEvents(due) \in SUBSET Nat
  BY <1>1, <1>2
<1>4. Told(due) \in Messages
  BY <1>2, <1>3 DEF Told, Messages
<1>. QED
  BY <1>1, <1>4

(* A run that is recorded.                                                   *)
LEMMA HandledStep ==
    ASSUME LoopOK, NEW due \in SUBSET Subjects, due # {}, Handled(due, WakeBoard),
           UNCHANGED <<role, journal, broken, version, moves>>,
           loop' \in [alone : SUBSET Nat, failed : SUBSET Nat], loop'.failed = {}
    PROVE  DeliveryTypeOK(Change, Tasks)' /\ LoopInv' /\ Tells(due)
<1>. DEFINE evs == RunEvents(due)
<1>1. /\ log' = log \o Wakes(UNION {WakeBoard[s] : s \in due})
      /\ delivery' = Mark(evs, "handled")
      /\ failures' = [s \in Subjects |-> IF s \in due THEN 0 ELSE failures[s]]
  BY DEF Handled, RunEvents
<1>2. Wakes(UNION {WakeBoard[s] : s \in due}) = IF Coordinators = {} THEN <<>> ELSE <<Told(due)>>
  BY OneMessage
<1>3. Told(due) \in Messages /\ log \in Seq(Messages)
  BY RunEventsWait, LoopTypes DEF LoopOK
<1>4. /\ log' = IF Coordinators = {} THEN log ELSE Append(log, Told(due))
      /\ log' \in Seq(Messages)
  <2>1. CASE Coordinators = {}
    <3>1. log' = log \o <<>>
      BY <1>1, <1>2, <2>1
    <3>2. log \o <<>> = log
      BY <1>3, ConcatEmptySeq
    <3>. QED
      BY <1>3, <2>1, <3>1, <3>2
  <2>2. CASE Coordinators # {}
    <3>. DEFINE m == Told(due)
    <3>1. log' = log \o <<m>>
      BY <1>1, <1>2, <2>2
    <3>2. log \o <<m>> = Append(log, m)
      <4>. HIDE DEF m
      <4>1. m \in Messages
        BY <1>3 DEF m
      <4>. QED
        BY <1>3, <4>1, AppendIsConcat
    <3>3. Append(log, m) \in Seq(Messages)
      BY <1>3, AppendProperties
    <3>. QED
      BY <2>2, <3>1, <3>2, <3>3
  <2>. QED
    BY <2>1, <2>2
<1>5. /\ delivery' \in Seq(Deliveries) /\ Len(delivery') = Len(delivery)
      /\ \A i \in 1 .. Len(delivery) :
            delivery'[i] = IF i \in evs THEN [state |-> "handled", by |-> version] ELSE delivery[i]
  <2>. HIDE DEF evs
  <2>. QED
    BY <1>1, LoopTypes, MarkProperties DEF LoopOK
<1>6. failures' \in [Subjects -> 0 .. maxHandlerFailures - 1]
  BY <1>1, LoopTypes DEF LoopOK, maxHandlerFailures
<1>7. DeliveryTypeOK(Change, Tasks)'
  BY <1>4, <1>5, <1>6 DEF LoopOK, DeliveryTypeOK, Deliveries, Messages
<1>8. LoopInv'
  BY DEF LoopInv
<1>9. Tells(due)
  BY <1>4, <1>5, LoopTypes DEF Tells, LoopOK
<1>. QED
  BY <1>7, <1>8, <1>9

(* A failed run that is recorded.                                            *)
LEMMA FailRunStep ==
    ASSUME LoopOK, FailRun
    PROVE  DeliveryTypeOK(Change, Tasks)' /\ LoopInv' /\ (Stays \/ Parks(loop.failed))
<1>. DEFINE evs == loop.failed
            s == journal[CHOOSE i \in evs : TRUE].subject
<1>1. /\ evs # {} /\ UNCHANGED <<role, journal, broken, version, moves>>
      /\ loop' = [loop EXCEPT !.failed = {}]
  BY DEF FailRun
<1>2. \A i \in evs : i \in DOMAIN journal /\ delivery[i].state = "pending"
  BY LoopTypes DEF LoopOK, LoopInv
<1>3. s \in Subjects
  <2>1. (CHOOSE i \in evs : TRUE) \in DOMAIN journal
    BY <1>1, <1>2
  <2>. QED
    BY <2>1, LoopTypes DEF LoopOK
<1>4. evs \in SUBSET Nat
  BY LoopTypes DEF LoopOK
<1>5. loop' \in [alone : SUBSET Nat, failed : SUBSET Nat] /\ loop'.failed = {}
  BY <1>1, LoopTypes DEF LoopOK
<1>. HIDE DEF evs, s
<1>6. CASE /\ failures[s] + 1 < maxHandlerFailures
           /\ failures' = [failures EXCEPT ![s] = @ + 1]
           /\ UNCHANGED <<delivery, log>>
  <2>1. failures' \in [Subjects -> 0 .. maxHandlerFailures - 1]
    BY <1>3, <1>6, LoopTypes DEF LoopOK, maxHandlerFailures
  <2>. QED
    BY <1>1, <1>5, <1>6, <2>1 DEF LoopOK, DeliveryTypeOK, LoopInv, Stays
<1>7. CASE /\ failures[s] + 1 >= maxHandlerFailures
           /\ failures' = [failures EXCEPT ![s] = 0]
           /\ delivery' = Mark(evs, "parked")
           /\ log' = IF Coordinators = {} THEN log
                     ELSE Append(log, [Message(Coordinators) EXCEPT !.parked = evs])
  <2>1. failures' \in [Subjects -> 0 .. maxHandlerFailures - 1]
    BY <1>3, <1>7, LoopTypes DEF LoopOK, maxHandlerFailures
  <2>2. /\ delivery' \in Seq(Deliveries) /\ Len(delivery') = Len(delivery)
        /\ \A i \in 1 .. Len(delivery) :
              delivery'[i] = IF i \in evs THEN [state |-> "parked", by |-> version] ELSE delivery[i]
    BY <1>7, LoopTypes, MarkProperties DEF LoopOK
  <2>. DEFINE m == [Message(Coordinators) EXCEPT !.parked = evs]
  <2>3. m = [to |-> Coordinators, events |-> {}, ready |-> {}, parked |-> evs]
    BY DEF Message
  <2>4. m \in Messages /\ m.events = {} /\ m.ready = {}
    BY <1>4, <2>3, LoopTypes DEF Messages, LoopOK
  <2>5. log' = log \/ log' = Append(log, m)
    BY <1>7
  <2>. HIDE DEF m
  <2>6. log' \in Seq(Messages)
    <3>1. log \in Seq(Messages)
      BY LoopTypes DEF LoopOK
    <3>2. Append(log, m) \in Seq(Messages)
      BY <2>4, <3>1, AppendProperties
    <3>. QED
      BY <2>5, <3>1, <3>2
  <2>7. DeliveryTypeOK(Change, Tasks)'
    BY <1>1, <1>5, <2>1, <2>2, <2>6 DEF LoopOK, DeliveryTypeOK, Deliveries, Messages
  <2>8. Parks(evs)
    BY <1>1, <1>2, <2>2, <2>4, <2>5, LoopTypes DEF Parks, LoopOK
  <2>. QED
    BY <1>5, <2>7, <2>8 DEF LoopInv, evs
<1>. QED
  BY <1>6, <1>7 DEF FailRun, evs, s

(* What another version parked is queued again.                              *)
LEMMA ReplayStep ==
    ASSUME LoopOK, ReplayParked
    PROVE  /\ DeliveryTypeOK(Change, Tasks)' /\ LoopInv'
           /\ \E events \in SUBSET DOMAIN journal : Replays(events)
<1>. DEFINE stale == {i \in DOMAIN delivery : delivery[i].state = "parked" /\ delivery[i].by # version}
<1>1. /\ loop = Idle
      /\ delivery' = [i \in DOMAIN delivery |-> IF i \in stale THEN Queued ELSE delivery[i]]
      /\ UNCHANGED <<role, journal, failures, log, broken, version, loop, moves>>
  BY DEF ReplayParked
<1>2. \A i \in stale : i \in DOMAIN journal /\ delivery[i].state = "parked"
  BY LoopTypes DEF LoopOK
<1>3. Queued \in Deliveries /\ Queued.state = "pending"
  BY DEF Queued, Deliveries
<1>4. DOMAIN delivery = 1 .. Len(journal) /\ Len(journal) \in Nat
  BY LoopTypes DEF LoopOK
<1>. HIDE DEF stale
<1>5. delivery' \in [1 .. Len(journal) -> Deliveries]
  BY <1>1, <1>3, <1>4, LoopTypes DEF LoopOK
<1>6. delivery' \in Seq(Deliveries) /\ Len(delivery') = Len(journal)
  BY <1>4, <1>5
<1>7. DeliveryTypeOK(Change, Tasks)'
  BY <1>1, <1>6 DEF LoopOK, DeliveryTypeOK, Deliveries
<1>8. LoopInv'
  BY <1>1 DEF LoopInv, Idle
<1>9. Replays(stale)
  BY <1>1, <1>2, <1>3, <1>4, LoopTypes DEF Replays, LoopOK
<1>10. stale \in SUBSET DOMAIN journal
  BY <1>2
<1>. QED
  BY <1>7, <1>8, <1>9, <1>10

(* The loop's other steps change no delivery and tell nobody.                *)
LEMMA QuietLoop ==
    ASSUME LoopOK, UNCHANGED <<role, journal, delivery, failures, log>>,
           broken' \subseteq Subjects, version' \in 1..2, moves' \in 0..MaxMoves,
           loop' \in [alone : SUBSET Nat, failed : SUBSET Nat],
           \A i \in loop'.failed : i \in DOMAIN delivery /\ delivery[i].state = "pending"
    PROVE  DeliveryTypeOK(Change, Tasks)' /\ LoopInv' /\ Stays
<1>1. DeliveryTypeOK(Change, Tasks)'
  BY DEF LoopOK, DeliveryTypeOK
<1>2. LoopInv'
  BY DEF LoopInv
<1>. QED
  BY <1>1, <1>2 DEF Stays

(* Each step of the event loop, and of the world around it.                  *)
LEMMA LoopStep ==
    ASSUME LoopOK, DeliveryNext(WakeBoard)
    PROVE  /\ DeliveryTypeOK(Change, Tasks)' /\ LoopInv'
           /\ role' = role /\ moves <= moves'
           /\ \/ Stays
              \/ \E due \in SUBSET Subjects : Tells(due)
              \/ Parks(loop.failed)
              \/ \E events \in SUBSET DOMAIN journal : Replays(events)
<1>1. /\ broken \subseteq Subjects /\ version \in 1..2 /\ moves \in 0..MaxMoves /\ MaxMoves \in Nat
      /\ loop \in [alone : SUBSET Nat, failed : SUBSET Nat]
      /\ DOMAIN journal \subseteq Nat
  BY LoopTypes, MovesAssumption DEF LoopOK, DeliveryTypeOK
<1>2. Idle \in [alone : SUBSET Nat, failed : SUBSET Nat] /\ Idle.failed = {}
  BY DEF Idle
<1>3. \A s : PendingEvents(s) \in SUBSET Nat
  BY <1>1 DEF PendingEvents
<1>4. \A s : \A i \in PendingEvents(s) : i \in DOMAIN delivery /\ delivery[i].state = "pending"
  BY LoopTypes DEF PendingEvents, LoopOK
<1>5. CASE ReplayParked
  <2>1. role' = role /\ moves' = moves
    BY <1>5 DEF ReplayParked
  <2>. QED
    BY <1>1, <1>5, <2>1, ReplayStep
<1>6. ASSUME NEW due \in SUBSET Subjects, RunTeam(due, WakeBoard)
      PROVE  /\ DeliveryTypeOK(Change, Tasks)' /\ LoopInv' /\ role' = role /\ moves' = moves
             /\ Stays \/ Tells(due)
  <2>1. /\ loop = Idle /\ due # {} /\ UNCHANGED <<role, journal, broken, version, moves>>
    BY <1>6 DEF RunTeam
  <2>2. CASE Handled(due, WakeBoard) /\ UNCHANGED loop
    BY <1>1, <1>2, <2>1, <2>2, HandledStep
  <2>3. CASE /\ loop' = [Idle EXCEPT !.alone = UNION {PendingEvents(s) : s \in due}]
             /\ UNCHANGED <<log, delivery, failures>>
    <3>1. UNION {PendingEvents(s) : s \in due} \in SUBSET Nat
      BY <1>3
    <3>2. loop' \in [alone : SUBSET Nat, failed : SUBSET Nat] /\ loop'.failed = {}
      BY <2>3, <3>1 DEF Idle
    <3>. QED
      BY <1>1, <2>1, <2>3, <3>2, QuietLoop
  <2>. QED
    BY <1>6, <2>2, <2>3 DEF RunTeam
<1>7. ASSUME NEW s \in Subjects, RunQueue(s, WakeBoard)
      PROVE  /\ DeliveryTypeOK(Change, Tasks)' /\ LoopInv' /\ role' = role /\ moves' = moves
             /\ Stays \/ Tells({s})
  <2>. DEFINE rest == {i \in loop.alone : journal[i].subject # s}
  <2>1. loop.failed = {} /\ UNCHANGED <<role, journal, broken, version, moves>>
    BY <1>7 DEF RunQueue
  <2>2. rest \in SUBSET Nat
    BY <1>1
  <2>. HIDE DEF rest
  <2>3. CASE Handled({s}, WakeBoard) /\ loop' = [loop EXCEPT !.alone = rest]
    <3>1. loop' \in [alone : SUBSET Nat, failed : SUBSET Nat] /\ loop'.failed = {}
      BY <1>1, <2>1, <2>2, <2>3
    <3>2. {s} \in SUBSET Subjects /\ {s} # {}
      OBVIOUS
    <3>. QED
      BY <2>1, <2>3, <3>1, <3>2, HandledStep
  <2>4. CASE /\ loop' = [alone |-> rest, failed |-> PendingEvents(s)]
             /\ UNCHANGED <<log, delivery, failures>>
    <3>1. loop' \in [alone : SUBSET Nat, failed : SUBSET Nat] /\ loop'.failed = PendingEvents(s)
      BY <1>3, <2>2, <2>4
    <3>. QED
      BY <1>1, <1>4, <2>1, <2>4, <3>1, QuietLoop
  <2>5. CASE loop' = [loop EXCEPT !.alone = rest] /\ UNCHANGED <<log, delivery, failures>>
    <3>1. loop' \in [alone : SUBSET Nat, failed : SUBSET Nat] /\ loop'.failed = {}
      BY <1>1, <2>1, <2>2, <2>5
    <3>. QED
      BY <1>1, <2>1, <2>5, <3>1, QuietLoop
  <2>. QED
    BY <1>7, <2>3, <2>4, <2>5 DEF RunQueue, rest
<1>8. CASE FailRun
  <2>1. role' = role /\ moves' = moves
    BY <1>8 DEF FailRun
  <2>. QED
    BY <1>1, <1>8, <2>1, FailRunStep
<1>9. CASE CrashLoop
  <2>1. /\ loop' = Idle /\ moves' = moves + 1 /\ moves < MaxMoves
        /\ UNCHANGED <<role, journal, delivery, failures, log, broken, version>>
    BY <1>9 DEF CrashLoop, Move
  <2>. QED
    BY <1>1, <1>2, <2>1, QuietLoop
<1>10. ASSUME NEW s \in Subjects, Break(s)
       PROVE  DeliveryTypeOK(Change, Tasks)' /\ LoopInv' /\ Stays /\ role' = role /\ moves <= moves'
  <2>1. /\ broken' = IF s \in broken THEN broken \ {s} ELSE broken \cup {s}
        /\ moves' = moves + 1 /\ moves < MaxMoves
        /\ UNCHANGED <<role, journal, delivery, failures, log, version, loop>>
    BY <1>10 DEF Break, Move
  <2>2. broken' \subseteq Subjects
    BY <1>1, <2>1
  <2>. QED
    BY <1>1, <2>1, <2>2, QuietLoop DEF LoopOK, LoopInv
<1>11. CASE Upgrade
  <2>1. /\ loop' = Idle /\ moves' = moves + 1 /\ moves < MaxMoves
        /\ version' = 3 - version /\ broken' = {}
        /\ UNCHANGED <<role, journal, delivery, failures, log>>
    BY <1>11 DEF Upgrade, Move
  <2>. QED
    BY <1>1, <1>2, <2>1, QuietLoop
<1>12. moves <= moves
  BY <1>1
<1>. QED
  BY <1>5, <1>6, <1>7, <1>8, <1>9, <1>10, <1>11, <1>12 DEF DeliveryNext

-----------------------------------------------------------------------------
(* What was told *)

(* The messages that carry an event, when one more is written.               *)
LEMMA CarriedByOneMore ==
    ASSUME log \in Seq(Messages), NEW m \in Messages, log' = Append(log, m), NEW i
    PROVE  /\ Carried(i) \subseteq 1 .. Len(log) /\ Len(log) \in Nat
           /\ Carried(i)' = IF i \in m.events THEN Carried(i) \cup {Len(log) + 1} ELSE Carried(i)
           /\ DOMAIN log' = DOMAIN log \cup {Len(log) + 1}
           /\ \A n \in DOMAIN log : log'[n] = log[n]
           /\ log'[Len(log) + 1] = m
<1>1. DOMAIN log = 1 .. Len(log) /\ Len(log) \in Nat
  OBVIOUS
<1>2. /\ DOMAIN log' = DOMAIN log \cup {Len(log) + 1}
      /\ \A n \in DOMAIN log : log'[n] = log[n]
      /\ log'[Len(log) + 1] = m
      /\ Len(log) + 1 \notin DOMAIN log
  <2>1. /\ Len(log') = Len(log) + 1 /\ log' \in Seq(Messages)
        /\ \A n \in 1 .. Len(log) : log'[n] = log[n]
        /\ log'[Len(log) + 1] = m
    BY AppendProperties
  <2>2. DOMAIN log' = 1 .. Len(log) + 1
    BY <2>1
  <2>. QED
    BY <1>1, <2>1, <2>2
<1>3. Carried(i) \subseteq 1 .. Len(log)
  BY <1>1 DEF Carried
<1>4. Carried(i)' = IF i \in m.events THEN Carried(i) \cup {Len(log) + 1} ELSE Carried(i)
  BY <1>2 DEF Carried
<1>. QED
  BY <1>1, <1>2, <1>3, <1>4

(* A step that carries no event further keeps the order of what was told.    *)
LEMMA ToldKept ==
    ASSUME LoopOK, ToldInv, journal' = journal,
           \A i \in DOMAIN journal : Carried(i)' = Carried(i),
           \A n \in DOMAIN log' : log'[n].events \subseteq DOMAIN journal,
           parkedOnce \subseteq parkedOnce',
           \A i \in DOMAIN journal :
              /\ delivery'[i].state = "parked" => i \in parkedOnce'
              /\ i \notin parkedOnce' => delivery'[i].state \in {delivery[i].state, "handled"}
              /\ delivery[i].state = "handled" => delivery'[i].state = "handled"
    PROVE  ToldInv'
<1>1. \A i \in DOMAIN journal' :
         /\ \A n, k \in Carried(i)' : n = k
         /\ Carried(i)' # {} => delivery'[i].state = "handled"
         /\ delivery'[i].state = "parked" => i \in parkedOnce'
  BY DEF ToldInv
<1>2. ASSUME NEW i \in DOMAIN journal, NEW j \in DOMAIN journal,
             i < j, journal[i].subject = journal[j].subject, i \notin parkedOnce', Carried(j)' # {}
      PROVE  /\ delivery'[i].state \in {"none", "handled"}
             /\ \A n \in Carried(i)', k \in Carried(j)' : n <= k
  <2>1. i \notin parkedOnce /\ Carried(j) # {} /\ Carried(i)' = Carried(i) /\ Carried(j)' = Carried(j)
    BY <1>2
  <2>2. /\ delivery[i].state \in {"none", "handled"}
        /\ \A n \in Carried(i), k \in Carried(j) : n <= k
    BY <1>2, <2>1 DEF ToldInv
  <2>. QED
    BY <1>2, <2>1, <2>2
<1>. QED
  BY <1>1, <1>2 DEF ToldInv

(* A run tells events that were not told; those before them in their queue   *)
(* are told with them, were told before, or were parked.                     *)
LEMMA ToldByRun ==
    ASSUME LoopOK, ToldInv, NEW due \in SUBSET Subjects, Tells(due), NoteParked,
           DOMAIN delivery' = DOMAIN journal
    PROVE  ToldInv'
<1>. DEFINE evs == RunEvents(due)
            L == Len(log)
<1>1. /\ journal' = journal
      /\ \A i \in DOMAIN journal :
            delivery'[i].state = IF i \in evs THEN "handled" ELSE delivery[i].state
  BY DEF Tells
<1>2. /\ evs \subseteq DOMAIN journal /\ Told(due) \in Messages /\ Told(due).events = evs
      /\ \A i \in DOMAIN journal :
            i \in evs <=> journal[i].subject \in due /\ delivery[i].state = "pending"
  BY RunEventsWait DEF Told
<1>3. /\ parkedOnce \subseteq parkedOnce'
      /\ \A i \in DOMAIN journal : delivery'[i].state = "parked" => i \in parkedOnce'
  BY DEF NoteParked
<1>. HIDE DEF evs
<1>4. CASE Coordinators = {}
  <2>1. log' = log
    BY <1>4 DEF Tells
  <2>2. /\ \A i \in DOMAIN journal : Carried(i)' = Carried(i)
        /\ \A n \in DOMAIN log' : log'[n].events \subseteq DOMAIN journal
    BY <2>1 DEF Carried, ToldInv
  <2>3. \A i \in DOMAIN journal :
              /\ delivery'[i].state = "parked" => i \in parkedOnce'
              /\ i \notin parkedOnce' => delivery'[i].state \in {delivery[i].state, "handled"}
              /\ delivery[i].state = "handled" => delivery'[i].state = "handled"
    BY <1>1, <1>3
  <2>. QED
    BY <1>1, <1>3, <2>2, <2>3, ToldKept
<1>5. CASE Coordinators # {}
  <2>1. log' = Append(log, Told(due)) /\ log \in Seq(Messages)
    BY <1>5, LoopTypes DEF Tells, LoopOK
  <2>2. /\ L \in Nat
        /\ \A i : /\ Carried(i) \subseteq 1..L
                  /\ Carried(i)' = IF i \in evs THEN Carried(i) \cup {L + 1} ELSE Carried(i)
    BY <1>2, <2>1, CarriedByOneMore
  <2>3. \A n \in DOMAIN log' : log'[n].events \subseteq DOMAIN journal
    BY <1>2, <2>1, CarriedByOneMore DEF ToldInv
  <2>4. \A i \in evs : Carried(i) = {} /\ Carried(i)' = {L + 1}
    BY <1>2, <2>2 DEF ToldInv
  <2>. HIDE DEF L
  <2>5. \A i \in DOMAIN journal :
           /\ \A n, k \in Carried(i)' : n = k
           /\ Carried(i)' # {} => delivery'[i].state = "handled"
           /\ delivery'[i].state = "parked" => i \in parkedOnce'
    <3> SUFFICES ASSUME NEW i \in DOMAIN journal
                 PROVE  /\ \A n, k \in Carried(i)' : n = k
                        /\ Carried(i)' # {} => delivery'[i].state = "handled"
      BY <1>3
    <3>1. CASE i \in evs
      BY <1>1, <2>4, <3>1
    <3>2. CASE i \notin evs
      <4>1. Carried(i)' = Carried(i) /\ delivery'[i].state = delivery[i].state
        BY <1>1, <2>2, <3>2
      <4>. QED
        BY <4>1 DEF ToldInv
    <3>. QED
      BY <3>1, <3>2
  <2>6. ASSUME NEW i \in DOMAIN journal, NEW j \in DOMAIN journal,
               i < j, journal[i].subject = journal[j].subject, i \notin parkedOnce', Carried(j)' # {}
        PROVE  /\ delivery'[i].state \in {"none", "handled"}
               /\ \A n \in Carried(i)', k \in Carried(j)' : n <= k
    <3>1. i \notin parkedOnce
      BY <1>3, <2>6
    <3>2. CASE j \in evs
      <4>1. journal[i].subject \in due
        BY <1>2, <2>6, <3>2
      <4>2. delivery[i].state \in {"none", "pending", "handled", "parked"}
        BY LoopTypes DEF LoopOK, Deliveries
      <4>3. delivery'[i].state \in {"none", "handled"}
        BY <1>1, <1>2, <3>1, <4>1, <4>2 DEF ToldInv
      <4>4. \A n \in Carried(i)' : n <= L + 1
        BY <2>2
      <4>. QED
        BY <2>4, <3>2, <4>3, <4>4
    <3>3. CASE j \notin evs
      <4>1. Carried(j)' = Carried(j) /\ Carried(j) # {}
        BY <2>2, <2>6, <3>3
      <4>2. /\ delivery[i].state \in {"none", "handled"}
            /\ \A n \in Carried(i), k \in Carried(j) : n <= k
        BY <2>6, <3>1, <4>1 DEF ToldInv
      <4>3. i \notin evs
        BY <1>2, <4>2
      <4>. QED
        BY <1>1, <2>2, <4>1, <4>2, <4>3
    <3>. QED
      BY <3>2, <3>3
  <2>. QED
    BY <1>1, <2>3, <2>5, <2>6 DEF ToldInv
<1>. QED
  BY <1>4, <1>5

(* So does every step of the loop.                                           *)
LEMMA ToldByLoop ==
    ASSUME LoopOK, ToldInv, DeliveryNext(WakeBoard), NoteParked
    PROVE  ToldInv'
<1>1. /\ DOMAIN delivery = DOMAIN journal
      /\ log \in Seq(Messages)
      /\ \A i \in DOMAIN journal : delivery[i].state \in {"none", "pending", "handled", "parked"}
  BY LoopTypes DEF LoopOK, Deliveries
<1>2. DeliveryTypeOK(Change, Tasks)'
  BY LoopStep
<1>3. Len(delivery') = Len(journal') /\ journal' \in Seq(Change)
      /\ delivery' \in Seq([state : {"none", "pending", "handled", "parked"}, by : 0..2])
  BY <1>2 DEF DeliveryTypeOK
<1>4. DOMAIN delivery' = DOMAIN journal'
  <2>1. DOMAIN delivery' = 1 .. Len(delivery') /\ DOMAIN journal' = 1 .. Len(journal')
    BY <1>3
  <2>. QED
    BY <1>3, <2>1
<1>5. /\ parkedOnce \subseteq parkedOnce'
      /\ \A i \in DOMAIN delivery' : delivery'[i].state = "parked" => i \in parkedOnce'
  BY DEF NoteParked
<1>6. CASE Stays
  <2>1. journal' = journal /\ delivery' = delivery /\ log' = log
    BY <1>6 DEF Stays
  <2>2. /\ \A i \in DOMAIN journal : Carried(i)' = Carried(i)
        /\ \A n \in DOMAIN log' : log'[n].events \subseteq DOMAIN journal
    BY <2>1 DEF Carried, ToldInv
  <2>. QED
    BY <1>1, <1>5, <2>1, <2>2, ToldKept
<1>7. ASSUME NEW due \in SUBSET Subjects, Tells(due)
      PROVE  ToldInv'
  <2>1. journal' = journal
    BY <1>7 DEF Tells
  <2>. QED
    BY <1>4, <1>7, <2>1, ToldByRun
<1>8. CASE Parks(loop.failed)
  <2>1. /\ journal' = journal
        /\ \A i \in loop.failed : delivery[i].state = "pending"
        /\ \A i \in DOMAIN journal :
              delivery'[i].state = IF i \in loop.failed THEN "parked" ELSE delivery[i].state
    BY <1>8 DEF Parks
  <2>2. /\ \A i \in DOMAIN journal : Carried(i)' = Carried(i)
        /\ \A n \in DOMAIN log' : log'[n].events \subseteq DOMAIN journal
    <3>1. CASE log' = log
      BY <3>1 DEF Carried, ToldInv
    <3>2. ASSUME NEW m \in Messages, m.events = {}, log' = Append(log, m)
          PROVE  /\ \A i \in DOMAIN journal : Carried(i)' = Carried(i)
                 /\ \A n \in DOMAIN log' : log'[n].events \subseteq DOMAIN journal
      BY <1>1, <3>2, CarriedByOneMore DEF ToldInv
    <3>. QED
      BY <1>8, <3>1, <3>2 DEF Parks
  <2>3. \A i \in DOMAIN journal :
              /\ delivery'[i].state = "parked" => i \in parkedOnce'
              /\ i \notin parkedOnce' => delivery'[i].state \in {delivery[i].state, "handled"}
              /\ delivery[i].state = "handled" => delivery'[i].state = "handled"
    BY <1>4, <1>5, <2>1
  <2>. QED
    BY <1>5, <2>1, <2>2, <2>3, ToldKept
<1>9. ASSUME NEW events \in SUBSET DOMAIN journal, Replays(events)
      PROVE  ToldInv'
  <2>1. /\ journal' = journal /\ log' = log
        /\ \A i \in events : delivery[i].state = "parked"
        /\ \A i \in DOMAIN journal :
              delivery'[i].state = IF i \in events THEN "pending" ELSE delivery[i].state
    BY <1>9 DEF Replays
  <2>2. /\ \A i \in DOMAIN journal : Carried(i)' = Carried(i)
        /\ \A n \in DOMAIN log' : log'[n].events \subseteq DOMAIN journal
    BY <2>1 DEF Carried, ToldInv
  <2>3. \A i \in events : i \in parkedOnce'
    BY <1>5, <2>1 DEF ToldInv
  <2>4. \A i \in DOMAIN journal :
              /\ delivery'[i].state = "parked" => i \in parkedOnce'
              /\ i \notin parkedOnce' => delivery'[i].state \in {delivery[i].state, "handled"}
              /\ delivery[i].state = "handled" => delivery'[i].state = "handled"
    BY <1>4, <1>5, <2>1, <2>3
  <2>. QED
    BY <1>5, <2>1, <2>2, <2>4, ToldKept
<1>. QED
  BY <1>6, <1>7, <1>8, <1>9, LoopStep

-----------------------------------------------------------------------------
(* The board's state *)

(* What the board's typing says, part by part.                               *)
LEMMA BoardTypes ==
    ASSUME TypeOK
    PROVE  /\ DeliveryTypeOK(Change, Tasks)
           /\ feed \in Seq(Change) /\ Len(feed) \in Nat /\ DOMAIN feed = 1 .. Len(feed)
           /\ \A n \in DOMAIN feed : feed[n] \in Change
           /\ made \in Nat /\ moves \in Nat /\ made <= moves /\ moves <= MaxMoves /\ MaxMoves \in Nat
           /\ cursor \in Nat
           /\ page \in [from : Int, changes : Seq(Change)]
           /\ page.changes \in Seq(Change) /\ page.from \in Int
           /\ Len(page.changes) \in Nat /\ DOMAIN page.changes = 1 .. Len(page.changes)
           /\ \A k \in DOMAIN page.changes : page.changes[k] \in Change
           /\ since \in Nat /\ (since = NoSight \/ since <= made) /\ made < NoSight
           /\ task \in [Tasks -> [rev : Nat, to : {"READY", "other", "none"}, stamp : 0..made]]
           /\ attempt \in [Tasks -> {"none", "open", "closed"}]
           /\ granted \in BOOLEAN /\ informed \in BOOLEAN
           /\ active \subseteq Coordinators /\ skipped \subseteq Tasks /\ kept \in Nat
           /\ parkedOnce \subseteq DOMAIN journal
<1>1. DeliveryTypeOK(Change, Tasks) /\ BoardTypeOK
  BY DEF TypeOK
<1>2. moves \in 0..MaxMoves /\ MaxMoves \in Nat
  BY <1>1, LoopTypes, MovesAssumption
<1>3. /\ feed \in Seq(Change) /\ made \in 0..moves /\ cursor \in Nat
      /\ page \in [from : Int, changes : Seq(Change)]
      /\ since \in 0..made \cup {NoSight}
      /\ task \in [Tasks -> [rev : Nat, to : {"READY", "other", "none"}, stamp : 0..made]]
      /\ attempt \in [Tasks -> {"none", "open", "closed"}]
      /\ granted \in BOOLEAN /\ informed \in BOOLEAN
      /\ active \subseteq Coordinators /\ skipped \subseteq Tasks /\ kept \in Nat
      /\ parkedOnce \subseteq DOMAIN journal
  BY <1>1 DEF BoardTypeOK
<1>4. page.changes \in Seq(Change) /\ page.from \in Int
  BY <1>3
<1>5. /\ Len(feed) \in Nat /\ DOMAIN feed = 1 .. Len(feed)
      /\ \A n \in DOMAIN feed : feed[n] \in Change
  BY <1>3
<1>6. /\ Len(page.changes) \in Nat /\ DOMAIN page.changes = 1 .. Len(page.changes)
      /\ \A k \in DOMAIN page.changes : page.changes[k] \in Change
  BY <1>4
<1>7. made \in Nat /\ moves \in Nat /\ made <= moves /\ moves <= MaxMoves
  BY <1>2, <1>3
<1>8. since \in Nat /\ (since = NoSight \/ since <= made) /\ made < NoSight
  BY <1>2, <1>3, <1>7 DEF NoSight
<1>. QED
  BY <1>1, <1>2, <1>3, <1>4, <1>5, <1>6, <1>7, <1>8

(* The changes aicrewd knows of are changes.                                 *)
LEMMA SeenAreChanges ==
    ASSUME TypeOK
    PROVE  /\ Seen \subseteq Change /\ Ahead \subseteq Seen
           /\ \A c \in Change : c.subject \in Tasks /\ c.rev \in Nat /\ c.to \in {"READY", "other"}
                                /\ c.own \in BOOLEAN /\ c.stamp \in Nat
<1>1. Range(feed) \subseteq Change
  BY BoardTypes DEF Range
<1>2. Range(page.changes) \subseteq Change
  BY BoardTypes DEF Range
<1>3. Range(journal) \subseteq Change
  BY BoardTypes, LoopTypes DEF Range
<1>4. {feed[n] : n \in cursor + 1 .. Len(feed)} \subseteq Range(feed)
  <2>1. \A n \in cursor + 1 .. Len(feed) : n \in DOMAIN feed
    BY BoardTypes
  <2>. QED
    BY <2>1 DEF Range
<1>5. Seen \subseteq Change
  BY <1>1, <1>2, <1>3 DEF Seen
<1>6. Ahead \subseteq Seen
  BY <1>4 DEF Ahead, Seen
<1>7. \A c \in Change : c.subject \in Tasks /\ c.rev \in Nat /\ c.to \in {"READY", "other"}
                        /\ c.own \in BOOLEAN /\ c.stamp \in Nat
  BY DEF Change
<1>. QED
  BY <1>5, <1>6, <1>7

(* Messages that are written stay written.                                   *)
LEMMA LogGrows ==
    ASSUME LoopOK, log' = log \/ \E m \in Messages : log' = Append(log, m)
    PROVE  Range(log) \subseteq Range(log')
<1>1. log \in Seq(Messages)
  BY LoopTypes DEF LoopOK
<1>2. CASE log' = log
  BY <1>2
<1>3. ASSUME NEW m \in Messages, log' = Append(log, m)
      PROVE  Range(log) \subseteq Range(log')
  <2>1. DOMAIN log \subseteq DOMAIN log' /\ \A n \in DOMAIN log : log'[n] = log[n]
    BY <1>1, <1>3, CarriedByOneMore
  <2>. QED
    BY <2>1 DEF Range
<1>. QED
  BY <1>2, <1>3

(* The loop takes an event that waits from a coordinator's sight only by     *)
(* telling it.                                                               *)
LEMMA ReadyByLoop ==
    ASSUME LoopOK, active \subseteq Coordinators, ReadyIsTold, DeliveryNext(WakeBoard),
           UNCHANGED boardVars
    PROVE  ReadyIsTold'
<1>0. /\ log \in Seq(Messages)
      /\ UNCHANGED <<task, attempt, granted, active, informed>>
      /\ \A i \in DOMAIN journal : delivery[i].state \in {"none", "pending", "handled", "parked"}
  BY LoopTypes DEF boardVars, LoopOK, Deliveries
<1> SUFFICES ASSUME NEW a \in active, NEW t \in Tasks, NEW i \in DOMAIN journal', journal' = journal,
                    granted /\ informed /\ attempt[t] = "none", task[t].to = "READY",
                    journal[i].subject = t /\ journal[i].stamp = task[t].stamp
             PROVE  \/ delivery'[i].state \in {"pending", "parked"}
                    \/ \E m \in Range(log') : a \in m.to /\ (i \in m.events \/ t \in m.ready)
  <2>1. journal' = journal
    BY LoopStep DEF Stays, Tells, Parks, Replays
  <2>. QED
    BY <1>0, <2>1 DEF ReadyIsTold
<1>1. i \in DOMAIN journal
  OBVIOUS
<1>2. \/ delivery[i].state \in {"pending", "parked"}
      \/ \E m \in Range(log) : a \in m.to /\ (i \in m.events \/ t \in m.ready)
  BY <1>1 DEF ReadyIsTold
<1>3. CASE Stays
  BY <1>2, <1>3 DEF Stays
<1>4. ASSUME NEW due \in SUBSET Subjects, Tells(due)
      PROVE  \/ delivery'[i].state \in {"pending", "parked"}
             \/ \E m \in Range(log') : a \in m.to /\ (i \in m.events \/ t \in m.ready)
  <2>1. Coordinators # {} /\ log' = Append(log, Told(due)) /\ a \in Coordinators
    BY <1>4 DEF Tells
  <2>2. Told(due) \in Messages
    BY RunEventsWait
  <2>3. Range(log) \subseteq Range(log')
    BY <2>1, <2>2, LogGrows
  <2>4. Told(due) \in Range(log')
    <3>. DEFINE m == Told(due)
    <3>. HIDE DEF m
    <3>1. m \in Messages /\ log' = Append(log, m)
      BY <2>1, <2>2 DEF m
    <3>2. Len(log) + 1 \in DOMAIN log' /\ log'[Len(log) + 1] = m
      BY <1>0, <3>1, CarriedByOneMore
    <3>3. m \in Range(log')
      BY <3>2 DEF Range
    <3>. QED
      BY <3>3 DEF m
  <2>5. a \in Told(due).to /\ Told(due).events = RunEvents(due)
    BY <2>1 DEF Told
  <2>6. delivery'[i].state = IF i \in RunEvents(due) THEN "handled" ELSE delivery[i].state
    BY <1>1, <1>4 DEF Tells
  <2>. QED
    BY <1>2, <2>3, <2>4, <2>5, <2>6
<1>5. CASE Parks(loop.failed)
  <2>1. Range(log) \subseteq Range(log')
    BY <1>5, LogGrows DEF Parks
  <2>2. delivery'[i].state = IF i \in loop.failed THEN "parked" ELSE delivery[i].state
    BY <1>1, <1>5 DEF Parks
  <2>. QED
    BY <1>2, <2>1, <2>2
<1>6. ASSUME NEW events \in SUBSET DOMAIN journal, Replays(events)
      PROVE  \/ delivery'[i].state \in {"pending", "parked"}
             \/ \E m \in Range(log') : a \in m.to /\ (i \in m.events \/ t \in m.ready)
  <2>1. log' = log /\ delivery'[i].state = IF i \in events THEN "pending" ELSE delivery[i].state
    BY <1>1, <1>6 DEF Replays
  <2>. QED
    BY <1>2, <2>1
<1>. QED
  BY <1>3, <1>4, <1>5, <1>6, LoopStep

(* The loop keeps the whole invariant.                                       *)
LEMMA LoopKeepsAll ==
    ASSUME FeedWakesInv, DeliveryNext(WakeBoard), NoteParked, UNCHANGED boardVars
    PROVE  FeedWakesInv'
<1>1. TypeOK /\ LoopOK /\ BoardInv /\ ToldInv /\ ReadyIsTold
  BY DEF FeedWakesInv, LoopOK, TypeOK
<1>2. /\ DeliveryTypeOK(Change, Tasks)' /\ LoopInv' /\ role' = role /\ moves <= moves'
      /\ journal' = journal
  BY <1>1, LoopStep DEF Stays, Tells, Parks, Replays
<1>3. UNCHANGED <<feed, made, cursor, page, since, task, attempt, granted, active, informed, skipped, kept>>
  BY DEF boardVars
<1>4. parkedOnce' \subseteq DOMAIN journal'
  <2>1. /\ Len(delivery') = Len(journal') /\ journal' \in Seq(Change)
        /\ delivery' \in Seq([state : {"none", "pending", "handled", "parked"}, by : 0..2])
    BY <1>2 DEF DeliveryTypeOK
  <2>2. DOMAIN delivery' = DOMAIN journal'
    <3>1. DOMAIN delivery' = 1 .. Len(delivery') /\ DOMAIN journal' = 1 .. Len(journal')
      BY <2>1
    <3>. QED
      BY <2>1, <3>1
  <2>. QED
    BY <1>1, <1>2, <2>2, BoardTypes DEF NoteParked
<1>5. BoardTypeOK'
  <2>1. made \in 0..moves'
    <3>1. moves' \in 0..MaxMoves
      BY <1>2 DEF DeliveryTypeOK
    <3>. QED
      BY <1>1, <1>2, <3>1, BoardTypes
  <2>2. Coordinators' = Coordinators
    BY <1>2 DEF Coordinators
  <2>. QED
    BY <1>1, <1>3, <1>4, <2>1, <2>2 DEF BoardTypeOK, TypeOK
<1>6. BoardInv'
  <2>1. FeedInv' /\ PageInv' /\ ReadInv'
    BY <1>1, <1>3 DEF BoardInv, FeedInv, PageInv, ReadInv
  <2>2. Seen' = Seen /\ Ahead' = Ahead
    BY <1>2, <1>3 DEF Seen, Ahead
  <2>3. SeenInv'
    BY <1>1, <1>3, <2>2 DEF BoardInv, SeenInv
  <2>4. AheadInv'
    BY <1>1, <1>2, <1>3, <2>2 DEF BoardInv, AheadInv, HistoryRead
  <2>. QED
    BY <2>1, <2>3, <2>4 DEF BoardInv
<1>7. ToldInv'
  BY <1>1, ToldByLoop
<1>8. ReadyIsTold'
  BY <1>1, BoardTypes, ReadyByLoop
<1>. QED
  BY <1>2, <1>5, <1>6, <1>7, <1>8 DEF FeedWakesInv, TypeOK

-----------------------------------------------------------------------------
(* Steps around the loop *)

(* A step that leaves the journal and its deliveries alone, and writes no    *)
(* event into a message, keeps what is known of the loop.                    *)
LEMMA LoopRests ==
    ASSUME LoopOK, ToldInv,
           UNCHANGED <<journal, delivery, failures, broken, version, loop, parkedOnce>>,
           role' \in [Agents -> {"worker", "coordinator"}], moves' \in 0..MaxMoves,
           log' = log \/ \E m \in Messages : m.events = {} /\ log' = Append(log, m)
    PROVE  DeliveryTypeOK(Change, Tasks)' /\ LoopInv' /\ ToldInv'
<1>1. log \in Seq(Messages) /\ DOMAIN delivery = DOMAIN journal
  BY LoopTypes DEF LoopOK
<1>2. /\ log' \in Seq(Messages)
      /\ \A i \in DOMAIN journal : Carried(i)' = Carried(i)
      /\ \A n \in DOMAIN log' : log'[n].events \subseteq DOMAIN journal
  <2>1. CASE log' = log
    BY <1>1, <2>1 DEF Carried, ToldInv
  <2>2. ASSUME NEW m \in Messages, m.events = {}, log' = Append(log, m)
        PROVE  /\ log' \in Seq(Messages)
               /\ \A i \in DOMAIN journal : Carried(i)' = Carried(i)
               /\ \A n \in DOMAIN log' : log'[n].events \subseteq DOMAIN journal
    <3>1. log' \in Seq(Messages)
      BY <1>1, <2>2, AppendProperties
    <3>2. /\ \A i \in DOMAIN journal : Carried(i)' = Carried(i)
          /\ \A n \in DOMAIN log' : log'[n].events \subseteq DOMAIN journal
      BY <1>1, <2>2, CarriedByOneMore DEF ToldInv
    <3>. QED
      BY <3>1, <3>2
  <2>. QED
    BY <2>1, <2>2
<1>3. DeliveryTypeOK(Change, Tasks)'
  BY <1>2 DEF LoopOK, DeliveryTypeOK, Messages
<1>4. LoopInv'
  BY DEF LoopOK, LoopInv
<1>5. \A i \in DOMAIN journal :
         /\ delivery'[i].state = "parked" => i \in parkedOnce'
         /\ i \notin parkedOnce' => delivery'[i].state \in {delivery[i].state, "handled"}
         /\ delivery[i].state = "handled" => delivery'[i].state = "handled"
  BY DEF ToldInv
<1>6. ToldInv'
  BY <1>2, <1>5, ToldKept
<1>. QED
  BY <1>3, <1>4, <1>6

(* Nothing new is seen.                                                      *)
LEMMA SeenKept ==
    ASSUME TypeOK, SeenInv, Seen' \subseteq Seen, made' = made, task' = task,
           \A t \in Tasks : attempt[t] # "none" => attempt'[t] # "none"
    PROVE  SeenInv'
<1>1. \A c \in Seen' : c \in Seen /\ c.subject \in Tasks
  BY SeenAreChanges
<1>. QED
  BY <1>1 DEF SeenInv

(* Nothing new is ahead.                                                     *)
LEMMA AheadKept ==
    ASSUME AheadInv, Ahead' \subseteq Ahead, journal' = journal, since' = since,
           informed' => informed /\ granted' = granted
    PROVE  AheadInv'
<1>1. \A d \in Ahead' : d \in Ahead
  OBVIOUS
<1>2. \A c \in Range(journal)', d \in Ahead' : d.stamp > since' => c.stamp < d.stamp
  BY <1>1 DEF AheadInv
<1>3. informed' => granted' /\ HistoryRead'
  BY <1>1 DEF AheadInv, HistoryRead
<1>. QED
  BY <1>2, <1>3 DEF AheadInv

(* Who was told of a READY task is still told.                               *)
LEMMA ReadyKept ==
    ASSUME ReadyIsTold, UNCHANGED <<journal, delivery, log, task>>, active' \subseteq active,
           informed' => informed /\ granted' = granted,
           \A t \in Tasks : attempt'[t] = "none" => attempt[t] = "none"
    PROVE  ReadyIsTold'
BY DEF ReadyIsTold


(* The team's attempt for a task moves on.                                   *)
LEMMA AttemptKeepsAll ==
    ASSUME FeedWakesInv, NEW t \in Tasks, MoveAttempt(t)
    PROVE  FeedWakesInv'
<1>1. TypeOK /\ LoopOK /\ BoardInv /\ ToldInv /\ ReadyIsTold
  BY DEF FeedWakesInv, LoopOK, TypeOK
<1>2. /\ moves' = moves + 1 /\ moves < MaxMoves
      /\ attempt' = [attempt EXCEPT ![t] = IF @ = "none" THEN "open" ELSE "closed"]
      /\ UNCHANGED <<role, journal, delivery, failures, log, broken, version, loop>>
      /\ UNCHANGED <<feed, made, cursor, page, since, task, granted, active, informed, skipped, kept, parkedOnce>>
  BY DEF MoveAttempt, Move
<1>3. /\ attempt' \in [Tasks -> {"none", "open", "closed"}]
      /\ \A s \in Tasks : attempt'[s] = "none" => attempt[s] = "none"
      /\ \A s \in Tasks : attempt[s] # "none" => attempt'[s] # "none"
  BY <1>1, <1>2, BoardTypes
<1>4. moves' \in 0..MaxMoves /\ made' \in 0..moves' /\ role \in [Agents -> {"worker", "coordinator"}]
  <2>1. role \in [Agents -> {"worker", "coordinator"}]
    BY <1>1 DEF LoopOK, DeliveryTypeOK
  <2>. QED
    BY <1>1, <1>2, <2>1, BoardTypes
<1>5. DeliveryTypeOK(Change, Tasks)' /\ LoopInv' /\ ToldInv'
  BY <1>1, <1>2, <1>4, LoopRests
<1>6. BoardTypeOK'
  BY <1>1, <1>2, <1>3, <1>4 DEF TypeOK, BoardTypeOK, Coordinators
<1>7. FeedInv' /\ PageInv' /\ ReadInv'
  BY <1>1, <1>2 DEF BoardInv, FeedInv, PageInv, ReadInv
<1>8. Seen' = Seen /\ Ahead' = Ahead
  BY <1>2 DEF Seen, Ahead
<1>9. SeenInv'
  BY <1>1, <1>2, <1>3, <1>8, SeenKept DEF BoardInv
<1>10. AheadInv'
  BY <1>1, <1>2, <1>8, AheadKept DEF BoardInv
<1>11. ReadyIsTold'
  BY <1>1, <1>2, <1>3, ReadyKept
<1>. QED
  BY <1>5, <1>6, <1>7, <1>9, <1>10, <1>11 DEF FeedWakesInv, TypeOK, BoardInv

(* The team's grant comes or goes.                                           *)
LEMMA GrantsKeepAll ==
    ASSUME FeedWakesInv, RecordGrants
    PROVE  FeedWakesInv'
<1>1. TypeOK /\ LoopOK /\ BoardInv /\ ToldInv /\ ReadyIsTold
  BY DEF FeedWakesInv, LoopOK, TypeOK
<1>2. /\ moves' = moves + 1 /\ moves < MaxMoves
      /\ granted' = ~granted /\ informed' = FALSE
      /\ UNCHANGED <<role, journal, delivery, failures, log, broken, version, loop>>
      /\ UNCHANGED <<feed, made, cursor, page, since, task, attempt, active, skipped, kept, parkedOnce>>
  BY DEF RecordGrants, Move
<1>3. granted' \in BOOLEAN /\ informed' \in BOOLEAN
  BY <1>2
<1>4. moves' \in 0..MaxMoves /\ made' \in 0..moves' /\ role \in [Agents -> {"worker", "coordinator"}]
  <2>1. role \in [Agents -> {"worker", "coordinator"}]
    BY <1>1 DEF LoopOK, DeliveryTypeOK
  <2>. QED
    BY <1>1, <1>2, <2>1, BoardTypes
<1>5. DeliveryTypeOK(Change, Tasks)' /\ LoopInv' /\ ToldInv'
  BY <1>1, <1>2, <1>4, LoopRests
<1>6. BoardTypeOK'
  BY <1>1, <1>2, <1>3, <1>4 DEF TypeOK, BoardTypeOK, Coordinators
<1>7. FeedInv' /\ PageInv' /\ ReadInv'
  BY <1>1, <1>2 DEF BoardInv, FeedInv, PageInv, ReadInv
<1>8. Seen' = Seen /\ Ahead' = Ahead
  BY <1>2 DEF Seen, Ahead
<1>9. SeenInv'
  BY <1>1, <1>2, <1>8, SeenKept DEF BoardInv
<1>10. AheadInv' /\ ReadyIsTold'
  BY <1>1, <1>2, <1>8, AheadKept, ReadyKept DEF BoardInv
<1>. QED
  BY <1>5, <1>6, <1>7, <1>9, <1>10 DEF FeedWakesInv, TypeOK, BoardInv

(* A member's role changes, which ends its session.                          *)
LEMMA RoleKeepsAll ==
    ASSUME FeedWakesInv, NEW a \in Agents, SetRole(a)
    PROVE  FeedWakesInv'
<1>1. TypeOK /\ LoopOK /\ BoardInv /\ ToldInv /\ ReadyIsTold
  BY DEF FeedWakesInv, LoopOK, TypeOK
<1>2. /\ moves' = moves + 1 /\ moves < MaxMoves
      /\ role' = [role EXCEPT ![a] = IF @ = "worker" THEN "coordinator" ELSE "worker"]
      /\ active' = active \ {a}
      /\ UNCHANGED <<journal, delivery, failures, log, broken, version, loop>>
      /\ UNCHANGED <<feed, made, cursor, page, since, task, attempt, granted, informed, skipped, kept, parkedOnce>>
  BY DEF SetRole, Move
<1>3. role \in [Agents -> {"worker", "coordinator"}] /\ role' \in [Agents -> {"worker", "coordinator"}]
  <2>1. role \in [Agents -> {"worker", "coordinator"}]
    BY <1>1 DEF LoopOK, DeliveryTypeOK
  <2>. QED
    BY <1>2, <2>1
<1>4. moves' \in 0..MaxMoves /\ made' \in 0..moves'
  BY <1>1, <1>2, BoardTypes
<1>5. DeliveryTypeOK(Change, Tasks)' /\ LoopInv' /\ ToldInv'
  BY <1>1, <1>2, <1>3, <1>4, LoopRests
<1>6. active' \subseteq Coordinators' /\ active' \subseteq active
  BY <1>1, <1>2, <1>3, BoardTypes DEF Coordinators
<1>7. BoardTypeOK'
  BY <1>1, <1>2, <1>4, <1>6 DEF TypeOK, BoardTypeOK
<1>8. FeedInv' /\ PageInv' /\ ReadInv'
  BY <1>1, <1>2 DEF BoardInv, FeedInv, PageInv, ReadInv
<1>9. Seen' = Seen /\ Ahead' = Ahead
  BY <1>2 DEF Seen, Ahead
<1>10. SeenInv'
  BY <1>1, <1>2, <1>9, SeenKept DEF BoardInv
<1>11. AheadInv' /\ ReadyIsTold'
  BY <1>1, <1>2, <1>6, <1>9, AheadKept, ReadyKept DEF BoardInv
<1>. QED
  BY <1>5, <1>7, <1>8, <1>10, <1>11 DEF FeedWakesInv, TypeOK, BoardInv

(* A coordinator's session starts: it is told the tasks that are READY.      *)
LEMMA StartKeepsAll ==
    ASSUME FeedWakesInv, NEW a \in Agents, StartCoordinator(a)
    PROVE  FeedWakesInv'
<1>1. TypeOK /\ LoopOK /\ BoardInv /\ ToldInv /\ ReadyIsTold
  BY DEF FeedWakesInv, LoopOK, TypeOK
<1>2. /\ moves' = moves + 1 /\ moves < MaxMoves
      /\ a \in Coordinators /\ active' = {a}
      /\ informed' = (granted /\ HistoryRead)
      /\ UNCHANGED <<role, journal, delivery, failures, broken, version, loop>>
      /\ UNCHANGED <<feed, made, cursor, page, since, task, attempt, granted, skipped, kept, parkedOnce>>
  BY DEF StartCoordinator, Move
<1>. DEFINE m == [Message(Coordinators) EXCEPT !.ready = ReadyTasks]
<1>3. m = [to |-> Coordinators, events |-> {}, ready |-> ReadyTasks, parked |-> {}]
  BY DEF Message
<1>4. m \in Messages /\ m.events = {} /\ m.to = Coordinators /\ m.ready = ReadyTasks
  BY <1>1, <1>3, LoopTypes DEF Messages, LoopOK, ReadyTasks
<1>5. log' = IF ReadyTasks = {} \/ Coordinators = {} THEN log ELSE Append(log, m)
  BY DEF StartCoordinator, NoticeReadyTasks
<1>. HIDE DEF m
<1>6. role \in [Agents -> {"worker", "coordinator"}] /\ moves' \in 0..MaxMoves /\ made' \in 0..moves'
  <2>1. role \in [Agents -> {"worker", "coordinator"}]
    BY <1>1 DEF LoopOK, DeliveryTypeOK
  <2>. QED
    BY <1>1, <1>2, <2>1, BoardTypes
<1>7. DeliveryTypeOK(Change, Tasks)' /\ LoopInv' /\ ToldInv'
  BY <1>1, <1>2, <1>4, <1>5, <1>6, LoopRests
<1>8. informed' \in BOOLEAN /\ active' \subseteq Coordinators'
  BY <1>2 DEF Coordinators, HistoryRead
<1>9. BoardTypeOK'
  BY <1>1, <1>2, <1>6, <1>8 DEF TypeOK, BoardTypeOK
<1>10. FeedInv' /\ PageInv' /\ ReadInv'
  BY <1>1, <1>2 DEF BoardInv, FeedInv, PageInv, ReadInv
<1>11. Seen' = Seen /\ Ahead' = Ahead
  BY <1>2 DEF Seen, Ahead
<1>12. SeenInv'
  BY <1>1, <1>2, <1>11, SeenKept DEF BoardInv
<1>13. AheadInv'
  <2>1. HistoryRead' = HistoryRead
    BY <1>2, <1>11 DEF HistoryRead
  <2>2. \A c \in Range(journal), d \in Ahead : d.stamp > since => c.stamp < d.stamp
    BY <1>1 DEF BoardInv, AheadInv
  <2>. QED
    BY <1>2, <1>11, <2>1, <2>2 DEF AheadInv
<1>14. ReadyIsTold'
  <2> SUFFICES ASSUME NEW t \in Tasks, granted, attempt[t] = "none", task[t].to = "READY"
               PROVE  \E n \in Range(log') : a \in n.to /\ t \in n.ready
    BY <1>2 DEF ReadyIsTold
  <2>1. t \in ReadyTasks
    BY DEF ReadyTasks
  <2>2. log' = Append(log, m) /\ log \in Seq(Messages)
    BY <1>1, <1>2, <1>5, <2>1, LoopTypes DEF LoopOK
  <2>3. Len(log) + 1 \in DOMAIN log' /\ log'[Len(log) + 1] = m
    BY <1>4, <2>2, CarriedByOneMore
  <2>4. m \in Range(log')
    BY <2>3 DEF Range
  <2>. QED
    BY <1>2, <1>4, <2>1, <2>4
<1>. QED
  BY <1>7, <1>9, <1>10, <1>12, <1>13, <1>14 DEF FeedWakesInv, TypeOK, BoardInv

(* A page that is lost is read again.                                        *)
LEMMA LosePageKeepsAll ==
    ASSUME FeedWakesInv, LosePage
    PROVE  FeedWakesInv'
<1>1. TypeOK /\ LoopOK /\ BoardInv /\ ToldInv /\ ReadyIsTold
  BY DEF FeedWakesInv, LoopOK, TypeOK
<1>2. /\ moves' = moves + 1 /\ moves < MaxMoves
      /\ page' = NoPage
      /\ UNCHANGED <<role, journal, delivery, failures, log, broken, version, loop>>
      /\ UNCHANGED <<feed, made, cursor, since, task, attempt, granted, active, informed, skipped, kept, parkedOnce>>
  BY DEF LosePage, Move
<1>3. page' \in [from : Int, changes : Seq(Change)] /\ page'.changes = <<>>
  BY <1>2 DEF NoPage
<1>4. role \in [Agents -> {"worker", "coordinator"}] /\ moves' \in 0..MaxMoves /\ made' \in 0..moves'
  <2>1. role \in [Agents -> {"worker", "coordinator"}]
    BY <1>1 DEF LoopOK, DeliveryTypeOK
  <2>. QED
    BY <1>1, <1>2, <2>1, BoardTypes
<1>5. DeliveryTypeOK(Change, Tasks)' /\ LoopInv' /\ ToldInv'
  BY <1>1, <1>2, <1>4, LoopRests
<1>6. BoardTypeOK'
  BY <1>1, <1>2, <1>3, <1>4 DEF TypeOK, BoardTypeOK, Coordinators
<1>7. FeedInv' /\ ReadInv'
  BY <1>1, <1>2 DEF BoardInv, FeedInv, ReadInv
<1>8. PageInv'
  BY <1>2, <1>3 DEF PageInv
<1>9. Seen' \subseteq Seen /\ Ahead' \subseteq Ahead
  <2>1. Range(page.changes)' = {}
    BY <1>3 DEF Range
  <2>. QED
    BY <1>2, <2>1 DEF Seen, Ahead
<1>10. SeenInv'
  BY <1>1, <1>2, <1>9, SeenKept DEF BoardInv
<1>11. AheadInv' /\ ReadyIsTold'
  BY <1>1, <1>2, <1>9, AheadKept, ReadyKept DEF BoardInv
<1>. QED
  BY <1>5, <1>6, <1>7, <1>8, <1>10, <1>11 DEF FeedWakesInv, TypeOK, BoardInv

(* A page is read: it is the feed after the cursor.                          *)
LEMMA ReadKeepsAll ==
    ASSUME FeedWakesInv, ReadBoard
    PROVE  FeedWakesInv'
<1>1. TypeOK /\ LoopOK /\ BoardInv /\ ToldInv /\ ReadyIsTold
  BY DEF FeedWakesInv, LoopOK, TypeOK
<1>2. PICK upto \in cursor .. Len(feed) :
         page' = [from |-> cursor, changes |-> SubSeq(feed, cursor + 1, upto)]
  BY DEF ReadBoard
<1>3. /\ UNCHANGED <<role, journal, delivery, failures, log, broken, version, loop, moves>>
      /\ UNCHANGED <<feed, made, cursor, since, task, attempt, granted, active, informed, skipped, kept, parkedOnce>>
  BY DEF ReadBoard, deliveryVars
<1>. DEFINE ch == SubSeq(feed, cursor + 1, upto)
<1>4. /\ cursor \in Nat /\ upto \in Nat /\ cursor <= upto /\ upto <= Len(feed) /\ Len(feed) \in Nat
      /\ DOMAIN feed = 1 .. Len(feed) /\ feed \in Seq(Change)
  BY <1>1, <1>2, BoardTypes
<1>5. /\ ch \in Seq(Change) /\ Len(ch) = upto - cursor
      /\ \A k \in 1 .. upto - cursor : ch[k] = feed[cursor + k]
  <2>1. cursor + 1 \in Int /\ upto \in Int /\ cursor <= upto
        /\ \A i \in cursor + 1 .. upto : feed[i] \in Change
    BY <1>4
  <2>2. /\ ch \in Seq(Change)
        /\ Len(ch) = IF cursor + 1 <= upto THEN upto - (cursor + 1) + 1 ELSE 0
        /\ \A k \in 1 .. upto - (cursor + 1) + 1 : ch[k] = feed[(cursor + 1) + k - 1]
    BY <2>1, SubSeqProperties
  <2>. HIDE DEF ch
  <2>3. /\ upto - (cursor + 1) + 1 = upto - cursor
        /\ ~(cursor + 1 <= upto) => upto - cursor = 0
    BY <1>4
  <2>4. \A k \in 1 .. upto - cursor : (cursor + 1) + k - 1 = cursor + k
    BY <1>4
  <2>. QED
    BY <2>2, <2>3, <2>4
<1>. HIDE DEF ch
<1>6. page'.from = cursor /\ page'.changes = ch /\ page' \in [from : Int, changes : Seq(Change)]
  BY <1>2, <1>4, <1>5 DEF ch
<1>7. DOMAIN ch = 1 .. upto - cursor /\ \A k \in DOMAIN ch : cursor + k \in DOMAIN feed /\ ch[k] = feed[cursor + k]
  BY <1>4, <1>5
<1>8. BoardTypeOK'
  BY <1>1, <1>3, <1>6 DEF TypeOK, BoardTypeOK, Coordinators
<1>9. FeedInv' /\ ReadInv'
  BY <1>1, <1>3 DEF BoardInv, FeedInv, ReadInv
<1>10. PageInv'
  <2>1. \A k \in DOMAIN ch, n \in DOMAIN feed : n > cursor + Len(ch) => ch[k].stamp < feed[n].stamp
    <3> SUFFICES ASSUME NEW k \in DOMAIN ch, NEW n \in DOMAIN feed, n > cursor + Len(ch)
                 PROVE  ch[k].stamp < feed[n].stamp
      OBVIOUS
    <3>1. cursor + k \in DOMAIN feed /\ ch[k] = feed[cursor + k] /\ cursor + k < n
      BY <1>4, <1>5, <1>7
    <3>. QED
      BY <1>1, <3>1 DEF BoardInv, FeedInv
  <2>. QED
    BY <1>3, <1>6, <1>7, <2>1 DEF PageInv
<1>11. Seen' \subseteq Seen /\ Ahead' \subseteq Ahead
  <2>1. \A c \in Range(page.changes)' : \E n \in cursor + 1 .. Len(feed) : c = feed[n]
    <3>1. \A k \in DOMAIN ch : cursor + k \in cursor + 1 .. Len(feed)
      BY <1>4, <1>7
    <3>. QED
      BY <1>6, <1>7, <3>1 DEF Range
  <2>2. \A n \in cursor + 1 .. Len(feed) : feed[n] \in Range(feed)
    BY <1>4 DEF Range
  <2>3. Range(page.changes)' \subseteq Range(feed) /\ Range(page.changes)' \subseteq Ahead
    BY <2>1, <2>2 DEF Ahead
  <2>. QED
    BY <1>3, <2>3 DEF Seen, Ahead
<1>12. SeenInv'
  BY <1>1, <1>3, <1>11, SeenKept DEF BoardInv
<1>13. AheadInv' /\ ReadyIsTold'
  BY <1>1, <1>3, <1>11, AheadKept, ReadyKept DEF BoardInv
<1>14. DeliveryTypeOK(Change, Tasks)' /\ LoopInv' /\ ToldInv'
  <2>1. DeliveryTypeOK(Change, Tasks)'
    BY <1>1, <1>3 DEF LoopOK, DeliveryTypeOK
  <2>2. LoopInv'
    BY <1>1, <1>3 DEF LoopOK, LoopInv
  <2>3. \A i : Carried(i)' = Carried(i)
    BY <1>3 DEF Carried
  <2>4. ToldInv'
    BY <1>1, <1>3, <2>3 DEF ToldInv
  <2>. QED
    BY <2>1, <2>2, <2>4
<1>. QED
  BY <1>8, <1>9, <1>10, <1>12, <1>13, <1>14 DEF FeedWakesInv, TypeOK, BoardInv

(* The hub is restored: what it still shows is what it showed.               *)
LEMMA RestoreKeepsAll ==
    ASSUME FeedWakesInv, NEW n \in 0..MaxMoves, RestoreHub(n)
    PROVE  FeedWakesInv'
<1>1. TypeOK /\ LoopOK /\ BoardInv /\ ToldInv /\ ReadyIsTold
  BY DEF FeedWakesInv, LoopOK, TypeOK
<1>2. /\ moves' = moves + 1 /\ moves < MaxMoves
      /\ n < Len(feed) /\ feed' = SubSeq(feed, 1, n) /\ kept' = Min({kept, n})
      /\ UNCHANGED <<role, journal, delivery, failures, log, broken, version, loop>>
      /\ UNCHANGED <<made, cursor, page, since, task, attempt, granted, active, informed, skipped, parkedOnce>>
  BY DEF RestoreHub, Move
<1>3. /\ n \in Nat /\ Len(feed) \in Nat /\ DOMAIN feed = 1 .. Len(feed) /\ kept \in Nat /\ cursor \in Nat
      /\ \A i \in DOMAIN feed : feed[i] \in Change
  BY <1>1, BoardTypes
<1>4. kept' \in Nat /\ kept' <= kept /\ kept' <= n
  BY <1>2, <1>3, MinOfTwo
<1>5. feed' \in Seq(Change) /\ Len(feed') = n /\ \A i \in 1..n : feed'[i] = feed[i]
  <2>1. \A i \in 1..n : i \in DOMAIN feed /\ feed[i] \in Change /\ 1 + i - 1 = i
    BY <1>2, <1>3
  <2>2. /\ SubSeq(feed, 1, n) \in Seq(Change)
        /\ Len(SubSeq(feed, 1, n)) = IF 1 <= n THEN n - 1 + 1 ELSE 0
        /\ \A i \in 1 .. n - 1 + 1 : SubSeq(feed, 1, n)[i] = feed[1 + i - 1]
    BY <1>3, <2>1, SubSeqProperties
  <2>3. n - 1 + 1 = n /\ (IF 1 <= n THEN n - 1 + 1 ELSE 0) = n
    BY <1>3
  <2>. QED
    BY <1>2, <2>1, <2>2, <2>3
<1>6. DOMAIN feed' = 1..n /\ 1..n \subseteq DOMAIN feed
  BY <1>2, <1>3, <1>5
<1>7. role \in [Agents -> {"worker", "coordinator"}] /\ moves' \in 0..MaxMoves /\ made' \in 0..moves'
  <2>1. role \in [Agents -> {"worker", "coordinator"}]
    BY <1>1 DEF LoopOK, DeliveryTypeOK
  <2>. QED
    BY <1>1, <1>2, <2>1, BoardTypes
<1>8. DeliveryTypeOK(Change, Tasks)' /\ LoopInv' /\ ToldInv'
  BY <1>1, <1>2, <1>7, LoopRests
<1>9. BoardTypeOK'
  BY <1>1, <1>2, <1>4, <1>5, <1>7 DEF TypeOK, BoardTypeOK, Coordinators
<1>10. FeedInv'
  <2>1. ASSUME NEW i \in 1..n
        PROVE  feed'[i].rev = Cardinality({k \in 1..i : feed'[k].subject = feed'[i].subject})
    <3>1. \A k \in 1..i : k \in 1..n
      BY <1>3
    <3>2. {k \in 1..i : feed'[k].subject = feed'[i].subject} = {k \in 1..i : feed[k].subject = feed[i].subject}
      BY <1>5, <3>1
    <3>3. feed[i].rev = Cardinality({k \in 1..i : feed[k].subject = feed[i].subject})
      BY <1>1, <1>6 DEF BoardInv, FeedInv
    <3>. QED
      BY <1>5, <3>2, <3>3
  <2>2. \A i, k \in 1..n : i < k => feed'[i].stamp < feed'[k].stamp
    BY <1>1, <1>5, <1>6 DEF BoardInv, FeedInv
  <2>. QED
    BY <1>6, <2>1, <2>2 DEF FeedInv
<1>11. PageInv'
  <2>1. \A k \in DOMAIN page.changes :
           cursor + k <= kept' => cursor + k \in 1..n /\ page.changes[k] = feed'[cursor + k]
    <3> SUFFICES ASSUME NEW k \in DOMAIN page.changes, cursor + k <= kept'
                 PROVE  cursor + k \in 1..n /\ page.changes[k] = feed'[cursor + k]
      OBVIOUS
    <3>1. k \in Nat /\ k >= 1
      BY <1>1, BoardTypes
    <3>2. cursor + k <= kept /\ cursor + k \in 1..n
      BY <1>3, <1>4, <3>1
    <3>. QED
      BY <1>1, <1>5, <3>2 DEF BoardInv, PageInv
  <2>2. \A k \in DOMAIN page.changes, i \in 1..n :
           i > cursor + Len(page.changes) => page.changes[k].stamp < feed'[i].stamp
    BY <1>1, <1>5, <1>6 DEF BoardInv, PageInv
  <2>3. page # NoPage => page.from = cursor
    BY <1>1 DEF BoardInv, PageInv
  <2>. QED
    BY <1>2, <1>6, <2>1, <2>2, <2>3 DEF PageInv
<1>12. ReadInv'
  <2>0. CASE ~(cursor <= kept')
    BY <1>2, <2>0 DEF ReadInv
  <2>a. ASSUME cursor <= kept'
        PROVE  ReadInv'
    <3>1. cursor <= kept /\ cursor <= n
      BY <1>3, <1>4, <2>a
    <3>2. \A i \in 1..cursor : feed'[i] = feed[i]
      BY <1>3, <1>5, <3>1
    <3>3. cursor' = cursor /\ task' = task /\ skipped' = skipped /\ Len(feed') = n
      BY <1>2, <1>5
    <3>4. ASSUME NEW t \in Tasks \ skipped
          PROVE  \/ /\ \A i \in 1..cursor : feed'[i].subject # t
                    /\ task[t].rev = 0
                 \/ \E i \in 1..cursor :
                       /\ feed'[i].subject = t
                       /\ \A k \in 1..cursor : feed'[k].subject = t => k <= i
                       /\ task[t].rev = feed'[i].rev
                       /\ task[t].to = feed'[i].to
      BY <1>1, <3>1, <3>2 DEF BoardInv, ReadInv
    <3>. QED
      BY <3>1, <3>3, <3>4 DEF ReadInv
  <2>. QED
    BY <2>0, <2>a
<1>13. Seen' \subseteq Seen /\ Ahead' \subseteq Ahead
  <2>1. Range(feed') \subseteq Range(feed)
    BY <1>5, <1>6 DEF Range
  <2>2. \A i \in cursor + 1 .. n : i \in cursor + 1 .. Len(feed) /\ feed'[i] = feed[i]
    BY <1>2, <1>3, <1>5
  <2>3. {feed'[i] : i \in cursor + 1 .. n} \subseteq {feed[i] : i \in cursor + 1 .. Len(feed)}
    BY <2>2
  <2>4. Seen' \subseteq Seen
    BY <1>2, <2>1 DEF Seen
  <2>5. Ahead' \subseteq Ahead
    BY <1>2, <1>5, <2>3 DEF Ahead
  <2>. QED
    BY <2>4, <2>5
<1>14. SeenInv'
  BY <1>1, <1>2, <1>13, SeenKept DEF BoardInv
<1>15. AheadInv' /\ ReadyIsTold'
  BY <1>1, <1>2, <1>13, AheadKept, ReadyKept DEF BoardInv
<1>. QED
  BY <1>8, <1>9, <1>10, <1>11, <1>12, <1>14, <1>15 DEF FeedWakesInv, TypeOK, BoardInv

(* The hub's answer that the cursor is past its feed: all of it is history.  *)
LEMMA ResetKeepsAll ==
    ASSUME FeedWakesInv, ResetBoardCursor
    PROVE  FeedWakesInv'
<1>1. TypeOK /\ LoopOK /\ BoardInv /\ ToldInv /\ ReadyIsTold
  BY DEF FeedWakesInv, LoopOK, TypeOK
<1>2. /\ page = NoPage /\ cursor' = 0
      /\ since' = IF since = NoSight THEN NoSight ELSE made
      /\ task' = [t \in Tasks |-> Unread]
      /\ skipped' = {} /\ kept' = MaxMoves /\ informed' = FALSE
      /\ UNCHANGED <<role, journal, delivery, failures, log, broken, version, loop, moves>>
      /\ UNCHANGED <<feed, made, page, attempt, granted, active, parkedOnce>>
  BY DEF ResetBoardCursor, deliveryVars
<1>3. /\ made \in Nat /\ MaxMoves \in Nat /\ made < NoSight /\ Len(feed) \in Nat /\ DOMAIN feed = 1 .. Len(feed)
      /\ page.changes = <<>>
  BY <1>1, <1>2, BoardTypes DEF NoPage
<1>4. Unread \in [rev : Nat, to : {"READY", "other", "none"}, stamp : 0..made]
  BY <1>3 DEF Unread
<1>5. task' \in [Tasks -> [rev : Nat, to : {"READY", "other", "none"}, stamp : 0..made]]
  BY <1>2, <1>4
<1>6. since' \in 0..made \cup {NoSight} /\ cursor' \in Nat /\ kept' \in Nat /\ skipped' \subseteq Tasks
      /\ informed' \in BOOLEAN
  <2>1. since' \in 0..made \cup {NoSight}
    BY <1>2, <1>3
  <2>2. cursor' \in Nat /\ kept' \in Nat /\ skipped' \subseteq Tasks /\ informed' \in BOOLEAN
    BY <1>2, <1>3
  <2>. QED
    BY <2>1, <2>2
<1>7. BoardTypeOK'
  BY <1>1, <1>2, <1>5, <1>6 DEF TypeOK, BoardTypeOK, Coordinators
<1>8. DeliveryTypeOK(Change, Tasks)' /\ LoopInv' /\ ToldInv'
  <2>1. /\ role \in [Agents -> {"worker", "coordinator"}] /\ moves' \in 0..MaxMoves
    BY <1>1, <1>2 DEF LoopOK, DeliveryTypeOK
  <2>. QED
    BY <1>1, <1>2, <2>1, LoopRests
<1>9. FeedInv'
  BY <1>1, <1>2 DEF BoardInv, FeedInv
<1>10. PageInv'
  BY <1>2, <1>3 DEF PageInv
<1>11. ReadInv'
  <2>1. 1 .. cursor' = {} /\ cursor' <= Len(feed)
    BY <1>2, <1>3
  <2>2. \A t \in Tasks : task'[t].rev = 0
    BY <1>2 DEF Unread
  <2>. QED
    BY <1>2, <2>1, <2>2 DEF ReadInv
<1>12. Seen' = Seen
  BY <1>2 DEF Seen
<1>13. SeenInv'
  <2>1. \A c \in Seen : c.stamp \in 1..made /\ c.subject \in Tasks
    BY <1>1, SeenAreChanges DEF BoardInv, SeenInv
  <2>2. \A c \in Seen : c.stamp # task'[c.subject].stamp
    BY <1>2, <1>3, <2>1 DEF Unread
  <2>3. \A c \in Seen : c.stamp \in 1..made /\ (c.own => attempt[c.subject] # "none")
    BY <1>1 DEF BoardInv, SeenInv
  <2>4. \A c, d \in Seen : c.stamp = d.stamp => c = d
    BY <1>1 DEF BoardInv, SeenInv
  <2>. QED
    BY <1>2, <1>12, <2>2, <2>3, <2>4 DEF SeenInv
<1>14. AheadInv'
  <2>1. \A d \in Ahead' : d.stamp \in 1..made
    <3>1. \A d \in Ahead' : \E n \in 1 .. Len(feed) : d = feed[n]
      <4>1. Range(page'.changes) = {}
        BY <1>2, <1>3 DEF Range
      <4>2. cursor' + 1 .. Len(feed) = 1 .. Len(feed)
        BY <1>2, <1>3
      <4>3. Ahead' = {feed[n] : n \in 1 .. Len(feed)}
        BY <1>2, <4>1, <4>2 DEF Ahead
      <4>. QED
        BY <4>3
    <3>2. \A n \in 1 .. Len(feed) : feed[n] \in Seen
      BY <1>3 DEF Seen, Range
    <3>. QED
      BY <1>1, <3>1, <3>2 DEF BoardInv, SeenInv
  <2>2. \A d \in Ahead' : ~(d.stamp > since')
    <3>1. since' \in Nat /\ since' >= made
      BY <1>2, <1>3 DEF NoSight
    <3>2. \A x \in 1..made : ~(x > since')
      BY <1>3, <3>1
    <3>. QED
      BY <2>1, <3>2
  <2>. QED
    BY <1>2, <2>2 DEF AheadInv
<1>15. ReadyIsTold'
  BY <1>2 DEF ReadyIsTold
<1>. QED
  BY <1>7, <1>8, <1>9, <1>10, <1>11, <1>13, <1>14, <1>15 DEF FeedWakesInv, TypeOK, BoardInv

(* A task changes: the change is later than everything seen, and counts the  *)
(* task's revisions on.                                                      *)
LEMMA ChangeKeepsAll ==
    ASSUME FeedWakesInv, NEW t \in Tasks, NEW to \in {"READY", "other"}, NEW own \in BOOLEAN,
           HubChange(t, to, own)
    PROVE  FeedWakesInv'
<1>. DEFINE N == Len(feed)
            before == {k \in 1..N : feed[k].subject = t}
            c == [subject |-> t, rev |-> Cardinality(before) + 1, to |-> to, own |-> own, stamp |-> made + 1]
<1>1. TypeOK /\ LoopOK /\ BoardInv /\ ToldInv /\ ReadyIsTold
  BY DEF FeedWakesInv, LoopOK, TypeOK
<1>2. /\ N \in Nat /\ DOMAIN feed = 1..N /\ feed \in Seq(Change) /\ made \in Nat /\ made < NoSight
      /\ moves \in Nat /\ made <= moves /\ MaxMoves \in Nat /\ cursor \in Nat /\ kept \in Nat
      /\ Len(page.changes) \in Nat /\ DOMAIN page.changes = 1 .. Len(page.changes)
      /\ since \in Nat /\ (since = NoSight \/ since <= made)
      /\ task \in [Tasks -> [rev : Nat, to : {"READY", "other", "none"}, stamp : 0..made]]
  BY <1>1, BoardTypes
<1>3. /\ moves < MaxMoves /\ moves' = moves + 1 /\ made' = made + 1 /\ (own => attempt[t] # "none")
      /\ UNCHANGED <<role, journal, delivery, failures, log, broken, version, loop>>
      /\ UNCHANGED <<cursor, page, since, task, attempt, granted, active, informed, skipped, kept, parkedOnce>>
  BY DEF HubChange, Move
<1>4. feed' = Append(feed, c)
  BY <1>2, <1>3 DEF HubChange
<1>5. IsFiniteSet(before) /\ Cardinality(before) \in Nat
  <2>1. IsFiniteSet(1..N)
    BY <1>2, FS_Interval
  <2>2. before \subseteq 1..N
    OBVIOUS
  <2>. HIDE DEF before
  <2>. QED
    BY <2>1, <2>2, FS_Subset, FS_CardinalityType
<1>. HIDE DEF before
<1>6. /\ c \in Change /\ c.subject = t /\ c.rev = Cardinality(before) + 1 /\ c.own = own
      /\ c.stamp = made + 1
  BY <1>2, <1>5 DEF Change
<1>. HIDE DEF c
<1>7. /\ feed' \in Seq(Change) /\ Len(feed') = N + 1 /\ feed'[N + 1] = c
      /\ \A i \in 1..N : feed'[i] = feed[i]
  BY <1>2, <1>4, <1>6, AppendProperties
<1>8. DOMAIN feed' = 1 .. N + 1 /\ \A i \in 1 .. N + 1 : i = N + 1 \/ i \in 1..N
  BY <1>2, <1>7
<1>9. role \in [Agents -> {"worker", "coordinator"}] /\ moves' \in 0..MaxMoves /\ made' \in 0..moves'
  <2>1. role \in [Agents -> {"worker", "coordinator"}]
    BY <1>1 DEF LoopOK, DeliveryTypeOK
  <2>. QED
    BY <1>2, <1>3, <2>1
<1>10. DeliveryTypeOK(Change, Tasks)' /\ LoopInv' /\ ToldInv'
  BY <1>1, <1>3, <1>9, LoopRests
<1>11. BoardTypeOK'
  <2>1. since' \in 0..made' \cup {NoSight}
    BY <1>2, <1>3
  <2>2. task' \in [Tasks -> [rev : Nat, to : {"READY", "other", "none"}, stamp : 0..made']]
    <3>1. 0..made \subseteq 0..made'
      BY <1>2, <1>3
    <3>2. [rev : Nat, to : {"READY", "other", "none"}, stamp : 0..made]
             \subseteq [rev : Nat, to : {"READY", "other", "none"}, stamp : 0..made']
      BY <3>1
    <3>. QED
      BY <1>2, <1>3, <3>2
  <2>. QED
    BY <1>1, <1>3, <1>7, <1>9, <2>1, <2>2 DEF TypeOK, BoardTypeOK, Coordinators
<1>12. \A d \in Seen : d.stamp \in Nat /\ d.stamp <= made
  BY <1>1, <1>2 DEF BoardInv, SeenInv
<1>13. FeedInv'
  <2>1. ASSUME NEW i \in 1..N
        PROVE  feed'[i].rev = Cardinality({k \in 1..i : feed'[k].subject = feed'[i].subject})
    <3>1. \A k \in 1..i : k \in 1..N
      BY <1>2
    <3>2. {k \in 1..i : feed'[k].subject = feed'[i].subject} = {k \in 1..i : feed[k].subject = feed[i].subject}
      BY <1>7, <3>1
    <3>3. feed[i].rev = Cardinality({k \in 1..i : feed[k].subject = feed[i].subject})
      BY <1>1, <1>2 DEF BoardInv, FeedInv
    <3>. QED
      BY <1>7, <3>2, <3>3
  <2>2. feed'[N + 1].rev = Cardinality({k \in 1 .. N + 1 : feed'[k].subject = feed'[N + 1].subject})
    <3>1. N + 1 \notin 1..N /\ 1 .. N + 1 = (1..N) \cup {N + 1}
      BY <1>2
    <3>2. \A k \in 1..N : feed'[k].subject = t <=> feed[k].subject = t
      BY <1>7
    <3>3. {k \in 1 .. N + 1 : feed'[k].subject = t} = before \cup {N + 1} /\ N + 1 \notin before
      BY <1>6, <1>7, <3>1, <3>2 DEF before
    <3>4. Cardinality(before \cup {N + 1}) = Cardinality(before) + 1
      BY <1>5, <3>3, FS_AddElement
    <3>. QED
      BY <1>6, <1>7, <3>3, <3>4
  <2>3. \A i \in 1..N : feed[i].stamp \in Nat /\ feed[i].stamp <= made
    BY <1>2, <1>12 DEF Seen, Range
  <2>4. \A i, k \in 1 .. N + 1 : i < k => feed'[i].stamp < feed'[k].stamp
    <3> SUFFICES ASSUME NEW i \in 1 .. N + 1, NEW k \in 1 .. N + 1, i < k
                 PROVE  feed'[i].stamp < feed'[k].stamp
      OBVIOUS
    <3>1. i \in 1..N /\ feed'[i] = feed[i]
      BY <1>2, <1>7
    <3>2. CASE k = N + 1
      BY <1>2, <1>6, <1>7, <2>3, <3>1, <3>2
    <3>3. CASE k \in 1..N
      BY <1>1, <1>2, <1>7, <3>1, <3>3 DEF BoardInv, FeedInv
    <3>. QED
      BY <1>8, <3>2, <3>3
  <2>5. \A i \in 1 .. N + 1 :
           feed'[i].rev = Cardinality({k \in 1..i : feed'[k].subject = feed'[i].subject})
    BY <1>8, <2>1, <2>2
  <2>. QED
    BY <1>8, <2>4, <2>5 DEF FeedInv
<1>14. PageInv'
  <2>1. \A k \in DOMAIN page.changes :
           cursor + k <= kept => cursor + k \in 1 .. N + 1 /\ page.changes[k] = feed'[cursor + k]
    <3> SUFFICES ASSUME NEW k \in DOMAIN page.changes, cursor + k <= kept
                 PROVE  cursor + k \in 1 .. N + 1 /\ page.changes[k] = feed'[cursor + k]
      OBVIOUS
    <3>1. cursor + k \in 1..N /\ page.changes[k] = feed[cursor + k]
      BY <1>1, <1>2 DEF BoardInv, PageInv
    <3>. QED
      BY <1>2, <1>7, <3>1
  <2>2. ASSUME NEW k \in DOMAIN page.changes, NEW i \in 1 .. N + 1, i > cursor + Len(page.changes)
        PROVE  page.changes[k].stamp < feed'[i].stamp
    <3>1. CASE i = N + 1
      <4>1. page.changes[k] \in Seen
        BY DEF Seen, Range
      <4>. QED
        BY <1>2, <1>6, <1>7, <1>12, <3>1, <4>1
    <3>2. CASE i \in 1..N
      BY <1>1, <1>2, <1>7, <2>2, <3>2 DEF BoardInv, PageInv
    <3>. QED
      BY <1>8, <3>1, <3>2
  <2>3. page # NoPage => page.from = cursor
    BY <1>1 DEF BoardInv, PageInv
  <2>. QED
    BY <1>3, <1>8, <2>1, <2>2, <2>3 DEF PageInv
<1>15. ReadInv'
  <2>0. CASE ~(cursor <= kept)
    BY <1>3, <2>0 DEF ReadInv
  <2>a. ASSUME cursor <= kept
        PROVE  ReadInv'
    <3>1. cursor <= N
      BY <1>1, <2>a DEF BoardInv, ReadInv
    <3>2. cursor <= N + 1 /\ \A i \in 1..cursor : feed'[i] = feed[i]
      BY <1>2, <1>7, <3>1
    <3>3. cursor' = cursor /\ task' = task /\ skipped' = skipped /\ Len(feed') = N + 1
      BY <1>3, <1>7
    <3>4. ASSUME NEW s \in Tasks \ skipped
          PROVE  \/ /\ \A i \in 1..cursor : feed'[i].subject # s
                    /\ task[s].rev = 0
                 \/ \E i \in 1..cursor :
                       /\ feed'[i].subject = s
                       /\ \A k \in 1..cursor : feed'[k].subject = s => k <= i
                       /\ task[s].rev = feed'[i].rev
                       /\ task[s].to = feed'[i].to
      BY <1>1, <2>a, <3>2 DEF BoardInv, ReadInv
    <3>. QED
      BY <3>2, <3>3, <3>4 DEF ReadInv
  <2>. QED
    BY <2>0, <2>a
<1>16. \A i \in DOMAIN feed' : feed'[i] = c \/ feed'[i] \in Range(feed)
  BY <1>2, <1>7, <1>8 DEF Range
<1>17. Seen' \subseteq Seen \cup {c}
  <2>1. Range(feed') \subseteq Range(feed) \cup {c}
    BY <1>16 DEF Range
  <2>. QED
    BY <1>3, <2>1 DEF Seen
<1>18. Ahead' \subseteq Ahead \cup {c}
  <2>1. ASSUME NEW i \in cursor + 1 .. N + 1
        PROVE  feed'[i] \in Ahead \cup {c}
    <3>1. CASE i = N + 1
      BY <1>7, <3>1
    <3>2. CASE i # N + 1
      <4>1. i \in cursor + 1 .. N /\ i \in 1..N
        BY <1>2, <3>2
      <4>. QED
        BY <1>7, <4>1 DEF Ahead
    <3>. QED
      BY <3>1, <3>2
  <2>2. Ahead' = Range(page.changes) \cup {feed'[i] : i \in cursor + 1 .. N + 1}
    BY <1>3, <1>7 DEF Ahead
  <2>3. Range(page.changes) \subseteq Ahead
    BY DEF Ahead
  <2>. QED
    BY <2>1, <2>2, <2>3
<1>19. SeenInv'
  <2>1. \A d \in Seen : d.stamp \in 1..made' /\ d.stamp # c.stamp
    <3>1. \A d \in Seen : d.stamp \in 1..made
      BY <1>1 DEF BoardInv, SeenInv
    <3>2. \A x \in 1..made : x \in 1..made' /\ x # made + 1
      BY <1>2, <1>3
    <3>. QED
      BY <1>6, <3>1, <3>2
  <2>2. c.stamp \in 1..made'
    BY <1>2, <1>3, <1>6
  <2>3. \A d \in Seen' : d.stamp \in 1..made' /\ (d.own => attempt'[d.subject] # "none")
    BY <1>1, <1>3, <1>6, <1>17, <2>1, <2>2 DEF BoardInv, SeenInv
  <2>4. \A d, e \in Seen' : d.stamp = e.stamp => d = e
    BY <1>1, <1>17, <2>1 DEF BoardInv, SeenInv
  <2>5. \A d \in Seen' : d.stamp = task'[d.subject].stamp => d.to = task'[d.subject].to
    <3>1. task[t].stamp \in 0..made
      BY <1>2
    <3>2. made + 1 # task[t].stamp
      BY <1>2, <3>1
    <3>. QED
      BY <1>1, <1>3, <1>6, <1>17, <3>2 DEF BoardInv, SeenInv
  <2>. QED
    BY <2>3, <2>4, <2>5 DEF SeenInv
<1>20. AheadInv'
  <2>1. \A d \in Range(journal) : d.stamp \in Nat /\ d.stamp < c.stamp
    <3>1. \A d \in Range(journal) : d \in Seen
      BY DEF Seen
    <3>. QED
      BY <1>2, <1>6, <1>12, <3>1
  <2>2. \A d \in Range(journal), e \in Ahead' : e.stamp > since => d.stamp < e.stamp
    BY <1>1, <1>18, <2>1 DEF BoardInv, AheadInv
  <2>3. informed => granted /\ since # NoSight /\ \A e \in Ahead' : e.stamp > since
    <3>1. since # NoSight => c.stamp > since
      BY <1>2, <1>6
    <3>. QED
      BY <1>1, <1>18, <3>1 DEF BoardInv, AheadInv, HistoryRead
  <2>. QED
    BY <1>3, <2>2, <2>3 DEF AheadInv, HistoryRead, NoSight
<1>21. ReadyIsTold'
  BY <1>1, <1>3, ReadyKept
<1>. QED
  BY <1>10, <1>11, <1>13, <1>14, <1>15, <1>19, <1>20, <1>21 DEF FeedWakesInv, TypeOK, BoardInv

-----------------------------------------------------------------------------
(* A page is recorded *)

(* A set of places has a last one.                                           *)
LEMMA LastPlace ==
    ASSUME NEW N \in Nat, NEW S, S \subseteq 1..N, S # {}
    PROVE  \E n \in S : \A k \in S : k <= n
<1>. DEFINE T == {N - k : k \in S}
<1>1. \A k \in S : k \in Nat /\ N - k \in Nat
  OBVIOUS
<1>2. T \subseteq Nat /\ T # {}
  BY <1>1
<1>3. PICK m \in T : \A j \in T : m <= j
  <2>. HIDE DEF T
  <2>. QED
    BY <1>2, LeastNatural
<1>4. PICK n \in S : m = N - n
  BY <1>3
<1>5. ASSUME NEW k \in S
      PROVE  k <= n
  <2>1. N - k \in T
    OBVIOUS
  <2>2. N - n <= N - k
    BY <1>3, <1>4, <2>1
  <2>. QED
    BY <1>1, <2>2
<1>. QED
  BY <1>5

(* A task's record after a page: the page's last change of the task, unless  *)
(* the record is already as late.                                            *)
LEMMA LatestProperties ==
    ASSUME TypeOK, NEW t \in Tasks
    PROVE  \/ /\ \A k \in DOMAIN page.changes : page.changes[k].subject # t
              /\ Latest(t, page.changes) = task[t]
           \/ \E n \in DOMAIN page.changes :
                 /\ page.changes[n].subject = t
                 /\ \A k \in DOMAIN page.changes : page.changes[k].subject = t => k <= n
                 /\ Latest(t, page.changes) =
                       IF page.changes[n].rev <= task[t].rev THEN task[t]
                       ELSE [rev |-> page.changes[n].rev, to |-> page.changes[n].to,
                             stamp |-> page.changes[n].stamp]
<1>. DEFINE ch == page.changes
            revs == {n \in DOMAIN ch : ch[n].subject = t}
            last == CHOOSE n \in revs : \A k \in revs : k <= n
<1>1. Len(ch) \in Nat /\ DOMAIN ch = 1 .. Len(ch)
  BY BoardTypes
<1>2. Latest(t, ch) = IF revs = {} \/ ch[last].rev <= task[t].rev THEN task[t]
                      ELSE [rev |-> ch[last].rev, to |-> ch[last].to, stamp |-> ch[last].stamp]
  BY DEF Latest
<1>3. CASE revs = {}
  <2>1. \A k \in DOMAIN ch : ch[k].subject # t
    BY <1>3
  <2>. QED
    BY <1>2, <1>3, <2>1
<1>4. CASE revs # {}
  <2>1. last \in revs /\ \A k \in revs : k <= last
    <3>1. revs \subseteq 1 .. Len(ch)
      BY <1>1
    <3>. HIDE DEF revs
    <3>2. \E n \in revs : \A k \in revs : k <= n
      BY <1>1, <1>4, <3>1, LastPlace
    <3>. QED
      BY <3>2
  <2>. HIDE DEF last
  <2>2. last \in DOMAIN ch /\ ch[last].subject = t /\ \A k \in DOMAIN ch : ch[k].subject = t => k <= last
    BY <2>1
  <2>. QED
    BY <1>2, <1>4, <2>2
<1>. QED
  BY <1>3, <1>4

(* A task's revisions grow along the feed.                                   *)
LEMMA RevisionsGrow ==
    ASSUME TypeOK, FeedInv, NEW n \in DOMAIN feed
    PROVE  /\ feed[n].rev >= 1
           /\ \A m \in DOMAIN feed :
                 m < n /\ feed[m].subject = feed[n].subject => feed[m].rev < feed[n].rev
<1>. DEFINE Upto(m) == {k \in 1..m : feed[k].subject = feed[n].subject}
<1>1. Len(feed) \in Nat /\ DOMAIN feed = 1 .. Len(feed)
  BY BoardTypes
<1>2. \A m \in 0 .. Len(feed) : IsFiniteSet(Upto(m)) /\ Cardinality(Upto(m)) \in Nat
  <2> SUFFICES ASSUME NEW m \in 0 .. Len(feed)
               PROVE  IsFiniteSet(Upto(m)) /\ Cardinality(Upto(m)) \in Nat
    OBVIOUS
  <2>1. IsFiniteSet(1..m)
    BY FS_Interval
  <2>2. Upto(m) \subseteq 1..m
    OBVIOUS
  <2>. HIDE DEF Upto
  <2>. QED
    BY <2>1, <2>2, FS_Subset, FS_CardinalityType
<1>3. feed[n].rev = Cardinality(Upto(n))
  BY DEF FeedInv
<1>4. ASSUME NEW m \in 0 .. Len(feed), m < n
      PROVE  Cardinality(Upto(m)) < Cardinality(Upto(n))
  <2>1. n \notin Upto(m) /\ n \in Upto(n)
    BY <1>1, <1>4
  <2>2. Upto(m) \subseteq Upto(n)
    BY <1>1, <1>4
  <2>3. n \in 0 .. Len(feed)
    BY <1>1
  <2>. HIDE DEF Upto
  <2>4. Upto(m) \cup {n} \subseteq Upto(n)
    BY <2>1, <2>2
  <2>5. Cardinality(Upto(m) \cup {n}) = Cardinality(Upto(m)) + 1
    BY <1>2, <2>1, FS_AddElement
  <2>6. Cardinality(Upto(m) \cup {n}) <= Cardinality(Upto(n))
    BY <1>2, <2>3, <2>4, FS_Subset
  <2>. QED
    BY <1>2, <2>3, <2>5, <2>6
<1>5. feed[n].rev >= 1
  <2>1. 0 \in 0 .. Len(feed) /\ 0 < n /\ n \in 0 .. Len(feed)
    BY <1>1
  <2>. HIDE DEF Upto
  <2>. QED
    BY <1>2, <1>3, <1>4, <2>1
<1>6. ASSUME NEW m \in DOMAIN feed, m < n, feed[m].subject = feed[n].subject
      PROVE  feed[m].rev < feed[n].rev
  <2>1. m \in 0 .. Len(feed)
    BY <1>1
  <2>2. feed[m].rev = Cardinality(Upto(m))
    BY <1>6 DEF FeedInv
  <2>. HIDE DEF Upto
  <2>. QED
    BY <1>3, <1>4, <1>6, <2>1, <2>2
<1>. QED
  BY <1>5, <1>6

(* What a page adds to the journal: changes of the page, later than the      *)
(* project's first sight, queued when the board wake takes them.             *)
LEMMA RecordJournal ==
    ASSUME TypeOK, RecordBoardPage(page)
    PROVE  /\ journal' \in Seq(Change) /\ delivery' \in Seq(Deliveries)
           /\ Len(journal') \in Nat /\ Len(delivery') = Len(journal') /\ Len(journal) <= Len(journal')
           /\ \A i \in 1 .. Len(journal) : journal'[i] = journal[i] /\ delivery'[i] = delivery[i]
           /\ \A i \in Len(journal) + 1 .. Len(journal') :
                 /\ granted
                 /\ \E k \in DOMAIN page.changes :
                       journal'[i] = page.changes[k] /\ page.changes[k].stamp > since'
                 /\ delivery'[i] \in {Queued, Unqueued}
                 /\ BoardWake(journal'[i]) => delivery'[i] = Queued
<1>. DEFINE first  == FirstSight
            recent == Only(page.changes, {c \in Range(page.changes) : c.stamp > first})
            matched == {e \in Range(recent) : BoardWake(e)}
<1>1. /\ journal \in Seq(Change) /\ delivery \in Seq(Deliveries) /\ Len(delivery) = Len(journal)
      /\ Len(journal) \in Nat /\ page.changes \in Seq(Change)
  BY BoardTypes, LoopTypes
<1>2. since' = first /\ (granted => JournalEvents(recent, matched))
      /\ (~granted => journal' = journal /\ delivery' = delivery)
  BY DEF RecordBoardPage
<1>3. CASE granted
  <2>1. /\ recent \in Seq(Change)
        /\ \A k \in DOMAIN recent : \E n \in DOMAIN page.changes :
              recent[k] = page.changes[n] /\ page.changes[n].stamp > first
    <3>. DEFINE T == {c \in Range(page.changes) : c.stamp > first}
    <3>1. \A c \in T : c.stamp > first
      OBVIOUS
    <3>. HIDE DEF T, first
    <3>2. /\ Only(page.changes, T) \in Seq(Change)
          /\ \A k \in DOMAIN Only(page.changes, T) :
                \E n \in DOMAIN page.changes :
                   Only(page.changes, T)[k] = page.changes[n] /\ page.changes[n] \in T
      BY <1>1, OnlyProperties
    <3>3. recent = Only(page.changes, T)
      BY DEF T
    <3>. HIDE DEF recent
    <3>. QED
      BY <3>1, <3>2, <3>3
  <2>2. \A k \in DOMAIN recent : BoardWake(recent[k]) => recent[k] \in matched
    <3>. HIDE DEF recent
    <3>. QED
      BY DEF Range
  <2>. HIDE DEF matched, recent, first
  <2>3. /\ journal' \in Seq(Change) /\ delivery' \in Seq(Deliveries)
        /\ Len(journal') \in Nat /\ Len(delivery') = Len(journal') /\ Len(journal) <= Len(journal')
        /\ \A i \in 1 .. Len(journal) : journal'[i] = journal[i] /\ delivery'[i] = delivery[i]
        /\ \A i \in Len(journal) + 1 .. Len(journal') :
              /\ \E n \in DOMAIN recent : journal'[i] = recent[n]
              /\ delivery'[i] = IF journal'[i] \in matched THEN Queued ELSE Unqueued
    BY <1>1, <1>2, <1>3, <2>1, JournalGrows
  <2>4. ASSUME NEW i \in Len(journal) + 1 .. Len(journal')
        PROVE  /\ \E k \in DOMAIN page.changes :
                     journal'[i] = page.changes[k] /\ page.changes[k].stamp > since'
               /\ delivery'[i] \in {Queued, Unqueued}
               /\ BoardWake(journal'[i]) => delivery'[i] = Queued
    <3>1. PICK n \in DOMAIN recent : journal'[i] = recent[n]
      BY <2>3
    <3>2. \E k \in DOMAIN page.changes : recent[n] = page.changes[k] /\ page.changes[k].stamp > first
      BY <2>1
    <3>3. delivery'[i] = IF journal'[i] \in matched THEN Queued ELSE Unqueued
      BY <2>3
    <3>4. BoardWake(recent[n]) => recent[n] \in matched
      BY <2>2
    <3>5. BoardWake(journal'[i]) => journal'[i] \in matched
      BY <3>1, <3>4 DEF BoardWake
    <3>. QED
      BY <1>2, <3>1, <3>2, <3>3, <3>5
  <2>. QED
    BY <1>3, <2>3, <2>4
<1>4. CASE ~granted
  <2>1. journal' = journal /\ delivery' = delivery
    BY <1>2, <1>4
  <2>2. \A i \in Len(journal) + 1 .. Len(journal) : FALSE
    BY <1>1
  <2>. QED
    BY <1>1, <2>1, <2>2
<1>. QED
  BY <1>1, <1>3, <1>4, BoardTypes

(* What recording a page leaves alone, and what it moves.                    *)
LEMMA RecordMoves ==
    ASSUME TypeOK, PageInv, RecordBoardPage(page)
    PROVE  /\ cursor = page.from /\ cursor' = cursor + Len(page.changes)
           /\ page' = NoPage /\ page'.changes = <<>>
           /\ UNCHANGED <<role, failures, log, broken, version, loop, moves>>
           /\ UNCHANGED <<feed, made, attempt, granted, active, informed, kept, parkedOnce>>
           /\ since' \in Nat /\ (since' = NoSight \/ since' <= made)
           /\ since' = since \/ (since = NoSight /\ since' = made)
           /\ granted => skipped' = skipped /\ \A t \in Tasks : task'[t] = Latest(t, page.changes)
           /\ ~granted => /\ task' = task
                          /\ skipped' = skipped \cup {c.subject : c \in Range(page.changes)}
<1>1. /\ cursor = page.from /\ cursor' = page.from + Len(page.changes)
      /\ page' = NoPage /\ since' = FirstSight
      /\ UNCHANGED <<role, failures, log, broken, version, loop, moves>>
      /\ UNCHANGED <<feed, made, attempt, granted, active, informed, kept, parkedOnce>>
  BY DEF RecordBoardPage
<1>2. granted => skipped' = skipped /\ \A t \in Tasks : task'[t] = Latest(t, page.changes)
  <2>1. granted => skipped' = skipped /\ task' = [t \in Tasks |-> Latest(t, page.changes)]
    BY DEF RecordBoardPage
  <2>2. ASSUME granted, NEW t \in Tasks
        PROVE  task'[t] = Latest(t, page.changes)
    <3>1. task' = [s \in Tasks |-> Latest(s, page.changes)]
      BY <2>1, <2>2
    <3>2. [s \in Tasks |-> Latest(s, page.changes)][t] = Latest(t, page.changes)
      OBVIOUS
    <3>. QED
      BY <3>1, <3>2
  <2>. QED
    BY <2>1, <2>2
<1>3. ~granted => /\ task' = task
                  /\ skipped' = skipped \cup {c.subject : c \in Range(page.changes)}
  BY DEF RecordBoardPage
<1>4. /\ since' \in Nat /\ (since' = NoSight \/ since' <= made)
      /\ since' = since \/ (since = NoSight /\ since' = made)
  BY <1>1, BoardTypes DEF FirstSight
<1>5. page'.changes = <<>>
  BY <1>1 DEF NoPage
<1>. QED
  BY <1>1, <1>2, <1>3, <1>4, <1>5

(* A task's record after a page is the one before it, or the page's last     *)
(* change of the task.                                                       *)
LEMMA RecordTasks ==
    ASSUME TypeOK, PageInv, SeenInv, RecordBoardPage(page)
    PROVE  /\ task' \in [Tasks -> [rev : Nat, to : {"READY", "other", "none"}, stamp : 0..made]]
           /\ \A t \in Tasks :
                 \/ task'[t] = task[t]
                 \/ \E k \in DOMAIN page.changes :
                       /\ page.changes[k].subject = t
                       /\ task'[t].stamp = page.changes[k].stamp /\ task'[t].to = page.changes[k].to
<1>. DEFINE Rec == [rev : Nat, to : {"READY", "other", "none"}, stamp : 0..made]
<1>1. \A k \in DOMAIN page.changes :
         /\ page.changes[k].rev \in Nat /\ page.changes[k].to \in {"READY", "other", "none"}
         /\ page.changes[k].stamp \in 0..made
  <2> SUFFICES ASSUME NEW k \in DOMAIN page.changes
               PROVE  /\ page.changes[k].rev \in Nat /\ page.changes[k].to \in {"READY", "other", "none"}
                      /\ page.changes[k].stamp \in 0..made
    OBVIOUS
  <2>1. page.changes[k] \in Change /\ page.changes[k] \in Seen
    BY BoardTypes DEF Seen, Range
  <2>2. page.changes[k].stamp \in 1..made /\ made \in Nat
    BY <2>1, BoardTypes DEF SeenInv
  <2>3. page.changes[k].rev \in Nat /\ page.changes[k].to \in {"READY", "other"}
    BY <2>1 DEF Change
  <2>. QED
    BY <2>2, <2>3
<1>2. task \in [Tasks -> Rec]
  BY BoardTypes
<1>3. ASSUME NEW t \in Tasks
      PROVE  /\ task'[t] \in Rec
             /\ \/ task'[t] = task[t]
                \/ \E k \in DOMAIN page.changes :
                      /\ page.changes[k].subject = t
                      /\ task'[t].stamp = page.changes[k].stamp /\ task'[t].to = page.changes[k].to
  <2>1. CASE ~granted
    BY <1>2, <2>1, RecordMoves
  <2>2. CASE granted
    <3>1. task'[t] = Latest(t, page.changes)
      BY <2>2, RecordMoves
    <3>2. CASE Latest(t, page.changes) = task[t]
      BY <1>2, <3>1, <3>2
    <3>3. ASSUME NEW n \in DOMAIN page.changes, page.changes[n].subject = t,
                 Latest(t, page.changes) = [rev |-> page.changes[n].rev, to |-> page.changes[n].to,
                                            stamp |-> page.changes[n].stamp]
          PROVE  /\ task'[t] \in Rec
                 /\ task'[t].stamp = page.changes[n].stamp /\ task'[t].to = page.changes[n].to
      BY <1>1, <3>1, <3>3
    <3>. QED
      BY <3>2, <3>3, LatestProperties
  <2>. QED
    BY <2>1, <2>2, BoardTypes
<1>4. task' \in [Tasks -> Rec]
  <2>1. task' = [t \in Tasks |-> task'[t]]
    <3>1. granted => task' = [t \in Tasks |-> Latest(t, page.changes)]
      BY DEF RecordBoardPage
    <3>2. ~granted => task' = task
      BY DEF RecordBoardPage
    <3>. QED
      BY <1>2, <3>1, <3>2
  <2>. QED
    BY <1>3, <2>1
<1>. QED
  BY <1>3, <1>4

(* The record that follows the cursor: a page brings each task to its last   *)
(* change, which is later than what its record had.                          *)
LEMMA RecordKeepsRead ==
    ASSUME TypeOK, BoardInv, RecordBoardPage(page)
    PROVE  ReadInv'
<1>. DEFINE ch == page.changes
            L == Len(page.changes)
<1>1. /\ Len(feed) \in Nat /\ DOMAIN feed = 1 .. Len(feed) /\ cursor \in Nat /\ kept \in Nat
      /\ L \in Nat /\ DOMAIN ch = 1..L
      /\ task \in [Tasks -> [rev : Nat, to : {"READY", "other", "none"}, stamp : 0..made]]
  BY BoardTypes
<1>2. /\ cursor' = cursor + L /\ UNCHANGED <<feed, kept>>
      /\ granted => skipped' = skipped /\ \A t \in Tasks : task'[t] = Latest(t, ch)
      /\ ~granted => task' = task /\ skipped' = skipped \cup {c.subject : c \in Range(ch)}
  BY RecordMoves DEF BoardInv
<1>3. CASE ~(cursor + L <= kept)
  BY <1>2, <1>3 DEF ReadInv
<1>4. ASSUME cursor + L <= kept
      PROVE  ReadInv'
  <2>1. \A k \in 1..L : cursor + k \in DOMAIN feed /\ ch[k] = feed[cursor + k]
    <3>1. \A k \in 1..L : cursor + k <= kept
      BY <1>1, <1>4
    <3>. QED
      BY <1>1, <3>1 DEF BoardInv, PageInv
  <2>2. cursor <= kept /\ cursor <= Len(feed)
    <3>1. cursor <= kept
      BY <1>1, <1>4
    <3>. QED
      BY <3>1 DEF BoardInv, ReadInv
  <2>3. cursor + L <= Len(feed)
    <3>1. CASE L = 0
      BY <1>1, <2>2, <3>1
    <3>2. CASE L # 0
      <4>1. L \in 1..L
        BY <1>1, <3>2
      <4>. QED
        BY <1>1, <2>1, <4>1
    <3>. QED
      BY <3>1, <3>2
  <2>4. \A n \in 1 .. cursor + L : n \in 1..cursor \/ \E k \in 1..L : n = cursor + k
    <3> SUFFICES ASSUME NEW n \in 1 .. cursor + L, ~(n \in 1..cursor)
                 PROVE  \E k \in 1..L : n = cursor + k
      OBVIOUS
    <3>1. n - cursor \in 1..L /\ n = cursor + (n - cursor)
      BY <1>1
    <3>. QED
      BY <3>1
  <2>5. ASSUME NEW t \in Tasks \ skipped'
        PROVE  \/ /\ \A n \in 1 .. cursor + L : feed[n].subject # t
                  /\ task'[t].rev = 0
               \/ \E n \in 1 .. cursor + L :
                     /\ feed[n].subject = t
                     /\ \A k \in 1 .. cursor + L : feed[k].subject = t => k <= n
                     /\ task'[t].rev = feed[n].rev
                     /\ task'[t].to = feed[n].to
    <3>1. t \in Tasks \ skipped
      BY <1>2
    <3>2. \/ /\ \A n \in 1..cursor : feed[n].subject # t
             /\ task[t].rev = 0
          \/ \E n \in 1..cursor :
                /\ feed[n].subject = t
                /\ \A k \in 1..cursor : feed[k].subject = t => k <= n
                /\ task[t].rev = feed[n].rev
                /\ task[t].to = feed[n].to
      BY <2>2, <3>1 DEF BoardInv, ReadInv
    <3>3. \A n \in 1..cursor : n \in 1 .. cursor + L
      BY <1>1
    <3>4. ASSUME \A k \in DOMAIN ch : ch[k].subject # t, task'[t] = task[t]
          PROVE  \/ /\ \A n \in 1 .. cursor + L : feed[n].subject # t
                    /\ task'[t].rev = 0
                 \/ \E n \in 1 .. cursor + L :
                       /\ feed[n].subject = t
                       /\ \A k \in 1 .. cursor + L : feed[k].subject = t => k <= n
                       /\ task'[t].rev = feed[n].rev
                       /\ task'[t].to = feed[n].to
      <4>1. \A n \in 1 .. cursor + L : feed[n].subject = t => n \in 1..cursor
        <5>1. \A k \in 1..L : feed[cursor + k].subject # t
          BY <1>1, <2>1, <3>4
        <5>. QED
          BY <2>4, <5>1
      <4>. QED
        BY <3>2, <3>3, <3>4, <4>1
    <3>5. ASSUME NEW m \in DOMAIN ch, ch[m].subject = t,
                 \A k \in DOMAIN ch : ch[k].subject = t => k <= m,
                 task'[t] = IF ch[m].rev <= task[t].rev THEN task[t]
                            ELSE [rev |-> ch[m].rev, to |-> ch[m].to, stamp |-> ch[m].stamp]
          PROVE  \E n \in 1 .. cursor + L :
                    /\ feed[n].subject = t
                    /\ \A k \in 1 .. cursor + L : feed[k].subject = t => k <= n
                    /\ task'[t].rev = feed[n].rev
                    /\ task'[t].to = feed[n].to
      <4>. DEFINE n == cursor + m
      <4>1. n \in 1 .. cursor + L /\ n \in DOMAIN feed /\ ch[m] = feed[n] /\ feed[n].subject = t
            /\ \A k \in 1..cursor : k < n /\ k \in DOMAIN feed
        BY <1>1, <2>1, <2>2, <3>5
      <4>2. \A k \in 1 .. cursor + L : feed[k].subject = t => k <= n
        <5>1. \A k \in 1..cursor : k <= n
          BY <1>1
        <5>2. ASSUME NEW k \in 1..L, feed[cursor + k].subject = t
              PROVE  cursor + k <= n
          <6>1. k \in DOMAIN ch /\ ch[k].subject = t
            BY <1>1, <2>1, <5>2
          <6>2. k <= m
            BY <3>5, <6>1
          <6>. QED
            BY <1>1, <6>2
        <5>. QED
          BY <2>4, <5>1, <5>2
      <4>. HIDE DEF n
      <4>3. /\ feed[n].rev >= 1
            /\ \A k \in DOMAIN feed : k < n /\ feed[k].subject = feed[n].subject => feed[k].rev < feed[n].rev
        BY <4>1, RevisionsGrow DEF BoardInv
      <4>4. feed[n].rev \in Nat /\ \A k \in 1..cursor : feed[k].rev \in Nat
        <5>1. \A k \in DOMAIN feed : feed[k] \in Change
          BY BoardTypes
        <5>2. \A k \in DOMAIN feed : feed[k].rev \in Nat
          BY <5>1 DEF Change
        <5>. QED
          BY <4>1, <5>2
      <4>5. task[t].rev < feed[n].rev
        <5>1. CASE task[t].rev = 0
          BY <4>3, <4>4, <5>1
        <5>2. ASSUME NEW k \in 1..cursor, feed[k].subject = t, task[t].rev = feed[k].rev
              PROVE  task[t].rev < feed[n].rev
          BY <4>1, <4>3, <5>2
        <5>. QED
          BY <3>2, <5>1, <5>2
      <4>6. ~(ch[m].rev <= task[t].rev)
        BY <1>1, <4>1, <4>4, <4>5
      <4>7. task'[t].rev = feed[n].rev /\ task'[t].to = feed[n].to
        BY <3>5, <4>1, <4>6
      <4>. QED
        BY <4>1, <4>2, <4>7
    <3>6. CASE ~granted
      <4>1. \A k \in DOMAIN ch : ch[k].subject # t
        BY <1>2, <3>6 DEF Range
      <4>. QED
        BY <1>2, <3>4, <3>6, <4>1
    <3>7. CASE granted
      <4>1. task'[t] = Latest(t, ch)
        BY <1>2, <3>7
      <4>. QED
        BY <3>4, <3>5, <4>1, LatestProperties
    <3>. QED
      BY <3>6, <3>7, BoardTypes
  <2>6. feed' = feed /\ cursor' = cursor + L
    BY <1>2
  <2>. QED
    BY <2>3, <2>5, <2>6 DEF ReadInv
<1>. QED
  BY <1>1, <1>3, <1>4

(* A page that is recorded keeps the whole invariant.                        *)
LEMMA RecordKeepsAll ==
    ASSUME FeedWakesInv, RecordBoardPage(page)
    PROVE  FeedWakesInv'
<1>. DEFINE ch == page.changes
            L == Len(page.changes)
            J == Len(journal)
<1>1. TypeOK /\ LoopOK /\ BoardInv /\ ToldInv /\ ReadyIsTold
  BY DEF FeedWakesInv, LoopOK, TypeOK
<1>2. /\ cursor' = cursor + L /\ page' = NoPage /\ page'.changes = <<>>
      /\ UNCHANGED <<role, failures, log, broken, version, loop, moves>>
      /\ UNCHANGED <<feed, made, attempt, granted, active, informed, kept, parkedOnce>>
      /\ since' \in Nat /\ (since' = NoSight \/ since' <= made)
      /\ since' = since \/ (since = NoSight /\ since' = made)
      /\ granted => skipped' = skipped
      /\ ~granted => skipped' = skipped \cup {c.subject : c \in Range(ch)}
  BY <1>1, RecordMoves DEF BoardInv
<1>3. /\ journal' \in Seq(Change) /\ delivery' \in Seq(Deliveries)
      /\ Len(journal') \in Nat /\ Len(delivery') = Len(journal') /\ J <= Len(journal')
      /\ \A i \in 1..J : journal'[i] = journal[i] /\ delivery'[i] = delivery[i]
      /\ \A i \in J + 1 .. Len(journal') :
            /\ granted
            /\ \E k \in DOMAIN ch : journal'[i] = ch[k] /\ ch[k].stamp > since'
            /\ delivery'[i] \in {Queued, Unqueued}
            /\ BoardWake(journal'[i]) => delivery'[i] = Queued
  BY <1>1, RecordJournal
<1>4. /\ task' \in [Tasks -> [rev : Nat, to : {"READY", "other", "none"}, stamp : 0..made]]
      /\ \A t \in Tasks :
            \/ task'[t] = task[t]
            \/ \E k \in DOMAIN ch :
                  ch[k].subject = t /\ task'[t].stamp = ch[k].stamp /\ task'[t].to = ch[k].to
  BY <1>1, RecordTasks DEF BoardInv
<1>5. /\ J \in Nat /\ DOMAIN journal = 1..J /\ DOMAIN delivery = 1..J
      /\ Len(feed) \in Nat /\ DOMAIN feed = 1 .. Len(feed) /\ made \in Nat
      /\ cursor \in Nat /\ L \in Nat /\ DOMAIN ch = 1..L
  BY <1>1, BoardTypes, LoopTypes
<1>6. /\ DOMAIN journal' = 1 .. Len(journal') /\ DOMAIN delivery' = 1 .. Len(journal')
      /\ \A i \in 1..J : i \in 1 .. Len(journal')
      /\ \A i \in 1 .. Len(journal') : i \in 1..J \/ i \in J + 1 .. Len(journal')
      /\ \A i \in J + 1 .. Len(journal') : i \notin 1..J
  <2>1. DOMAIN journal' = 1 .. Len(journal') /\ DOMAIN delivery' = 1 .. Len(journal')
    BY <1>3
  <2>2. /\ \A i \in 1..J : i \in 1 .. Len(journal')
        /\ \A i \in 1 .. Len(journal') : i \in 1..J \/ i \in J + 1 .. Len(journal')
        /\ \A i \in J + 1 .. Len(journal') : i \notin 1..J
    BY <1>3, <1>5
  <2>. QED
    BY <2>1, <2>2
<1>7. DeliveryTypeOK(Change, Tasks)'
  BY <1>1, <1>2, <1>3 DEF LoopOK, DeliveryTypeOK, Deliveries
<1>8. LoopInv'
  BY <1>1, <1>2, <1>3, <1>5, <1>6 DEF LoopOK, LoopInv
<1>9. ToldInv'
  <2>1. \A i : Carried(i)' = Carried(i)
    BY <1>2 DEF Carried
  <2>2. \A i \in 1 .. Len(journal') : Carried(i) # {} => i \in 1..J
    BY <1>1, <1>5 DEF ToldInv, Carried
  <2>3. \A n \in DOMAIN log' : log'[n].events \subseteq DOMAIN journal'
    BY <1>1, <1>2, <1>5, <1>6 DEF ToldInv
  <2>4. \A i \in DOMAIN journal' :
           /\ \A n, k \in Carried(i)' : n = k
           /\ Carried(i)' # {} => delivery'[i].state = "handled"
           /\ delivery'[i].state = "parked" => i \in parkedOnce'
    <3>1. \A i \in 1..J :
             /\ \A n, k \in Carried(i) : n = k
             /\ Carried(i) # {} => delivery[i].state = "handled"
             /\ delivery[i].state = "parked" => i \in parkedOnce
      BY <1>1, <1>5 DEF ToldInv
    <3>2. \A i \in J + 1 .. Len(journal') : Carried(i) = {} /\ delivery'[i].state # "parked"
      BY <1>3, <1>6, <2>2 DEF Queued, Unqueued
    <3>. QED
      BY <1>2, <1>3, <1>6, <2>1, <3>1, <3>2
  <2>5. ASSUME NEW i \in DOMAIN journal', NEW j \in DOMAIN journal',
               i < j, journal'[i].subject = journal'[j].subject, i \notin parkedOnce', Carried(j)' # {}
        PROVE  /\ delivery'[i].state \in {"none", "handled"}
               /\ \A n \in Carried(i)', k \in Carried(j)' : n <= k
    <3>1. j \in 1..J /\ i \in 1..J
      <4>1. j \in 1..J
        BY <1>6, <2>1, <2>2, <2>5
      <4>2. i \in 1..J
        BY <1>5, <1>6, <2>5, <4>1
      <4>. QED
        BY <4>1, <4>2
    <3>2. /\ journal[i].subject = journal[j].subject /\ i \notin parkedOnce /\ Carried(j) # {}
          /\ delivery'[i] = delivery[i]
      BY <1>2, <1>3, <2>1, <2>5, <3>1
    <3>3. /\ delivery[i].state \in {"none", "handled"}
          /\ \A n \in Carried(i), k \in Carried(j) : n <= k
      BY <1>1, <1>5, <2>5, <3>1, <3>2 DEF ToldInv
    <3>. QED
      BY <2>1, <3>2, <3>3
  <2>. QED
    BY <2>3, <2>4, <2>5 DEF ToldInv
<1>10. BoardTypeOK'
  <2>1. page' \in [from : Int, changes : Seq(Change)]
    BY <1>2 DEF NoPage
  <2>2. cursor' \in Nat /\ since' \in 0..made \cup {NoSight}
    BY <1>2, <1>5
  <2>3. skipped' \subseteq Tasks
    <3>1. \A c \in Range(ch) : c.subject \in Tasks
      <4>1. \A c \in Range(ch) : c \in Seen
        BY DEF Seen
      <4>. QED
        BY <1>1, <4>1, SeenAreChanges
    <3>. QED
      BY <1>1, <1>2, <3>1, BoardTypes
  <2>4. parkedOnce' \subseteq DOMAIN journal'
    BY <1>1, <1>2, <1>5, <1>6, BoardTypes
  <2>. QED
    BY <1>1, <1>2, <1>4, <2>1, <2>2, <2>3, <2>4 DEF TypeOK, BoardTypeOK, Coordinators
<1>11. FeedInv'
  BY <1>1, <1>2 DEF BoardInv, FeedInv
<1>12. PageInv'
  BY <1>2 DEF PageInv
<1>13. ReadInv'
  BY <1>1, RecordKeepsRead
<1>14. \A i \in DOMAIN journal' : journal'[i] \in Range(journal) \/ journal'[i] \in Range(ch)
  BY <1>3, <1>5, <1>6 DEF Range
<1>15. \A c \in Seen' : c \in Seen
  <2>1. Range(page'.changes) = {}
    BY <1>2 DEF Range
  <2>2. \A c \in Range(journal') : c \in Range(journal) \/ c \in Range(ch)
    BY <1>14 DEF Range
  <2>. QED
    BY <1>2, <2>1, <2>2 DEF Seen
<1>16. \A d \in Ahead' : d \in Ahead /\ \E n \in DOMAIN feed : d = feed[n] /\ n > cursor + L
  <2>1. Range(page'.changes) = {}
    BY <1>2 DEF Range
  <2>2. \A n \in cursor' + 1 .. Len(feed) :
           n \in cursor + 1 .. Len(feed) /\ n \in DOMAIN feed /\ n > cursor + L
    BY <1>2, <1>5
  <2>3. Ahead' = {feed[n] : n \in cursor' + 1 .. Len(feed)}
    BY <1>2, <2>1 DEF Ahead
  <2>. QED
    BY <2>2, <2>3 DEF Ahead
<1>17. SeenInv'
  <2>1. \A c \in Seen' : c.stamp \in 1..made' /\ (c.own => attempt'[c.subject] # "none")
    BY <1>1, <1>2, <1>15 DEF BoardInv, SeenInv
  <2>2. \A c, d \in Seen' : c.stamp = d.stamp => c = d
    BY <1>1, <1>15 DEF BoardInv, SeenInv
  <2>3. ASSUME NEW c \in Seen', c.stamp = task'[c.subject].stamp
        PROVE  c.to = task'[c.subject].to
    <3>1. c \in Seen /\ c.subject \in Tasks
      BY <1>1, <1>15, SeenAreChanges
    <3>2. CASE task'[c.subject] = task[c.subject]
      BY <1>1, <2>3, <3>1, <3>2 DEF BoardInv, SeenInv
    <3>3. ASSUME NEW k \in DOMAIN ch, task'[c.subject].stamp = ch[k].stamp, task'[c.subject].to = ch[k].to
          PROVE  c.to = task'[c.subject].to
      <4>1. ch[k] \in Seen
        BY DEF Seen, Range
      <4>2. ch[k] = c
        BY <1>1, <2>3, <3>1, <3>3, <4>1 DEF BoardInv, SeenInv
      <4>. QED
        BY <3>3, <4>2
    <3>. QED
      BY <1>4, <3>1, <3>2, <3>3
  <2>. QED
    BY <2>1, <2>2, <2>3 DEF SeenInv
<1>18. AheadInv'
  <2>1. ASSUME NEW c \in Range(journal'), NEW d \in Ahead', d.stamp > since'
        PROVE  c.stamp < d.stamp
    <3>1. CASE c \in Range(journal)
      <4>1. d \in Ahead /\ d \in Seen
        BY <1>1, <1>16, SeenAreChanges
      <4>2. d.stamp \in 1..made
        BY <1>1, <4>1 DEF BoardInv, SeenInv
      <4>3. ~(d.stamp > made)
        BY <1>5, <4>2
      <4>4. since' = since
        BY <1>2, <2>1, <4>3
      <4>. QED
        BY <1>1, <2>1, <3>1, <4>1, <4>4 DEF BoardInv, AheadInv
    <3>2. CASE c \in Range(ch)
      <4>1. PICK k \in DOMAIN ch : c = ch[k]
        BY <3>2 DEF Range
      <4>2. PICK n \in DOMAIN feed : d = feed[n] /\ n > cursor + L
        BY <1>16
      <4>. QED
        BY <1>1, <4>1, <4>2 DEF BoardInv, PageInv
    <3>. QED
      BY <1>14, <3>1, <3>2 DEF Range
  <2>2. ASSUME informed
        PROVE  granted /\ since' # NoSight /\ \A d \in Ahead' : d.stamp > since'
    <3>1. granted /\ since # NoSight /\ \A d \in Ahead : d.stamp > since
      BY <1>1, <2>2 DEF BoardInv, AheadInv, HistoryRead
    <3>. QED
      BY <1>2, <1>16, <3>1
  <2>. QED
    BY <1>2, <2>1, <2>2 DEF AheadInv, HistoryRead, NoSight
<1>19. ReadyIsTold'
  <2> SUFFICES ASSUME NEW a \in active, NEW t \in Tasks, NEW i \in DOMAIN journal',
                      granted, informed, attempt[t] = "none", task'[t].to = "READY",
                      journal'[i].subject = t, journal'[i].stamp = task'[t].stamp
               PROVE  \/ delivery'[i].state \in {"pending", "parked"}
                      \/ \E m \in Range(log) : a \in m.to /\ (i \in m.events \/ t \in m.ready)
    BY <1>2 DEF ReadyIsTold
  <2>1. CASE i \in J + 1 .. Len(journal')
    <3>1. journal'[i] \in Seen'
      BY DEF Seen, Range
    <3>2. journal'[i].to = "READY" /\ (journal'[i].own => attempt[t] # "none")
      BY <1>2, <1>17, <3>1 DEF SeenInv
    <3>3. BoardWake(journal'[i])
      BY <3>2 DEF BoardWake
    <3>4. delivery'[i] = Queued
      BY <1>3, <2>1, <3>3
    <3>. QED
      BY <3>4 DEF Queued
  <2>2. CASE i \in 1..J
    <3>1. journal'[i] = journal[i] /\ delivery'[i] = delivery[i] /\ i \in DOMAIN journal
      BY <1>3, <1>5, <2>2
    <3>2. task'[t] = task[t]
      <4>1. ASSUME NEW k \in DOMAIN ch, task'[t].stamp = ch[k].stamp
            PROVE  FALSE
        <5>1. ch[k] \in Ahead /\ journal[i] \in Range(journal)
          BY <3>1 DEF Ahead, Range
        <5>2. ch[k].stamp > since
          BY <1>1, <5>1 DEF BoardInv, AheadInv, HistoryRead
        <5>3. journal[i].stamp < ch[k].stamp /\ journal[i].stamp = ch[k].stamp
          BY <1>1, <3>1, <4>1, <5>1, <5>2 DEF BoardInv, AheadInv
        <5>4. ch[k].stamp \in Nat
          <6>1. ch[k] \in Seen
            BY <1>1, <5>1, SeenAreChanges
          <6>2. ch[k].stamp \in 1..made
            BY <1>1, <6>1 DEF BoardInv, SeenInv
          <6>. QED
            BY <6>2
        <5>. QED
          BY <5>3, <5>4
      <4>. QED
        BY <1>4, <4>1
    <3>. QED
      BY <1>1, <3>1, <3>2 DEF ReadyIsTold
  <2>. QED
    BY <1>6, <2>1, <2>2
<1>. QED
  BY <1>7, <1>8, <1>9, <1>10, <1>11, <1>12, <1>13, <1>17, <1>18, <1>19 DEF FeedWakesInv, TypeOK, BoardInv

-----------------------------------------------------------------------------
(* The theorems *)

(* At the start nothing was seen, journaled or told.                         *)
LEMMA InitHoldsAll ==
    ASSUME Init
    PROVE  FeedWakesInv
<1>1. /\ feed = <<>> /\ made = 0 /\ cursor = 0 /\ page = NoPage /\ since = NoSight
      /\ task = [t \in Tasks |-> Unread] /\ attempt = [t \in Tasks |-> "none"]
      /\ granted = TRUE /\ active = {} /\ informed = FALSE /\ skipped = {} /\ kept = MaxMoves
      /\ parkedOnce = {}
  BY DEF Init
<1>2. /\ role \in [Agents -> {"worker", "coordinator"}]
      /\ journal = <<>> /\ delivery = <<>> /\ failures = [s \in Subjects |-> 0] /\ log = <<>>
      /\ broken = {} /\ version = 1 /\ loop = Idle /\ moves = 0
  BY DEF Init, DeliveryInit
<1>3. MaxMoves \in Nat /\ page.changes = <<>>
  BY <1>1, MovesAssumption DEF NoPage
<1>4. DeliveryTypeOK(Change, Tasks)
  <2>1. failures \in [Subjects -> 0 .. maxHandlerFailures - 1]
    BY <1>2 DEF maxHandlerFailures
  <2>2. loop \in [alone : SUBSET Nat, failed : SUBSET Nat]
    BY <1>2 DEF Idle
  <2>3. /\ journal \in Seq(Change) /\ Len(delivery) = Len(journal)
        /\ delivery \in Seq([state : {"none", "pending", "handled", "parked"}, by : 0..2])
        /\ log \in Seq([to : SUBSET Agents, events : SUBSET Nat, ready : SUBSET Tasks, parked : SUBSET Nat])
    BY <1>2
  <2>. QED
    BY <1>2, <1>3, <2>1, <2>2, <2>3 DEF DeliveryTypeOK
<1>5. LoopInv
  BY <1>2 DEF LoopInv, Idle
<1>6. BoardTypeOK
  <2>1. task \in [Tasks -> [rev : Nat, to : {"READY", "other", "none"}, stamp : 0..made]]
    BY <1>1 DEF Unread
  <2>2. page \in [from : Int, changes : Seq(Change)] /\ feed \in Seq(Change)
    BY <1>1 DEF NoPage
  <2>3. attempt \in [Tasks -> {"none", "open", "closed"}]
    BY <1>1
  <2>4. made \in 0..moves /\ cursor \in Nat /\ kept \in Nat /\ since \in 0..made \cup {NoSight}
    BY <1>1, <1>2, <1>3
  <2>. QED
    BY <1>1, <2>1, <2>2, <2>3, <2>4 DEF BoardTypeOK
<1>7. FeedInv /\ PageInv
  BY <1>1, <1>3 DEF FeedInv, PageInv
<1>8. ReadInv
  <2>1. 1..cursor = {} /\ cursor <= Len(feed) /\ \A t \in Tasks : task[t].rev = 0
    BY <1>1 DEF Unread
  <2>. QED
    BY <2>1 DEF ReadInv
<1>9. Seen = {} /\ Ahead = {}
  <2>1. Range(feed) = {} /\ Range(page.changes) = {} /\ Range(journal) = {}
    BY <1>1, <1>2, <1>3 DEF Range
  <2>2. {feed[n] : n \in cursor + 1 .. Len(feed)} = {}
    BY <1>1
  <2>. QED
    BY <2>1, <2>2 DEF Seen, Ahead
<1>10. SeenInv /\ AheadInv
  BY <1>1, <1>2, <1>9 DEF SeenInv, AheadInv, Range
<1>11. ToldInv /\ ReadyIsTold
  BY <1>1, <1>2 DEF ToldInv, ReadyIsTold, Carried
<1>. QED
  BY <1>4, <1>5, <1>6, <1>7, <1>8, <1>10, <1>11 DEF FeedWakesInv, TypeOK, BoardInv

(* Every step keeps the invariant, and so does a step that changes nothing.  *)
LEMMA StepKeepsAll ==
    ASSUME FeedWakesInv, [Next]_vars
    PROVE  FeedWakesInv'
<1>1. CASE UNCHANGED vars
  <2>1. /\ UNCHANGED <<role, journal, delivery, failures, log, broken, version, loop, moves>>
        /\ UNCHANGED <<feed, made, cursor, page, since, task, attempt, granted, active, informed, skipped, kept>>
        /\ UNCHANGED parkedOnce
    BY <1>1 DEF vars, deliveryVars, boardVars
  <2>2. TypeOK' /\ LoopInv'
    BY <2>1 DEF FeedWakesInv, TypeOK, DeliveryTypeOK, BoardTypeOK, Coordinators, LoopInv
  <2>3. FeedInv' /\ PageInv' /\ ReadInv'
    BY <2>1 DEF FeedWakesInv, BoardInv, FeedInv, PageInv, ReadInv
  <2>4. Seen' = Seen /\ Ahead' = Ahead
    BY <2>1 DEF Seen, Ahead
  <2>5. SeenInv' /\ AheadInv'
    BY <2>1, <2>4, SeenKept, AheadKept DEF FeedWakesInv, BoardInv
  <2>6. \A i : Carried(i)' = Carried(i)
    BY <2>1 DEF Carried
  <2>7. ToldInv' /\ ReadyIsTold'
    BY <2>1, <2>6 DEF FeedWakesInv, ToldInv, ReadyIsTold
  <2>. QED
    BY <2>2, <2>3, <2>5, <2>7 DEF FeedWakesInv, BoardInv
<1>2. CASE DeliveryNext(WakeBoard) /\ NoteParked /\ UNCHANGED boardVars
  BY <1>2, LoopKeepsAll
<1>3. ASSUME NEW t \in Tasks, NEW to \in {"READY", "other"}, NEW own \in BOOLEAN, HubChange(t, to, own)
      PROVE  FeedWakesInv'
  BY <1>3, ChangeKeepsAll
<1>4. ASSUME NEW t \in Tasks, MoveAttempt(t)
      PROVE  FeedWakesInv'
  BY <1>4, AttemptKeepsAll
<1>5. ASSUME NEW n \in 0..MaxMoves, RestoreHub(n)
      PROVE  FeedWakesInv'
  BY <1>5, RestoreKeepsAll
<1>6. CASE RecordGrants
  BY <1>6, GrantsKeepAll
<1>7. ASSUME NEW a \in Agents, SetRole(a)
      PROVE  FeedWakesInv'
  BY <1>7, RoleKeepsAll
<1>8. ASSUME NEW a \in Agents, StartCoordinator(a)
      PROVE  FeedWakesInv'
  BY <1>8, StartKeepsAll
<1>9. CASE ReadBoard
  BY <1>9, ReadKeepsAll
<1>10. CASE RecordPage
  BY <1>10, RecordKeepsAll DEF RecordPage
<1>11. CASE ResetBoardCursor
  BY <1>11, ResetKeepsAll
<1>12. CASE LosePage
  BY <1>12, LosePageKeepsAll
<1>13. CASE Next
  BY <1>2, <1>3, <1>4, <1>5, <1>6, <1>7, <1>8, <1>9, <1>10, <1>11, <1>12, <1>13 DEF Next
<1>. QED
  BY <1>1, <1>13

(* The feed, the journal and the messages stay in step in every state: a     *)
(* page that is lost or cut, a restored hub, a batch that fails, a crash and *)
(* a grant that comes and goes included (RecordBoardPage, runTeam, failRun,  *)
(* noticeReadyTasks).                                                        *)
THEOREM FeedWakes == Spec => []FeedWakesInv
<1>1. Init => FeedWakesInv
  BY InitHoldsAll
<1>2. FeedWakesInv /\ [Next]_vars => FeedWakesInv'
  BY StepKeepsAll
<1>. QED
  BY <1>1, <1>2, PTL DEF Spec

(* Every variable keeps its type: a project's first sight is never later     *)
(* than the changes made, a failure count never reaches the third, and who   *)
(* is in a coordinator's session is a coordinator.                           *)
THEOREM BoardTypesHold == Spec => []TypeOK
<1>1. FeedWakesInv => TypeOK
  BY DEF FeedWakesInv
<1>. QED
  BY <1>1, FeedWakes, PTL

(* aicrewd's record of a task is what the board says of it up to the stored  *)
(* cursor, while the hub still shows what was read (recordBoardTask).        *)
THEOREM BoardIsTheFeedsHolds == Spec => []BoardIsTheFeeds
<1>1. FeedWakesInv => BoardIsTheFeeds
  <2> SUFFICES ASSUME FeedWakesInv, NEW t \in Tasks \ skipped, cursor <= kept,
                      {n \in 1 .. Min({cursor, Len(feed)}) : feed[n].subject = t} # {}
               PROVE  LET read == {n \in 1 .. Min({cursor, Len(feed)}) : feed[n].subject = t}
                          last == CHOOSE n \in read : \A k \in read : k <= n
                      IN  task[t].rev = feed[last].rev /\ task[t].to = feed[last].to
    BY DEF BoardIsTheFeeds
  <2>. DEFINE read == {n \in 1 .. Min({cursor, Len(feed)}) : feed[n].subject = t}
              last == CHOOSE n \in read : \A k \in read : k <= n
  <2>1. TypeOK /\ ReadInv
    BY DEF FeedWakesInv, BoardInv
  <2>2. cursor \in Nat /\ Len(feed) \in Nat /\ cursor <= Len(feed)
    BY <2>1, BoardTypes DEF ReadInv
  <2>3. read = {n \in 1..cursor : feed[n].subject = t}
    BY <2>2, MinOfTwo
  <2>4. PICK n \in 1..cursor :
           /\ feed[n].subject = t
           /\ \A k \in 1..cursor : feed[k].subject = t => k <= n
           /\ task[t].rev = feed[n].rev /\ task[t].to = feed[n].to
    <3>1. ~ \A n \in 1..cursor : feed[n].subject # t
      BY <2>3
    <3>. QED
      BY <2>1, <3>1 DEF ReadInv
  <2>5. n \in read /\ \A k \in read : k <= n
    BY <2>3, <2>4
  <2>6. \A m \in read : m \in Nat
    BY <2>2, <2>3
  <2>. HIDE DEF read
  <2>7. last \in read /\ \A k \in read : k <= last
    BY <2>5
  <2>8. last = n
    <3>1. last <= n /\ n <= last
      BY <2>5, <2>7
    <3>2. last \in Nat /\ n \in Nat
      BY <2>5, <2>6, <2>7
    <3>. HIDE DEF last
    <3>. QED
      BY <3>1, <3>2
  <2>. HIDE DEF last
  <2>9. task[t].rev = feed[last].rev /\ task[t].to = feed[last].to
    BY <2>4, <2>8
  <2>. QED
    BY <2>9 DEF last, read
<1>. QED
  BY <1>1, FeedWakes, PTL

(* No event is told twice, none that was not handled, and a queue's events   *)
(* in their order but for those that were parked: a batch that failed, a     *)
(* crash between two queues and a replay included (runTeam, failRun).        *)
THEOREM ToldOnceInOrderHolds == Spec => []ToldOnceInOrder
<1>1. FeedWakesInv => ToldOnceInOrder
  <2> SUFFICES ASSUME ToldInv
               PROVE  ToldOnceInOrder
    BY DEF FeedWakesInv
  <2>1. ASSUME NEW i \in DOMAIN journal
        PROVE  Cardinality(Carried(i)) <= 1 /\ (Carried(i) # {} => delivery[i].state = "handled")
    <3>1. Cardinality(Carried(i)) <= 1
      <4>1. CASE Carried(i) = {}
        BY <4>1, FS_EmptySet
      <4>2. CASE Carried(i) # {}
        <5>1. PICK n \in Carried(i) : TRUE
          BY <4>2
        <5>2. Carried(i) = {n}
          BY <5>1 DEF ToldInv
        <5>3. Cardinality({n}) = 1
          BY FS_Singleton
        <5>. QED
          BY <5>2, <5>3
      <4>. QED
        BY <4>1, <4>2
    <3>. QED
      BY <3>1 DEF ToldInv
  <2>2. ASSUME NEW i \in DOMAIN journal, NEW j \in DOMAIN journal, i < j,
               journal[i].subject = journal[j].subject,
               NEW n \in Carried(i), NEW k \in Carried(j), i \notin parkedOnce
        PROVE  n <= k
    BY <2>2 DEF ToldInv
  <2>. QED
    BY <2>1, <2>2 DEF ToldOnceInOrder
<1>. QED
  BY <1>1, FeedWakes, PTL

(* A coordinator in a session that began informed was told of each READY     *)
(* task, or the event that tells it waits (wakeBoard, noticeReadyTasks).     *)
THEOREM ReadyIsToldHolds == Spec => []ReadyIsTold
<1>1. FeedWakesInv => ReadyIsTold
  BY DEF FeedWakesInv
<1>. QED
  BY <1>1, FeedWakes, PTL

=============================================================================
