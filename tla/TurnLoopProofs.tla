--------------------------- MODULE TurnLoopProofs ---------------------------
(***************************************************************************)
(* Proofs about TurnLoop, for every budget, limit and bound: no turn's cost *)
(* disappears, no attempt is run beyond its budget but for what stops took, *)
(* the handoff never goes back and the hold aicrewd shows is the home's.    *)
(***************************************************************************)
EXTENDS TurnLoop, SequenceTheorems, FiniteSetTheorems, TLAPS

-----------------------------------------------------------------------------
(* Counting what is reported *)

(* A cost recorded on aicrewd leaves the reports that still add to it, and  *)
(* joins the ones missed if it is one of them.                              *)
LEMMA CountRecorded ==
    ASSUME NEW H, IsFiniteSet(H), NEW C, IsFiniteSet(C), NEW M, NEW r, r \notin H
    PROVE  /\ Cardinality(C \ H) \in Nat /\ Cardinality(C \ (H \cup {r})) \in Nat
           /\ Cardinality(H \cap M) \in Nat /\ Cardinality((H \cup {r}) \cap M) \in Nat
           /\ r \in C => Cardinality(C \ H) = Cardinality(C \ (H \cup {r})) + 1
           /\ r \notin C => Cardinality(C \ H) = Cardinality(C \ (H \cup {r}))
           /\ r \in M => Cardinality((H \cup {r}) \cap M) = Cardinality(H \cap M) + 1
           /\ r \notin M => Cardinality((H \cup {r}) \cap M) = Cardinality(H \cap M)
<1>1. IsFiniteSet(C \ (H \cup {r})) /\ IsFiniteSet(H \cap M)
  BY FS_Subset
<1>2. /\ Cardinality(C \ (H \cup {r})) \in Nat /\ Cardinality(H \cap M) \in Nat
  BY <1>1, FS_CardinalityType
<1>3. r \in C => C \ H = (C \ (H \cup {r})) \cup {r}
  OBVIOUS
<1>4. r \notin C => C \ H = C \ (H \cup {r})
  OBVIOUS
<1>5. r \in M => (H \cup {r}) \cap M = (H \cap M) \cup {r}
  OBVIOUS
<1>6. r \notin M => (H \cup {r}) \cap M = H \cap M
  OBVIOUS
<1>7. r \in C => Cardinality(C \ H) = Cardinality(C \ (H \cup {r})) + 1
  <2>1. r \notin C \ (H \cup {r})
    OBVIOUS
  <2>2. Cardinality((C \ (H \cup {r})) \cup {r}) = Cardinality(C \ (H \cup {r})) + 1
    BY <1>1, <2>1, FS_AddElement
  <2>. QED
    BY <1>3, <2>2
<1>8. r \in M => Cardinality((H \cup {r}) \cap M) = Cardinality(H \cap M) + 1
  <2>1. Cardinality((H \cap M) \cup {r}) = Cardinality(H \cap M) + 1
    BY <1>1, FS_AddElement
  <2>. QED
    BY <1>5, <2>1
<1>9. Cardinality(C \ H) \in Nat
  BY <1>2, <1>4, <1>7
<1>10. Cardinality((H \cup {r}) \cap M) \in Nat
  BY <1>2, <1>6, <1>8
<1>11. r \notin C => Cardinality(C \ H) = Cardinality(C \ (H \cup {r}))
  BY <1>4
<1>12. r \notin M => Cardinality((H \cup {r}) \cap M) = Cardinality(H \cap M)
  BY <1>6
<1>. QED
  BY <1>2, <1>7, <1>8, <1>9, <1>10, <1>11, <1>12

(* What counts among more is no less.                                       *)
LEMMA CountMore ==
    ASSUME NEW S, NEW T, S \subseteq T, IsFiniteSet(T)
    PROVE  /\ Cardinality(S) \in Nat /\ Cardinality(T) \in Nat
           /\ Cardinality(S) <= Cardinality(T) /\ IsFiniteSet(S)
<1>1. IsFiniteSet(S) /\ Cardinality(S) <= Cardinality(T)
  BY FS_Subset
<1>. QED
  BY <1>1, FS_CardinalityType

-----------------------------------------------------------------------------
(* The backlog *)

(* The reports of a backlog, and those that count against the attempt, are  *)
(* finitely many.                                                           *)
LEMMA BacklogIsFinite ==
    ASSUME NEW s \in State
    PROVE  /\ IsFiniteSet(Queued(s)) /\ IsFiniteSet(Charges(s))
           /\ Queued(s) \subseteq Nat /\ Charges(s) \subseteq Queued(s)
<1>1. s.backlog \in Seq(Report) /\ Len(s.backlog) \in Nat
      /\ DOMAIN s.backlog = 1..Len(s.backlog)
  BY DEF State
<1>2. IsFiniteSet(1..Len(s.backlog))
  BY <1>1, FS_Interval
<1>3. IsFiniteSet(Queued(s))
  <2>. DEFINE f == [i \in 1..Len(s.backlog) |-> s.backlog[i].id]
  <2>1. f \in Surjection(1..Len(s.backlog), Queued(s))
    BY <1>1 DEF Surjection, Queued
  <2>. QED
    BY <1>2, <2>1, FS_Surjection
<1>4. \A i \in DOMAIN s.backlog : s.backlog[i] \in Report
  BY <1>1, ElementOfSeq
<1>5. Queued(s) \subseteq Nat
  BY <1>4 DEF Queued, Report
<1>6. Charges(s) \subseteq Queued(s)
  BY DEF Charges, Queued
<1>. QED
  BY <1>3, <1>5, <1>6, FS_Subset

(* Two states with one backlog have the same reports in it.                 *)
LEMMA SameBacklog ==
    ASSUME NEW s, NEW t, s.backlog = t.backlog
    PROVE  Queued(s) = Queued(t) /\ Charges(s) = Charges(t)
BY DEF Queued, Charges

(* Types of the operators on the loop's state.                              *)
LEMMA SetHoldType ==
    ASSUME NEW s \in State, NEW kind \in {"none", "limit", "budget"}
    PROVE  /\ SetHold(s, kind) \in State
           /\ SetHold(s, kind).backlog = s.backlog /\ SetHold(s, kind).attempt = s.attempt
           /\ SetHold(s, kind).running = s.running /\ SetHold(s, kind).report = kind
           /\ s.report = kind => SetHold(s, kind) = s
           /\ s.report # kind => SetHold(s, kind).pending
BY ZenonT(40) DEF SetHold, State

(* Reading the day's totals keeps the shape of the runner's state and       *)
(* changes none of the work it holds.                                       *)
LEMMA PullTotalsType ==
    ASSUME TypeOK, NEW s \in State
    PROVE  /\ PullTotals(s) \in State
           /\ PullTotals(s).backlog = s.backlog /\ PullTotals(s).running = s.running
           /\ PullTotals(s).report = s.report /\ PullTotals(s).pending = s.pending
           /\ PullTotals(s).attempt = s.attempt
              \/ /\ turn.open /\ PullTotals(s).attempt \in Nat
                 /\ PullTotals(s).attempt >= hub.attempt /\ PullTotals(s).attempt >= s.attempt
           /\ turn.open => PullTotals(s).attempt # Unknown
<1>1. /\ hub.day \in Nat /\ hub.attempt \in Nat /\ turn.open \in BOOLEAN
      /\ s.day \in {Unknown} \cup Nat /\ s.attempt \in {Unknown} \cup Nat
  BY DEF TypeOK, Turn, State
<1>. DEFINE day == Larger(s.day, hub.day)
            spent == IF turn.open THEN Larger(s.attempt, hub.attempt) ELSE s.attempt
<1>2. /\ day \in Nat /\ spent \in {Unknown} \cup Nat
      /\ turn.open => spent \in Nat /\ spent >= hub.attempt /\ spent >= s.attempt
      /\ ~turn.open => spent = s.attempt
  BY <1>1 DEF Larger, Unknown
<1>3. PullTotals(s) \in {s, [s EXCEPT !.day = day, !.attempt = spent]}
  BY DEF PullTotals
<1>4. PullTotals(s) = s => \/ s.day # Unknown /\ (turn.open => s.attempt # Unknown)
                           \/ s = [s EXCEPT !.day = day, !.attempt = spent]
  BY DEF PullTotals
<1>. HIDE DEF day, spent
<1>5. CASE PullTotals(s) = [s EXCEPT !.day = day, !.attempt = spent]
  <2>. DEFINE t == [s EXCEPT !.day = day, !.attempt = spent]
  <2>1. t \in State /\ t.attempt = spent
    BY <1>2 DEF State
  <2>2. t.backlog = s.backlog /\ t.running = s.running /\ t.report = s.report
        /\ t.pending = s.pending
    BY DEF State
  <2>. QED
    BY <1>1, <1>2, <1>5, <2>1, <2>2 DEF Unknown
<1>6. CASE PullTotals(s) = s /\ s # [s EXCEPT !.day = day, !.attempt = spent]
  BY <1>4, <1>6
<1>. QED
  BY <1>3, <1>5, <1>6

(* Adding a turn to today's count keeps the shape of the state and          *)
(* everything but the day's total.                                          *)
LEMMA CountedType ==
    ASSUME TypeOK, NEW s \in State
    PROVE  /\ Counted(s) \in State
           /\ Counted(s).backlog = s.backlog /\ Counted(s).attempt = s.attempt
           /\ Counted(s).running = s.running /\ Counted(s).report = s.report
           /\ Counted(s).pending = s.pending /\ Counted(s).pushed = s.pushed
<1>1. PICK a \in BOOLEAN, b \in Nat, c \in Nat, d \in Nat :
        Counted(s) = [s EXCEPT !.stalled = a, !.continuations = b, !.noProgress = c, !.unchanged = d]
  <2>. DEFINE kept == turn.open /\ turn.doc /\ Finished
              a == turn.continuation /\ s.stalled
              b == s.continuations + IF turn.continuation THEN 1 ELSE 0
              c == IF gates \/ turn.progress # "none" THEN 0
                   ELSE IF Finished THEN s.noProgress + 1 ELSE s.noProgress
              d == IF gates \/ (kept /\ (turn.edited \/ turn.progress = "step")) THEN 0
                   ELSE IF kept THEN s.unchanged + 1 ELSE s.unchanged
  <2>1. a \in BOOLEAN
    OBVIOUS
  <2>2. b \in Nat /\ c \in Nat /\ d \in Nat
    BY DEF State
  <2>3. Counted(s) = [s EXCEPT !.stalled = a, !.continuations = b, !.noProgress = c, !.unchanged = d]
    BY DEF Counted
  <2>. HIDE DEF a, b, c, d
  <2>. QED
    BY <2>1, <2>2, <2>3
<1>. QED
  BY <1>1, ZenonT(40) DEF State

(* Recording a report charges its attempt exactly when the report is        *)
(* charged and its turn was not known before.                               *)
LEMMA RecordCostType ==
    ASSUME TypeOK, NEW r \in Report
    PROVE  /\ RecordCost(r) \in [turns : SUBSET Nat, day : Nat, attempt : Nat]
           /\ IsFiniteSet(RecordCost(r).turns)
           /\ RecordCost(r).turns = hub.turns \cup {r.id}
           /\ RecordCost(r).attempt = hub.attempt + (IF r.charged /\ r.id \notin hub.turns THEN 1 ELSE 0)
BY FS_AddElement DEF RecordCost, Report, TypeOK

(* The oldest report leaves the backlog.                                    *)
LEMMA TailBacklog ==
    ASSUME NEW s \in State, NEW t, s.backlog # <<>>, t.backlog = Tail(s.backlog)
    PROVE  /\ Tail(s.backlog) \in Seq(Report) /\ Head(s.backlog) \in Report
           /\ Len(t.backlog) = Len(s.backlog) - 1 /\ Head(s.backlog) = s.backlog[1]
           /\ Queued(s) = Queued(t) \cup {Head(s.backlog).id}
           /\ Charges(s) = Charges(t) \cup {id \in {Head(s.backlog).id} : Head(s.backlog).charged}
<1>. DEFINE n == Len(s.backlog)
            r == Head(s.backlog)
<1>1. /\ s.backlog \in Seq(Report) /\ n \in Nat /\ n > 0 /\ DOMAIN s.backlog = 1..n
      /\ Tail(s.backlog) \in Seq(Report) /\ r \in Report /\ r = s.backlog[1]
      /\ Len(t.backlog) = n - 1 /\ DOMAIN t.backlog = 1..(n - 1)
      /\ \A i \in 1..(n - 1) : t.backlog[i] = s.backlog[i + 1]
  <2>1. s.backlog \in Seq(Report) /\ DOMAIN s.backlog = 1..n /\ n \in Nat
    BY DEF State
  <2>2. n > 0 /\ r = s.backlog[1] /\ r \in Report
    BY <2>1, EmptySeq, HeadTailProperties, ElementOfSeq
  <2>3. /\ Tail(s.backlog) \in Seq(Report) /\ Len(Tail(s.backlog)) = n - 1
        /\ \A i \in 1..(n - 1) : Tail(s.backlog)[i] = s.backlog[i + 1]
    BY <2>1, HeadTailProperties
  <2>4. DOMAIN Tail(s.backlog) = 1..(n - 1)
    BY <2>3
  <2>. QED
    BY <2>1, <2>2, <2>3, <2>4
<1>2. \A i \in 1..n : i = 1 \/ (i - 1 \in 1..(n - 1) /\ s.backlog[i] = t.backlog[i - 1])
  BY <1>1
<1>3. /\ n \in Nat /\ n > 0 /\ DOMAIN s.backlog = 1..n /\ DOMAIN t.backlog = 1..(n - 1)
      /\ r = s.backlog[1] /\ \A i \in 1..(n - 1) : t.backlog[i] = s.backlog[i + 1]
      /\ 1 \in 1..n /\ \A i \in 1..(n - 1) : i + 1 \in 1..n
  BY <1>1
<1>. HIDE DEF n, r
<1>4. Queued(s) = Queued(t) \cup {r.id}
  <2>1. Queued(s) = {s.backlog[i].id : i \in 1..n}
    BY <1>3 DEF Queued
  <2>2. Queued(t) = {t.backlog[i].id : i \in 1..(n - 1)}
    BY <1>3 DEF Queued
  <2>3. \A i \in 1..n : s.backlog[i].id \in Queued(t) \cup {r.id}
    BY <1>3, <1>2, <2>2
  <2>4. \A i \in 1..(n - 1) : t.backlog[i].id \in Queued(s)
    BY <1>3, <2>1
  <2>5. r.id \in Queued(s)
    BY <1>3, <2>1
  <2>6. Queued(s) \subseteq Queued(t) \cup {r.id}
    BY <2>1, <2>3
  <2>7. Queued(t) \subseteq Queued(s)
    BY <2>2, <2>4
  <2>. QED
    BY <2>5, <2>6, <2>7
<1>5. Charges(s) = Charges(t) \cup {id \in {r.id} : r.charged}
  <2>1. \A id : id \in Charges(s) <=> \E i \in 1..n : s.backlog[i].id = id /\ s.backlog[i].charged
    BY <1>3 DEF Charges
  <2>2. \A id : id \in Charges(t) <=>
                 \E i \in 1..(n - 1) : t.backlog[i].id = id /\ t.backlog[i].charged
    BY <1>3 DEF Charges
  <2>3. \A i \in 1..n : s.backlog[i].charged =>
           s.backlog[i].id \in Charges(t) \cup {id \in {r.id} : r.charged}
    <3>. TAKE i \in 1..n
    <3>1. CASE i = 1
      BY <1>3, <3>1
    <3>2. CASE i - 1 \in 1..(n - 1) /\ s.backlog[i] = t.backlog[i - 1]
      BY <2>2, <3>2
    <3>. QED
      BY <1>2, <3>1, <3>2
  <2>4. \A i \in 1..(n - 1) : t.backlog[i].charged => t.backlog[i].id \in Charges(s)
    BY <1>3, <2>1
  <2>5. r.charged => r.id \in Charges(s)
    BY <1>3, <2>1
  <2>6. Charges(s) \subseteq Charges(t) \cup {id \in {r.id} : r.charged}
    BY <2>1, <2>3
  <2>7. Charges(t) \subseteq Charges(s)
    BY <2>2, <2>4
  <2>. QED
    BY <2>5, <2>6, <2>7
<1>. QED
  BY <1>1, <1>4, <1>5 DEF n, r

(* A turn's report joins the backlog.                                       *)
LEMMA AppendBacklog ==
    ASSUME NEW s \in State, NEW t, NEW r \in Report, t.backlog = Append(s.backlog, r)
    PROVE  /\ t.backlog \in Seq(Report) /\ Len(t.backlog) = Len(s.backlog) + 1
           /\ Queued(t) = Queued(s) \cup {r.id}
           /\ Charges(t) = Charges(s) \cup {id \in {r.id} : r.charged}
           /\ s.backlog # <<>> => Head(t.backlog) = s.backlog[1]
<1>. DEFINE n == Len(s.backlog)
<1>1. /\ s.backlog \in Seq(Report) /\ n \in Nat /\ DOMAIN s.backlog = 1..n
      /\ t.backlog \in Seq(Report) /\ Len(t.backlog) = n + 1 /\ DOMAIN t.backlog = 1..(n + 1)
      /\ t.backlog # <<>> /\ t.backlog[n + 1] = r /\ \A i \in 1..n : t.backlog[i] = s.backlog[i]
  <2>1. s.backlog \in Seq(Report) /\ DOMAIN s.backlog = 1..n /\ n \in Nat
    BY DEF State
  <2>2. /\ Append(s.backlog, r) \in Seq(Report) /\ Len(Append(s.backlog, r)) = n + 1
        /\ Append(s.backlog, r) # <<>> /\ Append(s.backlog, r)[n + 1] = r
        /\ \A i \in 1..n : Append(s.backlog, r)[i] = s.backlog[i]
    BY <2>1, AppendProperties
  <2>. QED
    BY <2>1, <2>2
<1>2. \A i \in 1..(n + 1) : i \in 1..n \/ i = n + 1
  BY <1>1
<1>3. Queued(t) = Queued(s) \cup {r.id}
  <2>1. Queued(s) = {s.backlog[i].id : i \in 1..n}
    BY <1>1 DEF Queued
  <2>2. Queued(t) = {t.backlog[i].id : i \in 1..(n + 1)}
    BY <1>1 DEF Queued
  <2>3. \A i \in 1..(n + 1) : t.backlog[i].id \in Queued(s) \cup {r.id}
    BY <1>1, <1>2, <2>1
  <2>4. \A i \in 1..n : i \in 1..(n + 1) /\ s.backlog[i].id \in Queued(t)
    BY <1>1, <2>2
  <2>5. r.id \in Queued(t)
    BY <1>1, <2>2
  <2>. QED
    BY <2>1, <2>2, <2>3, <2>4, <2>5
<1>4. Charges(t) = Charges(s) \cup {id \in {r.id} : r.charged}
  <2>1. \A id : id \in Charges(s) <=> \E i \in 1..n : s.backlog[i].id = id /\ s.backlog[i].charged
    BY <1>1 DEF Charges
  <2>2. \A id : id \in Charges(t) <=>
                 \E i \in 1..(n + 1) : t.backlog[i].id = id /\ t.backlog[i].charged
    BY <1>1 DEF Charges
  <2>3. \A i \in 1..(n + 1) : t.backlog[i].charged =>
           t.backlog[i].id \in Charges(s) \cup {id \in {r.id} : r.charged}
    BY <1>1, <1>2, <2>1
  <2>4. \A i \in 1..n : s.backlog[i].charged => s.backlog[i].id \in Charges(t)
    BY <1>1, <2>2
  <2>5. r.charged => r.id \in Charges(t)
    BY <1>1, <2>2
  <2>. QED
    BY <2>1, <2>2, <2>3, <2>4, <2>5
<1>8. s.backlog # <<>> => Head(t.backlog) = s.backlog[1]
  <2>1. s.backlog # <<>> => n >= 1
    BY <1>1, EmptySeq
  <2>2. Head(t.backlog) = t.backlog[1]
    BY <1>1
  <2>. QED
    BY <1>1, <2>1, <2>2
<1>. QED
  BY <1>1, <1>3, <1>4, <1>8

(* A turn's charge: its report joins the backlog, the oldest beyond the     *)
(* bound leaves it.                                                         *)
LEMMA ChargeType ==
    ASSUME TypeOK, NEW s \in State, NEW charged \in BOOLEAN
    PROVE  /\ Charge(s, charged) \in State
           /\ Charge(s, charged).running = 0
           /\ Charge(s, charged).report = s.report /\ Charge(s, charged).pending = s.pending
           /\ Charge(s, charged).attempt = IF charged THEN Larger(s.attempt, 0) + 1 ELSE s.attempt
           /\ Charges(Charge(s, charged)) \subseteq Charges(s) \cup {id \in {turn.id} : charged}
           /\ IF Len(Charge(s, charged).backlog) = Len(s.backlog)
              THEN /\ s.backlog[1] \in Report
                   /\ Queued(s) \cup {turn.id} = Queued(Charge(s, charged)) \cup {s.backlog[1].id}
              ELSE Queued(Charge(s, charged)) = Queued(s) \cup {turn.id}
<1>. DEFINE r == [id |-> turn.id, charged |-> charged]
            queue == Append(s.backlog, r)
            u == [s EXCEPT !.backlog = queue]
            spent == IF charged THEN Larger(s.attempt, 0) + 1 ELSE s.attempt
            left == IF Len(queue) > MaxUnreported THEN Tail(queue) ELSE queue
            t == Charge(s, charged)
<1>1. r \in Report /\ r.id = turn.id /\ r.charged = charged
  BY DEF Report, TypeOK, Turn
<1>2. s.day + 1 \in Nat /\ spent \in {Unknown} \cup Nat /\ Len(s.backlog) \in Nat
  BY DEF State, Unknown, Larger
<1>3. t = [s EXCEPT !.running = 0, !.day = s.day + 1, !.attempt = spent, !.backlog = left]
  BY DEF Charge
<1>4. u.backlog = queue
  BY DEF State
<1>. HIDE DEF r, u
<1>5. /\ u.backlog \in Seq(Report) /\ Len(u.backlog) = Len(s.backlog) + 1
      /\ Queued(u) = Queued(s) \cup {turn.id}
      /\ Charges(u) = Charges(s) \cup {id \in {turn.id} : charged}
      /\ s.backlog # <<>> => Head(u.backlog) = s.backlog[1]
  <2>1. /\ u.backlog \in Seq(Report) /\ Len(u.backlog) = Len(s.backlog) + 1
        /\ Queued(u) = Queued(s) \cup {r.id}
        /\ Charges(u) = Charges(s) \cup {id \in {r.id} : r.charged}
        /\ s.backlog # <<>> => Head(u.backlog) = s.backlog[1]
    BY <1>1, <1>4, AppendBacklog
  <2>2. {id \in {r.id} : r.charged} = {id \in {turn.id} : charged}
    BY <1>1
  <2>. QED
    BY <1>1, <2>1, <2>2
<1>6. u \in State
  BY <1>5 DEF u, State
<1>7. MaxUnreported \in Nat /\ MaxUnreported > 0
  BY LoopAssumption
<1>. HIDE DEF queue
<1>8. CASE Len(queue) > MaxUnreported
  <2>1. u.backlog # <<>>
    BY <1>2, <1>5, EmptySeq
  <2>2. Len(s.backlog) > 0 /\ s.backlog # <<>>
    BY <1>2, <1>4, <1>5, <1>7, <1>8, EmptySeq
  <2>3. left = Tail(u.backlog)
    BY <1>4, <1>8
  <2>. HIDE DEF left, spent, t
  <2>4. t.backlog = Tail(u.backlog)
    BY <1>3, <2>3 DEF State
  <2>5. /\ Tail(u.backlog) \in Seq(Report) /\ Head(u.backlog) \in Report
        /\ Len(t.backlog) = Len(u.backlog) - 1
        /\ Queued(u) = Queued(t) \cup {Head(u.backlog).id}
        /\ Charges(t) \subseteq Charges(u)
    BY <1>6, <2>1, <2>4, TailBacklog
  <2>6. /\ t \in State /\ t.running = 0 /\ t.report = s.report /\ t.pending = s.pending
        /\ t.attempt = spent
    BY <1>2, <1>3, <2>3, <2>5 DEF State
  <2>. QED
    BY <1>2, <1>5, <2>2, <2>5, <2>6 DEF spent, t
<1>9. CASE ~(Len(queue) > MaxUnreported)
  <2>1. left = u.backlog
    BY <1>4, <1>9
  <2>. HIDE DEF left, spent, t
  <2>2. t.backlog = u.backlog
    BY <1>3, <2>1 DEF State
  <2>3. Queued(t) = Queued(u) /\ Charges(t) = Charges(u)
    BY <2>2, SameBacklog
  <2>4. /\ t \in State /\ t.running = 0 /\ t.report = s.report /\ t.pending = s.pending
        /\ t.attempt = spent
    BY <1>2, <1>3, <1>5, <2>1 DEF State
  <2>. QED
    BY <1>2, <1>5, <2>2, <2>3, <2>4 DEF spent, t
<1>. QED
  BY <1>8, <1>9

-----------------------------------------------------------------------------
(* Types *)

(* A home without the file has a state.                                     *)
LEMMA FreshStateType ==
    /\ FreshState \in State /\ FreshState.backlog = <<>> /\ FreshState.attempt = Unknown
    /\ Queued(FreshState) = {} /\ Charges(FreshState) = {}
    /\ FreshState.running = 0 /\ FreshState.report = "none" /\ FreshState.pending = FALSE
<1>1. <<>> \in Seq(Report) /\ DOMAIN <<>> = {}
  OBVIOUS
<1>. QED
  BY <1>1 DEF FreshState, State, Queued, Charges, Unknown, NoNotes

(* No turn is one.                                                          *)
LEMMA NoTurnType == NoTurn \in Turn /\ NoTurn.doc = FALSE /\ NoTurn.id = 0
BY DEF NoTurn, Turn, Outcomes, AttemptPhases

(* The loop's steps keep the types of the state.                            *)
LEMMA LoopStepType ==
    ASSUME TypeOK, TurnInv, LoopStep
    PROVE  TypeOK'
<1>. USE DEF TypeOK
<1>1. CASE Due
  <2>1. turn' \in Turn
    <3>. DEFINE b == ~unread
                c == Open(phase)
    <3>1. b \in BOOLEAN /\ c \in BOOLEAN
      BY DEF Open
    <3>2. turn' = [NoTurn EXCEPT !.id = turns + 1, !.continuation = b, !.open = c]
      BY <1>1 DEF Due
    <3>. HIDE DEF b, c
    <3>3. turn' = [id |-> turns + 1, continuation |-> b, open |-> c, doc |-> FALSE,
                   progress |-> "none", edited |-> FALSE, cut |-> FALSE, outcome |-> "none",
                   after |-> "none"]
      BY <3>2 DEF NoTurn
    <3>. QED
      BY <3>1, <3>3 DEF Turn, AttemptPhases
  <2>. QED
    BY <1>1, <2>1 DEF Due, world, aicrewd, home
<1>2. CASE ReportTurn
  <2>1. st.backlog # <<>>
    BY <1>2 DEF ReportTurn
  <2>. DEFINE rest == [st EXCEPT !.backlog = Tail(@)]
              r == Head(st.backlog)
  <2>2. rest.backlog = Tail(st.backlog)
    BY DEF State
  <2>3. r \in Report /\ Tail(st.backlog) \in Seq(Report)
    BY <2>1, <2>2, TailBacklog
  <2>4. rest \in State
    BY <2>3 DEF State
  <2>5. /\ RecordCost(r) \in [turns : SUBSET Nat, day : Nat, attempt : Nat]
        /\ IsFiniteSet(RecordCost(r).turns)
    BY <2>3, RecordCostType
  <2>6. st' \in {st, rest} /\ hub' \in {hub, RecordCost(r)}
        /\ turn' \in {turn, [turn EXCEPT !.cut = TRUE]} /\ faults' \in {faults, faults + 1}
    BY <1>2 DEF ReportTurn, Unanswered, Fault
  <2>7. turn' \in Turn
    BY <2>6, ZenonT(40) DEF Turn
  <2>. HIDE DEF rest, r
  <2>. QED
    BY <1>2, <2>4, <2>5, <2>6, <2>7 DEF ReportTurn, world, home
<1>3. CASE Admit
  <2>. DEFINE known == PullTotals(st)
  <2>1. known \in State
    BY PullTotalsType
  <2>. HIDE DEF known
  <2>2. SetHold(known, "budget") \in State /\ SetHold(known, "none") \in State
    BY <2>1, SetHoldType
  <2>3. [SetHold(known, "budget") EXCEPT !.held = "budget"] \in State
    BY <2>2 DEF State
  <2>4. st' \in State /\ disk' \in State
    BY <1>3, <2>1, <2>2, <2>3 DEF Admit, known
  <2>. QED
    BY <1>3, <2>4, NoTurnType DEF Admit, world, aicrewd
<1>4. CASE TotalsUnread
  <2>1. st' \in State /\ disk' \in State
    BY <1>4 DEF TotalsUnread, State
  <2>. QED
    BY <1>4, <2>1, NoTurnType DEF TotalsUnread, world, aicrewd, Fault
<1>5. CASE SyncHold
  <2>1. [st EXCEPT !.pending = FALSE] \in State /\ st.report \in {"none", "limit", "budget"}
    BY DEF State
  <2>2. [turn EXCEPT !.cut = TRUE] \in Turn
    BY DEF Turn
  <2>3. st' \in State /\ disk' \in State /\ turn' \in Turn /\ hubHold' \in {"none", "limit", "budget"}
    BY <1>5, <2>1, <2>2 DEF SyncHold, Unanswered
  <2>. QED
    BY <1>5, <2>3 DEF SyncHold, world, Unanswered, Fault
<1>6. CASE Begin
  <2>1. Prepared \in {NoNotes} \cup Nat
    BY DEF Prepared, Larger
  <2>2. notes' \in {NoNotes} \cup Nat
    BY <1>6, <2>1 DEF Begin
  <2>3. turn' \in Turn
    BY <1>6, ZenonT(40) DEF Begin, Turn
  <2>4. st' \in State /\ disk' \in State
    BY <1>6 DEF Begin, Turn, State
  <2>. QED
    BY <1>6, <2>2, <2>3, <2>4 DEF Begin, world, aicrewd, Fault
<1>7. ASSUME NEW outcome \in Outcomes, EndTurn(outcome)
      PROVE  TypeOK'
  <2>1. PICK after \in {phase, "not_read"} :
          /\ turn' = [turn EXCEPT !.outcome = outcome, !.after = after]
          /\ st' = Charge(st, turn.open \/ Open(after)) /\ faults' \in {faults, faults + 1}
    BY <1>7 DEF EndTurn, Fault
  <2>2. turn' \in Turn
    BY <2>1 DEF Turn, Outcomes
  <2>. DEFINE charged == turn.open \/ Open(after)
  <2>3. charged \in BOOLEAN
    BY DEF Turn, Open
  <2>. HIDE DEF charged
  <2>4. st' = Charge(st, charged)
    BY <2>1 DEF charged
  <2>5. st' \in State /\ (Len(st'.backlog) = Len(st.backlog) => st.backlog[1] \in Report)
    <3>1. /\ Charge(st, charged) \in State
          /\ Len(Charge(st, charged).backlog) = Len(st.backlog) => st.backlog[1] \in Report
      BY <2>3, ChargeType
    <3>. QED
      BY <2>4, <3>1
  <2>6. lost' \in [costs : SUBSET Nat, due : BOOLEAN, hold : BOOLEAN]
    <3>1. CASE Len(st'.backlog) = Len(st.backlog)
      <4>1. st.backlog[1].id \in Nat
        BY <2>5, <3>1 DEF Report
      <4>2. lost' = [lost EXCEPT !.costs = @ \cup {st.backlog[1].id}]
        BY <1>7, <3>1 DEF EndTurn
      <4>. QED
        BY <4>1, <4>2
    <3>2. CASE Len(st'.backlog) # Len(st.backlog)
      BY <1>7, <3>2 DEF EndTurn
    <3>. QED
      BY <3>1, <3>2
  <2>. QED
    BY <1>7, <2>1, <2>2, <2>5, <2>6 DEF EndTurn, world, aicrewd, home
<1>8. CASE AfterOutcome
  <2>. DEFINE told == IF turn.outcome = "limit" THEN "limit" ELSE "none"
              hold == [finished |-> "no", failed |-> "own", limit |-> "limit"]
              own == hold[turn.outcome]
  <2>1. SetHold(st, told) \in State
    BY SetHoldType
  <2>2. own \in {"no", "own", "limit"}
    BY <1>8 DEF AfterOutcome, TurnInv, Outcomes
  <2>3. st' = [SetHold(st, told) EXCEPT !.held = own]
    BY <1>8 DEF AfterOutcome
  <2>. HIDE DEF told, own
  <2>4. st' \in State
    BY <2>1, <2>2, <2>3 DEF State
  <2>. QED
    BY <1>8, <2>4 DEF AfterOutcome, world, aicrewd, home
<1>9. CASE Close
  <2>. DEFINE counted == IF Charged THEN Counted(st) ELSE st
  <2>1. counted \in State
    BY CountedType
  <2>. HIDE DEF counted
  <2>2. PICK pushed \in BOOLEAN, blocked \in BOOLEAN, stall \in BOOLEAN, working \in BOOLEAN,
             due \in BOOLEAN :
          /\ hubNotes' = (IF pushed THEN notes ELSE hubNotes)
          /\ phase' = (IF blocked THEN "blocked" ELSE phase)
          /\ st' = [counted EXCEPT !.pushed = IF pushed THEN notes ELSE @,
                                   !.continue = working /\ ~stall, !.stalled = stall \/ @]
          /\ lost' = [lost EXCEPT !.due = due]
          /\ faults' \in {faults, faults + 1}
    <3>1. PICK pushed \in BOOLEAN, blocked \in BOOLEAN :
            LET working == turn.after = "working"
                stall == Charged /\ working /\ Stalls(counted)
            IN  /\ hubNotes' = (IF pushed THEN notes ELSE hubNotes)
                /\ phase' = (IF blocked THEN "blocked" ELSE phase)
                /\ st' = [counted EXCEPT !.pushed = IF pushed THEN notes ELSE @,
                                         !.continue = working /\ ~stall, !.stalled = stall \/ @]
                /\ lost' = [lost EXCEPT !.due = turn.after = "not_read" \/ (stall /\ ~blocked)]
                /\ faults' \in {faults, faults + 1}
      BY <1>9 DEF Close, counted, Fault
    <3>. DEFINE working == turn.after = "working"
                stall == Charged /\ working /\ Stalls(counted)
                due == turn.after = "not_read" \/ (stall /\ ~blocked)
    <3>2. working \in BOOLEAN /\ stall \in BOOLEAN /\ due \in BOOLEAN
      OBVIOUS
    <3>3. /\ st' = [counted EXCEPT !.pushed = IF pushed THEN notes ELSE @,
                                   !.continue = working /\ ~stall, !.stalled = stall \/ @]
          /\ lost' = [lost EXCEPT !.due = due]
      BY <3>1
    <3>. HIDE DEF working, stall, due
    <3>. QED
      BY <3>1, <3>2, <3>3
  <2>3. st' \in State
    <3>. DEFINE a == IF pushed THEN notes ELSE counted.pushed
                b == working /\ ~stall
                c == stall \/ counted.stalled
    <3>1. a \in {NoNotes} \cup Nat /\ b \in BOOLEAN /\ c \in BOOLEAN
      BY <2>1 DEF State
    <3>2. st' = [counted EXCEPT !.pushed = a, !.continue = b, !.stalled = c]
      BY <2>2
    <3>. HIDE DEF a, b, c
    <3>. QED
      BY <2>1, <3>1, <3>2, ZenonT(40) DEF State
  <2>. QED
    BY <1>9, <2>2, <2>3, NoTurnType DEF Close, AttemptPhases
<1>10. CASE Start
  <2>1. st' \in State /\ disk' \in State
    BY <1>10 DEF Start, State
  <2>. QED
    BY <1>10, <2>1 DEF Start, world, aicrewd
<1>11. CASE HoldEnds
  <2>1. st' \in State /\ disk' \in State
    BY <1>11 DEF HoldEnds, State
  <2>. QED
    BY <1>11, <2>1 DEF HoldEnds, world, aicrewd
<1>. QED
  BY <1>1, <1>2, <1>3, <1>4, <1>5, <1>6, <1>7, <1>8, <1>9, <1>10, <1>11 DEF LoopStep

(* So do the client's, the world's, and the stops.                          *)
LEMMA OtherStepType ==
    ASSUME TypeOK, Next, ~LoopStep
    PROVE  TypeOK'
<1>. USE DEF TypeOK
<1>1. CASE Acknowledge
  BY <1>1 DEF Acknowledge, aicrewd, home
<1>2. CASE Commit
  <2>1. turn' \in Turn
    BY <1>2 DEF Commit, Turn
  <2>. QED
    BY <1>2, <2>1 DEF Commit, aicrewd, home
<1>3. CASE EditNotes
  <2>1. turn' \in Turn /\ notes' \in Nat
    BY <1>3 DEF EditNotes, Turn
  <2>. QED
    BY <1>3, <2>1 DEF EditNotes, aicrewd, world
<1>4. ASSUME NEW from, NEW to \in AttemptPhases, Step(from, to)
      PROVE  TypeOK'
  <2>1. turn' \in Turn
    BY <1>4 DEF Step, Turn
  <2>. QED
    BY <1>4, <2>1 DEF Step, aicrewd, home
<1>5. CASE Crash
  <2>1. turn.id \in Nat
    BY DEF Turn
  <2>2. lost' \in [costs : SUBSET Nat, due : BOOLEAN, hold : BOOLEAN]
    <3>. DEFINE a == IF disk.running = 0 THEN lost.costs ELSE lost.costs \cup {turn.id}
                b == lost.due \/ (pc \in {"run", "ended", "closing"} /\ ~disk.continue)
                c == lost.hold \/ st.report # disk.report
    <3>1. a \in SUBSET Nat /\ b \in BOOLEAN /\ c \in BOOLEAN
      BY <2>1
    <3>2. lost' = [lost EXCEPT !.costs = a, !.due = b, !.hold = c]
      BY <1>5 DEF Crash
    <3>. HIDE DEF a, b, c
    <3>. QED
      BY <3>1, <3>2
  <2>. QED
    BY <1>5, <2>2, NoTurnType DEF Crash, world, aicrewd, home, Fault
<1>6. CASE NewHome
  <2>1. {disk.backlog[i].id : i \in DOMAIN disk.backlog} \subseteq Nat
    BY BacklogIsFinite DEF Queued
  <2>2. lost' \in [costs : SUBSET Nat, due : BOOLEAN, hold : BOOLEAN]
    BY <1>6, <2>1 DEF NewHome
  <2>. QED
    BY <1>6, <2>2, FreshStateType DEF NewHome, world, aicrewd
<1>7. CASE NewDay
  <2>1. st' \in State /\ disk' \in State
    BY <1>7 DEF NewDay, State
  <2>2. hub' \in [turns : SUBSET Nat, day : Nat, attempt : Nat] /\ hub'.turns = hub.turns
    BY <1>7 DEF NewDay
  <2>. QED
    BY <1>7, <2>1, <2>2 DEF NewDay, world, Moves
<1>8. CASE Others
  <2>1. paused' \in BOOLEAN /\ gates' \in BOOLEAN
    <3>1. CASE paused' = ~paused /\ UNCHANGED gates
      <4>. DEFINE b == ~paused
      <4>1. b \in BOOLEAN
        OBVIOUS
      <4>. QED
        BY <3>1, <4>1
    <3>2. CASE gates' = FALSE /\ UNCHANGED paused
      BY <3>2
    <3>. QED
      BY <1>8, <3>1, <3>2 DEF Others
  <2>. QED
    BY <1>8, <2>1 DEF Others, Moves, aicrewd, home
<1>9. ASSUME NEW from, NEW to \in AttemptPhases, Arrive(from, to)
      PROVE  TypeOK'
  BY <1>9 DEF Arrive, Moves, aicrewd, home
<1>. QED
  BY <1>1, <1>2, <1>3, <1>4, <1>5, <1>6, <1>7, <1>8, <1>9 DEF Next, Client, AttemptPhases

-----------------------------------------------------------------------------
(* The turn, the section and the hold *)

(* The loop's copy of the state is only charged, counted, or read from the  *)
(* file: what a tick does to it beside that leaves its books alone.         *)
LEMMA CountedState ==
    ASSUME TypeOK, Close
    PROVE  /\ st'.backlog = st.backlog /\ st'.attempt = st.attempt
           /\ st'.report = st.report /\ st'.pending = st.pending
<1>. DEFINE counted == IF Charged THEN Counted(st) ELSE st
<1>1. /\ counted \in State
      /\ counted.backlog = st.backlog /\ counted.attempt = st.attempt
      /\ counted.report = st.report /\ counted.pending = st.pending
  BY CountedType DEF TypeOK
<1>. HIDE DEF counted
<1>2. PICK pushed \in BOOLEAN :
        LET working == turn.after = "working"
            stall == Charged /\ working /\ Stalls(counted)
        IN  st' = [counted EXCEPT !.pushed = IF pushed THEN notes ELSE @,
                                  !.continue = working /\ ~stall, !.stalled = stall \/ @]
  BY DEF Close, counted
<1>. DEFINE working == turn.after = "working"
            stall == Charged /\ working /\ Stalls(counted)
            a == IF pushed THEN notes ELSE counted.pushed
            b == working /\ ~stall
            c == stall \/ counted.stalled
<1>3. st' = [counted EXCEPT !.pushed = a, !.continue = b, !.stalled = c]
  BY <1>2
<1>. HIDE DEF a, b, c
<1>. QED
  BY <1>1, <1>3 DEF State

(* The turn the loop is about.                                              *)
LEMMA TurnStep ==
    ASSUME TypeOK, TurnInv, TypeOK', Next
    PROVE  TurnInv'
<1>. USE DEF TurnInv, InTurn
<1>a. /\ turn \in Turn /\ disk \in State /\ st \in State /\ turns \in Nat
      /\ turn' \in Turn /\ disk' \in State /\ st' \in State
  BY DEF TypeOK
<1>b. NoTurn.open = FALSE
  BY DEF NoTurn
<1>1. CASE Due
  BY <1>1, <1>a DEF Due, NoTurn, Turn, Open, world
<1>2. CASE ReportTurn
  <2>1. turn'.id = turn.id /\ turn'.outcome = turn.outcome /\ turn'.open = turn.open
        /\ st'.attempt = st.attempt
    BY <1>2, <1>a DEF ReportTurn, Unanswered, Turn, State
  <2>. QED
    BY <1>2, <2>1 DEF ReportTurn, home, world
<1>3. CASE Admit
  <2>. DEFINE known == PullTotals(st)
  <2>1. known \in State /\ known.attempt \in {Unknown} \cup Nat
        /\ (turn.open => known.attempt # Unknown)
    BY <1>a, PullTotalsType DEF State
  <2>2. SetHold(known, "none").attempt = known.attempt
    BY <2>1, SetHoldType
  <2>3. CASE Overspent(known)
    BY <1>3, <1>b, <2>3 DEF Admit
  <2>4. CASE ~Overspent(known)
    <3>1. turn' = turn /\ pc' = "begin" /\ st' = SetHold(known, "none") /\ turns' = turns
          /\ pc = "admit" /\ phase' = phase
      BY <1>3, <2>4 DEF Admit, world
    <3>2. turn.open => ~(known.attempt >= AttemptBudget)
      BY <2>4 DEF Overspent
    <3>3. AttemptBudget \in Nat
      BY LoopAssumption
    <3>. HIDE DEF known
    <3>4. turn.open => st'.attempt # Unknown /\ st'.attempt < AttemptBudget
      BY <2>1, <2>2, <3>1, <3>2, <3>3 DEF Unknown
    <3>. QED
      BY <3>1, <3>4
  <2>. QED
    BY <2>3, <2>4
<1>4. CASE TotalsUnread
  BY <1>4, <1>b DEF TotalsUnread
<1>5. CASE SyncHold
  <2>1. turn'.id = turn.id /\ turn'.outcome = turn.outcome /\ turn'.open = turn.open
        /\ st'.attempt = st.attempt
    BY <1>5, <1>a, ZenonT(40) DEF SyncHold, Unanswered, Turn, State
  <2>. QED
    BY <1>5, <2>1 DEF SyncHold, world
<1>6. CASE Begin
  <2>1. turn'.id = turn.id /\ turn'.open = turn.open
        /\ st'.attempt = st.attempt /\ st'.running = turn.id
    BY <1>6, <1>a, ZenonT(40) DEF Begin, Turn, State
  <2>. QED
    BY <1>6, <1>a, <2>1 DEF Begin, world
<1>7. ASSUME NEW outcome \in Outcomes, EndTurn(outcome)
      PROVE  TurnInv'
  <2>1. turn'.id = turn.id /\ turn'.outcome = outcome
    BY <1>7, <1>a DEF EndTurn, Turn
  <2>. QED
    BY <1>7, <2>1 DEF EndTurn, world
<1>8. CASE AfterOutcome
  BY <1>8 DEF AfterOutcome, world
<1>9. CASE Close
  BY <1>9, <1>b DEF Close
<1>10. CASE Start
  BY <1>10 DEF Start, world
<1>11. CASE HoldEnds
  BY <1>11 DEF HoldEnds, world
<1>12. CASE Acknowledge
  BY <1>12 DEF Acknowledge, home
<1>13. CASE Commit
  <2>1. turn'.id = turn.id /\ turn'.open = turn.open
    BY <1>13, <1>a DEF Commit, Turn
  <2>. QED
    BY <1>13, <2>1 DEF Commit, home
<1>14. CASE EditNotes
  <2>1. turn'.id = turn.id /\ turn'.open = turn.open
    BY <1>14, <1>a DEF EditNotes, Turn
  <2>. QED
    BY <1>14, <2>1 DEF EditNotes, world
<1>15. ASSUME NEW from, NEW to, to # "none", Step(from, to)
       PROVE  TurnInv'
  <2>1. turn'.id = turn.id /\ turn'.open = turn.open
    BY <1>15, <1>a DEF Step, Turn
  <2>. QED
    BY <1>15, <2>1 DEF Step, home
<1>16. CASE Crash
  BY <1>16, <1>b DEF Crash
<1>17. CASE NewHome
  BY <1>17 DEF NewHome, world
<1>18. CASE NewDay
  BY <1>18 DEF NewDay, world
<1>19. CASE Others
  BY <1>19 DEF Others, home
<1>20. ASSUME NEW from, NEW to, to # "none", Arrive(from, to)
       PROVE  TurnInv'
  BY <1>20 DEF Arrive, home
<1>. QED
  BY <1>1, <1>2, <1>3, <1>4, <1>5, <1>6, <1>7, <1>8, <1>9, <1>10, <1>11, <1>12, <1>13, <1>14,
     <1>15, <1>16, <1>17, <1>18, <1>19, <1>20 DEF Next, LoopStep, Client

(* The section of the home, and the handoff on aicrewd.                     *)
LEMMA NotesStep ==
    ASSUME TypeOK, TurnInv, NotesInv, TypeOK', Next
    PROVE  NotesInv' /\ hubNotes' >= hubNotes
<1>. USE DEF NotesInv, InTurn
<1>a. /\ turn \in Turn /\ turns \in Nat /\ turn' \in Turn /\ turns' \in Nat
      /\ hubNotes \in {NoNotes} \cup Nat /\ notes \in {NoNotes} \cup Nat
      /\ hubNotes' \in {NoNotes} \cup Nat /\ notes' \in {NoNotes} \cup Nat
  BY DEF TypeOK
<1>b. NoTurn.doc = FALSE
  BY DEF NoTurn
<1>c. hubNotes >= hubNotes
  BY <1>a DEF NoNotes
<1>1. CASE UNCHANGED <<notes, hubNotes, turns>> /\ (turn'.doc => turn.doc /\ pc' \in {"run", "ended", "closing"})
  BY <1>1, <1>c
<1>2. CASE Due
  BY <1>1, <1>2, <1>b DEF Due, NoTurn, aicrewd, home
<1>3. CASE ReportTurn
  <2>1. turn'.doc = turn.doc
    BY <1>3, <1>a DEF ReportTurn, Unanswered, Turn
  <2>. QED
    BY <1>1, <1>3, <2>1 DEF ReportTurn, home
<1>4. CASE Admit
  BY <1>1, <1>4, <1>b DEF Admit, aicrewd
<1>5. CASE TotalsUnread
  BY <1>1, <1>5, <1>b DEF TotalsUnread, aicrewd
<1>6. CASE SyncHold
  <2>1. turn'.doc = turn.doc
    BY <1>6, <1>a DEF SyncHold, Unanswered, Turn
  <2>. QED
    BY <1>1, <1>6, <2>1 DEF SyncHold
<1>7. CASE Begin
  <2>1. turns' = turns + 1 /\ hubNotes' = hubNotes /\ pc' = "run"
    BY <1>7 DEF Begin, aicrewd
  <2>2. CASE notes' = (IF turn.open THEN Prepared ELSE NoNotes) /\ turn'.doc = turn.open
    BY <1>a, <1>c, <2>1, <2>2 DEF Prepared, Larger, NoNotes
  <2>3. CASE notes' = notes /\ turn'.doc = turn.doc
    BY <1>7, <1>a, <1>c, <2>1, <2>3 DEF Begin, NoNotes
  <2>. QED
    BY <1>7, <1>a, <2>2, <2>3 DEF Begin, Turn
<1>8. ASSUME NEW outcome \in Outcomes, EndTurn(outcome)
      PROVE  NotesInv' /\ hubNotes' >= hubNotes
  <2>1. turn'.doc = turn.doc
    BY <1>8, <1>a DEF EndTurn, Turn
  <2>. QED
    BY <1>1, <1>8, <2>1 DEF EndTurn, aicrewd, home
<1>9. CASE AfterOutcome
  BY <1>1, <1>9 DEF AfterOutcome, aicrewd, home
<1>10. CASE Close
  <2>1. /\ turn' = NoTurn /\ notes' = notes /\ turns' = turns
        /\ hubNotes' = hubNotes \/ (hubNotes' = notes /\ turn.doc)
    BY <1>10 DEF Close, Pushes
  <2>. QED
    BY <1>a, <1>b, <1>c, <2>1 DEF NoNotes
<1>11. CASE Start
  BY <1>1, <1>11 DEF Start, aicrewd
<1>12. CASE HoldEnds
  BY <1>1, <1>12 DEF HoldEnds, aicrewd
<1>13. CASE Acknowledge
  BY <1>1, <1>13 DEF Acknowledge, aicrewd, home
<1>14. CASE Commit
  <2>1. turn'.doc = turn.doc
    BY <1>14, <1>a DEF Commit, Turn
  <2>. QED
    BY <1>1, <1>14, <2>1 DEF Commit, aicrewd, home
<1>15. CASE EditNotes
  <2>1. turn'.doc = turn.doc /\ notes' = turn.id /\ hubNotes' = hubNotes /\ turns' = turns
        /\ pc' = pc /\ pc = "run"
    BY <1>15, <1>a DEF EditNotes, Turn, aicrewd
  <2>. QED
    BY <1>a, <1>c, <2>1 DEF TurnInv, NoNotes
<1>16. ASSUME NEW from, NEW to, Step(from, to)
       PROVE  NotesInv' /\ hubNotes' >= hubNotes
  <2>1. turn'.doc = turn.doc
    BY <1>16, <1>a DEF Step, Turn
  <2>. QED
    BY <1>1, <1>16, <2>1 DEF Step, aicrewd, home
<1>17. CASE Crash
  BY <1>1, <1>17, <1>b DEF Crash, aicrewd, home
<1>18. CASE NewHome
  BY <1>18, <1>a, <1>c DEF NewHome, aicrewd, NoNotes
<1>19. CASE NewDay
  BY <1>1, <1>19 DEF NewDay
<1>20. CASE Others
  BY <1>1, <1>20 DEF Others, aicrewd, home
<1>21. ASSUME NEW from, NEW to, Arrive(from, to)
       PROVE  NotesInv' /\ hubNotes' >= hubNotes
  BY <1>1, <1>21 DEF Arrive, aicrewd, home
<1>. QED
  BY <1>2, <1>3, <1>4, <1>5, <1>6, <1>7, <1>8, <1>9, <1>10, <1>11, <1>12, <1>13, <1>14,
     <1>15, <1>16, <1>17, <1>18, <1>19, <1>20, <1>21 DEF Next, LoopStep, Client

(* The hold.                                                                *)
LEMMA HoldStep ==
    ASSUME TypeOK, HoldInv, TypeOK', Next
    PROVE  HoldInv'
<1>. USE DEF HoldInv, HoldIsShown
<1>a. /\ turn \in Turn /\ disk \in State /\ st \in State /\ disk' \in State /\ st' \in State
      /\ lost \in [costs : SUBSET Nat, due : BOOLEAN, hold : BOOLEAN]
  BY DEF TypeOK
<1>1. CASE /\ UNCHANGED <<st, disk, hubHold, lost>> /\ (pc \in {"begin", "closing"} => pc' = pc)
  BY <1>1
<1>2. CASE Due
  BY <1>1, <1>2 DEF Due, aicrewd, home
<1>3. CASE ReportTurn
  <2>1. st'.report = st.report /\ st'.pending = st.pending
    BY <1>3, <1>a DEF ReportTurn, State
  <2>. QED
    BY <1>3, <2>1 DEF ReportTurn, home
<1>4. CASE Admit
  <2>. DEFINE known == PullTotals(st)
  <2>1. known \in State /\ known.report = st.report /\ known.pending = st.pending
    BY <1>a, PullTotalsType
  <2>2. hubHold' = hubHold /\ lost' = lost
    BY <1>4 DEF Admit, aicrewd
  <2>3. CASE Overspent(known)
    <3>1. st' = [SetHold(known, "budget") EXCEPT !.held = "budget"] /\ disk' = st'
      BY <1>4, <2>3 DEF Admit
    <3>. HIDE DEF known
    <3>2. st'.report = "budget" /\ st'.pending = SetHold(known, "budget").pending
      BY <2>1, <3>1, SetHoldType DEF State
    <3>3. known.report # "budget" => SetHold(known, "budget").pending
      BY <2>1, SetHoldType
    <3>4. known.report = "budget" => SetHold(known, "budget") = known
      BY <2>1, SetHoldType
    <3>. QED
      BY <2>1, <2>2, <3>1, <3>2, <3>3, <3>4
  <2>4. CASE ~Overspent(known)
    <3>1. st' = SetHold(known, "none") /\ disk' = (IF known = st THEN disk ELSE known)
          /\ pc' = "begin" /\ pc = "admit"
      BY <1>4, <2>4 DEF Admit
    <3>. HIDE DEF known
    <3>2. disk'.report = st.report /\ disk'.pending = st.pending
      BY <2>1, <3>1
    <3>3. st'.report = "none" /\ (known.report # "none" => st'.pending)
          /\ (known.report = "none" => st' = known)
      BY <2>1, <3>1, SetHoldType
    <3>. QED
      BY <2>1, <2>2, <3>1, <3>2, <3>3
  <2>. QED
    BY <2>3, <2>4
<1>5. CASE TotalsUnread
  <2>1. st'.report = st.report /\ st'.pending = st.pending
    BY <1>5, <1>a DEF TotalsUnread, State
  <2>. QED
    BY <1>5, <2>1 DEF TotalsUnread, aicrewd
<1>6. CASE SyncHold
  <2>1. CASE /\ hubHold' = st.report /\ st' = [st EXCEPT !.pending = FALSE] /\ disk' = st'
    <3>1. st'.report = st.report
      BY <1>a, <2>1 DEF State
    <3>. QED
      BY <2>1, <3>1
  <2>2. CASE UNCHANGED <<st, disk>>
    BY <1>6, <2>2 DEF SyncHold
  <2>. QED
    BY <1>6, <2>1, <2>2 DEF SyncHold
<1>7. CASE Begin
  <2>1. st'.report = st.report /\ st'.pending = st.pending
    BY <1>7, <1>a DEF Begin, State
  <2>. QED
    BY <1>7, <2>1 DEF Begin, aicrewd
<1>8. ASSUME NEW outcome \in Outcomes, EndTurn(outcome)
      PROVE  HoldInv'
  <2>1. PICK after : st' = Charge(st, turn.open \/ Open(after))
    BY <1>8 DEF EndTurn
  <2>. DEFINE charged == turn.open \/ Open(after)
  <2>2. charged \in BOOLEAN
    BY <1>a DEF Turn, Open
  <2>3. st' = Charge(st, charged)
    BY <2>1
  <2>. HIDE DEF charged
  <2>4. st'.report = st.report /\ st'.pending = st.pending
    <3>1. Charge(st, charged).report = st.report /\ Charge(st, charged).pending = st.pending
      BY <1>a, <2>2, ChargeType
    <3>. QED
      BY <2>3, <3>1
  <2>5. lost'.hold = lost.hold
    BY <1>8, <1>a DEF EndTurn
  <2>. QED
    BY <1>8, <2>4, <2>5 DEF EndTurn, aicrewd, home
<1>9. CASE AfterOutcome
  <2>. DEFINE told == IF turn.outcome = "limit" THEN "limit" ELSE "none"
  <2>1. \E own : st' = [SetHold(st, told) EXCEPT !.held = own]
    BY <1>9 DEF AfterOutcome
  <2>2. told \in {"none", "limit", "budget"}
    OBVIOUS
  <2>. HIDE DEF told
  <2>3. SetHold(st, told) \in State /\ SetHold(st, told).report = told
        /\ (st.report = told => SetHold(st, told) = st)
        /\ (st.report # told => SetHold(st, told).pending)
    BY <1>a, <2>2, SetHoldType
  <2>4. st'.report = told /\ st'.pending = SetHold(st, told).pending
    BY <2>1, <2>3 DEF State
  <2>. QED
    BY <1>9, <2>3, <2>4 DEF AfterOutcome, aicrewd, home
<1>10. CASE Close
  <2>1. st'.report = st.report /\ st'.pending = st.pending
    BY <1>10, CountedState
  <2>2. lost'.hold = lost.hold /\ hubHold' = hubHold /\ disk' = st'
    BY <1>10, <1>a DEF Close
  <2>. QED
    BY <2>1, <2>2
<1>11. CASE Start
  <2>1. st'.report = disk.report /\ st'.pending = disk.pending
    BY <1>11, <1>a DEF Start, State
  <2>. QED
    BY <1>11, <2>1 DEF Start, aicrewd
<1>12. CASE HoldEnds
  <2>1. /\ st'.report = st.report /\ st'.pending = st.pending
        /\ disk'.report = disk.report /\ disk'.pending = disk.pending
    BY <1>12, <1>a DEF HoldEnds, State
  <2>. QED
    BY <1>12, <2>1 DEF HoldEnds, aicrewd
<1>13. CASE Acknowledge
  BY <1>1, <1>13 DEF Acknowledge, aicrewd, home
<1>14. CASE Commit
  BY <1>1, <1>14 DEF Commit, aicrewd, home
<1>15. CASE EditNotes
  BY <1>1, <1>15 DEF EditNotes, aicrewd
<1>16. ASSUME NEW from, NEW to, Step(from, to)
       PROVE  HoldInv'
  BY <1>1, <1>16 DEF Step, aicrewd, home
<1>17. CASE Crash
  <2>1. lost'.hold <=> lost.hold \/ st.report # disk.report
    BY <1>17, <1>a DEF Crash
  <2>. QED
    BY <1>17, <2>1 DEF Crash, aicrewd, home
<1>18. CASE NewHome
  BY <1>18, <1>a DEF NewHome, aicrewd
<1>19. CASE NewDay
  <2>1. /\ st'.report = st.report /\ st'.pending = st.pending
        /\ disk'.report = disk.report /\ disk'.pending = disk.pending
    BY <1>19, <1>a DEF NewDay, State
  <2>. QED
    BY <1>19, <2>1 DEF NewDay
<1>20. CASE Others
  BY <1>1, <1>20 DEF Others, aicrewd, home
<1>21. ASSUME NEW from, NEW to, Arrive(from, to)
       PROVE  HoldInv'
  BY <1>1, <1>21 DEF Arrive, aicrewd, home
<1>. QED
  BY <1>2, <1>3, <1>4, <1>5, <1>6, <1>7, <1>8, <1>9, <1>10, <1>11, <1>12, <1>13, <1>14,
     <1>15, <1>16, <1>17, <1>18, <1>19, <1>20, <1>21 DEF Next, LoopStep, Client

-----------------------------------------------------------------------------
(* The books *)

Recorded == {h \in [turns : SUBSET Nat, day : Nat, attempt : Nat] : IsFiniteSet(h.turns)}

(* What a state covers it covers with fewer reports, while more is missed.  *)
LEMMA CoversMore ==
    ASSUME NEW h \in Recorded, NEW g \in Recorded, g.turns = h.turns, g.attempt = h.attempt,
           NEW s \in State, NEW t \in State, t.attempt = s.attempt, Charges(t) \subseteq Charges(s),
           NEW m, NEW n, m \subseteq n, Covers(h, s, m)
    PROVE  Covers(g, t, n)
<1>1. s.attempt \in {Unknown} \cup Nat /\ h.attempt \in Nat /\ IsFiniteSet(h.turns)
  BY DEF State, Recorded
<1>2. IsFiniteSet(Charges(s)) /\ Charges(s) \ h.turns \subseteq Charges(s)
  BY BacklogIsFinite
<1>3. Cardinality(Charges(s) \ h.turns) \in Nat
  BY <1>2, CountMore
<1>4. h.turns \cap m \subseteq h.turns \cap n /\ IsFiniteSet(h.turns \cap n)
  BY <1>1, FS_Subset
<1>5. /\ Cardinality(h.turns \cap m) \in Nat /\ Cardinality(h.turns \cap n) \in Nat
      /\ Cardinality(h.turns \cap m) <= Cardinality(h.turns \cap n)
  BY <1>4, CountMore
<1>6. Charges(t) \ h.turns \subseteq Charges(s) \ h.turns /\ IsFiniteSet(Charges(s) \ h.turns)
  BY <1>2, CountMore
<1>7. /\ Cardinality(Charges(t) \ h.turns) \in Nat
      /\ Cardinality(Charges(t) \ h.turns) <= Cardinality(Charges(s) \ h.turns)
  BY <1>6, CountMore
<1>8. CASE s.attempt = Unknown
  BY <1>8 DEF Covers
<1>9. CASE s.attempt # Unknown
  BY <1>1, <1>3, <1>5, <1>7, <1>9 DEF Covers
<1>. QED
  BY <1>8, <1>9

(* A step that leaves the recorded costs, the loop's books and those of the *)
(* file, or writes the loop's to the file, keeps both counts.               *)
LEMMA BooksKept ==
    ASSUME TypeOK, SpendInv, BudgetInv, TypeOK',
           hub'.turns = hub.turns, hub'.attempt = hub.attempt, turns' = turns,
           lost.costs \subseteq lost'.costs,
           st'.backlog = st.backlog, st'.attempt = st.attempt,
           \/ /\ disk'.backlog = disk.backlog /\ disk'.attempt = disk.attempt
              /\ lost.costs \cup Unwritten \subseteq lost'.costs \cup Unwritten'
              /\ Unwritten \subseteq Unwritten'
           \/ disk' = st' /\ pc # "run",
           Opens' => Opens,
           pc = "run" => pc' = "run" /\ turn'.id = turn.id
    PROVE  SpendInv' /\ BudgetInv'
<1>a. st \in State /\ disk \in State /\ st' \in State /\ disk' \in State
  BY DEF TypeOK
<1>b. /\ Queued(st') = Queued(st) /\ Charges(st') = Charges(st)
      /\ Queued(st)' = Queued(st') /\ Charges(st)' = Charges(st')
      /\ Queued(disk)' = Queued(disk') /\ Charges(disk)' = Charges(disk')
  <2>1. Queued(st') = Queued(st) /\ Charges(st') = Charges(st)
    BY SameBacklog
  <2>2. /\ Queued(st)' = Queued(st') /\ Charges(st)' = Charges(st')
        /\ Queued(disk)' = Queued(disk') /\ Charges(disk)' = Charges(disk')
    OBVIOUS
  <2>. QED
    BY <2>1, <2>2
<1>c. hub \in Recorded /\ hub' \in Recorded
  BY DEF TypeOK, Recorded
<1>d. /\ Covers(hub, st, lost.costs)' = Covers(hub', st', lost'.costs)
      /\ Covers(hub, disk, lost.costs \cup Unwritten)' = Covers(hub', disk', lost'.costs \cup Unwritten')
  OBVIOUS
<1>1. SpendIsKept'
  BY <1>b DEF SpendInv, SpendIsKept
<1>2. Covers(hub', st', lost'.costs)
  BY <1>a, <1>b, <1>c, CoversMore DEF BudgetInv
<1>3. CASE disk' = st' /\ pc # "run"
  <2>1. \A id \in 1..turns : id \in hub.turns \cup Queued(st) \cup lost.costs
    BY <1>3 DEF SpendInv, SpendIsKept
  <2>2. Queued(disk)' = Queued(st') /\ Charges(disk)' = Charges(st') /\ Charges(st)' = Charges(st')
    BY <1>3, <1>b
  <2>3. Covers(hub', disk', lost'.costs \cup Unwritten')
    BY <1>2, <1>3, <1>a, <1>c, CoversMore
  <2>4. Opens' => hub'.attempt = 0 /\ Charges(st') = {}
    BY <1>b DEF BudgetInv
  <2>. QED
    BY <1>1, <1>2, <1>b, <1>d, <2>1, <2>2, <2>3, <2>4 DEF SpendInv, BudgetInv
<1>4. CASE /\ disk'.backlog = disk.backlog /\ disk'.attempt = disk.attempt
           /\ lost.costs \cup Unwritten \subseteq lost'.costs \cup Unwritten'
           /\ Unwritten \subseteq Unwritten'
  <2>1. Queued(disk') = Queued(disk) /\ Charges(disk') = Charges(disk)
    BY <1>4, SameBacklog
  <2>2. Covers(hub', disk', lost'.costs \cup Unwritten')
    BY <1>4, <1>a, <1>c, <2>1, CoversMore DEF BudgetInv
  <2>3. \A id \in 1..turns : id \in hub.turns \cup Queued(disk) \cup lost'.costs \cup Unwritten'
    BY <1>4 DEF SpendInv
  <2>4. Charges(st') \subseteq Charges(disk') \cup Unwritten'
    BY <1>4, <1>b, <2>1 DEF BudgetInv
  <2>. QED
    BY <1>1, <1>2, <1>b, <1>d, <2>1, <2>2, <2>3, <2>4 DEF SpendInv, BudgetInv
<1>. QED
  BY <1>3, <1>4

(* What a state covers it covers once a report it counts, or one that is    *)
(* missed, is recorded.                                                     *)
LEMMA CoversRecorded ==
    ASSUME NEW h \in Recorded, NEW g \in Recorded, NEW r \in Report,
           g.turns = h.turns \cup {r.id},
           g.attempt = h.attempt + (IF r.charged /\ r.id \notin h.turns THEN 1 ELSE 0),
           NEW s \in State, NEW m, r.charged => r.id \in Charges(s) \cup m, Covers(h, s, m)
    PROVE  Covers(g, s, m)
<1>1. s.attempt \in {Unknown} \cup Nat /\ h.attempt \in Nat /\ IsFiniteSet(h.turns)
      /\ r.charged \in BOOLEAN /\ IsFiniteSet(Charges(s))
  BY BacklogIsFinite DEF State, Recorded, Report
<1>2. CASE s.attempt = Unknown
  BY <1>2 DEF Covers
<1>3. CASE s.attempt # Unknown /\ r.id \in h.turns
  <2>1. g.turns = h.turns /\ g.attempt = h.attempt
    BY <1>1, <1>3
  <2>. QED
    BY <2>1 DEF Covers
<1>4. CASE s.attempt # Unknown /\ r.id \notin h.turns
  <2>. DEFINE left == Cardinality(Charges(s) \ h.turns)
              now == Cardinality(Charges(s) \ (h.turns \cup {r.id}))
              missed == Cardinality(h.turns \cap m)
              more == Cardinality((h.turns \cup {r.id}) \cap m)
  <2>1. /\ left \in Nat /\ now \in Nat /\ missed \in Nat /\ more \in Nat
        /\ r.id \in Charges(s) => left = now + 1
        /\ r.id \notin Charges(s) => left = now
        /\ r.id \in m => more = missed + 1
        /\ r.id \notin m => more = missed
    <3>. DEFINE x == r.id
                H == h.turns
                C == Charges(s)
    <3>1. IsFiniteSet(H) /\ IsFiniteSet(C) /\ x \notin H
      BY <1>1, <1>4
    <3>. HIDE DEF x, H, C
    <3>2. /\ Cardinality(C \ H) \in Nat /\ Cardinality(C \ (H \cup {x})) \in Nat
          /\ Cardinality(H \cap m) \in Nat /\ Cardinality((H \cup {x}) \cap m) \in Nat
          /\ x \in C => Cardinality(C \ H) = Cardinality(C \ (H \cup {x})) + 1
          /\ x \notin C => Cardinality(C \ H) = Cardinality(C \ (H \cup {x}))
          /\ x \in m => Cardinality((H \cup {x}) \cap m) = Cardinality(H \cap m) + 1
          /\ x \notin m => Cardinality((H \cup {x}) \cap m) = Cardinality(H \cap m)
      BY <3>1, CountRecorded
    <3>. QED
      BY <3>2 DEF x, H, C
  <2>2. h.attempt + left <= s.attempt + missed
    BY <1>4 DEF Covers
  <2>3. g.attempt = h.attempt + (IF r.charged THEN 1 ELSE 0)
    BY <1>4
  <2>. HIDE DEF left, now, missed, more
  <2>4. g.attempt + now <= s.attempt + more
    BY <1>1, <1>4, <2>1, <2>2, <2>3
  <2>. QED
    BY <1>4, <2>4 DEF Covers, now, more
<1>. QED
  BY <1>2, <1>3, <1>4

(* And once one more turn is charged to it.                                 *)
LEMMA CoversCharged ==
    ASSUME NEW h \in Recorded, NEW s \in State, NEW t \in State, NEW x, NEW m,
           Charges(t) \subseteq Charges(s) \cup {x}, t.attempt = Larger(s.attempt, 0) + 1,
           Covers(h, s, m), s.attempt = Unknown => h.attempt = 0
    PROVE  Covers(h, t, m)
<1>1. s.attempt \in {Unknown} \cup Nat /\ h.attempt \in Nat /\ IsFiniteSet(h.turns)
      /\ IsFiniteSet(Charges(s))
  BY BacklogIsFinite DEF State, Recorded
<1>. DEFINE left == Charges(s) \ h.turns
<1>2. IsFiniteSet(left) /\ Cardinality(left) \in Nat
  BY <1>1, CountMore
<1>3. /\ IsFiniteSet(left \cup {x})
      /\ Cardinality(left \cup {x}) \in Nat /\ Cardinality(left \cup {x}) <= Cardinality(left) + 1
  <2>1. CASE x \in left
    <3>1. left \cup {x} = left
      BY <2>1
    <3>2. Cardinality(left \cup {x}) = Cardinality(left) /\ IsFiniteSet(left \cup {x})
      BY <1>2, <3>1
    <3>. HIDE DEF left
    <3>. QED
      BY <1>2, <3>2
  <2>2. CASE x \notin left
    <3>. HIDE DEF left
    <3>1. IsFiniteSet(left \cup {x}) /\ Cardinality(left \cup {x}) = Cardinality(left) + 1
      BY <1>2, <2>2, FS_AddElement
    <3>. QED
      BY <1>2, <3>1
  <2>. HIDE DEF left
  <2>. QED
    BY <2>1, <2>2
<1>4. Charges(t) \ h.turns \subseteq left \cup {x}
  OBVIOUS
<1>5. /\ Cardinality(Charges(t) \ h.turns) \in Nat
      /\ Cardinality(Charges(t) \ h.turns) <= Cardinality(left) + 1
  <2>. HIDE DEF left
  <2>. QED
    BY <1>2, <1>3, <1>4, CountMore
<1>6. Cardinality(h.turns \cap m) \in Nat
  BY <1>1, CountMore
<1>7. t.attempt \in Nat /\ t.attempt # Unknown
  BY <1>1 DEF Larger, Unknown
<1>8. CASE s.attempt = Unknown
  <2>1. Charges(s) = {}
    BY <1>8 DEF Covers
  <2>2. Cardinality(left) = 0
    BY <2>1, FS_EmptySet
  <2>. HIDE DEF left
  <2>. QED
    BY <1>1, <1>5, <1>6, <1>7, <1>8, <2>2 DEF Covers, Larger, Unknown
<1>9. CASE s.attempt # Unknown
  <2>1. h.attempt + Cardinality(left) <= s.attempt + Cardinality(h.turns \cap m)
    BY <1>9 DEF Covers
  <2>2. t.attempt = s.attempt + 1
    BY <1>1, <1>9 DEF Larger, Unknown
  <2>. HIDE DEF left
  <2>. QED
    BY <1>1, <1>2, <1>5, <1>6, <1>7, <1>9, <2>1, <2>2 DEF Covers
<1>. QED
  BY <1>8, <1>9

(* And once aicrewd's own figure is taken where it is larger.               *)
LEMMA CoversPulled ==
    ASSUME TypeOK, NEW s \in State, NEW m, Covers(hub, s, m)
    PROVE  Covers(hub, PullTotals(s), m)
<1>. DEFINE t == PullTotals(s)
<1>1. s.attempt \in {Unknown} \cup Nat /\ hub.attempt \in Nat /\ IsFiniteSet(hub.turns)
      /\ IsFiniteSet(Charges(s))
  BY BacklogIsFinite DEF State, TypeOK
<1>2. Cardinality(Charges(s) \ hub.turns) \in Nat /\ Cardinality(hub.turns \cap m) \in Nat
  BY <1>1, CountMore
<1>3. t.backlog = s.backlog /\ (\/ t.attempt = s.attempt
                                      \/ (t.attempt \in Nat /\ t.attempt >= hub.attempt /\ t.attempt >= s.attempt))
  BY PullTotalsType
<1>. HIDE DEF t
<1>4. Charges(t) = Charges(s)
  BY <1>3, SameBacklog
<1>5. CASE t.attempt = s.attempt
  BY <1>4, <1>5 DEF Covers, t
<1>6. CASE t.attempt \in Nat /\ t.attempt >= hub.attempt /\ t.attempt >= s.attempt
  <2>1. CASE s.attempt = Unknown
    <3>1. Charges(s) = {}
      BY <2>1 DEF Covers
    <3>2. Cardinality(Charges(s) \ hub.turns) = 0
      BY <3>1, FS_EmptySet
    <3>. QED
      BY <1>1, <1>2, <1>4, <1>6, <3>2 DEF Covers, Unknown, t
  <2>2. CASE s.attempt # Unknown
    BY <1>1, <1>2, <1>4, <1>6, <2>2 DEF Covers, Unknown, t
  <2>. QED
    BY <2>1, <2>2
<1>. QED
  BY <1>3, <1>5, <1>6

(* A report reaches aicrewd, or not.                                        *)
LEMMA ReportTurnBooks ==
    ASSUME TypeOK, SpendInv, BudgetInv, TypeOK', ReportTurn
    PROVE  SpendInv' /\ BudgetInv'
<1>. DEFINE r == Head(st.backlog)
            rest == [st EXCEPT !.backlog = Tail(@)]
<1>1. /\ pc \in {"admit", "ended"} /\ st.backlog # <<>> /\ pc' = pc /\ phase' = phase
      /\ UNCHANGED <<turns, lost, disk>>
      /\ turn' = turn \/ turn' = [turn EXCEPT !.cut = TRUE]
      /\ \/ hub' = RecordCost(r) /\ st' = rest
         \/ hub' \in {hub, RecordCost(r)} /\ st' = st
  <2>1. /\ pc \in {"admit", "ended"} /\ st.backlog # <<>> /\ pc' = pc /\ phase' = phase
        /\ UNCHANGED <<turns, lost, disk>>
    BY DEF ReportTurn, home, world
  <2>2. \/ hub' = RecordCost(r) /\ st' = rest /\ turn' = turn
        \/ hub' \in {hub, RecordCost(r)} /\ st' = st /\ turn' = [turn EXCEPT !.cut = TRUE]
    BY DEF ReportTurn, Unanswered
  <2>. HIDE DEF r, rest
  <2>. QED
    BY <2>1, <2>2
<1>2. st \in State /\ disk \in State /\ st' \in State /\ turn \in Turn
      /\ hub \in Recorded /\ hub' \in Recorded
  BY DEF TypeOK, Recorded
<1>3. turn'.id = turn.id /\ turn'.open = turn.open
  BY <1>1, <1>2 DEF Turn
<1>4. Unwritten' = Unwritten /\ Opens' = Opens
  BY <1>1, <1>3 DEF Unwritten, InTurn, Opens
<1>5. CASE hub' = hub /\ st' = st
  BY <1>1, <1>3, <1>4, <1>5, BooksKept
<1>6. CASE hub' = RecordCost(r)
  <2>1. rest.backlog = Tail(st.backlog) /\ rest.attempt = st.attempt
    BY <1>2 DEF State
  <2>. HIDE DEF rest
  <2>2. /\ r \in Report /\ Queued(st) = Queued(rest) \cup {r.id}
        /\ Charges(rest) \subseteq Charges(st) /\ (r.charged => r.id \in Charges(st))
    BY <1>1, <1>2, <2>1, TailBacklog
  <2>. HIDE DEF r
  <2>3. /\ hub'.turns = hub.turns \cup {r.id}
        /\ hub'.attempt = hub.attempt + (IF r.charged /\ r.id \notin hub.turns THEN 1 ELSE 0)
    BY <1>6, <2>2, RecordCostType
  <2>4. Covers(hub', st, lost.costs) /\ Covers(hub', disk, lost.costs \cup Unwritten)
    <3>1. r.charged => r.id \in Charges(st) \cup lost.costs
      BY <2>2
    <3>2. r.charged => r.id \in Charges(disk) \cup (lost.costs \cup Unwritten)
      BY <2>2 DEF BudgetInv
    <3>3. Covers(hub, st, lost.costs) /\ Covers(hub, disk, lost.costs \cup Unwritten)
      BY DEF BudgetInv
    <3>4. Covers(hub', st, lost.costs)
      BY <1>2, <2>2, <2>3, <3>1, <3>3, CoversRecorded
    <3>5. Covers(hub', disk, lost.costs \cup Unwritten)
      BY <1>2, <2>2, <2>3, <3>2, <3>3, CoversRecorded
    <3>. QED
      BY <3>4, <3>5
  <2>5. st' \in {st, rest}
    BY <1>1 DEF rest
  <2>6. Queued(st) \subseteq Queued(st') \cup {r.id} /\ Charges(st') \subseteq Charges(st)
        /\ st'.attempt = st.attempt
    BY <2>1, <2>2, <2>5
  <2>7. Covers(hub', st', lost.costs)
    BY <1>2, <2>4, <2>6, CoversMore
  <2>8. /\ SpendIsKept' /\ \A id \in 1..turns :
                               id \in hub'.turns \cup Queued(disk) \cup lost.costs \cup Unwritten
    BY <1>1, <1>3, <2>3, <2>6 DEF SpendInv, SpendIsKept
  <2>9. Opens' => hub'.attempt = 0 /\ Charges(st') = {} /\ Charges(disk) = {}
    BY <1>4, <2>2, <2>3, <2>6 DEF BudgetInv
  <2>10. SpendInv'
    BY <1>1, <1>4, <2>8 DEF SpendInv
  <2>11. Covers(hub, st, lost.costs)' /\ Covers(hub, disk, lost.costs \cup Unwritten)'
    BY <1>1, <1>4, <2>4, <2>7
  <2>12. Charges(st') \subseteq Charges(disk) \cup Unwritten
    BY <2>6 DEF BudgetInv
  <2>13. BudgetInv'
    BY <1>1, <1>4, <2>9, <2>11, <2>12 DEF BudgetInv
  <2>. QED
    BY <2>10, <2>13
<1>. QED
  BY <1>1, <1>5, <1>6

(* A turn is admitted with what aicrewd knows, or held.                     *)
LEMMA AdmitBooks ==
    ASSUME TypeOK, SpendInv, BudgetInv, TypeOK', Admit
    PROVE  SpendInv' /\ BudgetInv'
<1>. DEFINE known == PullTotals(st)
<1>1. st \in State /\ disk \in State /\ st' \in State /\ disk' \in State
      /\ hub \in Recorded
  BY DEF TypeOK, Recorded
<1>2. known \in State /\ known.backlog = st.backlog
  BY <1>1, PullTotalsType
<1>3. Covers(hub, known, lost.costs)
  BY <1>1, CoversPulled DEF BudgetInv
<1>. HIDE DEF known
<1>4. /\ st'.backlog = st.backlog /\ st'.attempt = known.attempt
      /\ \/ disk' = disk
         \/ disk'.backlog = st.backlog /\ disk'.attempt = known.attempt
  <2>1. CASE Overspent(known)
    <3>1. st' = [SetHold(known, "budget") EXCEPT !.held = "budget"] /\ disk' = st'
      BY <2>1 DEF Admit, known
    <3>2. SetHold(known, "budget") \in State /\ SetHold(known, "budget").backlog = known.backlog
          /\ SetHold(known, "budget").attempt = known.attempt
      BY <1>2, SetHoldType
    <3>3. st'.backlog = known.backlog /\ st'.attempt = known.attempt
      BY <3>1, <3>2 DEF State
    <3>. QED
      BY <1>2, <3>1, <3>3
  <2>2. CASE ~Overspent(known)
    <3>1. st' = SetHold(known, "none") /\ disk' \in {disk, known}
      BY <2>2 DEF Admit, known
    <3>2. st'.backlog = known.backlog /\ st'.attempt = known.attempt
      BY <1>2, <3>1, SetHoldType
    <3>. QED
      BY <1>2, <3>1, <3>2
  <2>. QED
    BY <2>1, <2>2
<1>5. /\ UNCHANGED <<hub, phase, lost, turns>> /\ pc = "admit"
      /\ pc' = "idle" \/ (pc' = "begin" /\ turn' = turn)
  BY DEF Admit, aicrewd, world
<1>6. Unwritten = {} /\ Unwritten' = {} /\ (Opens' => Opens)
  BY <1>5 DEF Unwritten, InTurn, Opens
<1>7. /\ Queued(st') = Queued(st) /\ Charges(st') = Charges(st) /\ Charges(st) = Charges(known)
      /\ disk' = disk \/ (Queued(disk') = Queued(st) /\ Charges(disk') = Charges(st))
  BY <1>2, <1>4, SameBacklog
<1>8. Covers(hub, st', lost.costs)
  BY <1>1, <1>2, <1>3, <1>4, <1>7, CoversMore
<1>9. Covers(hub, disk', lost.costs)
  <2>1. CASE disk' = disk
    BY <1>6, <2>1 DEF BudgetInv
  <2>2. CASE disk'.attempt = known.attempt /\ Charges(disk') = Charges(st)
    BY <1>1, <1>2, <1>3, <1>7, <2>2, CoversMore
  <2>. QED
    BY <1>4, <1>7, <2>1, <2>2, SameBacklog
<1>10. SpendIsKept' /\ \A id \in 1..turns : id \in hub.turns \cup Queued(disk') \cup lost.costs
  BY <1>5, <1>6, <1>7 DEF SpendInv, SpendIsKept
<1>11. SpendInv'
  BY <1>5, <1>10 DEF SpendInv
<1>12. Covers(hub, st, lost.costs)' /\ Covers(hub, disk, lost.costs \cup Unwritten)'
  BY <1>5, <1>6, <1>8, <1>9
<1>13. /\ Charges(st') \subseteq Charges(disk') \cup Unwritten'
       /\ Opens' => hub'.attempt = 0 /\ Charges(st') = {} /\ Charges(disk') = {}
  BY <1>5, <1>6, <1>7 DEF BudgetInv
<1>. QED
  BY <1>11, <1>12, <1>13 DEF BudgetInv

(* A turn starts: the file has it as running.                               *)
LEMMA BeginBooks ==
    ASSUME TypeOK, TurnInv, SpendInv, BudgetInv, TypeOK', Begin
    PROVE  SpendInv' /\ BudgetInv'
<1>1. st \in State /\ st' \in State /\ turn \in Turn /\ hub \in Recorded /\ turns \in Nat
  BY DEF TypeOK, Recorded
<1>2. /\ st'.backlog = st.backlog /\ st'.attempt = st.attempt /\ st'.running = turn.id
      /\ disk' = st' /\ turn'.id = turn.id /\ turn'.open = turn.open
  BY <1>1 DEF Begin, Turn, State
<1>3. /\ UNCHANGED <<hub, phase, lost>> /\ pc = "begin" /\ pc' = "run" /\ turns' = turns + 1
  BY DEF Begin, aicrewd, world
<1>4. turn.id = turns + 1
  BY <1>3 DEF TurnInv
<1>5. Unwritten' = {turn.id} /\ (Opens' => Opens)
  BY <1>1, <1>2, <1>3, <1>4 DEF Unwritten, InTurn, Opens
<1>6. Queued(st') = Queued(st) /\ Charges(st') = Charges(st)
  BY <1>2, SameBacklog
<1>7. Covers(hub, st', lost.costs) /\ Covers(hub, st', lost.costs \cup {turn.id})
  BY <1>1, <1>2, <1>6, CoversMore DEF BudgetInv
<1>8. \A id \in 1..turns : id \in hub.turns \cup Queued(st) \cup lost.costs
  BY <1>3 DEF SpendInv, SpendIsKept
<1>9. \A id \in 1..turns' : id \in 1..turns \/ id = turn.id
  BY <1>1, <1>3, <1>4
<1>10. SpendInv'
  BY <1>2, <1>3, <1>5, <1>6, <1>8, <1>9 DEF SpendInv, SpendIsKept
<1>11. Covers(hub, st, lost.costs)' /\ Covers(hub, disk, lost.costs \cup Unwritten)'
  BY <1>2, <1>3, <1>5, <1>7
<1>12. Charges(st)' = Charges(st') /\ Charges(disk)' = Charges(st')
  BY <1>2
<1>. QED
  BY <1>3, <1>5, <1>6, <1>10, <1>11, <1>12 DEF BudgetInv

(* A turn that ended is charged.                                            *)
LEMMA EndTurnBooks ==
    ASSUME TypeOK, TurnInv, SpendInv, BudgetInv, TypeOK', NEW outcome, EndTurn(outcome)
    PROVE  SpendInv' /\ BudgetInv'
<1>1. PICK after \in {phase, "not_read"} :
        /\ turn' = [turn EXCEPT !.outcome = outcome, !.after = after]
        /\ st' = Charge(st, turn.open \/ Open(after))
  BY DEF EndTurn
<1>2. /\ UNCHANGED <<hub, phase, turns, disk>> /\ pc = "run" /\ pc' = "ended"
      /\ lost' = IF Len(st'.backlog) = Len(st.backlog)
                 THEN [lost EXCEPT !.costs = @ \cup {st.backlog[1].id}] ELSE lost
  BY DEF EndTurn, world, aicrewd, home
<1>3. st \in State /\ st' \in State /\ disk \in State /\ turn \in Turn /\ hub \in Recorded
      /\ lost \in [costs : SUBSET Nat, due : BOOLEAN, hold : BOOLEAN]
  BY DEF TypeOK, Recorded
<1>4. turn'.id = turn.id /\ turn.id = turns /\ disk.running # 0
  BY <1>1, <1>2, <1>3 DEF Turn, TurnInv, InTurn
<1>5. Unwritten = {turn.id} /\ Unwritten' = {turn.id}
  BY <1>2, <1>4 DEF Unwritten, InTurn
<1>. DEFINE charged == turn.open \/ Open(after)
<1>6. charged \in BOOLEAN
  BY <1>3 DEF Turn, Open
<1>7. charged => turn.open \/ Opens
  BY <1>1, <1>2, <1>3 DEF Opens, Open, Turn
<1>8. phase = "none" => ~charged
  BY <1>1 DEF Open, TurnInv
<1>. HIDE DEF charged
<1>9. /\ st'.attempt = IF charged THEN Larger(st.attempt, 0) + 1 ELSE st.attempt
      /\ Charges(st') \subseteq Charges(st) \cup {id \in {turn.id} : charged}
      /\ IF Len(st'.backlog) = Len(st.backlog)
         THEN Queued(st) \cup {turn.id} = Queued(st') \cup {st.backlog[1].id}
         ELSE Queued(st') = Queued(st) \cup {turn.id}
  <2>. DEFINE t == Charge(st, charged)
  <2>1. /\ t.attempt = IF charged THEN Larger(st.attempt, 0) + 1 ELSE st.attempt
        /\ Charges(t) \subseteq Charges(st) \cup {id \in {turn.id} : charged}
        /\ IF Len(t.backlog) = Len(st.backlog)
           THEN Queued(st) \cup {turn.id} = Queued(t) \cup {st.backlog[1].id}
           ELSE Queued(t) = Queued(st) \cup {turn.id}
    BY SMTT(20), <1>3, <1>6, ChargeType
  <2>2. st' = t
    BY <1>1 DEF charged
  <2>. HIDE DEF t
  <2>. QED
    BY <2>1, <2>2
<1>10. lost.costs \subseteq lost'.costs /\ Queued(st) \cup {turn.id} \subseteq Queued(st') \cup lost'.costs
  <2>1. CASE Len(st'.backlog) = Len(st.backlog)
    <3>1. lost'.costs = lost.costs \cup {st.backlog[1].id}
      BY <1>2, <1>3, <2>1
    <3>. QED
      BY <1>9, <2>1, <3>1
  <2>2. CASE Len(st'.backlog) # Len(st.backlog)
    BY <1>2, <1>9, <2>2
  <2>. QED
    BY <2>1, <2>2
<1>11. Covers(hub, st', lost'.costs)
  <2>1. Covers(hub, st, lost'.costs)
    BY <1>3, <1>10, CoversMore DEF BudgetInv
  <2>2. CASE charged
    <3>1. st.attempt = Unknown => hub.attempt = 0
      BY <1>2, <1>7, <2>2 DEF TurnInv, BudgetInv
    <3>2. Charges(st') \subseteq Charges(st) \cup {turn.id} /\ st'.attempt = Larger(st.attempt, 0) + 1
      BY <1>9, <2>2
    <3>. QED
      BY <1>3, <2>1, <3>1, <3>2, CoversCharged
  <2>3. CASE ~charged
    <3>1. Charges(st') \subseteq Charges(st) /\ st'.attempt = st.attempt
      BY <1>9, <2>3
    <3>. QED
      BY <1>3, <2>1, <3>1, CoversMore
  <2>. QED
    BY <2>2, <2>3
<1>12. Covers(hub, disk, lost'.costs \cup {turn.id})
  BY <1>3, <1>5, <1>10, CoversMore DEF BudgetInv
<1>13. SpendInv'
  <2>1. \A id \in 1..turns : id \in hub.turns \cup Queued(st) \cup {turn.id} \cup lost.costs
    BY <1>2 DEF SpendInv, SpendIsKept
  <2>2. \A id \in 1..turns : id \in hub.turns \cup Queued(disk) \cup lost.costs \cup {turn.id}
    BY <1>5 DEF SpendInv
  <2>. QED
    BY <1>2, <1>5, <1>10, <2>1, <2>2 DEF SpendInv, SpendIsKept
<1>14. Charges(st') \subseteq Charges(disk) \cup {turn.id}
  BY <1>5, <1>9 DEF BudgetInv
<1>15. Opens' => hub.attempt = 0 /\ Charges(st') = {} /\ Charges(disk) = {}
  <2>1. Opens' => phase = "none"
    BY <1>2 DEF Opens
  <2>. QED
    BY <1>8, <1>9, <2>1 DEF BudgetInv, Opens
<1>16. Covers(hub, st, lost.costs)' /\ Covers(hub, disk, lost.costs \cup Unwritten)'
  BY <1>2, <1>5, <1>11, <1>12
<1>. QED
  BY <1>2, <1>5, <1>13, <1>14, <1>15, <1>16 DEF BudgetInv

(* The launcher stops: only the running turn's cost is gone with its copy.  *)
LEMMA CrashBooks ==
    ASSUME TypeOK, SpendInv, BudgetInv, Crash
    PROVE  SpendInv' /\ BudgetInv'
<1>1. /\ UNCHANGED <<hub, phase, turns, disk>> /\ pc' = "down" /\ st' = disk
      /\ lost'.costs = IF disk.running = 0 THEN lost.costs ELSE lost.costs \cup {turn.id}
  BY DEF Crash, TypeOK, aicrewd, world, home
<1>2. disk \in State /\ hub \in Recorded
  BY DEF TypeOK, Recorded
<1>3. Unwritten' = {} /\ lost.costs \cup Unwritten \subseteq lost'.costs
  BY <1>1 DEF Unwritten, InTurn
<1>4. Covers(hub, disk, lost'.costs)
  BY <1>2, <1>3, CoversMore DEF BudgetInv
<1>5. SpendInv'
  BY <1>1, <1>3 DEF SpendInv, SpendIsKept
<1>6. Covers(hub, st, lost.costs)' /\ Covers(hub, disk, lost.costs \cup Unwritten)'
  BY <1>1, <1>3, <1>4
<1>7. /\ Charges(st)' = Charges(disk) /\ Charges(disk)' = Charges(disk)
      /\ Opens' => Opens
  BY <1>1 DEF Opens
<1>. QED
  BY <1>1, <1>3, <1>5, <1>6, <1>7 DEF BudgetInv

(* A launcher reads the file, or has a new home without one.                *)
LEMMA StartBooks ==
    ASSUME TypeOK, SpendInv, BudgetInv, TypeOK', Start \/ NewHome
    PROVE  SpendInv' /\ BudgetInv'
<1>1. /\ UNCHANGED <<hub, phase, turns>> /\ pc = "down" /\ pc' # "run" /\ disk' = st'
      /\ Unwritten = {} /\ Unwritten' = {} /\ (Opens' => Opens)
  BY DEF Start, NewHome, aicrewd, world, Unwritten, InTurn, Opens
<1>2. disk \in State /\ st' \in State /\ hub \in Recorded
  BY DEF TypeOK, Recorded
<1>3. Charges(st') \subseteq Charges(disk) /\ lost.costs \cup Queued(disk) \subseteq lost'.costs \cup Queued(st')
      /\ Covers(hub, st', lost'.costs)
  <2>1. CASE Start
    <3>1. st'.backlog = disk.backlog /\ st'.attempt = disk.attempt /\ lost' = lost
      BY <1>2, <2>1 DEF Start, State
    <3>2. Queued(st') = Queued(disk) /\ Charges(st') = Charges(disk)
      BY <3>1, SameBacklog
    <3>3. Covers(hub, disk, lost.costs)
      BY <1>1 DEF BudgetInv
    <3>. QED
      BY <1>2, <3>1, <3>2, <3>3, CoversMore
  <2>2. CASE NewHome
    BY <2>2, FreshStateType DEF NewHome, Queued, Covers
  <2>. QED
    BY <2>1, <2>2
<1>4. \A id \in 1..turns : id \in hub.turns \cup Queued(disk) \cup lost.costs
  BY <1>1 DEF SpendInv
<1>5. SpendInv'
  BY <1>1, <1>3, <1>4 DEF SpendInv, SpendIsKept
<1>6. Covers(hub, st, lost.costs)' /\ Covers(hub, disk, lost.costs \cup Unwritten)'
  BY <1>1, <1>3
<1>7. Charges(st)' = Charges(st') /\ Charges(disk)' = Charges(st')
  BY <1>1
<1>. QED
  BY <1>1, <1>3, <1>5, <1>6, <1>7 DEF BudgetInv

(* The books, at every step.                                                *)
LEMMA BooksStep ==
    ASSUME TypeOK, TurnInv, SpendInv, BudgetInv, TypeOK', Next
    PROVE  SpendInv' /\ BudgetInv'
<1>a. /\ turn \in Turn /\ disk \in State /\ st \in State /\ disk' \in State /\ st' \in State
      /\ lost \in [costs : SUBSET Nat, due : BOOLEAN, hold : BOOLEAN]
      /\ hub \in [turns : SUBSET Nat, day : Nat, attempt : Nat]
  BY DEF TypeOK
<1>1. CASE /\ UNCHANGED <<hub, turns, st, disk, lost, pc>> /\ turn'.id = turn.id
           /\ Opens' => Opens
  <2>1. Unwritten' = Unwritten
    BY <1>1 DEF Unwritten, InTurn
  <2>. QED
    BY <1>1, <2>1, BooksKept
<1>2. CASE Due
  <2>1. /\ Unwritten = {} /\ Unwritten' = {} /\ (Opens' => Opens)
    BY <1>2, <1>a DEF Due, Unwritten, InTurn, Opens, Open, NoTurn, Turn, world
  <2>2. pc # "run" /\ UNCHANGED <<hub, turns, st, disk, lost>>
    BY <1>2 DEF Due, aicrewd, home
  <2>. QED
    BY <2>1, <2>2, BooksKept
<1>3. CASE TotalsUnread
  <2>1. st'.backlog = st.backlog /\ st'.attempt = st.attempt
    BY <1>3, <1>a DEF TotalsUnread, State
  <2>2. /\ UNCHANGED <<hub, turns, lost>> /\ disk' = st' /\ pc # "run" /\ (Opens' => Opens)
    BY <1>3 DEF TotalsUnread, aicrewd, world, Opens
  <2>. QED
    BY <2>1, <2>2, BooksKept
<1>4. CASE SyncHold
  <2>1. turn'.id = turn.id /\ turn'.open = turn.open
    BY <1>4, <1>a DEF SyncHold, Unanswered, Turn
  <2>2. /\ UNCHANGED <<hub, turns, lost, pc, phase>> /\ pc # "run"
        /\ UNCHANGED <<st, disk>> \/ (st' = [st EXCEPT !.pending = FALSE] /\ disk' = st')
    BY <1>4 DEF SyncHold, world
  <2>3. Opens' => Opens
    BY <2>1, <2>2 DEF Opens
  <2>4. CASE UNCHANGED <<st, disk>>
    BY <1>1, <2>1, <2>2, <2>3, <2>4
  <2>5. CASE st' = [st EXCEPT !.pending = FALSE] /\ disk' = st'
    <3>1. st'.backlog = st.backlog /\ st'.attempt = st.attempt
      BY <1>a, <2>5 DEF State
    <3>. QED
      BY <2>2, <2>3, <2>5, <3>1, BooksKept
  <2>. QED
    BY <2>2, <2>4, <2>5
<1>5. CASE AfterOutcome
  <2>1. UNCHANGED <<hub, turns, disk, lost, turn, phase>> /\ pc = "ended" /\ pc' = "closing"
    BY <1>5 DEF AfterOutcome, aicrewd, world, home
  <2>. DEFINE told == IF turn.outcome = "limit" THEN "limit" ELSE "none"
  <2>2. \E own : st' = [SetHold(st, told) EXCEPT !.held = own]
    BY <1>5 DEF AfterOutcome
  <2>3. told \in {"none", "limit", "budget"}
    OBVIOUS
  <2>. HIDE DEF told
  <2>4. SetHold(st, told) \in State /\ SetHold(st, told).backlog = st.backlog
        /\ SetHold(st, told).attempt = st.attempt
    BY <1>a, <2>3, SetHoldType
  <2>5. st'.backlog = st.backlog /\ st'.attempt = st.attempt
    BY <2>2, <2>4 DEF State
  <2>6. Unwritten' = Unwritten /\ (Opens' => Opens)
    BY <2>1 DEF Unwritten, InTurn, Opens
  <2>. QED
    BY <2>1, <2>5, <2>6, BooksKept
<1>6. CASE Close
  <2>1. st'.backlog = st.backlog /\ st'.attempt = st.attempt
    BY <1>6, CountedState
  <2>2. /\ UNCHANGED <<hub, turns>> /\ disk' = st' /\ pc # "run" /\ (Opens' => Opens)
        /\ lost'.costs = lost.costs
    BY <1>6, <1>a DEF Close, Opens
  <2>. QED
    BY <2>1, <2>2, BooksKept
<1>7. CASE HoldEnds \/ NewDay
  <2>1. /\ st'.backlog = st.backlog /\ st'.attempt = st.attempt
        /\ disk'.backlog = disk.backlog /\ disk'.attempt = disk.attempt
    BY <1>7, <1>a, ZenonT(40) DEF HoldEnds, NewDay, State
  <2>2. hub'.turns = hub.turns /\ hub'.attempt = hub.attempt /\ UNCHANGED <<turns, lost>>
        /\ pc = "idle" /\ pc' = "idle" /\ (Opens' => Opens)
    BY <1>7, <1>a DEF HoldEnds, NewDay, aicrewd, world, Opens
  <2>3. Unwritten = {} /\ Unwritten' = {}
    BY <2>2 DEF Unwritten, InTurn
  <2>. QED
    BY <2>1, <2>2, <2>3, BooksKept
<1>8. CASE Acknowledge
  <2>1. UNCHANGED <<hub, turns, st, disk, lost, pc, turn, phase>>
    BY <1>8 DEF Acknowledge, aicrewd, home
  <2>. QED
    BY <1>1, <2>1 DEF Opens
<1>9. CASE Commit
  <2>1. turn'.id = turn.id /\ turn'.open = turn.open
    BY <1>9, <1>a DEF Commit, Turn
  <2>2. UNCHANGED <<hub, turns, st, disk, lost, pc, phase>>
    BY <1>9 DEF Commit, aicrewd, home
  <2>. QED
    BY <1>1, <2>1, <2>2 DEF Opens
<1>10. CASE EditNotes
  <2>1. turn'.id = turn.id /\ turn'.open = turn.open
    BY <1>10, <1>a DEF EditNotes, Turn
  <2>2. UNCHANGED <<hub, turns, st, disk, lost, pc, phase>>
    BY <1>10 DEF EditNotes, aicrewd, world
  <2>. QED
    BY <1>1, <2>1, <2>2 DEF Opens
<1>11. ASSUME NEW from, NEW to, from = "none" \/ Open(from), to # "none", Step(from, to)
       PROVE  SpendInv' /\ BudgetInv'
  <2>1. turn'.id = turn.id /\ turn'.open = turn.open
    BY <1>11, <1>a DEF Step, Turn
  <2>2. UNCHANGED <<hub, turns, st, disk, lost, pc>> /\ phase = from /\ phase' # "none"
    BY <1>11 DEF Step, aicrewd, home
  <2>. QED
    BY <1>1, <1>11, <2>1, <2>2 DEF Opens
<1>12. CASE Others
  <2>1. UNCHANGED <<hub, turns, st, disk, lost, pc, turn, phase>>
    BY <1>12 DEF Others, aicrewd, home
  <2>. QED
    BY <1>1, <2>1 DEF Opens
<1>13. ASSUME NEW from, NEW to, Open(from), to # "none", Arrive(from, to)
       PROVE  SpendInv' /\ BudgetInv'
  <2>1. UNCHANGED <<hub, turns, st, disk, lost, pc, turn>> /\ phase = from /\ phase' # "none"
    BY <1>13 DEF Arrive, aicrewd, home
  <2>. QED
    BY <1>1, <1>13, <2>1 DEF Opens
<1>. QED
  BY <1>2, <1>3, <1>4, <1>5, <1>6, <1>7, <1>8, <1>9, <1>10, <1>11, <1>12, <1>13,
     ReportTurnBooks, AdmitBooks, BeginBooks, EndTurnBooks, CrashBooks, StartBooks
  DEF Next, LoopStep, Client, Open

-----------------------------------------------------------------------------
(* The theorems *)

(* The invariant holds at the start.                                        *)
LEMMA LoopStarts == Init => LoopInv
<1>. SUFFICES ASSUME Init PROVE LoopInv
  OBVIOUS
<1>1. /\ st = FreshState /\ disk = FreshState /\ turn = NoTurn /\ pc = "idle" /\ turns = 0
      /\ hub = [turns |-> {}, day |-> 0, attempt |-> 0] /\ phase \in {"none", "working"}
      /\ unread = TRUE /\ paused = FALSE /\ gates = FALSE /\ hubHold = "none"
      /\ hubNotes = NoNotes /\ notes = NoNotes /\ moves = 0 /\ faults = 0
      /\ lost = [costs |-> {}, due |-> FALSE, hold |-> FALSE]
  BY DEF Init
<1>2. TypeOK
  <2>1. hub \in [turns : SUBSET Nat, day : Nat, attempt : Nat] /\ IsFiniteSet(hub.turns)
    BY <1>1, FS_EmptySet
  <2>2. lost \in [costs : SUBSET Nat, due : BOOLEAN, hold : BOOLEAN]
    BY <1>1
  <2>. QED
    BY <1>1, <2>1, <2>2, FreshStateType, NoTurnType DEF TypeOK, AttemptPhases
<1>3. TurnInv /\ NotesInv /\ HoldInv
  BY <1>1, FreshStateType, NoTurnType
  DEF TurnInv, NotesInv, HoldInv, HoldIsShown, InTurn, NoNotes, NoTurn
<1>4. SpendInv
  BY <1>1 DEF SpendInv, SpendIsKept
<1>5. BudgetInv
  BY <1>1, FreshStateType DEF BudgetInv, Covers
<1>. QED
  BY <1>2, <1>3, <1>4, <1>5 DEF LoopInv

(* Every step keeps it.                                                     *)
LEMMA LoopKeeps == LoopInv /\ [Next]_vars => LoopInv'
<1>. SUFFICES ASSUME LoopInv, [Next]_vars PROVE LoopInv'
  OBVIOUS
<1>. USE DEF LoopInv
<1>1. CASE Next
  <2>1. TypeOK'
    BY <1>1, LoopStepType, OtherStepType
  <2>. QED
    BY <1>1, <2>1, TurnStep, NotesStep, HoldStep, BooksStep
<1>2. CASE UNCHANGED vars
  <2>. USE <1>2 DEF vars
  <2>1. TypeOK'
    BY DEF TypeOK
  <2>2. TurnInv'
    BY DEF TurnInv, InTurn
  <2>3. NotesInv'
    BY DEF NotesInv, InTurn
  <2>4. HoldInv'
    BY DEF HoldInv, HoldIsShown
  <2>5. SpendInv'
    BY DEF SpendInv, SpendIsKept, Unwritten, InTurn
  <2>6. BudgetInv'
    BY DEF BudgetInv, Unwritten, InTurn, Opens
  <2>. QED
    BY <2>1, <2>2, <2>3, <2>4, <2>5, <2>6
<1>. QED
  BY <1>1, <1>2

(* The invariant of the turn loop: its copy of the state and the file agree *)
(* with what aicrewd recorded, at every step of a tick (serve.go, turns.go, *)
(* turncosts.go, holds.go, handoff.go).                                     *)
THEOREM LoopIsConsistent == Spec => []LoopInv
BY LoopStarts, LoopKeeps, PTL DEF Spec

(* No turn's cost disappears but by a stop in the turn, a home left behind  *)
(* or a full backlog (turncosts.go).                                        *)
THEOREM NoSpendIsLost == Spec => []SpendIsKept
<1>1. LoopInv => SpendIsKept
  BY DEF LoopInv, SpendInv
<1>. QED
  BY <1>1, LoopIsConsistent, PTL

(* The hold aicrewd shows is the home's once its report arrived (holds.go). *)
THEOREM HoldIsTheHomes == Spec => []HoldIsShown
<1>1. LoopInv => HoldIsShown
  BY DEF LoopInv, HoldInv
<1>. QED
  BY <1>1, LoopIsConsistent, PTL

(* No turn of an attempt starts beyond the attempt's budget, in any home,   *)
(* but for the turns that stops kept from being counted (turncosts.go       *)
(* pullTotals, turns.go).                                                   *)
THEOREM BudgetIsKept == Spec => []AdmittedWithinBudget
<1>1. LoopInv => AdmittedWithinBudget
  <2>. SUFFICES ASSUME LoopInv, pc = "run", turn.open
                PROVE  hub.attempt < AttemptBudget + Cardinality(hub.turns \cap lost.costs)
    BY DEF AdmittedWithinBudget
  <2>1. /\ st \in State /\ st.attempt \in {Unknown} \cup Nat /\ hub.attempt \in Nat
        /\ IsFiniteSet(hub.turns) /\ AttemptBudget \in Nat
    BY LoopAssumption DEF LoopInv, TypeOK, State
  <2>2. st.attempt # Unknown /\ st.attempt < AttemptBudget
    BY DEF LoopInv, TurnInv
  <2>3. IsFiniteSet(Charges(st)) /\ Charges(st) \ hub.turns \subseteq Charges(st)
        /\ hub.turns \cap lost.costs \subseteq hub.turns
    BY <2>1, BacklogIsFinite
  <2>4. Cardinality(Charges(st) \ hub.turns) \in Nat /\ Cardinality(hub.turns \cap lost.costs) \in Nat
    BY <2>1, <2>3, CountMore
  <2>5. hub.attempt + Cardinality(Charges(st) \ hub.turns)
          <= st.attempt + Cardinality(hub.turns \cap lost.costs)
    BY <2>2 DEF LoopInv, BudgetInv, Covers
  <2>. QED
    BY <2>1, <2>2, <2>4, <2>5
<1>. QED
  BY <1>1, LoopIsConsistent, PTL

(* The handoff aicrewd keeps is never replaced by an older section, through *)
(* new homes and unanswered calls (handoff.go prepareHandoff).              *)
THEOREM HandoffAdvances == Spec => HandoffNeverGoesBack
<1>1. LoopInv /\ [Next]_vars => [hubNotes' >= hubNotes]_vars
  <2>. SUFFICES ASSUME LoopInv, Next PROVE hubNotes' >= hubNotes
    OBVIOUS
  <2>1. TypeOK'
    BY LoopStepType, OtherStepType DEF LoopInv
  <2>. QED
    BY <2>1, NotesStep DEF LoopInv
<1>. QED
  BY <1>1, LoopIsConsistent, PTL DEF Spec, HandoffNeverGoesBack
=============================================================================
