----------------------- MODULE UpdateSettlementProofs -----------------------
(***************************************************************************)
(* Proofs about UpdateSettlement, for every number of steps, keys, edits   *)
(* and cut calls: the invariant behind settling without a proof, and that  *)
(* each update keeps the promise of StepOutcome.                           *)
(***************************************************************************)
EXTENDS UpdateSettlement, SequenceTheorems, TLAPS

-----------------------------------------------------------------------------
(* A sequence given position by position is one, of the length asked for.   *)
LEMMA SeqByIndex ==
    ASSUME NEW S, NEW n \in Nat, NEW f \in [1..n -> S]
    PROVE  f \in Seq(S) /\ Len(f) = n
<1>1. f \in Seq(S)
  BY SeqDef
<1>2. DOMAIN f = 1..n /\ DOMAIN f = 1..Len(f)
  BY <1>1
<1>. QED
  BY <1>1, <1>2

(* What the type invariant says of each part.                               *)
LEMMA Basics ==
    ASSUME UpdateTypeOK
    PROVE  /\ Len(requests) \in Nat
           /\ Keys = 1..Len(requests)
           /\ \A k \in Keys : /\ requests[k] \in Request
                              /\ requests[k].step \in Nat
                              /\ requests[k].fence \in Nat
                              /\ requests[k].rev \in Nat
                              /\ recorded[k] \in Outcomes
           /\ pending \in Nat
           /\ hold.fence \in Nat /\ hold.rev \in Nat
           /\ attempt.fence \in Nat /\ attempt.rev \in Nat
           /\ \A i \in DOMAIN call.left : call.left[i] \in Nat
           /\ recorded \in Seq(Outcomes) /\ Len(recorded) = Len(requests)
<1>1. requests \in Seq(Request) /\ Len(requests) \in Nat /\ Keys = 1..Len(requests)
  BY DEF UpdateTypeOK, Keys
<1>2. \A k \in Keys : /\ requests[k] \in Request
                      /\ requests[k].step \in Nat
                      /\ requests[k].fence \in Nat
                      /\ requests[k].rev \in Nat
  <2>1. \A k \in Keys : requests[k] \in Request
    BY <1>1, ElementOfSeq
  <2>. QED
    BY <2>1 DEF Request
<1>3. pending \in Nat
  BY <1>2 DEF UpdateTypeOK
<1>4. recorded \in Seq(Outcomes) /\ Len(recorded) = Len(requests)
  BY <1>1, SeqByIndex DEF UpdateTypeOK
<1>5. \A i \in DOMAIN call.left : call.left[i] \in Nat
  BY ElementOfSeq DEF UpdateTypeOK, Call
<1>6. /\ hold.fence \in Nat /\ hold.rev \in Nat
      /\ attempt.fence \in Nat /\ attempt.rev \in Nat
      /\ \A k \in Keys : recorded[k] \in Outcomes
  BY DEF UpdateTypeOK
<1>. QED
  BY <1>1, <1>2, <1>3, <1>4, <1>5, <1>6

-----------------------------------------------------------------------------
(* The invariant *)

(* The initial states satisfy the invariant.                                *)
LEMMA InitInv == Init => UpdateInv
<1> SUFFICES ASSUME Init PROVE UpdateInv
  OBVIOUS
<1>1. Keys = {} /\ \A s : KeysOf(s) = {}
  BY DEF Init, Keys, KeysOf
<1>2. requests \in Seq(Request) /\ recorded \in [Keys -> Outcomes]
  BY <1>1 DEF Init
<1>3. UpdateTypeOK
  BY <1>1, <1>2, LimitsAssumption DEF Init, UpdateTypeOK, Call, NoCall
<1>. QED
  BY <1>1, <1>3 DEF Init, UpdateInv, OneKeyCommits, RecordIsTrue, FinalNoneIsFinal,
                    FenceIsKnown, ClosedIsSettled, KeysInv, SpentInv, CallInv, NoCall

(* No key of a step is recorded apart from the others, so a key that may    *)
(* still commit belongs to the pending step.                                *)
LEMMA UnspentIsPending ==
    ASSUME UpdateInv, NEW k \in Keys, ~Spent(k)
    PROVE  /\ k \in KeysOf(pending) /\ k \notin committed /\ k \notin finals
           /\ requests[k].fence = attempt.fence /\ requests[k].rev = attempt.rev
           /\ recorded[k] = "pending" /\ pending # 0
<1>1. recorded[k] = "pending" /\ k \notin finals
  BY DEF UpdateInv, SpentInv
<1>2. k \notin committed
  BY DEF UpdateInv, SpentInv, Spent
<1>3. k \in KeysOf(pending) /\ pending # 0
  BY <1>1 DEF UpdateInv, KeysInv, KeysOf
<1>. QED
  BY <1>1, <1>2, <1>3 DEF UpdateInv, KeysInv

(* A new key, for the pending step or for a new one: nothing has committed  *)
(* or been recorded under it, and no call runs.                             *)
LEMMA IssueInv ==
    ASSUME UpdateInv, NEW step \in Nat \ {0}, Issue(step), call.phase = "idle", attempt.open,
           \A k \in Keys : requests[k].step <= step,
           pending # 0 => step = pending,
           pending = 0 => KeysOf(step) = {}
    PROVE  UpdateInv'
<1>. DEFINE n == Len(requests)
            r == [step |-> step, fence |-> attempt.fence, rev |-> attempt.rev]
<1>1. /\ UpdateTypeOK /\ n \in Nat /\ Keys = 1..n /\ requests \in Seq(Request)
      /\ recorded \in Seq(Outcomes) /\ Len(recorded) = n
      /\ r \in Request
  BY Basics DEF UpdateInv, UpdateTypeOK, Request
<1>2. /\ requests' = Append(requests, r) /\ recorded' = Append(recorded, "pending")
      /\ pending' = step
      /\ UNCHANGED <<hold, committed, attempt, finals, call, cuts>>
  BY DEF Issue, aimemVars
<1>3. /\ requests' \in Seq(Request) /\ Len(requests') = n + 1 /\ Keys' = 1..(n + 1)
      /\ \A k \in Keys : requests'[k] = requests[k]
      /\ requests'[n + 1] = r
      /\ Keys' = Keys \cup {n + 1} /\ n + 1 \notin Keys
  BY <1>1, <1>2, AppendProperties DEF Keys
<1>4. /\ recorded' \in [Keys' -> Outcomes]
      /\ \A k \in Keys : recorded'[k] = recorded[k]
      /\ recorded'[n + 1] = "pending"
  <2>. DEFINE g == recorded'
  <2>1. "pending" \in Outcomes
    BY DEF Outcomes
  <2>2. /\ g \in Seq(Outcomes) /\ Len(g) = n + 1
        /\ \A k \in 1..n : g[k] = recorded[k]
        /\ g[n + 1] = "pending"
    BY <1>1, <1>2, <2>1, AppendProperties
  <2>. HIDE DEF g
  <2>3. g \in [1..(n + 1) -> Outcomes]
    BY <2>2
  <2>. QED
    BY <1>1, <1>3, <2>2, <2>3 DEF g
<1>5. /\ KeysOf(step)' = KeysOf(step) \cup {n + 1}
      /\ KeysOf(pending)' = KeysOf(step) \cup {n + 1}
      /\ \A s : s # step => KeysOf(s)' = KeysOf(s)
  BY <1>2, <1>3 DEF KeysOf
<1>. HIDE DEF n
<1>6. UpdateTypeOK'
  <2>1. requests'[n + 1].step = pending'
    BY <1>2, <1>3
  <2>2. pending' \in {0} \cup {requests'[k].step : k \in Keys'}
    BY <1>3, <2>1
  <2>. QED
    BY <1>1, <1>2, <1>3, <1>4, <2>2 DEF UpdateTypeOK
<1>7. n + 1 \notin committed /\ n + 1 \notin finals /\ committed \subseteq Keys
  BY <1>1, <1>3 DEF UpdateTypeOK
<1>8. OneKeyCommits'
  BY <1>2, <1>3, <1>7 DEF UpdateInv, OneKeyCommits
<1>9. \A s : KeysOf(s)' \cap committed' = KeysOf(s) \cap committed
  BY <1>2, <1>5, <1>7
<1>10. RecordIsTrue'
  BY <1>3, <1>4, <1>9 DEF UpdateInv, RecordIsTrue
<1>11. FinalNoneIsFinal' /\ ClosedIsSettled'
  BY <1>2 DEF UpdateInv, FinalNoneIsFinal, ClosedIsSettled
<1>12. FenceIsKnown'
  BY <1>2 DEF UpdateInv, FenceIsKnown
<1>13. KeysInv'
  <2>1. \A j, k \in Keys' : j <= k => requests'[j].step <= requests'[k].step
    BY <1>1, <1>3 DEF UpdateInv, KeysInv
  <2>2. \A k \in KeysOf(step) : /\ requests[k].fence = attempt.fence
                                /\ requests[k].rev = attempt.rev
                                /\ recorded[k] = "pending"
    BY DEF UpdateInv, KeysInv, KeysOf
  <2>3. \A j, k \in Keys' : requests'[j].step = requests'[k].step =>
           /\ requests'[j].fence = requests'[k].fence
           /\ requests'[j].rev = requests'[k].rev
           /\ recorded'[j] = recorded'[k]
    <3>1. \A j, k \in Keys : requests[j].step = requests[k].step =>
             /\ requests[j].fence = requests[k].fence
             /\ requests[j].rev = requests[k].rev
             /\ recorded[j] = recorded[k]
      BY DEF UpdateInv, KeysInv
    <3>2. /\ requests'[n + 1].fence = attempt.fence
          /\ requests'[n + 1].rev = attempt.rev
          /\ recorded'[n + 1] = "pending"
          /\ requests'[n + 1].step = step
      BY <1>3, <1>4
    <3>3. \A k \in Keys : /\ requests'[k] = requests[k] /\ recorded'[k] = recorded[k]
                          /\ requests[k].step = step => k \in KeysOf(step)
      BY <1>3, <1>4 DEF KeysOf
    <3>. QED
      BY <1>3, <2>2, <3>1, <3>2, <3>3
  <2>4. \A k \in Keys' : requests'[k].step # 0
    BY <1>3 DEF UpdateInv, KeysInv
  <2>5. \A k \in Keys' : recorded'[k] = "pending" <=> requests'[k].step = pending'
    BY <1>2, <1>3, <1>4 DEF UpdateInv, KeysInv, KeysOf
  <2>6. \A k \in KeysOf(pending)' :
           requests'[k].fence = attempt'.fence /\ requests'[k].rev = attempt'.rev
    BY <1>2, <1>3, <1>5, <2>2 DEF KeysOf
  <2>7. Len(requests') \in KeysOf(pending)'
    BY <1>2, <1>3, <1>5
  <2>8. \E first \in KeysOf(pending)' : \A k \in KeysOf(pending)' : first <= k
    <3>1. CASE pending = 0
      <4>1. KeysOf(pending)' = {n + 1} /\ n + 1 \in Nat
        BY <1>1, <1>5, <3>1 DEF n
      <4>. QED
        BY <4>1
    <3>2. CASE pending # 0
      <4>1. PICK first \in KeysOf(pending) : \A k \in KeysOf(pending) : first <= k
        BY <3>2 DEF UpdateInv, KeysInv
      <4>2. first \in 1..n
        BY <1>1, <4>1 DEF KeysOf
      <4>3. KeysOf(pending)' = KeysOf(pending) \cup {n + 1}
        BY <1>5, <3>2
      <4>4. first <= n + 1
        BY <1>1, <4>2 DEF n
      <4>. QED
        BY <4>1, <4>3, <4>4
    <3>. QED
      BY <3>1, <3>2
  <2>. QED
    BY <2>1, <2>3, <2>4, <2>5, <2>6, <2>7, <2>8 DEF KeysInv
<1>14. SpentInv'
  <2>1. \A k \in committed' : hold'.fence > requests'[k].fence
    BY <1>2, <1>3, <1>7 DEF UpdateInv, SpentInv
  <2>2. \A k \in Keys' : k \in finals' \/ recorded'[k] # "pending" => Spent(k)'
    BY <1>2, <1>3, <1>4, <1>7 DEF UpdateInv, SpentInv, Spent
  <2>3. KeysOf(pending)' \cap committed' = KeysOf(pending) \cap committed
    <3>1. CASE pending = 0
      <4>1. KeysOf(0) = {}
        BY DEF UpdateInv, KeysInv, KeysOf
      <4>. QED
        BY <1>2, <1>9, <3>1, <4>1
    <3>2. CASE pending # 0
      BY <1>2, <1>9, <3>2
    <3>. QED
      BY <3>1, <3>2
  <2>. QED
    BY <1>2, <2>1, <2>2, <2>3 DEF UpdateInv, SpentInv
<1>15. CallInv'
  BY <1>2 DEF CallInv
<1>. QED
  BY <1>6, <1>8, <1>10, <1>11, <1>12, <1>13, <1>14, <1>15 DEF UpdateInv

(* The step a holder begins has a number of its own.                        *)
LEMMA BeginsAnew ==
    ASSUME UpdateInv
    PROVE  /\ Steps + 1 \in Nat \ {0}
           /\ KeysOf(Steps + 1) = {}
           /\ \A k \in Keys : requests[k].step <= Steps + 1
<1>1. /\ UpdateTypeOK /\ Len(requests) \in Nat /\ Keys = 1..Len(requests)
      /\ \A k \in Keys : requests[k].step \in Nat
  BY Basics DEF UpdateInv
<1>2. Steps \in Nat /\ \A k \in Keys : requests[k].step <= Steps
  <2>1. CASE requests = <<>>
    BY <2>1 DEF Steps, Keys
  <2>2. CASE requests # <<>>
    <3>1. Len(requests) \in Keys
      BY <1>1, <2>2, EmptySeq DEF UpdateTypeOK
    <3>2. \A k \in Keys : k <= Len(requests)
      BY <1>1
    <3>. QED
      BY <1>1, <2>2, <3>1, <3>2 DEF Steps, UpdateInv, KeysInv
  <2>. QED
    BY <2>1, <2>2
<1>3. KeysOf(Steps + 1) = {}
  BY <1>1, <1>2 DEF KeysOf
<1>4. \A k \in Keys : requests[k].step <= Steps + 1
  BY <1>1, <1>2
<1>. QED
  BY <1>2, <1>3, <1>4

(* The holder begins a step when none is pending (BeginUpdate).             *)
LEMMA BeginUpdateInv ==
    ASSUME UpdateInv, BeginUpdate
    PROVE  UpdateInv'
BY BeginsAnew, IssueInv DEF BeginUpdate

(* The holder supersedes the pending step: same step, a new key.            *)
LEMMA SupersedeUpdateInv ==
    ASSUME UpdateInv, SupersedeUpdate
    PROVE  UpdateInv'
<1>1. /\ UpdateTypeOK /\ Len(requests) \in Nat /\ Keys = 1..Len(requests)
      /\ pending \in Nat /\ pending # 0
  BY Basics DEF UpdateInv, SupersedeUpdate
<1>2. Len(requests) \in Keys /\ requests[Len(requests)].step = pending
  BY <1>1 DEF UpdateInv, KeysInv, KeysOf
<1>3. attempt.open
  <2>1. recorded[Len(requests)] = "pending"
    BY <1>2 DEF UpdateInv, KeysInv
  <2>2. attempt.open \in BOOLEAN
    BY <1>1 DEF UpdateTypeOK
  <2>. QED
    BY <1>2, <2>1, <2>2 DEF UpdateInv, ClosedIsSettled
<1>4. \A k \in Keys : k <= Len(requests)
  BY <1>1
<1>5. \A k \in Keys : requests[k].step <= pending
  BY <1>2, <1>4 DEF UpdateInv, KeysInv
<1>. QED
  BY <1>1, <1>3, <1>5, IssueInv DEF SupersedeUpdate

(* What aimem does on its own leaves aicrew's records as they are; it       *)
(* commits a key only if the key is not spent.                              *)
LEMMA CommitsInv ==
    ASSUME UpdateInv, NEW k \in Keys, Commits(k)
    PROVE  UpdateInv'
<1>1. /\ UpdateTypeOK /\ Keys = 1..Len(requests) /\ Len(requests) \in Nat
      /\ \A j \in Keys : requests[j].fence \in Nat /\ requests[j].rev \in Nat
      /\ hold.fence \in Nat /\ hold.rev \in Nat
      /\ attempt.fence \in Nat
  BY Basics DEF UpdateInv
<1>2. /\ k \notin committed /\ hold.state = "held"
      /\ hold.fence = requests[k].fence /\ hold.rev = requests[k].rev
      /\ committed' = committed \cup {k}
      /\ UNCHANGED <<attempt, requests, pending, recorded, finals, call, cuts>>
  BY DEF Commits
<1>3. /\ hold' \in [state : {"held", "closed"}, fence : Nat, rev : Nat]
      /\ hold'.state = "held" /\ hold'.fence = hold.fence + 1 /\ hold'.rev = hold.rev + 1
  <2>1. hold \in [state : {"held", "closed"}, fence : Nat, rev : Nat]
    BY <1>1 DEF UpdateTypeOK
  <2>2. hold' = [hold EXCEPT !.fence = hold.fence + 1, !.rev = hold.rev + 1]
    BY DEF Commits
  <2>3. hold' = [state |-> hold.state, fence |-> hold.fence + 1, rev |-> hold.rev + 1]
    BY <2>1, <2>2
  <2>. QED
    BY <1>1, <1>2, <2>3
<1>4. ~Spent(k)
  BY <1>1, <1>2 DEF Spent
<1>5. /\ k \in KeysOf(pending) /\ k \notin finals
      /\ requests[k].fence = attempt.fence
      /\ recorded[k] = "pending" /\ pending # 0
  BY <1>4, UnspentIsPending
<1>6. Keys' = Keys /\ \A s : KeysOf(s)' = KeysOf(s)
  BY <1>2 DEF Keys, KeysOf
<1>7. UpdateTypeOK'
  BY <1>1, <1>2, <1>3, <1>6 DEF UpdateTypeOK
<1>8. \A j \in committed : requests[j].step # requests[k].step
  <2> SUFFICES ASSUME NEW j \in committed, requests[j].step = requests[k].step
               PROVE  FALSE
    OBVIOUS
  <2>1. j \in Keys /\ hold.fence > requests[j].fence
    BY <1>1 DEF UpdateTypeOK, UpdateInv, SpentInv
  <2>2. requests[j].fence = requests[k].fence
    BY <2>1 DEF UpdateInv, KeysInv
  <2>. QED
    BY <1>1, <1>2, <2>1, <2>2
<1>9. OneKeyCommits'
  BY <1>2, <1>8 DEF UpdateInv, OneKeyCommits
<1>10. \A s : s # pending => KeysOf(s)' \cap committed' = KeysOf(s) \cap committed
  BY <1>2, <1>5, <1>6 DEF KeysOf
<1>11. RecordIsTrue'
  <2> SUFFICES ASSUME NEW j \in Keys
               PROVE  /\ recorded[j] = "committed" =>
                             KeysOf(requests[j].step)' \cap committed' # {}
                      /\ recorded[j] = "not_committed" =>
                             KeysOf(requests[j].step)' \cap committed' = {}
    BY <1>2, <1>6 DEF RecordIsTrue
  <2>1. CASE requests[j].step = pending
    BY <2>1 DEF UpdateInv, KeysInv
  <2>2. CASE requests[j].step # pending
    <3>1. KeysOf(requests[j].step)' \cap committed' = KeysOf(requests[j].step) \cap committed
      BY <1>2, <1>5, <1>6, <2>2 DEF KeysOf
    <3>. QED
      BY <3>1 DEF UpdateInv, RecordIsTrue
  <2>. QED
    BY <2>1, <2>2
<1>12. FinalNoneIsFinal' /\ ClosedIsSettled'
  BY <1>2, <1>5, <1>6 DEF UpdateInv, FinalNoneIsFinal, ClosedIsSettled
<1>13. FenceIsKnown'
  BY <1>1, <1>2, <1>3, <1>5 DEF UpdateInv, FenceIsKnown
<1>14. KeysInv'
  <2>1. KeysOf(pending)' = KeysOf(pending)
    BY <1>2, <1>6 DEF KeysOf
  <2>. QED
    BY <1>2, <1>6, <2>1 DEF UpdateInv, KeysInv
<1>15. \A j \in Keys : Spent(j) => Spent(j)'
  BY <1>1, <1>2, <1>3 DEF Spent
<1>16. SpentInv'
  <2>1. \A j \in committed' : hold'.fence > requests'[j].fence
    <3>1. \A j \in committed : j \in Keys /\ hold.fence > requests[j].fence
      BY <1>1 DEF UpdateTypeOK, UpdateInv, SpentInv
    <3>. QED
      BY <1>1, <1>2, <1>3, <3>1
  <2>2. \A j \in Keys' : j \in finals' \/ recorded'[j] # "pending" => Spent(j)'
    BY <1>2, <1>6, <1>15 DEF UpdateInv, SpentInv
  <2>3. KeysOf(pending)' \cap committed' # {}
    BY <1>2, <1>5, <1>6 DEF KeysOf
  <2>4. hold'.fence = attempt'.fence + 1
    BY <1>1, <1>2, <1>3, <1>5
  <2>. QED
    BY <2>1, <2>2, <2>3, <2>4 DEF SpentInv
<1>17. CallInv'
  <2>1. KeysOf(pending)' = KeysOf(pending)
    BY <1>2, <1>6 DEF KeysOf
  <2>2. call.phase \in {"scan", "answered", "settle"} => ~call.overtaken
    BY <1>4, <1>5 DEF UpdateInv, CallInv
  <2>3. ~(call.phase = "settle")
    BY <2>2 DEF UpdateInv, CallInv
  <2>. QED
    BY <1>2, <2>1, <2>2, <2>3 DEF UpdateInv, CallInv
<1>. QED
  BY <1>7, <1>9, <1>11, <1>12, <1>13, <1>14, <1>16, <1>17 DEF UpdateInv

(* An edit or a recovery moves the hold on and commits nothing: what was    *)
(* spent stays spent.                                                       *)
LEMMA HoldMovesInv ==
    ASSUME UpdateInv, TaskEdited \/ Recovered
    PROVE  UpdateInv'
<1>1. /\ UpdateTypeOK /\ Keys = 1..Len(requests)
      /\ \A j \in Keys : requests[j].fence \in Nat /\ requests[j].rev \in Nat
      /\ hold.fence \in Nat /\ hold.rev \in Nat
      /\ attempt.fence \in Nat
  BY Basics DEF UpdateInv
<1>2. UNCHANGED <<committed, attempt, requests, pending, recorded, finals, call, cuts>>
  BY DEF TaskEdited, Recovered
<1>3. /\ hold' \in [state : {"held", "closed"}, fence : Nat, rev : Nat]
      /\ hold'.fence >= hold.fence /\ hold'.rev > hold.rev
      /\ hold'.state = "held" => hold.state = "held" /\ hold'.fence = hold.fence
  BY <1>1 DEF TaskEdited, Recovered, UpdateTypeOK
<1>4. Keys' = Keys /\ (\A s : KeysOf(s)' = KeysOf(s)) /\ KeysOf(pending)' = KeysOf(pending)
  BY <1>2 DEF Keys, KeysOf
<1>5. UpdateTypeOK'
  BY <1>1, <1>2, <1>3, <1>4 DEF UpdateTypeOK
<1>6. OneKeyCommits' /\ FinalNoneIsFinal' /\ ClosedIsSettled' /\ KeysInv'
  BY <1>2, <1>4 DEF UpdateInv, OneKeyCommits, FinalNoneIsFinal, ClosedIsSettled, KeysInv
<1>7. RecordIsTrue'
  <2>1. \A k \in Keys : KeysOf(requests[k].step)' = KeysOf(requests[k].step)
    BY <1>2, <1>4 DEF KeysOf
  <2>. QED
    BY <1>2, <1>4, <2>1 DEF UpdateInv, RecordIsTrue
<1>8. FenceIsKnown'
  BY <1>1, <1>2, <1>3 DEF UpdateInv, FenceIsKnown
<1>9. \A j \in Keys : Spent(j) => Spent(j)'
  BY <1>1, <1>2, <1>3 DEF Spent
<1>10. SpentInv'
  <2>1. \A j \in committed' : hold'.fence > requests'[j].fence
    <3>1. \A j \in committed : j \in Keys /\ hold.fence > requests[j].fence
      BY <1>1 DEF UpdateTypeOK, UpdateInv, SpentInv
    <3>. QED
      BY <1>1, <1>2, <1>3, <3>1
  <2>2. \A j \in Keys' : j \in finals' \/ recorded'[j] # "pending" => Spent(j)'
    BY <1>2, <1>4, <1>9 DEF UpdateInv, SpentInv
  <2>. QED
    BY <1>2, <1>3, <1>4, <2>1, <2>2 DEF UpdateInv, SpentInv
<1>11. CallInv'
  <2>1. \A k \in KeysOf(pending) : k \in Keys
    BY DEF KeysOf
  <2>. QED
    BY <1>2, <1>4, <1>9, <2>1 DEF UpdateInv, CallInv
<1>. QED
  BY <1>5, <1>6, <1>7, <1>8, <1>10, <1>11 DEF UpdateInv

-----------------------------------------------------------------------------
(* A step of the settle call that records nothing: it changes only what the *)
(* call knows.                                                              *)
LEMMA CallStepInv ==
    ASSUME UpdateInv, call' \in Call, cuts' \in 0..MaxCuts, CallInv',
           UNCHANGED <<hold, committed, attempt, requests, pending, recorded, finals>>
    PROVE  UpdateInv'
<1>1. Keys' = Keys /\ (\A s : KeysOf(s)' = KeysOf(s)) /\ KeysOf(pending)' = KeysOf(pending)
  BY DEF Keys, KeysOf
<1>2. UpdateTypeOK'
  BY <1>1 DEF UpdateInv, UpdateTypeOK
<1>3. /\ OneKeyCommits' /\ FinalNoneIsFinal' /\ ClosedIsSettled' /\ FenceIsKnown'
      /\ KeysInv'
  BY <1>1 DEF UpdateInv, OneKeyCommits, FinalNoneIsFinal, ClosedIsSettled, KeysInv,
              FenceIsKnown
<1>4. RecordIsTrue'
  <2>1. \A k \in Keys : KeysOf(requests[k].step)' = KeysOf(requests[k].step)
    BY DEF KeysOf, Keys
  <2>. QED
    BY <1>1, <2>1 DEF UpdateInv, RecordIsTrue
<1>5. SpentInv'
  BY <1>1 DEF UpdateInv, SpentInv, Spent
<1>. QED
  BY <1>2, <1>3, <1>4, <1>5 DEF UpdateInv

(* stepKeys reads every key of the pending step and no other: its keys are  *)
(* the last ones issued, from the first of them on.                         *)
LEMMA StepKeysAreTheSteps ==
    ASSUME UpdateInv, pending # 0
    PROVE  /\ StepKeys \in Seq(Nat)
           /\ \A i \in DOMAIN StepKeys : StepKeys[i] \in KeysOf(pending)
           /\ \A k \in KeysOf(pending) : \E i \in DOMAIN StepKeys : StepKeys[i] = k
<1>. DEFINE last == Len(requests)
            first == CHOOSE k \in KeysOf(pending) : \A j \in KeysOf(pending) : k <= j
            rest == [i \in 1..(last - first) |-> first + i - 1]
<1>1. /\ UpdateTypeOK /\ last \in Nat /\ Keys = 1..last
      /\ \A k \in Keys : requests[k].step \in Nat
  BY Basics DEF UpdateInv
<1>2. /\ first \in KeysOf(pending)
      /\ \A k \in KeysOf(pending) : first <= k
  <2>1. \E f \in KeysOf(pending) : \A k \in KeysOf(pending) : f <= k
    BY DEF UpdateInv, KeysInv
  <2>. QED
    BY <2>1
<1>3. last \in KeysOf(pending)
  BY DEF UpdateInv, KeysInv
<1>4. StepKeys = <<last>> \o rest
  BY DEF StepKeys
<1>. HIDE DEF first
<1>5. first \in 1..last /\ last - first \in Nat
  BY <1>1, <1>2 DEF KeysOf
<1>6. \A k \in Keys : first <= k => k \in KeysOf(pending)
  <2> SUFFICES ASSUME NEW k \in Keys, first <= k PROVE requests[k].step = pending
    BY DEF KeysOf
  <2>1. requests[first].step <= requests[k].step /\ requests[k].step <= requests[last].step
    BY <1>1, <1>2, <1>3 DEF UpdateInv, KeysInv, KeysOf
  <2>2. requests[first].step = pending /\ requests[last].step = pending /\ pending \in Nat
    BY <1>1, <1>2, <1>3 DEF KeysOf
  <2>. QED
    BY <1>1, <2>1, <2>2
<1>7. /\ rest \in Seq(Nat) /\ Len(rest) = last - first
      /\ \A i \in 1..(last - first) : rest[i] = first + i - 1
  <2>1. rest \in [1..(last - first) -> Nat]
    BY <1>5
  <2>. QED
    BY <1>5, <2>1, SeqByIndex
<1>. HIDE DEF rest
<1>8. <<last>> \in Seq(Nat) /\ Len(<<last>>) = 1 /\ <<last>>[1] = last
  BY <1>1
<1>9. /\ StepKeys \in Seq(Nat)
      /\ Len(StepKeys) = 1 + (last - first)
      /\ StepKeys[1] = last
      /\ \A i \in 2..(1 + last - first) : StepKeys[i] = first + i - 2
  <2>. DEFINE own == <<last>>
              both == own \o rest
  <2>1. /\ StepKeys \in Seq(Nat) /\ Len(StepKeys) = 1 + (last - first)
        /\ \A i \in 1..(1 + (last - first)) :
              StepKeys[i] = IF i <= 1 THEN own[i] ELSE rest[i - 1]
    <3>1. own \in Seq(Nat) /\ Len(own) = 1 /\ rest \in Seq(Nat)
      BY <1>7, <1>8
    <3>. HIDE DEF own
    <3>2. /\ both \in Seq(Nat) /\ Len(both) = Len(own) + Len(rest)
          /\ \A i \in 1..(Len(own) + Len(rest)) :
                both[i] = IF i <= Len(own) THEN own[i] ELSE rest[i - Len(own)]
      BY <3>1, ConcatProperties
    <3>. HIDE DEF both
    <3>3. StepKeys = both
      BY <1>4 DEF both, own
    <3>. QED
      BY <1>7, <3>1, <3>2, <3>3
  <2>. HIDE DEF last
  <2>2. StepKeys[1] = last
    BY <1>5, <1>8, <2>1
  <2>3. ASSUME NEW i \in 2..(1 + last - first) PROVE StepKeys[i] = first + i - 2
    <3>1. i - 1 \in 1..(last - first) /\ i \in 1..(1 + (last - first)) /\ ~(i <= 1)
      BY <1>1, <1>5
    <3>2. StepKeys[i] = rest[i - 1]
      BY <2>1, <3>1
    <3>3. rest[i - 1] = first + (i - 1) - 1
      BY <1>7, <3>1
    <3>. QED
      BY <1>5, <3>1, <3>2, <3>3
  <2>. QED
    BY <2>1, <2>2, <2>3
<1>. HIDE DEF last
<1>10. DOMAIN StepKeys = 1..(1 + (last - first))
  BY <1>5, <1>9
<1>11. ASSUME NEW i \in DOMAIN StepKeys PROVE StepKeys[i] \in KeysOf(pending)
  <2>1. CASE i = 1
    BY <1>3, <1>9, <2>1
  <2>2. CASE i # 1
    <3>1. i \in 2..(1 + last - first)
      BY <1>1, <1>5, <1>10, <2>2
    <3>2. StepKeys[i] = first + i - 2
      BY <1>9, <3>1
    <3>3. first + i - 2 \in 1..last /\ first <= first + i - 2
      BY <1>1, <1>5, <3>1
    <3>. QED
      BY <1>1, <1>6, <3>2, <3>3
  <2>. QED
    BY <2>1, <2>2
<1>12. ASSUME NEW k \in KeysOf(pending)
       PROVE  \E i \in DOMAIN StepKeys : StepKeys[i] = k
  <2>1. k \in 1..last /\ first <= k
    BY <1>1, <1>2 DEF KeysOf
  <2>2. CASE k = last
    BY <1>5, <1>9, <1>10, <2>2
  <2>3. CASE k # last
    <3>. DEFINE i == k - first + 2
    <3>1. i \in 2..(1 + last - first) /\ i \in 1..(1 + (last - first)) /\ first + i - 2 = k
      BY <1>1, <1>5, <2>1, <2>3
    <3>. HIDE DEF i
    <3>2. i \in DOMAIN StepKeys /\ StepKeys[i] = k
      BY <1>9, <1>10, <3>1
    <3>. QED
      BY <3>2
  <2>. QED
    BY <2>2, <2>3
<1>. QED
  BY <1>9, <1>11, <1>12

(* A call that ends, or has only begun, knows nothing.                      *)
LEMMA NothingKnown ==
    /\ NoCall \in Call
    /\ [NoCall EXCEPT !.phase = "hold"] \in Call
BY EmptySeq DEF NoCall, Call

(* The call begins, and it is cut off (BeginSettle, CallCut).               *)
LEMMA BeginSettleInv ==
    ASSUME UpdateInv, BeginSettle \/ CallCut
    PROVE  UpdateInv'
<1>1. call' \in Call
  BY NothingKnown DEF BeginSettle, CallCut
<1>2. UNCHANGED <<hold, committed, attempt, requests, pending, recorded, finals>>
  BY DEF BeginSettle, CallCut, aimemVars
<1>3. cuts' \in 0..MaxCuts
  BY LimitsAssumption DEF BeginSettle, CallCut, UpdateInv, UpdateTypeOK
<1>4. CallInv'
  BY DEF BeginSettle, CallCut, CallInv, NoCall
<1>. QED
  BY <1>1, <1>2, <1>3, <1>4, CallStepInv

(* The hold is read (ReadHold): past the request it shows every key of the  *)
(* step spent, and every one of them is left to read.                       *)
LEMMA ReadHoldInv ==
    ASSUME UpdateInv, ReadHold
    PROVE  UpdateInv'
<1>1. /\ UpdateTypeOK /\ pending # 0
      /\ hold.fence \in Nat /\ hold.rev \in Nat
  BY Basics DEF UpdateInv, ReadHold, CallInv
<1>2. /\ StepKeys \in Seq(Nat)
      /\ \A i \in DOMAIN StepKeys : StepKeys[i] \in KeysOf(pending)
      /\ \A k \in KeysOf(pending) : \E i \in DOMAIN StepKeys : StepKeys[i] = k
  BY <1>1, StepKeysAreTheSteps
<1>3. UNCHANGED <<hold, committed, attempt, requests, pending, recorded, finals, cuts>>
  BY DEF ReadHold, aimemVars
<1>4. /\ call' \in Call
      /\ call'.phase = "scan" /\ call'.left = StepKeys /\ call'.overtaken = Overtaken(hold)
  <2>1. Overtaken(hold) \in BOOLEAN
    BY DEF Overtaken
  <2>. QED
    BY <1>1, <1>2, <2>1 DEF ReadHold, UpdateTypeOK, Call
<1>5. Overtaken(hold) => \A k \in KeysOf(pending) : Spent(k)
  BY DEF Overtaken, Spent, UpdateInv, KeysInv
<1>6. KeysOf(pending)' = KeysOf(pending) /\ \A k : Spent(k)' <=> Spent(k)
  BY <1>3 DEF KeysOf, Keys, Spent
<1>7. CallInv'
  BY <1>1, <1>2, <1>3, <1>4, <1>5, <1>6 DEF CallInv
<1>8. cuts' \in 0..MaxCuts
  BY <1>1, <1>3 DEF UpdateTypeOK
<1>. QED
  BY <1>3, <1>4, <1>7, <1>8, CallStepInv

(* What is left to read after the first of the keys is read: the others.    *)
LEMMA TailLeavesTheOthers ==
    ASSUME NEW left \in Seq(Nat), left # <<>>
    PROVE  /\ Tail(left) \in Seq(Nat)
           /\ 1 \in DOMAIN left /\ left[1] = Head(left)
           /\ \A i \in DOMAIN Tail(left) :
                 i + 1 \in DOMAIN left /\ Tail(left)[i] = left[i + 1]
           /\ \A i \in DOMAIN left :
                 left[i] = Head(left) \/ \E j \in DOMAIN Tail(left) : Tail(left)[j] = left[i]
<1>1. Len(left) \in Nat /\ DOMAIN left = 1..Len(left) /\ Len(left) # 0
  BY EmptySeq
<1>2. /\ Head(left) = left[1] /\ Tail(left) \in Seq(Nat)
      /\ Len(Tail(left)) = Len(left) - 1
      /\ \A i \in 1..(Len(left) - 1) : Tail(left)[i] = left[i + 1]
  <2>1. Tail(left) \in Seq(Nat) /\ Len(Tail(left)) = Len(left) - 1
    BY <1>1, HeadTailProperties
  <2>. QED
    BY <1>1, <2>1
<1>3. DOMAIN Tail(left) = 1..(Len(left) - 1)
  BY <1>1, <1>2
<1>4. \A i \in DOMAIN Tail(left) : i + 1 \in DOMAIN left /\ Tail(left)[i] = left[i + 1]
  BY <1>1, <1>2, <1>3
<1>5. ASSUME NEW i \in DOMAIN left, i # 1
      PROVE  i - 1 \in DOMAIN Tail(left) /\ Tail(left)[i - 1] = left[i]
  <2>1. i - 1 \in DOMAIN Tail(left)
    BY <1>1, <1>3, <1>5
  <2>2. (i - 1) + 1 = i
    BY <1>1
  <2>. QED
    BY <1>4, <2>1, <2>2
<1>6. \A i \in DOMAIN left :
         left[i] = Head(left) \/ \E j \in DOMAIN Tail(left) : Tail(left)[j] = left[i]
  <2> SUFFICES ASSUME NEW i \in DOMAIN left
               PROVE  left[i] = Head(left)
                      \/ \E j \in DOMAIN Tail(left) : Tail(left)[j] = left[i]
    OBVIOUS
  <2>1. CASE i = 1
    BY <1>2, <2>1
  <2>2. CASE i # 1
    BY <1>5, <2>2
  <2>. QED
    BY <2>1, <2>2
<1>7. 1 \in DOMAIN left /\ left[1] = Head(left)
  BY <1>1, <1>2
<1>. QED
  BY <1>2, <1>4, <1>6, <1>7

(* The call passes over the first key left, which has not committed if the  *)
(* hold was seen past the request; what it knows of the others stands.      *)
LEMMA PassedOver ==
    ASSUME UpdateInv, call.phase \in {"scan", "answered"}, call.left # <<>>,
           call.overtaken => Head(call.left) \notin committed,
           call' = [call EXCEPT !.phase = "scan", !.left = Tail(call.left)],
           UNCHANGED <<hold, committed, requests, pending>>
    PROVE  call' \in Call /\ CallInv'
<1>1. call \in Call /\ call.left \in Seq(Nat)
  BY DEF UpdateInv, UpdateTypeOK, Call
<1>2. /\ call' \in Call
      /\ call'.phase = "scan" /\ call'.left = Tail(call.left)
      /\ call'.overtaken = call.overtaken
  <2>1. Tail(call.left) \in Seq(Nat)
    BY <1>1, TailLeavesTheOthers
  <2>. QED
    BY <1>1, <2>1 DEF Call
<1>3. KeysOf(pending)' = KeysOf(pending) /\ \A k : Spent(k)' <=> Spent(k)
  BY DEF KeysOf, Keys, Spent
<1>4. \A i \in DOMAIN Tail(call.left) : Tail(call.left)[i] \in KeysOf(pending)
  BY <1>1, TailLeavesTheOthers DEF UpdateInv, CallInv
<1>5. ASSUME call.overtaken, NEW k \in KeysOf(pending)
      PROVE  /\ Spent(k)
             /\ k \in committed =>
                    \E j \in DOMAIN Tail(call.left) : Tail(call.left)[j] = k
  <2>1. Spent(k) /\ (k \in committed => \E i \in DOMAIN call.left : call.left[i] = k)
    BY <1>5 DEF UpdateInv, CallInv
  <2>2. ASSUME k \in committed
        PROVE  \E j \in DOMAIN Tail(call.left) : Tail(call.left)[j] = k
    <3>1. PICK i \in DOMAIN call.left : call.left[i] = k
      BY <2>1, <2>2
    <3>2. call.left[i] # Head(call.left)
      BY <1>5, <2>2, <3>1
    <3>. QED
      BY <1>1, <3>1, <3>2, TailLeavesTheOthers
  <2>. QED
    BY <2>1, <2>2
<1>6. pending # 0
  BY DEF UpdateInv, CallInv
<1>. QED
  BY <1>2, <1>3, <1>4, <1>5, <1>6 DEF CallInv

(* A key recorded as final is not read again (SkipFinal).                   *)
LEMMA SkipFinalInv ==
    ASSUME UpdateInv, SkipFinal
    PROVE  UpdateInv'
<1>1. Head(call.left) \notin committed
  BY DEF SkipFinal, UpdateInv, FinalNoneIsFinal
<1>2. UNCHANGED <<hold, committed, attempt, requests, pending, recorded, finals, cuts>>
  BY DEF SkipFinal, aimemVars
<1>3. call' = [call EXCEPT !.phase = "scan", !.left = Tail(call.left)]
  BY DEF SkipFinal, UpdateInv, UpdateTypeOK, Call
<1>4. call' \in Call /\ CallInv'
  BY <1>1, <1>2, <1>3, PassedOver DEF SkipFinal
<1>5. cuts' \in 0..MaxCuts
  BY <1>2 DEF UpdateInv, UpdateTypeOK
<1>. QED
  BY <1>2, <1>4, <1>5, CallStepInv

(* A receipt is read and answers the truth of that moment (ReadReceipt).    *)
LEMMA ReadReceiptInv ==
    ASSUME UpdateInv, ReadReceipt
    PROVE  UpdateInv'
<1>1. UNCHANGED <<hold, committed, attempt, requests, pending, recorded, finals, cuts>>
  BY DEF ReadReceipt, aimemVars
<1>2. /\ call' \in Call
      /\ call'.phase = "answered" /\ call'.left = call.left
      /\ call'.overtaken = call.overtaken
      /\ call'.shows = (Head(call.left) \in committed)
      /\ call.phase = "scan" /\ call.left # <<>>
  <2>. DEFINE shows == Head(call.left) \in committed
  <2>1. /\ call' = [call EXCEPT !.phase = "answered", !.shows = shows]
        /\ call.phase = "scan" /\ call.left # <<>>
    BY DEF ReadReceipt
  <2>2. shows \in BOOLEAN
    OBVIOUS
  <2>. HIDE DEF shows
  <2>3. call \in Call
    BY DEF UpdateInv, UpdateTypeOK
  <2>4. call' = [phase |-> "answered", overtaken |-> call.overtaken,
                 left |-> call.left, shows |-> shows]
    BY <2>1, <2>3 DEF Call
  <2>5. call' \in Call
    BY <2>2, <2>3, <2>4 DEF Call
  <2>. QED
    BY <2>1, <2>4, <2>5 DEF shows
<1>3. KeysOf(pending)' = KeysOf(pending) /\ \A k : Spent(k)' <=> Spent(k)
  BY <1>1 DEF KeysOf, Keys, Spent
<1>4. CallInv'
  BY <1>1, <1>2, <1>3 DEF UpdateInv, CallInv
<1>5. cuts' \in 0..MaxCuts
  BY <1>1 DEF UpdateInv, UpdateTypeOK
<1>. QED
  BY <1>1, <1>2, <1>4, <1>5, CallStepInv

(* All keys are read (ScanDone): the step is settled only if the hold was   *)
(* seen past the request first.                                             *)
LEMMA ScanDoneInv ==
    ASSUME UpdateInv, ScanDone
    PROVE  UpdateInv'
<1>1. UNCHANGED <<hold, committed, attempt, requests, pending, recorded, finals, cuts>>
  BY DEF ScanDone, aimemVars
<1>2. cuts' \in 0..MaxCuts
  BY <1>1 DEF UpdateInv, UpdateTypeOK
<1>3. CASE ~call.overtaken
  <2>1. call' = NoCall
    BY <1>3 DEF ScanDone
  <2>2. call' \in Call /\ CallInv'
    BY <2>1, NothingKnown DEF CallInv, NoCall
  <2>. QED
    BY <1>1, <1>2, <2>2, CallStepInv
<1>4. CASE call.overtaken
  <2>1. /\ call' \in Call
        /\ call'.phase = "settle" /\ call'.left = call.left
        /\ call'.overtaken = call.overtaken
        /\ call.phase = "scan" /\ call.left = <<>>
    BY <1>4 DEF ScanDone, UpdateInv, UpdateTypeOK, Call
  <2>2. KeysOf(pending)' = KeysOf(pending) /\ \A k : Spent(k)' <=> Spent(k)
    BY <1>1 DEF KeysOf, Keys, Spent
  <2>3. CallInv'
    BY <1>1, <1>4, <2>1, <2>2 DEF UpdateInv, CallInv
  <2>. QED
    BY <1>1, <1>2, <2>1, <2>3, CallStepInv
<1>. QED
  BY <1>3, <1>4

(* A key without a receipt (RecordNone): final only if the hold was seen    *)
(* past the request before, and then the key is spent.                      *)
LEMMA RecordNoneInv ==
    ASSUME UpdateInv, RecordNone
    PROVE  UpdateInv'
<1>1. UNCHANGED <<hold, committed, attempt, requests, pending, recorded, cuts>>
  BY DEF RecordNone, aimemVars
<1>2. /\ call.phase = "answered" /\ ~call.shows
      /\ finals' = IF call.overtaken THEN finals \cup {Head(call.left)} ELSE finals
      /\ call' = [call EXCEPT !.phase = "scan", !.left = Tail(call.left)]
  BY DEF RecordNone, UpdateInv, UpdateTypeOK, Call
<1>3. call.left # <<>> /\ (call.overtaken => Head(call.left) \notin committed)
  BY <1>2 DEF UpdateInv, CallInv
<1>4. call' \in Call /\ CallInv'
  BY <1>1, <1>2, <1>3, PassedOver
<1>5. Head(call.left) \in KeysOf(pending) /\ (call.overtaken => Spent(Head(call.left)))
  <2>1. call.left \in Seq(Nat)
    BY DEF UpdateInv, UpdateTypeOK, Call
  <2>2. 1 \in DOMAIN call.left /\ call.left[1] = Head(call.left)
    BY <1>3, <2>1, TailLeavesTheOthers
  <2>. QED
    BY <1>2, <2>2 DEF UpdateInv, CallInv
<1>6. \A k \in finals' \ finals : k \in Keys /\ k \notin committed /\ Spent(k)
  BY <1>2, <1>3, <1>5 DEF KeysOf
<1>7. Keys' = Keys /\ (\A s : KeysOf(s)' = KeysOf(s)) /\ KeysOf(pending)' = KeysOf(pending)
  BY <1>1 DEF Keys, KeysOf
<1>8. UpdateTypeOK'
  BY <1>1, <1>4, <1>6, <1>7 DEF UpdateInv, UpdateTypeOK
<1>9. /\ OneKeyCommits' /\ ClosedIsSettled' /\ FenceIsKnown' /\ KeysInv'
  BY <1>1, <1>7 DEF UpdateInv, OneKeyCommits, ClosedIsSettled, KeysInv, FenceIsKnown
<1>10. FinalNoneIsFinal'
  BY <1>1, <1>6 DEF UpdateInv, FinalNoneIsFinal
<1>11. RecordIsTrue'
  <2>1. \A k \in Keys : KeysOf(requests[k].step)' = KeysOf(requests[k].step)
    BY <1>1 DEF KeysOf, Keys
  <2>. QED
    BY <1>1, <1>7, <2>1 DEF UpdateInv, RecordIsTrue
<1>12. SpentInv'
  BY <1>1, <1>6, <1>7 DEF UpdateInv, SpentInv, Spent
<1>. QED
  BY <1>4, <1>8, <1>9, <1>10, <1>11, <1>12 DEF UpdateInv

(* recordStep: what is recorded of the pending step is true and it is spent *)
(* under all its keys; the fence moves by the step's own commit.            *)
LEMMA RecordInv ==
    ASSUME UpdateInv, NEW outcome \in {"committed", "not_committed"}, Record(outcome),
           pending # 0,
           UNCHANGED <<hold, committed, requests, finals, cuts>>,
           attempt' \in [open : BOOLEAN, fence : Nat, rev : Nat],
           attempt'.open = attempt.open,
           attempt'.fence = attempt.fence + (IF outcome = "committed" THEN 1 ELSE 0),
           outcome = "committed" <=> KeysOf(pending) \cap committed # {},
           \A k \in KeysOf(pending) : Spent(k)
    PROVE  UpdateInv'
<1>1. /\ UpdateTypeOK /\ hold.fence \in Nat /\ attempt.fence \in Nat
      /\ \A k \in Keys : /\ requests[k].fence \in Nat /\ requests[k].step \in Nat
                         /\ recorded[k] \in Outcomes
  BY Basics DEF UpdateInv
<1>2. /\ recorded' = [k \in Keys |-> IF requests[k].step = pending THEN outcome
                                                                   ELSE recorded[k]]
      /\ pending' = 0 /\ call' = NoCall
  BY DEF Record
<1>3. Keys' = Keys /\ \A s : KeysOf(s)' = KeysOf(s)
  BY DEF Keys, KeysOf
<1>4. /\ \A k \in KeysOf(pending) : recorded'[k] = outcome
      /\ \A k \in Keys : k \notin KeysOf(pending) =>
             recorded'[k] = recorded[k] /\ recorded[k] # "pending"
  BY <1>2 DEF UpdateInv, KeysInv, KeysOf
<1>5. KeysOf(0) = {} /\ KeysOf(pending)' = {}
  BY <1>2 DEF UpdateInv, KeysInv, KeysOf, Keys
<1>6. recorded' \in [Keys -> Outcomes]
  BY <1>1, <1>2 DEF Outcomes
<1>7. UpdateTypeOK'
  BY <1>1, <1>2, <1>3, <1>6, NothingKnown DEF UpdateTypeOK
<1>8. OneKeyCommits' /\ FinalNoneIsFinal'
  BY <1>3 DEF UpdateInv, OneKeyCommits, FinalNoneIsFinal
<1>9. RecordIsTrue'
  <2> SUFFICES ASSUME NEW k \in Keys
               PROVE  /\ recorded'[k] = "committed" =>
                             KeysOf(requests[k].step) \cap committed # {}
                      /\ recorded'[k] = "not_committed" =>
                             KeysOf(requests[k].step) \cap committed = {}
    BY DEF RecordIsTrue, KeysOf, Keys
  <2>1. CASE k \in KeysOf(pending)
    BY <1>4, <2>1 DEF KeysOf
  <2>2. CASE k \notin KeysOf(pending)
    BY <1>4, <2>2 DEF UpdateInv, RecordIsTrue
  <2>. QED
    BY <2>1, <2>2
<1>10. FenceIsKnown'
  <2>1. CASE outcome = "committed"
    <3>1. PICK k \in KeysOf(pending) : k \in committed
      BY <2>1
    <3>2. k \in Keys /\ requests[k].fence = attempt.fence /\ hold.fence > requests[k].fence
      BY <3>1 DEF UpdateInv, KeysInv, SpentInv, KeysOf
    <3>3. hold.state = "held" => hold.fence = attempt.fence + 1
      BY <2>1 DEF UpdateInv, SpentInv
    <3>4. attempt'.fence = attempt.fence + 1
      BY <2>1
    <3>. QED
      BY <1>1, <3>2, <3>3, <3>4 DEF FenceIsKnown
  <2>2. CASE outcome = "not_committed"
    <3>1. hold.state = "held" => hold.fence = attempt.fence
      BY <1>1, <2>2 DEF UpdateInv, SpentInv
    <3>2. attempt'.fence = attempt.fence
      BY <1>1, <2>2
    <3>. QED
      BY <3>1, <3>2 DEF UpdateInv, FenceIsKnown
  <2>. QED
    BY <2>1, <2>2
<1>11. \A k \in Keys' : recorded'[k] # "pending"
  BY <1>3, <1>4
<1>12. ClosedIsSettled'
  BY <1>11 DEF ClosedIsSettled
<1>13. KeysInv'
  <2>1. \A j, k \in Keys : requests[j].step = requests[k].step => recorded'[j] = recorded'[k]
    BY <1>4 DEF UpdateInv, KeysInv, KeysOf
  <2>2. \A k \in Keys' : recorded'[k] = "pending" <=> requests'[k].step = pending'
    BY <1>2, <1>3, <1>11 DEF UpdateInv, KeysInv
  <2>. QED
    BY <1>2, <1>3, <1>5, <2>1, <2>2 DEF UpdateInv, KeysInv
<1>14. SpentInv'
  <2>1. \A k \in Keys' : k \in finals' \/ recorded'[k] # "pending" => Spent(k)'
    BY <1>3, <1>4 DEF UpdateInv, SpentInv, Spent
  <2>2. hold.state = "held" => hold.fence = attempt'.fence
    BY <1>1 DEF UpdateInv, SpentInv
  <2>3. KeysOf(pending)' \cap committed' = {}
    BY <1>5
  <2>4. hold.state = "held" => hold.fence = attempt'.fence + 0
    BY <1>1, <2>2
  <2>. QED
    BY <2>1, <2>3, <2>4 DEF UpdateInv, SpentInv
<1>15. CallInv'
  BY <1>2 DEF CallInv, NoCall
<1>. QED
  BY <1>7, <1>8, <1>9, <1>10, <1>12, <1>13, <1>14, <1>15 DEF UpdateInv

(* A receipt that was read settles the step as committed (SettleCommitted). *)
LEMMA SettleCommittedInv ==
    ASSUME UpdateInv, SettleCommitted
    PROVE  UpdateInv'
<1>. DEFINE k == Head(call.left)
<1>1. /\ UpdateTypeOK /\ hold.fence \in Nat /\ attempt.fence \in Nat
      /\ \A j \in Keys : requests[j].fence \in Nat /\ requests[j].rev \in Nat
  BY Basics DEF UpdateInv
<1>2. call.left \in Seq(Nat) /\ call.left # <<>> /\ k \in committed /\ pending # 0
  BY <1>1 DEF SettleCommitted, UpdateInv, CallInv, UpdateTypeOK, Call
<1>3. k \in KeysOf(pending)
  <2>1. 1 \in DOMAIN call.left /\ call.left[1] = k
    BY <1>2, TailLeavesTheOthers
  <2>. QED
    BY <2>1 DEF SettleCommitted, UpdateInv, CallInv
<1>. HIDE DEF k
<1>4. k \in Keys /\ requests[k].fence = attempt.fence
  BY <1>3 DEF UpdateInv, KeysInv, KeysOf
<1>5. \A j \in KeysOf(pending) : Spent(j)
  BY <1>1, <1>2, <1>3, <1>4 DEF UpdateInv, KeysInv, SpentInv, Spent
<1>6. attempt' = [attempt EXCEPT !.fence = requests[k].fence + 1, !.rev = requests[k].rev + 1]
  BY DEF SettleCommitted, k
<1>7. /\ attempt' \in [open : BOOLEAN, fence : Nat, rev : Nat]
      /\ attempt'.open = attempt.open /\ attempt'.fence = attempt.fence + 1
  <2>1. attempt' = [open |-> attempt.open, fence |-> attempt.fence + 1,
                    rev |-> requests[k].rev + 1]
    BY <1>1, <1>4, <1>6 DEF UpdateTypeOK
  <2>2. attempt.open \in BOOLEAN
    BY <1>1 DEF UpdateTypeOK
  <2>. QED
    BY <1>1, <1>4, <2>1, <2>2
<1>8. Record("committed") /\ UNCHANGED <<hold, committed, requests, finals, cuts>>
  BY DEF SettleCommitted, aimemVars
<1>. QED
  BY <1>2, <1>3, <1>5, <1>7, <1>8, RecordInv

(* No key has a receipt, read after the hold was seen past the request: the *)
(* step is settled as not committed (SettleNotCommitted).                   *)
LEMMA SettleNotCommittedInv ==
    ASSUME UpdateInv, SettleNotCommitted
    PROVE  UpdateInv'
<1>1. UpdateTypeOK /\ attempt.fence \in Nat /\ attempt \in [open : BOOLEAN, fence : Nat, rev : Nat]
  BY Basics DEF UpdateInv, UpdateTypeOK
<1>2. pending # 0 /\ call.overtaken /\ DOMAIN call.left = {}
  BY DEF SettleNotCommitted, UpdateInv, CallInv
<1>3. \A k \in KeysOf(pending) : Spent(k) /\ k \notin committed
  BY <1>2 DEF SettleNotCommitted, UpdateInv, CallInv
<1>4. KeysOf(pending) \cap committed = {}
  BY <1>3
<1>5. /\ Record("not_committed")
      /\ UNCHANGED <<hold, committed, attempt, requests, finals, cuts>>
  BY DEF SettleNotCommitted, aimemVars
<1>. QED
  BY <1>1, <1>2, <1>3, <1>4, <1>5, RecordInv

(* The reconciler closes the attempt (CloseRecovered): no step is pending.  *)
LEMMA CloseRecoveredInv ==
    ASSUME UpdateInv, CloseRecovered
    PROVE  UpdateInv'
<1>1. UpdateTypeOK /\ hold.fence \in Nat
  BY Basics DEF UpdateInv
<1>2. /\ pending = 0 /\ hold.state = "closed"
      /\ UNCHANGED <<hold, committed, requests, pending, recorded, finals, call, cuts>>
  BY DEF CloseRecovered, aimemVars
<1>3. /\ attempt' \in [open : BOOLEAN, fence : Nat, rev : Nat]
      /\ attempt'.fence = hold.fence
  BY <1>1 DEF CloseRecovered, UpdateTypeOK
<1>4. Keys' = Keys /\ (\A s : KeysOf(s)' = KeysOf(s)) /\ KeysOf(pending)' = KeysOf(pending)
  BY <1>2 DEF Keys, KeysOf
<1>5. UpdateTypeOK'
  BY <1>1, <1>2, <1>3, <1>4 DEF UpdateTypeOK
<1>6. OneKeyCommits' /\ FinalNoneIsFinal'
  BY <1>2, <1>4 DEF UpdateInv, OneKeyCommits, FinalNoneIsFinal
<1>7. RecordIsTrue'
  <2>1. \A k \in Keys : KeysOf(requests[k].step)' = KeysOf(requests[k].step)
    BY <1>2 DEF KeysOf, Keys
  <2>. QED
    BY <1>2, <1>4, <2>1 DEF UpdateInv, RecordIsTrue
<1>8. FenceIsKnown'
  BY <1>1, <1>2, <1>3 DEF FenceIsKnown
<1>9. ClosedIsSettled' /\ KeysOf(pending) = {}
  BY <1>2, <1>4 DEF ClosedIsSettled, UpdateInv, KeysInv, KeysOf
<1>10. KeysInv' /\ SpentInv' /\ CallInv'
  BY <1>2, <1>4, <1>9 DEF UpdateInv, KeysInv, SpentInv, CallInv, Spent
<1>. QED
  BY <1>5, <1>6, <1>7, <1>8, <1>9, <1>10 DEF UpdateInv

(* Every step keeps the invariant.                                          *)
LEMMA NextInv == UpdateInv /\ [Next]_vars => UpdateInv'
<1> SUFFICES ASSUME UpdateInv, [Next]_vars PROVE UpdateInv'
  OBVIOUS
<1>1. CASE BeginUpdate
  BY <1>1, BeginUpdateInv
<1>2. CASE SupersedeUpdate
  BY <1>2, SupersedeUpdateInv
<1>3. CASE \E k \in Keys : Commits(k)
  BY <1>3, CommitsInv
<1>4. CASE TaskEdited \/ Recovered
  BY <1>4, HoldMovesInv
<1>5. CASE BeginSettle \/ CallCut
  BY <1>5, BeginSettleInv
<1>6. CASE CallSteps
  BY <1>6, ReadHoldInv, SkipFinalInv, ReadReceiptInv, SettleCommittedInv, RecordNoneInv,
     ScanDoneInv, SettleNotCommittedInv DEF CallSteps
<1>7. CASE CloseRecovered
  BY <1>7, CloseRecoveredInv
<1>8. CASE UNCHANGED vars
  <2>1. /\ UNCHANGED <<hold, committed, attempt, requests, pending, recorded, finals>>
        /\ UNCHANGED <<call, cuts>>
    BY <1>8 DEF vars
  <2>2. KeysOf(pending)' = KeysOf(pending) /\ \A k : Spent(k)' <=> Spent(k)
    BY <2>1 DEF KeysOf, Keys, Spent
  <2>3. CallInv' /\ call' \in Call /\ cuts' \in 0..MaxCuts
    BY <2>1, <2>2 DEF UpdateInv, CallInv, UpdateTypeOK
  <2>. QED
    BY <2>1, <2>3, CallStepInv
<1>. QED
  BY <1>1, <1>2, <1>3, <1>4, <1>5, <1>6, <1>7, <1>8 DEF Next

-----------------------------------------------------------------------------
(* Theorems *)

(* Settling without a proof: at most one key of a step ever commits, every  *)
(* recorded outcome is and stays true, what is recorded as final is spent,  *)
(* the hold's fence is known while nothing is pending, and a closed attempt *)
(* has no pending step (settleUpdate, closesRecovered).                     *)
THEOREM UpdatesAreSettled == Spec => []UpdateInv
BY InitInv, NextInv, PTL DEF Spec

(* Each of its promises: one key of a step commits at most, what is         *)
(* recorded of a step is the truth of all its keys, a key recorded as final *)
(* never commits, and aicrew knows the hold's fence (settleUpdate).         *)
THEOREM RecordsAreTrue ==
    Spec => [](OneKeyCommits /\ RecordIsTrue /\ FinalNoneIsFinal /\ FenceIsKnown)
<1>1. UpdateInv => OneKeyCommits /\ RecordIsTrue /\ FinalNoneIsFinal /\ FenceIsKnown
  BY DEF UpdateInv
<1>. QED
  BY <1>1, UpdatesAreSettled, PTL

-----------------------------------------------------------------------------
(* Each step keeps the promise of StepOutcome *)

(* What is recorded of a step is what is recorded under any of its keys.    *)
LEMMA OutcomeOfStep ==
    ASSUME UpdateInv, NEW k \in Keys
    PROVE  OutcomeOf(requests[k].step) = recorded[k]
<1>. DEFINE s == requests[k].step
            c == CHOOSE j \in KeysOf(s) : TRUE
<1>1. k \in KeysOf(s)
  BY DEF KeysOf
<1>2. c \in KeysOf(s)
  BY <1>1
<1>3. OutcomeOf(s) = recorded[c]
  BY <1>1 DEF OutcomeOf
<1>. HIDE DEF c
<1>4. c \in Keys /\ requests[c].step = s
  BY <1>2 DEF KeysOf
<1>. QED
  BY <1>3, <1>4 DEF UpdateInv, KeysInv

(* A step without a key is pending, and so is the one that is not settled.  *)
LEMMA PendingIsPending ==
    ASSUME UpdateInv, NEW step, KeysOf(step) = {} \/ step = pending
    PROVE  OutcomeOf(step) = "pending"
<1>1. CASE KeysOf(step) = {}
  BY <1>1 DEF OutcomeOf
<1>2. CASE KeysOf(step) # {} /\ step = pending
  <2>1. PICK k \in KeysOf(step) : TRUE
    BY <1>2
  <2>2. k \in Keys /\ requests[k].step = pending /\ recorded[k] = "pending"
    BY <1>2, <2>1 DEF KeysOf, UpdateInv, KeysInv
  <2>. QED
    BY <1>2, <2>2, OutcomeOfStep
<1>. QED
  BY <1>1, <1>2

(* A step of which the keys and their records stay the same keeps them.     *)
LEMMA SameRecordSameOutcome ==
    ASSUME NEW step, KeysOf(step)' = KeysOf(step),
           \A k \in KeysOf(step) : recorded'[k] = recorded[k]
    PROVE  OutcomeOf(step)' = OutcomeOf(step)
BY DEF OutcomeOf

(* Issuing a key leaves every step's outcome and commitment as they are.    *)
LEMMA IssueKeepsPromise ==
    ASSUME UpdateInv, UpdateInv', BeginUpdate \/ SupersedeUpdate, NEW step \in Nat
    PROVE  UNCHANGED <<OutcomeOf(step), CommittedStep(step)>>
<1>. DEFINE n == Len(requests)
<1>1. /\ UpdateTypeOK /\ n \in Nat /\ Keys = 1..n /\ requests \in Seq(Request)
      /\ recorded \in Seq(Outcomes) /\ Len(recorded) = n
      /\ committed \subseteq Keys
  BY Basics DEF UpdateInv, UpdateTypeOK
<1>2. PICK r : requests' = Append(requests, r) /\ r.step = pending'
  BY DEF BeginUpdate, SupersedeUpdate, Issue
<1>3. recorded' = Append(recorded, "pending") /\ committed' = committed
  BY DEF BeginUpdate, SupersedeUpdate, Issue, aimemVars
<1>4. /\ Keys' = Keys \cup {n + 1} /\ n + 1 \notin Keys
      /\ \A k \in Keys : requests'[k] = requests[k] /\ recorded'[k] = recorded[k]
      /\ requests'[n + 1] = r
  BY <1>1, <1>2, <1>3 DEF Keys
<1>5. /\ step # pending' => KeysOf(step)' = KeysOf(step)
      /\ step = pending' => KeysOf(step)' = KeysOf(step) \cup {n + 1}
  BY <1>2, <1>4 DEF KeysOf
<1>6. CommittedStep(step)' = CommittedStep(step)
  <2>1. n + 1 \notin committed
    BY <1>1, <1>4
  <2>. QED
    BY <1>3, <1>5, <2>1 DEF CommittedStep
<1>7. OutcomeOf(step)' = OutcomeOf(step)
  <2>1. CASE step # pending'
    <3>1. \A k \in KeysOf(step) : recorded'[k] = recorded[k]
      BY <1>4 DEF KeysOf
    <3>. QED
      BY <1>5, <2>1, <3>1, SameRecordSameOutcome
  <2>2. CASE step = pending'
    <3>1. KeysOf(step) = {} \/ step = pending
      BY <2>2, BeginsAnew DEF BeginUpdate, SupersedeUpdate, Issue
    <3>2. OutcomeOf(step) = "pending"
      BY <3>1, PendingIsPending
    <3>3. \A k \in KeysOf(step)' : recorded'[k] = "pending"
      BY <2>2 DEF UpdateInv, KeysInv, KeysOf
    <3>4. OutcomeOf(step)' = "pending"
      BY <3>3 DEF OutcomeOf
    <3>. QED
      BY <3>2, <3>4
  <2>. QED
    BY <2>1, <2>2
<1>. QED
  BY <1>6, <1>7

(* A commit keeps the promise: the key's step is pending, none of its keys  *)
(* had committed, and the other steps do not change.                        *)
LEMMA CommitsKeepPromise ==
    ASSUME UpdateInv, NEW k \in Keys, Commits(k), NEW step
    PROVE  Promise(step)!Next \/ UNCHANGED <<OutcomeOf(step), CommittedStep(step)>>
<1>1. /\ UpdateTypeOK
      /\ \A j \in Keys : requests[j].fence \in Nat /\ requests[j].rev \in Nat
      /\ hold.fence \in Nat /\ hold.rev \in Nat
  BY Basics DEF UpdateInv
<1>2. /\ hold.fence = requests[k].fence /\ hold.rev = requests[k].rev
      /\ committed' = committed \cup {k}
      /\ UNCHANGED <<requests, recorded>>
  BY DEF Commits
<1>3. ~Spent(k)
  BY <1>1, <1>2 DEF Spent
<1>4. k \in KeysOf(pending)
  BY <1>3, UnspentIsPending
<1>5. KeysOf(step)' = KeysOf(step)
  BY <1>2 DEF Keys, KeysOf
<1>6. OutcomeOf(step)' = OutcomeOf(step)
  BY <1>2, <1>5, SameRecordSameOutcome
<1>7. CASE step # pending
  <2>1. k \notin KeysOf(step)
    BY <1>4, <1>7 DEF KeysOf
  <2>2. CommittedStep(step)' = CommittedStep(step)
    BY <1>2, <1>5, <2>1 DEF CommittedStep
  <2>. QED
    BY <1>6, <2>2
<1>8. CASE step = pending
  <2>1. OutcomeOf(step) = "pending"
    BY <1>8, PendingIsPending
  <2>2. \A j \in committed : j \notin KeysOf(pending)
    BY <1>1, <1>2, <1>4 DEF UpdateInv, KeysInv, SpentInv, KeysOf
  <2>3. ~CommittedStep(step)
    BY <1>8, <2>2 DEF CommittedStep
  <2>4. CommittedStep(step)' = TRUE
    BY <1>2, <1>4, <1>5, <1>8 DEF CommittedStep
  <2>. QED
    BY <1>6, <2>1, <2>3, <2>4 DEF Promise!Next, Promise!Commit
<1>. QED
  BY <1>7, <1>8

(* recordStep keeps the promise: it records of the pending step what is     *)
(* true of it, and of the others nothing.                                   *)
LEMMA RecordKeepsPromise ==
    ASSUME UpdateInv, SettleCommitted \/ SettleNotCommitted, NEW step
    PROVE  Promise(step)!Next \/ UNCHANGED <<OutcomeOf(step), CommittedStep(step)>>
<1>1. PICK outcome \in {"committed", "not_committed"} :
         /\ Record(outcome)
         /\ outcome = "committed" <=> KeysOf(pending) \cap committed # {}
  <2>1. CASE SettleCommitted
    <3>1. /\ call.left \in Seq(Nat) /\ call.left # <<>>
          /\ Head(call.left) \in committed
      BY <2>1 DEF SettleCommitted, UpdateInv, CallInv, UpdateTypeOK, Call
    <3>2. Head(call.left) \in KeysOf(pending)
      <4>1. 1 \in DOMAIN call.left /\ call.left[1] = Head(call.left)
        BY <3>1, TailLeavesTheOthers
      <4>. QED
        BY <2>1, <4>1 DEF SettleCommitted, UpdateInv, CallInv
    <3>. QED
      BY <2>1, <3>1, <3>2 DEF SettleCommitted
  <2>2. CASE SettleNotCommitted
    <3>1. DOMAIN call.left = {} /\ call.overtaken
      BY <2>2 DEF SettleNotCommitted, UpdateInv, CallInv
    <3>2. KeysOf(pending) \cap committed = {}
      BY <2>2, <3>1 DEF SettleNotCommitted, UpdateInv, CallInv
    <3>. QED
      BY <2>2, <3>2 DEF SettleNotCommitted
  <2>. QED
    BY <2>1, <2>2
<1>2. UNCHANGED <<requests, committed>>
  BY DEF SettleCommitted, SettleNotCommitted, aimemVars
<1>3. pending # 0
  BY DEF SettleCommitted, SettleNotCommitted, UpdateInv, CallInv
<1>4. KeysOf(step)' = KeysOf(step)
  BY <1>2 DEF Keys, KeysOf
<1>5. CommittedStep(step)' = CommittedStep(step)
  BY <1>2, <1>4 DEF CommittedStep
<1>6. recorded' = [k \in Keys |-> IF requests[k].step = pending THEN outcome ELSE recorded[k]]
  BY <1>1 DEF Record
<1>7. CASE step # pending
  <2>1. \A k \in KeysOf(step) : recorded'[k] = recorded[k]
    BY <1>6, <1>7 DEF KeysOf
  <2>. QED
    BY <1>4, <1>5, <2>1, SameRecordSameOutcome
<1>8. CASE step = pending
  <2>1. OutcomeOf(step) = "pending"
    BY <1>8, PendingIsPending
  <2>2. /\ \A k \in KeysOf(step) : recorded'[k] = outcome
        /\ KeysOf(step) # {}
    BY <1>3, <1>6, <1>8 DEF KeysOf, UpdateInv, KeysInv
  <2>3. OutcomeOf(step)' = outcome
    BY <1>4, <2>2 DEF OutcomeOf
  <2>4. outcome = IF CommittedStep(step) THEN "committed" ELSE "not_committed"
    BY <1>1, <1>8 DEF CommittedStep
  <2>. QED
    BY <1>5, <2>1, <2>3, <2>4 DEF Promise!Next, Promise!Settle
<1>. QED
  BY <1>7, <1>8

(* What no other step changes: the keys, their records and the commits.     *)
LEMMA OthersKeepPromise ==
    ASSUME UNCHANGED <<requests, recorded, committed>>, NEW step
    PROVE  UNCHANGED <<OutcomeOf(step), CommittedStep(step)>>
<1>1. KeysOf(step)' = KeysOf(step)
  BY DEF Keys, KeysOf
<1>2. OutcomeOf(step)' = OutcomeOf(step)
  BY <1>1, SameRecordSameOutcome
<1>3. CommittedStep(step)' = CommittedStep(step)
  BY <1>1 DEF CommittedStep
<1>. QED
  BY <1>2, <1>3

(* Every update keeps the promise of StepOutcome: it commits only while its *)
(* outcome is pending, its outcome is recorded as it is and never changed,  *)
(* whichever of its keys commits and whenever (settleUpdate, recordStep).   *)
THEOREM UpdatesKeepPromise == Spec => ImplementsPromise
<1>1. Init => \A step \in 1..MaxSteps : Promise(step)!Init
  <2> SUFFICES ASSUME Init, NEW step \in 1..MaxSteps PROVE Promise(step)!Init
    OBVIOUS
  <2>1. KeysOf(step) = {}
    BY DEF Init, Keys, KeysOf
  <2>. QED
    BY <2>1 DEF Promise!Init, OutcomeOf, CommittedStep
<1>2. UpdateInv /\ UpdateInv' /\ [Next]_vars =>
          [\A step \in 1..MaxSteps :
              Promise(step)!Next \/ UNCHANGED <<OutcomeOf(step), CommittedStep(step)>>]_vars
  <2> SUFFICES ASSUME UpdateInv, UpdateInv', Next, NEW step \in 1..MaxSteps
               PROVE  Promise(step)!Next
                      \/ UNCHANGED <<OutcomeOf(step), CommittedStep(step)>>
    OBVIOUS
  <2>1. CASE BeginUpdate \/ SupersedeUpdate
    <3>1. step \in Nat
      BY LimitsAssumption
    <3>. QED
      BY <2>1, <3>1, IssueKeepsPromise
  <2>2. CASE \E k \in Keys : Commits(k)
    BY <2>2, CommitsKeepPromise
  <2>3. CASE SettleCommitted \/ SettleNotCommitted
    BY <2>3, RecordKeepsPromise
  <2>4. CASE TaskEdited \/ Recovered \/ BeginSettle \/ ReadHold \/ SkipFinal \/ ReadReceipt
             \/ RecordNone \/ ScanDone \/ CallCut \/ CloseRecovered
    <3>1. UNCHANGED <<requests, recorded, committed>>
      BY <2>4 DEF TaskEdited, Recovered, BeginSettle, ReadHold, SkipFinal, ReadReceipt,
                  RecordNone, ScanDone, CallCut, CloseRecovered, aimemVars
    <3>. QED
      BY <3>1, OthersKeepPromise
  <2>. QED
    BY <2>1, <2>2, <2>3, <2>4 DEF Next, CallSteps
<1>. QED
  BY <1>1, <1>2, UpdatesAreSettled, PTL DEF Spec, ImplementsPromise
=============================================================================
