------------------------ MODULE StepSettlementProofs ------------------------
(***************************************************************************)
(* Proofs about StepSettlement, for every lifetime, finality delay, budget *)
(* and bound: the invariant behind none-finality, what follows from it,    *)
(* and that the settlement implements the promise of StepOutcome.          *)
(***************************************************************************)
EXTENDS StepSettlement, SequenceTheorems, TLAPS

-----------------------------------------------------------------------------
(* Sequences built over the positions of another *)

(* A sequence given position by position is one, of the length asked for.   *)
LEMMA SeqByIndex ==
    ASSUME NEW S, NEW n \in Nat, NEW f \in [1..n -> S]
    PROVE  f \in Seq(S) /\ Len(f) = n
<1>1. f \in Seq(S)
  BY SeqDef
<1>2. DOMAIN f = 1..n /\ DOMAIN f = 1..Len(f)
  BY <1>1
<1>. QED
  BY <1>1, <1>2

(* Ending a proof (endProofs, voidStep) leaves a proof that ends no later.   *)
LEMMA EndedProof ==
    ASSUME NEW p \in Proof, NEW t \in Nat
    PROVE  /\ Ended(p, t) \in Proof
           /\ End(p) \in Nat
           /\ End(Ended(p, t)) \in Nat
           /\ End(Ended(p, t)) <= End(p)
           /\ End(Ended(p, t)) = End(p) \/ End(Ended(p, t)) = t
           /\ Ended(p, t).ended = p.ended \/ Ended(p, t).ended = t
BY DEF Ended, End, Proof

(* EndAll ends each proof of the step.                                      *)
LEMMA EndAllProofs ==
    ASSUME NEW ps \in Seq(Proof), NEW t \in Nat
    PROVE  /\ EndAll(ps, t) \in Seq(Proof)
           /\ Len(EndAll(ps, t)) = Len(ps)
           /\ \A i \in 1..Len(ps) : EndAll(ps, t)[i] = Ended(ps[i], t)
<1>. \A i \in 1..Len(ps) : ps[i] \in Proof
  BY ElementOfSeq
<1>1. \A i \in 1..Len(ps) : Ended(ps[i], t) \in Proof
  BY EndedProof
<1>2. EndAll(ps, t) \in [1..Len(ps) -> Proof]
  BY <1>1 DEF EndAll
<1>. QED
  BY <1>2, SeqByIndex DEF EndAll

(* endMovedProofs ends some proofs and leaves the others alone.             *)
LEMMA EndMovedProofs ==
    ASSUME NEW ps \in Seq(Proof), NEW g \in Nat, NEW t \in Nat
    PROVE  /\ EndMoved(ps, g, t) \in Seq(Proof)
           /\ Len(EndMoved(ps, g, t)) = Len(ps)
           /\ \A i \in 1..Len(ps) : EndMoved(ps, g, t)[i] \in {ps[i], Ended(ps[i], t)}
<1>. \A i \in 1..Len(ps) : ps[i] \in Proof
  BY ElementOfSeq
<1>1. \A i \in 1..Len(ps) : Ended(ps[i], t) \in Proof /\ ps[i] \in Proof
  BY EndedProof
<1>2. EndMoved(ps, g, t) \in [1..Len(ps) -> Proof]
  BY <1>1 DEF EndMoved
<1>. QED
  BY <1>2, SeqByIndex DEF EndMoved

(* The ends a settle call reads (stepProofs).                               *)
LEMMA EndsOfProofs ==
    ASSUME NEW ps \in Seq(Proof)
    PROVE  /\ Ends(ps) \in Seq(Nat)
           /\ Len(Ends(ps)) = Len(ps)
           /\ \A i \in 1..Len(ps) : Ends(ps)[i] = End(ps[i])
<1>. \A i \in 1..Len(ps) : ps[i] \in Proof
  BY ElementOfSeq
<1>1. \A i \in 1..Len(ps) : End(ps[i]) \in Nat
  BY DEF End, Proof
<1>2. Ends(ps) \in [1..Len(ps) -> Nat]
  BY <1>1 DEF Ends
<1>. QED
  BY <1>2, SeqByIndex DEF Ends

-----------------------------------------------------------------------------
(* The invariant *)

(* The initial states satisfy the invariant: no step, no proof, nothing at  *)
(* aimem.                                                                   *)
LEMMA InitInv == Init => SettlementInv
<1> SUFFICES ASSUME Init PROVE SettlementInv
  OBVIOUS
<1> USE TimingAssumption, BoundsAssumption
<1>1. proofs \in Seq(Proof) /\ Len(proofs) = 1 /\ proofs[1] = NewProof(1, 1)
  BY DEF Init, NewProof, Proof
<1>2. granted \in [1..1 -> Nat] /\ granted[1] = 0
  BY DEF Init
<1>3. call \in Call
  BY DEF Init, Call, NoCall, Phases, Reporters
<1>4. TypeOK
  BY <1>1, <1>2, <1>3 DEF Init, TypeOK
<1>5. ProofsInTime
  BY <1>1, <1>2 DEF Init, ProofsInTime, NewProof, End
<1>. QED
  BY <1>4, <1>5 DEF Init, SettlementInv, FinalsInv, OutcomeInv, ScanInv, ReadInv,
                    CallInv, NoCall

(* A step that only ends proofs, now, keeps what the invariant says of them *)
(* and of the call that runs: an end moves no earlier than the present.     *)
LEMMA EndingProofs ==
    ASSUME SettlementInv,
           proofs' \in Seq(Proof), Len(proofs') = Len(proofs),
           \A i \in 1..Len(proofs) : proofs'[i] \in {proofs[i], Ended(proofs[i], now)},
           UNCHANGED <<now, granted, receipt, finals>>
    PROVE  /\ ProofsInTime' /\ FinalsInv'
           /\ \A i \in DOMAIN proofs : NoneIsFinal(End(proofs[i]), now)
                                         => NoneIsFinal(End(proofs'[i]), now)
           /\ \A i \in DOMAIN proofs, t \in 0..now : NoneAt(i, t) => NoneAt(i, t)'
           /\ \A i \in DOMAIN proofs : End(proofs'[i]) <= End(proofs[i])
<1> USE TimingAssumption
<1>1. /\ proofs \in Seq(Proof) /\ now \in Nat /\ granted \in [1..Len(proofs) -> Nat]
      /\ finals \subseteq 1..Len(proofs)
  BY DEF SettlementInv, TypeOK
<1>2. DOMAIN proofs = 1..Len(proofs) /\ DOMAIN proofs' = DOMAIN proofs
  BY <1>1
<1>3. \A i \in DOMAIN proofs : proofs[i] \in Proof
  BY <1>1, ElementOfSeq
<1>4. ASSUME NEW i \in DOMAIN proofs
      PROVE  /\ End(proofs[i]) \in Nat /\ End(proofs'[i]) \in Nat
             /\ End(proofs'[i]) <= End(proofs[i])
             /\ End(proofs'[i]) = End(proofs[i]) \/ End(proofs'[i]) = now
             /\ proofs'[i].ended = proofs[i].ended \/ proofs'[i].ended = now
             /\ proofs[i].ended \in Nat
  BY <1>1, <1>2, <1>3, EndedProof, ZenonT(40) DEF Proof
<1>5. ProofsInTime'
  <2> SUFFICES ASSUME NEW i \in DOMAIN proofs
               PROVE  /\ granted[i] <= now
                      /\ granted[i] <= End(proofs'[i])
                      /\ proofs'[i].ended <= now
    BY <1>2 DEF ProofsInTime
  <2>1. granted[i] \in Nat
    BY <1>1, <1>2
  <2>2. granted[i] <= now /\ granted[i] <= End(proofs[i]) /\ proofs[i].ended <= now
    BY DEF SettlementInv, ProofsInTime
  <2>. QED
    BY SMTT(20), <1>1, <1>4, <2>1, <2>2
<1>6. FinalsInv'
  BY <1>1, <1>2, <1>4 DEF SettlementInv, FinalsInv, NoneIsFinal
<1>7. \A i \in DOMAIN proofs : NoneIsFinal(End(proofs[i]), now)
                                  => NoneIsFinal(End(proofs'[i]), now)
  BY <1>1, <1>4 DEF NoneIsFinal
<1>8. \A i \in DOMAIN proofs, t \in 0..now : NoneAt(i, t) => NoneAt(i, t)'
  <2> SUFFICES ASSUME NEW i \in DOMAIN proofs, NEW t \in 0..now, NoneAt(i, t)
               PROVE  t >= End(proofs'[i]) + NoneFinalAfter => receipt # i
    BY DEF NoneAt, NoneIsFinal
  <2>. QED
    BY <1>1, <1>4, SMTT(20) DEF NoneAt, NoneIsFinal
<1>. QED
  BY <1>4, <1>5, <1>6, <1>7, <1>8

(* A session of the actor that ends or comes back keeps the invariant: the  *)
(* step remembers the generation it began under.                            *)
LEMMA MoveSessionInv ==
    ASSUME SettlementInv, NEW active \in BOOLEAN, MoveSession(active)
    PROVE  SettlementInv'
<1> USE TimingAssumption
<1>1. TypeOK
  BY DEF SettlementInv
<1>2. /\ proofs' \in Seq(Proof) /\ Len(proofs') = Len(proofs)
      /\ \A i \in 1..Len(proofs) : proofs'[i] \in {proofs[i], Ended(proofs[i], now)}
      /\ UNCHANGED <<now, granted, receipt, outcome, finals, call, cuts>>
  BY <1>1, EndMovedProofs DEF MoveSession, TypeOK
<1>3. DOMAIN proofs = 1..Len(proofs) /\ DOMAIN proofs' = 1..Len(proofs)
  BY <1>1, <1>2 DEF TypeOK
<1>4. TypeOK'
  <2>1. session' \in [gen : Nat, active : BOOLEAN]
    BY <1>1 DEF MoveSession, TypeOK
  <2>2. acts' \in BOOLEAN
    BY <1>1 DEF MoveSession, TypeOK
  <2>. QED
    BY <1>1, <1>2, <2>1, <2>2 DEF TypeOK
<1>5. /\ ProofsInTime' /\ FinalsInv'
      /\ \A i \in DOMAIN proofs : NoneIsFinal(End(proofs[i]), now)
                                    => NoneIsFinal(End(proofs'[i]), now)
      /\ \A i \in DOMAIN proofs, t \in 0..now : NoneAt(i, t) => NoneAt(i, t)'
      /\ \A i \in DOMAIN proofs : End(proofs'[i]) <= End(proofs[i])
  BY <1>2, EndingProofs
<1>6. OutcomeInv'
  BY <1>2, <1>3, <1>5 DEF SettlementInv, OutcomeInv
<1>7. call \in Call
  BY <1>1 DEF TypeOK
<1>8. call.phase # "idle" => call.asked \in 0..now
  BY <1>1, <1>7 DEF SettlementInv, CallInv, Call, TypeOK
<1>9. ScanInv'
  BY <1>2, <1>3, <1>5, <1>8 DEF SettlementInv, ScanInv
<1>10. call.phase = "answered" => call.readAt \in 0..now /\ call.next \in DOMAIN proofs
  BY <1>1, <1>3, <1>7 DEF SettlementInv, CallInv, ReadInv, Call, TypeOK
<1>11. ReadInv'
  BY <1>2, <1>3, <1>5, <1>10 DEF SettlementInv, ReadInv
<1>12. \A i \in DOMAIN proofs : call.phase # "idle" =>
          End(proofs[i]) \in Nat /\ End(proofs'[i]) \in Nat /\ call.known[i] \in Nat
  <2>1. \A i \in DOMAIN proofs : proofs[i] \in Proof /\ proofs'[i] \in Proof
    BY <1>1, <1>2, <1>3, ElementOfSeq DEF TypeOK
  <2>2. \A i \in DOMAIN proofs : End(proofs[i]) \in Nat /\ End(proofs'[i]) \in Nat
    BY <2>1, EndedProof DEF End, Proof
  <2>3. call.known \in Seq(Nat)
    BY <1>7 DEF Call
  <2>. QED
    BY <1>3, <2>2, <2>3, ElementOfSeq DEF SettlementInv, CallInv
<1>13. CallInv'
  BY <1>2, <1>3, <1>5, <1>12 DEF SettlementInv, CallInv, AllFinal
<1>. QED
  BY <1>4, <1>5, <1>6, <1>9, <1>11, <1>13 DEF SettlementInv

(* What the type invariant says of the values the other parts compare.      *)
LEMMA Basics ==
    ASSUME SettlementInv
    PROVE  /\ now \in Nat
           /\ proofs \in Seq(Proof) /\ Len(proofs) \in Nat
           /\ DOMAIN proofs = 1..Len(proofs)
           /\ receipt \in 0..Len(proofs)
           /\ finals \subseteq 1..Len(proofs)
           /\ granted \in [1..Len(proofs) -> Nat]
           /\ \A i \in 1..Len(proofs) : /\ proofs[i] \in Proof
                                        /\ End(proofs[i]) \in Nat
                                        /\ granted[i] \in Nat
           /\ call \in Call /\ call.phase \in Phases
           /\ call.asked \in Nat /\ call.next \in Nat
           /\ call.readAt \in Nat /\ call.reads \in Nat
           /\ call.known \in Seq(Nat)
           /\ call.phase # "idle" =>
                \A i \in 1..Len(proofs) : call.known[i] \in Nat
<1>1. TypeOK
  BY DEF SettlementInv
<1>2. \A i \in 1..Len(proofs) : proofs[i] \in Proof /\ End(proofs[i]) \in Nat
  BY <1>1, ElementOfSeq, EndedProof DEF TypeOK, End, Proof
<1>3. /\ call \in Call /\ call.phase \in Phases
      /\ call.asked \in Nat /\ call.next \in Nat
      /\ call.readAt \in Nat /\ call.reads \in Nat /\ call.known \in Seq(Nat)
  BY <1>1 DEF TypeOK, Call
<1>4. call.phase # "idle" => \A i \in 1..Len(proofs) : call.known[i] \in Nat
  BY <1>3, ElementOfSeq DEF SettlementInv, CallInv
<1>5. /\ now \in Nat /\ proofs \in Seq(Proof)
      /\ receipt \in 0..Len(proofs) /\ finals \subseteq 1..Len(proofs)
      /\ granted \in [1..Len(proofs) -> Nat]
  BY <1>1 DEF TypeOK
<1>6. Len(proofs) \in Nat /\ DOMAIN proofs = 1..Len(proofs)
  BY <1>5
<1>7. \A i \in 1..Len(proofs) : granted[i] \in Nat
  BY <1>5
<1>. QED
  BY <1>2, <1>3, <1>4, <1>5, <1>6, <1>7

(* The session and the fact's rule are no part of the invariant.            *)
LEMMA FactChangesInv ==
    ASSUME SettlementInv, StartSession \/ RuleChanges
    PROVE  SettlementInv'
<1>1. session' \in [gen : Nat, active : BOOLEAN]
  <2>1. session \in [gen : Nat, active : BOOLEAN]
    BY DEF SettlementInv, TypeOK
  <2>2. CASE StartSession
    BY <2>1, <2>2 DEF StartSession
  <2>3. CASE RuleChanges
    BY <2>1, <2>3 DEF RuleChanges
  <2>. QED
    BY <2>2, <2>3
<1>2. acts' \in BOOLEAN
  BY DEF SettlementInv, TypeOK, StartSession, RuleChanges
<1>3. UNCHANGED <<now, proofs, granted, receipt, outcome, finals, call, cuts>>
  BY DEF StartSession, RuleChanges
<1>. QED
  BY <1>1, <1>2, <1>3 DEF SettlementInv, TypeOK, ProofsInTime, FinalsInv, OutcomeInv,
                          ScanInv, ReadInv, CallInv, NoneAt, AllFinal

(* aimem is told of an active fact only while its proof lives, so the grant *)
(* is no later than the proof's end.                                        *)
LEMMA FactGrantedInv ==
    ASSUME SettlementInv, NEW i \in DOMAIN proofs, FactGranted(i)
    PROVE  SettlementInv'
<1>1. TypeOK'
  BY Basics DEF SettlementInv, TypeOK, FactGranted
<1>2. now <= End(proofs[i])
  BY Basics DEF FactGranted, FactActive, Live, End, Proof
<1>3. ProofsInTime'
  BY <1>2, Basics DEF SettlementInv, ProofsInTime, FactGranted
<1>4. (FinalsInv /\ OutcomeInv /\ ScanInv /\ ReadInv /\ CallInv)'
  BY DEF SettlementInv, FactGranted, FinalsInv, OutcomeInv, ScanInv, ReadInv, CallInv,
         NoneAt, AllFinal
<1>. QED
  BY <1>1, <1>3, <1>4 DEF SettlementInv

(* A commit comes at most CommitLag after its grant, so before the "none"   *)
(* of its proof is final: it breaks nothing a call or the record holds.     *)
LEMMA CommitsInv ==
    ASSUME SettlementInv, NEW i \in DOMAIN proofs, Commits(i)
    PROVE  SettlementInv'
<1> USE TimingAssumption
<1>1. TypeOK'
  <2>1. TypeOK /\ i \in 1..Len(proofs)
    BY Basics DEF SettlementInv
  <2>2. receipt' \in 0..Len(proofs)
    BY <2>1 DEF Commits, TypeOK
  <2>. QED
    BY <2>1, <2>2 DEF TypeOK, Commits
<1>2. granted[i] <= End(proofs[i])
  BY DEF SettlementInv, ProofsInTime
<1>3. \A t \in 0..now : ~NoneIsFinal(End(proofs[i]), t)
  BY <1>2, Basics DEF NoneIsFinal, Commits
<1>4. i # 0 /\ receipt' = i /\ receipt = 0 /\ i \in 1..Len(proofs)
  BY Basics DEF Commits
<1>5. UNCHANGED <<now, session, acts, proofs, granted, outcome, finals, call, cuts>>
  BY DEF Commits
<1>6. \A j \in DOMAIN proofs, t \in 0..now : NoneAt(j, t)'
  BY <1>3, <1>4, <1>5 DEF NoneAt
<1>7. FinalsInv' /\ OutcomeInv'
  BY <1>3, <1>4, <1>5, Basics DEF SettlementInv, FinalsInv, OutcomeInv
<1>8. call.phase # "idle" => call.asked \in 0..now
  BY Basics DEF SettlementInv, CallInv
<1>9. ScanInv'
  BY <1>4, <1>5, <1>6, <1>8 DEF SettlementInv, ScanInv
<1>10. call.phase = "answered" =>
         call.readAt \in 0..now /\ call.next \in DOMAIN proofs /\ ~call.shows
  BY <1>4, Basics, SMTT(20) DEF SettlementInv, ReadInv, CallInv
<1>11. ReadInv'
  BY <1>4, <1>5, <1>6, <1>10 DEF SettlementInv, ReadInv
<1>12. ProofsInTime' /\ CallInv'
  BY <1>5 DEF SettlementInv, ProofsInTime, CallInv, AllFinal
<1>. QED
  BY <1>1, <1>7, <1>9, <1>11, <1>12 DEF SettlementInv

(* Time only makes more things final.                                       *)
LEMMA TickInv ==
    ASSUME SettlementInv, Tick
    PROVE  SettlementInv'
<1> USE TimingAssumption
<1>1. TypeOK'
  BY DEF SettlementInv, TypeOK, Tick
<1>2. now \in Nat /\ now' = now + 1
  BY Basics DEF Tick
<1>3. UNCHANGED <<session, acts, proofs, granted, receipt, outcome, finals, call, cuts>>
  BY DEF Tick
<1>4. \A i \in 1..Len(proofs) : NoneIsFinal(End(proofs[i]), now)
                                  => NoneIsFinal(End(proofs[i]), now')
  BY <1>2, Basics DEF NoneIsFinal
<1>5. \A i \in 1..Len(proofs) : proofs[i].ended \in Nat
  BY Basics DEF Proof
<1>6. ProofsInTime'
  <2> SUFFICES ASSUME NEW i \in DOMAIN proofs
               PROVE  /\ granted[i] <= now + 1
                      /\ granted[i] <= End(proofs[i])
                      /\ proofs[i].ended <= now + 1
    BY <1>2, <1>3 DEF ProofsInTime
  <2>1. granted[i] <= now /\ granted[i] <= End(proofs[i]) /\ proofs[i].ended <= now
    BY DEF SettlementInv, ProofsInTime
  <2>. QED
    BY <1>2, <1>5, <2>1, Basics
<1>7. FinalsInv' /\ OutcomeInv'
  BY <1>3, <1>4, Basics DEF SettlementInv, FinalsInv, OutcomeInv
<1>8. ScanInv'
  BY <1>3 DEF SettlementInv, ScanInv, NoneAt
<1>9. ReadInv'
  BY <1>2, <1>3, Basics DEF SettlementInv, ReadInv, NoneAt
<1>10. CallInv'
  BY <1>2, <1>3, Basics DEF SettlementInv, CallInv, AllFinal
<1>. QED
  BY <1>1, <1>6, <1>7, <1>8, <1>9, <1>10 DEF SettlementInv

(* A replay ends every earlier proof and adds one; no call runs meanwhile.  *)
LEMMA ReplaceProofInv ==
    ASSUME SettlementInv, ReplaceProof
    PROVE  SettlementInv'
<1> USE TimingAssumption
<1> DEFINE n == Len(proofs)
           ps == EndAll(proofs, now)
           new == NewProof(session.gen, now)
<1>1. n \in Nat /\ DOMAIN proofs = 1..n /\ now \in Nat
  BY Basics
<1>2. ps \in Seq(Proof) /\ Len(ps) = n /\ \A i \in 1..n : ps[i] = Ended(proofs[i], now)
  BY EndAllProofs, Basics
<1>3. /\ new \in Proof /\ new.ended = 0 /\ End(new) \in Nat /\ new.expires = now + ProofLifetime
      /\ End(new) = now + ProofLifetime
  BY <1>1 DEF NewProof, Proof, SettlementInv, TypeOK, End
<1>4. proofs' = Append(ps, new) /\ granted' = Append(granted, 0)
  BY DEF ReplaceProof
<1>5. UNCHANGED <<now, session, acts, receipt, outcome, finals, call, cuts>>
      /\ call.phase = "idle" /\ outcome = "pending"
  BY DEF ReplaceProof
<1>6. /\ proofs' \in Seq(Proof) /\ Len(proofs') = n + 1
      /\ \A i \in 1..n : proofs'[i] = ps[i]
      /\ proofs'[n + 1] = new
      /\ DOMAIN proofs' = 1..(n + 1)
  BY <1>1, <1>2, <1>3, <1>4
<1>7. granted \in Seq(Nat) /\ Len(granted) = n
  BY <1>1, SeqByIndex, Basics
<1>8. /\ granted' \in Seq(Nat) /\ Len(granted') = n + 1
      /\ \A i \in 1..n : granted'[i] = granted[i]
      /\ granted'[n + 1] = 0
  BY <1>1, <1>4, <1>7
<1>9. granted' \in [1..Len(proofs') -> Nat]
  BY <1>6, <1>8, ElementOfSeq
<1>10. TypeOK'
  BY <1>1, <1>5, <1>6, <1>9 DEF SettlementInv, TypeOK
<1>11. \A i \in 1..n : /\ proofs[i] \in Proof /\ End(proofs[i]) \in Nat
                       /\ End(ps[i]) \in Nat /\ End(ps[i]) <= End(proofs[i])
                       /\ End(ps[i]) = End(proofs[i]) \/ End(ps[i]) = now
                       /\ ps[i].ended = proofs[i].ended \/ ps[i].ended = now
                       /\ granted[i] \in Nat
                       /\ granted[i] <= now /\ granted[i] <= End(proofs[i])
                       /\ proofs[i].ended <= now
  <2> SUFFICES ASSUME NEW i \in 1..n
               PROVE  /\ proofs[i] \in Proof /\ End(proofs[i]) \in Nat
                      /\ End(ps[i]) \in Nat /\ End(ps[i]) <= End(proofs[i])
                      /\ End(ps[i]) = End(proofs[i]) \/ End(ps[i]) = now
                      /\ ps[i].ended = proofs[i].ended \/ ps[i].ended = now
                      /\ granted[i] \in Nat
                      /\ granted[i] <= now /\ granted[i] <= End(proofs[i])
                      /\ proofs[i].ended <= now
    OBVIOUS
  <2>1. proofs[i] \in Proof /\ End(proofs[i]) \in Nat /\ granted[i] \in Nat
    BY Basics
  <2>2. /\ End(ps[i]) \in Nat /\ End(ps[i]) <= End(proofs[i])
        /\ End(ps[i]) = End(proofs[i]) \/ End(ps[i]) = now
        /\ ps[i].ended = proofs[i].ended \/ ps[i].ended = now
    <3> HIDE DEF ps
    <3>. QED
      BY <1>1, <1>2, <2>1, EndedProof
  <2>3. granted[i] <= now /\ granted[i] <= End(proofs[i]) /\ proofs[i].ended <= now
    BY <1>1 DEF SettlementInv, ProofsInTime
  <2>. QED
    BY <2>1, <2>2, <2>3
<1>12. ProofsInTime'
  <2> SUFFICES ASSUME NEW i \in 1..(n + 1)
               PROVE  /\ granted'[i] <= now
                      /\ granted'[i] <= End(proofs'[i])
                      /\ proofs'[i].ended <= now
    BY <1>5, <1>6 DEF ProofsInTime
  <2>1. CASE i = n + 1
    BY <2>1, <1>1, <1>3, <1>6, <1>8
  <2>2. CASE i \in 1..n
    <3>1. proofs'[i] = ps[i] /\ granted'[i] = granted[i]
      BY <2>2, <1>6, <1>8
    <3>2. /\ End(proofs[i]) \in Nat /\ End(ps[i]) \in Nat /\ granted[i] \in Nat
          /\ granted[i] <= now /\ granted[i] <= End(proofs[i]) /\ proofs[i].ended <= now
          /\ End(ps[i]) = End(proofs[i]) \/ End(ps[i]) = now
          /\ ps[i].ended = proofs[i].ended \/ ps[i].ended = now
      BY <2>2, <1>11
    <3> HIDE DEF n, ps
    <3>. QED
      BY <1>1, <3>1, <3>2
  <2>. QED
    BY <2>1, <2>2, <1>1
<1>13. FinalsInv'
  <2> SUFFICES ASSUME NEW i \in finals
               PROVE  NoneIsFinal(End(proofs'[i]), now) /\ receipt # i
    BY <1>5 DEF FinalsInv
  <2>1. i \in 1..n
    BY Basics
  <2>2. NoneIsFinal(End(proofs[i]), now) /\ receipt # i
    BY DEF SettlementInv, FinalsInv
  <2>. QED
    BY <2>1, <2>2, <1>1, <1>6, <1>11 DEF NoneIsFinal
<1>. QED
  BY <1>5, <1>10, <1>12, <1>13
     DEF SettlementInv, OutcomeInv, ScanInv, ReadInv, CallInv

(* A new call has read nothing yet, or has no reader.                       *)
LEMMA BeginSettleInv ==
    ASSUME SettlementInv, NEW by \in Reporters, NEW voids \in BOOLEAN, NEW reader \in BOOLEAN,
           BeginSettle(by, voids, reader)
    PROVE  SettlementInv'
<1>1. Ends(proofs) \in Seq(Nat) /\ Len(Ends(proofs)) = Len(proofs)
      /\ \A i \in 1..Len(proofs) : Ends(proofs)[i] = End(proofs[i])
  BY Basics, EndsOfProofs
<1>2. call' = [phase |-> IF reader THEN "scan" ELSE "report", by |-> by, voids |-> voids,
               reader |-> reader, asked |-> now, known |-> Ends(proofs),
               next |-> Len(proofs), readAt |-> 0, shows |-> FALSE, reads |-> 0]
  BY DEF BeginSettle, NoCall
<1>3. UNCHANGED <<now, session, acts, proofs, granted, receipt, outcome, finals, cuts>>
      /\ outcome = "pending"
  BY DEF BeginSettle
<1>4. call' \in Call
  BY <1>1, <1>2, Basics DEF Call, Phases
<1>5. TypeOK'
  BY <1>3, <1>4 DEF SettlementInv, TypeOK
<1>6. CallInv'
  BY <1>1, <1>2, <1>3, Basics DEF CallInv
<1>7. ScanInv'
  BY <1>2, <1>3, Basics DEF ScanInv
<1>8. ReadInv' /\ OutcomeInv'
  BY <1>2, <1>3 DEF ReadInv, OutcomeInv
<1>9. ProofsInTime' /\ FinalsInv'
  BY <1>3 DEF SettlementInv, ProofsInTime, FinalsInv
<1>. QED
  BY <1>5, <1>6, <1>7, <1>8, <1>9 DEF SettlementInv

(* A call that ends without a write leaves nothing behind but what it       *)
(* recorded in scan_finals.                                                 *)
LEMMA CallEnds ==
    ASSUME SettlementInv, call' = NoCall, cuts' \in 0..MaxCuts,
           UNCHANGED <<now, session, acts, proofs, granted, receipt, outcome, finals>>
    PROVE  SettlementInv'
<1>1. NoCall \in Call
  BY DEF NoCall, Call, Phases, Reporters
<1>2. TypeOK'
  BY <1>1 DEF SettlementInv, TypeOK
<1>3. ProofsInTime' /\ FinalsInv'
  BY DEF SettlementInv, ProofsInTime, FinalsInv
<1>4. (OutcomeInv /\ ScanInv /\ ReadInv /\ CallInv)'
  BY DEF SettlementInv, OutcomeInv, ScanInv, ReadInv, CallInv, NoCall
<1>. QED
  BY <1>2, <1>3, <1>4 DEF SettlementInv

(* A call or a reading that brings no answer keeps the invariant.           *)
LEMMA CallCutInv ==
    ASSUME SettlementInv, CallCut \/ RefuseRead
    PROVE  SettlementInv'
<1>1. cuts' \in 0..MaxCuts
  BY BoundsAssumption DEF SettlementInv, TypeOK, CallCut, RefuseRead
<1>2. call' = NoCall
      /\ UNCHANGED <<now, session, acts, proofs, granted, receipt, outcome, finals>>
  BY DEF CallCut, RefuseRead
<1>. QED
  BY <1>1, <1>2, CallEnds

(* A call moves on without a write: what it has read stays what it was.     *)
LEMMA ScanStepsInv ==
    ASSUME SettlementInv, SkipFinal \/ SendRead \/ ReadScopeLooks \/ ScanDone
    PROVE  SettlementInv'
<1>1. UNCHANGED <<now, session, acts, proofs, granted, receipt, outcome, finals, cuts>>
  BY DEF SkipFinal, SendRead, ReadScopeLooks, ScanDone
<1>2. ProofsInTime' /\ FinalsInv'
  BY <1>1 DEF SettlementInv, ProofsInTime, FinalsInv
<1>3. CASE SkipFinal
  <2>1. call' = [call EXCEPT !.next = @ - 1] /\ call.phase = "scan"
        /\ call.next \in finals /\ call.next \in 1..Len(proofs)
    BY <1>3, Basics DEF SkipFinal
  <2>n. call.next - 1 \in Nat
    BY <2>1, Basics
  <2>2. call' \in Call
    <3>1. call \in Call
      BY Basics
    <3>. QED
      BY <2>1, <2>n, <3>1 DEF Call
  <2>f. /\ call'.phase = "scan" /\ call'.next = call.next - 1 /\ call'.readAt = call.readAt
        /\ call'.shows = call.shows /\ call'.asked = call.asked
        /\ call'.known = call.known /\ call'.reader = call.reader
    BY <2>1, Basics DEF Call
  <2>3. receipt # call.next
    BY <2>1 DEF SettlementInv, FinalsInv
  <2>4. \A i \in DOMAIN proofs : i > call.next - 1 => NoneAt(i, call.asked)
    BY <2>1, <2>3, Basics DEF SettlementInv, ScanInv, NoneAt
  <2>5. ScanInv'
    BY <1>1, <2>1, <2>f, <2>2, <2>4, Basics DEF SettlementInv, ScanInv, NoneAt, Call
  <2>6. CallInv'
    BY <1>1, <2>1, <2>f, Basics DEF SettlementInv, CallInv, Call
  <2>7. TypeOK' /\ OutcomeInv' /\ ReadInv'
    BY <1>1, <2>1, <2>f, <2>2, Basics DEF SettlementInv, TypeOK, OutcomeInv, ReadInv, Call
  <2>. QED
    BY <1>2, <2>5, <2>6, <2>7 DEF SettlementInv
<1>4. CASE SendRead
  <2>1. call' = [call EXCEPT !.phase = "reading", !.readAt = now, !.reads = @ + 1]
        /\ call.phase = "scan" /\ call.next # 0
    BY <1>4 DEF SendRead
  <2>n. call.reads + 1 \in Nat /\ now \in Nat
    BY Basics
  <2>2. call' \in Call
    <3>1. call \in Call
      BY Basics
    <3>. QED
      BY <2>1, <2>n, <3>1 DEF Call, Phases
  <2>f. /\ call'.phase = "reading" /\ call'.next = call.next /\ call'.readAt = now
        /\ call'.shows = call.shows /\ call'.asked = call.asked
        /\ call'.known = call.known /\ call'.reader = call.reader
    BY <2>1, Basics DEF Call
  <2>3. ScanInv'
    BY <1>1, <2>1, <2>f, Basics DEF SettlementInv, ScanInv, NoneAt, Call
  <2>4. CallInv' /\ ReadInv'
    BY <1>1, <2>1, <2>f, Basics DEF SettlementInv, CallInv, ReadInv, Call
  <2>5. TypeOK' /\ OutcomeInv'
    BY <1>1, <2>1, <2>f, <2>2, Basics DEF SettlementInv, TypeOK, OutcomeInv, Call
  <2>. QED
    BY <1>2, <2>3, <2>4, <2>5 DEF SettlementInv
<1>5. CASE ReadScopeLooks
  <2>1. call' = [call EXCEPT !.phase = "answered", !.shows = (receipt = call.next)]
        /\ call.phase = "reading"
    BY <1>5 DEF ReadScopeLooks
  <2>2. call' \in Call
    BY <2>1, Basics DEF Call, Phases
  <2>f. /\ call'.phase = "answered" /\ call'.next = call.next /\ call'.readAt = call.readAt
        /\ call'.shows = (receipt = call.next) /\ call'.asked = call.asked
        /\ call'.known = call.known /\ call'.reader = call.reader
    BY <2>1, Basics DEF Call
  <2>3. ScanInv'
    BY <1>1, <2>1, <2>f, Basics DEF SettlementInv, ScanInv, NoneAt, Call
  <2>4. CallInv' /\ ReadInv'
    BY <1>1, <2>1, <2>f, Basics DEF SettlementInv, CallInv, ReadInv, NoneAt, Call
  <2>5. TypeOK' /\ OutcomeInv'
    BY <1>1, <2>1, <2>f, <2>2, Basics DEF SettlementInv, TypeOK, OutcomeInv, Call
  <2>. QED
    BY <1>2, <2>3, <2>4, <2>5 DEF SettlementInv
<1>6. CASE ScanDone
  <2>1. call' = [call EXCEPT !.phase = "report"] /\ call.phase = "scan" /\ call.next = 0
    BY <1>6 DEF ScanDone
  <2>2. call' \in Call
    BY <2>1, Basics DEF Call, Phases
  <2>f. /\ call'.phase = "report" /\ call'.next = call.next /\ call'.readAt = call.readAt
        /\ call'.shows = call.shows /\ call'.asked = call.asked
        /\ call'.known = call.known /\ call'.reader = call.reader
    BY <2>1, Basics DEF Call
  <2>3. ScanInv'
    BY <1>1, <2>1, <2>f, Basics DEF SettlementInv, ScanInv, NoneAt, Call
  <2>4. CallInv' /\ ReadInv'
    BY <1>1, <2>1, <2>f, Basics DEF SettlementInv, CallInv, ReadInv, Call
  <2>5. TypeOK' /\ OutcomeInv'
    BY <1>1, <2>1, <2>f, <2>2, Basics DEF SettlementInv, TypeOK, OutcomeInv, Call
  <2>. QED
    BY <1>2, <2>3, <2>4, <2>5 DEF SettlementInv
<1>. QED
  BY <1>3, <1>4, <1>5, <1>6

(* A "none" is recorded as final only if its read was late enough for no    *)
(* commit to follow it.                                                     *)
LEMMA RecordNoneInv ==
    ASSUME SettlementInv, RecordNone
    PROVE  SettlementInv'
<1> USE TimingAssumption
<1>1. call.phase = "answered" /\ ~call.shows
      /\ call' = [call EXCEPT !.phase = "scan", !.next = @ - 1]
      /\ UNCHANGED <<now, session, acts, proofs, granted, receipt, outcome, cuts>>
  BY DEF RecordNone
<1>2. call \in Call /\ call.next \in 1..Len(proofs) /\ call.next - 1 \in Nat
  BY <1>1, Basics, SMTT(20) DEF SettlementInv, ReadInv, CallInv
<1>3. call' \in Call
  BY <1>1, <1>2 DEF Call, Phases
<1>4. /\ call'.phase = "scan" /\ call'.next = call.next - 1
      /\ call'.asked = call.asked /\ call'.known = call.known /\ call'.reader = call.reader
  BY <1>1, <1>2 DEF Call
<1>5. /\ NoneAt(call.next, call.readAt) /\ call.asked <= call.readAt /\ call.readAt <= now
      /\ End(proofs[call.next]) <= call.known[call.next]
  BY <1>1, <1>2, Basics DEF SettlementInv, ReadInv, CallInv
<1>6. NoneAt(call.next, call.asked)
  BY <1>2, <1>5, Basics DEF NoneAt, NoneIsFinal
<1>7. finals' = (IF NoneIsFinal(call.known[call.next], call.readAt)
                 THEN finals \cup {call.next} ELSE finals)
  BY DEF RecordNone
<1>8. TypeOK'
  BY <1>1, <1>2, <1>3, <1>7 DEF SettlementInv, TypeOK
<1>9. FinalsInv'
  <2>1. ASSUME NoneIsFinal(call.known[call.next], call.readAt)
        PROVE  NoneIsFinal(End(proofs[call.next]), now) /\ receipt # call.next
    <3>1. /\ End(proofs[call.next]) \in Nat /\ call.known[call.next] \in Nat
          /\ call.readAt \in Nat /\ now \in Nat
      BY <1>1, <1>2, Basics
    <3>2. NoneIsFinal(End(proofs[call.next]), call.readAt)
          /\ NoneIsFinal(End(proofs[call.next]), now)
      BY <1>5, <2>1, <3>1 DEF NoneIsFinal
    <3>. QED
      BY <1>5, <3>2 DEF NoneAt
  <2>. QED
    BY <1>1, <1>7, <2>1 DEF SettlementInv, FinalsInv
<1>10. ScanInv'
  <2> SUFFICES ASSUME NEW i \in DOMAIN proofs, i > call.next - 1
               PROVE  NoneAt(i, call.asked)
    BY <1>1, <1>4 DEF SettlementInv, ScanInv, NoneAt
  <2>1. CASE i = call.next
    BY <2>1, <1>6
  <2>2. CASE i > call.next
    BY <2>2, <1>1 DEF SettlementInv, ScanInv
  <2>. QED
    BY <2>1, <2>2, <1>2, Basics
<1>11. CallInv' /\ ReadInv' /\ OutcomeInv' /\ ProofsInTime'
  BY <1>1, <1>2, <1>4, Basics
     DEF SettlementInv, CallInv, ReadInv, OutcomeInv, ProofsInTime
<1>. QED
  BY <1>8, <1>9, <1>10, <1>11 DEF SettlementInv

(* A void ends the proofs, and the call reads their ends again.             *)
LEMMA TakeReportInv ==
    ASSUME SettlementInv, TakeReport
    PROVE  SettlementInv'
<1> DEFINE ps == EndAll(proofs, now)
<1>1. call.phase = "report" /\ call \in Call
      /\ UNCHANGED <<now, session, acts, granted, receipt, outcome, finals, cuts>>
  BY Basics DEF TakeReport
<1>2. CASE ~Voids
  <2>1. proofs' = proofs /\ call' = [call EXCEPT !.phase = "decide", !.known = call.known]
    BY <1>2 DEF TakeReport
  <2>2. call' \in Call
    BY <1>1, <2>1 DEF Call, Phases
  <2>3. /\ call'.phase = "decide" /\ call'.next = call.next
        /\ call'.asked = call.asked /\ call'.known = call.known /\ call'.reader = call.reader
    BY <1>1, <2>1 DEF Call
  <2>4. TypeOK' /\ ProofsInTime' /\ FinalsInv'
    BY <1>1, <2>1, <2>2 DEF SettlementInv, TypeOK, ProofsInTime, FinalsInv
  <2>5. ScanInv' /\ ReadInv' /\ CallInv' /\ OutcomeInv'
    BY <1>1, <2>1, <2>3 DEF SettlementInv, ScanInv, ReadInv, CallInv, OutcomeInv, NoneAt
  <2>. QED
    BY <2>4, <2>5 DEF SettlementInv
<1>3. CASE Voids
  <2>1. proofs' = ps /\ call' = [call EXCEPT !.phase = "decide", !.known = Ends(ps)]
    BY <1>3 DEF TakeReport
  <2>2. ps \in Seq(Proof) /\ Len(ps) = Len(proofs)
        /\ \A i \in 1..Len(proofs) : ps[i] = Ended(proofs[i], now)
    BY Basics, EndAllProofs
  <2>3. Ends(ps) \in Seq(Nat) /\ Len(Ends(ps)) = Len(proofs)
        /\ \A i \in 1..Len(proofs) : Ends(ps)[i] = End(ps[i])
    BY <2>2, EndsOfProofs
  <2> HIDE DEF ps
  <2>4. call' \in Call
    BY <1>1, <2>1, <2>3 DEF Call, Phases
  <2>5. /\ call'.phase = "decide" /\ call'.next = call.next
        /\ call'.asked = call.asked /\ call'.known = Ends(ps) /\ call'.reader = call.reader
    BY <1>1, <2>1 DEF Call
  <2>6. /\ ProofsInTime' /\ FinalsInv'
        /\ \A i \in DOMAIN proofs : NoneIsFinal(End(proofs[i]), now)
                                      => NoneIsFinal(End(proofs'[i]), now)
        /\ \A i \in DOMAIN proofs, t \in 0..now : NoneAt(i, t) => NoneAt(i, t)'
    BY <1>1, <2>1, <2>2, EndingProofs
  <2>7. TypeOK'
    BY <1>1, <2>1, <2>2, <2>4 DEF SettlementInv, TypeOK
  <2>8. call.asked \in 0..now /\ call.next <= Len(proofs) /\ DOMAIN proofs' = 1..Len(proofs)
    BY <1>1, <2>1, <2>2, Basics DEF SettlementInv, CallInv
  <2>9. ScanInv'
    BY <1>1, <2>5, <2>6, <2>8, Basics DEF SettlementInv, ScanInv
  <2>10. \A i \in 1..Len(proofs) : End(ps[i]) \in Nat
    BY <2>2, Basics, EndedProof
  <2>11. CallInv'
    BY <1>1, <2>1, <2>2, <2>3, <2>5, <2>8, <2>10 DEF CallInv
  <2>12. ReadInv' /\ OutcomeInv'
    BY <1>1, <2>5 DEF SettlementInv, ReadInv, OutcomeInv
  <2>. QED
    BY <2>6, <2>7, <2>9, <2>11, <2>12 DEF SettlementInv
<1>. QED
  BY <1>2, <1>3

(* The reconciler's decision keeps the invariant: what it decided follows   *)
(* from what it read.                                                       *)
LEMMA DecideInv ==
    ASSUME SettlementInv, Decide
    PROVE  SettlementInv'
<1>1. call.phase = "decide" /\ call \in Call
      /\ UNCHANGED <<now, session, acts, proofs, granted, receipt, outcome, finals, cuts>>
  BY Basics DEF Decide
<1>2. CASE ~(call.reader /\ AllFinal(call.known, call.asked))
  <2>1. call' = NoCall
    BY <1>2 DEF Decide
  <2>2. cuts' \in 0..MaxCuts
    BY <1>1 DEF SettlementInv, TypeOK
  <2>. QED
    BY <1>1, <2>1, <2>2, CallEnds
<1>3. CASE call.reader /\ AllFinal(call.known, call.asked)
  <2>1. call' = [call EXCEPT !.phase = "settle"]
    BY <1>3 DEF Decide
  <2>2. call' \in Call
    BY <1>1, <2>1 DEF Call, Phases
  <2>3. /\ call'.phase = "settle" /\ call'.next = call.next
        /\ call'.asked = call.asked /\ call'.known = call.known /\ call'.reader = call.reader
    BY <1>1, <2>1 DEF Call
  <2>4. TypeOK' /\ ProofsInTime' /\ FinalsInv'
    BY <1>1, <2>2 DEF SettlementInv, TypeOK, ProofsInTime, FinalsInv
  <2>5. ScanInv' /\ ReadInv' /\ OutcomeInv'
    BY <1>1, <2>3 DEF SettlementInv, ScanInv, ReadInv, OutcomeInv, NoneAt
  <2>6. CallInv'
    BY <1>1, <1>3, <2>3 DEF SettlementInv, CallInv, AllFinal
  <2>. QED
    BY <2>4, <2>5, <2>6 DEF SettlementInv
<1>. QED
  BY <1>2, <1>3

(* In the settle phase every proof was dead when the call asked, and each   *)
(* was then read without a receipt: there is none, and there never will be. *)
LEMMA SettlesTruly ==
    ASSUME SettlementInv, call.phase = "settle"
    PROVE  /\ receipt = 0
           /\ \A i \in DOMAIN proofs : NoneIsFinal(End(proofs[i]), now)
<1> USE TimingAssumption
<1>1. /\ call.asked <= now /\ call.reader /\ AllFinal(call.known, call.asked)
      /\ Len(call.known) = Len(proofs)
      /\ \A i \in DOMAIN proofs : End(proofs[i]) <= call.known[i]
  BY DEF SettlementInv, CallInv
<1>2. DOMAIN call.known = DOMAIN proofs
  BY <1>1, Basics
<1>3. ASSUME NEW i \in DOMAIN proofs
      PROVE  NoneIsFinal(End(proofs[i]), call.asked) /\ NoneIsFinal(End(proofs[i]), now)
  <2>1. call.known[i] \in Nat /\ End(proofs[i]) \in Nat
    BY Basics
  <2>2. call.asked >= call.known[i] + NoneFinalAfter
    BY <1>1, <1>2 DEF AllFinal, NoneIsFinal
  <2>3. End(proofs[i]) <= call.known[i] /\ call.asked <= now
        /\ now \in Nat /\ call.asked \in Nat
    BY <1>1, Basics
  <2>. QED
    BY <2>1, <2>2, <2>3 DEF NoneIsFinal
<1>4. \A i \in DOMAIN proofs : receipt # i
  BY <1>1, <1>3 DEF SettlementInv, ScanInv, NoneAt
<1>. QED
  BY <1>3, <1>4, Basics

(* Closing the step either way keeps the invariant: the outcome written is  *)
(* the one aimem's record shows.                                            *)
LEMMA SettlesInv ==
    ASSUME SettlementInv, SettleCommitted \/ SettleNotCommitted
    PROVE  SettlementInv'
<1>1. proofs' = EndAll(proofs, now) /\ call' = NoCall
      /\ UNCHANGED <<now, session, acts, granted, receipt, finals, cuts>>
  BY DEF SettleCommitted, SettleNotCommitted
<1>2. /\ proofs' \in Seq(Proof) /\ Len(proofs') = Len(proofs)
      /\ \A i \in 1..Len(proofs) : proofs'[i] = Ended(proofs[i], now)
      /\ DOMAIN proofs' = DOMAIN proofs
  BY <1>1, Basics, EndAllProofs
<1>3. /\ ProofsInTime' /\ FinalsInv'
      /\ \A i \in DOMAIN proofs : NoneIsFinal(End(proofs[i]), now)
                                    => NoneIsFinal(End(proofs'[i]), now)
  BY <1>1, <1>2, EndingProofs
<1>4. NoCall \in Call
  BY DEF NoCall, Call, Phases, Reporters
<1>5. outcome' \in {"committed", "not_committed"}
  BY DEF SettleCommitted, SettleNotCommitted
<1>6. TypeOK'
  BY <1>1, <1>2, <1>4, <1>5 DEF SettlementInv, TypeOK
<1>7. ScanInv' /\ ReadInv' /\ CallInv'
  BY <1>1 DEF ScanInv, ReadInv, CallInv, NoCall
<1>8. OutcomeInv'
  <2>1. CASE SettleCommitted
    <3>1. receipt # 0
      BY <2>1 DEF SettleCommitted, SettlementInv, ReadInv
    <3>. QED
      BY <1>1, <2>1, <3>1 DEF SettleCommitted, OutcomeInv, NoCall
  <2>2. CASE SettleNotCommitted
    <3>1. receipt = 0 /\ \A i \in DOMAIN proofs : NoneIsFinal(End(proofs[i]), now)
      BY <2>2, SettlesTruly DEF SettleNotCommitted
    <3>. QED
      BY <1>1, <1>2, <1>3, <2>2, <3>1 DEF SettleNotCommitted, OutcomeInv, NoCall
  <2>. QED
    BY <2>1, <2>2
<1>. QED
  BY <1>3, <1>6, <1>7, <1>8 DEF SettlementInv

(***************************************************************************)
(* Every reachable state satisfies the invariant: one lemma per action.    *)
(***************************************************************************)
THEOREM Invariance == Spec => []SettlementInv
<1>1. Init => SettlementInv
  BY InitInv
<1>2. SettlementInv /\ [Next]_vars => SettlementInv'
  <2> SUFFICES ASSUME SettlementInv, [Next]_vars PROVE SettlementInv'
    OBVIOUS
  <2>1. CASE ReplaceProof
    BY <2>1, ReplaceProofInv
  <2>2. ASSUME NEW active \in BOOLEAN, MoveSession(active) PROVE SettlementInv'
    BY <2>2, MoveSessionInv
  <2>3. CASE StartSession \/ RuleChanges
    BY <2>3, FactChangesInv
  <2>4. ASSUME NEW i \in DOMAIN proofs, FactGranted(i) PROVE SettlementInv'
    BY <2>4, FactGrantedInv
  <2>5. ASSUME NEW i \in DOMAIN proofs, Commits(i) PROVE SettlementInv'
    BY <2>5, CommitsInv
  <2>6. CASE Tick
    BY <2>6, TickInv
  <2>7. ASSUME NEW by \in Reporters, NEW voids \in BOOLEAN, NEW reader \in BOOLEAN,
               BeginSettle(by, voids, reader)
        PROVE  SettlementInv'
    BY <2>7, BeginSettleInv
  <2>8. CASE SkipFinal \/ SendRead \/ ReadScopeLooks \/ ScanDone
    BY <2>8, ScanStepsInv
  <2>9. CASE RecordNone
    BY <2>9, RecordNoneInv
  <2>10. CASE TakeReport
    BY <2>10, TakeReportInv
  <2>11. CASE Decide
    BY <2>11, DecideInv
  <2>12. CASE SettleCommitted \/ SettleNotCommitted
    BY <2>12, SettlesInv
  <2>13. CASE CallCut \/ RefuseRead
    BY <2>13, CallCutInv
  <2>14. CASE UNCHANGED vars
    BY <2>14 DEF vars, SettlementInv, TypeOK, ProofsInTime, FinalsInv, OutcomeInv,
                 ScanInv, ReadInv, CallInv, NoneAt, AllFinal
  <2>. QED
    BY <2>1, <2>2, <2>3, <2>4, <2>5, <2>6, <2>7, <2>8, <2>9, <2>10, <2>11, <2>12,
       <2>13, <2>14 DEF Next, CallSteps
<1>. QED
  BY <1>1, <1>2, PTL DEF Spec

(* A step recorded as not committed never commits, a recorded commit has    *)
(* its receipt (settleStep under none_finality).                            *)
THEOREM TrueOutcome == Spec => []OutcomeIsTrue
<1>1. SettlementInv => OutcomeIsTrue
  BY DEF SettlementInv, OutcomeInv, OutcomeIsTrue
<1>. QED
  BY <1>1, Invariance, PTL

(* A proof the scan need not read again never carries a commit              *)
(* (markScanFinal).                                                         *)
THEOREM FinalNone == Spec => []FinalNoneIsFinal
<1>1. SettlementInv => FinalNoneIsFinal
  BY DEF SettlementInv, FinalsInv, FinalNoneIsFinal
<1>. QED
  BY <1>1, Invariance, PTL

(* The settlement implements the promise, step by step: aimem's commit is   *)
(* the promise's, the two settling writes are its Settle, the rest stutter. *)
THEOREM Refinement == Spec => Promise!Spec
<1>1. Init => Promise!Init
  BY DEF Init, Promise!Init
<1>2. SettlementInv /\ [Next]_vars => [Promise!Next]_(Promise!vars)
  <2> SUFFICES ASSUME SettlementInv, [Next]_vars PROVE [Promise!Next]_(Promise!vars)
    OBVIOUS
  <2> USE DEF Promise!Next, Promise!vars, Promise!Commit, Promise!Settle
  <2>1. ASSUME NEW i \in DOMAIN proofs, Commits(i)
        PROVE  Promise!Commit
    <3>1. i # 0 /\ receipt = 0 /\ receipt' = i /\ UNCHANGED outcome
      BY <2>1, Basics DEF Commits
    <3>2. outcome = "pending"
      <4>1. outcome # "committed"
        BY <3>1 DEF SettlementInv, OutcomeInv
      <4>2. outcome # "not_committed"
        <5>1. granted[i] <= End(proofs[i]) /\ now <= granted[i] + CommitLag
          BY <2>1 DEF SettlementInv, ProofsInTime, Commits
        <5>2. ~NoneIsFinal(End(proofs[i]), now)
          BY <5>1, Basics, TimingAssumption DEF NoneIsFinal
        <5>. QED
          BY <5>2 DEF SettlementInv, OutcomeInv
      <4>. QED
        BY <4>1, <4>2 DEF SettlementInv, TypeOK
    <3>. QED
      BY <3>1, <3>2
  <2>2. CASE SettleCommitted
    <3>1. receipt # 0 /\ outcome = "pending"
      BY <2>2, Basics DEF SettleCommitted, SettlementInv, ReadInv, OutcomeInv
    <3>. QED
      BY <2>2, <3>1 DEF SettleCommitted
  <2>3. CASE SettleNotCommitted
    <3>1. receipt = 0
      BY <2>3, SettlesTruly DEF SettleNotCommitted
    <3>2. outcome = "pending"
      BY <2>3 DEF SettleNotCommitted, SettlementInv, OutcomeInv
    <3>. QED
      BY <2>3, <3>1, <3>2 DEF SettleNotCommitted
  <2>4. CASE UNCHANGED <<outcome, receipt>>
    BY <2>4
  <2>5. ~SettleCommitted /\ ~SettleNotCommitted /\ ~(\E i \in DOMAIN proofs : Commits(i))
          => UNCHANGED <<outcome, receipt>>
    BY DEF Next, vars, CallSteps, ReplaceProof, MoveSession, StartSession, RuleChanges,
           FactGranted, Tick, BeginSettle, SkipFinal, SendRead, RefuseRead, ReadScopeLooks,
           RecordNone, ScanDone, TakeReport, Decide, CallCut
  <2>. QED
    BY <2>1, <2>2, <2>3, <2>4, <2>5
<1>. QED
  BY <1>1, <1>2, Invariance, PTL DEF Spec, Promise!Spec

-----------------------------------------------------------------------------
(* Who may end a proof, and which of them lives *)

(* Ending all the proofs of a step (endProofs) leaves none of them living.   *)
LEMMA EndAllLeavesNone ==
    ASSUME SettlementInv
    PROVE  \A i \in 1..Len(proofs) : EndAll(proofs, now)[i].ended # 0
<1>1. now # 0 /\ now \in Nat /\ proofs \in Seq(Proof)
  BY DEF SettlementInv, TypeOK
<1>2. SUFFICES ASSUME NEW i \in 1..Len(proofs) PROVE Ended(proofs[i], now).ended # 0
  BY <1>1, EndAllProofs
<1>3. proofs[i] \in Proof
  BY Basics
<1>. QED
  BY <1>1, <1>3 DEF Ended, Proof

(* No step but a replay of the begin issues a proof, and none brings an      *)
(* ended or expired proof back to life.                                     *)
LEMMA NoneRevives ==
    ASSUME SettlementInv, [Next]_vars, ~ReplaceProof
    PROVE  /\ DOMAIN proofs' = DOMAIN proofs
           /\ \A i \in DOMAIN proofs : Live(i)' => Live(i)
<1>1. TypeOK /\ now \in Nat /\ now # 0 /\ proofs \in Seq(Proof)
      /\ DOMAIN proofs = 1..Len(proofs)
  BY Basics DEF SettlementInv, TypeOK
<1>2. \A i \in DOMAIN proofs : proofs[i] \in Proof
  BY Basics
<1>3. CASE UNCHANGED proofs /\ now' \in {now, now + 1}
  BY <1>1, <1>2, <1>3 DEF Live, Proof
<1>4. ASSUME proofs' = EndAll(proofs, now), now' = now
      PROVE  /\ DOMAIN proofs' = DOMAIN proofs
             /\ \A i \in DOMAIN proofs : Live(i)' => Live(i)
  <2>1. DOMAIN proofs' = DOMAIN proofs
    BY <1>1, <1>4 DEF EndAll
  <2>2. \A i \in DOMAIN proofs : proofs'[i].ended # 0
    BY <1>1, <1>4, EndAllLeavesNone
  <2>. QED
    BY <2>1, <2>2 DEF Live
<1>5. ASSUME NEW active \in BOOLEAN, MoveSession(active)
      PROVE  /\ DOMAIN proofs' = DOMAIN proofs
             /\ \A i \in DOMAIN proofs : Live(i)' => Live(i)
  <2>1. proofs' = EndMoved(proofs, session.gen + 1, now) /\ now' = now
    BY <1>5 DEF MoveSession
  <2>2. session.gen + 1 \in Nat
    BY <1>1 DEF TypeOK
  <2>3. /\ DOMAIN proofs' = DOMAIN proofs
        /\ \A i \in DOMAIN proofs : proofs'[i] \in {proofs[i], Ended(proofs[i], now)}
    BY <1>1, <2>1, <2>2, EndMovedProofs DEF EndMoved
  <2>4. \A i \in DOMAIN proofs : Ended(proofs[i], now).ended # 0
    BY <1>1, <1>2 DEF Ended, Proof
  <2>. QED
    BY <2>1, <2>3, <2>4 DEF Live
<1>6. CASE TakeReport
  BY <1>3, <1>4, <1>6 DEF TakeReport
<1>7. CASE SettleCommitted \/ SettleNotCommitted
  BY <1>4, <1>7 DEF SettleCommitted, SettleNotCommitted
<1>8. CASE StartSession \/ RuleChanges \/ Tick \/ CallCut \/ UNCHANGED vars
           \/ \E i \in DOMAIN proofs : FactGranted(i) \/ Commits(i)
  BY <1>3, <1>8 DEF StartSession, RuleChanges, Tick, CallCut, FactGranted, Commits, vars
<1>9. CASE \E by \in Reporters, voids, reader \in BOOLEAN : BeginSettle(by, voids, reader)
  BY <1>3, <1>9 DEF BeginSettle
<1>10. CASE SkipFinal \/ SendRead \/ RefuseRead \/ ReadScopeLooks \/ RecordNone \/ ScanDone
            \/ Decide
  BY <1>3, <1>10 DEF SkipFinal, SendRead, RefuseRead, ReadScopeLooks, RecordNone, ScanDone,
                     Decide
<1>. QED
  BY <1>5, <1>6, <1>7, <1>8, <1>9, <1>10 DEF Next, CallSteps

(* A replayed begin leaves its own proof as the only one that may live.     *)
LEMMA ReplayLeavesItsOwn ==
    ASSUME SettlementInv, ReplaceProof
    PROVE  \A i \in DOMAIN proofs' : Live(i)' => i = Len(proofs) + 1
<1>. DEFINE ps == EndAll(proofs, now)
<1>1. /\ ps \in Seq(Proof) /\ Len(ps) = Len(proofs) /\ Len(proofs) \in Nat
      /\ \A i \in 1..Len(proofs) : ps[i].ended # 0
  BY Basics, EndAllProofs, EndAllLeavesNone
<1>2. proofs' = Append(ps, NewProof(session.gen, now))
  BY DEF ReplaceProof
<1>. HIDE DEF ps
<1>3. /\ DOMAIN proofs' = 1..(Len(proofs) + 1)
      /\ \A i \in 1..Len(proofs) : proofs'[i] = ps[i]
  BY <1>1, <1>2
<1>. QED
  BY <1>1, <1>3 DEF Live

(* A replay leaves no second usable proof of the step, whatever ends,       *)
(* expiries and session moves come between (replaceProof, endProofs).       *)
THEOREM OneProofLives == Spec => []OneLiveProof
<1>1. Init => OneLiveProof
  BY DEF Init, OneLiveProof
<1>2. SettlementInv /\ OneLiveProof /\ [Next]_vars => OneLiveProof'
  <2> SUFFICES ASSUME SettlementInv, OneLiveProof, [Next]_vars PROVE OneLiveProof'
    OBVIOUS
  <2>1. CASE ReplaceProof
    BY <2>1, ReplayLeavesItsOwn DEF OneLiveProof
  <2>2. CASE ~ReplaceProof
    BY <2>2, NoneRevives DEF OneLiveProof
  <2>. QED
    BY <2>1, <2>2
<1>. QED
  BY <1>1, <1>2, Invariance, PTL DEF Spec

(* Whatever the reconciler's call does, it ends a proof that lives only with *)
(* the receipt it read: what it settles as not committed has no live proof, *)
(* and its report voids nothing (ReconcileStep).                            *)
THEOREM ReconcilerVoidsNothing == Spec => ReconcilerCutsNobodyOff
<1>. DEFINE CutsNobodyOff ==
              call.by = "reconciler" /\ call' # call =>
                \A i \in DOMAIN proofs :
                    Live(i) /\ proofs'[i].ended # 0 => outcome' = "committed"
<1>1. SettlementInv /\ [Next]_vars => [CutsNobodyOff]_vars
  <2> SUFFICES ASSUME SettlementInv, Next, call.by = "reconciler", call' # call,
                      NEW i \in DOMAIN proofs, Live(i), proofs'[i].ended # 0
               PROVE  outcome' = "committed"
    OBVIOUS
  <2>1. proofs' # proofs
    BY DEF Live
  <2>2. CASE SettleNotCommitted
    <3>1. NoneIsFinal(End(proofs[i]), now)
      BY <2>2, SettlesTruly DEF SettleNotCommitted
    <3>2. proofs[i] \in Proof /\ now \in Nat
      BY Basics
    <3>. QED
      BY <3>1, <3>2, TimingAssumption DEF Live, NoneIsFinal, End, Proof
  <2>3. CASE SettleCommitted
    BY <2>3 DEF SettleCommitted
  <2>4. ~TakeReport
    BY <2>1 DEF TakeReport, Voids
  <2>5. CASE ReplaceProof \/ StartSession \/ RuleChanges \/ Tick
             \/ (\E active \in BOOLEAN : MoveSession(active))
             \/ \E j \in DOMAIN proofs : FactGranted(j) \/ Commits(j)
    BY <2>5 DEF ReplaceProof, StartSession, RuleChanges, Tick, MoveSession, FactGranted,
                Commits
  <2>6. CASE CallCut
             \/ \E by \in Reporters, voids, reader \in BOOLEAN : BeginSettle(by, voids, reader)
    BY <2>1, <2>6 DEF CallCut, BeginSettle
  <2>7. CASE SkipFinal \/ SendRead \/ RefuseRead \/ ReadScopeLooks \/ RecordNone \/ ScanDone
             \/ Decide
    BY <2>1, <2>7 DEF SkipFinal, SendRead, RefuseRead, ReadScopeLooks, RecordNone, ScanDone,
                      Decide
  <2>. QED
    BY <2>2, <2>3, <2>4, <2>5, <2>6, <2>7 DEF Next, CallSteps
<1>. QED
  BY <1>1, Invariance, PTL DEF Spec, ReconcilerCutsNobodyOff
=============================================================================
