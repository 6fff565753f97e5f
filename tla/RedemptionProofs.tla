-------------------------- MODULE RedemptionProofs --------------------------
(***************************************************************************)
(* Proofs about Redemption, for every number of homes, attempts, retries    *)
(* and faults: an invitation is redeemed by one completion and links only   *)
(* its home, no home that redeemed it is refused, and no attempt is spent   *)
(* while an earlier challenge of the home is of use.                        *)
(***************************************************************************)
EXTENDS Redemption, SequenceTheorems, TLAPS

-----------------------------------------------------------------------------
(* Keys *)

(* A home's own keys, told apart by purpose and by home.                    *)
LEMMA KeysApart ==
    /\ NoKey \notin Key
    /\ \A h \in Homes : OwnKeys(h, "begin") \subseteq Key /\ OwnKeys(h, "complete") \subseteq Key
    /\ \A h \in Homes : \A k \in OwnKeys(h, "begin") : k[1] = h /\ k[2] = "begin"
    /\ \A h \in Homes : \A k \in OwnKeys(h, "complete") : k[1] = h /\ k[2] = "complete"
<1>1. NoKey \notin Key
  BY DEF Key, NoKey
<1>. QED
  BY <1>1 DEF Key, OwnKeys

(* A home's key is a key, and none is the missing one.                      *)
LEMMA KeyKinds ==
    ASSUME NEW h \in Homes, NEW k, k \in OwnKeys(h, "begin") \/ k \in OwnKeys(h, "complete")
    PROVE  k \in Key /\ k # NoKey
<1>1. k \in Key
  BY DEF OwnKeys, Key
<1>. QED
  BY <1>1, KeysApart

(* There are receipts, and no call has to carry one.                        *)
LEMMA Bounds == MaxReceipts \in Nat /\ 0 \in 0..MaxReceipts /\ MaxAttempts \in Nat
<1>1. MaxReceipts \in Nat /\ MaxAttempts \in Nat
  BY RedemptionAssumption
<1>. QED
  BY <1>1

(* A new key is the home's, for its purpose, and in use nowhere.            *)
LEMMA NewKeyIsNew ==
    ASSUME NEW h \in Homes, NEW purpose, KeyLeft(h, purpose)
    PROVE  NewKey(h, purpose) \in OwnKeys(h, purpose) /\ NewKey(h, purpose) \notin KeysInUse(h)
<1>. DEFINE n == CHOOSE n \in 0..MaxKeys : <<h, purpose, n>> \notin KeysInUse(h)
<1>1. \E m \in 0..MaxKeys : <<h, purpose, m>> \notin KeysInUse(h)
  BY DEF KeyLeft, OwnKeys
<1>2. n \in 0..MaxKeys /\ <<h, purpose, n>> \notin KeysInUse(h)
  BY <1>1
<1>3. NewKey(h, purpose) = <<h, purpose, n>>
  BY DEF NewKey
<1>. QED
  BY <1>2, <1>3 DEF OwnKeys

(* So is a new receipt.                                                     *)
LEMMA FreshReceiptIsFresh ==
    ASSUME 1..MaxReceipts \ ReceiptsInUse # {}
    PROVE  FreshReceipt \in 1..MaxReceipts /\ FreshReceipt \notin ReceiptsInUse
BY DEF FreshReceipt

-----------------------------------------------------------------------------
(* What is known of a call *)

Answers == {"", "ok", "proof_invalid"} \cup Retryable \cup Refusals

(* The types of a home's run, of what it has saved and of a call.           *)
LEMMA Types ==
    ASSUME TypeOK
    PROVE  /\ \A h \in Homes : job[h] \in Job /\ job[h].st \in JoinState /\ disk[h] \in JoinState
                               /\ job[h].answer \in Answers
           /\ \A c \in calls : c \in Call /\ c.home \in Homes /\ c.key \in Key
           /\ \A k \in DOMAIN receipts : k \in Key /\ receipts[k] \in DOMAIN challenges
           /\ \A ch \in DOMAIN challenges : challenges[ch].home \in Homes /\ ch # 0
<1>1. ASSUME NEW ch \in DOMAIN challenges PROVE challenges[ch].home \in Homes /\ ch # 0
  <2>1. DOMAIN challenges = 1..Len(challenges) /\ Len(challenges) \in Nat
    BY DEF TypeOK
  <2>2. challenges[ch] \in [home : Homes, state : {"pending", "gone", "consumed"}]
    BY <2>1, ElementOfSeq DEF TypeOK
  <2>. QED
    BY <2>1, <2>2
<1>. QED
  BY <1>1 DEF TypeOK, Job, Call, Answers

(* The sequence of one element.                                             *)
LEMMA OnlyOne ==
    ASSUME NEW S, NEW x \in S
    PROVE  /\ Append(<<>>, x) = <<x>> /\ <<x>> # <<>> /\ Len(<<x>>) <= 1
           /\ \A i \in DOMAIN <<x>> : <<x>>[i] = x
<1>1. <<x>> \in Seq(S) /\ Len(<<x>>) = 1 /\ <<x>>[1] = x
  OBVIOUS
<1>2. DOMAIN <<x>> = 1..1
  BY <1>1, LenProperties
<1>3. /\ Append(<<>>, x) \in Seq(S) /\ Append(<<>>, x) # <<>> /\ Len(Append(<<>>, x)) = Len(<<>>) + 1
      /\ Append(<<>>, x)[Len(<<>>) + 1] = x /\ Len(<<>>) = 0
  BY EmptySeq, AppendProperties
<1>4. Len(Append(<<>>, x)) = 1 /\ Append(<<>>, x)[1] = x
  BY <1>3
<1>5. Append(<<>>, x) = <<x>>
  BY <1>1, <1>3, <1>4, SeqEqual
<1>. QED
  BY <1>1, <1>2, <1>3, <1>5

(* A function from 1 on is a sequence.                                      *)
LEMMA IsSequence ==
    ASSUME NEW S, NEW n \in Nat, NEW f \in [1..n -> S]
    PROVE  f \in Seq(S) /\ Len(f) = n
<1>1. f \in Seq(S)
  BY SeqDef
<1>. QED
  BY <1>1

(* The challenges are numbered as they were issued.                         *)
LEMMA Issued ==
    ASSUME TypeOK
    PROVE  /\ DOMAIN challenges = 1..Len(challenges) /\ Len(challenges) \in Nat
           /\ \A ch \in DOMAIN challenges : ch \in Nat
           /\ \A ch \in DOMAIN challenges :
                 challenges[ch] \in [home : Homes, state : {"pending", "gone", "consumed"}]
<1>1. DOMAIN challenges = 1..Len(challenges) /\ Len(challenges) \in Nat
  BY DEF TypeOK
<1>2. ASSUME NEW ch \in DOMAIN challenges
      PROVE  challenges[ch] \in [home : Homes, state : {"pending", "gone", "consumed"}]
  BY <1>1, ElementOfSeq DEF TypeOK
<1>. QED
  BY <1>1, <1>2

(* A run waits for the call that is its own.                                *)
LEMMA LiveCalls ==
    ASSUME TypeOK, CallInv, NEW c \in calls, c.live
    PROVE  /\ c.stage = "begin" => Beginning(c.home) /\ ~Completing(c.home)
                                   /\ job[c.home].pc = "begin" /\ c.key = job[c.home].st.begin
           /\ c.stage # "begin" => /\ Completing(c.home) /\ ~Beginning(c.home)
                                   /\ job[c.home].pc = "complete"
                                   /\ c.key = job[c.home].st.complete /\ c.ch = job[c.home].st.ch
           /\ \A d \in calls : d.live /\ d.home = c.home => d = c
BY DEF CallInv, Beginning, Completing

(* Nobody waits for a call of a home whose run waits for none.              *)
LEMMA NoLiveCalls ==
    ASSUME CallInv, NEW h, job[h].pc \notin {"begin", "complete"}
    PROVE  \A c \in calls : c.home = h => ~c.live
BY DEF CallInv

(* The invitation is bound to one home, if to any.                          *)
LEMMA BoundIsOne ==
    ASSUME TypeOK, RedeemedOnce
    PROVE  \A i \in DOMAIN bound : bound = <<bound[i]>> /\ bound[i] \in Homes
<1>. TAKE i \in DOMAIN bound
<1>1. bound \in Seq(Homes) /\ Len(bound) <= 1 /\ Len(bound) \in Nat /\ DOMAIN bound = 1..Len(bound)
  BY DEF RedeemedOnce, TypeOK
<1>2. Len(bound) = 1 /\ i = 1
  BY <1>1
<1>3. bound[1] \in Homes
  BY <1>1, <1>2, ElementOfSeq
<1>4. <<bound[1]>> \in Seq(Homes) /\ Len(<<bound[1]>>) = 1 /\ <<bound[1]>>[1] = bound[1]
  BY <1>3
<1>5. bound = <<bound[1]>>
  BY <1>1, <1>2, <1>4, SeqEqual
<1>. QED
  BY <1>2, <1>3, <1>5

(* Once the invitation is redeemed for a home, the call its run waits for   *)
(* is one of the completion that is recorded.                               *)
LEMMA BoundCalls ==
    ASSUME TypeOK, DiskInv, JobInv, CallInv, FlightInv, BoundInv,
           NEW c \in calls, c.live, bound = <<c.home>>
    PROVE  c.stage = "complete" /\ Committed(c.key)
<1>1. c.home \in Homes /\ c \in Call
  BY Types
<1>2. ~linked[c.home]
  BY <1>1, LiveCalls DEF JobInv, Beginning, Completing
<1>3. Committed(disk[c.home].complete)
  BY <1>1, <1>2 DEF BoundInv
<1>4. disk[c.home].complete # NoKey /\ disk[c.home].ch # 0
  BY <1>1, <1>3, KeysApart, Types DEF Committed, DiskInv
<1>5. c.stage # "begin"
  <2>. SUFFICES ASSUME c.stage = "begin" PROVE FALSE
    OBVIOUS
  <2>1. disk[c.home] = [job[c.home].st EXCEPT !.ch = 0] /\ job[c.home].st.complete = NoKey
    BY <1>1, LiveCalls DEF JobInv
  <2>2. disk[c.home].complete = NoKey
    BY <1>1, <2>1, Types DEF JoinState
  <2>. QED
    BY <1>4, <2>2
<1>6. c.key = disk[c.home].complete
  BY <1>1, <1>5, LiveCalls, ZenonT(40) DEF JobInv
<1>7. ~InFlight(c)
  BY <1>3, <1>6 DEF FlightInv
<1>. QED
  BY <1>1, <1>3, <1>5, <1>6, <1>7 DEF InFlight, Call

(* The end of a call, for the run that waits for it.                        *)
LEMMA ReplyFacts ==
    ASSUME TypeOK, NEW c \in calls, NEW code \in Answers, Reply(c, code)
    PROVE  /\ calls' = calls \ {c} /\ job' \in [Homes -> Job]
           /\ \A h \in Homes : ~(c.live /\ h = c.home) => job'[h] = job[h]
           /\ c.live => /\ job'[c.home].pc = "answered" /\ job'[c.home].answer = code
                        /\ job'[c.home].st = job[c.home].st
<1>1. c.home \in Homes /\ job \in [Homes -> Job]
  BY Types DEF TypeOK
<1>. DEFINE j == [job[c.home] EXCEPT !.pc = "answered", !.answer = code]
<1>2. j \in Job /\ j.pc = "answered" /\ j.answer = code /\ j.st = job[c.home].st
  BY <1>1 DEF Job, Answers
<1>3. job' = IF c.live THEN [job EXCEPT ![c.home] = j] ELSE job
  BY <1>1 DEF Reply
<1>. HIDE DEF j
<1>. QED
  BY <1>1, <1>2, <1>3 DEF Reply

(* A call that is gone leaves the others what they are.                     *)
LEMMA CallsLeft ==
    ASSUME TypeOK, CallInv, NEW c \in calls, calls' = calls \ {c},
           \A h \in Homes : ~(c.live /\ h = c.home) => job'[h] = job[h],
           DOMAIN challenges \subseteq DOMAIN challenges'
    PROVE  CallInv'
<1>1. \A d \in calls' : d \in calls /\ (d.live => ~(c.live /\ d.home = c.home))
  BY DEF CallInv
<1>2. \A d \in calls' : d.home \in Homes
  BY <1>1, Types
<1>3. \A d \in calls' : d.live => job'[d.home] = job[d.home]
  BY <1>1, <1>2
<1>. QED
  BY <1>1, <1>2, <1>3 DEF CallInv

(* The runs after a call has ended.                                         *)
LEMMA ReplyRuns ==
    ASSUME TypeOK, DiskInv, JobInv, CallInv, NEW c \in calls, NEW code \in Answers, Reply(c, code),
           UNCHANGED <<disk, linked>>
    PROVE  /\ \A h \in Homes : Beginning(h)' = Beginning(h) /\ Completing(h)' = Completing(h)
           /\ JobInv'
<1>1. /\ calls' = calls \ {c}
      /\ \A h \in Homes : ~(c.live /\ h = c.home) => job'[h] = job[h]
      /\ c.live => /\ job'[c.home].pc = "answered" /\ job'[c.home].answer = code
                   /\ job'[c.home].st = job[c.home].st
  BY ReplyFacts
<1>2. c \in Call /\ c.home \in Homes
  BY Types
<1>3. c.live => /\ c.stage = "begin" => job[c.home].st.complete = NoKey
                /\ c.stage # "begin" => job[c.home].st.complete # NoKey
  <2>1. c.live /\ c.stage = "begin" => job[c.home].st.complete = NoKey
    BY <1>2, LiveCalls DEF JobInv
  <2>2. c.live /\ c.stage # "begin" => job[c.home].st = disk[c.home] /\ disk[c.home].ch # 0
    BY <1>2, LiveCalls DEF JobInv
  <2>. QED
    BY <1>2, <2>1, <2>2 DEF DiskInv
<1>4. \A h \in Homes : Beginning(h)' = Beginning(h) /\ Completing(h)' = Completing(h)
  <2>. TAKE h \in Homes
  <2>1. CASE c.live /\ h = c.home
    BY <1>1, <1>2, <1>3, <2>1, LiveCalls DEF Beginning, Completing
  <2>2. CASE ~(c.live /\ h = c.home)
    BY <1>1, <2>2 DEF Beginning, Completing
  <2>. QED
    BY <2>1, <2>2
<1>6. JobInv'
  <2>. SUFFICES ASSUME NEW h \in Homes
                PROVE  /\ job'[h].pc = "idle" => job'[h] = Idle
                       /\ job'[h].pc # "answered" => job'[h].answer = ""
                       /\ linked[h] => job'[h].pc = "idle" /\ disk[h] = FreshState
                       /\ job'[h].pc = "redeem" =>
                            /\ job'[h].st.ch = 0 /\ job'[h].st.complete = NoKey
                            /\ job'[h].st.begin \in {NoKey, disk[h].begin} /\ disk[h].ch = 0
                       /\ Beginning(h)' => /\ disk[h] = [job'[h].st EXCEPT !.ch = 0]
                                           /\ job'[h].st.begin # NoKey /\ job'[h].st.complete = NoKey
                                           /\ job'[h].answer # "ok" => job'[h].st.ch = 0
                       /\ Completing(h)' => job'[h].st = disk[h] /\ disk[h].ch # 0
    BY DEF JobInv
  <2>1. CASE ~(c.live /\ h = c.home)
    <3>1. job'[h] = job[h]
      BY <1>1, <2>1
    <3>. QED
      BY <3>1, ZenonT(40) DEF JobInv, Beginning, Completing
  <2>2. CASE c.live /\ h = c.home
    <3>1. job[h].pc \in {"begin", "complete"} /\ job[h].answer = ""
      BY <1>2, <2>2, LiveCalls DEF JobInv
    <3>2. ~linked[h]
      BY <3>1 DEF JobInv
    <3>3. job'[h].pc = "answered" /\ job'[h].st = job[h].st
      BY <1>1, <2>2
    <3>4. Beginning(h) => /\ disk[h] = [job[h].st EXCEPT !.ch = 0] /\ job[h].st.begin # NoKey
                         /\ job[h].st.complete = NoKey /\ job[h].st.ch = 0
      BY <3>1 DEF JobInv
    <3>5. Completing(h) => job[h].st = disk[h] /\ disk[h].ch # 0
      BY DEF JobInv
    <3>. QED
      BY <1>4, <3>2, <3>3, <3>4, <3>5
  <2>. QED
    BY <2>1, <2>2
<1>. QED
  BY <1>4, <1>6

(* A call that ends with nothing stored keeps the invariant, if what it     *)
(* answers is so.                                                           *)
LEMMA ReplyKeeps ==
    ASSUME RedemptionInv, NEW c \in calls, NEW code \in Answers, Reply(c, code), TypeOK',
           UNCHANGED <<invitation, challenges, receipts, bound, disk, linked>>,
           DOMAIN redeemed \subseteq DOMAIN redeemed',
           \A k \in DOMAIN redeemed' : \/ k \in DOMAIN redeemed /\ redeemed'[k] = redeemed[k]
                                       \/ redeemed'[k] = c.receipt,
           c.stage = "begin" => /\ code # "ok"
                                /\ code = "challenge_invalid" =>
                                     Committed(c.key) /\ ~Current(receipts[c.key]),
           c.stage # "begin" => /\ code = "ok" => bound = <<c.home>>
                                /\ code = "invitation_invalid" => ~ForCompletion
                                /\ code = "challenge_invalid" => ~Current(c.ch)
                                /\ code = "identity_mismatch" => c.home \notin Admitted
                                /\ code = "aimem_unconfigured" =>
                                     /\ c.key \in DOMAIN redeemed
                                     /\ \A d \in calls \ {c} : d.stage = "verified" => d.key # c.key,
           c.stage = "complete" /\ Committed(c.key) => code = "ok",
           c.stage = "begin" => UNCHANGED redeemed
    PROVE  RedemptionInv'
<1>. USE DEF RedemptionInv
<1>1. /\ calls' = calls \ {c}
      /\ \A h \in Homes : ~(c.live /\ h = c.home) => job'[h] = job[h]
      /\ c.live => /\ job'[c.home].pc = "answered" /\ job'[c.home].answer = code
                   /\ job'[c.home].st = job[c.home].st
  BY ReplyFacts
<1>2. c \in Call /\ c.home \in Homes
  BY Types
<1>4. \A h \in Homes : Beginning(h)' = Beginning(h) /\ Completing(h)' = Completing(h)
  BY ReplyRuns
<1>5. DiskInv'
  BY DEF DiskInv, Committed
<1>6. JobInv'
  BY ReplyRuns
<1>7. CallInv'
  BY <1>1, CallsLeft
<1>8. FlightInv'
  <2>1. c.receipt # 0 => \A d \in calls' : d \in calls /\ d.receipt # c.receipt
    BY <1>1 DEF FlightInv
  <2>2. \A d \in calls' : d \in calls /\ (d.stage \in {"complete", "checked"} => d.receipt # 0)
    BY <1>1 DEF CallInv
  <2>3. \A d \in calls' : d.stage \in {"complete", "checked"} =>
           \A k \in DOMAIN redeemed' : redeemed'[k] # d.receipt
    <3>1. CASE c.stage = "begin"
      BY <1>1, <3>1 DEF FlightInv
    <3>2. CASE c.stage # "begin"
      BY <2>1, <2>2, <3>2 DEF FlightInv, CallInv
    <3>. QED
      BY <3>1, <3>2
  <2>4. \A d \in calls' : InFlight(d) => ~Committed(d.key)'
    BY <2>2 DEF FlightInv, Committed
  <2>. QED
    BY <2>2, <2>3, <2>4 DEF FlightInv, InFlight
<1>9. BoundInv'
  <2>1. RedeemedOnce'
    BY DEF BoundInv, RedeemedOnce
  <2>2. \A h \in Homes : Completing(h)' /\ job'[h].answer = "ok" => bound = <<h>>
    BY <1>1, <1>2, <1>4, LiveCalls DEF BoundInv
  <2>. QED
    BY <2>1, <2>2 DEF BoundInv, Committed
<1>10. UsableInv'
  <2>1. \A ch : Usable(ch)' = Usable(ch)
    BY DEF Usable, ForCompletion, Current
  <2>2. ForBegin' = ForBegin
    BY DEF ForBegin
  <2>3. \A h \in Homes : job'[h].pc = "redeem" => job'[h] = job[h]
    BY <1>1
  <2>. QED
    BY <1>1, <2>1, <2>2, <2>3 DEF UsableInv, Committed
<1>11. RefusalIsTrue'
  <2>1. \A i \in DOMAIN bound : bound = <<bound[i]>> /\ bound[i] \in Homes
    BY BoundIsOne DEF BoundInv
  <2>2. bound = <<c.home>> /\ c.live => code \notin Refusals
    BY BoundCalls DEF Refusals
  <2>. QED
    BY <1>1, <1>2, <2>1, <2>2 DEF RefusalIsTrue, AnswerInv
<1>12. AnswerInv'
  <2>. SUFFICES ASSUME NEW h \in Homes
       PROVE  /\ Beginning(h)' /\ job'[h].answer = "ok" =>
                   Committed(job[h].st.begin)' /\ receipts[job'[h].st.begin] = job'[h].st.ch
              /\ Beginning(h)' /\ job'[h].answer = "challenge_invalid" =>
                   Committed(job[h].st.begin)' /\ ~Current(receipts[job[h].st.begin])'
              /\ Completing(h)' /\ job'[h].answer = "invitation_invalid" => ~ForCompletion'
              /\ Completing(h)' /\ job'[h].answer = "challenge_invalid" => ~Current(job[h].st.ch)'
              /\ Completing(h)' /\ job'[h].answer = "identity_mismatch" => h \notin Admitted
              /\ Completing(h)' /\ job'[h].answer = "aimem_unconfigured" =>
                   /\ job'[h].st.complete \in DOMAIN redeemed'
                   /\ \A d \in calls' : d.stage = "verified" => d.key # job'[h].st.complete
    BY <1>11 DEF AnswerInv
  <2>1. CASE ~(c.live /\ h = c.home)
    BY <1>1, <1>4, <2>1 DEF AnswerInv, Committed, Current, ForCompletion
  <2>2. CASE c.live /\ h = c.home
    <3>1. CASE c.stage = "begin"
      BY <1>1, <1>2, <1>4, <2>2, <3>1, LiveCalls DEF Committed, Current
    <3>2. CASE c.stage # "begin"
      BY <1>1, <1>2, <1>4, <2>2, <3>2, LiveCalls DEF Current, ForCompletion
    <3>. QED
      BY <3>1, <3>2
  <2>. QED
    BY <2>1, <2>2
<1>. QED
  BY <1>5, <1>6, <1>7, <1>8, <1>9, <1>10, <1>12

-----------------------------------------------------------------------------
(* A step of a home *)

(* The calls nobody waits for any more are the calls there were.            *)
LEMMA AbandonedCalls ==
    ASSUME TypeOK, NEW h
    PROVE  /\ Abandoned(h) \subseteq Call
           /\ \A c \in Abandoned(h) : c.home = h => ~c.live
           /\ \A c \in Abandoned(h) : c.live => c \in calls
           /\ \A c \in Abandoned(h) : c.home # h => c \in calls
           /\ \A c \in calls : c.home # h => c \in Abandoned(h)
           /\ \A c \in Abandoned(h) : \E d \in calls :
                 /\ c = IF d.home = h THEN [d EXCEPT !.live = FALSE] ELSE d
                 /\ d.home = c.home /\ d.stage = c.stage /\ d.key = c.key /\ d.ch = c.ch
                 /\ d.receipt = c.receipt
<1>1. \A d \in calls : d \in Call
  BY Types
<1>2. \A d \in calls : /\ [d EXCEPT !.live = FALSE] \in Call
                       /\ [d EXCEPT !.live = FALSE].home = d.home
                       /\ [d EXCEPT !.live = FALSE].stage = d.stage
                       /\ [d EXCEPT !.live = FALSE].key = d.key
                       /\ [d EXCEPT !.live = FALSE].ch = d.ch
                       /\ [d EXCEPT !.live = FALSE].receipt = d.receipt
                       /\ [d EXCEPT !.live = FALSE].live = FALSE
  BY <1>1 DEF Call
<1>3. \A c \in Abandoned(h) : \E d \in calls :
         c = IF d.home = h THEN [d EXCEPT !.live = FALSE] ELSE d
  BY DEF Abandoned
<1>4. \A c \in calls : c.home # h => c \in Abandoned(h)
  BY DEF Abandoned
<1>5. ASSUME NEW c \in Abandoned(h)
      PROVE  /\ c \in Call /\ (c.home = h => ~c.live) /\ (c.live => c \in calls)
             /\ c.home # h => c \in calls
             /\ \E d \in calls :
                 /\ c = IF d.home = h THEN [d EXCEPT !.live = FALSE] ELSE d
                 /\ d.home = c.home /\ d.stage = c.stage /\ d.key = c.key /\ d.ch = c.ch
                 /\ d.receipt = c.receipt
  <2>1. PICK d \in calls : c = IF d.home = h THEN [d EXCEPT !.live = FALSE] ELSE d
    BY <1>3
  <2>2. CASE d.home = h
    BY <1>2, <2>1, <2>2
  <2>3. CASE d.home # h
    BY <1>1, <2>1, <2>3
  <2>. QED
    BY <2>2, <2>3
<1>. QED
  BY <1>4, <1>5

(* Where a run waits for no call, there is nothing to abandon.              *)
LEMMA NothingToAbandon ==
    ASSUME TypeOK, CallInv, NEW h, job[h].pc \notin {"begin", "complete"}
    PROVE  Abandoned(h) = calls
<1>1. \A c \in calls : c.home = h => [c EXCEPT !.live = FALSE] = c
  BY NoLiveCalls, Types DEF Call
<1>2. \A c \in calls : (IF c.home = h THEN [c EXCEPT !.live = FALSE] ELSE c) = c
  BY <1>1
<1>. QED
  BY <1>2 DEF Abandoned

(* What a home has saved, and how its run works on it.                      *)
Saved(h) ==
    /\ disk[h].begin \in OwnKeys(h, "begin") \cup {NoKey}
    /\ disk[h].complete \in OwnKeys(h, "complete") \cup {NoKey}
    /\ disk[h].ch = 0 <=> disk[h].complete = NoKey
    /\ disk[h].ch # 0 => Committed(disk[h].begin) /\ receipts[disk[h].begin] = disk[h].ch

Working(h) ==
    /\ job[h].pc = "idle" => job[h] = Idle
    /\ job[h].pc # "answered" => job[h].answer = ""
    /\ linked[h] => job[h].pc = "idle" /\ disk[h] = FreshState
    /\ job[h].pc = "redeem" => /\ job[h].st.ch = 0 /\ job[h].st.complete = NoKey
                               /\ job[h].st.begin \in {NoKey, disk[h].begin} /\ disk[h].ch = 0
    /\ Beginning(h) => /\ disk[h] = [job[h].st EXCEPT !.ch = 0] /\ job[h].st.begin # NoKey
                       /\ job[h].st.complete = NoKey
                       /\ job[h].answer # "ok" => job[h].st.ch = 0
    /\ Completing(h) => job[h].st = disk[h] /\ disk[h].ch # 0

(* The call a home sends: for its begin, or for its completion with a       *)
(* receipt in use nowhere.                                                  *)
Sending(h, n) ==
    /\ n \in Call /\ n.home = h
    /\ \/ /\ n.stage = "begin" /\ job'[h].pc = "begin" /\ n.receipt = 0
          /\ n.key = job'[h].st.begin /\ n.key = disk'[h].begin
       \/ /\ n.stage = "complete" /\ job'[h].pc = "complete" /\ n.ch \in DOMAIN challenges
          /\ n.receipt # 0 /\ n.receipt \notin ReceiptsInUse
          /\ n.key = job'[h].st.complete /\ n.ch = job'[h].st.ch
          /\ n.key = disk'[h].complete /\ n.ch = disk'[h].ch

(* A call that was d before the calls of h were abandoned.                  *)
Was(c, d, h) ==
    /\ c = IF d.home = h THEN [d EXCEPT !.live = FALSE] ELSE d
    /\ c.home = h => ~c.live
    /\ c.home # h => c = d
    /\ d.home = c.home /\ d.stage = c.stage /\ d.key = c.key /\ d.ch = c.ch /\ d.receipt = c.receipt

(* After a step of h every call is a new one or was one before.             *)
LEMMA CallsWere ==
    ASSUME TypeOK, NEW h, NEW N, calls' = Abandoned(h) \cup N
    PROVE  \A c \in calls' : c \in N \/ \E d \in calls : Was(c, d, h)
<1>1. ASSUME NEW c \in Abandoned(h) PROVE \E d \in calls : Was(c, d, h)
  <2>1. PICK d \in calls :
           /\ c = IF d.home = h THEN [d EXCEPT !.live = FALSE] ELSE d
           /\ d.home = c.home /\ d.stage = c.stage /\ d.key = c.key /\ d.ch = c.ch
           /\ d.receipt = c.receipt
    BY AbandonedCalls
  <2>2. c.home = h => ~c.live
    BY AbandonedCalls
  <2>. QED
    BY <2>1, <2>2 DEF Was
<1>. QED
  BY <1>1

(* A step of a home that aicrewd does not see, and what it leaves saved     *)
(* names what may still count.                                              *)
HomeStep(h, N) ==
    /\ UNCHANGED <<invitation, challenges, receipts, bound, redeemed>>
    /\ \A g \in Homes : g # h => job'[g] = job[g] /\ disk'[g] = disk[g] /\ linked'[g] = linked[g]
    /\ calls' = Abandoned(h) \cup N
    /\ \A n \in N : N = {n} /\ Sending(h, n)
    /\ Saved(h)' /\ Working(h)' /\ job'[h].answer \in {"", "unanswered"}
    /\ linked'[h] => bound = <<h>>
    /\ bound = <<h>> /\ ~linked'[h] => disk'[h].complete = disk[h].complete /\ ~linked[h]
    /\ \/ disk'[h].begin = disk[h].begin
       \/ /\ \A ch \in DOMAIN challenges : challenges[ch].home = h => ~Usable(ch)
          /\ \A c \in calls : c.home = h /\ c.stage = "begin" /\ ForBegin => Committed(c.key)
    /\ \/ disk'[h].complete = disk[h].complete /\ disk'[h].ch = disk[h].ch
       \/ \A c \in calls : c.home = h /\ c.stage # "begin" => ~Usable(c.ch)
    /\ job'[h].pc = "redeem" /\ job'[h].st.begin = NoKey =>
         /\ disk'[h].begin = NoKey \/ Committed(disk'[h].begin)
         /\ \A ch \in DOMAIN challenges : challenges[ch].home = h => ~Usable(ch)

(* Such a step keeps the invariant.                                         *)
LEMMA HomeMoves ==
    ASSUME RedemptionInv, NEW h \in Homes, NEW N, TypeOK', HomeStep(h, N)
    PROVE  RedemptionInv'
<1>0. TypeOK /\ DiskInv /\ JobInv /\ CallInv /\ FlightInv /\ BoundInv /\ UsableInv /\ AnswerInv
  BY DEF RedemptionInv
<1>a. /\ UNCHANGED <<invitation, challenges, receipts, bound, redeemed>>
      /\ \A g \in Homes : g # h => job'[g] = job[g] /\ disk'[g] = disk[g] /\ linked'[g] = linked[g]
      /\ Saved(h)' /\ Working(h)' /\ job'[h].answer \in {"", "unanswered"}
      /\ \A n \in N : N = {n} /\ Sending(h, n)
  BY DEF HomeStep
<1>1. /\ \A g \in Homes : g # h => Beginning(g)' = Beginning(g) /\ Completing(g)' = Completing(g)
      /\ \A ch : Usable(ch)' = Usable(ch) /\ Current(ch)' = Current(ch)
      /\ \A key : Committed(key)' = Committed(key)
      /\ ForBegin' = ForBegin /\ ForCompletion' = ForCompletion
  BY <1>a DEF Beginning, Completing, Usable, Current, Committed, ForBegin, ForCompletion
<1>2. \A c \in calls : c.home \in Homes /\ c \in Call
  BY <1>0, Types
<1>3. \A c \in calls' : c \in N \/ \E d \in calls : Was(c, d, h)
  BY <1>0, CallsWere DEF HomeStep
<1>4. ASSUME NEW n \in N
      PROVE  /\ n.home = h /\ n \in Call /\ N = {n}
             /\ n.stage = "begin" => n.key \in OwnKeys(h, "begin")
             /\ n.stage # "begin" => n.stage = "complete" /\ n.key \in OwnKeys(h, "complete")
  <2>1. Sending(h, n) /\ N = {n} /\ Saved(h)'
    BY <1>a
  <2>2. n.key # NoKey
    BY <2>1, KeysApart DEF Sending, Call
  <2>. QED
    BY <2>1, <2>2 DEF Sending, Saved
<1>5. DiskInv'
  <2>. SUFFICES ASSUME NEW g \in Homes PROVE Saved(g)'
    BY DEF DiskInv, Saved
  <2>1. CASE g = h
    BY <1>a, <2>1
  <2>2. CASE g # h
    BY <1>0, <1>a, <1>1, <2>2 DEF DiskInv, Saved
  <2>. QED
    BY <2>1, <2>2
<1>6. JobInv'
  <2>. SUFFICES ASSUME NEW g \in Homes PROVE Working(g)'
    BY DEF JobInv, Working
  <2>1. CASE g = h
    BY <1>a, <2>1
  <2>2. CASE g # h
    <3>1. job'[g] = job[g] /\ disk'[g] = disk[g] /\ linked'[g] = linked[g]
      BY <1>a, <2>2
    <3>2. Working(g)
      BY <1>0 DEF JobInv, Working
    <3>3. Beginning(g)' = Beginning(g) /\ Completing(g)' = Completing(g)
      BY <1>1, <2>2
    <3>. QED
      BY <3>1, <3>2, <3>3 DEF Working
  <2>. QED
    BY <2>1, <2>2
<1>7. CallInv'
  <2>1. ASSUME NEW c \in calls'
        PROVE  /\ c.stage = "begin" => c.key \in OwnKeys(c.home, "begin") /\ c.receipt = 0
               /\ c.stage # "begin" => /\ c.key \in OwnKeys(c.home, "complete")
                                       /\ c.ch \in DOMAIN challenges /\ c.receipt # 0
               /\ c.live /\ c.stage = "begin" =>
                      job'[c.home].pc = "begin" /\ c.key = job'[c.home].st.begin
               /\ c.live /\ c.stage # "begin" =>
                      /\ job'[c.home].pc = "complete" /\ c.key = job'[c.home].st.complete
                      /\ c.ch = job'[c.home].st.ch
    <3>1. CASE c \in N
      <4>1. Sending(h, c)
        BY <1>a, <3>1
      <4>. QED
        BY <1>4, <3>1, <4>1 DEF Sending
    <3>2. CASE c \notin N
      <4>1. PICK d \in calls : Was(c, d, h)
        BY <1>3, <3>2
      <4>2. d.home \in Homes /\ d.home = c.home
        BY <1>2, <4>1 DEF Was
      <4>3. c.home # h => job'[c.home] = job[c.home]
        BY <1>a, <4>2
      <4>4. /\ d.stage = "begin" => d.key \in OwnKeys(d.home, "begin") /\ d.receipt = 0
            /\ d.stage # "begin" => /\ d.key \in OwnKeys(d.home, "complete")
                                    /\ d.ch \in DOMAIN challenges /\ d.receipt # 0
            /\ d.live /\ d.stage = "begin" =>
                   job[d.home].pc = "begin" /\ d.key = job[d.home].st.begin
            /\ d.live /\ d.stage # "begin" =>
                   /\ job[d.home].pc = "complete" /\ d.key = job[d.home].st.complete
                   /\ d.ch = job[d.home].st.ch
        BY <1>0 DEF CallInv
      <4>5. c.home = h => ~c.live
        BY <4>1 DEF Was
      <4>6. c.home # h => c = d
        BY <4>1 DEF Was
      <4>7. d.home = c.home /\ d.stage = c.stage /\ d.key = c.key /\ d.ch = c.ch /\ d.receipt = c.receipt
        BY <4>1 DEF Was
      <4>. QED
        BY <4>3, <4>4, <4>5, <4>6, <4>7
    <3>. QED
      BY <3>1, <3>2
  <2>2. ASSUME NEW c \in calls', NEW d \in calls', c.live, d.live, c.home = d.home
        PROVE  c = d
    <3>1. CASE c.home = h
      <4>1. \A e \in calls' : e.live /\ e.home = h => e \in N
        BY <1>3 DEF Was
      <4>2. c \in N /\ d \in N
        BY <2>2, <3>1, <4>1
      <4>. QED
        BY <1>4, <4>2
    <3>2. CASE c.home # h
      <4>1. \A e \in calls' : e.home # h => e \in calls
        BY <1>3, <1>4 DEF Was
      <4>. QED
        BY <1>0, <2>2, <3>2, <4>1 DEF CallInv
    <3>. QED
      BY <3>1, <3>2
  <2>3. challenges' = challenges
    BY <1>a
  <2>. QED
    BY <2>1, <2>2, <2>3 DEF CallInv
<1>8. FlightInv'
  <2>1. ASSUME NEW c \in calls'
        PROVE  /\ InFlight(c) => ~Committed(c.key)
               /\ c.stage \in {"complete", "checked"} => \A k \in DOMAIN redeemed : redeemed[k] # c.receipt
    <3>1. CASE c \in N
      <4>1. Sending(h, c)
        BY <1>a, <3>1
      <4>2. c.receipt # 0 => \A k \in DOMAIN redeemed : redeemed[k] # c.receipt
        BY <4>1, <1>4, <3>1 DEF Sending, ReceiptsInUse
      <4>. QED
        BY <4>1, <4>2 DEF Sending, InFlight
    <3>2. CASE c \notin N
      <4>1. PICK d \in calls : Was(c, d, h)
        BY <1>3, <3>2
      <4>2. d.stage = c.stage /\ d.key = c.key /\ d.receipt = c.receipt
        BY <4>1 DEF Was
      <4>. QED
        BY <1>0, <4>2 DEF FlightInv, InFlight
    <3>. QED
      BY <3>1, <3>2
  <2>2. ASSUME NEW c \in calls', NEW d \in calls', InFlight(c), InFlight(d), c.key = d.key
        PROVE  c = d
    <3>1. c \notin N /\ d \notin N
      BY <1>4, <2>2 DEF InFlight
    <3>2. PICK e \in calls : Was(c, e, h)
      BY <1>3, <3>1
    <3>3. PICK f \in calls : Was(d, f, h)
      BY <1>3, <3>1
    <3>4. e = f
      <4>1. e.stage = c.stage /\ e.key = c.key /\ f.stage = d.stage /\ f.key = d.key
        BY <3>2, <3>3 DEF Was
      <4>. QED
        BY <1>0, <2>2, <4>1 DEF FlightInv, InFlight
    <3>. QED
      BY <3>2, <3>3, <3>4 DEF Was
  <2>3. ASSUME NEW c \in calls', NEW d \in calls', c.receipt = d.receipt, c.receipt # 0
        PROVE  c = d
    <3>1. ASSUME NEW n \in N PROVE n.receipt = 0 \/ \A e \in calls : e.receipt # n.receipt
      <4>1. Sending(h, n)
        BY <1>a
      <4>. QED
        BY <4>1 DEF Sending, ReceiptsInUse
    <3>2. ASSUME NEW e \in calls' PROVE e \in N \/ \E f \in calls : f.receipt = e.receipt
      BY <1>3 DEF Was
    <3>3. CASE c \in N
      BY <1>4, <2>3, <3>1, <3>2, <3>3
    <3>4. CASE d \in N
      BY <1>4, <2>3, <3>1, <3>2, <3>4
    <3>5. CASE c \notin N /\ d \notin N
      <4>1. PICK e \in calls : Was(c, e, h)
        BY <1>3, <3>5
      <4>2. PICK f \in calls : Was(d, f, h)
        BY <1>3, <3>5
      <4>3. e = f
        <5>1. e.receipt = c.receipt /\ f.receipt = d.receipt
          BY <4>1, <4>2 DEF Was
        <5>. QED
          BY <1>0, <2>3, <5>1 DEF FlightInv
      <4>. QED
        BY <4>1, <4>2, <4>3 DEF Was
    <3>. QED
      BY <3>3, <3>4, <3>5
  <2>4. redeemed' = redeemed
    BY <1>a
  <2>. QED
    BY <1>1, <2>1, <2>2, <2>3, <2>4 DEF FlightInv, InFlight
<1>9. BoundInv'
  <2>1. /\ linked'[h] => bound = <<h>>
        /\ bound = <<h>> /\ ~linked'[h] => disk'[h].complete = disk[h].complete /\ ~linked[h]
    BY DEF HomeStep
  <2>2. RedeemedOnce'
    BY <1>0, <1>a, <2>1 DEF BoundInv, RedeemedOnce
  <2>3. ASSUME NEW g \in Homes
        PROVE  /\ Completing(g)' /\ job'[g].answer = "ok" => bound = <<g>>
               /\ bound = <<g>> /\ ~linked'[g] => Committed(disk'[g].complete)
    <3>1. CASE g = h
      BY <1>0, <1>a, <2>1, <3>1 DEF BoundInv
    <3>2. CASE g # h
      BY <1>0, <1>a, <1>1, <3>2 DEF BoundInv
    <3>. QED
      BY <3>1, <3>2
  <2>4. \A k \in DOMAIN receipts : k[2] = "complete" => bound = <<k[1]>>
    BY <1>0 DEF BoundInv
  <2>5. bound' = bound /\ receipts' = receipts
    BY <1>a
  <2>. QED
    BY <1>1, <2>2, <2>3, <2>4, <2>5 DEF BoundInv
<1>10. UsableInv'
  <2>0. /\ \/ disk'[h].begin = disk[h].begin
           \/ /\ \A ch \in DOMAIN challenges : challenges[ch].home = h => ~Usable(ch)
              /\ \A c \in calls : c.home = h /\ c.stage = "begin" /\ ForBegin => Committed(c.key)
        /\ \/ disk'[h].complete = disk[h].complete /\ disk'[h].ch = disk[h].ch
           \/ \A c \in calls : c.home = h /\ c.stage # "begin" => ~Usable(c.ch)
        /\ job'[h].pc = "redeem" /\ job'[h].st.begin = NoKey =>
             /\ disk'[h].begin = NoKey \/ Committed(disk'[h].begin)
             /\ \A ch \in DOMAIN challenges : challenges[ch].home = h => ~Usable(ch)
    BY DEF HomeStep
  <2>1. ASSUME NEW ch \in DOMAIN challenges, Usable(ch)
        PROVE  Committed(disk'[challenges[ch].home].begin) /\ receipts[disk'[challenges[ch].home].begin] = ch
    <3>1. challenges[ch].home \in Homes
      BY <1>0, Types
    <3>2. disk'[challenges[ch].home].begin = disk[challenges[ch].home].begin
      BY <1>a, <2>0, <2>1, <3>1
    <3>. QED
      BY <1>0, <2>1, <3>2 DEF UsableInv
  <2>2. ASSUME NEW c \in calls'
        PROVE  /\ c.stage = "begin" /\ ~Committed(c.key) /\ ForBegin => c.key = disk'[c.home].begin
               /\ c.stage # "begin" /\ Usable(c.ch) =>
                     c.key = disk'[c.home].complete /\ c.ch = disk'[c.home].ch
    <3>1. CASE c \in N
      <4>1. Sending(h, c)
        BY <1>a, <3>1
      <4>. QED
        BY <4>1 DEF Sending
    <3>2. CASE c \notin N
      <4>1. PICK d \in calls : Was(c, d, h)
        BY <1>3, <3>2
      <4>2. d.home = c.home /\ d.stage = c.stage /\ d.key = c.key /\ d.ch = c.ch /\ d.home \in Homes
        BY <1>2, <4>1 DEF Was
      <4>3. /\ d.stage = "begin" /\ ~Committed(d.key) /\ ForBegin => d.key = disk[d.home].begin
            /\ d.stage # "begin" /\ Usable(d.ch) =>
                  d.key = disk[d.home].complete /\ d.ch = disk[d.home].ch
        BY <1>0 DEF UsableInv
      <4>. QED
        BY <1>a, <2>0, <4>2, <4>3
    <3>. QED
      BY <3>1, <3>2
  <2>3. ASSUME NEW g \in Homes, job'[g].pc = "redeem", job'[g].st.begin = NoKey
        PROVE  /\ disk'[g].begin = NoKey \/ Committed(disk'[g].begin)
               /\ \A ch \in DOMAIN challenges : challenges[ch].home = g => ~Usable(ch)
    <3>1. CASE g = h
      BY <2>0, <2>3, <3>1
    <3>2. CASE g # h
      BY <1>0, <1>a, <2>3, <3>2 DEF UsableInv
    <3>. QED
      BY <3>1, <3>2
  <2>4. challenges' = challenges /\ receipts' = receipts
    BY <1>a
  <2>. QED
    BY <1>1, <2>1, <2>2, <2>3, <2>4 DEF UsableInv
<1>11. RefusalIsTrue'
  <2>1. \A i \in DOMAIN bound : bound = <<bound[i]>> /\ bound[i] \in Homes
    BY <1>0, BoundIsOne DEF BoundInv
  <2>. QED
    BY <1>0, <1>a, <2>1 DEF RefusalIsTrue, AnswerInv, Refusals
<1>12. AnswerInv'
  <2>1. ASSUME NEW g \in Homes, g # h, NEW c \in calls', c.home = h
        PROVE  c.stage = "verified" => c.key # job[g].st.complete \/ ~Completing(g)
    <3>1. c.stage = "verified" => c.key \in OwnKeys(h, "complete")
      <4>1. CASE c \in N
        BY <1>4, <4>1
      <4>2. CASE c \notin N
        BY <1>0, <1>3, <2>1, <4>2 DEF CallInv, Was
      <4>. QED
        BY <4>1, <4>2
    <3>2. Completing(g) => job[g].st.complete = NoKey \/ job[g].st.complete \in OwnKeys(g, "complete")
      BY <1>0 DEF DiskInv, JobInv
    <3>. QED
      BY <2>1, <3>1, <3>2, KeysApart
  <2>2. ASSUME NEW g \in Homes, g # h
        PROVE  /\ Beginning(g) /\ job[g].answer = "ok" =>
                      Committed(job[g].st.begin) /\ receipts[job[g].st.begin] = job[g].st.ch
               /\ Beginning(g) /\ job[g].answer = "challenge_invalid" =>
                      Committed(job[g].st.begin) /\ ~Current(receipts[job[g].st.begin])
               /\ Completing(g) /\ job[g].answer = "invitation_invalid" => ~ForCompletion
               /\ Completing(g) /\ job[g].answer = "challenge_invalid" => ~Current(job[g].st.ch)
               /\ Completing(g) /\ job[g].answer = "identity_mismatch" => g \notin Admitted
               /\ Completing(g) /\ job[g].answer = "aimem_unconfigured" =>
                     /\ job[g].st.complete \in DOMAIN redeemed
                     /\ \A c \in calls' : c.stage = "verified" => c.key # job[g].st.complete
    <3>1. \A c \in calls' : c.home # h => c \in calls
      BY <1>3, <1>4 DEF Was
    <3>2. Completing(g) /\ job[g].answer = "aimem_unconfigured" =>
             \A c \in calls' : c.stage = "verified" => c.key # job[g].st.complete
      BY <1>0, <2>1, <2>2, <3>1 DEF AnswerInv
    <3>. QED
      BY <1>0, <3>2 DEF AnswerInv
  <2>3. \A g \in Homes : g # h => job'[g] = job[g] /\ Beginning(g)' = Beginning(g) /\ Completing(g)' = Completing(g)
    BY <1>a, <1>1
  <2>4. receipts' = receipts /\ redeemed' = redeemed /\ job'[h].answer \in {"", "unanswered"}
    BY <1>a
  <2>5. ASSUME NEW g \in Homes
        PROVE  /\ Beginning(g)' /\ job'[g].answer = "ok" =>
                      Committed(job'[g].st.begin) /\ receipts[job'[g].st.begin] = job'[g].st.ch
               /\ Beginning(g)' /\ job'[g].answer = "challenge_invalid" =>
                      Committed(job'[g].st.begin) /\ ~Current(receipts[job'[g].st.begin])
               /\ Completing(g)' /\ job'[g].answer = "invitation_invalid" => ~ForCompletion
               /\ Completing(g)' /\ job'[g].answer = "challenge_invalid" => ~Current(job'[g].st.ch)
               /\ Completing(g)' /\ job'[g].answer = "identity_mismatch" => g \notin Admitted
               /\ Completing(g)' /\ job'[g].answer = "aimem_unconfigured" =>
                     /\ job'[g].st.complete \in DOMAIN redeemed
                     /\ \A c \in calls' : c.stage = "verified" => c.key # job'[g].st.complete
    <3>1. CASE g = h
      BY <2>4, <3>1
    <3>2. CASE g # h
      BY <2>2, <2>3, <3>2
    <3>. QED
      BY <3>1, <3>2
  <2>. QED
    BY <1>1, <1>11, <2>4, <2>5 DEF AnswerInv
<1>. QED
  BY <1>5, <1>6, <1>7, <1>8, <1>9, <1>10, <1>12 DEF RedemptionInv

(* The types after such a step.                                             *)
LEMMA HomeTypes ==
    ASSUME TypeOK, NEW h \in Homes, NEW j \in Job, NEW s \in JoinState, NEW N \in SUBSET Call,
           UNCHANGED <<aicrewd, redeemed>>, latest' \in Seq(0..MaxReceipts), Len(latest') = Len(latest),
           job' = [job EXCEPT ![h] = j], disk' = [disk EXCEPT ![h] = s],
           linked' \in [Homes -> BOOLEAN], calls' = Abandoned(h) \cup N, faults' \in Nat
    PROVE  TypeOK'
<1>1. calls' \subseteq Call
  BY AbandonedCalls
<1>2. job' \in [Homes -> Job] /\ disk' \in [Homes -> JoinState]
  BY DEF TypeOK
<1>3. UNCHANGED <<invitation, challenges, receipts, bound, redeemed>>
  BY DEF aicrewd
<1>. QED
  BY <1>1, <1>2, <1>3 DEF TypeOK

(* A run that ends, begins, tries again or gives a call up keeps the        *)
(* invariant.                                                               *)
LEMMA JobMoves ==
    ASSUME RedemptionInv, NEW h \in Homes, NEW j \in Job,
           job' = [job EXCEPT ![h] = j], calls' = Abandoned(h),
           UNCHANGED <<aicrewd, aimem, home>>, faults' \in Nat,
           \/ j = Idle
           \/ /\ j.pc = "redeem" /\ j.answer = "" /\ ~linked[h]
              /\ j.st.ch = 0 /\ j.st.complete = NoKey /\ disk[h].ch = 0
              /\ \/ j.st.begin = disk[h].begin
                 \/ /\ j.st.begin = NoKey /\ Committed(disk[h].begin)
                    /\ ~Current(receipts[disk[h].begin])
           \/ j.pc = "prove" /\ j.answer = "" /\ ~linked[h] /\ j.st = disk[h] /\ disk[h].ch # 0
           \/ /\ j.pc = "answered" /\ j.answer = "unanswered" /\ j.st = job[h].st
              /\ job[h].pc \in {"begin", "complete"}
    PROVE  RedemptionInv'
<1>0. TypeOK /\ DiskInv /\ JobInv /\ CallInv /\ FlightInv /\ BoundInv /\ UsableInv /\ AnswerInv
  BY DEF RedemptionInv
<1>1. /\ UNCHANGED <<invitation, challenges, receipts, bound, redeemed, latest, disk, linked>>
      /\ job'[h] = j /\ \A g \in Homes : g # h => job'[g] = job[g]
  BY <1>0 DEF aicrewd, aimem, home, TypeOK
<1>2. job[h] \in Job /\ job[h].st \in JoinState /\ disk[h] \in JoinState
  BY <1>0, Types
<1>3. TypeOK'
  <2>1. disk' = [disk EXCEPT ![h] = disk[h]]
    BY <1>0, <1>1 DEF TypeOK
  <2>2. linked' \in [Homes -> BOOLEAN] /\ latest' \in Seq(0..MaxReceipts) /\ Len(latest') = Len(latest)
    BY <1>0, <1>1 DEF TypeOK
  <2>3. UNCHANGED <<aicrewd, redeemed>> /\ calls' = Abandoned(h) \cup {} /\ {} \in SUBSET Call
    BY <1>1 DEF aicrewd
  <2>. QED
    BY <1>0, <1>2, <2>1, <2>2, <2>3, HomeTypes
<1>4. Saved(h)'
  BY <1>0, <1>1 DEF Saved, DiskInv, Committed
<1>5. Working(h)' /\ job'[h].answer \in {"", "unanswered"}
  <2>0. Idle.pc = "idle" /\ Idle.answer = "" /\ (linked[h] => disk[h] = FreshState)
    BY <1>0 DEF Idle, JobInv
  <2>1. CASE j = Idle
    BY <1>1, <2>0, <2>1 DEF Working, Beginning, Completing
  <2>2. CASE j.pc = "redeem" /\ j # Idle
    BY <1>1, <2>0, <2>2 DEF Working, Beginning, Completing
  <2>3. CASE j.pc = "prove"
    BY <1>1, <2>0, <2>3 DEF Working, Beginning, Completing
  <2>4. CASE j.pc = "answered"
    <3>1. j.answer = "unanswered" /\ j.st = job[h].st /\ job[h].pc \in {"begin", "complete"}
      BY <2>0, <2>4
    <3>2. ~linked[h] /\ job[h].answer = ""
      BY <1>0, <3>1 DEF JobInv
    <3>3. job[h].pc = "begin" => /\ disk[h] = [job[h].st EXCEPT !.ch = 0] /\ job[h].st.begin # NoKey
                                 /\ job[h].st.complete = NoKey /\ job[h].st.ch = 0
      BY <1>0, <3>2 DEF JobInv, Beginning
    <3>4. job[h].pc = "complete" => /\ job[h].st = disk[h] /\ disk[h].ch # 0
                                    /\ job[h].st.complete # NoKey
      BY <1>0 DEF JobInv, Completing, DiskInv
    <3>. QED
      BY <1>1, <2>4, <3>1, <3>2, <3>3, <3>4 DEF Working, Beginning, Completing
  <2>. QED
    BY <2>0, <2>1, <2>2, <2>3, <2>4
<1>6. /\ linked[h] => bound = <<h>>
      /\ bound = <<h>> /\ ~linked'[h] => disk'[h].complete = disk[h].complete /\ ~linked[h]
  BY <1>0, <1>1 DEF BoundInv, RedeemedOnce
<1>7. j.pc = "redeem" /\ j.st.begin = NoKey =>
         /\ disk[h].begin = NoKey \/ Committed(disk[h].begin)
         /\ \A ch \in DOMAIN challenges : challenges[ch].home = h => ~Usable(ch)
  <2>1. SUFFICES ASSUME j.pc = "redeem", j.st.begin = NoKey
                 PROVE  /\ disk[h].begin = NoKey \/ Committed(disk[h].begin)
                        /\ \A ch \in DOMAIN challenges : challenges[ch].home = h => ~Usable(ch)
    OBVIOUS
  <2>2. \/ disk[h].begin = NoKey
        \/ Committed(disk[h].begin) /\ ~Current(receipts[disk[h].begin])
    <3>1. Idle.pc = "idle"
      BY DEF Idle
    <3>. QED
      BY <2>1, <3>1
  <2>3. ~Committed(NoKey)
    BY <1>0, Types, KeysApart DEF Committed
  <2>. QED
    BY <1>0, <2>2, <2>3 DEF UsableInv, Usable
<1>8. HomeStep(h, {})
  <2>1. calls' = Abandoned(h) \cup {}
    OBVIOUS
  <2>2. \A g \in Homes : g # h => job'[g] = job[g] /\ disk'[g] = disk[g] /\ linked'[g] = linked[g]
    BY <1>1
  <2>3. UNCHANGED <<invitation, challenges, receipts, bound, redeemed>>
    BY <1>1
  <2>4. linked'[h] => bound = <<h>>
    BY <1>1, <1>6
  <2>5. job'[h].pc = "redeem" /\ job'[h].st.begin = NoKey =>
         /\ disk'[h].begin = NoKey \/ Committed(disk'[h].begin)
         /\ \A ch \in DOMAIN challenges : challenges[ch].home = h => ~Usable(ch)
    BY <1>1, <1>7
  <2>6. disk'[h] = disk[h]
    BY <1>1
  <2>. QED
    BY <1>4, <1>5, <1>6, <2>1, <2>2, <2>3, <2>4, <2>5, <2>6 DEF HomeStep
<1>. QED
  BY <1>3, <1>8, HomeMoves

(* An idle run is one.                                                      *)
LEMMA IdleIsAJob == Idle \in Job /\ FreshState \in JoinState
BY DEF Idle, FreshState, Job, JoinState

(* A step that ends a run whose calls nobody waits for.                     *)
LEMMA StopKeeps ==
    ASSUME RedemptionInv, NEW h \in Homes, job[h].pc \notin {"begin", "complete"}, Stop(h),
           UNCHANGED <<aicrewd, calls, aimem, home>>, faults' \in Nat
    PROVE  RedemptionInv'
<1>1. calls' = Abandoned(h)
  BY NothingToAbandon DEF RedemptionInv
<1>. QED
  BY <1>1, IdleIsAJob, JobMoves DEF Stop

(* Every step of a run that changes nothing but the run.                    *)
LEMMA JoinKeeps ==
    ASSUME RedemptionInv, NEW h \in Homes, Join(h)
    PROVE  RedemptionInv'
<1>. DEFINE j == [Idle EXCEPT !.pc = IF disk[h].ch = 0 THEN "redeem" ELSE "prove", !.st = disk[h]]
<1>0. TypeOK /\ DiskInv /\ JobInv /\ CallInv
  BY DEF RedemptionInv
<1>1. disk[h] \in JoinState
  BY <1>0, Types
<1>2. j \in Job /\ j.pc = (IF disk[h].ch = 0 THEN "redeem" ELSE "prove") /\ j.st = disk[h] /\ j.answer = ""
  BY <1>1, IdleIsAJob DEF Idle, Job
<1>3. job' = [job EXCEPT ![h] = j] /\ calls' = Abandoned(h) /\ ~linked[h]
  BY <1>0, NothingToAbandon DEF Join
<1>4. disk[h].ch = 0 => disk[h].complete = NoKey
  BY <1>0 DEF DiskInv
<1>5. UNCHANGED <<aicrewd, aimem, home>> /\ faults' \in Nat
  BY <1>0 DEF Join, home, TypeOK
<1>. HIDE DEF j
<1>. QED
  BY <1>2, <1>3, <1>4, <1>5, JobMoves

(* A run that has begun too often ends.                                     *)
LEMMA TooManyBeginsKeeps ==
    ASSUME RedemptionInv, NEW h \in Homes, TooManyBegins(h)
    PROVE  RedemptionInv'
<1>1. job[h].pc = "redeem" /\ Stop(h) /\ UNCHANGED <<aicrewd, calls, aimem, home>> /\ faults' = faults
  BY DEF TooManyBegins, home
<1>2. faults \in Nat
  BY DEF RedemptionInv, TypeOK
<1>. QED
  BY <1>1, <1>2, StopKeeps

(* A run that gets no proof ends.                                           *)
LEMMA ProofFailsKeeps ==
    ASSUME RedemptionInv, NEW h \in Homes, ProofFails(h)
    PROVE  RedemptionInv'
<1>1. job[h].pc = "prove" /\ Stop(h) /\ UNCHANGED <<aicrewd, calls, aimem, home>> /\ faults' = faults + 1
  BY DEF ProofFails, home, Fault
<1>2. faults \in Nat
  BY DEF RedemptionInv, TypeOK
<1>. QED
  BY <1>1, <1>2, StopKeeps

(* A bootstrap that dies leaves its call unattended.                        *)
LEMMA DieKeeps ==
    ASSUME RedemptionInv, NEW h \in Homes, Die(h)
    PROVE  RedemptionInv'
<1>1. /\ job' = [job EXCEPT ![h] = Idle] /\ calls' = Abandoned(h)
      /\ UNCHANGED <<aicrewd, aimem, home>> /\ faults' = faults + 1
  BY DEF Die, Fault
<1>2. faults' \in Nat
  BY <1>1 DEF RedemptionInv, TypeOK
<1>. QED
  BY <1>1, <1>2, IdleIsAJob, JobMoves

(* So does one that gives its call up; it goes on unanswered.               *)
LEMMA GiveUpKeeps ==
    ASSUME RedemptionInv, NEW h \in Homes, GiveUp(h)
    PROVE  RedemptionInv'
<1>. DEFINE j == [job[h] EXCEPT !.pc = "answered", !.answer = "unanswered"]
<1>1. job \in [Homes -> Job] /\ job[h] \in Job /\ faults \in Nat
  BY DEF RedemptionInv, TypeOK
<1>2. j \in Job /\ j.pc = "answered" /\ j.answer = "unanswered" /\ j.st = job[h].st
  BY <1>1 DEF Job, Retryable
<1>3. /\ job' = [job EXCEPT ![h] = j] /\ calls' = Abandoned(h) /\ job[h].pc \in {"begin", "complete"}
      /\ UNCHANGED <<aicrewd, aimem, home>> /\ faults' = faults + 1
  BY <1>1 DEF GiveUp, Fault
<1>4. faults' \in Nat
  BY <1>1, <1>3
<1>. HIDE DEF j
<1>. QED
  BY <1>2, <1>3, <1>4, JobMoves

(* A completion that failed is proved again from what is saved, or the run  *)
(* ends.                                                                    *)
LEMMA CompleteAgainKeeps ==
    ASSUME RedemptionInv, NEW h \in Homes, CompleteAgain(h)
    PROVE  RedemptionInv'
<1>0. TypeOK /\ DiskInv /\ JobInv /\ CallInv /\ BoundInv
  BY DEF RedemptionInv
<1>1. job \in [Homes -> Job] /\ job[h] \in Job /\ faults \in Nat
  BY <1>0 DEF TypeOK
<1>2. /\ job[h].pc = "answered" /\ job[h].st.complete # NoKey
      /\ UNCHANGED <<aicrewd, calls, aimem, home>> /\ faults' = faults
  BY DEF CompleteAgain, Answer, home
<1>3. job[h].st = disk[h] /\ disk[h].ch # 0 /\ ~linked[h]
  BY <1>0, <1>2 DEF JobInv, Completing
<1>4. calls' = Abandoned(h)
  BY <1>0, <1>2, NothingToAbandon
<1>5. \/ job' = [job EXCEPT ![h].pc = "prove", ![h].proofs = @ + 1, ![h].answer = ""]
      \/ job' = [job EXCEPT ![h].pc = "prove", ![h].tries = @ + 1, ![h].answer = ""]
      \/ Stop(h)
  BY DEF CompleteAgain
<1>6. CASE job' = [job EXCEPT ![h].pc = "prove", ![h].proofs = @ + 1, ![h].answer = ""]
  <2>. DEFINE m == job[h].proofs + 1
               j == [job[h] EXCEPT !.pc = "prove", !.proofs = m, !.answer = ""]
  <2>0. m \in Nat
    <3>1. job[h].proofs \in Nat
      BY <1>1 DEF Job
    <3>. QED
      BY <3>1
  <2>1. j \in Job /\ j.pc = "prove" /\ j.answer = "" /\ j.st = job[h].st
    <3>. HIDE DEF m
    <3>. QED
      BY <1>1, <2>0 DEF Job
  <2>2. job' = [job EXCEPT ![h] = j]
    BY <1>1, <1>6
  <2>. HIDE DEF j
  <2>. QED
    BY <1>1, <1>2, <1>3, <1>4, <2>1, <2>2, JobMoves
<1>7. CASE job' = [job EXCEPT ![h].pc = "prove", ![h].tries = @ + 1, ![h].answer = ""]
  <2>. DEFINE m == job[h].tries + 1
               j == [job[h] EXCEPT !.pc = "prove", !.tries = m, !.answer = ""]
  <2>0. m \in Nat
    <3>1. job[h].tries \in Nat
      BY <1>1 DEF Job
    <3>. QED
      BY <3>1
  <2>1. j \in Job /\ j.pc = "prove" /\ j.answer = "" /\ j.st = job[h].st
    <3>. HIDE DEF m
    <3>. QED
      BY <1>1, <2>0 DEF Job
  <2>2. job' = [job EXCEPT ![h] = j]
    BY <1>1, <1>7
  <2>. HIDE DEF j
  <2>. QED
    BY <1>1, <1>2, <1>3, <1>4, <2>1, <2>2, JobMoves
<1>8. CASE Stop(h)
  BY <1>1, <1>2, <1>8, StopKeeps
<1>. QED
  BY <1>5, <1>6, <1>7, <1>8

(* A begin is sent under the key that is saved for it.                      *)
LEMMA BeginCalls ==
    ASSUME RedemptionInv, NEW h \in Homes, NEW j \in Job, NEW s \in JoinState,
           j.pc = "begin", j.answer = "", j.st = s, s.ch = 0, s.complete = NoKey,
           s.begin \in OwnKeys(h, "begin"), ~linked[h],
           disk[h].ch = 0, disk[h].complete = NoKey,
           \/ s.begin = disk[h].begin
           \/ /\ \A ch \in DOMAIN challenges : challenges[ch].home = h => ~Usable(ch)
              /\ disk[h].begin = NoKey \/ Committed(disk[h].begin),
           job' = [job EXCEPT ![h] = j], disk' = [disk EXCEPT ![h] = s],
           Send(h, "begin", s.begin, 0, 0),
           UNCHANGED <<aicrewd, aimem, linked, faults>>
    PROVE  RedemptionInv'
<1>. DEFINE n == [home |-> h, stage |-> "begin", key |-> s.begin, ch |-> 0, receipt |-> 0, live |-> TRUE]
<1>0. TypeOK /\ DiskInv /\ JobInv /\ CallInv /\ FlightInv /\ BoundInv /\ UsableInv /\ AnswerInv
  BY DEF RedemptionInv
<1>1. /\ UNCHANGED <<invitation, challenges, receipts, bound, redeemed, latest, linked, faults>>
      /\ job'[h] = j /\ disk'[h] = s
      /\ \A g \in Homes : g # h => job'[g] = job[g] /\ disk'[g] = disk[g] /\ linked'[g] = linked[g]
      /\ calls' = Abandoned(h) \cup {n}
  BY <1>0 DEF aicrewd, aimem, TypeOK, Send
<1>5. s.begin \in Key /\ s.begin # NoKey
  BY KeyKinds
<1>2. n \in Call /\ n.home = h /\ n.stage = "begin" /\ n.key = s.begin /\ n.receipt = 0
  <2>1. s.begin \in Key
    BY <1>5
  <2>2. 0 \in Nat /\ 0 \in 0..MaxReceipts
    BY Bounds
  <2>. QED
    BY <2>1, <2>2 DEF Call
<1>. HIDE DEF n
<1>3. TypeOK'
  <2>1. linked' \in [Homes -> BOOLEAN] /\ latest' \in Seq(0..MaxReceipts) /\ Len(latest') = Len(latest)
        /\ faults' \in Nat
    BY <1>0, <1>1 DEF TypeOK
  <2>2. UNCHANGED <<aicrewd, redeemed>> /\ {n} \in SUBSET Call
    BY <1>1, <1>2 DEF aicrewd
  <2>. QED
    BY <1>0, <1>1, <2>1, <2>2, HomeTypes
<1>4. Sending(h, n)
  BY <1>1, <1>2 DEF Sending
<1>6. Saved(h)'
  BY <1>1 DEF Saved
<1>7. Working(h)' /\ job'[h].answer \in {"", "unanswered"}
  <2>1. [s EXCEPT !.ch = 0] = s
    BY DEF JoinState
  <2>. QED
    BY <1>1, <1>5, <2>1 DEF Working, Beginning, Completing
<1>8. \/ disk'[h].begin = disk[h].begin
      \/ /\ \A ch \in DOMAIN challenges : challenges[ch].home = h => ~Usable(ch)
         /\ \A c \in calls : c.home = h /\ c.stage = "begin" /\ ForBegin => Committed(c.key)
  <2>1. CASE s.begin = disk[h].begin
    BY <1>1, <2>1
  <2>2. CASE s.begin # disk[h].begin
    <3>1. ASSUME NEW c \in calls, c.home = h, c.stage = "begin", ForBegin
          PROVE  Committed(c.key)
      <4>1. c.key \in Key /\ c.key # NoKey
        BY <1>0, <3>1, KeyKinds DEF CallInv
      <4>2. ~Committed(c.key) => c.key = disk[h].begin
        BY <1>0, <3>1 DEF UsableInv
      <4>3. disk[h].begin = NoKey \/ Committed(disk[h].begin)
        BY <2>2
      <4>. QED
        BY <4>1, <4>2, <4>3
    <3>2. \A c \in calls : c.home = h /\ c.stage = "begin" /\ ForBegin => Committed(c.key)
      BY <3>1
    <3>. QED
      BY <2>2, <3>2
  <2>. QED
    BY <2>1, <2>2
<1>9. /\ linked'[h] => bound = <<h>>
      /\ bound = <<h>> /\ ~linked'[h] => disk'[h].complete = disk[h].complete /\ ~linked[h]
      /\ disk'[h].complete = disk[h].complete /\ disk'[h].ch = disk[h].ch
      /\ job'[h].pc # "redeem"
  BY <1>1
<1>10. HomeStep(h, {n})
  <2>1. UNCHANGED <<invitation, challenges, receipts, bound, redeemed>>
    BY <1>1
  <2>2. \A m \in {n} : {n} = {m} /\ Sending(h, m)
    BY <1>4
  <2>. QED
    BY <1>1, <1>6, <1>7, <1>8, <1>9, <2>1, <2>2 DEF HomeStep
<1>. QED
  BY <1>3, <1>10, HomeMoves

(* A begin is sent with the saved key, or with a new one when no challenge  *)
(* of the home is of use.                                                   *)
LEMMA BeginKeeps ==
    ASSUME RedemptionInv, NEW h \in Homes, Begin(h)
    PROVE  RedemptionInv'
<1>. DEFINE key == IF job[h].st.begin = NoKey THEN NewKey(h, "begin") ELSE job[h].st.begin
            s == [job[h].st EXCEPT !.begin = key]
            b == job[h].begins + 1
            j == [job[h] EXCEPT !.pc = "begin", !.st = s, !.begins = b, !.tries = 0]
<1>0. TypeOK /\ DiskInv /\ JobInv /\ UsableInv
  BY DEF RedemptionInv
<1>1. job[h] \in Job /\ job[h].st \in JoinState /\ disk[h] \in JoinState /\ b \in Nat
  <2>1. job[h] \in Job /\ job[h].st \in JoinState /\ disk[h] \in JoinState
    BY <1>0, Types
  <2>2. job[h].begins \in Nat
    BY <2>1 DEF Job
  <2>. QED
    BY <2>1, <2>2
<1>2. job[h].pc = "redeem" /\ (job[h].st.begin = NoKey => KeyLeft(h, "begin"))
  BY DEF Begin
<1>3. /\ job[h].st.ch = 0 /\ job[h].st.complete = NoKey /\ job[h].answer = "" /\ ~linked[h]
      /\ job[h].st.begin \in {NoKey, disk[h].begin} /\ disk[h].ch = 0 /\ disk[h].complete = NoKey
  BY <1>0, <1>2 DEF JobInv, DiskInv
<1>4. key \in OwnKeys(h, "begin")
  <2>1. CASE job[h].st.begin = NoKey
    BY <1>2, <2>1, NewKeyIsNew
  <2>2. CASE job[h].st.begin # NoKey
    BY <1>0, <1>3, <2>2 DEF DiskInv
  <2>. QED
    BY <2>1, <2>2
<1>5. job' = [job EXCEPT ![h] = j]
  <2>1. job \in [Homes -> Job]
    BY <1>0 DEF TypeOK
  <2>. QED
    BY <2>1 DEF Begin
<1>6. disk' = [disk EXCEPT ![h] = s] /\ Send(h, "begin", key, 0, 0)
      /\ UNCHANGED <<aicrewd, aimem, linked, faults>>
  BY DEF Begin, Save
<1>7. \/ key = disk[h].begin
      \/ /\ \A ch \in DOMAIN challenges : challenges[ch].home = h => ~Usable(ch)
         /\ disk[h].begin = NoKey \/ Committed(disk[h].begin)
  BY <1>0, <1>2, <1>3 DEF UsableInv
<1>. HIDE DEF key, b
<1>8. s \in JoinState /\ s.begin = key /\ s.ch = 0 /\ s.complete = NoKey
  <2>1. key \in Key
    BY <1>4, KeysApart
  <2>. QED
    BY <1>1, <1>3, <2>1 DEF JoinState
<1>. HIDE DEF s
<1>9. j \in Job /\ j.pc = "begin" /\ j.answer = "" /\ j.st = s
  BY <1>1, <1>3, <1>8 DEF Job
<1>. HIDE DEF j
<1>. QED
  BY <1>3, <1>4, <1>5, <1>6, <1>7, <1>8, <1>9, BeginCalls

(* A begin that failed is sent again with its key, drops the key of a       *)
(* challenge that is gone, or ends the run.                                 *)
LEMMA BeginAgainKeeps ==
    ASSUME RedemptionInv, NEW h \in Homes, BeginAgain(h)
    PROVE  RedemptionInv'
<1>0. TypeOK /\ DiskInv /\ JobInv /\ CallInv /\ UsableInv /\ AnswerInv
  BY DEF RedemptionInv
<1>1. /\ job \in [Homes -> Job] /\ job[h] \in Job /\ job[h].st \in JoinState /\ disk[h] \in JoinState
      /\ faults \in Nat
  BY <1>0, Types DEF TypeOK
<1>2. /\ job[h].pc = "answered" /\ job[h].st.complete = NoKey /\ job[h].answer # "ok"
      /\ UNCHANGED <<aicrewd, aimem, disk, linked, faults>>
  BY DEF BeginAgain, Answer
<1>3. Beginning(h) /\ ~linked[h]
  BY <1>0, <1>2 DEF Beginning, JobInv
<1>4. /\ disk[h] = [job[h].st EXCEPT !.ch = 0] /\ job[h].st.begin # NoKey /\ job[h].st.ch = 0
  BY <1>0, <1>2, <1>3 DEF JobInv
<1>5. /\ disk[h] = job[h].st /\ disk[h].begin = job[h].st.begin /\ disk[h].ch = 0 /\ disk[h].complete = NoKey
      /\ disk[h].begin \in OwnKeys(h, "begin")
  <2>1. [job[h].st EXCEPT !.ch = 0] = job[h].st
    BY <1>1, <1>4 DEF JoinState
  <2>. QED
    BY <1>0, <1>2, <1>4, <2>1 DEF DiskInv
<1>6. CASE job[h].answer = "challenge_invalid"
  <2>. DEFINE s == [job[h].st EXCEPT !.begin = NoKey]
              j == [job[h] EXCEPT !.pc = "redeem", !.st = s, !.answer = ""]
  <2>1. s \in JoinState /\ s.begin = NoKey /\ s.ch = 0 /\ s.complete = NoKey
    BY <1>1, <1>2, <1>4 DEF JoinState
  <2>2. job' = [job EXCEPT ![h] = j] /\ UNCHANGED calls
    <3>1. job' = [job EXCEPT ![h].pc = "redeem", ![h].st.begin = NoKey, ![h].answer = ""] /\ UNCHANGED calls
      BY <1>6 DEF BeginAgain
    <3>. QED
      BY <1>1, <3>1
  <2>. HIDE DEF s
  <2>3. j \in Job /\ j.pc = "redeem" /\ j.answer = "" /\ j.st = s
    BY <1>1, <2>1 DEF Job
  <2>. HIDE DEF j
  <2>4. Committed(disk[h].begin) /\ ~Current(receipts[disk[h].begin])
    BY <1>0, <1>3, <1>5, <1>6 DEF AnswerInv
  <2>5. calls' = Abandoned(h) /\ UNCHANGED <<aicrewd, aimem, home>> /\ faults' \in Nat
    BY <1>0, <1>1, <1>2, <2>2, NothingToAbandon DEF home
  <2>. QED
    BY <1>3, <1>5, <2>1, <2>2, <2>3, <2>4, <2>5, JobMoves
<1>7. CASE job[h].answer # "challenge_invalid" /\ job[h].answer \in Retryable /\ job[h].tries < MaxRetries
  <2>. DEFINE m == job[h].tries + 1
              j == [job[h] EXCEPT !.pc = "begin", !.tries = m, !.answer = ""]
  <2>1. m \in Nat
    <3>1. job[h].tries \in Nat
      BY <1>1 DEF Job
    <3>. QED
      BY <3>1
  <2>2. job' = [job EXCEPT ![h] = j] /\ Send(h, "begin", disk[h].begin, 0, 0)
    BY <1>1, <1>5, <1>7 DEF BeginAgain
  <2>. HIDE DEF m
  <2>3. j \in Job /\ j.pc = "begin" /\ j.answer = "" /\ j.st = disk[h]
    BY <1>1, <1>5, <2>1 DEF Job
  <2>. HIDE DEF j
  <2>4. disk' = [disk EXCEPT ![h] = disk[h]]
    BY <1>0, <1>2 DEF TypeOK
  <2>5. UNCHANGED <<aicrewd, aimem, linked, faults>>
    BY <1>2
  <2>. QED
    BY <1>1, <1>3, <1>5, <2>2, <2>3, <2>4, <2>5, BeginCalls
<1>8. CASE ~(job[h].answer \in Retryable /\ job[h].tries < MaxRetries) /\ job[h].answer # "challenge_invalid"
  <2>1. Stop(h) /\ UNCHANGED <<aicrewd, calls, aimem, home>> /\ faults' \in Nat
    BY <1>1, <1>2, <1>8 DEF BeginAgain, home
  <2>. QED
    BY <1>2, <2>1, StopKeeps
<1>. QED
  BY <1>6, <1>7, <1>8

(* What a run that completes has saved.                                     *)
LEMMA CompletingFacts ==
    ASSUME TypeOK, DiskInv, JobInv, NEW h \in Homes, Completing(h)
    PROVE  /\ job[h].st = disk[h] /\ disk[h].ch # 0 /\ disk[h].ch \in DOMAIN challenges
           /\ disk[h].complete \in OwnKeys(h, "complete") /\ disk[h].complete \in Key
           /\ disk[h].complete # NoKey
           /\ Committed(disk[h].begin) /\ receipts[disk[h].begin] = disk[h].ch
           /\ ~linked[h]
<1>1. job[h].st = disk[h] /\ disk[h].ch # 0
  BY DEF JobInv
<1>2. disk[h].complete \in OwnKeys(h, "complete") /\ disk[h].complete # NoKey
  BY <1>1 DEF DiskInv
<1>3. Committed(disk[h].begin) /\ receipts[disk[h].begin] = disk[h].ch
  BY <1>1 DEF DiskInv
<1>4. ~linked[h]
  BY DEF JobInv, Completing
<1>. QED
  BY <1>1, <1>2, <1>3, <1>4, KeyKinds, Types DEF Committed

(* A home the invitation is redeemed for is not refused.                    *)
LEMMA NotRefused ==
    ASSUME TypeOK, RedeemedOnce, RefusalIsTrue, NEW h \in Homes, bound = <<h>>
    PROVE  job[h].answer \notin Refusals
<1>1. 1 \in DOMAIN bound /\ bound[1] = h
  OBVIOUS
<1>. QED
  BY <1>1 DEF RefusalIsTrue

(* A completion is sent with a new receipt, under the saved key, for the    *)
(* saved challenge.                                                         *)
LEMMA ProveKeeps ==
    ASSUME RedemptionInv, NEW h \in Homes, Prove(h)
    PROVE  RedemptionInv'
<1>. DEFINE r == FreshReceipt
            n == [home |-> h, stage |-> "complete", key |-> job[h].st.complete, ch |-> job[h].st.ch,
                  receipt |-> r, live |-> TRUE]
            j == [job[h] EXCEPT !.pc = "complete"]
<1>0. TypeOK /\ DiskInv /\ JobInv /\ BoundInv
  BY DEF RedemptionInv
<1>1. job[h] \in Job /\ job[h].st \in JoinState /\ disk[h] \in JoinState
  BY <1>0, Types
<1>2. Completing(h) /\ job[h].pc = "prove" /\ job[h].answer = ""
  BY <1>0 DEF Prove, Completing, JobInv
<1>3. /\ job[h].st = disk[h] /\ disk[h].ch # 0 /\ disk[h].ch \in DOMAIN challenges
      /\ disk[h].complete \in OwnKeys(h, "complete") /\ disk[h].complete \in Key
      /\ disk[h].complete # NoKey /\ ~linked[h]
  BY <1>0, <1>2, CompletingFacts
<1>4. r \in 1..MaxReceipts /\ r \notin ReceiptsInUse
  BY FreshReceiptIsFresh DEF Prove
<1>5. /\ latest' = [latest EXCEPT ![disk[h].ch] = r] /\ calls' = Abandoned(h) \cup {n}
      /\ UNCHANGED <<aicrewd, redeemed, home, faults>>
  BY <1>3 DEF Prove, Send
<1>6. job' = [job EXCEPT ![h] = j]
  <2>1. job \in [Homes -> Job]
    BY <1>0 DEF TypeOK
  <2>2. job' = [job EXCEPT ![h].pc = "complete"]
    BY DEF Prove
  <2>. QED
    BY <2>1, <2>2
<1>7. j \in Job /\ j.pc = "complete" /\ j.answer = "" /\ j.st = disk[h]
  BY <1>1, <1>2, <1>3 DEF Job
<1>. HIDE DEF r, j
<1>8. r \in 0..MaxReceipts /\ r # 0
  BY <1>4, Bounds
<1>9. /\ n \in Call /\ n.home = h /\ n.stage = "complete" /\ n.key = disk[h].complete
      /\ n.ch = disk[h].ch /\ n.receipt = r
  <2>1. disk[h].ch \in Nat
    BY <1>1 DEF JoinState
  <2>. QED
    BY <1>3, <1>8, <2>1 DEF Call
<1>. HIDE DEF n
<1>10. /\ UNCHANGED <<invitation, challenges, receipts, bound, redeemed, linked, disk, faults>>
       /\ job'[h] = j /\ \A g \in Homes : g # h => job'[g] = job[g]
  BY <1>0, <1>5, <1>6 DEF aicrewd, home, TypeOK
<1>11. TypeOK'
  <2>1. latest' \in Seq(0..MaxReceipts) /\ Len(latest') = Len(latest)
    <3>1. latest \in Seq(0..MaxReceipts) /\ disk[h].ch \in 1..Len(latest)
      BY <1>0, <1>3 DEF TypeOK
    <3>. QED
      BY <1>5, <1>8, <3>1, ExceptSeq
  <2>2. linked' \in [Homes -> BOOLEAN] /\ faults' \in Nat /\ disk' = [disk EXCEPT ![h] = disk[h]]
    BY <1>0, <1>10 DEF TypeOK
  <2>3. UNCHANGED <<aicrewd, redeemed>> /\ {n} \in SUBSET Call
    BY <1>5, <1>9
  <2>. QED
    BY <1>0, <1>1, <1>5, <1>6, <1>7, <2>1, <2>2, <2>3, HomeTypes
<1>12. Sending(h, n)
  BY <1>3, <1>4, <1>7, <1>8, <1>9, <1>10 DEF Sending
<1>13. Saved(h)'
  BY <1>0, <1>10 DEF Saved, DiskInv, Committed
<1>14. Working(h)' /\ job'[h].answer \in {"", "unanswered"}
  BY <1>3, <1>7, <1>10 DEF Working, Beginning, Completing
<1>15. HomeStep(h, {n})
  <2>1. UNCHANGED <<invitation, challenges, receipts, bound, redeemed>>
    BY <1>10
  <2>2. \A g \in Homes : g # h => job'[g] = job[g] /\ disk'[g] = disk[g] /\ linked'[g] = linked[g]
    BY <1>10
  <2>3. \A m \in {n} : {n} = {m} /\ Sending(h, m)
    BY <1>12
  <2>4. disk'[h] = disk[h] /\ ~linked'[h] /\ ~linked[h] /\ job'[h].pc # "redeem"
    BY <1>3, <1>7, <1>10
  <2>. QED
    BY <1>5, <1>13, <1>14, <2>1, <2>2, <2>3, <2>4 DEF HomeStep
<1>. QED
  BY <1>11, <1>15, HomeMoves

(* A run that saves or clears its state keeps the invariant.                *)
LEMMA SaveKeeps ==
    ASSUME RedemptionInv, NEW h \in Homes, NEW j \in Job, NEW s \in JoinState, NEW l \in BOOLEAN,
           job[h].pc = "answered",
           job' = [job EXCEPT ![h] = j], disk' = [disk EXCEPT ![h] = s],
           linked' = [linked EXCEPT ![h] = l],
           UNCHANGED <<aicrewd, calls, aimem, faults>>,
           Saved(h)', Working(h)', j.answer = "",
           l => bound = <<h>>,
           ~l => bound # <<h>>,
           \/ s.begin = disk[h].begin
           \/ /\ \A ch \in DOMAIN challenges : challenges[ch].home = h => ~Usable(ch)
              /\ \A c \in calls : c.home = h /\ c.stage = "begin" /\ ForBegin => Committed(c.key),
           \A c \in calls : c.home = h /\ c.stage # "begin" => ~Usable(c.ch),
           j.pc = "redeem" => s.begin = NoKey /\ \A ch \in DOMAIN challenges :
                                                    challenges[ch].home = h => ~Usable(ch)
    PROVE  RedemptionInv'
<1>0. TypeOK /\ CallInv
  BY DEF RedemptionInv
<1>1. /\ UNCHANGED <<invitation, challenges, receipts, bound, redeemed, latest, faults>>
      /\ job'[h] = j /\ disk'[h] = s /\ linked'[h] = l
      /\ \A g \in Homes : g # h => job'[g] = job[g] /\ disk'[g] = disk[g] /\ linked'[g] = linked[g]
  BY <1>0 DEF aicrewd, aimem, TypeOK
<1>2. calls' = Abandoned(h) \cup {}
  BY <1>0, NothingToAbandon
<1>3. TypeOK'
  <2>1. /\ linked' \in [Homes -> BOOLEAN] /\ latest' \in Seq(0..MaxReceipts) /\ Len(latest') = Len(latest)
        /\ faults' \in Nat
    BY <1>0, <1>1 DEF TypeOK
  <2>2. UNCHANGED <<aicrewd, redeemed>> /\ {} \in SUBSET Call
    BY <1>1
  <2>. QED
    BY <1>0, <1>2, <2>1, <2>2, HomeTypes
<1>4. UNCHANGED <<invitation, challenges, receipts, bound, redeemed>>
  BY <1>1
<1>5. HomeStep(h, {})
  BY <1>1, <1>2, <1>4 DEF HomeStep
<1>. QED
  BY <1>3, <1>5, HomeMoves

(* The challenge is saved with the key of its completion.                   *)
LEMMA BegunKeeps ==
    ASSUME RedemptionInv, NEW h \in Homes, Begun(h)
    PROVE  RedemptionInv'
<1>. DEFINE k == NewKey(h, "complete")
            s == [job[h].st EXCEPT !.complete = k]
            j == [Idle EXCEPT !.pc = "prove", !.st = s, !.begins = job[h].begins]
<1>0. TypeOK /\ DiskInv /\ JobInv /\ CallInv /\ BoundInv /\ UsableInv /\ AnswerInv
  BY DEF RedemptionInv
<1>1. job[h] \in Job /\ job[h].st \in JoinState /\ disk[h] \in JoinState
  BY <1>0, Types
<1>2. job[h].pc = "answered" /\ job[h].st.complete = NoKey /\ job[h].answer = "ok" /\ Beginning(h)
  BY DEF Begun, Answer, Beginning
<1>3. /\ disk[h] = [job[h].st EXCEPT !.ch = 0] /\ job[h].st.begin # NoKey /\ ~linked[h]
      /\ Committed(job[h].st.begin) /\ receipts[job[h].st.begin] = job[h].st.ch
  BY <1>0, <1>2 DEF JobInv, AnswerInv
<1>4. disk[h].ch = 0 /\ disk[h].complete = NoKey /\ disk[h].begin = job[h].st.begin
  BY <1>1, <1>2, <1>3 DEF JoinState
<1>5. job[h].st.ch \in DOMAIN challenges /\ job[h].st.ch # 0
  BY <1>0, <1>3, Types DEF Committed
<1>6. k \in OwnKeys(h, "complete") /\ k \in Key /\ k # NoKey
  BY NewKeyIsNew, KeyKinds DEF Begun
<1>7. /\ job' = [job EXCEPT ![h] = j] /\ disk' = [disk EXCEPT ![h] = s]
      /\ UNCHANGED <<aicrewd, calls, aimem, linked, faults>>
  BY DEF Begun
<1>. HIDE DEF k
<1>8. s \in JoinState /\ s.begin = disk[h].begin /\ s.ch = job[h].st.ch /\ s.complete = k
  BY <1>1, <1>4, <1>6 DEF JoinState
<1>. HIDE DEF s
<1>9. j \in Job /\ j.pc = "prove" /\ j.answer = "" /\ j.st = s
  <2>1. job[h].begins \in Nat
    BY <1>1 DEF Job
  <2>. QED
    BY <1>8, <2>1 DEF Job, Idle
<1>. HIDE DEF j
<1>10. /\ job'[h] = j /\ disk'[h] = s /\ ~linked'[h] /\ receipts' = receipts
       /\ linked' = [linked EXCEPT ![h] = FALSE]
  BY <1>0, <1>3, <1>7 DEF TypeOK, aicrewd
<1>11. Saved(h)'
  <2>1. s.begin \in OwnKeys(h, "begin") \cup {NoKey}
    BY <1>0, <1>8 DEF DiskInv
  <2>. QED
    BY <1>3, <1>4, <1>5, <1>6, <1>8, <1>10, <2>1 DEF Saved, Committed
<1>12. Working(h)'
  BY <1>5, <1>8, <1>9, <1>10 DEF Working, Beginning, Completing
<1>13. bound # <<h>>
  <2>1. ~Committed(NoKey)
    BY <1>0, Types, KeysApart DEF Committed
  <2>. QED
    BY <1>0, <1>3, <1>4, <2>1 DEF BoundInv
<1>14. \A c \in calls : c.home = h /\ c.stage # "begin" => ~Usable(c.ch)
  <2>. SUFFICES ASSUME NEW c \in calls, c.home = h, c.stage # "begin", Usable(c.ch) PROVE FALSE
    OBVIOUS
  <2>1. c.ch = 0
    BY <1>0, <1>4 DEF UsableInv
  <2>2. c.ch \in DOMAIN challenges
    BY <1>0 DEF CallInv
  <2>. QED
    BY <1>0, <2>1, <2>2, Types
<1>. QED
  BY <1>2, <1>7, <1>8, <1>9, <1>10, <1>11, <1>12, <1>13, <1>14, SaveKeeps

(* Only the home the invitation is redeemed for is linked.                  *)
LEMMA LinkKeeps ==
    ASSUME RedemptionInv, NEW h \in Homes, Link(h)
    PROVE  RedemptionInv'
<1>0. TypeOK /\ DiskInv /\ JobInv /\ CallInv /\ BoundInv /\ UsableInv /\ AnswerInv
  BY DEF RedemptionInv
<1>1. job[h].pc = "answered" /\ job[h].answer = "ok" /\ Completing(h)
  BY DEF Link, Answer, Completing
<1>2. bound = <<h>>
  BY <1>0, <1>1 DEF BoundInv
<1>3. ~ForCompletion /\ ~ForBegin
  BY <1>0, <1>2 DEF BoundInv, RedeemedOnce, ForCompletion, ForBegin
<1>4. \A ch : ~Usable(ch)
  BY <1>3 DEF Usable
<1>5. /\ job' = [job EXCEPT ![h] = Idle] /\ disk' = [disk EXCEPT ![h] = FreshState]
      /\ linked' = [linked EXCEPT ![h] = TRUE] /\ UNCHANGED <<aicrewd, calls, aimem, faults>>
  BY DEF Link, Stop
<1>6. job'[h] = Idle /\ disk'[h] = FreshState
  BY <1>0, <1>5 DEF TypeOK
<1>7. Idle.pc = "idle" /\ Idle.answer = ""
  BY DEF Idle
<1>8. FreshState.begin = NoKey /\ FreshState.complete = NoKey /\ FreshState.ch = 0
  BY DEF FreshState
<1>9. Saved(h)'
  BY <1>6, <1>8 DEF Saved
<1>10. Working(h)'
  BY <1>6, <1>7 DEF Working, Beginning, Completing
<1>. QED
  BY <1>1, <1>2, <1>3, <1>4, <1>5, <1>7, <1>9, <1>10, IdleIsAJob, SaveKeeps

(* The state is cleared only when the challenge it names is of no use.      *)
LEMMA ChallengeGoneKeeps ==
    ASSUME RedemptionInv, NEW h \in Homes, ChallengeGone(h)
    PROVE  RedemptionInv'
<1>. DEFINE j == [job[h] EXCEPT !.pc = "redeem", !.st = FreshState, !.answer = ""]
<1>0. TypeOK /\ DiskInv /\ JobInv /\ CallInv /\ BoundInv /\ UsableInv /\ AnswerInv
  BY DEF RedemptionInv
<1>1. job[h].pc = "answered" /\ job[h].answer = "challenge_invalid" /\ Completing(h)
  BY DEF ChallengeGone, Answer, Completing
<1>2. /\ job[h].st = disk[h] /\ disk[h].ch # 0
      /\ Committed(disk[h].begin) /\ receipts[disk[h].begin] = disk[h].ch /\ ~linked[h]
  BY <1>0, <1>1, CompletingFacts
<1>3. ~Usable(disk[h].ch)
  BY <1>0, <1>1, <1>2 DEF AnswerInv, Usable
<1>4. bound # <<h>>
  BY <1>0, <1>1, NotRefused DEF BoundInv, AnswerInv, Refusals
<1>5. \A ch \in DOMAIN challenges : challenges[ch].home = h => ~Usable(ch)
  BY <1>0, <1>2, <1>3 DEF UsableInv
<1>6. \A c \in calls : c.home = h /\ c.stage = "begin" /\ ForBegin => Committed(c.key)
  BY <1>0, <1>2 DEF UsableInv
<1>7. \A c \in calls : c.home = h /\ c.stage # "begin" => ~Usable(c.ch)
  BY <1>0, <1>3 DEF UsableInv
<1>8. /\ job' = [job EXCEPT ![h] = j] /\ disk' = [disk EXCEPT ![h] = FreshState]
      /\ linked' = [linked EXCEPT ![h] = FALSE] /\ UNCHANGED <<aicrewd, calls, aimem, faults>>
  <2>1. job' = [job EXCEPT ![h].pc = "redeem", ![h].st = FreshState, ![h].answer = ""]
    BY DEF ChallengeGone
  <2>2. job \in [Homes -> Job] /\ linked = [linked EXCEPT ![h] = FALSE]
    BY <1>0, <1>2 DEF TypeOK
  <2>. QED
    BY <2>1, <2>2 DEF ChallengeGone
<1>9. j \in Job /\ j.pc = "redeem" /\ j.st = FreshState /\ j.answer = ""
  <2>1. job[h] \in Job
    BY <1>0, Types
  <2>. QED
    BY <2>1, IdleIsAJob DEF Job
<1>. HIDE DEF j
<1>10. job'[h] = j /\ disk'[h] = FreshState /\ linked'[h] = FALSE
  BY <1>0, <1>8 DEF TypeOK
<1>11. FreshState.begin = NoKey /\ FreshState.complete = NoKey /\ FreshState.ch = 0
  BY DEF FreshState
<1>12. Saved(h)'
  BY <1>10, <1>11 DEF Saved
<1>13. Working(h)'
  BY <1>9, <1>10, <1>11 DEF Working, Beginning, Completing
<1>. QED
  BY <1>1, <1>4, <1>5, <1>6, <1>7, <1>8, <1>9, <1>11, <1>12, <1>13, IdleIsAJob, SaveKeeps

-----------------------------------------------------------------------------
(* A step of aicrewd that stores nothing *)

(* The types after a call ends.                                             *)
LEMMA ReplyTypes ==
    ASSUME TypeOK, NEW c \in calls, NEW code \in Answers, Reply(c, code),
           UNCHANGED <<invitation, challenges, receipts, bound, disk, linked>>,
           latest' \in Seq(0..MaxReceipts), Len(latest') = Len(latest),
           DOMAIN redeemed' \subseteq Key, redeemed' \in [DOMAIN redeemed' -> 1..MaxReceipts],
           faults' \in Nat
    PROVE  TypeOK'
<1>1. calls' = calls \ {c} /\ job' \in [Homes -> Job]
  BY ReplyFacts
<1>. QED
  BY <1>1 DEF TypeOK

(* What aimem keeps after it redeemed the receipt of a call.                *)
LEMMA ApplyFacts ==
    ASSUME TypeOK, CallInv, NEW c \in calls, c.stage # "begin", Applies(c), Apply(c)
    PROVE  /\ latest' \in Seq(0..MaxReceipts) /\ Len(latest') = Len(latest)
           /\ DOMAIN redeemed' = DOMAIN redeemed \cup {c.key} /\ DOMAIN redeemed' \subseteq Key
           /\ redeemed' \in [DOMAIN redeemed' -> 1..MaxReceipts]
           /\ redeemed'[c.key] = c.receipt
           /\ \A k \in DOMAIN redeemed : redeemed'[k] = redeemed[k]
<1>1. c \in Call /\ c.key \in Key /\ c.receipt # 0 /\ c.ch \in DOMAIN challenges
  BY Types DEF CallInv
<1>2. c.receipt \in 1..MaxReceipts
  <2>1. c.receipt \in 0..MaxReceipts
    BY <1>1 DEF Call
  <2>. QED
    BY <1>1, <2>1, Bounds
<1>3. latest \in Seq(0..MaxReceipts) /\ c.ch \in 1..Len(latest) /\ 0 \in 0..MaxReceipts
  BY <1>1, Bounds DEF TypeOK
<1>4. latest' \in Seq(0..MaxReceipts) /\ Len(latest') = Len(latest)
  BY <1>3, ExceptSeq DEF Apply
<1>5. DOMAIN redeemed \subseteq Key /\ redeemed \in [DOMAIN redeemed -> 1..MaxReceipts]
  BY DEF TypeOK
<1>6. /\ DOMAIN redeemed' = DOMAIN redeemed \cup {c.key} /\ redeemed'[c.key] = c.receipt
      /\ redeemed' = [k \in DOMAIN redeemed \cup {c.key} |-> IF k = c.key THEN c.receipt ELSE redeemed[k]]
      /\ \A k \in DOMAIN redeemed : redeemed'[k] = redeemed[k]
  BY DEF Apply, Applies
<1>7. redeemed' \in [DOMAIN redeemed' -> 1..MaxReceipts]
  BY <1>2, <1>5, <1>6
<1>. QED
  BY <1>1, <1>4, <1>5, <1>6, <1>7

(* Why aicrewd refuses is so.                                               *)
LEMMA RefusedFacts ==
    ASSUME NEW ch
    PROVE  /\ Refused(ch) \in {"", "invitation_invalid", "challenge_invalid"}
           /\ Refused(ch) = "" => ForCompletion /\ Current(ch)
           /\ Refused(ch) = "invitation_invalid" => ~ForCompletion
           /\ Refused(ch) = "challenge_invalid" => ~Current(ch)
<1>1. CASE ~ForCompletion
  BY <1>1 DEF Refused
<1>2. CASE ForCompletion /\ ~Current(ch)
  BY <1>2 DEF Refused
<1>3. CASE ForCompletion /\ Current(ch)
  BY <1>3 DEF Refused
<1>. QED
  BY <1>1, <1>2, <1>3

(* The answer of a call that only reads.                                    *)
LEMMA ReadKeeps ==
    ASSUME RedemptionInv, NEW c \in calls, NEW code \in Answers, Reply(c, code),
           UNCHANGED <<aicrewd, aimem, home>>, faults' \in Nat,
           c.stage = "begin" => /\ code # "ok"
                                /\ code = "challenge_invalid" =>
                                     Committed(c.key) /\ ~Current(receipts[c.key]),
           c.stage # "begin" => /\ code = "ok" => bound = <<c.home>>
                                /\ code = "invitation_invalid" => ~ForCompletion
                                /\ code = "challenge_invalid" => ~Current(c.ch)
                                /\ code = "identity_mismatch" => c.home \notin Admitted
                                /\ code = "aimem_unconfigured" =>
                                     /\ c.key \in DOMAIN redeemed
                                     /\ \A d \in calls \ {c} : d.stage = "verified" => d.key # c.key,
           c.stage = "complete" /\ Committed(c.key) => code = "ok"
    PROVE  RedemptionInv'
<1>1. UNCHANGED <<invitation, challenges, receipts, bound, disk, linked>>
  BY DEF aicrewd, home
<1>2. latest' = latest /\ redeemed' = redeemed
  BY DEF aimem
<1>3. TypeOK
  BY DEF RedemptionInv
<1>4. TypeOK'
  <2>1. /\ latest' \in Seq(0..MaxReceipts) /\ Len(latest') = Len(latest) /\ DOMAIN redeemed' \subseteq Key
        /\ redeemed' \in [DOMAIN redeemed' -> 1..MaxReceipts]
    BY <1>2, <1>3 DEF TypeOK
  <2>. QED
    BY <1>1, <1>3, <2>1, ReplyTypes
<1>. QED
  BY <1>1, <1>2, <1>4, ReplyKeeps

(* The answers that refuse a begin or a completion.                         *)
LEMMA Codes ==
    {"ok", "invitation_invalid", "challenge_invalid", "identity_mismatch", "aimem_unconfigured",
     "proof_invalid", "request_in_progress", "identity_unavailable"} \subseteq Answers
BY DEF Answers, Refusals, Retryable

(* A completion that aicrewd has recorded is one of the home it is bound to. *)
LEMMA RecordedIsBound ==
    ASSUME TypeOK, CallInv, BoundInv, NEW c \in calls, c.stage # "begin", Committed(c.key)
    PROVE  bound = <<c.home>>
<1>1. c.key \in OwnKeys(c.home, "complete") /\ c.home \in Homes
  BY Types DEF CallInv
<1>2. c.key[1] = c.home /\ c.key[2] = "complete"
  BY <1>1, KeysApart
<1>. QED
  BY <1>2 DEF BoundInv, Committed

(* A begin that is refused, new or replayed.                                *)
LEMMA BeginRefusedKeeps ==
    ASSUME RedemptionInv, NEW c \in calls, BeginRefused(c)
    PROVE  RedemptionInv'
<1>1. /\ c.stage = "begin" /\ Reply(c, "invitation_invalid")
      /\ UNCHANGED <<aicrewd, aimem, home, faults>>
  BY DEF BeginRefused, At
<1>2. faults' \in Nat
  BY <1>1 DEF RedemptionInv, TypeOK
<1>. QED
  BY <1>1, <1>2, Codes, ReadKeeps

(* A begin is refused on replay when its challenge or the invitation is     *)
(* gone.                                                                    *)
LEMMA ReplayRefusedKeeps ==
    ASSUME RedemptionInv, NEW c \in calls, ReplayBegin(c), Refused(receipts[c.key]) # ""
    PROVE  RedemptionInv'
<1>1. /\ c.stage = "begin" /\ Reply(c, Refused(receipts[c.key])) /\ Committed(c.key)
      /\ UNCHANGED <<aicrewd, aimem, home, faults>>
  BY DEF ReplayBegin, At
<1>2. faults' \in Nat
  BY <1>1 DEF RedemptionInv, TypeOK
<1>. DEFINE code == Refused(receipts[c.key])
<1>3. /\ code \in {"invitation_invalid", "challenge_invalid"}
      /\ code = "challenge_invalid" => ~Current(receipts[c.key])
  BY RefusedFacts
<1>4. code \in Answers /\ code # "ok"
  BY <1>3, Codes
<1>. HIDE DEF code
<1>5. Reply(c, code)
  BY <1>1 DEF code
<1>. QED
  BY <1>1, <1>2, <1>3, <1>4, <1>5, ReadKeeps

(* A completion answered from the receipts, or refused before aimem is      *)
(* asked.                                                                   *)
LEMMA LookupReplies ==
    ASSUME RedemptionInv, NEW c \in calls, Lookup(c), Committed(c.key) \/ Refused(c.ch) # ""
    PROVE  RedemptionInv'
<1>1. c.stage = "complete" /\ UNCHANGED <<aicrewd, aimem, home, faults>>
  BY DEF Lookup, At
<1>2. faults' \in Nat
  BY <1>1 DEF RedemptionInv, TypeOK
<1>3. CASE Committed(c.key)
  <2>1. bound = <<c.home>>
    BY <1>1, <1>3, RecordedIsBound DEF RedemptionInv
  <2>2. Reply(c, "ok") /\ "ok" \in Answers
    BY <1>3, Codes DEF Lookup
  <2>. QED
    BY <1>1, <1>2, <2>1, <2>2, ReadKeeps
<1>4. CASE ~Committed(c.key)
  <2>. DEFINE code == Refused(c.ch)
  <2>1. /\ code \in {"invitation_invalid", "challenge_invalid"}
        /\ code = "invitation_invalid" => ~ForCompletion
        /\ code = "challenge_invalid" => ~Current(c.ch)
    BY <1>4, RefusedFacts
  <2>2. Reply(c, code)
    BY <1>4 DEF Lookup
  <2>. HIDE DEF code
  <2>. QED
    BY <1>1, <1>2, <1>4, <2>1, <2>2, Codes, ReadKeeps
<1>. QED
  BY <1>3, <1>4

(* A completion that waited too long for an identical one is told so.       *)
LEMMA InProgressKeeps ==
    ASSUME RedemptionInv, NEW c \in calls, InProgress(c)
    PROVE  RedemptionInv'
<1>1. /\ c.stage = "complete" /\ Reply(c, "request_in_progress") /\ Busy(c)
      /\ UNCHANGED <<aicrewd, aimem, home, faults>>
  BY DEF InProgress, At
<1>2. faults' \in Nat
  BY <1>1 DEF RedemptionInv, TypeOK
<1>3. ~Committed(c.key)
  <2>1. PICK d \in calls : d.key = c.key /\ InFlight(d)
    BY <1>1 DEF Busy, InFlight
  <2>. QED
    BY <2>1 DEF RedemptionInv, FlightInv
<1>. QED
  BY <1>1, <1>2, <1>3, Codes, ReadKeeps

(* A call whose client is gone ends.                                        *)
LEMMA CancelledKeeps ==
    ASSUME RedemptionInv, NEW c \in calls, Cancelled(c)
    PROVE  RedemptionInv'
<1>1. ~c.live /\ calls' = calls \ {c} /\ UNCHANGED <<aicrewd, aimem, job, home, faults>>
  BY DEF Cancelled
<1>2. \A code : Reply(c, code)
  BY <1>1 DEF Reply
<1>3. faults' \in Nat
  BY <1>1 DEF RedemptionInv, TypeOK
<1>4. CASE c.stage = "complete" /\ Committed(c.key)
  <2>1. bound = <<c.home>>
    BY <1>4, RecordedIsBound DEF RedemptionInv
  <2>. QED
    BY <1>1, <1>2, <1>3, <1>4, <2>1, Codes, ReadKeeps
<1>5. CASE ~(c.stage = "complete" /\ Committed(c.key))
  BY <1>1, <1>2, <1>3, <1>5, Codes, ReadKeeps
<1>. QED
  BY <1>4, <1>5

(* A completion that aimem refuses, or leaves unanswered.                   *)
LEMMA RedeemRefused ==
    ASSUME RedemptionInv, NEW c \in calls, Redeem(c), ~(calls' = (calls \ {c}) \cup
               {[c EXCEPT !.stage = "verified"]} /\ job' = job)
    PROVE  RedemptionInv'
<1>1. c.stage = "checked" /\ UNCHANGED <<aicrewd, home, faults>>
  BY DEF Redeem, At
<1>2. faults' \in Nat
  BY <1>1 DEF RedemptionInv, TypeOK
<1>3. \/ Conflicts(c) /\ Reply(c, "aimem_unconfigured") /\ UNCHANGED aimem
      \/ c.key \notin DOMAIN redeemed /\ Reply(c, "proof_invalid") /\ UNCHANGED aimem
  BY DEF Redeem, Advance
<1>4. CASE Conflicts(c) /\ Reply(c, "aimem_unconfigured") /\ UNCHANGED aimem
  <2>1. c.key \in DOMAIN redeemed
    BY <1>4 DEF Conflicts
  <2>2. \A d \in calls \ {c} : d.stage = "verified" => d.key # c.key
    BY <1>1 DEF RedemptionInv, FlightInv, InFlight
  <2>. QED
    BY <1>1, <1>2, <1>4, <2>1, <2>2, Codes, ReadKeeps
<1>5. CASE c.key \notin DOMAIN redeemed /\ Reply(c, "proof_invalid") /\ UNCHANGED aimem
  BY <1>1, <1>2, <1>5, Codes, ReadKeeps
<1>. QED
  BY <1>3, <1>4, <1>5

(* A completion that aimem left unanswered says so, also when the receipt   *)
(* was redeemed.                                                            *)
LEMMA RedeemUnansweredKeeps ==
    ASSUME RedemptionInv, NEW c \in calls, RedeemUnanswered(c)
    PROVE  RedemptionInv'
<1>1. /\ c.stage = "checked" /\ Reply(c, "identity_unavailable")
      /\ UNCHANGED <<aicrewd, home>> /\ faults' = faults + 1
  BY DEF RedeemUnanswered, At, Fault
<1>2. TypeOK /\ CallInv
  BY DEF RedemptionInv
<1>3. faults' \in Nat
  BY <1>1, <1>2 DEF TypeOK
<1>4. CASE UNCHANGED aimem
  BY <1>1, <1>3, <1>4, Codes, ReadKeeps
<1>5. CASE Applies(c) /\ Apply(c)
  <2>1. UNCHANGED <<invitation, challenges, receipts, bound, disk, linked>>
    BY <1>1 DEF aicrewd, home
  <2>2. /\ latest' \in Seq(0..MaxReceipts) /\ Len(latest') = Len(latest)
        /\ DOMAIN redeemed' = DOMAIN redeemed \cup {c.key} /\ DOMAIN redeemed' \subseteq Key
        /\ redeemed' \in [DOMAIN redeemed' -> 1..MaxReceipts]
        /\ redeemed'[c.key] = c.receipt
        /\ \A k \in DOMAIN redeemed : redeemed'[k] = redeemed[k]
    BY <1>1, <1>2, <1>5, ApplyFacts
  <2>3. TypeOK'
    BY <1>1, <1>2, <1>3, <2>1, <2>2, Codes, ReplyTypes
  <2>4. \A k \in DOMAIN redeemed' : \/ k \in DOMAIN redeemed /\ redeemed'[k] = redeemed[k]
                                    \/ redeemed'[k] = c.receipt
    BY <2>2
  <2>. QED
    BY <1>1, <2>1, <2>2, <2>3, <2>4, Codes, ReplyKeeps
<1>. QED
  BY <1>4, <1>5 DEF RedeemUnanswered

(* A completion that is refused when it would commit.                       *)
LEMMA CommitRefused ==
    ASSUME RedemptionInv, NEW c \in calls, Commit(c), ~(Recheck(c) = "" /\ c.home \in Admitted)
    PROVE  RedemptionInv'
<1>. DEFINE code == IF Recheck(c) # "" THEN Recheck(c) ELSE "identity_mismatch"
<1>1. c.stage = "verified" /\ UNCHANGED <<aicrewd, aimem, home, faults>> /\ Reply(c, code)
  BY DEF Commit, At
<1>2. faults' \in Nat
  BY <1>1 DEF RedemptionInv, TypeOK
<1>3. /\ code \in {"invitation_invalid", "challenge_invalid", "identity_mismatch"}
      /\ code = "invitation_invalid" => ~ForCompletion
      /\ code = "challenge_invalid" => ~Current(c.ch)
      /\ code = "identity_mismatch" => c.home \notin Admitted
  BY RefusedFacts DEF Recheck
<1>. HIDE DEF code
<1>. QED
  BY <1>1, <1>2, <1>3, Codes, ReadKeeps

-----------------------------------------------------------------------------
(* A completion goes on *)

(* A completion that is checked, and then verified, keeps the invariant     *)
(* while none of its key is in flight or recorded.                          *)
LEMMA AdvanceKeeps ==
    ASSUME RedemptionInv, NEW c \in calls, NEW stage \in {"checked", "verified"},
           c.stage \in {"complete", "checked"}, Advance(c, stage), TypeOK',
           UNCHANGED <<invitation, challenges, receipts, bound, disk, linked>>,
           DOMAIN redeemed \subseteq DOMAIN redeemed',
           \A k \in DOMAIN redeemed' : \/ k \in DOMAIN redeemed /\ redeemed'[k] = redeemed[k]
                                       \/ redeemed'[k] = c.receipt,
           stage = "checked" => redeemed' = redeemed,
           stage = "verified" => c.key \notin DOMAIN redeemed,
           ~Committed(c.key),
           \A d \in calls \ {c} : InFlight(d) => d.key # c.key
    PROVE  RedemptionInv'
<1>. DEFINE e == [c EXCEPT !.stage = stage]
<1>0. TypeOK /\ DiskInv /\ JobInv /\ CallInv /\ FlightInv /\ BoundInv /\ UsableInv /\ AnswerInv
  BY DEF RedemptionInv
<1>1. calls' = (calls \ {c}) \cup {e} /\ job' = job
  BY DEF Advance
<1>2. /\ e.home = c.home /\ e.key = c.key /\ e.ch = c.ch /\ e.receipt = c.receipt /\ e.live = c.live
      /\ e.stage = stage /\ c.receipt # 0
  BY <1>0, Types DEF Call, CallInv
<1>. HIDE DEF e
<1>3. \A d \in calls' : d = e \/ (d \in calls /\ d # c /\ d.receipt # c.receipt)
  BY <1>0, <1>1, <1>2 DEF FlightInv
<1>4. \A d \in calls' : \E f \in calls :
         /\ f.home = d.home /\ f.key = d.key /\ f.ch = d.ch /\ f.receipt = d.receipt
         /\ f.live = d.live /\ (f.stage = "begin") = (d.stage = "begin")
         /\ (d = e /\ f = c) \/ (f = d /\ d # e /\ d # c)
  <2>. SUFFICES ASSUME NEW d \in calls'
       PROVE  \E f \in calls :
                /\ f.home = d.home /\ f.key = d.key /\ f.ch = d.ch /\ f.receipt = d.receipt
                /\ f.live = d.live /\ (f.stage = "begin") = (d.stage = "begin")
                /\ (d = e /\ f = c) \/ (f = d /\ d # e /\ d # c)
    OBVIOUS
  <2>1. CASE d = e
    BY <1>2, <2>1
  <2>2. CASE d # e
    BY <1>3, <2>2
  <2>. QED
    BY <2>1, <2>2
<1>5. /\ \A h : Beginning(h)' = Beginning(h) /\ Completing(h)' = Completing(h)
      /\ \A ch : Usable(ch)' = Usable(ch) /\ Current(ch)' = Current(ch)
      /\ \A key : Committed(key)' = Committed(key)
      /\ ForBegin' = ForBegin /\ ForCompletion' = ForCompletion
  BY <1>1 DEF Beginning, Completing, Usable, Current, Committed, ForBegin, ForCompletion
<1>6. DiskInv'
  BY <1>0 DEF DiskInv, Committed
<1>7. JobInv'
  BY <1>0, <1>1, <1>5 DEF JobInv
<1>8. CallInv'
  <2>1. ASSUME NEW d \in calls'
        PROVE  /\ d.stage = "begin" => d.key \in OwnKeys(d.home, "begin") /\ d.receipt = 0
               /\ d.stage # "begin" => /\ d.key \in OwnKeys(d.home, "complete")
                                       /\ d.ch \in DOMAIN challenges /\ d.receipt # 0
               /\ d.live /\ d.stage = "begin" =>
                      job[d.home].pc = "begin" /\ d.key = job[d.home].st.begin
               /\ d.live /\ d.stage # "begin" =>
                      /\ job[d.home].pc = "complete" /\ d.key = job[d.home].st.complete
                      /\ d.ch = job[d.home].st.ch
    BY <1>0, <1>4 DEF CallInv
  <2>2. ASSUME NEW d \in calls', NEW f \in calls', d.live, f.live, d.home = f.home
        PROVE  d = f
    BY <1>0, <1>4, <2>2 DEF CallInv
  <2>. QED
    BY <1>1, <2>1, <2>2 DEF CallInv
<1>9. FlightInv'
  <2>1. ASSUME NEW d \in calls'
        PROVE  /\ InFlight(d) => ~Committed(d.key)
               /\ d.stage \in {"complete", "checked"} => \A k \in DOMAIN redeemed' : redeemed'[k] # d.receipt
    <3>1. CASE d = e
      BY <1>0, <1>2, <3>1 DEF FlightInv
    <3>2. CASE d # e
      BY <1>0, <1>3, <3>2 DEF FlightInv
    <3>. QED
      BY <3>1, <3>2
  <2>2. ASSUME NEW d \in calls', NEW f \in calls', InFlight(d), InFlight(f), d.key = f.key
        PROVE  d = f
    BY <1>0, <1>2, <1>3, <2>2 DEF FlightInv
  <2>3. ASSUME NEW d \in calls', NEW f \in calls', d.receipt = f.receipt, d.receipt # 0
        PROVE  d = f
    BY <1>0, <1>2, <1>3, <2>3 DEF FlightInv
  <2>. QED
    BY <1>5, <2>1, <2>2, <2>3 DEF FlightInv, InFlight
<1>10. BoundInv'
  BY <1>0, <1>1, <1>5 DEF BoundInv, RedeemedOnce
<1>11. UsableInv'
  <2>1. ASSUME NEW d \in calls'
        PROVE  /\ d.stage = "begin" /\ ~Committed(d.key) /\ ForBegin => d.key = disk[d.home].begin
               /\ d.stage # "begin" /\ Usable(d.ch) =>
                     d.key = disk[d.home].complete /\ d.ch = disk[d.home].ch
    BY <1>0, <1>4 DEF UsableInv
  <2>. QED
    BY <1>0, <1>1, <1>5, <2>1 DEF UsableInv
<1>12. AnswerInv'
  <2>1. RefusalIsTrue'
    BY <1>0, <1>1 DEF AnswerInv, RefusalIsTrue
  <2>2. ASSUME NEW h \in Homes, Completing(h), job[h].answer = "aimem_unconfigured"
        PROVE  /\ job[h].st.complete \in DOMAIN redeemed'
               /\ \A d \in calls' : d.stage = "verified" => d.key # job[h].st.complete
    <3>1. /\ job[h].st.complete \in DOMAIN redeemed
          /\ \A d \in calls : d.stage = "verified" => d.key # job[h].st.complete
      BY <1>0, <2>2 DEF AnswerInv
    <3>. QED
      BY <1>2, <1>3, <3>1
  <2>. QED
    BY <1>0, <1>1, <1>5, <2>1, <2>2 DEF AnswerInv
<1>. QED
  BY <1>6, <1>7, <1>8, <1>9, <1>10, <1>11, <1>12 DEF RedemptionInv

(* The types after a completion goes on.                                    *)
LEMMA AdvanceTypes ==
    ASSUME TypeOK, NEW c \in calls, NEW stage \in {"checked", "verified"}, Advance(c, stage),
           UNCHANGED <<invitation, challenges, receipts, bound, disk, linked, faults>>,
           latest' \in Seq(0..MaxReceipts), Len(latest') = Len(latest),
           DOMAIN redeemed' \subseteq Key, redeemed' \in [DOMAIN redeemed' -> 1..MaxReceipts]
    PROVE  TypeOK'
<1>1. c \in Call
  BY Types
<1>2. [c EXCEPT !.stage = stage] \in Call
  BY <1>1 DEF Call
<1>3. calls' \subseteq Call /\ job' = job
  BY <1>2 DEF Advance, TypeOK
<1>. QED
  BY <1>3 DEF TypeOK

(* A completion is checked while none of its key is in flight.              *)
LEMMA LookupKeeps ==
    ASSUME RedemptionInv, NEW c \in calls, Lookup(c)
    PROVE  RedemptionInv'
<1>1. CASE Committed(c.key) \/ Refused(c.ch) # ""
  BY <1>1, LookupReplies
<1>2. CASE ~(Committed(c.key) \/ Refused(c.ch) # "")
  <2>1. /\ c.stage = "complete" /\ Advance(c, "checked") /\ ~Busy(c)
        /\ UNCHANGED <<aicrewd, aimem, home, faults>>
    BY <1>2 DEF Lookup, At
  <2>2. UNCHANGED <<invitation, challenges, receipts, bound, disk, linked, faults, latest, redeemed>>
    BY <2>1 DEF aicrewd, aimem, home
  <2>3. /\ TypeOK /\ latest' \in Seq(0..MaxReceipts) /\ Len(latest') = Len(latest)
        /\ DOMAIN redeemed' \subseteq Key /\ redeemed' \in [DOMAIN redeemed' -> 1..MaxReceipts]
    BY <2>2 DEF RedemptionInv, TypeOK
  <2>4. TypeOK'
    BY <2>1, <2>2, <2>3, AdvanceTypes
  <2>5. \A d \in calls \ {c} : InFlight(d) => d.key # c.key
    BY <2>1 DEF Busy, InFlight
  <2>. QED
    BY <1>2, <2>1, <2>2, <2>4, <2>5, AdvanceKeeps
<1>. QED
  BY <1>1, <1>2

(* A completion is verified when aimem redeems its receipt, which no other  *)
(* call carries.                                                            *)
LEMMA RedeemKeeps ==
    ASSUME RedemptionInv, NEW c \in calls, Redeem(c)
    PROVE  RedemptionInv'
<1>0. TypeOK /\ CallInv /\ FlightInv
  BY DEF RedemptionInv
<1>1. CASE Advance(c, "verified")
  <2>1. c.stage = "checked" /\ UNCHANGED <<aicrewd, home, faults>>
    BY DEF Redeem, At
  <2>2. UNCHANGED <<invitation, challenges, receipts, bound, disk, linked, faults>>
    BY <2>1 DEF aicrewd, home
  <2>3. \A k \in DOMAIN redeemed : redeemed[k] # c.receipt
    BY <1>0, <2>1 DEF FlightInv
  <2>4. (Applies(c) /\ Apply(c)) \/ ~(calls' = (calls \ {c}) \cup {[c EXCEPT !.stage = "verified"]} /\ job' = job)
        \/ Reply(c, "aimem_unconfigured") \/ Reply(c, "proof_invalid")
    BY <2>3 DEF Redeem, Vouched
  <2>5. ~Reply(c, "aimem_unconfigured") /\ ~Reply(c, "proof_invalid")
    <3>. DEFINE e == [c EXCEPT !.stage = "verified"]
    <3>1. e.stage = "verified"
      BY <1>0, Types DEF Call
    <3>2. e \in calls' /\ e # c
      BY <1>1, <2>1, <3>1 DEF Advance
    <3>3. e \notin calls
      <4>1. e.receipt = c.receipt /\ c.receipt # 0
        BY <1>0, <2>1, Types DEF Call, CallInv
      <4>. QED
        BY <1>0, <3>2, <4>1 DEF FlightInv
    <3>. QED
      BY <3>2, <3>3 DEF Reply
  <2>6. Applies(c) /\ Apply(c)
    BY <1>1, <2>4, <2>5 DEF Advance
  <2>7. /\ latest' \in Seq(0..MaxReceipts) /\ Len(latest') = Len(latest)
        /\ DOMAIN redeemed' = DOMAIN redeemed \cup {c.key} /\ DOMAIN redeemed' \subseteq Key
        /\ redeemed' \in [DOMAIN redeemed' -> 1..MaxReceipts]
        /\ redeemed'[c.key] = c.receipt
        /\ \A k \in DOMAIN redeemed : redeemed'[k] = redeemed[k]
    BY <1>0, <2>1, <2>6, ApplyFacts
  <2>8. TypeOK'
    BY <1>0, <1>1, <2>2, <2>7, AdvanceTypes
  <2>9. c.key \notin DOMAIN redeemed
    BY <2>6 DEF Applies
  <2>10. ~Committed(c.key) /\ \A d \in calls \ {c} : InFlight(d) => d.key # c.key
    BY <1>0, <2>1 DEF FlightInv, InFlight
  <2>11. \A k \in DOMAIN redeemed' : \/ k \in DOMAIN redeemed /\ redeemed'[k] = redeemed[k]
                                     \/ redeemed'[k] = c.receipt
    BY <2>7
  <2>. QED
    BY <1>1, <2>1, <2>2, <2>7, <2>8, <2>9, <2>10, <2>11, AdvanceKeeps
<1>2. CASE ~Advance(c, "verified")
  BY <1>2, RedeemRefused DEF Advance
<1>. QED
  BY <1>1, <1>2

-----------------------------------------------------------------------------
(* A begin is answered *)

(* The end of a begin, for the run that waits for it.                       *)
LEMMA ChallengeFacts ==
    ASSUME TypeOK, DiskInv, JobInv, CallInv, NEW c \in calls, c.stage = "begin", NEW ch \in Nat,
           ReplyChallenge(c, ch)
    PROVE  /\ calls' = calls \ {c} /\ job' \in [Homes -> Job]
           /\ \A h \in Homes : ~(c.live /\ h = c.home) => job'[h] = job[h]
           /\ c.live => /\ job'[c.home].pc = "answered" /\ job'[c.home].answer = "ok"
                        /\ job'[c.home].st = [job[c.home].st EXCEPT !.ch = ch]
                        /\ job'[c.home].st.begin = c.key /\ job'[c.home].st.ch = ch
                        /\ job'[c.home].st.complete = NoKey
                        /\ ~linked[c.home] /\ c.key # NoKey
                        /\ disk[c.home] = [job'[c.home].st EXCEPT !.ch = 0]
<1>1. c.home \in Homes /\ job \in [Homes -> Job] /\ c.key \in OwnKeys(c.home, "begin")
  BY Types DEF TypeOK, CallInv
<1>2. job[c.home] \in Job /\ job[c.home].st \in JoinState
  BY <1>1, Types
<1>. DEFINE s == [job[c.home].st EXCEPT !.ch = ch]
            j == [job[c.home] EXCEPT !.pc = "answered", !.answer = "ok", !.st = s]
<1>3. s \in JoinState /\ s.begin = job[c.home].st.begin /\ s.ch = ch /\ s.complete = job[c.home].st.complete
  BY <1>2 DEF JoinState
<1>4. [s EXCEPT !.ch = 0] = [job[c.home].st EXCEPT !.ch = 0]
  BY <1>2 DEF JoinState
<1>5. c.live => job' = [job EXCEPT ![c.home] = j]
  BY <1>1, <1>2 DEF ReplyChallenge
<1>6. ~c.live => job' = job
  BY DEF ReplyChallenge
<1>7. c.live => /\ job[c.home].pc = "begin" /\ c.key = job[c.home].st.begin
                /\ disk[c.home] = [job[c.home].st EXCEPT !.ch = 0] /\ job[c.home].st.complete = NoKey
                /\ ~linked[c.home]
  BY <1>1, LiveCalls DEF JobInv
<1>8. c.key # NoKey
  BY <1>1, KeyKinds
<1>. HIDE DEF s
<1>9. j \in Job /\ j.pc = "answered" /\ j.answer = "ok" /\ j.st = s
  BY <1>2, <1>3 DEF Job
<1>. HIDE DEF j
<1>10. job' \in [Homes -> Job] /\ (c.live => job'[c.home] = j)
  BY <1>1, <1>5, <1>6, <1>9
<1>11. \A h \in Homes : ~(c.live /\ h = c.home) => job'[h] = job[h]
  BY <1>1, <1>5, <1>6
<1>12. calls' = calls \ {c}
  BY DEF ReplyChallenge
<1>13. s = [job[c.home].st EXCEPT !.ch = ch]
  BY DEF s
<1>. QED
  BY <1>3, <1>4, <1>7, <1>8, <1>9, <1>10, <1>11, <1>12, <1>13

(* The runs after a begin was answered.                                     *)
LEMMA ChallengeRuns ==
    ASSUME TypeOK, DiskInv, JobInv, CallInv, NEW c \in calls, c.stage = "begin", NEW ch \in Nat,
           ReplyChallenge(c, ch), UNCHANGED <<disk, linked>>
    PROVE  /\ \A h \in Homes : Beginning(h)' = Beginning(h) /\ Completing(h)' = Completing(h)
           /\ JobInv'
<1>0. c.home \in Homes
  BY Types
<1>1. /\ calls' = calls \ {c} /\ job' \in [Homes -> Job]
      /\ \A h \in Homes : ~(c.live /\ h = c.home) => job'[h] = job[h]
      /\ c.live => /\ job'[c.home].pc = "answered" /\ job'[c.home].answer = "ok"
                   /\ job'[c.home].st.begin = c.key /\ job'[c.home].st.complete = NoKey
                   /\ ~linked[c.home] /\ c.key # NoKey
                   /\ disk[c.home] = [job'[c.home].st EXCEPT !.ch = 0]
  BY ChallengeFacts
<1>2. \A h \in Homes : Beginning(h)' = Beginning(h) /\ Completing(h)' = Completing(h)
  <2>. TAKE h \in Homes
  <2>1. CASE c.live /\ h = c.home
    <3>1. Beginning(h) /\ ~Completing(h)
      BY <2>1, LiveCalls
    <3>. QED
      BY <1>1, <2>1, <3>1 DEF Beginning, Completing
  <2>2. CASE ~(c.live /\ h = c.home)
    BY <1>1, <2>2 DEF Beginning, Completing
  <2>. QED
    BY <2>1, <2>2
<1>3. ASSUME NEW h \in Homes PROVE Working(h)'
  <2>1. CASE ~(c.live /\ h = c.home)
    <3>1. job'[h] = job[h]
      BY <1>1, <2>1
    <3>. QED
      BY <1>2, <3>1, ZenonT(40) DEF JobInv, Working
  <2>2. CASE c.live /\ h = c.home
    BY <1>1, <2>2 DEF Working, Beginning, Completing
  <2>. QED
    BY <2>1, <2>2
<1>. QED
  BY <1>2, <1>3 DEF JobInv, Working

(* A begin that is replayed answers with the challenge it had.              *)
LEMMA ReplayKeeps ==
    ASSUME RedemptionInv, NEW c \in calls, ReplayBegin(c), Refused(receipts[c.key]) = ""
    PROVE  RedemptionInv'
<1>. DEFINE ch == receipts[c.key]
<1>0. TypeOK /\ DiskInv /\ JobInv /\ CallInv /\ FlightInv /\ BoundInv /\ UsableInv /\ AnswerInv
  BY DEF RedemptionInv
<1>1. c.stage = "begin" /\ Committed(c.key) /\ ReplyChallenge(c, ch) /\ UNCHANGED <<aicrewd, aimem, home, faults>>
  BY DEF ReplayBegin, At
<1>2. UNCHANGED <<invitation, challenges, receipts, bound, latest, redeemed, disk, linked, faults>>
  BY <1>1 DEF aicrewd, aimem, home
<1>3. ch \in DOMAIN challenges /\ ch \in Nat /\ c.home \in Homes
  <2>1. ch \in DOMAIN challenges /\ c.home \in Homes
    BY <1>0, <1>1, Types DEF Committed
  <2>. QED
    BY <1>0, <2>1, Issued
<1>. HIDE DEF ch
<1>4. /\ calls' = calls \ {c} /\ job' \in [Homes -> Job]
      /\ \A h \in Homes : ~(c.live /\ h = c.home) => job'[h] = job[h]
      /\ c.live => /\ job'[c.home].pc = "answered" /\ job'[c.home].answer = "ok"
                   /\ job'[c.home].st.begin = c.key /\ job'[c.home].st.ch = ch
                   /\ job'[c.home].st.complete = NoKey
  BY <1>0, <1>1, <1>3, ChallengeFacts
<1>5. /\ \A h \in Homes : Beginning(h)' = Beginning(h) /\ Completing(h)' = Completing(h)
      /\ JobInv'
  BY <1>0, <1>1, <1>2, <1>3, ChallengeRuns
<1>6. TypeOK'
  BY <1>0, <1>2, <1>4 DEF TypeOK
<1>7. DiskInv'
  BY <1>0, <1>2 DEF DiskInv, Committed
<1>8. CallInv'
  BY <1>0, <1>2, <1>4, CallsLeft
<1>9. FlightInv'
  BY <1>0, <1>2, <1>4 DEF FlightInv, Committed, InFlight
<1>10. /\ \A key : Usable(key)' = Usable(key) /\ Current(key)' = Current(key) /\ Committed(key)' = Committed(key)
       /\ ForBegin' = ForBegin /\ ForCompletion' = ForCompletion
  BY <1>2 DEF Usable, Current, Committed, ForBegin, ForCompletion
<1>11. c.live => ~Completing(c.home)
  BY <1>0, <1>1, LiveCalls
<1>12. BoundInv'
  <2>1. RedeemedOnce'
    BY <1>0, <1>2 DEF BoundInv, RedeemedOnce
  <2>2. \A h \in Homes : Completing(h)' /\ job'[h].answer = "ok" => bound = <<h>>
    BY <1>0, <1>3, <1>4, <1>5, <1>11 DEF BoundInv
  <2>. QED
    BY <1>0, <1>2, <1>10, <2>1, <2>2 DEF BoundInv
<1>13. UsableInv'
  <2>1. \A h \in Homes : job'[h].pc = "redeem" => job'[h] = job[h]
    BY <1>4
  <2>. QED
    BY <1>0, <1>2, <1>4, <1>10, <2>1 DEF UsableInv
<1>14. RefusalIsTrue'
  <2>1. \A i \in DOMAIN bound : bound[i] \in Homes
    BY <1>0, BoundIsOne DEF BoundInv
  <2>. QED
    BY <1>0, <1>2, <1>4, <2>1 DEF RefusalIsTrue, AnswerInv, Refusals
<1>15. AnswerInv'
  <2>1. ch = receipts[c.key]
    BY DEF ch
  <2>2. ASSUME NEW h \in Homes
        PROVE  /\ Beginning(h) /\ job'[h].answer = "ok" =>
                      Committed(job'[h].st.begin) /\ receipts[job'[h].st.begin] = job'[h].st.ch
               /\ Beginning(h) /\ job'[h].answer = "challenge_invalid" =>
                      Committed(job'[h].st.begin) /\ ~Current(receipts[job'[h].st.begin])
               /\ Completing(h) /\ job'[h].answer = "invitation_invalid" => ~ForCompletion
               /\ Completing(h) /\ job'[h].answer = "challenge_invalid" => ~Current(job'[h].st.ch)
               /\ Completing(h) /\ job'[h].answer = "identity_mismatch" => h \notin Admitted
               /\ Completing(h) /\ job'[h].answer = "aimem_unconfigured" =>
                      /\ job'[h].st.complete \in DOMAIN redeemed
                      /\ \A d \in calls' : d.stage = "verified" => d.key # job'[h].st.complete
    <3>1. CASE c.live /\ h = c.home
      BY <1>1, <1>4, <1>11, <2>1, <3>1
    <3>2. CASE ~(c.live /\ h = c.home)
      <4>1. job'[h] = job[h]
        BY <1>4, <3>2
      <4>. QED
        BY <1>0, <1>4, <4>1 DEF AnswerInv
    <3>. QED
      BY <3>1, <3>2
  <2>. QED
    BY <1>2, <1>5, <1>10, <1>14, <2>2 DEF AnswerInv
<1>. QED
  BY <1>5, <1>6, <1>7, <1>8, <1>9, <1>12, <1>13, <1>15 DEF RedemptionInv

(* What a new challenge changes.                                            *)
LEMMA NewChallenge ==
    ASSUME TypeOK, NEW c \in calls, c.stage = "begin", BeginRedemption(c)
    PROVE  /\ ~Committed(c.key) /\ ForBegin /\ ForCompletion'
           /\ ReplyChallenge(c, Len(challenges) + 1)
           /\ UNCHANGED <<bound, redeemed, disk, linked, faults>>
           /\ invitation' \in [state : {"issued", "locked", "redeemed", "closed"}, attempts : Nat]
           /\ invitation'.state \in {"issued", "locked"}
           /\ challenges' \in Seq([home : Homes, state : {"pending", "gone", "consumed"}])
           /\ Len(challenges') = Len(challenges) + 1
           /\ DOMAIN challenges' = DOMAIN challenges \cup {Len(challenges) + 1}
           /\ Len(challenges) + 1 \notin DOMAIN challenges
           /\ challenges'[Len(challenges) + 1].home = c.home
           /\ \A ch \in DOMAIN challenges : /\ challenges'[ch].home = challenges[ch].home
                                            /\ ~Current(ch)'
           /\ DOMAIN receipts' = DOMAIN receipts \cup {c.key}
           /\ receipts'[c.key] = Len(challenges) + 1
           /\ \A k \in DOMAIN receipts : receipts'[k] = receipts[k]
           /\ latest' \in Seq(0..MaxReceipts) /\ Len(latest') = Len(latest) + 1
<1>. DEFINE Ch == [home : Homes, state : {"pending", "gone", "consumed"}]
            n == Len(challenges) + 1
            new == [home |-> c.home, state |-> "pending"]
            old == [ch \in DOMAIN challenges |->
                      IF challenges[ch].state = "pending"
                      THEN [challenges[ch] EXCEPT !.state = "gone"] ELSE challenges[ch]]
<1>1. /\ DOMAIN challenges = 1..Len(challenges) /\ Len(challenges) \in Nat /\ n \in Nat
      /\ \A ch \in DOMAIN challenges : challenges[ch] \in Ch
  BY Issued
<1>2. /\ ~Committed(c.key) /\ ForBegin /\ ReplyChallenge(c, n)
      /\ UNCHANGED <<bound, redeemed, disk, linked, faults>>
      /\ challenges' = Append(old, new) /\ latest' = Append(latest, 0)
      /\ receipts' = [k \in DOMAIN receipts \cup {c.key} |-> IF k = c.key THEN n ELSE receipts[k]]
      /\ invitation' = [invitation EXCEPT !.attempts = invitation.attempts + 1,
                          !.state = IF invitation.attempts + 1 >= MaxAttempts THEN "locked" ELSE "issued"]
  BY DEF BeginRedemption, home
<1>3. /\ invitation' \in [state : {"issued", "locked", "redeemed", "closed"}, attempts : Nat]
      /\ invitation'.state \in {"issued", "locked"}
  <2>. DEFINE a == invitation.attempts + 1
              b == a >= MaxAttempts
  <2>1. invitation \in [state : {"issued", "locked", "redeemed", "closed"}, attempts : Nat]
    BY DEF TypeOK
  <2>2. a \in Nat
    <3>1. invitation.attempts \in Nat
      BY <2>1
    <3>. QED
      BY <3>1
  <2>3. b \in BOOLEAN
    OBVIOUS
  <2>4. invitation' = [invitation EXCEPT !.attempts = a, !.state = IF b THEN "locked" ELSE "issued"]
    BY <1>2
  <2>. HIDE DEF a, b
  <2>. QED
    BY <2>1, <2>2, <2>3, <2>4
<1>4. ForCompletion'
  BY <1>3 DEF ForCompletion
<1>5. /\ \A ch \in DOMAIN challenges :
            old[ch] \in Ch /\ old[ch].home = challenges[ch].home /\ old[ch].state # "pending"
      /\ DOMAIN old = DOMAIN challenges
  BY <1>1
<1>6. new \in Ch /\ new.home = c.home
  BY Types
<1>. HIDE DEF new, old
<1>7. old \in Seq(Ch) /\ Len(old) = Len(challenges)
  <2>1. old \in [1..Len(challenges) -> Ch]
    <3>1. DOMAIN old = 1..Len(challenges)
      BY <1>1, <1>5
    <3>2. old = [ch \in DOMAIN old |-> old[ch]]
      BY DEF old
    <3>. QED
      BY <1>1, <1>5, <3>1, <3>2
  <2>2. old \in Seq(Ch)
    <3>. HIDE DEF Ch
    <3>. QED
      BY <1>1, <2>1, IsSequence
  <2>. QED
    BY <1>1, <2>1, <2>2
<1>8. /\ challenges' \in Seq(Ch) /\ Len(challenges') = n
      /\ \A ch \in DOMAIN challenges : challenges'[ch] = old[ch]
      /\ challenges'[n] = new
  BY <1>1, <1>2, <1>6, <1>7, AppendProperties
<1>9. DOMAIN challenges' = DOMAIN challenges \cup {n} /\ n \notin DOMAIN challenges
  <2>1. DOMAIN challenges' = 1..n
    BY <1>8
  <2>. QED
    BY <1>1, <2>1
<1>10. \A ch \in DOMAIN challenges : challenges'[ch].home = challenges[ch].home /\ ~Current(ch)'
  BY <1>5, <1>8 DEF Current
<1>11. latest' \in Seq(0..MaxReceipts) /\ Len(latest') = Len(latest) + 1
  BY <1>2, Bounds, AppendProperties DEF TypeOK
<1>12. /\ DOMAIN receipts' = DOMAIN receipts \cup {c.key} /\ receipts'[c.key] = n
       /\ \A k \in DOMAIN receipts : receipts'[k] = receipts[k]
  <2>1. c.key \notin DOMAIN receipts
    BY <1>2 DEF Committed
  <2>. QED
    BY <1>2, <2>1
<1>. QED
  BY <1>2, <1>3, <1>4, <1>6, <1>8, <1>9, <1>10, <1>11, <1>12

(* A new challenge keeps the invariant: the home's key is the one that is   *)
(* saved, and the challenge before it is gone.                              *)
LEMMA BeginRedemptionKeeps ==
    ASSUME RedemptionInv, NEW c \in calls, BeginRedemption(c)
    PROVE  RedemptionInv'
<1>. DEFINE n == Len(challenges) + 1
<1>0. TypeOK /\ DiskInv /\ JobInv /\ CallInv /\ FlightInv /\ BoundInv /\ UsableInv /\ AnswerInv
  BY DEF RedemptionInv
<1>1. c.stage = "begin" /\ c.home \in Homes /\ c.key \in OwnKeys(c.home, "begin") /\ c.key \in Key /\ c.key # NoKey
  <2>1. c.stage = "begin"
    BY DEF BeginRedemption, At
  <2>2. c.home \in Homes /\ c.key \in OwnKeys(c.home, "begin")
    BY <1>0, <2>1, Types DEF CallInv
  <2>. QED
    BY <2>1, <2>2, KeyKinds
<1>2. /\ ~Committed(c.key) /\ ForBegin /\ ForCompletion' /\ ReplyChallenge(c, n)
      /\ UNCHANGED <<bound, redeemed, disk, linked, faults>>
      /\ invitation' \in [state : {"issued", "locked", "redeemed", "closed"}, attempts : Nat]
      /\ invitation'.state \in {"issued", "locked"}
  BY <1>0, <1>1, NewChallenge
<1>3. /\ challenges' \in Seq([home : Homes, state : {"pending", "gone", "consumed"}])
      /\ Len(challenges') = n /\ DOMAIN challenges' = DOMAIN challenges \cup {n}
      /\ n \notin DOMAIN challenges /\ challenges'[n].home = c.home
      /\ \A ch \in DOMAIN challenges : /\ challenges'[ch].home = challenges[ch].home
                                       /\ challenges'[ch].state # "pending"
  BY <1>0, <1>1, NewChallenge DEF Current
<1>4. /\ DOMAIN receipts' = DOMAIN receipts \cup {c.key} /\ receipts'[c.key] = n
      /\ \A k \in DOMAIN receipts : receipts'[k] = receipts[k]
      /\ latest' \in Seq(0..MaxReceipts) /\ Len(latest') = Len(latest) + 1
  BY <1>0, <1>1, NewChallenge
<1>5. n \in Nat /\ n # 0
  <2>1. Len(challenges) \in Nat
    BY <1>0, Issued
  <2>. QED
    BY <2>1
<1>6. /\ calls' = calls \ {c} /\ job' \in [Homes -> Job]
      /\ \A h \in Homes : ~(c.live /\ h = c.home) => job'[h] = job[h]
      /\ c.live => /\ job'[c.home].pc = "answered" /\ job'[c.home].answer = "ok"
                   /\ job'[c.home].st.begin = c.key /\ job'[c.home].st.ch = n
                   /\ job'[c.home].st.complete = NoKey
  BY <1>0, <1>1, <1>2, <1>5, ChallengeFacts
<1>7. /\ \A h \in Homes : Beginning(h)' = Beginning(h) /\ Completing(h)' = Completing(h)
      /\ JobInv'
  BY <1>0, <1>1, <1>2, <1>5, ChallengeRuns
<1>8. TypeOK'
  <2>1. DOMAIN receipts' \subseteq Key /\ receipts' \in [DOMAIN receipts' -> DOMAIN challenges']
    <3>1. \A k \in DOMAIN receipts' : receipts'[k] \in DOMAIN challenges'
      BY <1>0, <1>3, <1>4, Types
    <3>2. receipts' = [k \in DOMAIN receipts' |-> receipts'[k]]
      BY DEF BeginRedemption
    <3>. QED
      BY <1>0, <1>1, <1>4, <3>1, <3>2 DEF TypeOK
  <2>2. Len(latest') = Len(challenges')
    BY <1>0, <1>3, <1>4 DEF TypeOK
  <2>3. calls' \subseteq Call
    BY <1>0, <1>6 DEF TypeOK
  <2>4. bound' \in Seq(Homes) /\ disk' \in [Homes -> JoinState] /\ linked' \in [Homes -> BOOLEAN]
        /\ faults' \in Nat /\ DOMAIN redeemed' \subseteq Key
        /\ redeemed' \in [DOMAIN redeemed' -> 1..MaxReceipts]
    BY <1>0, <1>2 DEF TypeOK
  <2>. QED
    BY <1>2, <1>3, <1>4, <1>6, <2>1, <2>2, <2>3, <2>4 DEF TypeOK
<1>. HIDE DEF n
<1>9. /\ \A k : Committed(k) => k \in DOMAIN receipts' /\ receipts'[k] = receipts[k] /\ k # c.key
      /\ \A k \in DOMAIN receipts' : Committed(k) \/ k = c.key
      /\ c.key \in DOMAIN receipts'
  BY <1>2, <1>4 DEF Committed
<1>10. bound = <<>> /\ \A h \in Homes : ~linked[h]
  <2>1. bound = <<>>
    BY <1>0, <1>2 DEF BoundInv, RedeemedOnce, ForBegin
  <2>. QED
    BY <1>0, <2>1 DEF BoundInv, RedeemedOnce
<1>11. DiskInv'
  <2>1. ASSUME NEW h \in Homes PROVE Saved(h)'
    BY <1>0, <1>2, <1>9 DEF Saved, DiskInv, Committed
  <2>. QED
    BY <2>1 DEF DiskInv, Saved
<1>12. CallInv'
  BY <1>0, <1>3, <1>6, CallsLeft
<1>13. FlightInv'
  <2>1. ASSUME NEW d \in calls', InFlight(d) PROVE d.key \notin DOMAIN receipts'
    <3>1. d \in calls /\ d.home \in Homes /\ ~Committed(d.key)
      BY <1>0, <1>6, <2>1, Types DEF FlightInv
    <3>2. d.key \in OwnKeys(d.home, "complete")
      BY <1>0, <2>1, <3>1 DEF CallInv, InFlight
    <3>3. d.key # c.key
      <4>1. d.key[2] = "complete" /\ c.key[2] = "begin"
        BY <1>1, <3>1, <3>2, KeysApart
      <4>. QED
        BY <4>1
    <3>. QED
      BY <1>9, <3>1, <3>3
  <2>. QED
    BY <1>0, <1>2, <1>6, <2>1 DEF FlightInv, InFlight, Committed
<1>14. BoundInv'
  <2>1. RedeemedOnce'
    BY <1>2, <1>10 DEF RedeemedOnce
  <2>2. \A k \in DOMAIN receipts' : k[2] # "complete"
    <3>1. \A k \in DOMAIN receipts : k[2] # "complete"
      BY <1>0, <1>10 DEF BoundInv
    <3>2. c.key[2] = "begin"
      BY <1>1, KeysApart
    <3>. QED
      BY <1>4, <3>1, <3>2
  <2>3. \A h \in Homes : ~(Completing(h)' /\ job'[h].answer = "ok")
    <3>1. c.live => ~Completing(c.home)
      BY <1>0, <1>1, LiveCalls
    <3>2. \A h \in Homes : ~(Completing(h) /\ job[h].answer = "ok")
      BY <1>0, <1>10 DEF BoundInv
    <3>. QED
      BY <1>6, <1>7, <3>1, <3>2
  <2>. QED
    BY <1>2, <1>10, <2>1, <2>2, <2>3 DEF BoundInv
<1>15. c.key = disk[c.home].begin
  BY <1>0, <1>1, <1>2 DEF UsableInv
<1>16. UsableInv'
  <2>1. \A ch \in DOMAIN challenges : ~Usable(ch)'
    BY <1>3 DEF Usable, Current
  <2>2. disk'[c.home].begin \in DOMAIN receipts' /\ receipts'[disk'[c.home].begin] = n
    BY <1>2, <1>4, <1>9, <1>15
  <2>3. ASSUME NEW d \in calls'
        PROVE  /\ d.stage = "begin" /\ d.key \notin DOMAIN receipts' /\ ForBegin' => d.key = disk'[d.home].begin
               /\ d.stage # "begin" => ~Usable(d.ch)'
    <3>1. d \in calls
      BY <1>6
    <3>2. d.stage # "begin" => d.ch \in DOMAIN challenges
      BY <1>0, <3>1 DEF CallInv
    <3>. QED
      BY <1>0, <1>2, <1>9, <2>1, <3>1, <3>2 DEF UsableInv
  <2>4. ASSUME NEW h \in Homes, job'[h].pc = "redeem", job'[h].st.begin = NoKey
        PROVE  /\ disk'[h].begin = NoKey \/ disk'[h].begin \in DOMAIN receipts'
               /\ \A ch \in DOMAIN challenges' : challenges'[ch].home = h => ~Usable(ch)'
    <3>1. job'[h] = job[h]
      BY <1>6, <2>4
    <3>2. disk[h].begin = NoKey \/ Committed(disk[h].begin)
      BY <1>0, <2>4, <3>1 DEF UsableInv
    <3>3. h # c.home
      BY <1>1, <1>2, <1>15, <3>2
    <3>. QED
      BY <1>2, <1>3, <1>9, <2>1, <3>2, <3>3
  <2>5. \A ch \in DOMAIN challenges' : Usable(ch)' =>
           /\ disk'[challenges'[ch].home].begin \in DOMAIN receipts'
           /\ receipts'[disk'[challenges'[ch].home].begin] = ch
    BY <1>3, <2>1, <2>2
  <2>6. \A d \in calls' : /\ d.stage = "begin" /\ ~Committed(d.key)' /\ ForBegin' => d.key = disk'[d.home].begin
                          /\ d.stage # "begin" /\ Usable(d.ch)' =>
                               d.key = disk'[d.home].complete /\ d.ch = disk'[d.home].ch
    BY <2>3 DEF Committed
  <2>. QED
    BY <2>4, <2>5, <2>6 DEF UsableInv, Committed
<1>17. RefusalIsTrue'
  BY <1>2, <1>10 DEF RefusalIsTrue
<1>18. AnswerInv'
  <2>1. ASSUME NEW h \in Homes
        PROVE  /\ Beginning(h)' /\ job'[h].answer = "ok" =>
                      job'[h].st.begin \in DOMAIN receipts' /\ receipts'[job'[h].st.begin] = job'[h].st.ch
               /\ Beginning(h)' /\ job'[h].answer = "challenge_invalid" =>
                      job'[h].st.begin \in DOMAIN receipts' /\ challenges'[receipts'[job'[h].st.begin]].state # "pending"
               /\ Completing(h)' /\ job'[h].answer = "invitation_invalid" => ~ForCompletion'
               /\ Completing(h)' /\ job'[h].answer = "challenge_invalid" => challenges'[job'[h].st.ch].state # "pending"
               /\ Completing(h)' /\ job'[h].answer = "identity_mismatch" => h \notin Admitted
               /\ Completing(h)' /\ job'[h].answer = "aimem_unconfigured" =>
                      /\ job'[h].st.complete \in DOMAIN redeemed'
                      /\ \A d \in calls' : d.stage = "verified" => d.key # job'[h].st.complete
    <3>1. CASE c.live /\ h = c.home
      <4>1. ~Completing(h)
        BY <1>0, <1>1, <3>1, LiveCalls
      <4>. QED
        BY <1>4, <1>6, <1>7, <1>9, <3>1, <4>1
    <3>2. CASE ~(c.live /\ h = c.home)
      <4>1. job'[h] = job[h]
        BY <1>6, <3>2
      <4>2. Completing(h) => job[h].st.ch \in DOMAIN challenges
        BY <1>0, CompletingFacts
      <4>3. \A k : Committed(k) => challenges'[receipts'[k]].state # "pending"
        <5>1. \A k \in DOMAIN receipts : receipts[k] \in DOMAIN challenges
          BY <1>0, Types
        <5>. QED
          BY <1>3, <1>4, <5>1 DEF Committed
      <4>4. Completing(h) => challenges'[job[h].st.ch].state # "pending"
        BY <1>3, <4>2
      <4>5. Completing(h) => job[h].answer # "invitation_invalid"
        BY <1>0, <1>2 DEF AnswerInv, ForBegin, ForCompletion
      <4>6. /\ Beginning(h) /\ job[h].answer = "ok" =>
                  Committed(job[h].st.begin) /\ receipts[job[h].st.begin] = job[h].st.ch
            /\ Beginning(h) /\ job[h].answer = "challenge_invalid" => Committed(job[h].st.begin)
            /\ Completing(h) /\ job[h].answer = "identity_mismatch" => h \notin Admitted
            /\ Completing(h) /\ job[h].answer = "aimem_unconfigured" =>
                  /\ job[h].st.complete \in DOMAIN redeemed
                  /\ \A d \in calls' : d.stage = "verified" => d.key # job[h].st.complete
        BY <1>0, <1>6 DEF AnswerInv
      <4>. QED
        BY <1>2, <1>7, <1>9, <4>1, <4>3, <4>4, <4>5, <4>6
    <3>. QED
      BY <3>1, <3>2
  <2>. QED
    BY <1>17, <2>1 DEF AnswerInv, Current, Committed
<1>. QED
  BY <1>7, <1>8, <1>11, <1>12, <1>13, <1>14, <1>16, <1>18 DEF RedemptionInv

-----------------------------------------------------------------------------
(* A completion commits *)

(* What a commit changes.                                                   *)
LEMMA CommitFacts ==
    ASSUME TypeOK, CallInv, NEW c \in calls, Commit(c), Recheck(c) = "", c.home \in Admitted
    PROVE  /\ c.stage = "verified" /\ Usable(c.ch) /\ c.home \in Homes
           /\ c.key \in Key /\ c.key \in OwnKeys(c.home, "complete") /\ c.ch \in DOMAIN challenges
           /\ Reply(c, "ok") /\ UNCHANGED <<latest, redeemed, disk, linked, faults>>
           /\ invitation' = [invitation EXCEPT !.state = "redeemed"] /\ invitation'.state = "redeemed"
           /\ challenges' = [challenges EXCEPT ![c.ch].state = "consumed"]
           /\ DOMAIN challenges' = DOMAIN challenges
           /\ \A ch \in DOMAIN challenges : /\ challenges'[ch].home = challenges[ch].home
                                            /\ challenges'[ch].state = "pending" => Current(ch)
           /\ DOMAIN receipts' = DOMAIN receipts \cup {c.key} /\ receipts'[c.key] = c.ch
           /\ \A k \in DOMAIN receipts : k # c.key => receipts'[k] = receipts[k]
           /\ receipts' = [k \in DOMAIN receipts' |-> receipts'[k]]
           /\ bound' = Append(bound, c.home)
           /\ TypeOK'
<1>1. c.stage = "verified" /\ c.home \in Homes /\ c.key \in Key /\ c \in Call
  BY Types DEF Commit, At
<1>2. c.key \in OwnKeys(c.home, "complete") /\ c.ch \in DOMAIN challenges
  BY <1>1 DEF CallInv
<1>3. Usable(c.ch)
  BY RefusedFacts DEF Recheck, Usable
<1>4. /\ Reply(c, "ok") /\ UNCHANGED <<latest, redeemed, disk, linked, faults>>
      /\ invitation' = [invitation EXCEPT !.state = "redeemed"]
      /\ challenges' = [challenges EXCEPT ![c.ch].state = "consumed"]
      /\ receipts' = [k \in DOMAIN receipts \cup {c.key} |-> IF k = c.key THEN c.ch ELSE receipts[k]]
      /\ bound' = Append(bound, c.home)
  BY DEF Commit, aimem, home
<1>5. invitation'.state = "redeemed" /\
      invitation' \in [state : {"issued", "locked", "redeemed", "closed"}, attempts : Nat]
  BY <1>4 DEF TypeOK
<1>. DEFINE Ch == [home : Homes, state : {"pending", "gone", "consumed"}]
            e == [challenges[c.ch] EXCEPT !.state = "consumed"]
<1>6. /\ DOMAIN challenges = 1..Len(challenges) /\ Len(challenges) \in Nat
      /\ \A ch \in DOMAIN challenges : challenges[ch] \in Ch
  BY Issued
<1>7. e \in Ch /\ e.home = challenges[c.ch].home /\ e.state = "consumed"
  BY <1>2, <1>6
<1>8. challenges' = [challenges EXCEPT ![c.ch] = e]
  BY <1>4
<1>9. challenges \in Seq(Ch) /\ c.ch \in 1..Len(challenges)
  BY <1>2, <1>6 DEF TypeOK
<1>. HIDE DEF e, Ch
<1>10. challenges' \in Seq(Ch) /\ Len(challenges') = Len(challenges)
  <2>1. challenges \in [1..Len(challenges) -> Ch]
    BY <1>9, LenProperties
  <2>2. challenges' \in [1..Len(challenges) -> Ch]
    BY <1>7, <1>8, <1>9, <2>1
  <2>. QED
    BY <1>6, <2>2, IsSequence
<1>11. /\ DOMAIN challenges' = DOMAIN challenges
       /\ \A ch \in DOMAIN challenges : /\ challenges'[ch].home = challenges[ch].home
                                        /\ challenges'[ch].state = "pending" => Current(ch)
  BY <1>2, <1>7, <1>8 DEF Current
<1>12. /\ DOMAIN receipts' = DOMAIN receipts \cup {c.key} /\ receipts'[c.key] = c.ch
       /\ \A k \in DOMAIN receipts : k # c.key => receipts'[k] = receipts[k]
       /\ receipts' = [k \in DOMAIN receipts' |-> receipts'[k]]
  BY <1>4
<1>13. DOMAIN receipts' \subseteq Key /\ receipts' \in [DOMAIN receipts' -> DOMAIN challenges']
  <2>1. \A k \in DOMAIN receipts' : k \in Key /\ receipts'[k] \in DOMAIN challenges'
    BY <1>1, <1>2, <1>11, <1>12, Types
  <2>. QED
    BY <1>12, <2>1
<1>14. bound' \in Seq(Homes)
  BY <1>1, <1>4, AppendProperties DEF TypeOK
<1>15. calls' \subseteq Call /\ job' \in [Homes -> Job]
  <2>1. "ok" \in Answers
    BY Codes
  <2>. QED
    BY <1>4, <2>1, ReplyFacts DEF TypeOK
<1>16. challenges' \in Seq([home : Homes, state : {"pending", "gone", "consumed"}])
  BY <1>10 DEF Ch
<1>17. Len(latest') = Len(challenges') /\ latest' \in Seq(0..MaxReceipts)
  BY <1>4, <1>10 DEF TypeOK
<1>18. TypeOK'
  BY <1>4, <1>5, <1>13, <1>14, <1>15, <1>16, <1>17 DEF TypeOK
<1>. QED
  BY <1>1, <1>2, <1>3, <1>4, <1>5, <1>11, <1>12, <1>18

(* The completion that commits is that of the home's saved key, the first   *)
(* of the invitation; the home's run has not been refused.                  *)
LEMMA CommitKeeps ==
    ASSUME RedemptionInv, NEW c \in calls, Commit(c), Recheck(c) = "", c.home \in Admitted
    PROVE  RedemptionInv'
<1>0. TypeOK /\ DiskInv /\ JobInv /\ CallInv /\ FlightInv /\ BoundInv /\ UsableInv /\ AnswerInv
  BY DEF RedemptionInv
<1>1. /\ c.stage = "verified" /\ Usable(c.ch) /\ c.home \in Homes
      /\ c.key \in Key /\ c.key \in OwnKeys(c.home, "complete") /\ c.ch \in DOMAIN challenges
  BY <1>0, CommitFacts
<1>2. /\ Reply(c, "ok") /\ UNCHANGED <<latest, redeemed, disk, linked, faults>>
      /\ invitation'.state = "redeemed" /\ DOMAIN challenges' = DOMAIN challenges
      /\ \A ch \in DOMAIN challenges : /\ challenges'[ch].home = challenges[ch].home
                                       /\ challenges'[ch].state = "pending" => Current(ch)
      /\ DOMAIN receipts' = DOMAIN receipts \cup {c.key}
      /\ \A k \in DOMAIN receipts : k # c.key => receipts'[k] = receipts[k]
      /\ bound' = Append(bound, c.home) /\ TypeOK'
  BY <1>0, CommitFacts
<1>3. /\ calls' = calls \ {c}
      /\ \A h \in Homes : ~(c.live /\ h = c.home) => job'[h] = job[h]
      /\ c.live => job'[c.home].pc = "answered" /\ job'[c.home].answer = "ok" /\ job'[c.home].st = job[c.home].st
  BY <1>0, <1>2, Codes, ReplyFacts
<1>4. /\ \A h \in Homes : Beginning(h)' = Beginning(h) /\ Completing(h)' = Completing(h)
      /\ JobInv'
  BY <1>0, <1>2, Codes, ReplyRuns
<1>5. ForCompletion /\ Current(c.ch) /\ c.key = disk[c.home].complete /\ c.ch = disk[c.home].ch
  BY <1>0, <1>1 DEF Usable, UsableInv
<1>6. bound = <<>> /\ bound' = <<c.home>> /\ \A h \in Homes : ~linked[h]
  <2>1. bound = <<>>
    BY <1>0, <1>5 DEF BoundInv, RedeemedOnce, ForCompletion
  <2>2. Append(<<>>, c.home) = <<c.home>>
    BY <1>1, OnlyOne
  <2>. QED
    BY <1>0, <1>2, <2>1, <2>2 DEF BoundInv, RedeemedOnce
<1>7. c.key[1] = c.home /\ c.key[2] = "complete" /\ c.key # NoKey
  BY <1>1, KeyKinds, KeysApart
<1>8. ~Committed(c.key)
  BY <1>0, <1>1 DEF FlightInv, InFlight
<1>9. \A k : Committed(k) => k \in DOMAIN receipts' /\ receipts'[k] = receipts[k]
  BY <1>2, <1>8 DEF Committed
<1>10. DiskInv'
  <2>1. ASSUME NEW h \in Homes PROVE Saved(h)'
    BY <1>0, <1>2, <1>9 DEF Saved, DiskInv, Committed
  <2>. QED
    BY <2>1 DEF DiskInv, Saved
<1>11. CallInv'
  BY <1>0, <1>2, <1>3, CallsLeft
<1>12. FlightInv'
  <2>1. ASSUME NEW d \in calls', InFlight(d) PROVE d.key \notin DOMAIN receipts'
    BY <1>0, <1>1, <1>2, <1>3, <2>1 DEF FlightInv, InFlight, Committed
  <2>. QED
    BY <1>0, <1>2, <1>3, <2>1 DEF FlightInv, InFlight, Committed
<1>13. BoundInv'
  <2>1. RedeemedOnce'
    <3>1. Len(<<c.home>>) <= 1 /\ <<c.home>> # <<>>
      BY <1>1, OnlyOne
    <3>. QED
      BY <1>2, <1>6, <3>1 DEF RedeemedOnce
  <2>2. \A k \in DOMAIN receipts' : k[2] = "complete" => <<c.home>> = <<k[1]>>
    <3>1. \A k \in DOMAIN receipts : k[2] # "complete"
      BY <1>0, <1>6 DEF BoundInv
    <3>. QED
      BY <1>2, <1>7, <3>1
  <2>3. ASSUME NEW h \in Homes
        PROVE  /\ Completing(h)' /\ job'[h].answer = "ok" => <<c.home>> = <<h>>
               /\ <<c.home>> = <<h>> => disk'[h].complete \in DOMAIN receipts'
    <3>1. ~(Completing(h) /\ job[h].answer = "ok")
      BY <1>0, <1>6 DEF BoundInv
    <3>2. <<c.home>> = <<h>> => c.home = h
      OBVIOUS
    <3>. QED
      BY <1>2, <1>3, <1>4, <1>5, <3>1, <3>2
  <2>. QED
    BY <1>2, <1>6, <2>1, <2>2, <2>3 DEF BoundInv, Committed
<1>14. ~ForCompletion' /\ ~ForBegin' /\ \A ch : ~Usable(ch)'
  BY <1>2 DEF ForCompletion, ForBegin, Usable
<1>15. UsableInv'
  <2>1. ASSUME NEW h \in Homes, job'[h].pc = "redeem", job'[h].st.begin = NoKey
        PROVE  disk'[h].begin = NoKey \/ disk'[h].begin \in DOMAIN receipts'
    <3>1. job'[h] = job[h]
      BY <1>3, <2>1
    <3>. QED
      BY <1>0, <1>2, <1>9, <2>1, <3>1 DEF UsableInv
  <2>. QED
    BY <1>14, <2>1 DEF UsableInv, Committed
<1>16. RefusalIsTrue'
  <2>1. \A i \in DOMAIN bound' : bound'[i] = c.home
    BY <1>1, <1>6, OnlyOne
  <2>2. job'[c.home].answer \notin Refusals
    <3>1. CASE c.live
      BY <1>3, <3>1 DEF Refusals
    <3>2. CASE ~c.live
      <4>1. job'[c.home] = job[c.home] /\ job[c.home].answer \in Refusals => job[c.home].pc = "answered"
        BY <1>0, <1>1, <1>3, <3>2 DEF JobInv, Refusals
      <4>2. c.ch # 0
        BY <1>0, <1>1, Types
      <4>3. Completing(c.home) => job[c.home].st.complete = c.key /\ job[c.home].st.ch = c.ch
        BY <1>0, <1>1, <1>5 DEF JobInv
      <4>4. ~Beginning(c.home)
        <5>1. ASSUME Beginning(c.home) PROVE disk[c.home].ch = 0
          <6>1. disk[c.home] = [job[c.home].st EXCEPT !.ch = 0]
            BY <1>0, <1>1, <5>1 DEF JobInv
          <6>. QED
            BY <1>0, <1>1, <6>1, Types DEF JoinState
        <5>. QED
          BY <1>5, <4>2, <5>1
      <4>5. Completing(c.home) => job[c.home].answer \notin Refusals
        BY <1>0, <1>1, <1>5, <4>3 DEF AnswerInv, Refusals
      <4>6. job[c.home].pc = "answered" => Completing(c.home)
        BY <4>4 DEF Beginning, Completing
      <4>. QED
        BY <1>3, <3>2, <1>1, <4>1, <4>5, <4>6
    <3>. QED
      BY <3>1, <3>2
  <2>. QED
    BY <2>1, <2>2 DEF RefusalIsTrue
<1>17. AnswerInv'
  <2>1. ASSUME NEW h \in Homes
        PROVE  /\ Beginning(h) /\ job'[h].answer = "ok" =>
                      job'[h].st.begin \in DOMAIN receipts' /\ receipts'[job'[h].st.begin] = job'[h].st.ch
               /\ Beginning(h) /\ job'[h].answer = "challenge_invalid" =>
                      /\ job'[h].st.begin \in DOMAIN receipts'
                      /\ challenges'[receipts'[job'[h].st.begin]].state # "pending"
               /\ Completing(h) /\ job'[h].answer = "challenge_invalid" =>
                      challenges'[job'[h].st.ch].state # "pending"
               /\ Completing(h) /\ job'[h].answer = "identity_mismatch" => h \notin Admitted
               /\ Completing(h) /\ job'[h].answer = "aimem_unconfigured" =>
                      /\ job'[h].st.complete \in DOMAIN redeemed'
                      /\ \A d \in calls' : d.stage = "verified" => d.key # job'[h].st.complete
    <3>1. CASE c.live /\ h = c.home
      <4>1. ~Beginning(h)
        BY <1>0, <1>1, <3>1, LiveCalls
      <4>. QED
        BY <1>3, <3>1, <4>1
    <3>2. CASE ~(c.live /\ h = c.home)
      <4>1. job'[h] = job[h]
        BY <1>3, <3>2
      <4>2. Completing(h) => job[h].st.ch \in DOMAIN challenges
        BY <1>0, CompletingFacts
      <4>3. \A k : Committed(k) => receipts[k] \in DOMAIN challenges
        BY <1>0, Types DEF Committed
      <4>4. \A ch \in DOMAIN challenges : ~Current(ch) => challenges'[ch].state # "pending"
        BY <1>2
      <4>5. /\ Beginning(h) /\ job[h].answer = "ok" =>
                  Committed(job[h].st.begin) /\ receipts[job[h].st.begin] = job[h].st.ch
            /\ Beginning(h) /\ job[h].answer = "challenge_invalid" =>
                  Committed(job[h].st.begin) /\ ~Current(receipts[job[h].st.begin])
            /\ Completing(h) /\ job[h].answer = "challenge_invalid" => ~Current(job[h].st.ch)
            /\ Completing(h) /\ job[h].answer = "identity_mismatch" => h \notin Admitted
            /\ Completing(h) /\ job[h].answer = "aimem_unconfigured" =>
                  /\ job[h].st.complete \in DOMAIN redeemed
                  /\ \A d \in calls' : d.stage = "verified" => d.key # job[h].st.complete
        BY <1>0, <1>3 DEF AnswerInv
      <4>. QED
        BY ZenonT(40), <1>2, <1>9, <4>1, <4>2, <4>3, <4>4, <4>5
    <3>. QED
      BY <3>1, <3>2
  <2>. QED
    BY <1>4, <1>14, <1>16, <2>1 DEF AnswerInv, Current, Committed
<1>. QED
  BY <1>2, <1>4, <1>10, <1>11, <1>12, <1>13, <1>15, <1>17 DEF RedemptionInv

-----------------------------------------------------------------------------
(* Restarts and time *)

(* A restart of aicrewd keeps the invariant: its runs are left unanswered.  *)
LEMMA RestartKeeps ==
    ASSUME RedemptionInv, RestartAicrewd
    PROVE  RedemptionInv'
<1>0. TypeOK /\ DiskInv /\ JobInv /\ CallInv /\ FlightInv /\ BoundInv /\ UsableInv /\ AnswerInv
  BY DEF RedemptionInv
<1>1. /\ calls' = {} /\ faults' = faults + 1
      /\ UNCHANGED <<invitation, challenges, receipts, bound, latest, redeemed, disk, linked>>
      /\ job' = [h \in Homes |-> IF job[h].pc \in {"begin", "complete"}
                                 THEN [job[h] EXCEPT !.pc = "answered", !.answer = "unanswered"]
                                 ELSE job[h]]
  BY DEF RestartAicrewd, Fault, aicrewd, aimem, home
<1>2. ASSUME NEW h \in Homes
      PROVE  /\ job'[h] \in Job /\ job'[h].st = job[h].st
             /\ job[h].pc \in {"begin", "complete"} =>
                   job'[h].pc = "answered" /\ job'[h].answer = "unanswered"
             /\ job[h].pc \notin {"begin", "complete"} => job'[h] = job[h]
  <2>1. job[h] \in Job
    BY <1>0, Types
  <2>2. /\ [job[h] EXCEPT !.pc = "answered", !.answer = "unanswered"] \in Job
        /\ [job[h] EXCEPT !.pc = "answered", !.answer = "unanswered"].st = job[h].st
        /\ [job[h] EXCEPT !.pc = "answered", !.answer = "unanswered"].pc = "answered"
        /\ [job[h] EXCEPT !.pc = "answered", !.answer = "unanswered"].answer = "unanswered"
    BY <2>1 DEF Job, Retryable
  <2>3. job[h].pc \in {"begin", "complete"} =>
           job'[h] = [job[h] EXCEPT !.pc = "answered", !.answer = "unanswered"]
    BY <1>1
  <2>4. job[h].pc \notin {"begin", "complete"} => job'[h] = job[h]
    BY <1>1
  <2>. QED
    BY <2>1, <2>2, <2>3, <2>4
<1>3. TypeOK'
  <2>1. job' \in [Homes -> Job]
    BY <1>1, <1>2
  <2>2. faults' \in Nat
    <3>1. faults \in Nat
      BY <1>0 DEF TypeOK
    <3>2. faults' = faults + 1
      BY <1>1
    <3>. QED
      BY <3>1, <3>2
  <2>. QED
    BY <1>0, <1>1, <2>1, <2>2 DEF TypeOK
<1>4. ASSUME NEW h \in Homes
      PROVE  Beginning(h)' = Beginning(h) /\ Completing(h)' = Completing(h)
  <2>1. job[h].pc = "begin" => job[h].st.complete = NoKey
    BY <1>0 DEF JobInv, Beginning
  <2>2. job[h].pc = "complete" => job[h].st.complete # NoKey
    BY <1>0 DEF JobInv, Completing, DiskInv
  <2>. QED
    BY <1>2, <2>1, <2>2 DEF Beginning, Completing
<1>5. /\ \A ch : Usable(ch)' = Usable(ch) /\ Current(ch)' = Current(ch) /\ Committed(ch)' = Committed(ch)
      /\ ForBegin' = ForBegin /\ ForCompletion' = ForCompletion
  BY <1>1 DEF Usable, Current, Committed, ForBegin, ForCompletion
<1>6. DiskInv'
  BY <1>0, <1>1 DEF DiskInv, Committed
<1>7. JobInv'
  <2>1. ASSUME NEW h \in Homes PROVE Working(h)'
    <3>1. CASE job[h].pc \in {"begin", "complete"}
      <4>1. job[h].answer = "" /\ ~linked[h]
        BY <1>0, <3>1 DEF JobInv
      <4>2. /\ Beginning(h) => /\ disk[h] = [job[h].st EXCEPT !.ch = 0] /\ job[h].st.begin # NoKey
                               /\ job[h].st.complete = NoKey /\ job[h].st.ch = 0
            /\ Completing(h) => job[h].st = disk[h] /\ disk[h].ch # 0
        BY <1>0, <4>1 DEF JobInv
      <4>. QED
        BY <1>1, <1>2, <1>4, <3>1, <4>1, <4>2 DEF Working
    <3>2. CASE job[h].pc \notin {"begin", "complete"}
      <4>1. job'[h] = job[h]
        BY <1>2, <3>2
      <4>. QED
        BY <1>0, <1>1, <1>4, <4>1, ZenonT(40) DEF Working, JobInv
    <3>. QED
      BY <3>1, <3>2
  <2>. QED
    BY <2>1 DEF JobInv, Working
<1>8. CallInv' /\ FlightInv'
  BY <1>1 DEF CallInv, FlightInv
<1>9. BoundInv'
  <2>1. RedeemedOnce'
    BY <1>0, <1>1 DEF BoundInv, RedeemedOnce
  <2>2. \A h \in Homes : Completing(h)' /\ job'[h].answer = "ok" => bound = <<h>>
    BY <1>0, <1>2, <1>4 DEF BoundInv
  <2>. QED
    BY <1>0, <1>1, <1>5, <2>1, <2>2 DEF BoundInv
<1>10. UsableInv'
  <2>1. \A h \in Homes : job'[h].pc = "redeem" => job'[h] = job[h]
    BY <1>2
  <2>. QED
    BY <1>0, <1>1, <1>5, <2>1 DEF UsableInv
<1>11. RefusalIsTrue'
  <2>1. \A i \in DOMAIN bound : bound[i] \in Homes
    BY <1>0, BoundIsOne DEF BoundInv
  <2>2. \A h \in Homes : job'[h].answer = job[h].answer \/ job'[h].answer \notin Refusals
    BY <1>2 DEF Refusals
  <2>. QED
    BY <1>0, <1>1, <2>1, <2>2 DEF RefusalIsTrue, AnswerInv
<1>12. AnswerInv'
  <2>1. ASSUME NEW h \in Homes
        PROVE  /\ Beginning(h) /\ job'[h].answer = "ok" =>
                      Committed(job[h].st.begin) /\ receipts[job[h].st.begin] = job[h].st.ch
               /\ Beginning(h) /\ job'[h].answer = "challenge_invalid" =>
                      Committed(job[h].st.begin) /\ ~Current(receipts[job[h].st.begin])
               /\ Completing(h) /\ job'[h].answer = "invitation_invalid" => ~ForCompletion
               /\ Completing(h) /\ job'[h].answer = "challenge_invalid" => ~Current(job[h].st.ch)
               /\ Completing(h) /\ job'[h].answer = "identity_mismatch" => h \notin Admitted
               /\ Completing(h) /\ job'[h].answer = "aimem_unconfigured" =>
                      job[h].st.complete \in DOMAIN redeemed
    BY <1>0, <1>2 DEF AnswerInv
  <2>. QED
    BY <1>1, <1>2, <1>4, <1>11, <2>1 DEF AnswerInv, Committed, Current, ForCompletion
<1>. QED
  BY <1>3, <1>6, <1>7, <1>8, <1>9, <1>10, <1>11, <1>12 DEF RedemptionInv

(* What time, the operator and a stutter do: nothing becomes usable.        *)
LEMMA TimeKeeps ==
    ASSUME RedemptionInv, TypeOK',
           UNCHANGED <<receipts, bound, calls, redeemed, job, disk, linked>>,
           (invitation'.state = "redeemed") = (invitation.state = "redeemed"),
           ForBegin' => ForBegin, ForCompletion' => ForCompletion,
           DOMAIN challenges' = DOMAIN challenges,
           \A ch \in DOMAIN challenges : /\ challenges'[ch].home = challenges[ch].home
                                         /\ challenges'[ch].state = "pending" => Current(ch)
    PROVE  RedemptionInv'
<1>0. TypeOK /\ DiskInv /\ JobInv /\ CallInv /\ FlightInv /\ BoundInv /\ UsableInv /\ AnswerInv
  BY DEF RedemptionInv
<1>1. /\ \A h : Beginning(h)' = Beginning(h) /\ Completing(h)' = Completing(h)
      /\ \A key : Committed(key)' = Committed(key)
      /\ \A ch \in DOMAIN challenges : Usable(ch)' => Usable(ch)
  BY DEF Beginning, Completing, Committed, Usable, Current
<1>2. DiskInv' /\ JobInv'
  <2>1. DiskInv'
    BY <1>0 DEF DiskInv, Committed
  <2>2. JobInv'
    BY <1>0, <1>1 DEF JobInv
  <2>. QED
    BY <2>1, <2>2
<1>3. CallInv'
  BY <1>0 DEF CallInv
<1>4. FlightInv'
  BY <1>0, <1>1 DEF FlightInv, InFlight
<1>5. BoundInv'
  <2>1. RedeemedOnce'
    BY <1>0 DEF BoundInv, RedeemedOnce
  <2>. QED
    BY <1>0, <1>1, <2>1 DEF BoundInv
<1>6. UsableInv'
  <2>1. ASSUME NEW c \in calls
        PROVE  /\ c.stage = "begin" /\ ~Committed(c.key) /\ ForBegin' => c.key = disk[c.home].begin
               /\ c.stage # "begin" /\ Usable(c.ch)' =>
                     c.key = disk[c.home].complete /\ c.ch = disk[c.home].ch
    BY <1>0, <1>1 DEF UsableInv, CallInv
  <2>2. \A ch \in DOMAIN challenges : Usable(ch)' =>
           Committed(disk[challenges[ch].home].begin) /\ receipts[disk[challenges[ch].home].begin] = ch
    BY <1>0, <1>1 DEF UsableInv
  <2>3. ASSUME NEW h \in Homes, job[h].pc = "redeem", job[h].st.begin = NoKey
        PROVE  /\ disk[h].begin = NoKey \/ Committed(disk[h].begin)
               /\ \A ch \in DOMAIN challenges : challenges[ch].home = h => ~Usable(ch)'
    BY <1>0, <1>1, <2>3 DEF UsableInv
  <2>. QED
    BY <1>1, <2>1, <2>2, <2>3 DEF UsableInv, Committed
<1>7. AnswerInv'
  <2>1. RefusalIsTrue'
    BY <1>0 DEF AnswerInv, RefusalIsTrue
  <2>2. \A ch \in DOMAIN challenges : ~Current(ch) => challenges'[ch].state # "pending"
    OBVIOUS
  <2>3. \A h \in Homes : Completing(h) => job[h].st.ch \in DOMAIN challenges
    BY <1>0, CompletingFacts
  <2>4. \A k : Committed(k) => receipts[k] \in DOMAIN challenges
    BY <1>0, Types DEF Committed
  <2>5. ASSUME NEW h \in Homes
        PROVE  /\ Beginning(h) /\ job[h].answer = "challenge_invalid" =>
                      Committed(job[h].st.begin) /\ challenges'[receipts[job[h].st.begin]].state # "pending"
               /\ Completing(h) /\ job[h].answer = "challenge_invalid" =>
                      challenges'[job[h].st.ch].state # "pending"
    BY <1>0, <2>2, <2>3, <2>4 DEF AnswerInv
  <2>. QED
    BY <1>0, <1>1, <2>1, <2>5 DEF AnswerInv, Current, Committed
<1>. QED
  BY <1>2, <1>3, <1>4, <1>5, <1>6, <1>7 DEF RedemptionInv

(* A challenge expires.                                                     *)
LEMMA ExpireKeeps ==
    ASSUME RedemptionInv, NEW ch \in DOMAIN challenges, ExpireChallenge(ch)
    PROVE  RedemptionInv'
<1>. DEFINE Ch == [home : Homes, state : {"pending", "gone", "consumed"}]
            e == [challenges[ch] EXCEPT !.state = "gone"]
<1>0. TypeOK
  BY DEF RedemptionInv
<1>1. /\ challenges' = [challenges EXCEPT ![ch] = e]
      /\ UNCHANGED <<invitation, receipts, bound, calls, latest, redeemed, job, disk, linked, faults>>
  BY DEF ExpireChallenge, Elapse, aimem, home
<1>2. /\ challenges \in Seq(Ch) /\ ch \in 1..Len(challenges) /\ challenges[ch] \in Ch
      /\ Len(challenges) \in Nat /\ DOMAIN challenges = 1..Len(challenges)
  BY <1>0, Issued DEF TypeOK
<1>3. e \in Ch /\ e.home = challenges[ch].home /\ e.state = "gone"
  BY <1>2
<1>. HIDE DEF e, Ch
<1>4. challenges' \in Seq(Ch) /\ Len(challenges') = Len(challenges)
  <2>1. challenges \in [1..Len(challenges) -> Ch]
    BY <1>2, LenProperties
  <2>2. challenges' \in [1..Len(challenges) -> Ch]
    BY <1>1, <1>2, <1>3, <2>1
  <2>. QED
    BY <1>2, <2>2, IsSequence
<1>5. /\ DOMAIN challenges' = DOMAIN challenges
      /\ \A k \in DOMAIN challenges : /\ challenges'[k].home = challenges[k].home
                                      /\ challenges'[k].state = "pending" => Current(k)
  BY <1>1, <1>2, <1>3 DEF Current
<1>6. TypeOK'
  <2>1. challenges' \in Seq([home : Homes, state : {"pending", "gone", "consumed"}])
    BY <1>4 DEF Ch
  <2>. QED
    BY <1>0, <1>1, <1>4, <1>5, <2>1 DEF TypeOK
<1>7. ForBegin' = ForBegin /\ ForCompletion' = ForCompletion
  BY <1>1 DEF ForBegin, ForCompletion
<1>. QED
  BY <1>1, <1>5, <1>6, <1>7, TimeKeeps

(* The invitation is revoked or expires.                                    *)
LEMMA CloseKeeps ==
    ASSUME RedemptionInv, CloseInvitation
    PROVE  RedemptionInv'
<1>0. TypeOK
  BY DEF RedemptionInv
<1>1. /\ ForCompletion /\ invitation' = [invitation EXCEPT !.state = "closed"]
      /\ UNCHANGED <<challenges, receipts, bound, calls, latest, redeemed, job, disk, linked, faults>>
  BY DEF CloseInvitation, Elapse, aimem, home
<1>2. /\ invitation' \in [state : {"issued", "locked", "redeemed", "closed"}, attempts : Nat]
      /\ invitation'.state = "closed"
  BY <1>0, <1>1 DEF TypeOK
<1>3. TypeOK'
  BY <1>0, <1>1, <1>2 DEF TypeOK
<1>4. ~ForBegin' /\ ~ForCompletion' /\ invitation.state # "redeemed"
  BY <1>1, <1>2 DEF ForBegin, ForCompletion
<1>5. \A k \in DOMAIN challenges : /\ challenges'[k].home = challenges[k].home
                                   /\ challenges'[k].state = "pending" => Current(k)
  BY <1>1 DEF Current
<1>. QED
  BY <1>1, <1>2, <1>3, <1>4, <1>5, TimeKeeps

(* A step that changes nothing keeps the invariant.                         *)
LEMMA StutterKeeps ==
    ASSUME RedemptionInv, UNCHANGED vars
    PROVE  RedemptionInv'
<1>1. UNCHANGED <<invitation, challenges, receipts, bound, calls, latest, redeemed, job, disk, linked,
                  faults>>
  BY DEF vars
<1>2. TypeOK'
  BY <1>1 DEF RedemptionInv, TypeOK
<1>3. ForBegin' = ForBegin /\ ForCompletion' = ForCompletion
  BY <1>1 DEF ForBegin, ForCompletion
<1>4. \A k \in DOMAIN challenges : challenges'[k].state = "pending" => Current(k)
  BY <1>1 DEF Current
<1>. QED
  BY <1>1, <1>2, <1>3, <1>4, TimeKeeps

-----------------------------------------------------------------------------
(* The theorems *)

(* The invariant holds at the start.                                        *)
LEMMA RedemptionStarts == Init => RedemptionInv
<1>. SUFFICES ASSUME Init PROVE RedemptionInv
  OBVIOUS
<1>0. /\ invitation = [state |-> "issued", attempts |-> 0] /\ challenges = <<>> /\ receipts = <<>>
      /\ bound = <<>> /\ calls = {} /\ latest = <<>> /\ redeemed = <<>>
      /\ job = [h \in Homes |-> Idle] /\ disk = [h \in Homes |-> FreshState]
      /\ linked = [h \in Homes |-> FALSE] /\ faults = 0
  BY DEF Init
<1>1. TypeOK
  <2>1. DOMAIN <<>> = {} /\ <<>> \in [{} -> DOMAIN challenges] /\ <<>> \in [{} -> 1..MaxReceipts]
    OBVIOUS
  <2>2. challenges \in Seq([home : Homes, state : {"pending", "gone", "consumed"}]) /\ bound \in Seq(Homes)
        /\ latest \in Seq(0..MaxReceipts) /\ Len(latest) = Len(challenges)
    BY <1>0, EmptySeq
  <2>. QED
    BY <1>0, <2>1, <2>2, IdleIsAJob DEF TypeOK
<1>2. /\ Idle.pc = "idle" /\ Idle.answer = "" /\ Idle.st = FreshState
      /\ FreshState.begin = NoKey /\ FreshState.complete = NoKey /\ FreshState.ch = 0
  BY DEF Idle, FreshState
<1>3. \A h \in Homes : job[h] = Idle /\ disk[h] = FreshState /\ ~linked[h]
  BY <1>0
<1>4. \A h \in Homes : ~Beginning(h) /\ ~Completing(h)
  BY <1>2, <1>3 DEF Beginning, Completing
<1>5. DiskInv /\ JobInv
  BY <1>2, <1>3, <1>4 DEF DiskInv, JobInv
<1>6. CallInv /\ FlightInv
  BY <1>0 DEF CallInv, FlightInv
<1>7. DOMAIN bound = {} /\ DOMAIN challenges = {} /\ DOMAIN receipts = {} /\ Len(bound) = 0
  BY <1>0, EmptySeq
<1>8. BoundInv
  <2>1. \A h : bound # <<h>>
    BY <1>0
  <2>2. RedeemedOnce
    BY <1>0, <1>3, <1>7 DEF RedeemedOnce
  <2>. QED
    BY <1>4, <1>7, <2>1, <2>2 DEF BoundInv
<1>9. UsableInv
  BY <1>0, <1>2, <1>3, <1>7 DEF UsableInv
<1>10. AnswerInv
  BY <1>4, <1>7 DEF AnswerInv, RefusalIsTrue
<1>. QED
  BY <1>1, <1>5, <1>6, <1>8, <1>9, <1>10 DEF RedemptionInv

(* Every step keeps it.                                                     *)
LEMMA RedemptionKeeps == RedemptionInv /\ [Next]_vars => RedemptionInv'
<1>. SUFFICES ASSUME RedemptionInv, [Next]_vars PROVE RedemptionInv'
  OBVIOUS
<1>1. ASSUME NEW c \in calls, Serve(c) PROVE RedemptionInv'
  <2>1. CASE ReplayBegin(c)
    BY <2>1, ReplayRefusedKeeps, ReplayKeeps
  <2>2. CASE BeginRedemption(c)
    BY <2>2, BeginRedemptionKeeps
  <2>3. CASE BeginRefused(c)
    BY <2>3, BeginRefusedKeeps
  <2>4. CASE Lookup(c)
    BY <2>4, LookupKeeps
  <2>5. CASE InProgress(c)
    BY <2>5, InProgressKeeps
  <2>6. CASE Redeem(c)
    BY <2>6, RedeemKeeps
  <2>7. CASE RedeemUnanswered(c)
    BY <2>7, RedeemUnansweredKeeps
  <2>8. CASE Commit(c)
    BY <2>8, CommitRefused, CommitKeeps
  <2>9. CASE Cancelled(c)
    BY <2>9, CancelledKeeps
  <2>. QED
    BY <1>1, <2>1, <2>2, <2>3, <2>4, <2>5, <2>6, <2>7, <2>8, <2>9 DEF Serve
<1>2. ASSUME NEW h \in Homes, Run(h) PROVE RedemptionInv'
  <2>1. CASE Join(h)
    BY <2>1, JoinKeeps
  <2>2. CASE Begin(h)
    BY <2>2, BeginKeeps
  <2>3. CASE TooManyBegins(h)
    BY <2>3, TooManyBeginsKeeps
  <2>4. CASE Begun(h)
    BY <2>4, BegunKeeps
  <2>5. CASE BeginAgain(h)
    BY <2>5, BeginAgainKeeps
  <2>6. CASE Prove(h)
    BY <2>6, ProveKeeps
  <2>7. CASE Link(h)
    BY <2>7, LinkKeeps
  <2>8. CASE CompleteAgain(h)
    BY <2>8, CompleteAgainKeeps
  <2>9. CASE ChallengeGone(h)
    BY <2>9, ChallengeGoneKeeps
  <2>. QED
    BY <1>2, <2>1, <2>2, <2>3, <2>4, <2>5, <2>6, <2>7, <2>8, <2>9 DEF Run
<1>3. ASSUME NEW h \in Flaky, ProofFails(h) \/ GiveUp(h) \/ Die(h) PROVE RedemptionInv'
  <2>1. h \in Homes
    BY RedemptionAssumption
  <2>. QED
    BY <1>3, <2>1, ProofFailsKeeps, GiveUpKeeps, DieKeeps
<1>4. CASE RestartAicrewd
  BY <1>4, RestartKeeps
<1>5. ASSUME NEW ch \in DOMAIN challenges, ExpireChallenge(ch) PROVE RedemptionInv'
  BY <1>5, ExpireKeeps
<1>6. CASE CloseInvitation
  BY <1>6, CloseKeeps
<1>7. CASE UNCHANGED vars
  BY <1>7, StutterKeeps
<1>. QED
  BY <1>1, <1>2, <1>3, <1>4, <1>5, <1>6, <1>7 DEF Next

(* What aicrewd, aimem and the homes keep agrees at every step, whatever    *)
(* overlaps, is lost or starts again.                                       *)
THEOREM RedemptionIsConsistent == Spec => []RedemptionInv
<1>. QED
  BY RedemptionStarts, RedemptionKeeps, PTL DEF Spec

(* An invitation is redeemed by one completion, and links only its home.    *)
THEOREM InvitationBindsOnce == Spec => []RedeemedOnce
<1>1. RedemptionInv => RedeemedOnce
  BY DEF RedemptionInv, BoundInv
<1>. QED
  BY <1>1, RedemptionIsConsistent, PTL

(* A home the invitation is redeemed for is never refused by it.            *)
THEOREM NobodyIsRefusedFalsely == Spec => []RefusalIsTrue
<1>1. RedemptionInv => RefusalIsTrue
  BY DEF RedemptionInv, AnswerInv
<1>. QED
  BY <1>1, RedemptionIsConsistent, PTL

(* Only a begin issues a challenge.                                         *)
LEMMA OnlyBeginsIssue ==
    ASSUME RedemptionInv, Next, Len(challenges') > Len(challenges)
    PROVE  \E c \in calls : BeginRedemption(c)
<1>0. TypeOK /\ CallInv /\ Len(challenges) \in Nat
  <2>1. TypeOK /\ CallInv
    BY DEF RedemptionInv
  <2>. QED
    BY <2>1, Issued
<1>1. challenges' # challenges
  BY <1>0
<1>2. ASSUME NEW c \in calls, Commit(c) PROVE FALSE
  <2>1. CASE Recheck(c) = "" /\ c.home \in Admitted
    <3>1. TypeOK' /\ DOMAIN challenges' = DOMAIN challenges
      BY <1>0, <1>2, <2>1, CommitFacts
    <3>2. Len(challenges') \in Nat /\ DOMAIN challenges' = 1..Len(challenges')
      BY <3>1 DEF TypeOK
    <3>3. Len(challenges') = Len(challenges)
      <4>1. 1..Len(challenges') = 1..Len(challenges)
        BY <1>0, <3>1, <3>2, Issued
      <4>. QED
        BY <1>0, <3>2, <4>1
    <3>. QED
      BY <1>0, <3>3
  <2>2. CASE ~(Recheck(c) = "" /\ c.home \in Admitted)
    BY <1>1, <1>2, <2>2 DEF Commit, aicrewd
  <2>. QED
    BY <2>1, <2>2
<1>3. ASSUME NEW c \in calls, Serve(c) PROVE BeginRedemption(c)
  BY <1>1, <1>2, <1>3 DEF Serve, ReplayBegin, BeginRefused, Lookup, InProgress, Redeem,
     RedeemUnanswered, Cancelled, aicrewd
<1>4. ASSUME NEW h \in Homes PROVE ~Run(h)
  BY <1>1 DEF Run, Join, Begin, TooManyBegins, Begun, BeginAgain, Prove, Link, CompleteAgain,
     ChallengeGone, aicrewd
<1>5. ASSUME NEW h \in Flaky PROVE ~(ProofFails(h) \/ GiveUp(h) \/ Die(h))
  BY <1>1 DEF ProofFails, GiveUp, Die, aicrewd
<1>6. ASSUME NEW ch \in DOMAIN challenges, ExpireChallenge(ch) PROVE FALSE
  <2>. DEFINE e == [challenges[ch] EXCEPT !.state = "gone"]
  <2>1. challenges' = [challenges EXCEPT ![ch] = e]
    BY <1>6 DEF ExpireChallenge
  <2>. HIDE DEF e
  <2>2. DOMAIN challenges' = DOMAIN challenges
    BY <2>1
  <2>3. RedemptionInv'
    BY <1>6, ExpireKeeps
  <2>4. Len(challenges') \in Nat /\ DOMAIN challenges' = 1..Len(challenges')
    BY <2>3 DEF RedemptionInv, TypeOK
  <2>5. 1..Len(challenges') = 1..Len(challenges)
    BY <1>0, <2>2, <2>4, Issued
  <2>. QED
    BY <1>0, <2>4, <2>5
<1>7. ~RestartAicrewd /\ ~CloseInvitation
  BY <1>1 DEF RestartAicrewd, CloseInvitation, aicrewd
<1>. QED
  BY <1>3, <1>4, <1>5, <1>6, <1>7 DEF Next

(* No attempt of the invitation is spent while an earlier challenge of the  *)
(* home is of use: a begin that is not recorded is the one whose key the    *)
(* home has saved.                                                          *)
THEOREM AttemptsAreNotWasted == Spec => NoAttemptWasted
<1>. DEFINE A == Len(challenges') > Len(challenges) =>
       \A ch \in DOMAIN challenges :
           challenges[ch].home = challenges'[Len(challenges')].home => ~Usable(ch)
<1>1. RedemptionInv /\ [Next]_vars => [A]_vars
  <2>. SUFFICES ASSUME RedemptionInv, Next, Len(challenges') > Len(challenges)
                PROVE  \A ch \in DOMAIN challenges :
                          challenges[ch].home = challenges'[Len(challenges')].home => ~Usable(ch)
    OBVIOUS
  <2>0. TypeOK /\ CallInv /\ UsableInv
    BY DEF RedemptionInv
  <2>1. PICK c \in calls : BeginRedemption(c)
    BY OnlyBeginsIssue
  <2>2. c.stage = "begin"
    BY <2>1 DEF BeginRedemption, At
  <2>3. ~Committed(c.key) /\ ForBegin /\ challenges'[Len(challenges')].home = c.home
    BY <2>0, <2>1, <2>2, NewChallenge
  <2>4. c.key = disk[c.home].begin
    BY <2>0, <2>2, <2>3 DEF UsableInv
  <2>. QED
    BY <2>0, <2>3, <2>4 DEF UsableInv
<1>. QED
  BY <1>1, RedemptionIsConsistent, PTL DEF Spec, NoAttemptWasted

=============================================================================
