---------------------------- MODULE ClientProofs ----------------------------
(***************************************************************************)
(* Proofs about what a member's client relies on: it is not refused an      *)
(* entry of its own that committed (SessionEntry), and the inbox it reads   *)
(* passes over nothing it may see (TeamInbox), for any number of clients,   *)
(* challenges, messages and faults.                                         *)
(***************************************************************************)
EXTENDS SessionEntry, TeamInbox, FiniteSetTheorems, TLAPS

-----------------------------------------------------------------------------
(* A client's step *)

(* What a client does to the calls: nothing while it waits for none, it      *)
(* gives its own up, or it sends one more.                                   *)
CallsStep(c, j) ==
    \/ calls' = calls /\ job[c].pc # "sent"
    \/ calls' = Abandoned(c)
    \/ /\ j.pc = "sent"
       /\ \E target \in Nat :
             calls' = Abandoned(c) \cup {[client |-> c, ch |-> j.ch, proof |-> j.proof, target |-> target,
                                          stage |-> "sent", live |-> TRUE]}

(* What it does to the challenges: those of calls keep their entry.          *)
ChallengesStep ==
    /\ challenges' \in [1..MaxChallenges -> ChallengeType]
    /\ \A ch \in 1..MaxChallenges :
          \/ /\ challenges'[ch].entered = challenges[ch].entered
             /\ challenges'[ch].redeemed = challenges[ch].redeemed
          \/ challenges'[ch].entered = None /\ \A r \in calls : r.ch # ch

HomeStep ==
    /\ session' \in [sid : Nat, gen : Nat, issue : Nat, active : BOOLEAN]
    /\ record' \in Nat
    /\ binding' \in {None} \cup Tokens

ClientStep(c) ==
    /\ \E j \in JobType :
          /\ JobOK(j)
          /\ job' = [job EXCEPT ![c] = j]
          /\ CallsStep(c, j)
          /\ job[c].pc = "sent" /\ j.pc = "answered" => j.answer = "unanswered"
    /\ ChallengesStep
    /\ HomeStep

(* A call given up is the same but for its client.                           *)
LEMMA AbandonedCalls ==
    ASSUME calls \subseteq CallType, NEW c \in Clients
    PROVE  /\ Abandoned(c) \subseteq CallType
           /\ \A r \in Abandoned(c) : \E d \in calls :
                 /\ r = IF d.client = c THEN [d EXCEPT !.live = FALSE] ELSE d
                 /\ r.ch = d.ch /\ r.proof = d.proof /\ r.stage = d.stage /\ r.client = d.client
                 /\ r.live => d.live /\ r = d /\ d.client # c
<1>1. ASSUME NEW d \in calls
      PROVE  LET r == IF d.client = c THEN [d EXCEPT !.live = FALSE] ELSE d
             IN  /\ r \in CallType
                 /\ r.ch = d.ch /\ r.proof = d.proof /\ r.stage = d.stage /\ r.client = d.client
                 /\ r.live => d.live /\ r = d /\ d.client # c
  BY DEF CallType
<1>2. Abandoned(c) = {IF d.client = c THEN [d EXCEPT !.live = FALSE] ELSE d : d \in calls}
  BY DEF Abandoned
<1>3. \A r \in Abandoned(c) : \E d \in calls : r = IF d.client = c THEN [d EXCEPT !.live = FALSE] ELSE d
  BY <1>2
<1>. QED
  BY <1>1, <1>3

(* A client's step keeps what is known of the calls in flight.               *)
LEMMA FlightKept ==
    ASSUME TypeOK, FlightInv, NEW c \in Clients, ChallengesStep,
           \/ calls' = calls
           \/ \A r \in calls' : r.stage # "sent" => r \in Abandoned(c)
    PROVE  FlightInv'
<1>1. calls \subseteq CallType
  BY DEF TypeOK
<1>2. \A r \in calls' : r.stage # "sent" =>
         \E d \in calls : /\ d.stage # "sent" /\ r.ch = d.ch /\ r.proof = d.proof /\ r.stage = d.stage
                          /\ calls' # calls => r = IF d.client = c THEN [d EXCEPT !.live = FALSE] ELSE d
  <2>1. CASE calls' = calls
    BY <2>1
  <2>2. CASE \A r \in calls' : r.stage # "sent" => r \in Abandoned(c)
    BY <1>1, <2>2, AbandonedCalls
  <2>. QED
    BY <2>1, <2>2
<1>3. ASSUME NEW r \in calls', NEW d \in calls', r.stage # "sent", d.stage # "sent",
             r.ch = d.ch, r.proof = d.proof
      PROVE  r = d
  <2>1. CASE calls' = calls
    BY <1>3, <2>1 DEF FlightInv
  <2>2. CASE calls' # calls
    <3>1. PICK x \in calls : /\ x.stage # "sent" /\ r.ch = x.ch /\ r.proof = x.proof
                             /\ r = IF x.client = c THEN [x EXCEPT !.live = FALSE] ELSE x
      BY <1>2, <1>3, <2>2
    <3>2. PICK y \in calls : /\ y.stage # "sent" /\ d.ch = y.ch /\ d.proof = y.proof
                             /\ d = IF y.client = c THEN [y EXCEPT !.live = FALSE] ELSE y
      BY <1>2, <1>3, <2>2
    <3>3. x = y
      BY <1>3, <3>1, <3>2 DEF FlightInv
    <3>. QED
      BY <3>1, <3>2, <3>3
  <2>. QED
    BY <2>1, <2>2
<1>4. ASSUME NEW r \in calls', r.stage # "sent"
      PROVE  /\ ~Committed(r)'
             /\ r.stage = "verified" => r.proof \in challenges'[r.ch].redeemed
  <2>1. PICK d \in calls : d.stage # "sent" /\ r.ch = d.ch /\ r.proof = d.proof /\ r.stage = d.stage
    BY <1>2, <1>4
  <2>2. d.ch \in 1..MaxChallenges
    BY <1>1 DEF CallType
  <2>3. challenges'[d.ch].entered = challenges[d.ch].entered /\ challenges'[d.ch].redeemed = challenges[d.ch].redeemed
    BY <2>2 DEF ChallengesStep
  <2>4. ~Committed(d) /\ (d.stage = "verified" => d.proof \in challenges[d.ch].redeemed)
    BY <2>1 DEF FlightInv
  <2>. QED
    BY <2>1, <2>3, <2>4 DEF Committed
<1>5. \A ch \in 1..MaxChallenges :
         challenges'[ch].entered # None => challenges'[ch].entered[3] \in challenges'[ch].redeemed
  BY DEF FlightInv, ChallengesStep
<1>. QED
  BY <1>3, <1>4, <1>5 DEF FlightInv

(* A client's step keeps the invariant.                                      *)
LEMMA ClientKeeps ==
    ASSUME EntryInv, NEW c \in Clients, ClientStep(c)
    PROVE  EntryInv'
<1>1. PICK j \in JobType : /\ JobOK(j)
                           /\ job' = [job EXCEPT ![c] = j]
                           /\ CallsStep(c, j)
  BY DEF ClientStep
<1>2. /\ TypeOK /\ LiveInv /\ FlightInv /\ ChallengesStep /\ HomeStep
      /\ calls \subseteq CallType /\ job \in [Clients -> JobType]
      /\ \A d \in Clients : JobOK(job[d])
  BY DEF EntryInv, TypeOK, ClientStep
<1>3. /\ job' \in [Clients -> JobType] /\ job'[c] = j
      /\ \A d \in Clients : d # c => job'[d] = job[d]
  BY <1>1, <1>2
<1>4. \A d \in Clients : JobOK(job[d])'
  <2>1. \A d \in Clients : JobOK(job'[d])
    BY <1>1, <1>2, <1>3
  <2>. QED
    BY <2>1 DEF JobOK
<1>. DEFINE new(target) == [client |-> c, ch |-> j.ch, proof |-> j.proof, target |-> target,
                            stage |-> "sent", live |-> TRUE]
<1>5. CASE calls' = calls /\ job[c].pc # "sent"
  <2>1. FlightInv'
    BY <1>2, <1>5, FlightKept
  <2>2. LiveInv'
    BY <1>2, <1>3, <1>5 DEF LiveInv, CallType
  <2>. QED
    BY <1>2, <1>3, <1>4, <1>5, <2>1, <2>2 DEF EntryInv, TypeOK, ChallengesStep, HomeStep
<1>6. ASSUME calls' \subseteq CallType,
             \A r \in calls' : \/ r \in Abandoned(c)
                               \/ /\ r.stage = "sent" /\ r.client = c /\ j.pc = "sent"
                                  /\ r.ch = j.ch /\ r.proof = j.proof,
             \A r, d \in calls' \ Abandoned(c) : r = d
      PROVE  EntryInv'
  <2>1. FlightInv'
    BY <1>2, <1>6, FlightKept
  <2>2. \A r \in calls' : r.live => \/ /\ r \notin Abandoned(c) /\ r.client = c /\ j.pc = "sent"
                                       /\ r.ch = j.ch /\ r.proof = j.proof
                                    \/ r \in calls /\ r.client # c /\ r.client \in Clients
    <3>1. \A r \in Abandoned(c) : r.live => r \in calls /\ r.client # c
      BY <1>2, AbandonedCalls
    <3>2. \A r \in calls : r.client \in Clients
      BY <1>2 DEF CallType
    <3>. QED
      BY <1>6, <3>1, <3>2
  <2>3. LiveInv'
    <3>1. ASSUME NEW r \in calls', r.live
          PROVE  /\ job'[r.client].pc = "sent"
                 /\ r.ch = job'[r.client].ch /\ r.proof = job'[r.client].proof
      BY <1>2, <1>3, <1>6, <2>2, <3>1 DEF LiveInv
    <3>2. ASSUME NEW r \in calls', NEW d \in calls', r.live, d.live, r.client = d.client
          PROVE  r = d
      BY <1>2, <1>6, <2>2, <3>2 DEF LiveInv
    <3>. QED
      BY <3>1, <3>2 DEF LiveInv
  <2>. QED
    BY <1>2, <1>3, <1>4, <1>6, <2>1, <2>3 DEF EntryInv, TypeOK, ChallengesStep, HomeStep
<1>7. CASE calls' = Abandoned(c)
  BY <1>2, <1>6, <1>7, AbandonedCalls
<1>8. ASSUME NEW target \in Nat, j.pc = "sent", calls' = Abandoned(c) \cup {new(target)}
      PROVE  EntryInv'
  <2>1. new(target) \in CallType
    <3>1. j.ch \in 1..MaxChallenges /\ j.proof \in Nat
      <4>1. j.ch \in 0..MaxChallenges /\ j.ch # 0 /\ j.proof \in Nat
        BY <1>1, <1>8 DEF JobOK, JobType
      <4>2. MaxChallenges \in Nat
        BY EntryAssumption
      <4>. QED
        BY <4>1, <4>2
    <3>. QED
      BY <3>1, <1>8 DEF CallType
  <2>2. /\ new(target).client = c /\ new(target).live /\ new(target).ch = j.ch
        /\ new(target).proof = j.proof /\ new(target).stage = "sent"
    OBVIOUS
  <2>. HIDE DEF new
  <2>3. Abandoned(c) \subseteq CallType
    BY <1>2, AbandonedCalls
  <2>. QED
    BY <1>6, <1>8, <2>1, <2>2, <2>3
<1>. QED
  BY <1>1, <1>5, <1>7, <1>8 DEF CallsStep

(* Where the challenges stay, or those nobody else is at are forgotten.      *)
LEMMA ChallengesKept ==
    ASSUME TypeOK, NEW c \in Clients
    PROVE  /\ challenges' = challenges => ChallengesStep
           /\ challenges' = Forget(c) => ChallengesStep
           /\ Forget(c) \in [1..MaxChallenges -> ChallengeType]
           /\ \A ch \in 1..MaxChallenges :
                 Forget(c)[ch] = challenges[ch] \/ (Forget(c)[ch] = NoChallenge /\ ch \notin Open(c))
<1>1. challenges \in [1..MaxChallenges -> ChallengeType]
  BY DEF TypeOK
<1>2. NoChallenge \in ChallengeType /\ NoChallenge.entered = None
  BY DEF NoChallenge, ChallengeType
<1>3. /\ Forget(c) \in [1..MaxChallenges -> ChallengeType]
      /\ \A ch \in 1..MaxChallenges :
            Forget(c)[ch] = challenges[ch] \/ (Forget(c)[ch] = NoChallenge /\ ch \notin Open(c))
  BY <1>1, <1>2 DEF Forget
<1>4. \A ch \in 1..MaxChallenges : ch \notin Open(c) => \A r \in calls : r.ch # ch
  BY DEF Open
<1>5. challenges' = challenges => ChallengesStep
  BY <1>1 DEF ChallengesStep
<1>6. challenges' = Forget(c) => ChallengesStep
  BY <1>2, <1>3, <1>4 DEF ChallengesStep
<1>. QED
  BY <1>3, <1>5, <1>6

(* What a client is at when it is idle, and when it proves.                   *)
LEMMA IdleIsAJob ==
    Idle \in JobType /\ JobOK(Idle) /\ Idle.pc = "idle"
<1>1. 0 \in 0..MaxChallenges
  BY EntryAssumption
<1>. QED
  BY <1>1 DEF Idle, JobType, JobOK, Codes

LEMMA ProvingIsAJob ==
    ASSUME NEW c \in Clients, job[c] \in JobType, NEW goal \in {"start", "leave", "run", "again"},
           NEW target \in Nat, goal = "run" => job[c].token # None
    PROVE  /\ Proving(c, goal, target) \in JobType /\ JobOK(Proving(c, goal, target))
           /\ Proving(c, goal, target).pc = "challenge"
<1>. DEFINE j == Proving(c, goal, target)
<1>0. 0 \in 0..MaxChallenges
  BY EntryAssumption
<1>1. j \in JobType
  BY <1>0 DEF Proving, JobType, Codes
<1>2. j.pc = "challenge" /\ j.goal = goal /\ j.token = job[c].token
  BY DEF Proving, JobType
<1>3. JobOK(j)
  <2>. HIDE DEF j
  <2>. QED
    BY <1>2 DEF JobOK
<1>. QED
  BY <1>1, <1>2, <1>3

(* The steps of a client to its next request.                                *)
LEMMA AsksAreSteps ==
    ASSUME EntryInv, NEW c \in Clients,
           \/ Start(c) \/ LeaveRecorded(c) \/ GetChallenge(c) \/ NoRoundLeft(c)
           \/ Prove(c) \/ SameKey(c) \/ NewRound(c) \/ NewProof(c)
    PROVE  ClientStep(c)
<1>1. /\ TypeOK /\ JobOK(job[c]) /\ job \in [Clients -> JobType] /\ job[c] \in JobType
      /\ record \in Nat /\ challenges \in [1..MaxChallenges -> ChallengeType]
      /\ session \in [sid : Nat, gen : Nat, issue : Nat, active : BOOLEAN] /\ binding \in {None} \cup Tokens
  BY DEF EntryInv, TypeOK
<1>2. UNCHANGED <<session, record, binding>> => HomeStep
  BY <1>1 DEF HomeStep
<1>0. 0 \in 0..MaxChallenges /\ job[c].proof + 1 \in Nat /\ job[c].rounds + 1 \in Nat
  <2>1. job[c].proof \in Nat /\ job[c].rounds \in Nat
    BY <1>1 DEF JobType
  <2>. QED
    BY <2>1, EntryAssumption
<1>4. Idle \in JobType /\ JobOK(Idle) /\ Idle.pc = "idle"
  BY IdleIsAJob
<1>5. CASE Start(c)
  <2>. DEFINE j == Proving(c, "start", Recorded)
  <2>1. job' = [job EXCEPT ![c] = j] /\ UNCHANGED <<session, record, binding, challenges, calls>> /\ job[c].pc = "idle"
    BY <1>5 DEF Start, aicrewd
  <2>2. j \in JobType /\ JobOK(j) /\ j.pc = "challenge"
    BY <1>1, ProvingIsAJob DEF Recorded
  <2>. HIDE DEF j
  <2>. QED
    BY <1>1, <1>2, <2>1, <2>2, ChallengesKept DEF ClientStep, CallsStep
<1>6. CASE LeaveRecorded(c)
  <2>. DEFINE j == Proving(c, "leave", record)
  <2>1. job' = [job EXCEPT ![c] = j] /\ UNCHANGED <<session, record, binding, challenges, calls>> /\ job[c].pc = "idle"
    BY <1>6 DEF LeaveRecorded, aicrewd
  <2>2. j \in JobType /\ JobOK(j) /\ j.pc = "challenge"
    BY <1>1, ProvingIsAJob
  <2>. HIDE DEF j
  <2>. QED
    BY <1>1, <1>2, <2>1, <2>2, ChallengesKept DEF ClientStep, CallsStep
<1>7. CASE GetChallenge(c)
  <2>. DEFINE f == FreshChallenge(c)
              n == job[c].rounds + 1
              j == [job[c] EXCEPT !.pc = "prove", !.ch = f, !.proof = 0, !.rounds = n]
  <2>1. f \in 1..MaxChallenges /\ f \notin Open(c)
    BY <1>7 DEF GetChallenge, ChallengeLeft, FreshChallenge
  <2>2. /\ UNCHANGED <<session, record, binding, calls>> /\ job[c].pc = "challenge"
        /\ challenges' = [Forget(c) EXCEPT ![f].state = "pending"]
        /\ job' = [job EXCEPT ![c].pc = "prove", ![c].ch = f, ![c].proof = 0, ![c].rounds = @ + 1]
    BY <1>7 DEF GetChallenge
  <2>. HIDE DEF f
  <2>3. job' = [job EXCEPT ![c] = j]
    BY <1>1, <2>2
  <2>4. j \in JobType /\ JobOK(j) /\ j.pc = "prove"
    <3>1. f \in 0..MaxChallenges /\ f # 0
      BY <2>1, EntryAssumption
    <3>2. j \in JobType /\ j.pc = "prove" /\ j.ch = f /\ j.goal = job[c].goal /\ j.token = job[c].token
      <4>1. n \in Nat
        BY <1>0
      <4>. HIDE DEF n
      <4>. QED
        BY <1>1, <3>1, <4>1 DEF JobType
    <3>. HIDE DEF j
    <3>. QED
      BY <1>1, <3>1, <3>2 DEF JobOK
  <2>5. ChallengesStep
    <3>1. Forget(c)[f] \in ChallengeType
      BY <1>1, <2>1, ChallengesKept
    <3>2. challenges' \in [1..MaxChallenges -> ChallengeType]
      BY <1>1, <2>1, <2>2, <3>1, ChallengesKept DEF ChallengeType
    <3>3. \A ch \in 1..MaxChallenges : /\ challenges'[ch].entered = Forget(c)[ch].entered
                                       /\ challenges'[ch].redeemed = Forget(c)[ch].redeemed
      BY <1>1, <2>1, <2>2, <3>1, ChallengesKept DEF ChallengeType
    <3>4. \A ch \in 1..MaxChallenges : ch \notin Open(c) => \A r \in calls : r.ch # ch
      BY DEF Open
    <3>5. NoChallenge.entered = None
      BY DEF NoChallenge
    <3>. QED
      BY <1>1, <3>2, <3>3, <3>4, <3>5, ChallengesKept DEF ChallengesStep
  <2>. HIDE DEF j
  <2>. QED
    BY <1>2, <2>2, <2>3, <2>4, <2>5 DEF ClientStep, CallsStep
<1>8. CASE NoRoundLeft(c)
  <2>1. job' = [job EXCEPT ![c] = Idle] /\ UNCHANGED <<session, record, binding, challenges, calls>> /\ job[c].pc = "challenge"
    BY <1>8 DEF NoRoundLeft, Exit, aicrewd
  <2>. QED
    BY <1>1, <1>2, <1>4, <2>1, ChallengesKept DEF ClientStep, CallsStep
<1>9. CASE Prove(c)
  <2>. DEFINE n == job[c].proof + 1
              j == [job[c] EXCEPT !.pc = "sent", !.proof = n]
              f == job[c].ch
  <2>1. /\ UNCHANGED <<session, record, binding>> /\ job[c].pc = "prove"
        /\ challenges' = [challenges EXCEPT ![f].proofs = @ + 1, ![f].fresh = TRUE]
        /\ calls' = Abandoned(c) \cup {[client |-> c, ch |-> f, proof |-> job[c].proof + 1, target |-> job[c].target,
                                        stage |-> "sent", live |-> TRUE]}
        /\ job' = [job EXCEPT ![c].pc = "sent", ![c].proof = @ + 1]
    BY <1>9 DEF Prove, Send
  <2>2. job' = [job EXCEPT ![c] = j]
    BY <1>1, <2>1
  <2>3. j \in JobType /\ JobOK(j) /\ j.pc = "sent" /\ j.ch = f /\ j.proof = job[c].proof + 1 /\ job[c].target \in Nat
    <3>1. /\ j \in JobType /\ j.pc = "sent" /\ j.ch = f /\ j.goal = job[c].goal /\ j.token = job[c].token
          /\ j.proof = job[c].proof + 1 /\ job[c].target \in Nat
      <4>1. n \in Nat
        BY <1>0
      <4>2. n = job[c].proof + 1
        OBVIOUS
      <4>. HIDE DEF n
      <4>3. j \in JobType /\ j.proof = n
        BY <1>1, <4>1 DEF JobType
      <4>4. j.pc = "sent" /\ j.ch = f /\ j.goal = job[c].goal /\ j.token = job[c].token /\ job[c].target \in Nat
        BY <1>1 DEF JobType
      <4>. HIDE DEF j
      <4>. QED
        BY <4>2, <4>3, <4>4
    <3>. HIDE DEF j
    <3>. QED
      BY <1>1, <2>1, <3>1 DEF JobOK
  <2>4. ChallengesStep
    <3>. DEFINE m == challenges[f].proofs + 1
                x == [challenges[f] EXCEPT !.proofs = m, !.fresh = TRUE]
    <3>0. f \in 1..MaxChallenges
      <4>1. f \in 0..MaxChallenges /\ f # 0
        BY <1>1, <2>1 DEF JobOK, JobType
      <4>. HIDE DEF f
      <4>. QED
        BY <4>1, EntryAssumption
    <3>1. challenges' \in [1..MaxChallenges -> ChallengeType]
      <4>1. challenges[f] \in ChallengeType /\ m \in Nat
        BY <1>1, <3>0 DEF ChallengeType
      <4>2. challenges' = [challenges EXCEPT ![f] = x]
        BY <1>1, <2>1, <3>0
      <4>. HIDE DEF m, f
      <4>3. x \in ChallengeType
        BY <4>1 DEF ChallengeType
      <4>. HIDE DEF x
      <4>. QED
        BY <1>1, <4>2, <4>3
    <3>2. \A ch \in 1..MaxChallenges : /\ challenges'[ch].entered = challenges[ch].entered
                                       /\ challenges'[ch].redeemed = challenges[ch].redeemed
      BY <1>1, <2>1 DEF ChallengeType
    <3>. QED
      BY <3>1, <3>2 DEF ChallengesStep
  <2>. HIDE DEF j
  <2>5. CallsStep(c, j)
    BY <2>1, <2>3 DEF CallsStep
  <2>. QED
    BY <1>2, <2>1, <2>2, <2>3, <2>4, <2>5 DEF ClientStep
<1>10. CASE SameKey(c)
  <2>. DEFINE j == [job[c] EXCEPT !.pc = "sent", !.answer = ""]
  <2>1. /\ UNCHANGED <<session, record, binding, challenges>> /\ job[c].pc = "answered"
        /\ calls' = Abandoned(c) \cup {[client |-> c, ch |-> job[c].ch, proof |-> job[c].proof, target |-> job[c].target,
                                        stage |-> "sent", live |-> TRUE]}
        /\ job' = [job EXCEPT ![c].pc = "sent", ![c].answer = ""]
    BY <1>10 DEF SameKey, Send, Answered
  <2>2. job' = [job EXCEPT ![c] = j]
    BY <1>1, <2>1
  <2>3. j \in JobType /\ JobOK(j) /\ j.pc = "sent" /\ j.ch = job[c].ch /\ j.proof = job[c].proof /\ job[c].target \in Nat
    <3>1. /\ j \in JobType /\ j.pc = "sent" /\ j.ch = job[c].ch /\ j.goal = job[c].goal /\ j.token = job[c].token
          /\ j.proof = job[c].proof /\ job[c].target \in Nat
      BY <1>1 DEF JobType, Codes
    <3>. HIDE DEF j
    <3>. QED
      BY <1>1, <2>1, <3>1 DEF JobOK
  <2>. HIDE DEF j
  <2>4. CallsStep(c, j)
    BY <2>1, <2>3 DEF CallsStep
  <2>. QED
    BY <1>1, <1>2, <2>1, <2>2, <2>3, <2>4, ChallengesKept DEF ClientStep
<1>11. CASE NewRound(c)
  <2>. DEFINE j == [job[c] EXCEPT !.pc = "challenge", !.answer = "", !.ch = 0]
  <2>1. /\ UNCHANGED <<session, record, binding, calls>> /\ job[c].pc = "answered"
        /\ challenges' = Forget(c)
        /\ job' = [job EXCEPT ![c].pc = "challenge", ![c].answer = "", ![c].ch = 0]
    BY <1>11 DEF NewRound
  <2>2. job' = [job EXCEPT ![c] = j]
    BY <1>1, <2>1
  <2>3. j \in JobType /\ JobOK(j) /\ j.pc = "challenge"
    <3>1. 0 \in 0..MaxChallenges
      BY EntryAssumption
    <3>2. j \in JobType /\ j.pc = "challenge" /\ j.goal = job[c].goal /\ j.token = job[c].token
      BY <1>1, <3>1 DEF JobType, Codes
    <3>. HIDE DEF j
    <3>. QED
      BY <1>1, <3>2 DEF JobOK
  <2>. HIDE DEF j
  <2>. QED
    BY <1>1, <1>2, <2>1, <2>2, <2>3, ChallengesKept DEF ClientStep, CallsStep
<1>12. CASE NewProof(c)
  <2>. DEFINE j == [job[c] EXCEPT !.pc = "prove", !.answer = ""]
  <2>1. /\ UNCHANGED <<session, record, binding, calls, challenges>> /\ job[c].pc = "answered"
        /\ job' = [job EXCEPT ![c].pc = "prove", ![c].answer = ""]
    BY <1>12 DEF NewProof, Answered, aicrewd
  <2>2. job' = [job EXCEPT ![c] = j]
    BY <1>1, <2>1
  <2>3. j \in JobType /\ JobOK(j) /\ j.pc = "prove"
    <3>1. j \in JobType /\ j.pc = "prove" /\ j.ch = job[c].ch /\ j.goal = job[c].goal /\ j.token = job[c].token
      BY <1>1 DEF JobType, Codes
    <3>. HIDE DEF j
    <3>. QED
      BY <1>1, <2>1, <3>1 DEF JobOK
  <2>. HIDE DEF j
  <2>. QED
    BY <1>1, <1>2, <2>1, <2>2, <2>3, ChallengesKept DEF ClientStep, CallsStep
<1>. QED
  BY <1>5, <1>6, <1>7, <1>8, <1>9, <1>10, <1>11, <1>12

(* The steps of a client with its answer, its session and its end.           *)
LEMMA HoldsAreSteps ==
    ASSUME EntryInv, NEW c \in Clients,
           \/ Adopt(c) \/ Fails(c) \/ HasEnded(c) \/ RecordSession(c) \/ Bind(c) \/ RecordBound(c)
           \/ BindFails(c)
           \/ Refresh(c) \/ RefreshRefused(c) \/ Renew(c)
    PROVE  ClientStep(c)
<1>1. /\ TypeOK /\ JobOK(job[c]) /\ job \in [Clients -> JobType] /\ job[c] \in JobType
      /\ record \in Nat /\ challenges \in [1..MaxChallenges -> ChallengeType]
      /\ session \in [sid : Nat, gen : Nat, issue : Nat, active : BOOLEAN] /\ binding \in {None} \cup Tokens
  BY DEF EntryInv, TypeOK
<1>2. UNCHANGED session /\ record' \in Nat /\ binding' \in {None} \cup Tokens => HomeStep
  BY <1>1 DEF HomeStep
<1>3. ASSUME NEW j \in JobType, JobOK(j), j.pc # "answered", job[c].pc # "sent",
             job' = [job EXCEPT ![c] = j], calls' = calls,
             challenges' = challenges \/ challenges' = Forget(c), HomeStep
      PROVE  ClientStep(c)
  BY <1>1, <1>3, ChallengesKept DEF ClientStep, CallsStep
<1>4. Idle \in JobType /\ JobOK(Idle) /\ Idle.pc = "idle"
  BY IdleIsAJob
<1>5. ASSUME job[c].token # None
      PROVE  job[c].token \in Tokens /\ job[c].token[1] \in Nat
  BY <1>1, <1>5 DEF JobType, Tokens
<1>6. CASE Adopt(c)
  <2>. DEFINE t == job[c].got
              s == t[1]
              j == [job[c] EXCEPT !.pc = "bind", !.token = t, !.got = None, !.answer = "", !.ch = 0,
                                  !.proof = 0, !.rounds = 0, !.target = s]
  <2>1. /\ UNCHANGED <<session, record, binding, calls>> /\ job[c].pc = "answered" /\ job[c].answer = "ok"
        /\ challenges' = Forget(c) /\ job' = [job EXCEPT ![c] = j]
    BY <1>1, <1>6 DEF Adopt, Answered
  <2>2. t \in Tokens /\ t # None
    BY <1>1, <2>1 DEF JobOK, JobType
  <2>3. s \in Nat
    BY <2>2 DEF Tokens
  <2>4. 0 \in 0..MaxChallenges
    BY EntryAssumption
  <2>. HIDE DEF t, s
  <2>5. j \in JobType /\ j.pc = "bind" /\ j.token = t
    BY <1>1, <2>2, <2>3, <2>4 DEF JobType, Codes
  <2>. HIDE DEF j
  <2>6. JobOK(j)
    BY <2>2, <2>5 DEF JobOK
  <2>. QED
    BY <1>1, <1>2, <1>3, <2>1, <2>5, <2>6
<1>7. CASE Fails(c)
  <2>1. /\ UNCHANGED <<session, record, binding, calls>> /\ job[c].pc = "answered"
        /\ challenges' = Forget(c) /\ job' = [job EXCEPT ![c] = Idle]
    BY <1>7 DEF Fails, Answered, Exit
  <2>. QED
    BY <1>1, <1>2, <1>3, <1>4, <2>1
<1>8. CASE HasEnded(c)
  <2>. DEFINE close == [job[c] EXCEPT !.pc = "close"]
              again == Proving(c, "start", 0)
  <2>1. /\ UNCHANGED <<session, binding, calls>> /\ job[c].pc = "answered" /\ record' \in {0, record}
        /\ challenges' = Forget(c)
        /\ \/ job' = [job EXCEPT ![c] = again]
           \/ job' = [job EXCEPT ![c] = close]
           \/ job' = [job EXCEPT ![c] = Idle]
    BY <1>1, <1>8 DEF HasEnded, Answered
  <2>2. HomeStep
    BY <1>1, <1>2, <2>1
  <2>3. close \in JobType /\ JobOK(close) /\ close.pc = "close"
    <3>1. close \in JobType /\ close.pc = "close" /\ close.goal = job[c].goal /\ close.token = job[c].token
      BY <1>1 DEF JobType
    <3>. HIDE DEF close
    <3>. QED
      BY <1>1, <3>1 DEF JobOK
  <2>4. again \in JobType /\ JobOK(again) /\ again.pc = "challenge"
    BY <1>1, ProvingIsAJob
  <2>. HIDE DEF close, again
  <2>. QED
    BY <1>3, <1>4, <2>1, <2>2, <2>3, <2>4
<1>9. CASE RecordSession(c)
  <2>. DEFINE j == [job[c] EXCEPT !.pc = "open"]
  <2>1. /\ UNCHANGED <<session, binding, calls, challenges>> /\ job[c].pc = "bind" /\ record' = job[c].token[1]
        /\ job' = [job EXCEPT ![c] = j]
    BY <1>1, <1>9 DEF RecordSession, aicrewd
  <2>2. job[c].token # None
    BY <1>1, <2>1 DEF JobOK
  <2>3. j \in JobType /\ j.pc = "open" /\ j.token = job[c].token
    BY <1>1 DEF JobType
  <2>. HIDE DEF j
  <2>4. JobOK(j)
    BY <2>2, <2>3 DEF JobOK
  <2>5. HomeStep
    BY <1>1, <1>2, <1>5, <2>1, <2>2
  <2>. QED
    BY <1>3, <2>1, <2>3, <2>4, <2>5
<1>10. CASE Bind(c)
  <2>. DEFINE j == [job[c] EXCEPT !.pc = "bound"]
  <2>1. /\ UNCHANGED <<session, record, calls, challenges>> /\ job[c].pc = "open" /\ binding' = job[c].token
        /\ job' = [job EXCEPT ![c] = j]
    BY <1>1, <1>10 DEF Bind, aicrewd
  <2>2. job[c].token # None
    BY <1>1, <2>1 DEF JobOK
  <2>3. j \in JobType /\ j.pc = "bound" /\ j.token = job[c].token
    BY <1>1 DEF JobType
  <2>. HIDE DEF j
  <2>4. JobOK(j)
    BY <2>2, <2>3 DEF JobOK
  <2>5. HomeStep
    BY <1>1, <1>2, <1>5, <2>1, <2>2
  <2>. QED
    BY <1>3, <2>1, <2>3, <2>4, <2>5
<1>11. CASE BindFails(c)
  <2>. DEFINE j == [job[c] EXCEPT !.pc = "leave"]
  <2>1. /\ UNCHANGED <<session, record, binding, calls, challenges>> /\ job[c].pc = "open"
        /\ job' = [job EXCEPT ![c] = j] \/ job' = [job EXCEPT ![c] = Idle]
    BY <1>1, <1>11 DEF BindFails, aicrewd, Exit
  <2>2. job[c].token # None
    BY <1>1, <2>1 DEF JobOK
  <2>3. j \in JobType /\ j.pc = "leave" /\ j.token = job[c].token
    BY <1>1 DEF JobType
  <2>. HIDE DEF j
  <2>4. JobOK(j)
    BY <2>2, <2>3 DEF JobOK
  <2>. QED
    BY <1>1, <1>2, <1>3, <1>4, <2>1, <2>3, <2>4
<1>12. CASE Refresh(c)
  <2>1. /\ UNCHANGED <<session, record, calls, challenges, job>> /\ job[c].pc = "running" /\ binding' = job[c].token
    BY <1>12 DEF Refresh, aicrewd
  <2>2. job[c].token # None
    BY <1>1, <2>1 DEF JobOK
  <2>3. HomeStep
    BY <1>1, <1>2, <1>5, <2>1, <2>2
  <2>4. job' = [job EXCEPT ![c] = job[c]]
    BY <1>1, <2>1
  <2>. QED
    BY <1>1, <1>3, <2>1, <2>3, <2>4
<1>13. CASE RefreshRefused(c) \/ Renew(c)
  <2>. DEFINE j == Proving(c, "run", job[c].token[1])
  <2>1. /\ UNCHANGED <<session, record, binding, calls, challenges>> /\ job[c].pc = "running"
        /\ job' = [job EXCEPT ![c] = j]
    BY <1>13 DEF RefreshRefused, Renew, aicrewd
  <2>2. job[c].token # None
    BY <1>1, <2>1 DEF JobOK
  <2>3. j \in JobType /\ JobOK(j) /\ j.pc = "challenge"
    BY <1>1, <1>5, <2>2, ProvingIsAJob
  <2>. HIDE DEF j
  <2>. QED
    BY <1>1, <1>2, <1>3, <2>1, <2>3
<1>14. CASE RecordBound(c)
  <2>. DEFINE running == [job[c] EXCEPT !.pc = "running"]
              leaving == [job[c] EXCEPT !.pc = "leave"]
  <2>1. /\ UNCHANGED <<session, binding, calls, challenges>> /\ job[c].pc = "bound"
        /\ record' = job[c].token[1]
        /\ job' = [job EXCEPT ![c] = running] \/ job' = [job EXCEPT ![c] = leaving]
    BY <1>1, <1>14 DEF RecordBound, aicrewd
  <2>2. job[c].token # None
    BY <1>1, <2>1 DEF JobOK
  <2>3. /\ running \in JobType /\ running.pc = "running" /\ running.token = job[c].token
        /\ leaving \in JobType /\ leaving.pc = "leave" /\ leaving.token = job[c].token
    BY <1>1 DEF JobType
  <2>. HIDE DEF running, leaving
  <2>4. JobOK(running) /\ JobOK(leaving)
    BY <2>2, <2>3 DEF JobOK
  <2>5. HomeStep
    BY <1>1, <1>2, <1>5, <2>1, <2>2
  <2>. QED
    BY <1>3, <2>1, <2>3, <2>4, <2>5
<1>. QED
  BY <1>6, <1>7, <1>8, <1>9, <1>10, <1>11, <1>12, <1>13, <1>14

(* The steps of a client that leaves, waits no longer or dies.               *)
LEMMA LeavesAreSteps ==
    ASSUME EntryInv, NEW c \in Clients,
           \/ Interrupt(c) \/ Leave(c) \/ LeaveReplayed(c) \/ LeaveRefused(c) \/ LeaveStale(c)
           \/ Close(c) \/ CloseFails(c) \/ GiveUp(c) \/ Die(c)
    PROVE  ClientStep(c)
<1>1. /\ TypeOK /\ JobOK(job[c]) /\ job \in [Clients -> JobType] /\ job[c] \in JobType
      /\ record \in Nat /\ challenges \in [1..MaxChallenges -> ChallengeType]
      /\ session \in [sid : Nat, gen : Nat, issue : Nat, active : BOOLEAN] /\ binding \in {None} \cup Tokens
  BY DEF EntryInv, TypeOK
<1>2. UNCHANGED session /\ record' \in Nat /\ binding' \in {None} \cup Tokens => HomeStep
  BY <1>1 DEF HomeStep
<1>3. ASSUME NEW j \in JobType, JobOK(j), job[c].pc # "sent" \/ j.pc # "answered" \/ j.answer = "unanswered",
             job' = [job EXCEPT ![c] = j], (calls' = calls /\ job[c].pc # "sent") \/ calls' = Abandoned(c),
             challenges' = challenges, HomeStep
      PROVE  ClientStep(c)
  BY <1>1, <1>3, ChallengesKept DEF ClientStep, CallsStep
<1>4. Idle \in JobType /\ JobOK(Idle) /\ Idle.pc = "idle"
  BY IdleIsAJob
<1>5. ASSUME job[c].token # None
      PROVE  job[c].token \in Tokens /\ job[c].token[1] \in Nat
  BY <1>1, <1>5 DEF JobType, Tokens
<1>6. CASE Interrupt(c)
  <2>. DEFINE t == job[c].token
              s == t[1]
              j == [Idle EXCEPT !.pc = "leave", !.token = t, !.target = s]
  <2>1. /\ UNCHANGED <<session, record, binding, challenges>> /\ (job[c].pc = "running" \/ job[c].goal = "run")
        /\ calls' = Abandoned(c) /\ job' = [job EXCEPT ![c] = j]
    BY <1>6 DEF Interrupt
  <2>2. t # None
    BY <1>1, <2>1 DEF JobOK
  <2>3. t \in Tokens /\ s \in Nat
    BY <1>5, <2>2
  <2>. HIDE DEF t, s
  <2>4. j \in JobType /\ j.pc = "leave" /\ j.token = t
    BY <1>4, <2>3 DEF JobType
  <2>. HIDE DEF j
  <2>5. JobOK(j)
    BY <2>2, <2>4 DEF JobOK
  <2>. QED
    BY <1>1, <1>2, <1>3, <2>1, <2>4, <2>5
<1>7. CASE Leave(c)
  <2>. DEFINE close == [job[c] EXCEPT !.pc = "close"]
              left == [job[c] EXCEPT !.left = TRUE]
  <2>1. /\ UNCHANGED <<record, binding, challenges, calls>> /\ job[c].pc = "leave"
        /\ session' = [session EXCEPT !.active = FALSE]
        /\ job' = [job EXCEPT ![c] = close] \/ job' = [job EXCEPT ![c] = left]
    BY <1>1, <1>7 DEF Leave
  <2>2. HomeStep
    BY <1>1, <2>1 DEF HomeStep
  <2>3. /\ close \in JobType /\ close.pc = "close" /\ close.goal = job[c].goal /\ close.token = job[c].token
        /\ left \in JobType /\ left.pc = job[c].pc /\ left.goal = job[c].goal /\ left.token = job[c].token
    BY <1>1 DEF JobType
  <2>. HIDE DEF close, left
  <2>4. JobOK(close) /\ JobOK(left)
    BY <1>1, <2>1, <2>3 DEF JobOK
  <2>. QED
    BY <1>3, <2>1, <2>2, <2>3, <2>4
<1>8. CASE LeaveReplayed(c)
  <2>. DEFINE j == [job[c] EXCEPT !.pc = "close"]
  <2>1. /\ UNCHANGED <<session, record, binding, challenges, calls>> /\ job[c].pc = "leave"
        /\ job' = [job EXCEPT ![c] = j]
    BY <1>1, <1>8 DEF LeaveReplayed, aicrewd
  <2>2. j \in JobType /\ j.pc = "close" /\ j.goal = job[c].goal /\ j.token = job[c].token
    BY <1>1 DEF JobType
  <2>. HIDE DEF j
  <2>3. JobOK(j)
    BY <1>1, <2>2 DEF JobOK
  <2>. QED
    BY <1>1, <1>2, <1>3, <2>1, <2>2, <2>3
<1>9. CASE LeaveRefused(c) \/ CloseFails(c)
  <2>1. /\ UNCHANGED <<session, record, binding, challenges, calls>> /\ job[c].pc \in {"leave", "close"}
        /\ job' = [job EXCEPT ![c] = Idle]
    BY <1>9 DEF LeaveRefused, CloseFails, Exit, aicrewd
  <2>. QED
    BY <1>1, <1>2, <1>3, <1>4, <2>1
<1>10. CASE LeaveStale(c)
  <2>. DEFINE p == Proving(c, "again", job[c].token[1])
              j == [p EXCEPT !.resumed = TRUE]
  <2>1. /\ UNCHANGED <<session, record, binding, challenges, calls>> /\ job[c].pc = "leave"
        /\ job' = [job EXCEPT ![c] = Idle] \/ job' = [job EXCEPT ![c] = j]
    BY <1>10 DEF LeaveStale, Exit, aicrewd
  <2>2. job[c].token # None
    BY <1>1, <2>1 DEF JobOK
  <2>3. p \in JobType /\ JobOK(p) /\ p.pc = "challenge"
    BY <1>1, <1>5, <2>2, ProvingIsAJob
  <2>. HIDE DEF p
  <2>4. j \in JobType /\ j.pc = p.pc /\ j.goal = p.goal /\ j.token = p.token
    BY <2>3 DEF JobType
  <2>. HIDE DEF j
  <2>5. JobOK(j)
    BY <2>3, <2>4 DEF JobOK
  <2>. QED
    BY <1>1, <1>2, <1>3, <1>4, <2>1, <2>3, <2>4, <2>5
<1>11. CASE Close(c)
  <2>1. /\ UNCHANGED <<session, challenges, calls>> /\ job[c].pc = "close" /\ record' = 0
        /\ binding' \in {None, binding} /\ job' = [job EXCEPT ![c] = Idle]
    BY <1>11 DEF Close, Exit, aicrewd
  <2>. QED
    BY <1>1, <1>2, <1>3, <1>4, <2>1
<1>12. CASE GiveUp(c)
  <2>. DEFINE j == [job[c] EXCEPT !.pc = "answered", !.answer = "unanswered"]
  <2>1. /\ UNCHANGED <<session, record, binding, challenges>> /\ job[c].pc = "sent"
        /\ calls' = Abandoned(c) /\ job' = [job EXCEPT ![c] = j]
    BY <1>1, <1>12 DEF GiveUp
  <2>2. /\ j \in JobType /\ j.pc = "answered" /\ j.answer = "unanswered" /\ j.ch = job[c].ch
        /\ j.goal = job[c].goal /\ j.token = job[c].token
    BY <1>1 DEF JobType, Codes, Retryable
  <2>. HIDE DEF j
  <2>3. JobOK(j)
    BY <1>1, <2>1, <2>2 DEF JobOK
  <2>. QED
    BY <1>1, <1>2, <1>3, <2>1, <2>2, <2>3
<1>13. CASE Die(c)
  <2>1. /\ UNCHANGED <<session, record, binding, challenges>>
        /\ calls' = Abandoned(c) /\ job' = [job EXCEPT ![c] = Idle]
    BY <1>13 DEF Die, Exit
  <2>. QED
    BY <1>1, <1>2, <1>3, <1>4, <2>1
<1>. QED
  BY <1>6, <1>7, <1>8, <1>9, <1>10, <1>11, <1>12, <1>13

-----------------------------------------------------------------------------
(* A step of aicrewd's *)

(* An answer reaches the client whose latest request it is of, and no other. *)
LEMMA ReplyKeeps ==
    ASSUME EntryInv, NEW r \in calls, NEW code \in Codes, NEW token \in {None} \cup Tokens,
           code = "ok" => token # None, Reply(r, code, token),
           session' \in [sid : Nat, gen : Nat, issue : Nat, active : BOOLEAN],
           challenges' \in [1..MaxChallenges -> ChallengeType], UNCHANGED <<record, binding>>, FlightInv'
    PROVE  EntryInv'
<1>1. /\ TypeOK /\ LiveInv /\ calls \subseteq CallType /\ job \in [Clients -> JobType]
      /\ r.client \in Clients /\ \A c \in Clients : JobOK(job[c])
  BY DEF EntryInv, TypeOK, CallType
<1>2. calls' = calls \ {r}
  BY DEF Reply
<1>. DEFINE k == r.client
            j == [job[k] EXCEPT !.pc = "answered", !.answer = code, !.got = token]
<1>3. IF r.live THEN job' = [job EXCEPT ![k] = j] ELSE job' = job
  BY <1>1 DEF Reply
<1>4. job[k] \in JobType /\ JobOK(job[k]) /\ k \in Clients
  BY <1>1
<1>5. /\ j \in JobType /\ j.pc = "answered" /\ j.answer = code /\ j.got = token /\ j.ch = job[k].ch
      /\ j.goal = job[k].goal /\ j.token = job[k].token
  <2>. HIDE DEF k
  <2>. QED
    BY <1>4 DEF JobType
<1>6. r.live => JobOK(j)
  <2>1. r.live => job[k].pc = "sent"
    BY <1>1 DEF LiveInv
  <2>. HIDE DEF j, k
  <2>. QED
    BY <1>4, <1>5, <2>1 DEF JobOK
<1>. HIDE DEF j
<1>7. /\ job' \in [Clients -> JobType]
      /\ \A c \in Clients : JobOK(job'[c])
      /\ \A c \in Clients : c # k \/ ~r.live => job'[c] = job[c]
  BY <1>1, <1>3, <1>4, <1>5, <1>6
<1>8. LiveInv'
  <2>1. ASSUME NEW d \in calls', d.live
        PROVE  /\ job'[d.client].pc = "sent"
               /\ d.ch = job'[d.client].ch /\ d.proof = job'[d.client].proof
    <3>1. d \in calls /\ d # r /\ d.client \in Clients
      BY <1>1, <1>2, <2>1 DEF CallType
    <3>2. d.client # k \/ ~r.live
      BY <1>1, <2>1, <3>1 DEF LiveInv
    <3>3. job'[d.client] = job[d.client]
      BY <1>7, <3>1, <3>2
    <3>. QED
      BY <1>1, <2>1, <3>1, <3>3 DEF LiveInv
  <2>2. \A d, e \in calls' : d.live /\ e.live /\ d.client = e.client => d = e
    BY <1>1, <1>2 DEF LiveInv
  <2>. QED
    BY <2>1, <2>2 DEF LiveInv
<1>9. TypeOK'
  BY <1>1, <1>2, <1>7 DEF TypeOK
<1>10. \A c \in Clients : JobOK(job[c])'
  BY <1>7 DEF JobOK
<1>. QED
  BY <1>8, <1>9, <1>10 DEF EntryInv

(* An entry goes on to its next stage.                                       *)
LEMMA AdvanceKeeps ==
    ASSUME EntryInv, NEW r \in calls, NEW stage \in {"checked", "verified"}, Advance(r, stage),
           challenges' \in [1..MaxChallenges -> ChallengeType], UNCHANGED <<record, binding>>,
           \A ch \in 1..MaxChallenges : /\ challenges'[ch].entered = challenges[ch].entered
                                        /\ challenges[ch].redeemed \subseteq challenges'[ch].redeemed,
           stage = "verified" => r.proof \in challenges'[r.ch].redeemed,
           ~Committed(r), \A d \in calls : d # r /\ d.ch = r.ch /\ d.proof = r.proof => d.stage = "sent"
    PROVE  EntryInv'
<1>1. /\ TypeOK /\ LiveInv /\ FlightInv /\ calls \subseteq CallType /\ job \in [Clients -> JobType]
      /\ \A c \in Clients : JobOK(job[c])
  BY DEF EntryInv, TypeOK
<1>. DEFINE s == [r EXCEPT !.stage = stage]
<1>2. calls' = (calls \ {r}) \cup {s} /\ UNCHANGED <<session, job>>
  BY DEF Advance
<1>3. /\ s \in CallType /\ s.client = r.client /\ s.ch = r.ch /\ s.proof = r.proof /\ s.live = r.live
      /\ s.stage = stage /\ r.ch \in 1..MaxChallenges
  BY <1>1 DEF CallType
<1>. HIDE DEF s
<1>4. LiveInv'
  <2>1. \A d \in calls' : d.live =>
           /\ job'[d.client].pc = "sent"
           /\ d.ch = job'[d.client].ch /\ d.proof = job'[d.client].proof
    BY <1>1, <1>2, <1>3 DEF LiveInv
  <2>2. \A d, e \in calls' : d.live /\ e.live /\ d.client = e.client => d = e
    BY <1>1, <1>2, <1>3 DEF LiveInv
  <2>. QED
    BY <2>1, <2>2 DEF LiveInv
<1>5. FlightInv'
  <2>1. \A d, e \in calls' : (d.stage # "sent" /\ e.stage # "sent" /\ d.ch = e.ch /\ d.proof = e.proof) => d = e
    BY <1>1, <1>2, <1>3 DEF FlightInv
  <2>2. ASSUME NEW d \in calls', d.stage # "sent"
        PROVE  /\ ~Committed(d)'
               /\ d.stage = "verified" => d.proof \in challenges'[d.ch].redeemed
    <3>1. d.ch \in 1..MaxChallenges
      BY <1>1, <1>2, <1>3 DEF CallType
    <3>2. challenges'[d.ch].entered = challenges[d.ch].entered
      BY <3>1
    <3>3. ~(challenges[d.ch].entered # None /\ challenges[d.ch].entered[3] = d.proof)
      BY <1>1, <1>2, <1>3, <2>2 DEF FlightInv, Committed
    <3>4. d.stage = "verified" => d.proof \in challenges'[d.ch].redeemed
      BY <1>1, <1>2, <1>3, <2>2, <3>1 DEF FlightInv
    <3>. QED
      BY <3>2, <3>3, <3>4 DEF Committed
  <2>3. \A ch \in 1..MaxChallenges :
           challenges'[ch].entered # None => challenges'[ch].entered[3] \in challenges'[ch].redeemed
    BY <1>1 DEF FlightInv
  <2>. QED
    BY <2>1, <2>2, <2>3 DEF FlightInv
<1>6. TypeOK'
  BY <1>1, <1>2, <1>3 DEF TypeOK
<1>7. \A c \in Clients : JobOK(job[c])'
  BY <1>1, <1>2 DEF JobOK
<1>. QED
  BY <1>4, <1>5, <1>6, <1>7 DEF EntryInv

(* With a call fewer, and no entry that one in flight has, nothing is        *)
(* entered twice.                                                            *)
LEMMA FewerInFlight ==
    ASSUME TypeOK, FlightInv, calls' \subseteq calls,
           \A ch \in 1..MaxChallenges : /\ challenges'[ch].entered = challenges[ch].entered
                                        /\ challenges[ch].redeemed \subseteq challenges'[ch].redeemed
    PROVE  FlightInv'
<1>1. \A r \in calls : r.ch \in 1..MaxChallenges
  BY DEF TypeOK, CallType
<1>2. \A r, d \in calls' : (r.stage # "sent" /\ d.stage # "sent" /\ r.ch = d.ch /\ r.proof = d.proof) => r = d
  BY DEF FlightInv
<1>3. ASSUME NEW r \in calls', r.stage # "sent"
      PROVE  /\ ~Committed(r)'
             /\ r.stage = "verified" => r.proof \in challenges'[r.ch].redeemed
  <2>1. challenges'[r.ch].entered = challenges[r.ch].entered
    BY <1>1
  <2>2. ~(challenges[r.ch].entered # None /\ challenges[r.ch].entered[3] = r.proof)
    BY <1>3 DEF FlightInv, Committed
  <2>3. r.stage = "verified" => r.proof \in challenges'[r.ch].redeemed
    BY <1>1, <1>3 DEF FlightInv
  <2>. QED
    BY <2>1, <2>2, <2>3 DEF Committed
<1>4. \A ch \in 1..MaxChallenges :
         challenges'[ch].entered # None => challenges'[ch].entered[3] \in challenges'[ch].redeemed
  BY DEF FlightInv
<1>. QED
  BY <1>2, <1>3, <1>4 DEF FlightInv

(* A refused entry changes nothing but its client and the calls.             *)
LEMMA RefuseKeeps ==
    ASSUME EntryInv, NEW r \in calls, NEW code \in Codes \ {"ok"}, Refuse(r, code), UNCHANGED <<record, binding>>
    PROVE  EntryInv'
<1>1. TypeOK /\ FlightInv
  BY DEF EntryInv
<1>2. Reply(r, code, None) /\ UNCHANGED <<session, challenges>> /\ calls' = calls \ {r}
  BY DEF Refuse, Reply
<1>3. FlightInv'
  BY <1>1, <1>2, FewerInFlight
<1>. QED
  BY <1>1, <1>2, <1>3, ReplyKeeps DEF TypeOK

LEMMA EnteringCodes == ASSUME NEW r PROVE Entering(r) \in {"", "session_active", "context_stale"}
BY DEF Entering

(* aicrewd's entry up to its transaction.                                    *)
LEMMA EnterKeeps ==
    ASSUME EntryInv, NEW r \in calls, Enter(r)
    PROVE  EntryInv'
<1>1. /\ TypeOK /\ FlightInv /\ r.stage = "sent" /\ UNCHANGED <<record, binding>>
      /\ challenges \in [1..MaxChallenges -> ChallengeType] /\ r \in CallType /\ calls \subseteq CallType
      /\ session \in [sid : Nat, gen : Nat, issue : Nat, active : BOOLEAN]
  BY DEF EntryInv, TypeOK, Enter, At
<1>2. \/ \E code \in {"request_in_progress", "challenge_invalid", "context_stale", "session_active"} : Refuse(r, code)
      \/ Committed(r) /\ Reissue(r)
      \/ ~Busy(r) /\ ~Committed(r) /\ Advance(r, "checked") /\ UNCHANGED challenges
  BY EnteringCodes DEF Enter
<1>3. CASE \E code \in {"request_in_progress", "challenge_invalid", "context_stale", "session_active"} : Refuse(r, code)
  BY <1>1, <1>3, RefuseKeeps DEF Codes, Retryable
<1>4. CASE Committed(r) /\ Reissue(r)
  <2>1. \/ \E code \in {"challenge_invalid", "context_stale"} : Refuse(r, code)
        \/ /\ session' = [session EXCEPT !.issue = @ + 1]
           /\ Reply(r, "ok", <<session.sid, session.gen, session.issue + 1>>)
           /\ UNCHANGED challenges
    BY <1>4 DEF Reissue
  <2>2. CASE \E code \in {"challenge_invalid", "context_stale"} : Refuse(r, code)
    BY <1>1, <2>2, RefuseKeeps DEF Codes
  <2>3. CASE /\ session' = [session EXCEPT !.issue = @ + 1]
             /\ Reply(r, "ok", <<session.sid, session.gen, session.issue + 1>>)
             /\ UNCHANGED challenges
    <3>. DEFINE token == <<session.sid, session.gen, session.issue + 1>>
    <3>1. token \in Tokens /\ token # None
      BY <1>1 DEF Tokens, None
    <3>2. session' \in [sid : Nat, gen : Nat, issue : Nat, active : BOOLEAN]
      BY <1>1, <2>3
    <3>3. calls' = calls \ {r}
      BY <2>3 DEF Reply
    <3>4. FlightInv'
      BY <1>1, <2>3, <3>3, FewerInFlight
    <3>5. Reply(r, "ok", token)
      BY <2>3
    <3>. HIDE DEF token
    <3>6. "ok" \in Codes
      BY DEF Codes
    <3>. QED
      BY <1>1, <2>3, <3>1, <3>2, <3>4, <3>5, <3>6, ReplyKeeps
  <2>. QED
    BY <2>1, <2>2, <2>3
<1>5. CASE ~Busy(r) /\ ~Committed(r) /\ Advance(r, "checked") /\ UNCHANGED challenges
  <2>1. \A d \in calls : d # r /\ d.ch = r.ch /\ d.proof = r.proof => d.stage = "sent"
    BY <1>1, <1>5 DEF Busy, CallType
  <2>. QED
    BY <1>1, <1>5, <2>1, AdvanceKeeps
<1>. QED
  BY <1>2, <1>3, <1>4, <1>5

(* The redemption of an entry's proof, in aimem.                             *)
LEMMA RedeemKeeps ==
    ASSUME EntryInv, NEW r \in calls, Redeem(r) \/ ProofExpired(r) \/ RedeemUnanswered(r)
    PROVE  EntryInv'
<1>1. /\ TypeOK /\ FlightInv /\ r.stage = "checked" /\ UNCHANGED <<record, binding>>
      /\ challenges \in [1..MaxChallenges -> ChallengeType] /\ r \in CallType /\ calls \subseteq CallType
      /\ session \in [sid : Nat, gen : Nat, issue : Nat, active : BOOLEAN]
  BY DEF EntryInv, TypeOK, Redeem, ProofExpired, RedeemUnanswered, At
<1>2. r.ch \in 1..MaxChallenges /\ r.proof \in Nat /\ challenges[r.ch] \in ChallengeType
  BY <1>1 DEF CallType
<1>3. ASSUME Redeemed(r) \/ challenges' = challenges \/ challenges' = [challenges EXCEPT ![r.ch].fresh = FALSE]
      PROVE  /\ challenges' \in [1..MaxChallenges -> ChallengeType]
             /\ \A ch \in 1..MaxChallenges : /\ challenges'[ch].entered = challenges[ch].entered
                                             /\ challenges[ch].redeemed \subseteq challenges'[ch].redeemed
  <2>. DEFINE x == [challenges[r.ch] EXCEPT !.redeemed = @ \cup {r.proof}]
              y == [challenges[r.ch] EXCEPT !.fresh = FALSE]
  <2>1. challenges' = challenges \/ challenges' = [challenges EXCEPT ![r.ch] = x] \/ challenges' = [challenges EXCEPT ![r.ch] = y]
    BY <1>1, <1>2, <1>3 DEF Redeemed
  <2>2. /\ x \in ChallengeType /\ x.entered = challenges[r.ch].entered /\ challenges[r.ch].redeemed \subseteq x.redeemed
        /\ y \in ChallengeType /\ y.entered = challenges[r.ch].entered /\ challenges[r.ch].redeemed \subseteq y.redeemed
    BY <1>2 DEF ChallengeType
  <2>. HIDE DEF x, y
  <2>3. CASE challenges' = challenges
    BY <1>1, <2>3
  <2>4. ASSUME NEW z \in {x, y}, challenges' = [challenges EXCEPT ![r.ch] = z]
        PROVE  /\ challenges' \in [1..MaxChallenges -> ChallengeType]
               /\ \A ch \in 1..MaxChallenges : /\ challenges'[ch].entered = challenges[ch].entered
                                               /\ challenges[ch].redeemed \subseteq challenges'[ch].redeemed
    <3>1. z \in ChallengeType /\ z.entered = challenges[r.ch].entered /\ challenges[r.ch].redeemed \subseteq z.redeemed
      BY <2>2
    <3>2. challenges' \in [1..MaxChallenges -> ChallengeType]
      BY <1>1, <2>4, <3>1
    <3>3. challenges'[r.ch] = z /\ \A ch \in 1..MaxChallenges : ch # r.ch => challenges'[ch] = challenges[ch]
      BY <1>1, <1>2, <2>4
    <3>. QED
      BY <3>1, <3>2, <3>3
  <2>. QED
    BY <2>1, <2>3, <2>4
<1>4. ASSUME NEW code \in {"proof_invalid", "identity_unavailable"}, Reply(r, code, None), UNCHANGED session,
             Redeemed(r) \/ challenges' = challenges \/ challenges' = [challenges EXCEPT ![r.ch].fresh = FALSE]
      PROVE  EntryInv'
  <2>1. calls' = calls \ {r}
    BY <1>4 DEF Reply
  <2>2. FlightInv'
    BY <1>1, <1>3, <1>4, <2>1, FewerInFlight
  <2>3. code \in Codes /\ code # "ok"
    BY DEF Codes, Retryable
  <2>. QED
    BY <1>1, <1>3, <1>4, <2>2, <2>3, ReplyKeeps
<1>5. CASE Redeem(r)
  <2>1. CASE Refuse(r, "proof_invalid")
    BY <1>4, <2>1 DEF Refuse
  <2>2. CASE Redeemed(r) /\ Advance(r, "verified")
    <3>1. r.proof \in challenges'[r.ch].redeemed
      BY <1>1, <1>2, <2>2 DEF Redeemed, ChallengeType
    <3>2. ~Committed(r) /\ \A d \in calls : d # r /\ d.ch = r.ch /\ d.proof = r.proof => d.stage = "sent"
      BY <1>1 DEF FlightInv
    <3>. QED
      BY <1>1, <1>3, <2>2, <3>1, <3>2, AdvanceKeeps
  <2>. QED
    BY <1>5, <2>1, <2>2 DEF Redeem
<1>6. CASE ProofExpired(r)
  BY <1>4, <1>6 DEF ProofExpired
<1>7. CASE RedeemUnanswered(r)
  BY <1>4, <1>7 DEF RedeemUnanswered
<1>. QED
  BY <1>5, <1>6, <1>7

(* The transaction of an entry: no other in flight has its key.              *)
LEMMA CommitKeeps ==
    ASSUME EntryInv, NEW r \in calls, Commit(r)
    PROVE  EntryInv'
<1>1. /\ TypeOK /\ FlightInv /\ r.stage = "verified" /\ UNCHANGED <<record, binding>>
      /\ challenges \in [1..MaxChallenges -> ChallengeType] /\ r \in CallType /\ calls \subseteq CallType
      /\ session \in [sid : Nat, gen : Nat, issue : Nat, active : BOOLEAN]
  BY DEF EntryInv, TypeOK, Commit, At
<1>2. r.ch \in 1..MaxChallenges /\ r.proof \in Nat /\ r.target \in Nat /\ challenges[r.ch] \in ChallengeType
  BY <1>1 DEF CallType
<1>. DEFINE sid == IF r.target = 0 THEN session.sid + 1 ELSE r.target
            gen == session.gen + 1
            x == [challenges[r.ch] EXCEPT !.state = "consumed", !.entered = <<sid, gen, r.proof>>]
<1>3. \/ \E code \in {"challenge_invalid", "session_active", "context_stale"} : Refuse(r, code)
      \/ /\ session' = [sid |-> sid, gen |-> gen, issue |-> 1, active |-> TRUE]
         /\ challenges' = [challenges EXCEPT ![r.ch].state = "consumed", ![r.ch].entered = <<sid, gen, r.proof>>]
         /\ Reply(r, "ok", <<sid, gen, 1>>)
  BY EnteringCodes DEF Commit
<1>4. CASE \E code \in {"challenge_invalid", "session_active", "context_stale"} : Refuse(r, code)
  BY <1>1, <1>4, RefuseKeeps DEF Codes
<1>5. CASE /\ session' = [sid |-> sid, gen |-> gen, issue |-> 1, active |-> TRUE]
           /\ challenges' = [challenges EXCEPT ![r.ch].state = "consumed", ![r.ch].entered = <<sid, gen, r.proof>>]
           /\ Reply(r, "ok", <<sid, gen, 1>>)
  <2>1. sid \in Nat /\ gen \in Nat
    BY <1>1, <1>2
  <2>. HIDE DEF sid, gen
  <2>2. challenges' = [challenges EXCEPT ![r.ch] = x]
    BY <1>1, <1>2, <1>5
  <2>3. /\ <<sid, gen, r.proof>> \in Tokens /\ <<sid, gen, 1>> \in Tokens /\ <<sid, gen, 1>> # None
        /\ <<sid, gen, r.proof>>[3] = r.proof
    BY <1>2, <2>1 DEF Tokens, None
  <2>4. x \in ChallengeType /\ x.entered = <<sid, gen, r.proof>> /\ x.redeemed = challenges[r.ch].redeemed
    BY <1>2, <2>3 DEF ChallengeType
  <2>5. session' \in [sid : Nat, gen : Nat, issue : Nat, active : BOOLEAN]
    BY <1>5, <2>1
  <2>6. Reply(r, "ok", <<sid, gen, 1>>)
    BY <1>5
  <2>7. x.entered[3] = r.proof
    BY <2>3, <2>4
  <2>. HIDE DEF x
  <2>8. /\ challenges' \in [1..MaxChallenges -> ChallengeType]
        /\ challenges'[r.ch] = x /\ \A ch \in 1..MaxChallenges : ch # r.ch => challenges'[ch] = challenges[ch]
    BY <1>1, <1>2, <2>2, <2>4
  <2>9. calls' = calls \ {r}
    BY <2>6 DEF Reply
  <2>10. FlightInv'
    <3>1. \A d, e \in calls' : (d.stage # "sent" /\ e.stage # "sent" /\ d.ch = e.ch /\ d.proof = e.proof) => d = e
      BY <1>1, <2>9 DEF FlightInv
    <3>2. ASSUME NEW d \in calls', d.stage # "sent"
          PROVE  /\ ~Committed(d)'
                 /\ d.stage = "verified" => d.proof \in challenges'[d.ch].redeemed
      <4>1. d \in calls /\ d # r /\ d.ch \in 1..MaxChallenges
        BY <1>1, <2>9 DEF CallType
      <4>2. CASE d.ch = r.ch
        <5>1. d.proof # r.proof
          BY <1>1, <3>2, <4>1, <4>2 DEF FlightInv
        <5>2. challenges'[d.ch].entered[3] = r.proof
          BY <2>7, <2>8, <4>2
        <5>3. d.stage = "verified" => d.proof \in challenges'[d.ch].redeemed
          BY <1>1, <2>4, <2>8, <4>1, <4>2 DEF FlightInv
        <5>. QED
          BY <5>1, <5>2, <5>3 DEF Committed
      <4>3. CASE d.ch # r.ch
        BY <1>1, <2>8, <3>2, <4>1, <4>3 DEF FlightInv, Committed
      <4>. QED
        BY <4>2, <4>3
    <3>3. \A ch \in 1..MaxChallenges :
             challenges'[ch].entered # None => challenges'[ch].entered[3] \in challenges'[ch].redeemed
      BY <1>1, <1>2, <2>4, <2>7, <2>8 DEF FlightInv
    <3>. QED
      BY <3>1, <3>2, <3>3 DEF FlightInv
  <2>11. "ok" \in Codes
    BY DEF Codes
  <2>. QED
    BY <1>1, <2>3, <2>5, <2>6, <2>8, <2>10, <2>11, ReplyKeeps
<1>. QED
  BY <1>3, <1>4, <1>5

(* A call that ends unanswered.                                              *)
LEMMA CancelledKeeps ==
    ASSUME EntryInv, NEW r \in calls, Cancelled(r)
    PROVE  EntryInv'
<1>1. /\ TypeOK /\ FlightInv /\ LiveInv /\ \A c \in Clients : JobOK(job[c])
      /\ calls' = calls \ {r} /\ UNCHANGED <<session, challenges, job, record, binding>>
  BY DEF EntryInv, Cancelled
<1>2. FlightInv'
  BY <1>1, FewerInFlight
<1>3. LiveInv'
  BY <1>1 DEF LiveInv
<1>4. TypeOK' /\ \A c \in Clients : JobOK(job[c])'
  BY <1>1 DEF TypeOK, JobOK
<1>. QED
  BY <1>2, <1>3, <1>4 DEF EntryInv

(* aicrewd's restart, a deadline that passes and a session that is stopped.  *)
LEMMA WorldKeeps ==
    ASSUME EntryInv, RestartAicrewd \/ StopSession \/ (\E ch \in 1..MaxChallenges : ExpireChallenge(ch))
    PROVE  EntryInv'
<1>1. /\ TypeOK /\ FlightInv /\ LiveInv /\ \A c \in Clients : JobOK(job[c])
      /\ challenges \in [1..MaxChallenges -> ChallengeType] /\ job \in [Clients -> JobType]
      /\ session \in [sid : Nat, gen : Nat, issue : Nat, active : BOOLEAN]
  BY DEF EntryInv, TypeOK
<1>2. CASE RestartAicrewd
  <2>. DEFINE j(c) == IF job[c].pc = "sent" THEN [job[c] EXCEPT !.pc = "answered", !.answer = "unanswered"]
                      ELSE job[c]
  <2>1. /\ calls' = {} /\ UNCHANGED <<session, challenges, record, binding>>
        /\ job' = [c \in Clients |-> j(c)]
    BY <1>2 DEF RestartAicrewd
  <2>2. ASSUME NEW c \in Clients
        PROVE  j(c) \in JobType /\ JobOK(j(c))
    <3>1. job[c] \in JobType /\ JobOK(job[c])
      BY <1>1
    <3>. DEFINE k == [job[c] EXCEPT !.pc = "answered", !.answer = "unanswered"]
    <3>2. /\ k \in JobType /\ k.pc = "answered" /\ k.answer = "unanswered" /\ k.ch = job[c].ch
          /\ k.goal = job[c].goal /\ k.token = job[c].token
      BY <3>1 DEF JobType, Codes, Retryable
    <3>3. j(c) = IF job[c].pc = "sent" THEN k ELSE job[c]
      OBVIOUS
    <3>. HIDE DEF k, j
    <3>4. job[c].pc = "sent" => JobOK(k)
      BY <3>1, <3>2 DEF JobOK
    <3>. QED
      BY <3>1, <3>2, <3>3, <3>4
  <2>. HIDE DEF j
  <2>3. job' \in [Clients -> JobType] /\ \A c \in Clients : JobOK(job'[c])
    BY <2>1, <2>2
  <2>4. FlightInv'
    BY <1>1, <2>1, FewerInFlight
  <2>5. LiveInv' /\ (\A c \in Clients : JobOK(job[c])') /\ TypeOK'
    BY <1>1, <2>1, <2>3 DEF LiveInv, JobOK, TypeOK
  <2>. QED
    BY <2>4, <2>5 DEF EntryInv
<1>3. CASE StopSession
  <2>1. /\ UNCHANGED <<challenges, calls, job, record, binding>>
        /\ session' = [session EXCEPT !.active = FALSE]
    BY <1>3 DEF StopSession
  <2>2. FlightInv'
    BY <1>1, <2>1, FewerInFlight
  <2>. QED
    BY <1>1, <2>1, <2>2 DEF EntryInv, TypeOK, LiveInv, JobOK
<1>4. ASSUME NEW ch \in 1..MaxChallenges, ExpireChallenge(ch)
      PROVE  EntryInv'
  <2>. DEFINE x == [challenges[ch] EXCEPT !.state = "gone"]
  <2>1. /\ UNCHANGED <<session, calls, job, record, binding>>
        /\ challenges' = [challenges EXCEPT ![ch] = x]
    BY <1>1, <1>4 DEF ExpireChallenge
  <2>2. x \in ChallengeType /\ x.entered = challenges[ch].entered /\ x.redeemed = challenges[ch].redeemed
    BY <1>1 DEF ChallengeType
  <2>. HIDE DEF x
  <2>3. /\ challenges' \in [1..MaxChallenges -> ChallengeType]
        /\ \A h \in 1..MaxChallenges : /\ challenges'[h].entered = challenges[h].entered
                                       /\ challenges[h].redeemed \subseteq challenges'[h].redeemed
    BY <1>1, <2>1, <2>2
  <2>4. FlightInv'
    BY <1>1, <2>1, <2>3, FewerInFlight
  <2>. QED
    BY <1>1, <2>1, <2>3, <2>4 DEF EntryInv, TypeOK, LiveInv, JobOK
<1>. QED
  BY <1>2, <1>3, <1>4

(* Every step of a client has the shape ClientStep gives it.                 *)
LEMMA ClientsStep ==
    ASSUME EntryInv, NEW c \in Clients,
           \/ Proceed(c) \/ LeaveRecorded(c) \/ Refresh(c) \/ Renew(c) \/ Interrupt(c)
           \/ BindFails(c) \/ CloseFails(c) \/ GiveUp(c) \/ Die(c)
    PROVE  ClientStep(c)
BY AsksAreSteps, HoldsAreSteps, LeavesAreSteps DEF Proceed

LEMMA EntryInitially == Init => EntryInv
<1>. SUFFICES ASSUME Init PROVE EntryInv
  OBVIOUS
<1>1. NoChallenge \in ChallengeType /\ NoChallenge.entered = None
  BY DEF NoChallenge, ChallengeType
<1>2. TypeOK
  BY <1>1, IdleIsAJob DEF Init, TypeOK
<1>3. \A c \in Clients : JobOK(job[c])
  BY IdleIsAJob DEF Init
<1>4. LiveInv /\ FlightInv
  BY <1>1 DEF Init, LiveInv, FlightInv
<1>. QED
  BY <1>2, <1>3, <1>4 DEF EntryInv

LEMMA EntryInductive == EntryInv /\ [Next]_vars => EntryInv'
<1>. SUFFICES ASSUME EntryInv, [Next]_vars PROVE EntryInv'
  OBVIOUS
<1>1. ASSUME NEW r \in calls, Serve(r)
      PROVE  EntryInv'
  BY <1>1, EnterKeeps, RedeemKeeps, CommitKeeps, CancelledKeeps DEF Serve
<1>2. ASSUME NEW c \in Clients,
             \/ Proceed(c) \/ LeaveRecorded(c) \/ Refresh(c) \/ Renew(c) \/ Interrupt(c)
             \/ BindFails(c) \/ CloseFails(c) \/ GiveUp(c) \/ Die(c)
      PROVE  EntryInv'
  BY <1>2, ClientsStep, ClientKeeps
<1>3. CASE RestartAicrewd \/ StopSession \/ (\E ch \in 1..MaxChallenges : ExpireChallenge(ch))
  BY <1>3, WorldKeeps
<1>4. CASE UNCHANGED vars
  BY <1>4 DEF vars, EntryInv, TypeOK, JobOK, LiveInv, FlightInv, Committed
<1>. QED
  BY <1>1, <1>2, <1>3, <1>4 DEF Next

(* An entry is in flight in aicrewd at most once, never once it committed    *)
(* (inflight.go's tryAcquire and the receipt of enterWithProof), and only a  *)
(* proof aimem redeemed has committed; a client that waits has one live call *)
(* at most, the one of its latest request.                                   *)
THEOREM EntryInvHolds == Spec => []EntryInv
<1>1. EntryInv /\ [Next]_vars => EntryInv'
  BY EntryInductive
<1>. QED
  BY <1>1, EntryInitially, PTL DEF Spec

(* The answer of an entry that committed is a wait or fresh secrets.         *)
LEMMA CommittedIsAnswered ==
    ASSUME EntryInv, NEW c \in Clients, NEW r \in calls, Serve(r), job[c].pc = "sent",
           job'[c].pc = "answered", Entered(c)
    PROVE  job'[c].answer \in Retryable \cup {"ok"}
<1>1. /\ TypeOK /\ FlightInv /\ LiveInv /\ job \in [Clients -> JobType] /\ calls \subseteq CallType
      /\ r \in CallType /\ session \in [sid : Nat, gen : Nat, issue : Nat, active : BOOLEAN]
  BY DEF EntryInv, TypeOK
<1>2. ASSUME NEW code, NEW token, Reply(r, code, token)
      PROVE  r.live /\ r.client = c /\ job'[c].answer = code
  <2>1. IF r.live THEN job' = [job EXCEPT ![r.client].pc = "answered", ![r.client].answer = code,
                                          ![r.client].got = token]
        ELSE job' = job
    BY <1>2 DEF Reply
  <2>2. r.live /\ r.client = c
    BY <1>1, <2>1 DEF CallType
  <2>. DEFINE j == [job[c] EXCEPT !.pc = "answered", !.answer = code, !.got = token]
  <2>3. j.answer = code
    <3>1. job[c] \in JobType
      BY <1>1
    <3>. QED
      BY <3>1 DEF JobType
  <2>4. job' = [job EXCEPT ![c] = j]
    BY <1>1, <2>1, <2>2
  <2>. HIDE DEF j
  <2>. QED
    BY <1>1, <2>2, <2>3, <2>4
<1>3. job' # job
  OBVIOUS
<1>4. r.live /\ r.client = c
  <2>1. \E code, token : Reply(r, code, token)
    BY <1>3 DEF Serve, Enter, Redeem, ProofExpired, RedeemUnanswered, Commit, Cancelled, Refuse, Advance, Reissue
  <2>. QED
    BY <1>2, <2>1
<1>5. r.ch = job[c].ch /\ r.proof = job[c].proof
  BY <1>1, <1>4 DEF LiveInv
<1>6. /\ challenges[r.ch].entered = <<session.sid, session.gen, r.proof>> /\ session.active
      /\ challenges[r.ch].state # "gone"
  BY <1>5 DEF Entered
<1>7. Committed(r)
  <2>1. <<session.sid, session.gen, r.proof>> # None /\ <<session.sid, session.gen, r.proof>>[3] = r.proof
    BY DEF None
  <2>. QED
    BY <1>6, <2>1 DEF Committed
<1>8. r.stage = "sent"
  BY <1>1, <1>7 DEF FlightInv
<1>9. Enter(r)
  BY <1>4, <1>8 DEF Serve, Redeem, ProofExpired, RedeemUnanswered, Commit, Cancelled, At
<1>10. \/ Refuse(r, "request_in_progress")
       \/ Reply(r, "ok", <<session.sid, session.gen, session.issue + 1>>)
  BY <1>6, <1>7, <1>9 DEF Enter, Reissue
<1>. QED
  BY <1>2, <1>10 DEF Refuse, Retryable

(* A client whose entry has committed is not refused by it: while the        *)
(* challenge stands and its session does, a retry that overlaps the original *)
(* or comes after its lost reply waits, or gets fresh secrets of that        *)
(* session (reissueEntry, inflight.go).                                      *)
THEOREM OwnEntryIsAnsweredHolds == Spec => OwnEntryIsAnswered
<1>1. EntryInv /\ [Next]_vars =>
         [\A c \in Clients :
             job[c].pc = "sent" /\ job'[c].pc = "answered" /\ Entered(c)
             => job'[c].answer \in Retryable \cup {"ok"}]_vars
  <2>. SUFFICES ASSUME EntryInv, Next, NEW c \in Clients, job[c].pc = "sent", job'[c].pc = "answered", Entered(c)
                PROVE  job'[c].answer \in Retryable \cup {"ok"}
    OBVIOUS
  <2>1. job \in [Clients -> JobType]
    BY DEF EntryInv, TypeOK
  <2>2. ASSUME NEW d \in Clients, ClientStep(d)
        PROVE  job'[c].answer \in Retryable \cup {"ok"}
    BY <2>1, <2>2 DEF ClientStep, Retryable
  <2>3. ASSUME NEW d \in Clients,
               \/ Proceed(d) \/ LeaveRecorded(d) \/ Refresh(d) \/ Renew(d) \/ Interrupt(d)
               \/ BindFails(d) \/ CloseFails(d) \/ GiveUp(d) \/ Die(d)
        PROVE  job'[c].answer \in Retryable \cup {"ok"}
    BY <2>2, <2>3, ClientsStep
  <2>4. CASE RestartAicrewd
    <3>1. job'[c] = [job[c] EXCEPT !.pc = "answered", !.answer = "unanswered"] /\ job[c] \in JobType
      BY <2>1, <2>4 DEF RestartAicrewd
    <3>. QED
      BY <3>1 DEF JobType, Retryable
  <2>5. CASE StopSession \/ (\E ch \in 1..MaxChallenges : ExpireChallenge(ch))
    BY <2>5 DEF StopSession, ExpireChallenge
  <2>. QED
    BY <2>3, <2>4, <2>5, CommittedIsAnswered DEF Next
<1>. QED
  BY <1>1, EntryInvHolds, PTL DEF Spec, OwnEntryIsAnswered

-----------------------------------------------------------------------------
(* What a member is given of its inbox: TeamInbox, whose steps share no      *)
(* variable with those of SessionEntry.                                      *)

Mail == [to : SUBSET Agents, scoped : BOOLEAN]

(* One agent's record of the log, changed in these ways, keeps what is known. *)
LEMMA InboxChange ==
    ASSUME InboxInv, NEW a \in Agents, NEW d \in SUBSET DOMAIN log, NEW k \in SUBSET Nat, NEW h \in SUBSET Nat,
           delivered[a] \subseteq d, k \cup h \subseteq d,
           delivered' = [delivered EXCEPT ![a] = d], acked' = [acked EXCEPT ![a] = k],
           held' = [held EXCEPT ![a] = h], log' = log
    PROVE  /\ {delivered', acked', held'} \subseteq [Agents -> SUBSET Nat]
           /\ \A b \in Agents : /\ delivered'[b] \subseteq DOMAIN log'
                                /\ acked'[b] \cup held'[b] \subseteq delivered'[b]
<1>1. /\ log \in Seq(Mail) /\ {delivered, acked, held} \subseteq [Agents -> SUBSET Nat]
      /\ \A b \in Agents : delivered[b] \subseteq DOMAIN log /\ acked[b] \cup held[b] \subseteq delivered[b]
  BY DEF InboxInv, InboxTypeOK, Mail
<1>2. d \in SUBSET Nat
  BY <1>1
<1>3. {delivered', acked', held'} \subseteq [Agents -> SUBSET Nat]
  BY <1>1, <1>2
<1>4. /\ delivered'[a] = d /\ acked'[a] = k /\ held'[a] = h
      /\ \A b \in Agents : b # a => delivered'[b] = delivered[b] /\ acked'[b] = acked[b] /\ held'[b] = held[b]
  BY <1>1
<1>. QED
  BY <1>1, <1>3, <1>4

LEMMA PendingIsOfTheLog ==
    ASSUME NEW a \in Agents, NEW n
    PROVE  Leading(PendingMessages(a), n) \subseteq DOMAIN log
BY DEF Leading, PendingMessages

LEMMA InboxInductive == InboxInv /\ [InboxNext]_inboxVars => InboxInv'
<1>. SUFFICES ASSUME InboxInv, [InboxNext]_inboxVars PROVE InboxInv'
  OBVIOUS
<1>1. /\ log \in Seq(Mail) /\ DOMAIN log = 1..Len(log) /\ Len(log) \in Nat
      /\ {delivered, acked, held} \subseteq [Agents -> SUBSET Nat]
      /\ \A b \in Agents : delivered[b] \subseteq DOMAIN log /\ acked[b] \cup held[b] \subseteq delivered[b]
      /\ role \in [Agents -> Roles] /\ active \subseteq Agents /\ turn \subseteq Agents
      /\ granted \in BOOLEAN /\ paused \subseteq Agents \cup {Team}
      /\ sent \in Nat /\ starts \in Nat /\ changes \in Nat
  BY DEF InboxInv, InboxTypeOK, Mail
<1>2. ASSUME log' \in Seq(Mail), {delivered', acked', held'} \subseteq [Agents -> SUBSET Nat],
             \A b \in Agents : delivered'[b] \subseteq DOMAIN log' /\ acked'[b] \cup held'[b] \subseteq delivered'[b],
             role' \in [Agents -> Roles], active' \subseteq Agents, turn' \subseteq Agents,
             granted' \in BOOLEAN, paused' \subseteq Agents \cup {Team},
             sent' \in {sent, sent + 1}, starts' \in {starts, starts + 1},
             changes' \in {changes, changes + 1}
      PROVE  InboxInv'
  <2>1. sent' \in Nat /\ starts' \in Nat /\ changes' \in Nat
    BY <1>1, <1>2
  <2>. QED
    BY <1>2, <2>1 DEF InboxInv, InboxTypeOK, Mail
<1>3. ASSUME NEW a \in Agents, held' = [held EXCEPT ![a] = {}], UNCHANGED <<log, delivered, acked>>
      PROVE  /\ {delivered', acked', held'} \subseteq [Agents -> SUBSET Nat]
             /\ \A b \in Agents : delivered'[b] \subseteq DOMAIN log' /\ acked'[b] \cup held'[b] \subseteq delivered'[b]
  BY <1>1, <1>3
<1>4. ASSUME NEW m \in Mail, log' = Append(log, m), UNCHANGED <<delivered, acked, held>>
      PROVE  /\ log' \in Seq(Mail) /\ {delivered', acked', held'} \subseteq [Agents -> SUBSET Nat]
             /\ \A b \in Agents : delivered'[b] \subseteq DOMAIN log' /\ acked'[b] \cup held'[b] \subseteq delivered'[b]
  <2>1. log' \in Seq(Mail) /\ DOMAIN log' = 1..(Len(log) + 1)
    BY <1>1, <1>4
  <2>2. DOMAIN log \subseteq DOMAIN log'
    BY <1>1, <2>1
  <2>. QED
    BY <1>1, <1>4, <2>1, <2>2
<1>5. ASSUME NEW a \in Agents, StartTurn(a)
      PROVE  InboxInv'
  BY <1>1, <1>2, <1>5 DEF StartTurn
<1>6. ASSUME NEW a \in Agents, EndTurn(a)
      PROVE  InboxInv'
  BY <1>1, <1>2, <1>3, <1>6 DEF EndTurn
<1>7. ASSUME NEW a \in Agents, ReadInbox(a)
      PROVE  InboxInv'
  <2>1. PICK n \in 1..PageSize :
           /\ delivered' = [delivered EXCEPT ![a] = @ \cup Leading(PendingMessages(a), n)]
           /\ \/ held' = held
              \/ held' = [held EXCEPT ![a] = @ \cup Leading(PendingMessages(a), n)]
    BY <1>7 DEF ReadInbox
  <2>. DEFINE page == Leading(PendingMessages(a), n)
  <2>2. page \subseteq DOMAIN log
    BY PendingIsOfTheLog
  <2>. HIDE DEF page
  <2>3. \E h \in {held[a], held[a] \cup page} : held' = [held EXCEPT ![a] = h]
    BY <1>1, <2>1 DEF page
  <2>4. delivered' = [delivered EXCEPT ![a] = delivered[a] \cup page]
    BY <1>1, <2>1 DEF page
  <2>5. /\ UNCHANGED <<role, active, granted, paused, log, acked, turn, sent, starts, changes>>
        /\ acked' = [acked EXCEPT ![a] = acked[a]]
    BY <1>1, <1>7 DEF ReadInbox
  <2>6. PICK h \in {held[a], held[a] \cup page} : held' = [held EXCEPT ![a] = h]
    BY <2>3
  <2>7. /\ delivered[a] \cup page \in SUBSET DOMAIN log /\ h \in SUBSET Nat /\ acked[a] \in SUBSET Nat
        /\ acked[a] \cup h \subseteq delivered[a] \cup page
    BY <1>1, <2>2, <2>6
  <2>8. /\ {delivered', acked', held'} \subseteq [Agents -> SUBSET Nat]
        /\ \A b \in Agents : delivered'[b] \subseteq DOMAIN log' /\ acked'[b] \cup held'[b] \subseteq delivered'[b]
    BY <2>4, <2>5, <2>6, <2>7, InboxChange
  <2>. QED
    BY <1>1, <1>2, <2>5, <2>8
<1>8. ASSUME NEW a \in Agents, NEW ids \in SUBSET delivered[a], AckMessages(a, ids)
      PROVE  InboxInv'
  <2>1. /\ UNCHANGED <<role, active, granted, paused, log, delivered, turn, sent, starts, changes>>
        /\ acked' = [acked EXCEPT ![a] = acked[a] \cup ids]
        /\ delivered' = [delivered EXCEPT ![a] = delivered[a]]
        /\ \E h \in {held[a], held[a] \ ids} : held' = [held EXCEPT ![a] = h]
    BY <1>1, <1>8 DEF AckMessages
  <2>2. PICK h \in {held[a], held[a] \ ids} : held' = [held EXCEPT ![a] = h]
    BY <2>1
  <2>3. /\ delivered[a] \in SUBSET DOMAIN log /\ h \in SUBSET Nat /\ acked[a] \cup ids \in SUBSET Nat
        /\ (acked[a] \cup ids) \cup h \subseteq delivered[a]
    BY <1>1, <1>8, <2>2
  <2>4. /\ {delivered', acked', held'} \subseteq [Agents -> SUBSET Nat]
        /\ \A b \in Agents : delivered'[b] \subseteq DOMAIN log' /\ acked'[b] \cup held'[b] \subseteq delivered'[b]
    BY <2>1, <2>2, <2>3, InboxChange
  <2>. QED
    BY <1>1, <1>2, <2>1, <2>4
<1>9. ASSUME NEW a \in Agents, Nudge(a)
      PROVE  InboxInv'
  <2>1. Message({a}, FALSE) \in Mail
    BY DEF Message, Mail
  <2>. QED
    BY <1>1, <1>2, <1>4, <1>9, <2>1 DEF Nudge
<1>10. ASSUME NEW a \in Agents, NEW to \in SUBSET Agents, NEW scoped \in BOOLEAN, SendMessage(a, to, scoped)
       PROVE  InboxInv'
  <2>. DEFINE m == Message(MemberRecipients(a, to), scoped)
  <2>1. m \in Mail
    BY DEF Message, Mail, MemberRecipients, Members
  <2>2. log' = Append(log, m) /\ sent' = sent + 1
        /\ UNCHANGED <<role, active, granted, paused, delivered, acked, turn, held, starts, changes>>
    BY <1>10 DEF SendMessage
  <2>. HIDE DEF m
  <2>. QED
    BY <1>1, <1>2, <1>4, <2>1, <2>2
<1>11. ASSUME NEW a \in Agents, NEW r \in Roles, SetRole(a, r)
       PROVE  InboxInv'
  BY <1>1, <1>2, <1>3, <1>11 DEF SetRole
<1>12. ASSUME NEW a \in Agents, NewSession(a)
       PROVE  InboxInv'
  BY <1>1, <1>2, <1>3, <1>12 DEF NewSession
<1>13. ASSUME NEW target \in Agents \cup {Team}, SetPause(target)
       PROVE  InboxInv'
  BY <1>1, <1>2, <1>13 DEF SetPause
<1>14. CASE RecordGrants
  BY <1>1, <1>2, <1>14 DEF RecordGrants
<1>15. CASE UNCHANGED inboxVars
  BY <1>1, <1>2, <1>15 DEF inboxVars
<1>. QED
  BY <1>5, <1>6, <1>7, <1>8, <1>9, <1>10, <1>11, <1>12, <1>13, <1>14, <1>15 DEF InboxNext

(* A member acknowledges, and its client holds, only messages that were      *)
(* delivered to it, and only messages of the log are (readInbox, ackCommand). *)
THEOREM InboxInvHolds == InboxSpec => []InboxInv
<1>1. InboxInit => InboxInv
  <2>1. <<>> \in Seq(Mail)
    OBVIOUS
  <2>. QED
    BY <2>1 DEF InboxInit, InboxInv, InboxTypeOK, Roles, Mail
<1>2. InboxInv /\ [InboxNext]_inboxVars => InboxInv'
  BY InboxInductive
<1>. QED
  BY <1>1, <1>2, PTL DEF InboxSpec

(* What is of a page: what few enough come before.                           *)
LEMMA LeadingIs ==
    ASSUME NEW S, NEW n, NEW j
    PROVE  j \in Leading(S, n) <=> j \in S /\ Cardinality({x \in S : x < j}) < n
<1>. DEFINE c(k) == Cardinality({x \in S : x < k})
<1>1. Leading(S, n) = {k \in S : c(k) < n}
  BY DEF Leading
<1>. HIDE DEF c
<1>2. j \in Leading(S, n) <=> j \in S /\ c(j) < n
  BY <1>1
<1>. QED
  BY <1>2 DEF c

(* Of a page, what comes before one of its messages is of the page.          *)
LEMMA PageIsLeading ==
    ASSUME NEW S \in SUBSET Nat, IsFiniteSet(S), NEW n \in Nat, NEW j \in Leading(S, n), NEW i \in S, i < j
    PROVE  i \in Leading(S, n)
<1>. DEFINE before(k) == {x \in S : x < k}
<1>0. j \in S /\ Cardinality({x \in S : x < j}) < n
  BY LeadingIs
<1>1. IsFiniteSet(before(j)) /\ before(i) \subseteq before(j)
  <2>0. \A x \in S : x < i => x < j
    BY <1>0
  <2>1. before(j) \subseteq S /\ before(i) \subseteq before(j)
    BY <2>0
  <2>. QED
    BY <2>1, FS_Subset
<1>2. Cardinality(before(i)) <= Cardinality(before(j)) /\ Cardinality(before(i)) \in Nat /\ Cardinality(before(j)) \in Nat
  BY <1>1, FS_Subset, FS_CardinalityType
<1>3. Cardinality(before(j)) < n
  BY <1>0
<1>4. Cardinality(before(i)) < n
  <2>. HIDE DEF before
  <2>. QED
    BY <1>2, <1>3
<1>5. Cardinality({x \in S : x < i}) < n
  BY <1>4
<1>. QED
  BY <1>5, LeadingIs

(* A member is first given the messages to it in their order, whatever it    *)
(* acknowledged between two pages: one is passed over only while its project *)
(* is none of the team's (pendingMessages, fitPage).                         *)
THEOREM OnlyHiddenIsSkippedHolds == InboxSpec => OnlyHiddenIsSkipped
<1>1. InboxInv /\ [InboxNext]_inboxVars =>
         [\A a \in Agents : \A j \in delivered'[a] \ delivered[a] :
             \A i \in 1..(j - 1) : a \in log[i].to /\ i \notin delivered'[a] => ~Visible(i)]_inboxVars
  <2>. SUFFICES ASSUME InboxInv, InboxNext, NEW a \in Agents, NEW j \in delivered'[a] \ delivered[a],
                       NEW i \in 1..(j - 1), a \in log[i].to, i \notin delivered'[a], Visible(i)
                PROVE  FALSE
    OBVIOUS
  <2>1. /\ log \in Seq(Mail) /\ DOMAIN log = 1..Len(log) /\ Len(log) \in Nat
        /\ delivered \in [Agents -> SUBSET Nat] /\ acked[a] \subseteq delivered[a]
    BY DEF InboxInv, InboxTypeOK, Mail
  <2>2. \E b \in Agents : ReadInbox(b)
    BY DEF InboxNext, StartTurn, EndTurn, AckMessages, Nudge, SendMessage,
           SetRole, NewSession, SetPause, RecordGrants
  <2>3. PICK b \in Agents, n \in 1..PageSize :
           delivered' = [delivered EXCEPT ![b] = @ \cup Leading(PendingMessages(b), n)]
    BY <2>2 DEF ReadInbox
  <2>. DEFINE page == Leading(PendingMessages(b), n)
  <2>4. b = a /\ j \in page /\ delivered'[a] = delivered[a] \cup page
    <3>. HIDE DEF page
    <3>1. delivered' = [delivered EXCEPT ![b] = @ \cup page]
      BY <2>3 DEF page
    <3>. QED
      BY <2>1, <3>1
  <2>5. j \in DOMAIN log /\ page \subseteq DOMAIN log
    BY <2>4, PendingIsOfTheLog
  <2>6. i \in DOMAIN log /\ i < j /\ i \notin acked[a]
    BY <2>1, <2>4, <2>5
  <2>7. i \in PendingMessages(a)
    BY <2>6 DEF PendingMessages
  <2>8. PendingMessages(a) \subseteq 1..Len(log)
    BY <2>1 DEF PendingMessages
  <2>9. PendingMessages(a) \in SUBSET Nat /\ IsFiniteSet(PendingMessages(a))
    <3>1. IsFiniteSet(1..Len(log)) /\ 1..Len(log) \in SUBSET Nat
      BY <2>1, FS_Interval
    <3>. QED
      BY <2>8, <3>1, FS_Subset
  <2>10. n \in Nat
    OBVIOUS
  <2>11. i \in page
    BY <2>4, <2>6, <2>7, <2>9, <2>10, PageIsLeading
  <2>. QED
    BY <2>4, <2>11
<1>. QED
  BY <1>1, InboxInvHolds, PTL DEF InboxSpec, OnlyHiddenIsSkipped

=============================================================================
