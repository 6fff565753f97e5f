----------------------------- MODULE Redemption -----------------------------
(***************************************************************************)
(* Redeeming an invitation: the bootstrap of an agent home (internal/agent  *)
(* join.go), aicrewd (internal/store redemption.go, invitestore.go,         *)
(* invitation.go, identity.go, inflight.go, command.go; internal/server     *)
(* redemption.go) and aimem's redemption of receipts (internal/verifier).   *)
(*                                                                         *)
(* One invitation, and the homes that hold its code, each of its own aimem  *)
(* user.  A home's run begins (aicrewd issues a challenge), proves (aimem   *)
(* issues a receipt) and completes (aicrewd redeems the receipt with no     *)
(* transaction open, then binds in one).  A call goes on in aicrewd when    *)
(* its client has given up on it.  What binding does to agents, links and   *)
(* members is TeamSessions.  Time passes by the Expire actions.             *)
(***************************************************************************)
EXTENDS Integers, Sequences, FiniteSets

CONSTANTS
    Homes,        \* the homes that redeem the code
    Admitted,     \* those whose identity the binding rules admit
    MaxAttempts,  \* maxInvitationAttempts
    MaxBegins,    \* maxBegins: begins of one run
    MaxProofs,    \* maxProofs: new receipts after proof_invalid
    MaxRetries,   \* maxRetries: retries of one call
    MaxReceipts,  \* bound: receipts told apart at a time
    MaxKeys,      \* bound: keys of a home told apart at a time
    Flaky,        \* bound: the homes whose runs and calls fail, with aicrewd or alone
    MaxFaults     \* bound: stops, calls given up, aimem calls that fail

ASSUME RedemptionAssumption ==
    /\ Admitted \subseteq Homes
    /\ Flaky \subseteq Homes
    /\ {MaxAttempts, MaxBegins, MaxReceipts} \subseteq Nat \ {0}
    /\ {MaxProofs, MaxRetries, MaxKeys, MaxFaults} \subseteq Nat

VARIABLES
    invitation,  \* aicrewd: its state and its attempts
    challenges,  \* aicrewd: the invitation's challenges, in order of issue
    receipts,    \* aicrewd: the receipts of committed commands, by key
    bound,       \* aicrewd: the homes whose completion committed, in order
    calls,       \* aicrewd: the calls it is serving
    latest,      \* aimem: the receipt that stands for a challenge, or 0
    redeemed,    \* aimem: the receipt recorded for a request key
    job,         \* the run of a home
    disk,        \* state/aicrew-join.json of a home
    linked,      \* agent.json names the agent and the team
    faults

aicrewd == <<invitation, challenges, receipts, bound>>
aimem == <<latest, redeemed>>
home == <<disk, linked>>
vars == <<invitation, challenges, receipts, bound, calls, latest, redeemed, job, disk, linked,
          faults>>

NoKey == <<>>

(* joinState: the keys and the challenge of the redemption in progress. *)
FreshState == [begin |-> NoKey, ch |-> 0, complete |-> NoKey]

Idle == [pc |-> "idle", st |-> FreshState, begins |-> 0, proofs |-> 0, tries |-> 0, answer |-> ""]

Init ==
    /\ invitation = [state |-> "issued", attempts |-> 0]
    /\ challenges = <<>>
    /\ receipts = <<>>
    /\ bound = <<>>
    /\ calls = {}
    /\ latest = <<>>
    /\ redeemed = <<>>
    /\ job = [h \in Homes |-> Idle]
    /\ disk = [h \in Homes |-> FreshState]
    /\ linked = [h \in Homes |-> FALSE]
    /\ faults = 0

-----------------------------------------------------------------------------
(* What aicrewd reads of the invitation and of a challenge.  A revoked and   *)
(* an expired one are refused alike: both are "closed".                     *)

ForBegin == invitation.state = "issued"

ForCompletion == invitation.state \in {"issued", "locked"}

(* Pending and unexpired; it never outlives the invitation.  A superseded   *)
(* one and an expired one are refused alike: both are "gone".               *)
Current(ch) == challenges[ch].state = "pending"

(* Why a completion of ch, or the replay of its begin, is refused; or "". *)
Refused(ch) ==
    CASE ~ForCompletion -> "invitation_invalid"
      [] ForCompletion /\ ~Current(ch) -> "challenge_invalid"
      [] OTHER -> ""

(* NoReceipt is a store that keeps no receipts of its commands. *)
NoReceipt(key) == FALSE

Committed(key) == key \in DOMAIN receipts

Fault == faults < MaxFaults /\ faults' = faults + 1

(* The call ends with code, for its home's run if that still waits for it. *)
Reply(c, code) ==
    /\ calls' = calls \ {c}
    /\ job' = IF c.live THEN [job EXCEPT ![c.home].pc = "answered", ![c.home].answer = code] ELSE job

(* The same, with the challenge a begin answers with. *)
ReplyChallenge(c, ch) ==
    /\ calls' = calls \ {c}
    /\ job' = IF c.live
              THEN [job EXCEPT ![c.home].pc = "answered", ![c.home].answer = "ok", ![c.home].st.ch = ch]
              ELSE job

Advance(c, stage) == calls' = (calls \ {c}) \cup {[c EXCEPT !.stage = stage]} /\ UNCHANGED job

At(stage, c) == c \in calls /\ c.stage = stage

-----------------------------------------------------------------------------
(* BeginRedemption: one transaction. *)

(* The recorded challenge again, while it and the invitation are usable. *)
ReplayBegin(c) ==
    /\ At("begin", c)
    /\ Committed(c.key)
    /\ LET ch == receipts[c.key]
       IN  IF Refused(ch) = "" THEN ReplyChallenge(c, ch) ELSE Reply(c, Refused(ch))
    /\ UNCHANGED <<aicrewd, aimem, home, faults>>

(* The attempt is counted, the last one locks, and the new challenge        *)
(* supersedes the pending one.                                              *)
BeginRedemption(c) ==
    /\ At("begin", c)
    /\ ~Committed(c.key)
    /\ ForBegin
    /\ LET n == invitation.attempts + 1
       IN  invitation' = [invitation EXCEPT !.attempts = n,
                                            !.state = IF n >= MaxAttempts THEN "locked" ELSE "issued"]
    /\ challenges' = Append([ch \in DOMAIN challenges |->
                               IF challenges[ch].state = "pending"
                               THEN [challenges[ch] EXCEPT !.state = "gone"] ELSE challenges[ch]],
                            [home |-> c.home, state |-> "pending"])
    /\ receipts' = [k \in DOMAIN receipts \cup {c.key} |->
                      IF k = c.key THEN Len(challenges) + 1 ELSE receipts[k]]
    /\ latest' = Append(latest, 0)
    /\ ReplyChallenge(c, Len(challenges) + 1)
    /\ UNCHANGED <<bound, redeemed, home, faults>>

BeginRefused(c) ==
    /\ At("begin", c)
    /\ ~Committed(c.key)
    /\ ~ForBegin
    /\ Reply(c, "invitation_invalid")
    /\ UNCHANGED <<aicrewd, aimem, home, faults>>

-----------------------------------------------------------------------------
(* CompleteRedemption. *)

(* An identical completion is in flight.  NeverBusy is a store without      *)
(* flights.                                                                 *)
NeverBusy(c) == FALSE

Busy(c) == \E d \in calls : d.key = c.key /\ d.stage \in {"checked", "verified"}

(* The entry is taken and the receipt looked up: a commit that finished is  *)
(* seen, and a recorded completion is answered from its receipt.  The       *)
(* pre-checks follow: no other call moves this key between the two.         *)
Lookup(c) ==
    /\ At("complete", c)
    /\ ~Busy(c)
    /\ IF Committed(c.key) THEN Reply(c, "ok")
       ELSE IF Refused(c.ch) # "" THEN Reply(c, Refused(c.ch)) ELSE Advance(c, "checked")
    /\ UNCHANGED <<aicrewd, aimem, home, faults>>

(* The wait for the identical one passes its bound. *)
InProgress(c) ==
    /\ At("complete", c)
    /\ Busy(c)
    /\ Reply(c, "request_in_progress")
    /\ UNCHANGED <<aicrewd, aimem, home, faults>>

(* aimem's redemption (identity.v1): a request key answers its recorded     *)
(* receipt again and no other; a receipt is redeemed once, under one key,   *)
(* while it is the newest for its challenge and has not expired: of one not *)
(* redeemed yet, time may always have taken it.                             *)
Applies(c) == c.key \notin DOMAIN redeemed /\ latest[c.ch] = c.receipt

Vouched(c) == c.key \in DOMAIN redeemed /\ redeemed[c.key] = c.receipt

Conflicts(c) == c.key \in DOMAIN redeemed /\ redeemed[c.key] # c.receipt

Apply(c) ==
    /\ redeemed' = [k \in DOMAIN redeemed \cup {c.key} |-> IF k = c.key THEN c.receipt ELSE redeemed[k]]
    /\ latest' = [latest EXCEPT ![c.ch] = 0]

Redeem(c) ==
    /\ At("checked", c)
    /\ \/ Applies(c) /\ Apply(c) /\ Advance(c, "verified")
       \/ Vouched(c) /\ Advance(c, "verified") /\ UNCHANGED aimem
       \/ Conflicts(c) /\ Reply(c, "aimem_unconfigured") /\ UNCHANGED aimem
       \/ c.key \notin DOMAIN redeemed /\ Reply(c, "proof_invalid") /\ UNCHANGED aimem
    /\ UNCHANGED <<aicrewd, home, faults>>

(* No answer within the budget: aimem may have redeemed the receipt. *)
RedeemUnanswered(c) ==
    /\ At("checked", c)
    /\ c.home \in Flaky
    /\ Fault
    /\ (Applies(c) /\ Apply(c)) \/ UNCHANGED aimem
    /\ Reply(c, "identity_unavailable")
    /\ UNCHANGED <<aicrewd, home>>

(* TrustPreCheck is a store that commits on what its pre-checks read. *)
TrustPreCheck(c) == ""

Recheck(c) == Refused(c.ch)

(* The transaction resolves the invitation and the challenge again. *)
Commit(c) ==
    /\ At("verified", c)
    /\ IF Recheck(c) = "" /\ c.home \in Admitted
       THEN /\ invitation' = [invitation EXCEPT !.state = "redeemed"]
            /\ challenges' = [challenges EXCEPT ![c.ch].state = "consumed"]
            /\ receipts' = [k \in DOMAIN receipts \cup {c.key} |->
                              IF k = c.key THEN c.ch ELSE receipts[k]]
            /\ bound' = Append(bound, c.home)
            /\ Reply(c, "ok")
       ELSE /\ Reply(c, IF Recheck(c) # "" THEN Recheck(c) ELSE "identity_mismatch")
            /\ UNCHANGED aicrewd
    /\ UNCHANGED <<aimem, home, faults>>

(* A call whose client is gone may end before it commits. *)
Cancelled(c) ==
    /\ c \in calls
    /\ ~c.live
    /\ calls' = calls \ {c}
    /\ UNCHANGED <<aicrewd, aimem, job, home, faults>>

-----------------------------------------------------------------------------
(* The run of a home. *)

(* The run ends with its report; a rerun starts from what is saved. *)
Stop(h) == job' = [job EXCEPT ![h] = Idle]

(* No run of the home waits for these calls any more. *)
Abandoned(h) == {IF c.home = h THEN [c EXCEPT !.live = FALSE] ELSE c : c \in calls}

Send(h, stage, key, ch, receipt) ==
    calls' = Abandoned(h) \cup
        {[home |-> h, stage |-> stage, key |-> key, ch |-> ch, receipt |-> receipt, live |-> TRUE]}

OwnKeys(h, purpose) == {<<h, purpose, n>> : n \in 0..MaxKeys}

(* A new key: none that aicrewd or aimem keeps, a call carries or a home    *)
(* has saved.                                                               *)
KeysInUse(h) ==
    DOMAIN receipts \cup DOMAIN redeemed \cup {c.key : c \in calls}
        \cup {disk[h].begin, disk[h].complete, job[h].st.begin, job[h].st.complete}

(* MaxKeys: there is one. *)
KeyLeft(h, purpose) == \E k \in OwnKeys(h, purpose) : k \notin KeysInUse(h)

NewKey(h, purpose) ==
    LET n == CHOOSE n \in 0..MaxKeys : <<h, purpose, n>> \notin KeysInUse(h)
    IN  <<h, purpose, n>>

(* A run reads the state of a run with the same code before it, and         *)
(* completes the challenge that names.                                      *)
Join(h) ==
    /\ job[h].pc = "idle"
    /\ ~linked[h]
    /\ job' = [job EXCEPT ![h] = [Idle EXCEPT !.pc = IF disk[h].ch = 0 THEN "redeem" ELSE "prove",
                                               !.st = disk[h]]]
    /\ UNCHANGED <<aicrewd, calls, aimem, disk, linked, faults>>

(* SaveLate is a bootstrap that saves its keys with the answer only. *)
SaveLate(h, st) == UNCHANGED disk

Save(h, st) == disk' = [disk EXCEPT ![h] = st]

(* The key is saved before the call. *)
Begin(h) ==
    /\ job[h].pc = "redeem"
    /\ job[h].begins < MaxBegins
    /\ job[h].st.begin = NoKey => KeyLeft(h, "begin")
    /\ LET key == IF job[h].st.begin = NoKey THEN NewKey(h, "begin") ELSE job[h].st.begin
           st == [job[h].st EXCEPT !.begin = key]
       IN  /\ Save(h, st)
           /\ job' = [job EXCEPT ![h].pc = "begin", ![h].st = st, ![h].begins = @ + 1,
                                 ![h].tries = 0]
           /\ Send(h, "begin", key, 0, 0)
    /\ UNCHANGED <<aicrewd, aimem, linked, faults>>

TooManyBegins(h) ==
    /\ job[h].pc = "redeem"
    /\ job[h].begins = MaxBegins
    /\ Stop(h)
    /\ UNCHANGED <<aicrewd, calls, aimem, disk, linked, faults>>

(* The answer to the begin; the challenge is saved with the key its         *)
(* completion will have.                                                    *)
Answer(h, of) == job[h].pc = "answered" /\ (job[h].st.complete = NoKey) = (of = "begin")

Retryable == {"unanswered", "request_in_progress", "identity_unavailable"}

Begun(h) ==
    /\ Answer(h, "begin")
    /\ job[h].answer = "ok"
    /\ KeyLeft(h, "complete")
    /\ LET st == [job[h].st EXCEPT !.complete = NewKey(h, "complete")]
       IN  /\ disk' = [disk EXCEPT ![h] = st]
           /\ job' = [job EXCEPT ![h] = [Idle EXCEPT !.pc = "prove", !.st = st, !.begins = job[h].begins]]
    /\ UNCHANGED <<aicrewd, calls, aimem, linked, faults>>

(* The same key again, or with a new key when the challenge is gone. *)
BeginAgain(h) ==
    /\ Answer(h, "begin")
    /\ job[h].answer # "ok"
    /\ IF job[h].answer = "challenge_invalid"
       THEN /\ job' = [job EXCEPT ![h].pc = "redeem", ![h].st.begin = NoKey, ![h].answer = ""]
            /\ UNCHANGED calls
       ELSE IF job[h].answer \in Retryable /\ job[h].tries < MaxRetries
       THEN /\ job' = [job EXCEPT ![h].pc = "begin", ![h].tries = @ + 1, ![h].answer = ""]
            /\ Send(h, "begin", job[h].st.begin, 0, 0)
         ELSE Stop(h) /\ UNCHANGED calls
    /\ UNCHANGED <<aicrewd, aimem, disk, linked, faults>>

(* A receipt that no call, recorded redemption or challenge names. *)
ReceiptsInUse ==
    {c.receipt : c \in calls} \cup {redeemed[k] : k \in DOMAIN redeemed}
        \cup {latest[ch] : ch \in DOMAIN latest}

FreshReceipt == CHOOSE r \in 1..MaxReceipts : r \notin ReceiptsInUse

(* aimem issues a new receipt, which supersedes the challenge's earlier     *)
(* one, and the completion is sent with it under the saved key.             *)
Prove(h) ==
    /\ job[h].pc = "prove"
    /\ 1..MaxReceipts \ ReceiptsInUse # {}
    /\ latest' = [latest EXCEPT ![job[h].st.ch] = FreshReceipt]
    /\ Send(h, "complete", job[h].st.complete, job[h].st.ch, FreshReceipt)
    /\ job' = [job EXCEPT ![h].pc = "complete"]
    /\ UNCHANGED <<aicrewd, redeemed, home, faults>>

ProofFails(h) ==
    /\ job[h].pc = "prove"
    /\ Fault
    /\ Stop(h)
    /\ UNCHANGED <<aicrewd, calls, aimem, disk, linked>>

(* agent.json names the agent, then the state is removed. *)
Link(h) ==
    /\ Answer(h, "complete")
    /\ job[h].answer = "ok"
    /\ linked' = [linked EXCEPT ![h] = TRUE]
    /\ disk' = [disk EXCEPT ![h] = FreshState]
    /\ Stop(h)
    /\ UNCHANGED <<aicrewd, calls, aimem, faults>>

CompleteAgain(h) ==
    /\ Answer(h, "complete")
    /\ job[h].answer \notin {"ok", "challenge_invalid"}
    /\ \/ /\ job[h].answer = "proof_invalid"
          /\ job[h].proofs < MaxProofs
          /\ job' = [job EXCEPT ![h].pc = "prove", ![h].proofs = @ + 1, ![h].answer = ""]
       \/ /\ job[h].answer \in Retryable
          /\ job[h].tries < MaxRetries
          /\ job' = [job EXCEPT ![h].pc = "prove", ![h].tries = @ + 1, ![h].answer = ""]
       \/ /\ job[h].answer = "proof_invalid" => job[h].proofs = MaxProofs
          /\ job[h].answer \in Retryable => job[h].tries = MaxRetries
          /\ Stop(h)
    /\ UNCHANGED <<aicrewd, calls, aimem, disk, linked, faults>>

(* The challenge is gone: the state is cleared and the run begins again. *)
ChallengeGone(h) ==
    /\ Answer(h, "complete")
    /\ job[h].answer = "challenge_invalid"
    /\ disk' = [disk EXCEPT ![h] = FreshState]
    /\ job' = [job EXCEPT ![h].pc = "redeem", ![h].st = FreshState, ![h].answer = ""]
    /\ UNCHANGED <<aicrewd, calls, aimem, linked, faults>>

(* The transport gives the call up; aicrewd may still be serving it. *)
GiveUp(h) ==
    /\ job[h].pc \in {"begin", "complete"}
    /\ Fault
    /\ job' = [job EXCEPT ![h].pc = "answered", ![h].answer = "unanswered"]
    /\ calls' = Abandoned(h)
    /\ UNCHANGED <<aicrewd, aimem, home>>

(* The bootstrap dies. *)
Die(h) ==
    /\ job[h].pc # "idle"
    /\ Fault
    /\ job' = [job EXCEPT ![h] = Idle]
    /\ calls' = Abandoned(h)
    /\ UNCHANGED <<aicrewd, aimem, home>>

(* aicrewd stops and starts: what it was serving is gone, flights too. *)
RestartAicrewd ==
    /\ calls # {} /\ {c.home : c \in calls} \subseteq Flaky
    /\ Fault
    /\ calls' = {}
    /\ job' = [h \in Homes |-> IF job[h].pc \in {"begin", "complete"}
                               THEN [job[h] EXCEPT !.pc = "answered", !.answer = "unanswered"]
                               ELSE job[h]]
    /\ UNCHANGED <<aicrewd, aimem, home>>

-----------------------------------------------------------------------------
(* Time, and the operator. *)

Elapse == UNCHANGED <<receipts, bound, calls, aimem, job, home, faults>>

ExpireChallenge(ch) ==
    /\ ForCompletion
    /\ Current(ch)
    /\ challenges' = [challenges EXCEPT ![ch].state = "gone"]
    /\ Elapse /\ UNCHANGED invitation

(* The operator revokes it, or its deadline passes. *)
CloseInvitation ==
    /\ ForCompletion
    /\ invitation' = [invitation EXCEPT !.state = "closed"]
    /\ Elapse /\ UNCHANGED challenges

Serve(c) ==
    \/ ReplayBegin(c) \/ BeginRedemption(c) \/ BeginRefused(c)
    \/ Lookup(c) \/ InProgress(c) \/ Redeem(c) \/ RedeemUnanswered(c)
    \/ Commit(c) \/ Cancelled(c)

Run(h) ==
    \/ Join(h) \/ Begin(h) \/ TooManyBegins(h) \/ Begun(h) \/ BeginAgain(h)
    \/ Prove(h) \/ Link(h) \/ CompleteAgain(h) \/ ChallengeGone(h)

Next ==
    \/ \E c \in calls : Serve(c)
    \/ \E h \in Homes : Run(h)
    \/ \E h \in Flaky : ProofFails(h) \/ GiveUp(h) \/ Die(h)
    \/ RestartAicrewd
    \/ \E ch \in DOMAIN challenges : ExpireChallenge(ch)
    \/ CloseInvitation

(* aicrewd takes up what it was sent and ends what it has taken up; the      *)
(* member reruns the bootstrap, which goes on until it stops.  Nothing has  *)
(* to expire, close, fail or be given up.                                   *)
Sent == {"begin", "complete"}

Fairness ==
    \A h \in Homes :
        /\ WF_vars(Run(h))
        /\ WF_vars(\E c \in calls : c.home = h /\ c.stage \in Sent /\ Serve(c))
        /\ WF_vars(\E c \in calls : c.home = h /\ c.stage \notin Sent /\ Serve(c))

Spec == Init /\ [][Next]_vars

FairSpec == Spec /\ Fairness

-----------------------------------------------------------------------------
(* The invitation is redeemed by one completion, whatever overlaps it, and  *)
(* only its home is linked by it: a revocation, an expiry or another        *)
(* completion that commits while aimem is asked wins over it (redemption.go *)
(* step 4).                                                                 *)
RedeemedOnce ==
    /\ Len(bound) <= 1
    /\ (invitation.state = "redeemed") = (bound # <<>>)
    /\ \A h \in Homes : linked[h] => bound = <<h>>

(* A home that redeems the invitation is not refused by it: a retry that     *)
(* overlaps its original waits or answers from what the original committed  *)
(* (inflight.go), instead of a false conflict in aimem, and the bootstrap   *)
(* never drops the key that would tell it.                                  *)
Refusals == {"invitation_invalid", "challenge_invalid", "identity_mismatch", "aimem_unconfigured"}

RefusalIsTrue == \A i \in DOMAIN bound : job[bound[i]].answer \notin Refusals

(* An attempt of the invitation is spent only when the home's earlier       *)
(* challenges are of no use any more: neither a stop of the bootstrap nor a *)
(* lost reply costs one (join.go, the key is saved before the call).        *)
Usable(ch) == ForCompletion /\ Current(ch)

NoAttemptWasted ==
    [][Len(challenges') > Len(challenges) =>
         \A ch \in DOMAIN challenges :
             challenges[ch].home = challenges'[Len(challenges')].home => ~Usable(ch)]_vars

(* A home whose redemption committed is linked in the end, also when the    *)
(* answer was lost, the bootstrap died or the code has expired since: a     *)
(* rerun with the same code answers from the receipt.                       *)
RedeemedIsLinked == (bound # <<>>) ~> (\E h \in Homes : bound = <<h>> /\ linked[h])

(* A receipt whose redemption aimem recorded but did not answer is redeemed *)
(* with the same result, not refused for how aicrewd is set up              *)
(* (ONBOARDING-CONTRACT, "Retries and lost replies").                       *)
LostAnswerIsRecovered == \A h \in Homes : job[h].answer # "aimem_unconfigured"

-----------------------------------------------------------------------------
(* What the proofs rest on *)

Key == Homes \X {"begin", "complete"} \X (0..MaxKeys)

JoinState == [begin : Key \cup {NoKey}, ch : Nat, complete : Key \cup {NoKey}]

Job ==
    [pc : {"idle", "redeem", "begin", "prove", "complete", "answered"}, st : JoinState,
     begins : Nat, proofs : Nat, tries : Nat,
     answer : {"", "ok", "proof_invalid"} \cup Retryable \cup Refusals]

Call ==
    [home : Homes, stage : {"begin", "complete", "checked", "verified"}, key : Key, ch : Nat,
     receipt : 0..MaxReceipts, live : BOOLEAN]

TypeOK ==
    /\ invitation \in [state : {"issued", "locked", "redeemed", "closed"}, attempts : Nat]
    /\ challenges \in Seq([home : Homes, state : {"pending", "gone", "consumed"}])
    /\ DOMAIN receipts \subseteq Key /\ receipts \in [DOMAIN receipts -> DOMAIN challenges]
    /\ bound \in Seq(Homes)
    /\ calls \subseteq Call
    /\ latest \in Seq(0..MaxReceipts) /\ Len(latest) = Len(challenges)
    /\ DOMAIN redeemed \subseteq Key /\ redeemed \in [DOMAIN redeemed -> 1..MaxReceipts]
    /\ job \in [Homes -> Job] /\ disk \in [Homes -> JoinState] /\ linked \in [Homes -> BOOLEAN]
    /\ faults \in Nat

Beginning(h) == job[h].pc = "begin" \/ (job[h].pc = "answered" /\ job[h].st.complete = NoKey)

Completing(h) ==
    job[h].pc \in {"prove", "complete"} \/ (job[h].pc = "answered" /\ job[h].st.complete # NoKey)

(* What a home has saved: a challenge with the key of its completion, and   *)
(* the begin that issued it.                                                *)
DiskInv ==
    \A h \in Homes :
        /\ disk[h].begin \in OwnKeys(h, "begin") \cup {NoKey}
        /\ disk[h].complete \in OwnKeys(h, "complete") \cup {NoKey}
        /\ disk[h].ch = 0 <=> disk[h].complete = NoKey
        /\ disk[h].ch # 0 => Committed(disk[h].begin) /\ receipts[disk[h].begin] = disk[h].ch

(* A run works on what its home has saved.                                  *)
JobInv ==
    \A h \in Homes :
        /\ job[h].pc = "idle" => job[h] = Idle
        /\ job[h].pc # "answered" => job[h].answer = ""
        /\ linked[h] => job[h].pc = "idle" /\ disk[h] = FreshState
        /\ job[h].pc = "redeem" => /\ job[h].st.ch = 0 /\ job[h].st.complete = NoKey
                                   /\ job[h].st.begin \in {NoKey, disk[h].begin} /\ disk[h].ch = 0
        /\ Beginning(h) => /\ disk[h] = [job[h].st EXCEPT !.ch = 0] /\ job[h].st.begin # NoKey
                           /\ job[h].st.complete = NoKey
                           /\ job[h].answer # "ok" => job[h].st.ch = 0
        /\ Completing(h) => job[h].st = disk[h] /\ disk[h].ch # 0

(* A call is for its home's keys, and the one its run waits for is the      *)
(* run's.                                                                   *)
CallInv ==
    /\ \A c \in calls :
          /\ c.stage = "begin" => c.key \in OwnKeys(c.home, "begin") /\ c.receipt = 0
          /\ c.stage # "begin" => /\ c.key \in OwnKeys(c.home, "complete")
                                  /\ c.ch \in DOMAIN challenges /\ c.receipt # 0
          /\ c.live /\ c.stage = "begin" =>
                 job[c.home].pc = "begin" /\ c.key = job[c.home].st.begin
          /\ c.live /\ c.stage # "begin" =>
                 job[c.home].pc = "complete" /\ c.key = job[c.home].st.complete /\ c.ch = job[c.home].st.ch
    /\ \A c, d \in calls : c.live /\ d.live /\ c.home = d.home => c = d

InFlight(c) == c.stage \in {"checked", "verified"}

(* One completion of a key is in flight, before it is recorded, and a       *)
(* receipt is one completion's.                                             *)
FlightInv ==
    /\ \A c \in calls :
          /\ InFlight(c) => ~Committed(c.key)
          /\ c.stage \in {"complete", "checked"} => \A k \in DOMAIN redeemed : redeemed[k] # c.receipt
    /\ \A c, d \in calls :
          /\ InFlight(c) /\ InFlight(d) /\ c.key = d.key => c = d
          /\ c.receipt = d.receipt /\ c.receipt # 0 => c = d

(* The completion that redeemed the invitation is recorded for the home's   *)
(* key until the home is linked.                                            *)
BoundInv ==
    /\ RedeemedOnce
    /\ \A k \in DOMAIN receipts : k[2] = "complete" => bound = <<k[1]>>
    /\ \A h \in Homes :
          /\ Completing(h) /\ job[h].answer = "ok" => bound = <<h>>
          /\ bound = <<h>> /\ ~linked[h] => Committed(disk[h].complete)

(* A challenge or a call that may still count is the one that is saved.     *)
UsableInv ==
    /\ \A ch \in DOMAIN challenges : Usable(ch) =>
          LET begin == disk[challenges[ch].home].begin
          IN  Committed(begin) /\ receipts[begin] = ch
    /\ \A c \in calls :
          /\ c.stage = "begin" /\ ~Committed(c.key) /\ ForBegin => c.key = disk[c.home].begin
          /\ c.stage # "begin" /\ Usable(c.ch) =>
                 c.key = disk[c.home].complete /\ c.ch = disk[c.home].ch
    /\ \A h \in Homes : job[h].pc = "redeem" /\ job[h].st.begin = NoKey =>
          /\ disk[h].begin = NoKey \/ Committed(disk[h].begin)
          /\ \A ch \in DOMAIN challenges : challenges[ch].home = h => ~Usable(ch)

(* A home is answered what is so.                                           *)
AnswerInv ==
    /\ RefusalIsTrue
    /\ \A h \in Homes :
          /\ Beginning(h) /\ job[h].answer = "ok" =>
                 Committed(job[h].st.begin) /\ receipts[job[h].st.begin] = job[h].st.ch
          /\ Beginning(h) /\ job[h].answer = "challenge_invalid" =>
                 Committed(job[h].st.begin) /\ ~Current(receipts[job[h].st.begin])
          /\ Completing(h) /\ job[h].answer = "invitation_invalid" => ~ForCompletion
          /\ Completing(h) /\ job[h].answer = "challenge_invalid" => ~Current(job[h].st.ch)
          /\ Completing(h) /\ job[h].answer = "identity_mismatch" => h \notin Admitted
          /\ Completing(h) /\ job[h].answer = "aimem_unconfigured" =>
                 /\ job[h].st.complete \in DOMAIN redeemed
                 /\ \A c \in calls : c.stage = "verified" => c.key # job[h].st.complete

RedemptionInv ==
    /\ TypeOK /\ DiskInv /\ JobInv /\ CallInv /\ FlightInv /\ BoundInv /\ UsableInv /\ AnswerInv
=============================================================================
