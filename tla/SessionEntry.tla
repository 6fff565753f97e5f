---------------------------- MODULE SessionEntry ----------------------------
(***************************************************************************)
(* Entering a team session with an aimem proof, and keeping it: the agent's *)
(* engine (internal/agent engine.go, state.go), aicrewd's entry command     *)
(* (internal/store sessiontoken.go, identity.go, introspection.go,          *)
(* inflight.go) and aimem's redemption and local binding.                   *)
(*                                                                         *)
(* One agent, its team and its home.  A launcher starts or resumes the      *)
(* home's session and holds it; `session leave` resumes the session the     *)
(* home recorded and ends it.  Membership, roles and rotation are           *)
(* TeamSessions.  An entry's key and its proof are obtained together, so a  *)
(* challenge and the number of its proof name both.  A token and the handle *)
(* issued with it live and die together here: a refresh renews the handle   *)
(* of its token.  Sessions and generations are numbered over the agent's    *)
(* sessions, so that no token names two of them.                            *)
(***************************************************************************)
EXTENDS Integers, FiniteSets

CONSTANTS
    Launchers, Leavers,  \* the clients of the home
    EntryRounds,         \* entryRounds: challenges of one entry
    ProofRenewals,       \* proofRenewals: further proofs of one challenge
    MaxChallenges,       \* bound: challenges told apart at a time
    MaxMoves,            \* bound: leaves, ends of a launcher, renewals
    MaxFaults            \* bound: what fails, expires, is given up or stopped

ASSUME EntryAssumption ==
    /\ Launchers \cap Leavers = {}
    /\ {EntryRounds, MaxChallenges} \subseteq Nat \ {0}
    /\ {ProofRenewals, MaxMoves, MaxFaults} \subseteq Nat

Clients == Launchers \cup Leavers

VARIABLES
    session,     \* aicrewd: the agent's latest session, and its latest token
    challenges,  \* aicrewd and aimem: the challenges, their proofs, their entry
    calls,       \* aicrewd: the entries it is serving
    job,         \* what each client is at
    record,      \* state/aicrew-session.json: the session to resume, or 0
    binding,     \* aimem's session file: the token its handle came with
    faults, moves

vars == <<session, challenges, calls, job, record, binding, faults, moves>>

None == <<>>

NoChallenge == [state |-> "gone", proofs |-> 0, fresh |-> FALSE, redeemed |-> {}, entered |-> None]

Idle == [pc |-> "idle", goal |-> "", target |-> 0, ch |-> 0, proof |-> 0, rounds |-> 0,
         answer |-> "", got |-> None, token |-> None, left |-> FALSE, resumed |-> FALSE]

Init ==
    /\ session = [sid |-> 0, gen |-> 0, issue |-> 0, active |-> FALSE]
    /\ challenges = [ch \in 1..MaxChallenges |-> NoChallenge]
    /\ calls = {}
    /\ job = [c \in Clients |-> Idle]
    /\ record = 0
    /\ binding = None
    /\ faults = 0
    /\ moves = 0

Fault == faults < MaxFaults /\ faults' = faults + 1

Move == moves < MaxMoves /\ moves' = moves + 1

-----------------------------------------------------------------------------
(* Tokens: the latest one issued for the session at its generation works. *)

Token == <<session.sid, session.gen, session.issue>>

Works(token) == session.active /\ token = Token

(* The challenges somebody may still complete; the rest is forgotten. *)
Open(c) == {job[d].ch : d \in Clients \ {c}} \cup {r.ch : r \in calls}

(* Bound: the name of a forgotten challenge names the next one.  A client    *)
(* that asks while all MaxChallenges are open would wait; in the run there   *)
(* is always one left.                                                       *)
ChallengeLeft(c) == \E ch \in 1..MaxChallenges : ch \notin Open(c)

FreshChallenge(c) == CHOOSE ch \in 1..MaxChallenges : ch \notin Open(c)

Forget(c) == [ch \in 1..MaxChallenges |-> IF ch \in Open(c) THEN challenges[ch] ELSE NoChallenge]

-----------------------------------------------------------------------------
(* enterWithProof in aicrewd. *)

At(stage, r) == r \in calls /\ r.stage = stage

Reply(r, code, token) ==
    /\ calls' = calls \ {r}
    /\ job' = IF r.live THEN [job EXCEPT ![r.client].pc = "answered", ![r.client].answer = code,
                                         ![r.client].got = token] ELSE job

Refuse(r, code) == Reply(r, code, None) /\ UNCHANGED <<session, challenges>>

Advance(r, stage) ==
    /\ calls' = (calls \ {r}) \cup {[r EXCEPT !.stage = stage]}
    /\ UNCHANGED <<session, job>>

(* tryAcquire: an identical entry is in flight. *)
Busy(r) == \E d \in calls : d.ch = r.ch /\ d.proof = r.proof /\ d.stage \in {"checked", "verified"}

(* Why the session cannot be entered, or resumed; or "". *)
Entering(r) ==
    CASE r.target = 0 /\ session.active -> "session_active"
      [] r.target # 0 /\ ~(session.active /\ session.sid = r.target) -> "context_stale"
      [] OTHER -> ""

Pending(r) == challenges[r.ch].state = "pending"

(* NoReceipt is an entry command whose receipt is not looked up. *)
NoReceipt(r) == FALSE

Committed(r) == challenges[r.ch].entered # None /\ challenges[r.ch].entered[3] = r.proof

(* reissueEntry: while the deadline has not passed and the generation stands, *)
(* a fresh token and handle take the place of the ones the lost reply had.    *)
Reissue(r) ==
    IF challenges[r.ch].state = "gone" THEN Refuse(r, "challenge_invalid")
    ELSE IF ~session.active \/ challenges[r.ch].entered # <<session.sid, session.gen, r.proof>>
    THEN Refuse(r, "context_stale")
    ELSE /\ session' = [session EXCEPT !.issue = @ + 1]
         /\ Reply(r, "ok", <<session.sid, session.gen, session.issue + 1>>)
         /\ UNCHANGED challenges

Enter(r) ==
    /\ At("sent", r)
    /\ IF Busy(r) THEN Refuse(r, "request_in_progress")
       ELSE IF Committed(r) THEN Reissue(r)
       ELSE IF ~Pending(r) THEN Refuse(r, "challenge_invalid")
       ELSE IF Entering(r) # "" THEN Refuse(r, Entering(r))
       ELSE Advance(r, "checked") /\ UNCHANGED challenges
    /\ UNCHANGED <<record, binding, faults, moves>>

(* aimem redeems the newest proof of a challenge once, and answers a key     *)
(* that redeemed its receipt again.                                          *)
Redeemable(r) ==
    \/ r.proof \in challenges[r.ch].redeemed
    \/ r.proof = challenges[r.ch].proofs /\ challenges[r.ch].fresh

Redeemed(r) == challenges' = [challenges EXCEPT ![r.ch].redeemed = @ \cup {r.proof}]

Redeem(r) ==
    /\ At("checked", r)
    /\ IF Redeemable(r) THEN Redeemed(r) /\ Advance(r, "verified") ELSE Refuse(r, "proof_invalid")
    /\ UNCHANGED <<record, binding, faults, moves>>

(* The receipt expired on its way. *)
ProofExpired(r) ==
    /\ At("checked", r)
    /\ Redeemable(r) /\ r.proof \notin challenges[r.ch].redeemed
    /\ Fault
    /\ challenges' = [challenges EXCEPT ![r.ch].fresh = FALSE]
    /\ Reply(r, "proof_invalid", None)
    /\ UNCHANGED <<session, record, binding, moves>>

(* aimem's answer is lost, after it redeemed the receipt or before. *)
RedeemUnanswered(r) ==
    /\ At("checked", r)
    /\ Fault
    /\ (Redeemable(r) /\ Redeemed(r)) \/ UNCHANGED challenges
    /\ Reply(r, "identity_unavailable", None)
    /\ UNCHANGED <<session, record, binding, moves>>

(* One transaction: the challenge and the session are checked again. *)
Commit(r) ==
    /\ At("verified", r)
    /\ IF ~Pending(r) THEN Refuse(r, "challenge_invalid")
       ELSE IF Entering(r) # "" THEN Refuse(r, Entering(r))
       ELSE LET sid == IF r.target = 0 THEN session.sid + 1 ELSE r.target
                gen == session.gen + 1
            IN  /\ session' = [sid |-> sid, gen |-> gen, issue |-> 1, active |-> TRUE]
                /\ challenges' = [challenges EXCEPT ![r.ch].state = "consumed",
                                                    ![r.ch].entered = <<sid, gen, r.proof>>]
                /\ Reply(r, "ok", <<sid, gen, 1>>)
    /\ UNCHANGED <<record, binding, faults, moves>>

(* An entry whose client is gone may end before it commits. *)
Cancelled(r) ==
    /\ r \in calls
    /\ ~r.live
    /\ calls' = calls \ {r}
    /\ UNCHANGED <<session, challenges, job, record, binding, faults, moves>>

-----------------------------------------------------------------------------
(* The engine's entry. *)

aicrewd == <<session, challenges, calls>>

Abandoned(c) == {IF r.client = c THEN [r EXCEPT !.live = FALSE] ELSE r : r \in calls}

(* The client exits, with or without an error. *)
Exit(c) == job' = [job EXCEPT ![c] = Idle]

(* A client that proves, to enter the team or to resume target. *)
Proving(c, goal, target) ==
    [job[c] EXCEPT !.pc = "challenge", !.goal = goal, !.target = target, !.rounds = 0, !.ch = 0,
                   !.proof = 0, !.answer = "", !.got = None]

(* NoRecord is a start that does not look for a recorded session. *)
NoRecord == 0

Recorded == record

(* Engine.Start: a recorded session is resumed. *)
Start(c) ==
    /\ c \in Launchers
    /\ job[c].pc = "idle"
    /\ job' = [job EXCEPT ![c] = Proving(c, "start", Recorded)]
    /\ UNCHANGED <<aicrewd, record, binding, faults, moves>>

(* Engine.LeaveRecorded. *)
LeaveRecorded(c) ==
    /\ c \in Leavers
    /\ job[c].pc = "idle"
    /\ record # 0
    /\ Move
    /\ job' = [job EXCEPT ![c] = Proving(c, "leave", record)]
    /\ UNCHANGED <<aicrewd, record, binding, faults>>

(* One entry of EntryRounds, each with a challenge of its own. *)
GetChallenge(c) ==
    /\ job[c].pc = "challenge"
    /\ job[c].rounds < EntryRounds
    /\ ChallengeLeft(c)
    /\ challenges' = [Forget(c) EXCEPT ![FreshChallenge(c)].state = "pending"]
    /\ job' = [job EXCEPT ![c].pc = "prove", ![c].ch = FreshChallenge(c), ![c].proof = 0,
                          ![c].rounds = @ + 1]
    /\ UNCHANGED <<session, calls, record, binding, faults, moves>>

NoRoundLeft(c) ==
    /\ job[c].pc = "challenge"
    /\ job[c].rounds = EntryRounds
    /\ Exit(c)
    /\ UNCHANGED <<aicrewd, record, binding, faults, moves>>

Send(c, proof) ==
    calls' = Abandoned(c) \cup
        {[client |-> c, ch |-> job[c].ch, proof |-> proof, target |-> job[c].target,
          stage |-> "sent", live |-> TRUE]}

(* A new proof goes with a new key. *)
Prove(c) ==
    /\ job[c].pc = "prove"
    /\ challenges' = [challenges EXCEPT ![job[c].ch].proofs = @ + 1,
                                          ![job[c].ch].fresh = TRUE]
    /\ Send(c, job[c].proof + 1)
    /\ job' = [job EXCEPT ![c].pc = "sent", ![c].proof = @ + 1]
    /\ UNCHANGED <<session, record, binding, faults, moves>>

Answered(c, codes) == job[c].pc = "answered" /\ job[c].answer \in codes

(* The secrets kept are those of the latest request sent. *)
Adopt(c) ==
    /\ Answered(c, {"ok"})
    /\ job' = [job EXCEPT ![c] = [@ EXCEPT !.pc = "bind", !.token = job[c].got, !.got = None,
                                           !.answer = "", !.ch = 0, !.proof = 0, !.rounds = 0,
                                           !.target = job[c].got[1]]]
    /\ challenges' = Forget(c)
    /\ UNCHANGED <<session, calls, record, binding, faults, moves>>

(* The challenge is gone, by the refusal or by the client's clock. *)
Gone(c) == job[c].answer = "challenge_invalid" \/ challenges[job[c].ch].state = "gone"

NewRound(c) ==
    /\ job[c].pc = "answered"
    /\ job[c].answer # "ok"
    /\ Gone(c)
    /\ job' = [job EXCEPT ![c].pc = "challenge", ![c].answer = "", ![c].ch = 0]
    /\ challenges' = Forget(c)
    /\ UNCHANGED <<session, calls, record, binding, faults, moves>>

NewProof(c) ==
    /\ Answered(c, {"proof_invalid"})
    /\ ~Gone(c)
    /\ job[c].proof <= ProofRenewals
    /\ job' = [job EXCEPT ![c].pc = "prove", ![c].answer = ""]
    /\ UNCHANGED <<aicrewd, record, binding, faults, moves>>

Retryable == {"unanswered", "request_in_progress", "identity_unavailable"}

SameKey(c) ==
    /\ Answered(c, Retryable)
    /\ ~Gone(c)
    /\ Send(c, job[c].proof)
    /\ job' = [job EXCEPT ![c].pc = "sent", ![c].answer = ""]
    /\ UNCHANGED <<session, challenges, record, binding, faults, moves>>

(* What the entry was refused for ends it. *)
Fails(c) ==
    /\ \/ Answered(c, {"session_active"})
       \/ Answered(c, {"proof_invalid"}) /\ job[c].proof > ProofRenewals
    /\ ~Gone(c)
    /\ Exit(c)
    /\ challenges' = Forget(c)
    /\ UNCHANGED <<session, calls, record, binding, faults, moves>>

(* The session to resume has ended: a start enters anew, a launcher that     *)
(* held it ends, and a leave only closes what aimem and the home keep of it. *)
HasEnded(c) ==
    /\ Answered(c, {"context_stale"})
    /\ ~Gone(c)
    /\ LET clears == job[c].target # 0 /\ job[c].goal \in {"start", "run"}
       IN  record' = IF clears THEN 0 ELSE record
    /\ job' = [job EXCEPT ![c] = CASE job[c].goal = "start" /\ job[c].target # 0 -> Proving(c, "start", 0)
                                   [] job[c].goal \in {"leave", "again"} -> [@ EXCEPT !.pc = "close"]
                                   [] OTHER -> Idle]
    /\ challenges' = Forget(c)
    /\ UNCHANGED <<session, calls, binding, faults, moves>>

-----------------------------------------------------------------------------
(* Engine.bind: the session is recorded before aimem is given the handle. *)

RecordSession(c) ==
    /\ job[c].pc = "bind"
    /\ record' = job[c].token[1]
    /\ job' = [job EXCEPT ![c].pc = "open"]
    /\ UNCHANGED <<aicrewd, binding, faults, moves>>

Bind(c) ==
    /\ job[c].pc = "open"
    /\ binding' = job[c].token
    /\ job' = [job EXCEPT ![c].pc = "bound"]
    /\ UNCHANGED <<aicrewd, record, faults, moves>>

(* It is recorded once more, with aimem's file of it: a client that left it  *)
(* in between may have removed the record.                                   *)
RecordBound(c) ==
    /\ job[c].pc = "bound"
    /\ record' = job[c].token[1]
    /\ job' = [job EXCEPT ![c].pc = IF job[c].goal \in {"leave", "again"} THEN "leave" ELSE "running"]
    /\ UNCHANGED <<aicrewd, binding, faults, moves>>

(* aimem does not take the handle: only a leave that has its turn goes on.    *)
BindFails(c) ==
    /\ job[c].pc = "open"
    /\ Fault
    /\ IF job[c].goal = "again" THEN job' = [job EXCEPT ![c].pc = "leave"] ELSE Exit(c)
    /\ UNCHANGED <<aicrewd, record, binding, moves>>

-----------------------------------------------------------------------------
(* Engine.Run: a handle refresh, or a resume when the token does not work or *)
(* nears its ceiling; or the end.                                            *)

Refresh(c) ==
    /\ job[c].pc = "running"
    /\ Works(job[c].token)
    /\ binding' = job[c].token
    /\ UNCHANGED <<aicrewd, job, record, faults, moves>>

RefreshRefused(c) ==
    /\ job[c].pc = "running"
    /\ ~Works(job[c].token)
    /\ job' = [job EXCEPT ![c] = Proving(c, "run", job[c].token[1])]
    /\ UNCHANGED <<aicrewd, record, binding, faults, moves>>

Renew(c) ==
    /\ job[c].pc = "running"
    /\ Works(job[c].token)
    /\ Move
    /\ job' = [job EXCEPT ![c] = Proving(c, "run", job[c].token[1])]
    /\ UNCHANGED <<aicrewd, record, binding, faults>>

(* The end of the launcher: whatever it was at, it leaves with the token it has. *)
Interrupt(c) ==
    /\ job[c].pc = "running" \/ job[c].goal = "run"
    /\ Move
    /\ job' = [job EXCEPT ![c] = [Idle EXCEPT !.pc = "leave", !.token = job[c].token,
                                              !.target = job[c].token[1]]]
    /\ calls' = Abandoned(c)
    /\ UNCHANGED <<session, challenges, record, binding, faults>>

(* Engine.leave.  Its key's recorded leave is answered again. *)
Leave(c) ==
    /\ job[c].pc = "leave"
    /\ ~job[c].left
    /\ Works(job[c].token)
    /\ session' = [session EXCEPT !.active = FALSE]
    /\ \/ job' = [job EXCEPT ![c].pc = "close"] /\ UNCHANGED faults
       \/ job' = [job EXCEPT ![c].left = TRUE] /\ Fault
    /\ UNCHANGED <<challenges, calls, record, binding, moves>>

LeaveReplayed(c) ==
    /\ job[c].pc = "leave"
    /\ job[c].left
    /\ job' = [job EXCEPT ![c].pc = "close"]
    /\ UNCHANGED <<aicrewd, record, binding, faults, moves>>

(* work_outstanding keeps the session. *)
LeaveRefused(c) ==
    /\ job[c].pc = "leave"
    /\ ~job[c].left
    /\ Works(job[c].token)
    /\ Exit(c)
    /\ UNCHANGED <<aicrewd, record, binding, faults, moves>>

(* The token has ended: resume once, and leave with the new one. *)
LeaveStale(c) ==
    /\ job[c].pc = "leave"
    /\ ~job[c].left
    /\ ~Works(job[c].token)
    /\ IF job[c].resumed THEN Exit(c)
       ELSE job' = [job EXCEPT ![c] = [Proving(c, "again", job[c].token[1]) EXCEPT !.resumed = TRUE]]
    /\ UNCHANGED <<aicrewd, record, binding, faults, moves>>

(* aimem drops its binding, then the record is removed. *)
Close(c) ==
    /\ job[c].pc = "close"
    /\ binding' = IF binding # None /\ binding[1] = job[c].target THEN None ELSE binding
    /\ record' = 0
    /\ Exit(c)
    /\ UNCHANGED <<aicrewd, faults, moves>>

CloseFails(c) ==
    /\ job[c].pc = "close"
    /\ Fault
    /\ Exit(c)
    /\ UNCHANGED <<aicrewd, record, binding, moves>>

-----------------------------------------------------------------------------
(* What else happens. *)

GiveUp(c) ==
    /\ job[c].pc = "sent"
    /\ Fault
    /\ job' = [job EXCEPT ![c].pc = "answered", ![c].answer = "unanswered"]
    /\ calls' = Abandoned(c)
    /\ UNCHANGED <<session, challenges, record, binding, moves>>

Die(c) ==
    /\ job[c].pc # "idle"
    /\ Fault
    /\ Exit(c)
    /\ calls' = Abandoned(c)
    /\ UNCHANGED <<session, challenges, record, binding, moves>>

RestartAicrewd ==
    /\ calls # {}
    /\ Fault
    /\ calls' = {}
    /\ job' = [c \in Clients |-> IF job[c].pc = "sent"
                                 THEN [job[c] EXCEPT !.pc = "answered", !.answer = "unanswered"]
                                 ELSE job[c]]
    /\ UNCHANGED <<session, challenges, record, binding, moves>>

ExpireChallenge(ch) ==
    /\ challenges[ch].state # "gone"
    /\ Fault
    /\ challenges' = [challenges EXCEPT ![ch].state = "gone"]
    /\ UNCHANGED <<session, calls, job, record, binding, moves>>

(* The coordinator or the operator stops the session. *)
StopSession ==
    /\ session.active
    /\ Fault
    /\ session' = [session EXCEPT !.active = FALSE]
    /\ UNCHANGED <<challenges, calls, job, record, binding, moves>>

Serve(r) ==
    \/ Enter(r) \/ Redeem(r) \/ ProofExpired(r) \/ RedeemUnanswered(r) \/ Commit(r) \/ Cancelled(r)

Proceed(c) ==
    \/ Start(c) \/ GetChallenge(c) \/ NoRoundLeft(c) \/ Prove(c) \/ Adopt(c) \/ NewRound(c) \/ NewProof(c)
    \/ SameKey(c) \/ Fails(c) \/ HasEnded(c) \/ RecordSession(c) \/ Bind(c) \/ RecordBound(c)
    \/ RefreshRefused(c)
    \/ Leave(c) \/ LeaveReplayed(c) \/ LeaveRefused(c) \/ LeaveStale(c) \/ Close(c)

Next ==
    \/ \E r \in calls : Serve(r)
    \/ \E c \in Clients :
          \/ Proceed(c) \/ LeaveRecorded(c) \/ Refresh(c) \/ Renew(c) \/ Interrupt(c)
          \/ BindFails(c) \/ CloseFails(c) \/ GiveUp(c) \/ Die(c)
    \/ RestartAicrewd \/ StopSession
    \/ \E ch \in 1..MaxChallenges : ExpireChallenge(ch)

(* aicrewd serves what it is sent; a launcher is restarted when it exits,    *)
(* and refreshes its handle; a client goes on until it exits.  Nothing has   *)
(* to fail, to be interrupted or to be stopped.                              *)
Fairness ==
    \A c \in Clients :
        /\ WF_vars(Proceed(c))
        /\ WF_vars(Refresh(c))
        /\ WF_vars(\E r \in calls : r.client = c /\ r.stage = "sent" /\ Serve(r))
        /\ WF_vars(\E r \in calls : r.client = c /\ r.stage # "sent" /\ Serve(r))

Spec == Init /\ [][Next]_vars

FairSpec == Spec /\ Fairness

-----------------------------------------------------------------------------
(* A client whose entry has committed is not refused by it: while the        *)
(* challenge's deadline has not passed and its session stands, a retry that  *)
(* overlaps the original or comes after its lost reply waits, or gets fresh  *)
(* secrets of that session (reissueEntry, inflight.go).                      *)
Entered(c) ==
    LET ch == challenges[job[c].ch]
    IN  /\ ch.entered = <<session.sid, session.gen, job[c].proof>> /\ session.active
        /\ ch.state # "gone"

OwnEntryIsAnswered ==
    [][\A c \in Clients :
          job[c].pc = "sent" /\ job'[c].pc = "answered" /\ Entered(c)
          => job'[c].answer \in Retryable \cup {"ok"}]_vars

(* An active session that its home has recorded is held again in the end,    *)
(* by a client whose token works and whose handle aimem has, whatever        *)
(* fenced it, died, was lost or came late; or it is ended, or the record of  *)
(* it is gone with the client that left it.                                  *)
Held == \E c \in Clients : job[c].pc \in {"running", "leave"} /\ Works(job[c].token) /\ binding = job[c].token

SessionIsKept ==
    (session.active /\ record = session.sid) ~> (Held \/ ~session.active \/ record # session.sid)

-----------------------------------------------------------------------------
(* What the proofs rest on *)

Tokens == Nat \X Nat \X Nat

Codes == {"", "ok", "session_active", "context_stale", "challenge_invalid", "proof_invalid"} \cup Retryable

ChallengeType ==
    [state : {"gone", "pending", "consumed"}, proofs : Nat, fresh : BOOLEAN, redeemed : SUBSET Nat,
     entered : {None} \cup Tokens]

CallType ==
    [client : Clients, ch : 1..MaxChallenges, proof : Nat, target : Nat,
     stage : {"sent", "checked", "verified"}, live : BOOLEAN]

JobType ==
    [pc : {"idle", "challenge", "prove", "sent", "answered", "bind", "open", "bound", "running", "leave", "close"},
     goal : {"", "start", "leave", "run", "again"}, target : Nat, ch : 0..MaxChallenges, proof : Nat,
     rounds : Nat, answer : Codes, got : {None} \cup Tokens, token : {None} \cup Tokens,
     left : BOOLEAN, resumed : BOOLEAN]

TypeOK ==
    /\ session \in [sid : Nat, gen : Nat, issue : Nat, active : BOOLEAN]
    /\ challenges \in [1..MaxChallenges -> ChallengeType]
    /\ calls \subseteq CallType
    /\ job \in [Clients -> JobType]
    /\ record \in Nat
    /\ binding \in {None} \cup Tokens

(* What a client's state holds by where it is. *)
JobOK(j) ==
    /\ j.pc \in {"prove", "sent", "answered"} => j.ch # 0
    /\ j.pc = "answered" /\ j.answer = "ok" => j.got # None
    /\ j.pc \in {"bind", "open", "bound", "running", "leave"} \/ j.goal = "run" => j.token # None

(* A client's latest request, while it waits, is the one live call of it. *)
LiveInv ==
    /\ \A r \in calls : r.live =>
          /\ job[r.client].pc = "sent"
          /\ r.ch = job[r.client].ch /\ r.proof = job[r.client].proof
    /\ \A r, d \in calls : r.live /\ d.live /\ r.client = d.client => r = d

(* An entry is in flight once, and not after it committed; what committed    *)
(* was redeemed.                                                             *)
FlightInv ==
    /\ \A r, d \in calls :
          (r.stage # "sent" /\ d.stage # "sent" /\ r.ch = d.ch /\ r.proof = d.proof) => r = d
    /\ \A r \in calls : r.stage # "sent" => ~Committed(r)
    /\ \A r \in calls : r.stage = "verified" => r.proof \in challenges[r.ch].redeemed
    /\ \A ch \in 1..MaxChallenges :
          challenges[ch].entered # None => challenges[ch].entered[3] \in challenges[ch].redeemed

EntryInv ==
    /\ TypeOK
    /\ \A c \in Clients : JobOK(job[c])
    /\ LiveInv
    /\ FlightInv
=============================================================================
