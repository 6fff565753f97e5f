--------------------------- MODULE StepSettlement ---------------------------
(***************************************************************************)
(* How aicrew settles one coordinated step that carries a proof            *)
(* (internal/store steps.go, coordination.go, scan.go).                    *)
(*                                                                         *)
(* Begin has issued a proof to the acting member.  The member's own        *)
(* connection sends the mutation to aimem, aimem asks aicrew whether the   *)
(* proof's fact is active, and commits a little later.  aicrew never sees  *)
(* the mutation: it settles the step from a read scope that only says      *)
(* whether a receipt exists for a proof.  A receipt settles the step; the  *)
(* absence of one settles it only NoneFinalAfter after every proof of the  *)
(* step ended.  Meanwhile the member may replay its begin (a new proof), a *)
(* session may move (its proofs end), members and the reconciler may       *)
(* settle at any time, and any call may be cut off half way.               *)
(***************************************************************************)
EXTENDS Integers, Sequences, FiniteSets

CONSTANTS ProofLifetime,   \* coordination.go: how long a proof lives
          NoneFinalAfter,  \* steps.go: when a "none" is final after a proof's end
          CommitLag,       \* aimem: the longest a commit follows the fact it rests on
          ReadBudget,      \* reads the reconciler's budget allows one call
          MaxProofs,       \* bound: proofs issued for the step, replacements included
          MaxGen,          \* bound: the acting session's generation
          MaxCuts,         \* bound: settle calls cut off half way
          LastIssue,       \* bound: the latest time a replay issues a proof
          MaxTime          \* bound: the clock

ASSUME TimingAssumption ==
    /\ ProofLifetime \in Nat \ {0}
    /\ NoneFinalAfter \in Nat
    /\ CommitLag \in Nat
    /\ CommitLag < NoneFinalAfter

ASSUME BoundsAssumption ==
    /\ ReadBudget \in Nat \ {0}
    /\ MaxProofs \in Nat \ {0}
    /\ MaxGen \in Nat \ {0}
    /\ MaxCuts \in Nat
    /\ LastIssue \in Nat
    /\ MaxTime \in Nat

VARIABLES now,       \* the clock, from 1 on; 0 stands for "never"
          session,   \* the acting session: its generation and whether it is active
          acts,      \* whether the rule of the proof's fact kind holds for the attempt
          proofs,    \* the step's proofs, oldest first
          granted,   \* per proof: when aimem last got an active fact for it, or 0
          receipt,   \* the proof whose use aimem committed the step under, or 0
          outcome,   \* the recorded outcome of the step
          finals,    \* proofs whose "none" is recorded as final (scan_finals)
          call,      \* the settle call that holds the attempt's lock
          cuts       \* how many calls have been cut off

vars == <<now, session, acts, proofs, granted, receipt, outcome, finals, call, cuts>>

-----------------------------------------------------------------------------
(* Proofs *)

Proof == [gen : Nat, expires : Nat, ended : Nat]

(* When a proof stopped being usable: its expiry, or its end if earlier. *)
End(p) == IF p.ended # 0 /\ p.ended < p.expires THEN p.ended ELSE p.expires

Ends(ps) == [i \in 1..Len(ps) |-> End(ps[i])]

Ended(p, t) == IF p.ended = 0 THEN [p EXCEPT !.ended = t] ELSE p

EndAll(ps, t) == [i \in 1..Len(ps) |-> Ended(ps[i], t)]

(* endMovedProofs: only proofs of a generation the session has left. *)
EndMoved(ps, gen, t) ==
    [i \in 1..Len(ps) |-> IF ps[i].gen < gen THEN Ended(ps[i], t) ELSE ps[i]]

NewProof(gen, t) == [gen |-> gen, expires |-> t + ProofLifetime, ended |-> 0]

(* A proof aicrew has not ended and that has not expired. *)
Live(i) == proofs[i].ended = 0 /\ now < proofs[i].expires

(* CoordinationFact answers active. *)
FactActive(i) ==
    /\ Live(i)
    /\ outcome = "pending"
    /\ session.active
    /\ session.gen = proofs[i].gen
    /\ acts

-----------------------------------------------------------------------------
(* The settle call *)

Reporters == {"member", "reconciler"}

Phases == {"idle", "scan", "reading", "answered", "report", "decide", "settle"}

(* What a call knows: who settles, whether its report voids the step (a     *)
(* refusal or an unknown outcome), whether it has a reader, when it asked,  *)
(* the proofs' ends as it read them, the proof it reads next, when that     *)
(* read was sent, whether it showed a receipt, and how many it has sent.    *)
Call == [phase : Phases, by : Reporters, voids : BOOLEAN, reader : BOOLEAN,
         asked : Nat, known : Seq(Nat), next : Nat, readAt : Nat,
         shows : BOOLEAN, reads : Nat]

NoCall == [phase |-> "idle", by |-> "member", voids |-> FALSE, reader |-> FALSE,
           asked |-> 0, known |-> <<>>, next |-> 0, readAt |-> 0,
           shows |-> FALSE, reads |-> 0]

TypeOK ==
    /\ now \in Nat \ {0}
    /\ session \in [gen : Nat, active : BOOLEAN]
    /\ acts \in BOOLEAN
    /\ proofs \in Seq(Proof)
    /\ granted \in [1..Len(proofs) -> Nat]
    /\ receipt \in 0..Len(proofs)
    /\ outcome \in {"pending", "committed", "not_committed"}
    /\ finals \subseteq 1..Len(proofs)
    /\ call \in Call
    /\ cuts \in 0..MaxCuts

-----------------------------------------------------------------------------
(* The step as begin leaves it: its intent recorded, one proof issued. *)
Init ==
    /\ now = 1
    /\ session = [gen |-> 1, active |-> TRUE]
    /\ acts = TRUE
    /\ proofs = <<NewProof(1, 1)>>
    /\ granted = <<0>>
    /\ receipt = 0
    /\ outcome = "pending"
    /\ finals = {}
    /\ call = NoCall
    /\ cuts = 0

-----------------------------------------------------------------------------
(* The acting member *)

(* Mutant: the replay leaves the earlier proofs usable. *)
ReplaceProofOnly ==
    /\ call.phase = "idle"
    /\ outcome = "pending"
    /\ session.active
    /\ acts
    /\ Len(proofs) < MaxProofs
    /\ now <= LastIssue
    /\ proofs' = Append(proofs, NewProof(session.gen, now))
    /\ granted' = Append(granted, 0)
    /\ UNCHANGED <<now, session, acts, receipt, outcome, finals, call, cuts>>

(* A replayed begin: the earlier proofs end and a new one is issued at the  *)
(* session's generation, if the session still acts the step.  Like a        *)
(* settle, a begin takes the attempt's lock.                                *)
ReplaceProof ==
    /\ call.phase = "idle"
    /\ outcome = "pending"
    /\ session.active
    /\ acts
    /\ Len(proofs) < MaxProofs
    /\ now <= LastIssue
    /\ proofs' = Append(EndAll(proofs, now), NewProof(session.gen, now))
    /\ granted' = Append(granted, 0)
    /\ UNCHANGED <<now, session, acts, receipt, outcome, finals, call, cuts>>

(* A resume or a credential rotation (stays active), or an end. *)
MoveSession(active) ==
    /\ session.active
    /\ session.gen < MaxGen
    /\ session' = [gen |-> session.gen + 1, active |-> active]
    /\ proofs' = EndMoved(proofs, session.gen + 1, now)
    /\ acts' \in {acts, FALSE}
    /\ UNCHANGED <<now, granted, receipt, outcome, finals, call, cuts>>

(* The member's next session; a generation of its own keeps the two apart.  *)
StartSession ==
    /\ ~session.active
    /\ session.gen < MaxGen
    /\ session' = [gen |-> session.gen + 1, active |-> TRUE]
    /\ acts' \in {acts, FALSE}
    /\ UNCHANGED <<now, proofs, granted, receipt, outcome, finals, call, cuts>>

(* A stop, a new coordinator, another role or link: the fact's rule stops   *)
(* holding (or holds again) and no proof ends.                              *)
RuleChanges ==
    /\ acts' = ~acts
    /\ UNCHANGED <<now, session, proofs, granted, receipt, outcome, finals, call, cuts>>

-----------------------------------------------------------------------------
(* aimem (external) *)

(* aimem asks about a proof and is told its fact is active. *)
FactGranted(i) ==
    /\ FactActive(i)
    /\ granted' = [granted EXCEPT ![i] = now]
    /\ UNCHANGED <<now, session, acts, proofs, receipt, outcome, finals, call, cuts>>

(* aimem commits the step on a fact it was given at most CommitLag ago.  It  *)
(* may also refuse, or never get that far.                                  *)
Commits(i) ==
    /\ receipt = 0
    /\ granted[i] # 0
    /\ now <= granted[i] + CommitLag
    /\ receipt' = i
    /\ UNCHANGED <<now, session, acts, proofs, granted, outcome, finals, call, cuts>>

Tick ==
    /\ now < MaxTime
    /\ now' = now + 1
    /\ UNCHANGED <<session, acts, proofs, granted, receipt, outcome, finals, call, cuts>>

-----------------------------------------------------------------------------
(* settleStep, one action per call or transaction it makes *)

BeginSettle(by, voids, reader) ==
    /\ call.phase = "idle"
    /\ outcome = "pending"
    /\ by = "reconciler" => reader /\ ~voids
    /\ call' = [NoCall EXCEPT !.phase = IF reader THEN "scan" ELSE "report",
                              !.by = by, !.voids = voids, !.reader = reader,
                              !.asked = now, !.known = Ends(proofs),
                              !.next = Len(proofs)]
    /\ UNCHANGED <<now, session, acts, proofs, granted, receipt, outcome, finals, cuts>>

(* A proof whose "none" is final is not read again. *)
SkipFinal ==
    /\ call.phase = "scan"
    /\ call.next \in finals
    /\ call' = [call EXCEPT !.next = @ - 1]
    /\ UNCHANGED <<now, session, acts, proofs, granted, receipt, outcome, finals, cuts>>

OutOfBudget == call.by = "reconciler" /\ call.reads = ReadBudget

SendRead ==
    /\ call.phase = "scan"
    /\ call.next # 0
    /\ call.next \notin finals
    /\ ~OutOfBudget
    /\ call' = [call EXCEPT !.phase = "reading", !.readAt = now, !.reads = @ + 1]
    /\ UNCHANGED <<now, session, acts, proofs, granted, receipt, outcome, finals, cuts>>

(* The reconciler's budget is spent: the call ends, what it recorded stays. *)
RefuseRead ==
    /\ call.phase = "scan"
    /\ call.next # 0
    /\ call.next \notin finals
    /\ OutOfBudget
    /\ call' = NoCall
    /\ UNCHANGED <<now, session, acts, proofs, granted, receipt, outcome, finals, cuts>>

(* The read scope looks at some moment between the read and its answer. *)
ReadScopeLooks ==
    /\ call.phase = "reading"
    /\ call' = [call EXCEPT !.phase = "answered", !.shows = (receipt = call.next)]
    /\ UNCHANGED <<now, session, acts, proofs, granted, receipt, outcome, finals, cuts>>

(* A receipt settles the step as committed, in one transaction. *)
SettleCommitted ==
    /\ call.phase = "answered"
    /\ call.shows
    /\ outcome' = "committed"
    /\ proofs' = EndAll(proofs, now)
    /\ call' = NoCall
    /\ UNCHANGED <<now, session, acts, granted, receipt, finals, cuts>>

(* A "none" is final once read NoneFinalAfter after its proof's end. *)
NoneIsFinal(end, at) == at >= end + NoneFinalAfter

(* Mutant: judged by the time of the answer, not of the read. *)
RecordNoneByAnswer ==
    /\ call.phase = "answered"
    /\ ~call.shows
    /\ finals' = IF NoneIsFinal(call.known[call.next], now)
                 THEN finals \cup {call.next} ELSE finals
    /\ call' = [call EXCEPT !.phase = "scan", !.next = @ - 1]
    /\ UNCHANGED <<now, session, acts, proofs, granted, receipt, outcome, cuts>>

(* Mutant: the scan's progress is lost. *)
RecordNoneNowhere ==
    /\ call.phase = "answered"
    /\ ~call.shows
    /\ call' = [call EXCEPT !.phase = "scan", !.next = @ - 1]
    /\ UNCHANGED <<now, session, acts, proofs, granted, receipt, outcome, finals, cuts>>

RecordNone ==
    /\ call.phase = "answered"
    /\ ~call.shows
    /\ finals' = IF NoneIsFinal(call.known[call.next], call.readAt)
                 THEN finals \cup {call.next} ELSE finals
    /\ call' = [call EXCEPT !.phase = "scan", !.next = @ - 1]
    /\ UNCHANGED <<now, session, acts, proofs, granted, receipt, outcome, cuts>>

ScanDone ==
    /\ call.phase = "scan"
    /\ call.next = 0
    /\ call' = [call EXCEPT !.phase = "report"]
    /\ UNCHANGED <<now, session, acts, proofs, granted, receipt, outcome, finals, cuts>>

(* Mutant: every report voids the step's proofs. *)
VoidsAlways == TRUE

(* A report of a refusal or an unknown outcome ends the step's proofs, and   *)
(* their ends are read again; any other report changes nothing.             *)
Voids == call.voids /\ call.by # "reconciler"

TakeReport ==
    /\ call.phase = "report"
    /\ proofs' = IF Voids THEN EndAll(proofs, now) ELSE proofs
    /\ call' = [call EXCEPT !.phase = "decide",
                            !.known = IF Voids THEN Ends(EndAll(proofs, now)) ELSE @]
    /\ UNCHANGED <<now, session, acts, granted, receipt, outcome, finals, cuts>>

(* Mutant: no allowance for a commit that follows a proof's end. *)
AllEnded(known, asked) ==
    \A i \in DOMAIN known : asked >= known[i]

(* Every proof had been dead for NoneFinalAfter when the call asked. *)
AllFinal(known, asked) ==
    \A i \in DOMAIN known : NoneIsFinal(known[i], asked)

(* Mutant: judged by the time of the decision, not of the call. *)
DecideByNow ==
    /\ call.phase = "decide"
    /\ call' = IF call.reader /\ AllFinal(call.known, now)
               THEN [call EXCEPT !.phase = "settle"] ELSE NoCall
    /\ UNCHANGED <<now, session, acts, proofs, granted, receipt, outcome, finals, cuts>>

Decide ==
    /\ call.phase = "decide"
    /\ call' = IF call.reader /\ AllFinal(call.known, call.asked)
               THEN [call EXCEPT !.phase = "settle"] ELSE NoCall
    /\ UNCHANGED <<now, session, acts, proofs, granted, receipt, outcome, finals, cuts>>

SettleNotCommitted ==
    /\ call.phase = "settle"
    /\ outcome' = "not_committed"
    /\ proofs' = EndAll(proofs, now)
    /\ call' = NoCall
    /\ UNCHANGED <<now, session, acts, granted, receipt, finals, cuts>>

(* The call ends early, at any point: the process dies, a read fails, or a   *)
(* member's token has been superseded and its guard refuses the write.      *)
CallCut ==
    /\ call.phase # "idle"
    /\ cuts < MaxCuts
    /\ call' = NoCall
    /\ cuts' = cuts + 1
    /\ UNCHANGED <<now, session, acts, proofs, granted, receipt, outcome, finals>>

CallSteps == SkipFinal \/ SendRead \/ RefuseRead \/ ReadScopeLooks \/ SettleCommitted
             \/ RecordNone \/ ScanDone \/ TakeReport \/ Decide
             \/ SettleNotCommitted

Next ==
    \/ ReplaceProof
    \/ \E active \in BOOLEAN : MoveSession(active)
    \/ StartSession
    \/ RuleChanges
    \/ \E i \in DOMAIN proofs : FactGranted(i) \/ Commits(i)
    \/ Tick
    \/ \E by \in Reporters, voids, reader \in BOOLEAN : BeginSettle(by, voids, reader)
    \/ CallSteps
    \/ CallCut

Spec == Init /\ [][Next]_vars

(* Time passes, a call that runs ends, and the reconciler's rounds come     *)
(* back to the step for as long as it is pending.                           *)
Fairness ==
    /\ WF_vars(Tick)
    /\ WF_vars(CallSteps)
    /\ SF_vars(BeginSettle("reconciler", FALSE, TRUE))

FairSpec == Spec /\ Fairness

-----------------------------------------------------------------------------
(* Properties *)

(* The recorded outcome is the truth, and stays it: whatever calls, replays *)
(* and session moves interleave with aimem's asks and commits, a step       *)
(* recorded as not committed never has a receipt, and one recorded as       *)
(* committed has (settleStep's use of none_finality).                       *)
OutcomeIsTrue ==
    /\ outcome = "committed" => receipt # 0
    /\ outcome = "not_committed" => receipt = 0

(* A proof recorded in scan_finals is never read again, so the step must    *)
(* never commit under it, before or after (scan.go, markScanFinal).         *)
FinalNoneIsFinal == receipt \notin finals

(* The newest proof is the only one that may still live: a replay leaves no *)
(* second usable proof of the same step (replaceProof, endProofs).          *)
OneLiveProof ==
    \A i, j \in DOMAIN proofs : Live(i) /\ Live(j) => i = j

(* The reconciler voids nothing: a step of its call that ends a live proof  *)
(* is the one that records the receipt it read (ReconcileStep).             *)
ReconcilerCutsNobodyOff ==
    [][call.by = "reconciler" /\ call' # call =>
         \A i \in DOMAIN proofs :
             Live(i) /\ proofs'[i].ended # 0 => outcome' = "committed"]_vars

(* A commit is found, under whichever proof it was made, and recorded, even *)
(* if no reconciler call may read more than ReadBudget proofs: the scan's   *)
(* recorded progress carries it to the oldest proof.                        *)
CommitIsRecorded == receipt # 0 ~> outcome = "committed"

(* The settlement implements the promise. *)
Promise == INSTANCE StepOutcome WITH committed <- (receipt # 0)

ImplementsPromise == Promise!FairSpec

-----------------------------------------------------------------------------
(* The invariant the proofs rest on *)

(* A proof was granted, if ever, in the past and before its end, and ended  *)
(* in the past.                                                             *)
ProofsInTime ==
    \A i \in DOMAIN proofs :
        /\ granted[i] <= now
        /\ granted[i] <= End(proofs[i])
        /\ proofs[i].ended <= now

(* No commit under proof i happens at time t or later: t is NoneFinalAfter  *)
(* past its end, and none has happened yet.                                 *)
NoneAt(i, t) == NoneIsFinal(End(proofs[i]), t) => receipt # i

FinalsInv ==
    \A i \in finals : NoneIsFinal(End(proofs[i]), now) /\ receipt # i

OutcomeInv ==
    /\ outcome # "pending" => call.phase = "idle"
    /\ outcome = "committed" => receipt # 0
    /\ outcome = "not_committed" =>
         /\ receipt = 0
         /\ \A i \in DOMAIN proofs : NoneIsFinal(End(proofs[i]), now)

(* What a running call has read: the proofs above next, then all of them.   *)
ScanInv ==
    /\ call.phase \in {"scan", "reading", "answered"} =>
         /\ call.reader
         /\ \A i \in DOMAIN proofs : i > call.next => NoneAt(i, call.asked)
    /\ call.phase \in {"report", "decide", "settle"} /\ call.reader =>
         \A i \in DOMAIN proofs : NoneAt(i, call.asked)

ReadInv ==
    /\ call.phase \in {"reading", "answered"} =>
         /\ call.next # 0
         /\ call.asked <= call.readAt
         /\ call.readAt <= now
    /\ call.phase = "answered" =>
         IF call.shows THEN receipt = call.next ELSE NoneAt(call.next, call.readAt)

CallInv ==
    call.phase # "idle" =>
        /\ call.asked <= now
        /\ call.next <= Len(proofs)
        /\ Len(call.known) = Len(proofs)
        /\ \A i \in DOMAIN proofs : End(proofs[i]) <= call.known[i]
        /\ call.phase = "settle" => call.reader /\ AllFinal(call.known, call.asked)

SettlementInv ==
    TypeOK /\ ProofsInTime /\ FinalsInv /\ OutcomeInv /\ ScanInv /\ ReadInv /\ CallInv
=============================================================================
