-------------------------- MODULE UpdateSettlement --------------------------
(***************************************************************************)
(* The holder's work updates, which carry no proof (internal/store         *)
(* updates.go, work.go).                                                   *)
(*                                                                         *)
(* An update names the hold's fence and the task's revision as aicrew last *)
(* confirmed them, and aimem commits it only against those.  Nothing can   *)
(* void it: the request may reach aimem at any time, or never.  aicrew     *)
(* settles it by its receipts, or as not committed once it has seen the    *)
(* hold move past the request and read no receipt after that.  The holder  *)
(* may supersede a stuck update: the same one under a new key.             *)
(* Others may edit the task meanwhile, and aimem's recovery may close the  *)
(* reservation.                                                            *)
(***************************************************************************)
EXTENDS Integers, Sequences

CONSTANTS MaxSupersededKeys,  \* updates.go: keys one step may supersede
          MaxSteps,           \* bound: update steps of the attempt
          MaxEdits,           \* bound: the task's revision
          MaxCuts             \* bound: settle calls cut off half way

ASSUME LimitsAssumption ==
    /\ MaxSupersededKeys \in Nat
    /\ MaxSteps \in Nat \ {0}
    /\ MaxEdits \in Nat
    /\ MaxCuts \in Nat

VARIABLES hold,       \* aimem: the reservation, its fence and the task's revision
          committed,  \* aimem: the keys it has committed
          attempt,    \* whether it is open, the fence and revision it confirmed
          requests,   \* the keys issued: their step and what they expect
          pending,    \* the pending step, or 0
          recorded,   \* per key: the recorded outcome of its step
          finals,     \* keys whose "none" is recorded as final (scan_finals)
          call,       \* the settle call that holds the attempt's lock
          cuts        \* how many calls have been cut off

aimemVars == <<hold, committed>>
vars == <<hold, committed, attempt, requests, pending, recorded, finals, call, cuts>>

-----------------------------------------------------------------------------
Keys == DOMAIN requests

KeysOf(step) == {k \in Keys : requests[k].step = step}

Outcomes == {"pending", "committed", "not_committed"}

Request == [step : Nat, fence : Nat, rev : Nat]

Call == [phase : {"idle", "hold", "scan", "answered", "settle"},
         overtaken : BOOLEAN, left : Seq(Nat), shows : BOOLEAN]

NoCall == [phase |-> "idle", overtaken |-> FALSE, left |-> <<>>, shows |-> FALSE]

UpdateTypeOK ==
    /\ hold \in [state : {"held", "closed"}, fence : Nat, rev : Nat]
    /\ committed \subseteq Keys
    /\ attempt \in [open : BOOLEAN, fence : Nat, rev : Nat]
    /\ requests \in Seq(Request)
    /\ pending \in {0} \cup {requests[k].step : k \in Keys}
    /\ recorded \in [Keys -> Outcomes]
    /\ finals \subseteq Keys
    /\ call \in Call
    /\ cuts \in 0..MaxCuts

-----------------------------------------------------------------------------
(* The attempt as the worker's accepted transfer leaves it. *)
Init ==
    /\ hold = [state |-> "held", fence |-> 1, rev |-> 1]
    /\ committed = {}
    /\ attempt = [open |-> TRUE, fence |-> 1, rev |-> 1]
    /\ requests = <<>>
    /\ pending = 0
    /\ recorded = <<>>
    /\ finals = {}
    /\ call = NoCall
    /\ cuts = 0

-----------------------------------------------------------------------------
(* The holder *)

(* The next key, for the step: it expects what aicrew has confirmed. *)
Issue(step) ==
    /\ requests' = Append(requests, [step |-> step, fence |-> attempt.fence, rev |-> attempt.rev])
    /\ recorded' = Append(recorded, "pending")
    /\ pending' = step
    /\ UNCHANGED <<aimemVars, attempt, finals, call, cuts>>

Steps == IF requests = <<>> THEN 0 ELSE requests[Len(requests)].step

BeginUpdate ==
    /\ call.phase = "idle"
    /\ attempt.open
    /\ pending = 0
    /\ Steps < MaxSteps
    /\ Issue(Steps + 1)

(* Mutant: the new key expects the revision the task has now. *)
SupersedeUpdateRefreshed ==
    /\ call.phase = "idle"
    /\ pending # 0
    /\ Len(SelectSeq(requests, LAMBDA r : r.step = pending)) <= MaxSupersededKeys
    /\ requests' = Append(requests, [step |-> pending, fence |-> hold.fence, rev |-> hold.rev])
    /\ recorded' = Append(recorded, "pending")
    /\ UNCHANGED <<aimemVars, attempt, pending, finals, call, cuts>>

(* The pending step gets a new key and keeps the earlier ones as aliases.   *)
SupersedeUpdate ==
    /\ call.phase = "idle"
    /\ pending # 0
    /\ Len(SelectSeq(requests, LAMBDA r : r.step = pending)) <= MaxSupersededKeys
    /\ Issue(pending)

-----------------------------------------------------------------------------
(* aimem (external) *)

(* A request reaches aimem, perhaps long after it was sent: it commits if   *)
(* the hold and the task are still as the request expects.                  *)
Commits(k) ==
    /\ k \notin committed
    /\ hold.state = "held"
    /\ hold.fence = requests[k].fence
    /\ hold.rev = requests[k].rev
    /\ hold' = [hold EXCEPT !.fence = @ + 1, !.rev = @ + 1]
    /\ committed' = committed \cup {k}
    /\ UNCHANGED <<attempt, requests, pending, recorded, finals, call, cuts>>

(* Someone else edits the task: its revision moves, the fence does not.     *)
TaskEdited ==
    /\ hold.state = "held"
    /\ hold.rev < MaxEdits
    /\ hold' = [hold EXCEPT !.rev = @ + 1]
    /\ UNCHANGED <<committed, attempt, requests, pending, recorded, finals, call, cuts>>

(* An operator's recovery closes the reservation in aimem. *)
Recovered ==
    /\ hold.state = "held"
    /\ hold' = [state |-> "closed", fence |-> hold.fence + 1, rev |-> hold.rev + 1]
    /\ UNCHANGED <<committed, attempt, requests, pending, recorded, finals, call, cuts>>

-----------------------------------------------------------------------------
(* settleUpdate, one action per call or transaction it makes *)

(* updateOvertaken: the hold is past what the pending request expects.      *)
Overtaken(h) ==
    \/ h.fence > attempt.fence
    \/ h.state = "held" /\ h.rev > attempt.rev

BeginSettle ==
    /\ call.phase = "idle"
    /\ pending # 0
    /\ call' = [NoCall EXCEPT !.phase = "hold"]
    /\ UNCHANGED <<aimemVars, attempt, requests, pending, recorded, finals, cuts>>

(* stepKeys: the step's own key, then the ones it superseded, oldest first. *)
StepKeys ==
    LET last == Len(requests)
        first == CHOOSE k \in KeysOf(pending) : \A j \in KeysOf(pending) : k <= j
    IN  <<last>> \o [i \in 1..(last - first) |-> first + i - 1]

(* Mutant: a moved revision alone is no evidence. *)
ReadHoldByFence ==
    /\ call.phase = "hold"
    /\ call' = [call EXCEPT !.phase = "scan", !.overtaken = hold.fence > attempt.fence,
                            !.left = StepKeys]
    /\ UNCHANGED <<aimemVars, attempt, requests, pending, recorded, finals, cuts>>

(* Mutant: a closed reservation is no evidence. *)
ReadHoldIfHeld ==
    /\ call.phase = "hold"
    /\ call' = [call EXCEPT !.phase = "scan", !.left = StepKeys,
                            !.overtaken = hold.state = "held" /\ Overtaken(hold)]
    /\ UNCHANGED <<aimemVars, attempt, requests, pending, recorded, finals, cuts>>

(* The hold is read first. *)
ReadHold ==
    /\ call.phase = "hold"
    /\ call' = [call EXCEPT !.phase = "scan", !.overtaken = Overtaken(hold),
                            !.left = StepKeys]
    /\ UNCHANGED <<aimemVars, attempt, requests, pending, recorded, finals, cuts>>

SkipFinal ==
    /\ call.phase = "scan"
    /\ call.left # <<>>
    /\ Head(call.left) \in finals
    /\ call' = [call EXCEPT !.left = Tail(@)]
    /\ UNCHANGED <<aimemVars, attempt, requests, pending, recorded, finals, cuts>>

ReadReceipt ==
    /\ call.phase = "scan"
    /\ call.left # <<>>
    /\ Head(call.left) \notin finals
    /\ call' = [call EXCEPT !.phase = "answered", !.shows = (Head(call.left) \in committed)]
    /\ UNCHANGED <<aimemVars, attempt, requests, pending, recorded, finals, cuts>>

(* recordStep: the step's outcome is recorded under each of its keys. *)
Record(outcome) ==
    /\ recorded' = [k \in Keys |-> IF requests[k].step = pending THEN outcome ELSE recorded[k]]
    /\ pending' = 0
    /\ call' = NoCall

(* A receipt settles the step; it carries the fence and revision it made.   *)
SettleCommitted ==
    /\ call.phase = "answered"
    /\ call.shows
    /\ Record("committed")
    /\ attempt' = [attempt EXCEPT !.fence = requests[Head(call.left)].fence + 1,
                                  !.rev = requests[Head(call.left)].rev + 1]
    /\ UNCHANGED <<aimemVars, requests, finals, cuts>>

(* Read after the hold was seen past the request, a "none" is final. *)
RecordNone ==
    /\ call.phase = "answered"
    /\ ~call.shows
    /\ finals' = IF call.overtaken THEN finals \cup {Head(call.left)} ELSE finals
    /\ call' = [call EXCEPT !.phase = "scan", !.left = Tail(@)]
    /\ UNCHANGED <<aimemVars, attempt, requests, pending, recorded, cuts>>

(* Mutant: judged by the hold after the receipts were read. *)
ScanDoneThenHold ==
    /\ call.phase = "scan"
    /\ call.left = <<>>
    /\ call' = IF Overtaken(hold) THEN [call EXCEPT !.phase = "settle"] ELSE NoCall
    /\ UNCHANGED <<aimemVars, attempt, requests, pending, recorded, finals, cuts>>

(* No key has a receipt: unless the hold was past the request before they   *)
(* were read, the step stays pending.                                       *)
ScanDone ==
    /\ call.phase = "scan"
    /\ call.left = <<>>
    /\ call' = IF call.overtaken THEN [call EXCEPT !.phase = "settle"] ELSE NoCall
    /\ UNCHANGED <<aimemVars, attempt, requests, pending, recorded, finals, cuts>>

(* The attempt keeps the fence and the revision it had. *)
SettleNotCommitted ==
    /\ call.phase = "settle"
    /\ Record("not_committed")
    /\ UNCHANGED <<aimemVars, attempt, requests, finals, cuts>>

(* The call ends early: the process dies, a read or the token's guard fails. *)
CallCut ==
    /\ call.phase # "idle"
    /\ cuts < MaxCuts
    /\ call' = NoCall
    /\ cuts' = cuts + 1
    /\ UNCHANGED <<aimemVars, attempt, requests, pending, recorded, finals>>

-----------------------------------------------------------------------------
(* The reconciler closes an attempt whose reservation aimem closed, once no *)
(* step is pending.                                                         *)
CloseRecovered ==
    /\ call.phase = "idle"
    /\ attempt.open
    /\ pending = 0
    /\ hold.state = "closed"
    /\ hold.fence > attempt.fence
    /\ attempt' = [attempt EXCEPT !.open = FALSE, !.fence = hold.fence]
    /\ UNCHANGED <<aimemVars, requests, pending, recorded, finals, call, cuts>>

CallSteps == ReadHold \/ SkipFinal \/ ReadReceipt \/ SettleCommitted \/ RecordNone
             \/ ScanDone \/ SettleNotCommitted

Next ==
    \/ BeginUpdate
    \/ SupersedeUpdate
    \/ \E k \in Keys : Commits(k)
    \/ TaskEdited
    \/ Recovered
    \/ BeginSettle
    \/ CallSteps
    \/ CallCut
    \/ CloseRecovered

Spec == Init /\ [][Next]_vars

(* A call that runs ends, and the reconciler's rounds come back to what is  *)
(* pending or closed.                                                       *)
Fairness == WF_vars(CallSteps) /\ SF_vars(BeginSettle) /\ SF_vars(CloseRecovered)

FairSpec == Spec /\ Fairness

-----------------------------------------------------------------------------
(* Properties *)

(* However often an update is superseded, it happens once: at most one of   *)
(* its keys ever commits (updates.go, D-b1b-4).                             *)
OneKeyCommits ==
    \A j, k \in committed : requests[j].step = requests[k].step => j = k

(* What is recorded of a step under any of its keys is the truth of all of  *)
(* them, and stays it: a late request under a superseded key cannot commit  *)
(* an update recorded as not committed (settleUpdate).                      *)
RecordIsTrue ==
    \A k \in Keys :
        /\ recorded[k] = "committed" => KeysOf(requests[k].step) \cap committed # {}
        /\ recorded[k] = "not_committed" => KeysOf(requests[k].step) \cap committed = {}

(* A key recorded as final is never read again, so it must never commit.    *)
FinalNoneIsFinal == finals \cap committed = {}

(* While aimem holds the reservation and nothing is pending, aicrew knows   *)
(* the hold's fence, so no committed update was lost and the next request   *)
(* is not refused for its fence; it never believes in a fence that aimem    *)
(* has not reached.                                                         *)
FenceIsKnown ==
    /\ attempt.fence <= hold.fence
    /\ hold.state = "held" /\ pending = 0 => attempt.fence = hold.fence

(* An attempt is closed as recovered only when every one of its steps has   *)
(* its outcome (closesRecovered).                                           *)
ClosedIsSettled ==
    ~attempt.open => \A k \in Keys : recorded[k] # "pending"

(* The keys are issued step by step; those of one step expect the same and  *)
(* are recorded alike, and the pending step is the last one, expecting what *)
(* aicrew has confirmed (Issue, recordStep).                                *)
KeysInv ==
    /\ \A j, k \in Keys : j <= k => requests[j].step <= requests[k].step
    /\ \A j, k \in Keys : requests[j].step = requests[k].step =>
           /\ requests[j].fence = requests[k].fence
           /\ requests[j].rev = requests[k].rev
           /\ recorded[j] = recorded[k]
    /\ \A k \in Keys : requests[k].step # 0
    /\ \A k \in Keys : recorded[k] = "pending" <=> requests[k].step = pending
    /\ \A k \in KeysOf(pending) :
           requests[k].fence = attempt.fence /\ requests[k].rev = attempt.rev
    /\ pending # 0 =>
           /\ Len(requests) \in KeysOf(pending)
           /\ \E first \in KeysOf(pending) : \A k \in KeysOf(pending) : first <= k

(* The hold or the task has moved past what the key expects. *)
Spent(k) == hold.fence > requests[k].fence \/ hold.rev > requests[k].rev

(* A key that committed, is final or has its outcome can commit no more,    *)
(* and the hold's fence has moved by the pending step's commit alone.       *)
SpentInv ==
    /\ \A k \in committed : hold.fence > requests[k].fence
    /\ \A k \in Keys : k \in finals \/ recorded[k] # "pending" => Spent(k)
    /\ hold.state = "held" =>
           hold.fence = attempt.fence + (IF KeysOf(pending) \cap committed = {} THEN 0 ELSE 1)

(* What a settle call knows: the keys left to read are the pending step's,  *)
(* and once the hold was seen past the request, no key it has read commits. *)
CallInv ==
    /\ call.phase # "idle" => pending # 0
    /\ call.phase \in {"scan", "answered", "settle"} =>
           /\ \A i \in DOMAIN call.left : call.left[i] \in KeysOf(pending)
           /\ call.overtaken =>
                  \A k \in KeysOf(pending) :
                      /\ Spent(k)
                      /\ k \in committed => \E i \in DOMAIN call.left : call.left[i] = k
    /\ call.phase = "answered" =>
           /\ call.left # <<>>
           /\ call.shows => Head(call.left) \in committed
           /\ ~call.shows /\ call.overtaken => Head(call.left) \notin committed
    /\ call.phase = "settle" => call.overtaken /\ call.left = <<>>

(* What settling rests on and leaves: one key commits, the records are      *)
(* true, a key recorded as final is spent, the fence is known and a closed  *)
(* attempt is settled (settleUpdate, closesRecovered).                      *)
UpdateInv ==
    /\ UpdateTypeOK /\ OneKeyCommits /\ RecordIsTrue
    /\ FinalNoneIsFinal /\ FenceIsKnown /\ ClosedIsSettled
    /\ KeysInv /\ SpentInv /\ CallInv

(* Once the hold has moved past a pending update, its outcome is recorded   *)
(* in the end, cut-off calls notwithstanding.                               *)
OvertakenIsSettled == pending # 0 /\ Overtaken(hold) ~> pending = 0

(* A closed reservation closes its attempt, the pending step included.      *)
RecoveryFreesTheWorker == hold.state = "closed" ~> ~attempt.open

(* Each step keeps the promise of a coordinated step. *)
CommittedStep(step) == KeysOf(step) \cap committed # {}

OutcomeOf(step) ==
    IF KeysOf(step) = {} THEN "pending"
    ELSE recorded[CHOOSE k \in KeysOf(step) : TRUE]

Promise(step) ==
    INSTANCE StepOutcome WITH
        outcome <- OutcomeOf(step), committed <- CommittedStep(step)

(* Every step is settled as StepOutcome promises: the conjunction of        *)
(* Promise(step)!Spec over the steps, with one subscript for all of them.   *)
ImplementsPromise ==
    /\ \A step \in 1..MaxSteps : Promise(step)!Init
    /\ [][\A step \in 1..MaxSteps : Promise(step)!Next
             \/ UNCHANGED <<OutcomeOf(step), CommittedStep(step)>>]_vars

(* What work.go:34-35 says of a revision conflict: "the attempt then         *)
(* reconciles and refreshes its revision before a new request".  While the   *)
(* reservation is held, an update is settled as not committed only because   *)
(* the task's revision moved: no new one expects that revision again.        *)
RefreshedBeforeNewRequest ==
    hold.state = "held" =>
        \A j, k \in Keys :
            /\ recorded[j] = "not_committed"
            /\ requests[j].step < requests[k].step
            => requests[j].rev # requests[k].rev
=============================================================================
