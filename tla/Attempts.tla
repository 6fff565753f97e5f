------------------------------ MODULE Attempts ------------------------------
(***************************************************************************)
(* Work attempts (internal/store attempts.go, claim.go, work.go, stop.go,  *)
(* confirm.go, reconcile.go; fact rules of coordination.go).               *)
(*                                                                         *)
(* An attempt is one agent's execution of one task: offered by a team's    *)
(* coordinator and accepted, or claimed by an independent member.  Its     *)
(* reservation is aimem's.  Each change of it is a step: an intent that is *)
(* recorded here, a mutation the acting member sends to aimem, which asks  *)
(* whether the step's fact still holds and may commit later, and a settle  *)
(* that records what happened.  Reviews, declines, stops and deliveries    *)
(* are local.  Sessions, roles and links change meanwhile (TeamSessions).  *)
(*                                                                         *)
(* Of the settling, only what StepSettlement and UpdateSettlement are      *)
(* shown to implement is used: the outcome recorded is the truth, and no   *)
(* step commits once it is recorded (StepOutcome).                         *)
(***************************************************************************)
EXTENDS TeamSessions, Sequences

CONSTANTS Tasks,
          NoMember,     \* no coordinator, no reviewer
          MaxAttempts,  \* bound: attempts recorded
          MaxResults    \* bound: results of one attempt

ASSUME AttemptsAssumption ==
    /\ NoMember \notin Teams \X Agents
    /\ MaxAttempts \in Nat
    /\ MaxResults \in Nat

VARIABLES attempts,    \* the attempts, in the order they were recorded
          reservation  \* aimem: per attempt, the reservation made for it

workVars == <<attempts, reservation>>
vars == <<membership, session, coordGen, cred, attempts, reservation>>

-----------------------------------------------------------------------------
States == {"offering", "offered", "accepting", "claiming", "running", "releasing", "closed"}

WorkPhases == {"none", "working", "blocked", "submitted", "rework", "accepted", "finalized"}

StoppablePhases == {"working", "blocked", "submitted", "rework", "accepted"}

Operations == {"claim", "transfer", "release", "update", "finalize"}

(* A session at a generation: of whom, which one, since when. *)
SessionAt == [member : Members \cup {NoMember}, ordinal : Nat, gen : Nat]

Nobody == [member |-> NoMember, ordinal |-> 0, gen |-> 0]

(* The pending step: its operation, the phase it leads to, the state it     *)
(* began in, the session its newest proof names, whether aimem was told of  *)
(* any of its proofs that the fact holds, and whether aimem committed it.   *)
Step == [op : Operations \cup {"none"}, to : WorkPhases, from : States,
         actor : SessionAt, granted : BOOLEAN, committed : BOOLEAN]

NoStep == [op |-> "none", to |-> "none", from |-> "closed", actor |-> Nobody,
           granted |-> FALSE, committed |-> FALSE]

(* The worker session an offer is bound to: active when it was made, at its *)
(* generation, or (gen 0) the next one the worker starts.                   *)
Attempt == [task : Tasks, worker : Members, origin : {"offer", "claim"},
            coordinator : SessionAt, term : Nat, bound : [ordinal : Nat, gen : Nat],
            state : States, phase : WorkPhases, stop : {"none", "requested", "confirmed"},
            declined : BOOLEAN, results : Nat, accepted : Nat, reviewer : SessionAt,
            delivered : Nat, reason : {"none", "claim", "declined", "withdrawn", "stopped",
                                       "finalized", "recovered"},
            step : Step]

Reservations == {"none", "offer", "work", "released", "finalized", "recovered"}

WorkTypeOK ==
    /\ TypeOK
    /\ attempts \in Seq(Attempt)
    /\ reservation \in [DOMAIN attempts -> Reservations]

Ids == DOMAIN attempts

Held(i) == reservation[i] \in {"offer", "work"}

Open(i) == attempts[i].state # "closed"

-----------------------------------------------------------------------------
(* Shared checks *)

Now(m) == [member |-> m, ordinal |-> session[m].ordinal, gen |-> session[m].gen]

Coordinates(m) == session[m].active /\ session[m].role = "coordinator"

(* Mutant: an offer does not count before it is worked on. *)
OpenWorkOnceRunning(a, teams) ==
    \E i \in Ids :
        /\ attempts[i].state = "running"
        /\ attempts[i].worker[1] \in teams
        /\ attempts[i].worker[2] = a

(* openWork: an attempt of its own, or an offer of its that nobody works on *)
(* yet, among the attempts of the teams given.                              *)
OpenWork(a, teams) ==
    \E i \in Ids :
        /\ Open(i)
        /\ attempts[i].worker[1] \in teams
        /\ \/ attempts[i].worker[2] = a
           \/ attempts[i].coordinator.member # NoMember
              /\ attempts[i].coordinator.member[2] = a
              /\ attempts[i].state # "running"

TaskFree(task) == \A i \in Ids : attempts[i].task = task => ~Open(i)

IdleRunning(x) == x.state = "running" /\ x.step.op = "none"

Workable(x) == IdleRunning(x) /\ x.stop = "none"

(* startIntent, with the proof its fact gets; an update has none. *)
Begin(x, op, to, state, actor) ==
    [x EXCEPT !.state = state,
              !.step = [op |-> op, to |-> to, from |-> x.state, actor |-> actor,
                        granted |-> FALSE, committed |-> FALSE]]

Change(i, x) ==
    /\ attempts' = [attempts EXCEPT ![i] = x]
    /\ UNCHANGED <<sessionVars, reservation>>

Recorded(x) ==
    /\ attempts' = Append(attempts, x)
    /\ reservation' = Append(reservation, "none")
    /\ UNCHANGED sessionVars

(* What the acceptance of a result leaves when it is cleared. *)
AcceptanceCleared(x) ==
    [x EXCEPT !.accepted = 0, !.reviewer = Nobody, !.delivered = 0]

AcceptanceVoided(x) ==
    [AcceptanceCleared(x) EXCEPT !.phase = IF @ = "accepted" THEN "submitted" ELSE @]

-----------------------------------------------------------------------------
(* Offers and claims *)

(* The coordinator m offers a task to a worker w of its team. *)
OfferTask(m, w, task) ==
    /\ Coordinates(m)
    /\ Len(attempts) < MaxAttempts
    /\ TaskFree(task)
    /\ w # m /\ w[1] = m[1]
    /\ membership[w].role = "worker"
    /\ ~OpenWork(w[2], Teams)
    /\ LET active == session[w].active
       IN  Recorded(
             [task |-> task, worker |-> w, origin |-> "offer", coordinator |-> Now(m),
              term |-> session[m].coordGen,
              bound |-> [ordinal |-> session[w].ordinal,
                         gen |-> IF active THEN session[w].gen ELSE 0],
              state |-> "offering", phase |-> "none", stop |-> "none", declined |-> FALSE,
              results |-> 0, accepted |-> 0, reviewer |-> Nobody, delivered |-> 0,
              reason |-> "none",
              step |-> [NoStep EXCEPT !.op = "claim", !.actor = Now(m)]])

ClaimTask(m, task) ==
    /\ session[m].active
    /\ session[m].role = "independent"
    /\ Len(attempts) < MaxAttempts
    /\ TaskFree(task)
    /\ ~OpenWork(m[2], Teams)
    /\ Recorded(
         [task |-> task, worker |-> m, origin |-> "claim", coordinator |-> Nobody, term |-> 0,
          bound |-> [ordinal |-> session[m].ordinal, gen |-> session[m].gen],
          state |-> "claiming", phase |-> "none", stop |-> "none", declined |-> FALSE,
          results |-> 0, accepted |-> 0, reviewer |-> Nobody, delivered |-> 0,
          reason |-> "none",
          step |-> [NoStep EXCEPT !.op = "claim", !.actor = Now(m)]])

(* acceptable: the offer's expiry may refuse an acceptance at any time, so  *)
(* it is not modelled.                                                      *)
Acceptable(x, s) ==
    /\ x.state = "offered"
    /\ ~x.declined
    /\ coordGen[x.worker[1]] = x.term
    /\ IF x.bound.gen # 0
       THEN s.ordinal = x.bound.ordinal /\ s.gen = x.bound.gen
       ELSE s.ordinal = x.bound.ordinal + 1 /\ s.gen = 1

AcceptOffer(i) ==
    LET x == attempts[i] IN
    /\ session[x.worker].active
    /\ Acceptable(x, session[x.worker])
    /\ Change(i, Begin(x, "transfer", "working", "accepting", Now(x.worker)))

DeclineOffer(i) ==
    LET x == attempts[i] IN
    /\ session[x.worker].active
    /\ x.state = "offered"
    /\ ~x.declined
    /\ Change(i, [x EXCEPT !.declined = TRUE])

(* By the current coordinator, perhaps a successor of the offer's. *)
ReleaseOffer(m, i) ==
    LET x == attempts[i] IN
    /\ Coordinates(m)
    /\ x.worker[1] = m[1]
    /\ x.state = "offered"
    /\ Change(i, Begin(x, "release", "none", "releasing", Now(m)))

-----------------------------------------------------------------------------
(* Work *)

(* Block, resume or submit. *)
WorkIntents == {<<"working", "blocked">>, <<"blocked", "working">>, <<"rework", "working">>,
                <<"working", "submitted">>}

UpdateWork(i, to) ==
    LET x == attempts[i] IN
    /\ session[x.worker].active
    /\ Workable(x)
    /\ <<x.phase, to>> \in WorkIntents
    /\ to = "submitted" => x.results < MaxResults
    /\ Change(i, Begin(x, "update", to, "running", Nobody))

(* Mutant: the worker may review its own result. *)
MayReviewOwn(m, x) == Coordinates(m) /\ m[1] = x.worker[1]

(* The current coordinator, never the worker itself. *)
MayReview(m, x) == Coordinates(m) /\ m[1] = x.worker[1] /\ m # x.worker

AcceptResult(m, i) ==
    LET x == attempts[i] IN
    /\ MayReview(m, x)
    /\ Workable(x)
    /\ x.phase \in {"submitted", "accepted"}
    /\ Change(i, [x EXCEPT !.phase = "accepted", !.accepted = x.results, !.reviewer = Now(m)])

ReturnForRework(m, i) ==
    LET x == attempts[i] IN
    /\ MayReview(m, x)
    /\ Workable(x)
    /\ x.phase \in {"submitted", "accepted"}
    /\ Change(i, [AcceptanceCleared(x) EXCEPT !.phase = "rework"])

ConfirmDelivery(m, i) ==
    LET x == attempts[i] IN
    /\ MayReview(m, x)
    /\ Workable(x)
    /\ x.phase = "accepted"
    /\ Change(i, [x EXCEPT !.delivered = x.accepted])

(* By the holder, or by the session that accepted, at its generation then.  *)
FinalizeWork(m, i) ==
    LET x == attempts[i] IN
    /\ session[m].active
    /\ m[1] = x.worker[1]
    /\ Workable(x)
    /\ x.phase = "accepted"
    /\ m = x.worker \/ (Coordinates(m) /\ Now(m) = x.reviewer)
    /\ x.delivered # 0 /\ x.delivered = x.accepted
    /\ Change(i, Begin(x, "finalize", "finalized", "running", Now(m)))

-----------------------------------------------------------------------------
(* Stops *)

(* By the operator or by the current coordinator, with any step in flight.  *)
(* An acceptance falls, unless a finalize in flight rests on it.            *)
RequestStop(i) ==
    LET x == attempts[i] IN
    /\ Open(i)
    /\ x.stop = "none"
    /\ x.phase \in StoppablePhases
    /\ Change(i, [(IF x.step.op = "finalize" THEN x ELSE AcceptanceVoided(x))
                    EXCEPT !.stop = "requested"])

ConfirmStop(i) ==
    LET x == attempts[i] IN
    /\ session[x.worker].active
    /\ IdleRunning(x)
    /\ x.stop = "requested"
    /\ Change(i, [x EXCEPT !.stop = "confirmed"])

ReleaseStopped(i) ==
    LET x == attempts[i] IN
    /\ session[x.worker].active
    /\ IdleRunning(x)
    /\ x.stop = "confirmed"
    /\ Change(i, Begin(x, "release", "none", "releasing", Now(x.worker)))

-----------------------------------------------------------------------------
(* Proofs of the pending step *)

(* actingMember: the session is still active at the proof's generation, in  *)
(* its member's role, bound to its agent's credential.                      *)
Acting(s) ==
    /\ s.member \in Members
    /\ session[s.member].active
    /\ s.ordinal = session[s.member].ordinal
    /\ s.gen = session[s.member].gen
    /\ membership[s.member].role = session[s.member].role
    /\ cred[s.member[2]] = session[s.member].cred

(* fill: the rule of the step's fact, for an acting session s. *)
FactHolds(x, s) ==
    LET role == session[s.member].role
        holder == s.member[2] = x.worker[2]
        current == coordGen[x.worker[1]] = x.term
    IN  CASE x.step.op = "claim" /\ x.origin = "offer" ->
               /\ role = "coordinator"
               /\ s.member = x.coordinator.member /\ s.ordinal = x.coordinator.ordinal
               /\ current
               /\ cred[x.worker[2]] # NoCred
          [] x.step.op = "claim" /\ x.origin = "claim" ->
               /\ role = "independent"
               /\ holder
               /\ s.ordinal = x.bound.ordinal /\ s.gen = x.bound.gen
          [] x.step.op = "transfer" -> role = "worker" /\ holder /\ current
          [] x.step.op = "release" /\ x.step.from = "offered" ->
               x.stop = "none" /\ role = "coordinator"
          [] x.step.op = "release" /\ x.step.from = "running" ->
               x.stop = "confirmed" /\ holder /\ role \in {"worker", "independent"}
          [] x.step.op = "finalize" ->
               /\ x.phase = "accepted" /\ x.accepted # 0
               /\ holder \/ (role = "coordinator" /\ s = x.reviewer)

Proved(x) == x.step.op \notin {"none", "update"}

(* A replayed begin: its agent's session, perhaps resumed since, gets a     *)
(* proof at its generation now, if it still acts the step.  A pending       *)
(* claim's own generation moves with it.                                    *)
ReplaceProof(i) ==
    LET x == attempts[i]
        s == Now(x.step.actor.member)
        y == IF x.origin = "claim" /\ x.step.op = "claim" /\ s.ordinal = x.bound.ordinal
             THEN [x EXCEPT !.bound.gen = s.gen] ELSE x
    IN  /\ Proved(x)
        /\ s # x.step.actor
        /\ Acting(s)
        /\ FactHolds(y, s)
        /\ Change(i, [y EXCEPT !.step.actor = s])

(* aimem asks (external) and is told that the fact is active. *)
FactGranted(i) ==
    LET x == attempts[i] IN
    /\ Proved(x)
    /\ ~x.step.granted
    /\ Acting(x.step.actor)
    /\ FactHolds(x, x.step.actor)
    /\ Change(i, [x EXCEPT !.step.granted = TRUE])

-----------------------------------------------------------------------------
(* aimem (external) *)

TaskAvailable(task) ==
    \A i \in Ids : attempts[i].task = task => ~Held(i) /\ reservation[i] # "finalized"

(* The reservation a committed step leaves, if aimem may commit it. *)
Reserved(i) ==
    LET x == attempts[i] IN
    CASE x.step.op = "claim" /\ TaskAvailable(x.task) ->
             IF x.origin = "offer" THEN "offer" ELSE "work"
      [] x.step.op = "transfer" /\ reservation[i] = "offer" -> "work"
      [] x.step.op = "release" /\ Held(i) -> "released"
      [] x.step.op = "update" /\ reservation[i] = "work" -> "work"
      [] x.step.op = "finalize" /\ reservation[i] = "work" -> "finalized"
      [] OTHER -> "none"

(* aimem commits the pending step, perhaps after its fact ceased to hold.   *)
Commits(i) ==
    LET x == attempts[i] IN
    /\ x.step.granted \/ x.step.op = "update"
    /\ ~x.step.committed
    /\ Reserved(i) # "none"
    /\ reservation' = [reservation EXCEPT ![i] = Reserved(i)]
    /\ attempts' = [attempts EXCEPT ![i].step.committed = TRUE]
    /\ UNCHANGED sessionVars

(* An operator's recovery closes the reservation. *)
Recovered(i) ==
    /\ Held(i)
    /\ reservation' = [reservation EXCEPT ![i] = "recovered"]
    /\ UNCHANGED <<sessionVars, attempts>>

-----------------------------------------------------------------------------
(* Settling: applyOutcome *)

Closed(x, reason) == [x EXCEPT !.state = "closed", !.reason = reason, !.step = NoStep]

Settled(x) ==
    CASE x.step.op = "claim" /\ x.origin = "offer" ->
             [x EXCEPT !.state = "offered", !.step = NoStep]
      [] (x.step.op = "claim" /\ x.origin = "claim") \/ x.step.op = "transfer" ->
             [x EXCEPT !.state = "running", !.phase = "working", !.step = NoStep]
      [] x.step.op = "release" ->
             Closed(x, IF x.stop = "confirmed" THEN "stopped"
                       ELSE IF x.declined THEN "declined" ELSE "withdrawn")
      [] x.step.op = "update" ->
             [x EXCEPT !.state = "running", !.phase = x.step.to, !.step = NoStep,
                       !.results = IF x.step.to = "submitted" THEN @ + 1 ELSE @]
      [] x.step.op = "finalize" -> [Closed(x, "finalized") EXCEPT !.phase = "finalized"]

SettleCommitted(i) ==
    /\ attempts[i].step.op # "none"
    /\ attempts[i].step.committed
    /\ Change(i, Settled(attempts[i]))

(* Mutant: the phase is written where the state belongs. *)
BackToPhase(x) == [x EXCEPT !.state = x.phase, !.step = NoStep]

Back(x) == [x EXCEPT !.state = x.step.from, !.step = NoStep]

(* Mutant: the stop as it was when the call began, before any request. *)
SettleNotCommittedStale(i) ==
    LET x == attempts[i] IN
    /\ x.step.op # "none"
    /\ ~x.step.committed
    /\ Change(i, IF x.step.op = "claim" THEN Closed(x, "claim") ELSE Back(x))

(* Mutant: settled as soon as the member reports a refusal. *)
SettleNotCommittedEarly(i) ==
    LET x == attempts[i] IN
    /\ x.step.op # "none"
    /\ Change(i, IF x.step.op = "claim" THEN Closed(x, "claim") ELSE Back(x))

(* The stop is read in the settling transaction: a finalize that failed     *)
(* under a requested stop leaves no acceptance.                             *)
SettleNotCommitted(i) ==
    LET x == attempts[i] IN
    /\ x.step.op # "none"
    /\ ~x.step.committed
    /\ Change(i, IF x.step.op = "claim" THEN Closed(x, "claim")
                 ELSE IF x.step.op = "finalize" /\ x.stop # "none"
                 THEN AcceptanceVoided(Back(x)) ELSE Back(x))

CloseRecovered(i) ==
    /\ attempts[i].state \in {"offered", "running"}
    /\ attempts[i].step.op = "none"
    /\ reservation[i] \notin {"none", "offer", "work"}
    /\ Change(i, Closed(attempts[i], "recovered"))

-----------------------------------------------------------------------------
(* Leave is refused with open work in the team, a rebind with any. *)
SessionSteps ==
    /\ \/ OperatorSteps
       \/ ProofSteps
       \/ \E m \in Members, gen \in 1..MaxGen :
              ~OpenWork(m[2], {m[1]}) /\ LeaveSession(m, gen)
       \/ \E m \in Members, r \in Roles, c \in Creds :
              \/ RedeemToLink(m, r, c)
              \/ RedeemAsLinked(m, r, c)
              \/ ~OpenWork(m[2], Teams) /\ RedeemToRebind(m, r, c)
    /\ WithinBounds'
    /\ UNCHANGED workVars

MemberSteps ==
    \/ \E m \in Members, task \in Tasks :
          ClaimTask(m, task) \/ \E w \in Members : OfferTask(m, w, task)
    \/ \E i \in Ids : AcceptOffer(i) \/ DeclineOffer(i) \/ ConfirmStop(i) \/ ReleaseStopped(i)
    \/ \E i \in Ids, to \in WorkPhases : UpdateWork(i, to)
    \/ \E i \in Ids, m \in Members :
          \/ ReleaseOffer(m, i)
          \/ AcceptResult(m, i)
          \/ ReturnForRework(m, i)
          \/ ConfirmDelivery(m, i)
          \/ FinalizeWork(m, i)

Next ==
    \/ SessionSteps
    \/ MemberSteps
    \/ \E i \in Ids :
          \/ RequestStop(i)
          \/ ReplaceProof(i)
          \/ FactGranted(i)
          \/ Commits(i)
          \/ Recovered(i)
          \/ SettleCommitted(i)
          \/ SettleNotCommitted(i)
          \/ CloseRecovered(i)

Init ==
    /\ SessionsInit
    /\ attempts = <<>>
    /\ reservation = <<>>

Spec == Init /\ [][Next]_vars

-----------------------------------------------------------------------------
(* Properties *)

(* What a closed attempt says of its end is what aimem did, and an attempt  *)
(* with nothing pending has the reservation its state stands for, unless    *)
(* aimem's recovery took it: no reservation is left behind by a claim       *)
(* recorded as failed, a release or a finalize whose reply was lost         *)
(* (applyOutcome, closesRecovered).                                         *)
Agrees(x, r) ==
    /\ x.state = "closed" =>
         \/ x.reason = "claim" /\ r = "none"
         \/ x.reason \in {"declined", "withdrawn", "stopped"} /\ r = "released"
         \/ x.reason = "finalized" /\ r = "finalized"
         \/ x.reason = "recovered" /\ r = "recovered"
    /\ x.step.op = "none" /\ x.state = "offered" => r \in {"offer", "recovered"}
    /\ x.step.op = "none" /\ x.state = "running" => r \in {"work", "recovered"}

AgreesWithAimem == \A i \in Ids : Agrees(attempts[i], reservation[i])

(* aimem finalizes a task as done only with its latest result, accepted by  *)
(* a coordinator other than the worker and delivered; and as nothing may    *)
(* void an acceptance under a finalize in flight, the record of it still    *)
(* says so (finalizeCommand, requestStopCommand).                           *)
Reviewed(x) ==
    /\ x.accepted # 0
    /\ x.accepted = x.results
    /\ x.delivered = x.accepted
    /\ x.reviewer.member \notin {NoMember, x.worker}

DoneIsReviewed == \A i \in Ids : reservation[i] = "finalized" => Reviewed(attempts[i])

(* Under a requested stop no acceptance stands, except one that a finalize  *)
(* in flight rests on, whatever way that finalize ends (stop.go).           *)
NothingAccepted(x) == x.accepted = 0 /\ x.delivered = 0 /\ x.phase # "accepted"

StopVoidsAcceptance ==
    \A i \in Ids :
        attempts[i].stop # "none" /\ Open(i) /\ attempts[i].step.op # "finalize" =>
            NothingAccepted(attempts[i])

(* Once the worker has confirmed the stop its work is over: nothing of it   *)
(* is in flight, and the attempt ends released or recovered, never done.    *)
ConfirmedStopEndsWork ==
    \A i \in Ids :
        LET x == attempts[i] IN
        x.stop = "confirmed" =>
            /\ x.step.op \in {"none", "release"}
            /\ ~Open(i) => x.reason \in {"stopped", "recovered"}

(* A stop holds from its request to its end, whatever is in flight then.    *)
StopHolds == StopVoidsAcceptance /\ ConfirmedStopEndsWork

(* Every agent's work keeps to its execution capacity, across teams, lost   *)
(* replies and recoveries.                                                  *)
SlotOf(a) ==
    LET own == {i \in Ids : Open(i) /\ attempts[i].worker[2] = a}
    IN  IF own = {} THEN 0 ELSE CHOOSE i \in own : TRUE

Capacity ==
    INSTANCE ExecutionCapacity WITH
        Workers <- Agents, slot <- [a \in Agents |-> SlotOf(a)],
        held <- {i \in Ids : Held(i)}, taken <- Len(attempts)

ImplementsCapacity == Capacity!Spec

-----------------------------------------------------------------------------
(* The invariant the proofs rest on: of each attempt with its reservation   *)

(* The state a pending step stands for, the state it began in, and that an  *)
(* attempt nobody works on yet has no phase and no stop.                    *)
StateInv(x) ==
    /\ x.step.op = "none" => x.state \in {"offered", "running", "closed"}
    /\ x.step.op = "claim" => x.state = IF x.origin = "offer" THEN "offering" ELSE "claiming"
    /\ x.step.op = "transfer" => x.state = "accepting" /\ x.step.from = "offered"
    /\ x.step.op = "release" => x.state = "releasing" /\ x.step.from \in {"offered", "running"}
    /\ x.step.op \in {"update", "finalize"} => x.state = "running" /\ x.step.from = "running"
    /\ x.step.op = "update" => /\ x.step.to \in {"working", "blocked", "submitted"}
                               /\ x.phase \in {"working", "blocked", "rework"}
    /\ \/ x.state \in {"offering", "offered", "accepting", "claiming"}
       \/ x.step.op = "release" /\ x.step.from = "offered"
       => x.phase = "none" /\ x.stop = "none"

(* What aimem holds while a step is pending, before and after its commit.   *)
PendingInv(x, r) ==
    LET before == IF x.step.from = "offered" THEN "offer" ELSE "work" IN
    IF x.step.committed
    THEN /\ x.step.op = "claim" =>
              r \in {"recovered", IF x.origin = "offer" THEN "offer" ELSE "work"}
         /\ x.step.op \in {"transfer", "update"} => r \in {"recovered", "work"}
         /\ x.step.op = "release" => r = "released"
         /\ x.step.op = "finalize" => r = "finalized"
    ELSE /\ x.step.op = "claim" => r = "none"
         /\ x.step.op \notin {"none", "claim"} => r \in {"recovered", before}

(* A result under review, and the acceptance a finalize rests on.           *)
ReviewInv(x) ==
    /\ x.phase \in {"submitted", "accepted"} => x.results # 0
    /\ x.phase = "accepted" =>
         /\ x.accepted = x.results
         /\ x.reviewer.member \notin {NoMember, x.worker}
    /\ x.phase \notin {"accepted", "finalized"} => x.accepted = 0 /\ x.delivered = 0
    /\ x.step.op = "finalize" => x.phase = "accepted" /\ x.delivered = x.accepted
    /\ x.state = "closed" /\ x.reason = "finalized" => Reviewed(x)
    /\ x.phase = "finalized" => x.state = "closed"

StopInv(x) ==
    /\ x.stop # "none" /\ x.state # "closed" /\ x.step.op # "finalize" => NothingAccepted(x)
    /\ x.stop = "confirmed" =>
         /\ x.step.op \in {"none", "release"}
         /\ x.state = "closed" => x.reason \in {"stopped", "recovered"}

AttemptInv(x, r) ==
    Agrees(x, r) /\ StateInv(x) /\ PendingInv(x, r) /\ ReviewInv(x) /\ StopInv(x)

(* An agent has one open attempt at most, across teams.                     *)
OneOpenAttempt ==
    \A i, j \in Ids :
        Open(i) /\ Open(j) /\ attempts[i].worker[2] = attempts[j].worker[2] => i = j

(* The inductive invariant: every attempt's record fits its reservation in  *)
(* aimem while steps are begun, cut off, committed, settled, recovered and  *)
(* cut off by a new session (attempts.go, stop.go, settlement.go).          *)
WorkInv ==
    /\ WorkTypeOK
    /\ OneOpenAttempt
    /\ \A i \in Ids : AttemptInv(attempts[i], reservation[i])
=============================================================================
