---------------------------- MODULE EventDelivery ----------------------------
(***************************************************************************)
(* The event core (internal/store/events.go, writeWakes in actions.go):     *)
(* sources journal an event and queue its delivery in their own             *)
(* transaction; the event loop of aicrewd (internal/server/events.go) runs  *)
(* the handler of every queue that is due and writes the messages the       *)
(* handlers ask for, in the transaction that records the run.               *)
(*                                                                         *)
(* One team; a queue is a subject.  The clock is not modelled: a queue with *)
(* pending events is due when its events have been quiet or its oldest has  *)
(* waited long enough, so it may be due whenever it has one and is due in   *)
(* the end.  A handler that fails is one whose subject is in "broken": a    *)
(* payload or a state it does not take, put right later or by a release.    *)
(***************************************************************************)
EXTENDS Naturals, Sequences, FiniteSets, Functions, SequencesExt

CONSTANTS
    Agents,     \* the agents that may be members of the team
    Subjects,   \* what events are about, one queue each
    MaxMoves    \* bound: moves of the world around the loop, of any kind

ASSUME MovesAssumption == MaxMoves \in Nat

maxHandlerFailures == 3

VARIABLES
    role,       \* each member's role, "worker" or "coordinator"
    journal,    \* the journaled events, in order
    delivery,   \* each one's delivery: its state, and the version that parked it
    failures,   \* per subject, the failed runs in a row
    log,        \* the messages written to the team's inbox
    broken,     \* the subjects whose handler fails now
    version,    \* the subscriptions' version
    loop,       \* the event loop between two transactions
    moves       \* the world's moves so far

deliveryVars == <<role, journal, delivery, failures, log, broken, version, loop, moves>>

Coordinators == {a \in Agents : role[a] = "coordinator"}

(* The loop holds the events of the queues left to run on their own after a  *)
(* batch failed, and those a failed run read, its failure not recorded yet.  *)
Idle == [alone |-> {}, failed |-> {}]

DeliveryInit ==
    /\ role \in [Agents -> {"worker", "coordinator"}]
    /\ Cardinality(Coordinators) = 1
    /\ journal = <<>>
    /\ delivery = <<>>
    /\ failures = [s \in Subjects |-> 0]
    /\ log = <<>>
    /\ broken = {}
    /\ version = 1
    /\ loop = Idle
    /\ moves = 0

(* A move of the world around the loop, counted. *)
Move == moves < MaxMoves /\ moves' = moves + 1

-----------------------------------------------------------------------------
(* Journaling, in the source's transaction *)

Queued  == [state |-> "pending", by |-> 0]
Unqueued == [state |-> "none", by |-> 0]

(* The elements of s that are in T, in order: SelectSeq by the rank of each  *)
(* place kept, which is a definition that can be reasoned about.             *)
Only(s, T) ==
    LET at     == {n \in DOMAIN s : s[n] \in T}
        nth(k) == CHOOSE n \in at : Cardinality({m \in at : m <= n}) = k
    IN  [k \in 1 .. Cardinality(at) |-> s[nth(k)]]

(* journal: each event not in the journal yet is written, with a delivery    *)
(* when it is among the ones a subscription's conditions match for a role.   *)
New(events) == Only(events, Range(events) \ Range(journal))

JournalEvents(events, matched) ==
    LET new == New(events)
    IN  /\ journal' = journal \o new
        /\ delivery' = delivery \o
              [n \in DOMAIN new |-> IF new[n] \in matched THEN Queued ELSE Unqueued]

-----------------------------------------------------------------------------
(* Messages *)

Message(to) == [to |-> to, events |-> {}, ready |-> {}, parked |-> {}]

(* writeWakes: the outputs for the same recipients become one message; an    *)
(* output for nobody is dropped.                                             *)
Wakes(outs) ==
    LET groups == {o.to : o \in outs} \ {{}}
        merged(to) == [Message(to) EXCEPT !.events = UNION {o.events : o \in {x \in outs : x.to = to}}]
    IN  SetToSeq({merged(to) : to \in groups})

-----------------------------------------------------------------------------
(* The loop *)

PendingEvents(s) ==
    {i \in DOMAIN journal : journal[i].subject = s /\ delivery[i].state = "pending"}

(* Mutant: only the newest event of a run is marked. *)
MarkNewest(events, state) ==
    [i \in DOMAIN delivery |->
        IF i \in events /\ \A j \in events : j <= i THEN [state |-> state, by |-> version]
        ELSE delivery[i]]

(* markDeliveries: the run's events get its outcome.                         *)
Mark(events, state) ==
    [i \in DOMAIN delivery |-> IF i \in events THEN [state |-> state, by |-> version] ELSE delivery[i]]

(* DeliverEvents: what another version of the subscriptions parked is        *)
(* replayed first.                                                           *)
ReplayParked ==
    LET stale == {i \in DOMAIN delivery : delivery[i].state = "parked" /\ delivery[i].by # version}
    IN  /\ loop = Idle
        /\ stale # {}
        /\ delivery' = [i \in DOMAIN delivery |-> IF i \in stale THEN Queued ELSE delivery[i]]
        /\ UNCHANGED <<role, journal, failures, log, broken, version, loop, moves>>

(* The queues due are handled and recorded together; outs are the outputs of *)
(* each subject's handler on its pending events.                             *)
Handled(due, outs) ==
    LET evs == UNION {PendingEvents(s) : s \in due}
    IN  /\ log' = log \o Wakes(UNION {outs[s] : s \in due})
        /\ delivery' = Mark(evs, "handled")
        /\ failures' = [s \in Subjects |-> IF s \in due THEN 0 ELSE failures[s]]

(* runTeam: the due queues in one transaction.  When a handler fails nothing *)
(* of the batch is kept, and each queue runs again on its own.               *)
RunTeam(due, outs) ==
    /\ loop = Idle
    /\ UNCHANGED <<role, journal, broken, version, moves>>
    /\ due # {}
    /\ \A s \in due : PendingEvents(s) # {}
    /\ \/ /\ due \cap broken = {}
          /\ Handled(due, outs)
          /\ UNCHANGED loop
       \/ /\ due \cap broken # {}
          /\ loop' = [Idle EXCEPT !.alone = UNION {PendingEvents(s) : s \in due}]
          /\ UNCHANGED <<log, delivery, failures>>

(* runQueue: one queue in a transaction of its own, if it is still due: an   *)
(* event that arrived since may have ended its quiet.                        *)
RunQueue(s, outs) ==
    LET rest == {i \in loop.alone : journal[i].subject # s}
    IN  /\ rest # loop.alone
        /\ loop.failed = {}
        /\ UNCHANGED <<role, journal, broken, version, moves>>
        /\ \/ /\ s \notin broken
              /\ Handled({s}, outs)
              /\ loop' = [loop EXCEPT !.alone = rest]
           \/ /\ s \in broken
              /\ loop' = [alone |-> rest, failed |-> PendingEvents(s)]
              /\ UNCHANGED <<log, delivery, failures>>
           \/ /\ PendingEvents(s) # loop.alone \ rest
              /\ loop' = [loop EXCEPT !.alone = rest]
              /\ UNCHANGED <<log, delivery, failures>>

(* Mutant: a failed run is rolled back with its record. *)
FailRunForgotten ==
    /\ loop.failed # {}
    /\ loop' = [loop EXCEPT !.failed = {}]
    /\ UNCHANGED <<role, journal, delivery, failures, log, broken, version, moves>>

(* failRun, in a transaction of its own: the third failure in a row parks    *)
(* the events the run read and tells the coordinators; one that arrived      *)
(* since stays pending and starts the count again.                           *)
FailRun ==
    LET evs == loop.failed
        s   == journal[CHOOSE i \in evs : TRUE].subject
    IN  /\ evs # {}
        /\ UNCHANGED <<role, journal, broken, version, moves>>
        /\ \/ /\ failures[s] + 1 < maxHandlerFailures
              /\ failures' = [failures EXCEPT ![s] = @ + 1]
              /\ UNCHANGED <<delivery, log>>
           \/ /\ failures[s] + 1 >= maxHandlerFailures
              /\ failures' = [failures EXCEPT ![s] = 0]
              /\ delivery' = Mark(evs, "parked")
              /\ log' = IF Coordinators = {} THEN log
                        ELSE Append(log, [Message(Coordinators) EXCEPT !.parked = evs])
        /\ loop' = [loop EXCEPT !.failed = {}]

-----------------------------------------------------------------------------
(* The world around the loop *)

(* aicrewd stops between two transactions, and starts again. *)
CrashLoop ==
    /\ Move
    /\ loop # Idle
    /\ loop' = Idle
    /\ UNCHANGED <<role, journal, delivery, failures, log, broken, version>>

(* A subject's handler starts to fail, or stops failing. *)
Break(s) ==
    /\ Move
    /\ broken' = IF s \in broken THEN broken \ {s} ELSE broken \cup {s}
    /\ UNCHANGED <<role, journal, delivery, failures, log, version, loop>>

(* A release with other subscriptions: aicrewd starts again under it. *)
Upgrade ==
    /\ Move
    /\ version' = 3 - version
    /\ broken' = {}
    /\ loop' = Idle
    /\ UNCHANGED <<role, journal, delivery, failures, log>>

DeliveryNext(outs) ==
    \/ ReplayParked
    \/ \E due \in SUBSET Subjects : RunTeam(due, outs)
    \/ \E s \in Subjects : RunQueue(s, outs) \/ Break(s)
    \/ FailRun
    \/ CrashLoop
    \/ Upgrade

-----------------------------------------------------------------------------
(* Properties *)

Carried(i) == {n \in DOMAIN log : i \in log[n].events}

Of(s) == {i \in DOMAIN journal : journal[i].subject = s}

Delivery(n, states) == n \in DOMAIN delivery /\ delivery[n].state \in states

(* Every delivery is handled or parked in the end: a crash, a batch that     *)
(* failed or a queue whose events keep arriving leaves none behind           *)
(* (DeliverEvents, runTeam, runQueue, failRun).                              *)
AllDelivered ==
    \A n \in 1..MaxMoves : Delivery(n, {"pending"}) ~> Delivery(n, {"handled", "parked"})

-----------------------------------------------------------------------------
(* What the proofs rest on *)

DeliveryTypeOK(Event, Things) ==
    /\ role \in [Agents -> {"worker", "coordinator"}]
    /\ journal \in Seq(Event)
    /\ delivery \in Seq([state : {"none", "pending", "handled", "parked"}, by : 0..2])
    /\ Len(delivery) = Len(journal)
    /\ failures \in [Subjects -> 0 .. maxHandlerFailures - 1]
    /\ log \in Seq([to : SUBSET Agents, events : SUBSET Nat, ready : SUBSET Things, parked : SUBSET Nat])
    /\ broken \subseteq Subjects
    /\ version \in 1..2
    /\ loop \in [alone : SUBSET Nat, failed : SUBSET Nat]
    /\ moves \in 0..MaxMoves

(* The failed run that is not recorded yet read events that still wait.      *)
LoopInv == \A i \in loop.failed : i \in DOMAIN delivery /\ delivery[i].state = "pending"
=============================================================================
