------------------------------ MODULE TurnLoop ------------------------------
(***************************************************************************)
(* The turn loop of one worker's home (internal/agent: serve.go, turns.go,  *)
(* turncosts.go, holds.go, handoff.go): one headless client turn at a time, *)
(* the state it keeps in state/turns.json, and what aicrewd keeps of it     *)
(* (internal/store: turns.go, holds.go, handoff.go).                        *)
(*                                                                         *)
(* disk is the file, st the loop's copy of it during a tick: the two differ *)
(* between a tick's writes, and a crash leaves the file.  A turn costs one  *)
(* unit.  One attempt is followed, from its acceptance to its end.          *)
(***************************************************************************)
EXTENDS Integers, Sequences, FiniteSets

CONSTANTS
    DailyBudget, AttemptBudget,  \* TurnLimits, in turns
    MaxContinuations,            \* TurnLimits: continuation turns of the attempt
    StallTurns,                  \* stallTurns: turns with no step and no commit
    HandoffStallTurns,           \* handoffStallTurns: with the section unchanged
    MaxUnreported,               \* maxUnreported: reports kept for a resend
    MaxTurns,                    \* bound: turns started
    MaxMoves,                    \* bound: what the team, the operator and the forge do
    MaxFaults                    \* bound: crashes, lost or failed calls

ASSUME LoopAssumption ==
    /\ {DailyBudget, AttemptBudget, StallTurns, HandoffStallTurns, MaxUnreported} \subseteq Nat \ {0}
    /\ {MaxContinuations, MaxTurns, MaxMoves, MaxFaults} \subseteq Nat

VARIABLES
    phase,     \* the attempt on aicrewd: "none" before it, "closed" after it
    unread,    \* the member has unacknowledged messages
    paused,    \* the operator paused the team or the member
    gates,     \* its pull request waits on checks or a review, worktree clean
    hub,       \* the costs aicrewd recorded: their turns, the totals it reads
    hubHold,   \* the hold aicrewd shows
    hubNotes,  \* the handoff pushed for the attempt
    notes,     \* the CURRENT ATTEMPT section in the home
    disk, st,  \* state/turns.json, and the loop's copy of it
    pc, turn,  \* where the loop is, and the turn it is about
    turns, moves, faults,
    lost       \* what stops and failed calls took: costs, what was due, a hold

world == <<phase, unread, paused, gates>>
aicrewd == <<hub, hubHold, hubNotes>>
home == <<notes, disk>>
vars == <<phase, unread, paused, gates, hub, hubHold, hubNotes, notes, disk, st, pc, turn,
          turns, moves, faults, lost>>

(* A figure the state does not have; a section that is not there. *)
Unknown == -1
NoNotes == -1

(* turnState, as a home without the file reads it. *)
FreshState ==
    [running |-> 0, day |-> Unknown, attempt |-> Unknown, backlog |-> <<>>,
     held |-> "no", report |-> "none", pending |-> FALSE, continue |-> FALSE,
     continuations |-> 0, noProgress |-> 0, unchanged |-> 0, stalled |-> FALSE,
     pushed |-> NoNotes]

NoTurn ==
    [id |-> 0, continuation |-> FALSE, open |-> FALSE, doc |-> FALSE,
     progress |-> "none", edited |-> FALSE, cut |-> FALSE, outcome |-> "none", after |-> "none"]

Open(p) == p \in {"working", "blocked", "submitted"}

(* A home just joined, of a member that has no attempt yet or one at work.   *)
Init ==
    /\ phase \in {"none", "working"}
    /\ unread = TRUE /\ paused = FALSE /\ gates = FALSE
    /\ hub = [turns |-> {}, day |-> 0, attempt |-> 0]
    /\ hubHold = "none" /\ hubNotes = NoNotes
    /\ notes = NoNotes
    /\ disk = FreshState /\ st = FreshState
    /\ pc = "idle" /\ turn = NoTurn
    /\ turns = 0 /\ moves = 0 /\ faults = 0
    /\ lost = [costs |-> {}, due |-> FALSE, hold |-> FALSE]

Larger(a, b) == IF a > b THEN a ELSE b

Fault == faults < MaxFaults /\ faults' = faults + 1

(* A call to aicrewd that is not answered, whether it was served or not: the *)
(* loop goes on without, and calls again at a later tick.                    *)
Unanswered ==
    /\ Fault
    /\ turn' = [turn EXCEPT !.cut = TRUE]

-----------------------------------------------------------------------------
(* A tick: is the member due a turn? *)

(* Mutant: an attempt gets one continuation. *)
ContinuationOnce ==
    /\ phase = "working" /\ disk.continue
    /\ ~disk.stalled /\ disk.continuations = 0
    /\ ~gates

(* The second case of Tick: the attempt the last turn left in work, while    *)
(* it is not stalled, has continuations left and waits on no gate.           *)
ContinuationDue ==
    /\ phase = "working" /\ disk.continue
    /\ ~disk.stalled /\ disk.continuations < MaxContinuations
    /\ ~gates

(* Tick up to reportTurns: pending messages first, else a continuation.      *)
Due ==
    /\ pc = "idle"
    /\ st.pending => turn.cut
    /\ disk.held = "no" /\ ~paused
    /\ turns < MaxTurns
    /\ unread \/ ContinuationDue
    /\ turn' = [NoTurn EXCEPT !.id = turns + 1, !.continuation = ~unread, !.open = Open(phase)]
    /\ pc' = "admit"
    /\ UNCHANGED <<world, aicrewd, home, st, turns, moves, faults, lost>>

(* ReportTurnWithToken: a turn recorded before is answered with its record.  *)
RecordCost(r) ==
    IF r.id \in hub.turns THEN hub
    ELSE [turns |-> hub.turns \cup {r.id}, day |-> hub.day + 1,
          attempt |-> hub.attempt + IF r.charged THEN 1 ELSE 0]

(* Mutant: a report is sent once, answered or not. *)
ReportTurnOnce ==
    /\ pc \in {"admit", "ended"}
    /\ st.backlog # <<>>
    /\ st' = [st EXCEPT !.backlog = Tail(@)]
    /\ \/ hub' = RecordCost(Head(st.backlog)) /\ UNCHANGED <<turn, faults>>
       \/ hub' \in {hub, RecordCost(Head(st.backlog))} /\ Unanswered
    /\ UNCHANGED <<world, hubHold, hubNotes, home, pc, turns, moves, lost>>

(* reportTurns, before a turn and after one: the oldest report of the        *)
(* backlog.  With the call failed or its reply lost it stays.                *)
ReportTurn ==
    /\ pc \in {"admit", "ended"}
    /\ st.backlog # <<>>
    /\ \/ /\ hub' = RecordCost(Head(st.backlog))
          /\ st' = [st EXCEPT !.backlog = Tail(@)]
          /\ UNCHANGED <<turn, faults>>
       \/ /\ hub' \in {hub, RecordCost(Head(st.backlog))}
          /\ Unanswered
          /\ UNCHANGED st
    /\ UNCHANGED <<world, hubHold, hubNotes, home, pc, turns, moves, lost>>

(* Mutant: nothing is taken from aicrewd: the home's own figures stand. *)
PullNothing(s) ==
    [s EXCEPT !.day = Larger(@, 0),
              !.attempt = IF turn.open THEN Larger(@, 0) ELSE @]

(* pullTotals: a state that has no figure for the day or for the open        *)
(* attempt takes aicrewd's, keeping the larger of each.                      *)
PullTotals(s) ==
    IF s.day # Unknown /\ (turn.open => s.attempt # Unknown) THEN s
    ELSE [s EXCEPT !.day = Larger(@, hub.day),
                   !.attempt = IF turn.open THEN Larger(@, hub.attempt) ELSE @]

(* Mutant: a hold that changes is not sent again. *)
SetHoldOnce(s, kind) ==
    IF s.report = kind THEN s ELSE [s EXCEPT !.report = kind, !.pending = kind # "none"]

(* setHold: a change is to be sent. *)
SetHold(s, kind) ==
    IF s.report = kind THEN s ELSE [s EXCEPT !.report = kind, !.pending = TRUE]

Overspent(s) ==
    \/ s.day >= DailyBudget
    \/ turn.open /\ s.attempt >= AttemptBudget

(* The rest of Tick up to the turn: the totals, the budgets, and the hold an *)
(* admitted turn ends.  A held member keeps the state written with the hold. *)
Admit ==
    /\ pc = "admit" /\ (st.backlog = <<>> \/ turn.cut)
    /\ LET known == PullTotals(st)
       IN  IF Overspent(known)
           THEN /\ st' = [SetHold(known, "budget") EXCEPT !.held = "budget"]
                /\ disk' = st' /\ pc' = "idle" /\ turn' = NoTurn
           ELSE /\ st' = SetHold(known, "none")
                /\ disk' = IF known = st THEN disk ELSE known
                /\ pc' = "begin" /\ UNCHANGED turn
    /\ UNCHANGED <<world, aicrewd, notes, turns, moves, faults, lost>>

(* The totals were not read: no turn for a minute. *)
TotalsUnread ==
    /\ pc = "admit" /\ (st.backlog = <<>> \/ turn.cut)
    /\ st.day = Unknown \/ (turn.open /\ st.attempt = Unknown)
    /\ Fault
    /\ st' = [st EXCEPT !.held = "own"]
    /\ disk' = st' /\ pc' = "idle" /\ turn' = NoTurn
    /\ UNCHANGED <<world, aicrewd, notes, turns, moves, lost>>

(* syncHold, at every tick, before a turn and after one: aicrewd records the *)
(* hold or clears it (ReportHoldWithToken), and the state is written.        *)
SyncHold ==
    /\ pc \in {"idle", "begin", "closing"}
    /\ st.pending
    /\ \/ /\ hubHold' = st.report
          /\ st' = [st EXCEPT !.pending = FALSE]
          /\ disk' = st' /\ UNCHANGED <<turn, faults>>
       \/ /\ hubHold' \in {hubHold, st.report}
          /\ Unanswered
          /\ UNCHANGED <<st, disk>>
    /\ UNCHANGED <<world, hub, hubNotes, notes, pc, turns, moves, lost>>

-----------------------------------------------------------------------------
(* A turn *)

(* Mutant: a home without a section always opens a new one. *)
OpenedAnew == IF notes # NoNotes THEN notes ELSE 0

(* The section a turn starts from: the home's, the attempt's on aicrewd when *)
(* the home has none, or a new one.                                          *)
Prepared == IF notes # NoNotes THEN notes ELSE Larger(hubNotes, 0)

(* turn, up to the client: the turn is written as running; prepareHandoff    *)
(* readies the section, archives that of an attempt no longer open, and goes *)
(* without when aicrewd cannot be read.                                      *)
Begin ==
    /\ pc = "begin" /\ (st.pending => turn.cut)
    /\ \/ /\ notes' = IF turn.open THEN Prepared ELSE NoNotes
          /\ turn' = [turn EXCEPT !.doc = turn.open, !.cut = FALSE]
          /\ UNCHANGED faults
       \/ /\ turn.open /\ notes = NoNotes
          /\ turn' = [turn EXCEPT !.cut = FALSE]
          /\ Fault /\ UNCHANGED notes
    /\ st' = [st EXCEPT !.running = turn.id]
    /\ disk' = st' /\ pc' = "run" /\ turns' = turns + 1
    /\ UNCHANGED <<world, aicrewd, moves, lost>>

(* What the client does: it acknowledges its messages, ...                   *)
Acknowledge ==
    /\ pc = "run" /\ unread
    /\ unread' = FALSE
    /\ UNCHANGED <<phase, paused, gates, aicrewd, home, st, pc, turn, turns, moves, faults, lost>>

(* ... takes a step of the attempt: accepts it, submits, blocks, resumes, ... *)
Step(from, to) ==
    /\ pc = "run" /\ phase = from
    /\ phase' = to
    /\ turn' = [turn EXCEPT !.progress = "step"]
    /\ UNCHANGED <<unread, paused, gates, aicrewd, home, st, pc, turns, moves, faults, lost>>

(* ... commits and pushes, which may leave the checks pending, ...           *)
Commit ==
    /\ pc = "run" /\ Open(phase)
    /\ turn' = [turn EXCEPT !.progress = IF @ = "step" THEN @ ELSE "commit"]
    /\ gates' \in BOOLEAN
    /\ UNCHANGED <<phase, unread, paused, aicrewd, home, st, pc, turns, moves, faults, lost>>

(* ... and keeps its notes in the section.                                   *)
EditNotes ==
    /\ pc = "run" /\ notes # NoNotes /\ ~turn.edited
    /\ notes' = turn.id
    /\ turn' = [turn EXCEPT !.edited = TRUE]
    /\ UNCHANGED <<world, aicrewd, disk, st, pc, turns, moves, faults, lost>>

(* A turn stopped at its time limit is a failed one whose hold ends at once. *)
Outcomes == {"finished", "failed", "limit"}

(* spend and queueReport: the cost against the day and the attempt, and its  *)
(* report; the oldest beyond the backlog's bound is dropped.                 *)
Charge(s, charged) ==
    LET queue == Append(s.backlog, [id |-> turn.id, charged |-> charged])
    IN  [s EXCEPT !.running = 0, !.day = @ + 1,
                  !.attempt = IF charged THEN Larger(@, 0) + 1 ELSE @,
                  !.backlog = IF Len(queue) > MaxUnreported THEN Tail(queue) ELSE queue]

(* turn, from the client's end to reportTurns: the status read after it,     *)
(* which names an attempt the turn opened, the record, and the charge.       *)
EndTurn(outcome) ==
    /\ pc = "run"
    /\ \E after \in {phase, "not_read"} :
          /\ IF after = "not_read" THEN Fault ELSE UNCHANGED faults
          /\ turn' = [turn EXCEPT !.outcome = outcome, !.after = after]
          /\ st' = Charge(st, turn.open \/ Open(after))
    /\ lost' = IF Len(st'.backlog) = Len(st.backlog)
               THEN [lost EXCEPT !.costs = @ \cup {st.backlog[1].id}] ELSE lost
    /\ pc' = "ended"
    /\ UNCHANGED <<world, aicrewd, home, turns, moves>>

(* afterOutcome and outcomeHold: no turn until the provider's limit passes,  *)
(* which aicrewd is told of, or until the backoff of a failed turn ends.     *)
AfterOutcome ==
    /\ pc = "ended" /\ (st.backlog = <<>> \/ turn.cut)
    /\ LET hold == [finished |-> "no", failed |-> "own", limit |-> "limit"]
           told == IF turn.outcome = "limit" THEN "limit" ELSE "none"
       IN  st' = [SetHold(st, told) EXCEPT !.held = hold[turn.outcome]]
    /\ pc' = "closing"
    /\ UNCHANGED <<world, aicrewd, home, turn, turns, moves, faults, lost>>

-----------------------------------------------------------------------------
(* What the turn showed of the attempt *)

Charged == turn.open \/ Open(turn.after)

Finished == turn.outcome = "finished"

(* The counters of turn and handoffAfterTurn, for a turn of the attempt.     *)
Counted(s) ==
    LET kept == turn.open /\ turn.doc /\ Finished
    IN  [s EXCEPT
           !.stalled = turn.continuation /\ @,
           !.continuations = @ + IF turn.continuation THEN 1 ELSE 0,
           !.noProgress = IF gates \/ turn.progress # "none" THEN 0
                          ELSE IF Finished THEN @ + 1 ELSE @,
           !.unchanged = IF gates \/ (kept /\ (turn.edited \/ turn.progress = "step")) THEN 0
                         ELSE IF kept THEN @ + 1 ELSE @]

(* pushHandoff: a doc that changed since the last push; aicrewd takes it     *)
(* while the attempt runs.                                                   *)
Pushes == turn.open /\ turn.doc /\ notes # st.pushed /\ Open(phase)

Stalls(s) == ~s.stalled /\ (s.noProgress >= StallTurns \/ s.unchanged >= HandoffStallTurns)

(* The end of turn: the counters, the push, whether the attempt is due a     *)
(* continuation, and the stall, which blocks the attempt once.               *)
Close ==
    /\ pc = "closing" /\ (st.pending => turn.cut)
    /\ \E pushed, blocked \in BOOLEAN :
          LET counted == IF Charged THEN Counted(st) ELSE st
              working == turn.after = "working"
              stall == Charged /\ working /\ Stalls(counted)
          IN  /\ pushed => Pushes
              /\ blocked => stall /\ phase = "working"
              /\ IF (Pushes /\ ~pushed) \/ (stall /\ phase = "working" /\ ~blocked)
                 THEN Fault ELSE UNCHANGED faults
              /\ hubNotes' = IF pushed THEN notes ELSE hubNotes
              /\ phase' = IF blocked THEN "blocked" ELSE phase
              /\ st' = [counted EXCEPT !.pushed = IF pushed THEN notes ELSE @,
                                       !.continue = working /\ ~stall,
                                       !.stalled = stall \/ @]
              /\ lost' = [lost EXCEPT !.due = turn.after = "not_read" \/ (stall /\ ~blocked)]
    /\ disk' = st' /\ pc' = "idle" /\ turn' = NoTurn
    /\ UNCHANGED <<unread, paused, gates, hub, hubHold, notes, turns, moves>>

-----------------------------------------------------------------------------
(* Restarts, time, and the others *)

(* The launcher or its host stops, at any point: what the loop's copy of the *)
(* state held beyond the file is gone.                                       *)
Crash ==
    /\ pc # "down" /\ Fault
    /\ pc' = "down" /\ st' = disk /\ turn' = NoTurn
    /\ lost' = [lost EXCEPT !.costs = IF disk.running = 0 THEN @ ELSE @ \cup {turn.id},
                            !.due = @ \/ (pc \in {"run", "ended", "closing"} /\ ~disk.continue),
                            !.hold = @ \/ st.report # disk.report]
    /\ UNCHANGED <<world, aicrewd, home, turns, moves>>

(* Loop: a turn left running is recorded as interrupted. *)
Start ==
    /\ pc = "down"
    /\ pc' = "idle"
    /\ st' = [disk EXCEPT !.running = 0]
    /\ disk' = st'
    /\ UNCHANGED <<world, aicrewd, notes, turn, turns, moves, faults, lost>>

(* The member moves to a new home: its state and its notes stay behind. *)
NewHome ==
    /\ pc = "down" /\ disk # FreshState
    /\ disk' = FreshState /\ st' = FreshState /\ notes' = NoNotes
    /\ lost' = [costs |-> lost.costs \cup {disk.backlog[i].id : i \in DOMAIN disk.backlog},
                due |-> TRUE, hold |-> TRUE]
    /\ UNCHANGED <<world, aicrewd, pc, turn, turns, moves, faults>>

(* HoldUntil passes. *)
HoldEnds ==
    /\ pc = "idle" /\ disk.held # "no"
    /\ st' = [st EXCEPT !.held = "no"] /\ disk' = [disk EXCEPT !.held = "no"]
    /\ UNCHANGED <<world, aicrewd, notes, pc, turn, turns, moves, faults, lost>>

Moves == moves < MaxMoves /\ moves' = moves + 1

(* A UTC day ends, here and on aicrewd, between two ticks. *)
NewDay ==
    /\ Moves /\ pc = "idle"
    /\ hub' = [hub EXCEPT !.day = 0]
    /\ st' = [st EXCEPT !.day = Unknown] /\ disk' = [disk EXCEPT !.day = Unknown]
    /\ UNCHANGED <<world, hubHold, hubNotes, notes, pc, turn, turns, faults, lost>>

(* A message arrives; the coordinator asks for rework, or ends the attempt,  *)
(* which tells the worker.                                                   *)
Arrive(from, to) ==
    /\ Moves /\ phase = from
    /\ phase' = to /\ unread' = TRUE
    /\ UNCHANGED <<paused, gates, aicrewd, home, st, pc, turn, turns, faults, lost>>

(* The operator pauses or resumes; the gates of the pull request move. *)
Others ==
    /\ Moves
    /\ \/ paused' = ~paused /\ UNCHANGED gates
       \/ gates /\ gates' = FALSE /\ UNCHANGED paused
    /\ UNCHANGED <<phase, unread, aicrewd, home, st, pc, turn, turns, faults, lost>>

LoopStep ==
    \/ Due \/ ReportTurn \/ Admit \/ TotalsUnread \/ SyncHold \/ Begin
    \/ \E outcome \in Outcomes : EndTurn(outcome)
    \/ AfterOutcome \/ Close \/ Start \/ HoldEnds

Client ==
    \/ Acknowledge \/ Commit \/ EditNotes
    \/ Step("none", "working") \/ Step("working", "submitted")
    \/ Step("working", "blocked") \/ Step("blocked", "working")
    \/ Step("working", "working")

Next ==
    \/ LoopStep \/ Client
    \/ Crash \/ NewHome \/ NewDay \/ Others
    \/ \E p \in {"working", "blocked", "submitted"} : Arrive(p, p) \/ Arrive(p, "closed")
    \/ Arrive("submitted", "working")

(* The launcher runs as a service and ticks every wakePoll; a turn ends, at  *)
(* its time limit at the latest.                                             *)
Spec == Init /\ [][Next]_vars /\ WF_vars(LoopStep)

-----------------------------------------------------------------------------
(* Properties *)

Queued(s) == {s.backlog[i].id : i \in DOMAIN s.backlog}

(* No turn's cost disappears: that of every turn ended is on aicrewd or      *)
(* waits in the backlog, unless the launcher stopped before the state was    *)
(* written, its home was left behind, or the backlog was full              *)
(* (turncosts.go).                                                           *)
SpendIsKept ==
    \A id \in 1..turns : \/ id \in hub.turns \cup Queued(st) \cup lost.costs
                         \/ pc = "run" /\ id = turn.id

(* A turn of an attempt starts within the attempt's budget as aicrewd counts *)
(* it, in any home: only the turns of a launcher that stopped between their  *)
(* report and the state's write are missed (turncosts.go pullTotals).        *)
AdmittedWithinBudget ==
    pc = "run" /\ turn.open =>
        hub.attempt < AttemptBudget + Cardinality(hub.turns \cap lost.costs)

(* The handoff aicrewd keeps of the attempt is never replaced by an older    *)
(* section: not after a move to a new home, and not by the section a home    *)
(* opens when aicrewd cannot be read (handoff.go prepareHandoff).            *)
HandoffNeverGoesBack == [][hubNotes' >= hubNotes]_vars

(* The hold aicrewd shows is the home's, once its report arrived: a hold     *)
(* that ended is cleared there.  A launcher stopped, or a home left, with a  *)
(* hold's change unwritten leaves it (holds.go syncHold).                    *)
HoldIsShown == ~st.pending /\ ~lost.hold => hubHold = st.report

(* An attempt in work does not lie idle: it is worked on until it is         *)
(* submitted, blocked or ended, while continuations and budgets last, or its *)
(* loop stalls it; only a failed status read, a stall whose block failed or  *)
(* a stop in a turn forgets it (serve.go Tick, turn, stall).                 *)
WorkGoesOn ==
    phase = "working" ~>
        \/ phase # "working"
        \/ paused \/ gates \/ lost.due
        \/ disk.report = "budget" \/ disk.continuations = MaxContinuations
        \/ turns = MaxTurns

-----------------------------------------------------------------------------
(* What the proofs rest on *)

Report == [id : Nat, charged : BOOLEAN]

State ==
    [running : Nat, day : {Unknown} \cup Nat, attempt : {Unknown} \cup Nat,
     backlog : Seq(Report), held : {"no", "own", "limit", "budget"},
     report : {"none", "limit", "budget"}, pending : BOOLEAN, continue : BOOLEAN,
     continuations : Nat, noProgress : Nat, unchanged : Nat, stalled : BOOLEAN,
     pushed : {NoNotes} \cup Nat]

AttemptPhases == {"none", "working", "blocked", "submitted", "closed"}

Turn ==
    [id : Nat, continuation : BOOLEAN, open : BOOLEAN, doc : BOOLEAN,
     progress : {"none", "commit", "step"}, edited : BOOLEAN, cut : BOOLEAN,
     outcome : {"none"} \cup Outcomes, after : {"not_read"} \cup AttemptPhases]

TypeOK ==
    /\ phase \in AttemptPhases
    /\ {unread, paused, gates} \subseteq BOOLEAN
    /\ hub \in [turns : SUBSET Nat, day : Nat, attempt : Nat] /\ IsFiniteSet(hub.turns)
    /\ hubHold \in {"none", "limit", "budget"}
    /\ {hubNotes, notes} \subseteq {NoNotes} \cup Nat
    /\ {disk, st} \subseteq State
    /\ pc \in {"idle", "admit", "begin", "run", "ended", "closing", "down"}
    /\ turn \in Turn
    /\ {turns, moves, faults} \subseteq Nat
    /\ lost \in [costs : SUBSET Nat, due : BOOLEAN, hold : BOOLEAN]

InTurn == pc \in {"run", "ended", "closing"}

(* The turn the loop is about is the next one, then the last one started,   *)
(* which is written as running; an attempt's is admitted with known spend,  *)
(* and a turn that ended has an outcome.  An attempt that is open for the   *)
(* turn exists.                                                             *)
TurnInv ==
    /\ pc \in {"admit", "begin"} => turn.id = turns + 1
    /\ InTurn => turn.id = turns
    /\ pc = "run" => disk.running # 0
    /\ pc \in {"ended", "closing"} => turn.outcome \in Outcomes
    /\ pc \in {"begin", "run"} /\ turn.open =>
           st.attempt # Unknown /\ st.attempt < AttemptBudget
    /\ turn.open => phase # "none"

(* The home's section is never behind the handoff on aicrewd.               *)
NotesInv ==
    /\ hubNotes <= turns /\ notes <= turns
    /\ notes # NoNotes => hubNotes <= notes
    /\ turn.doc => InTurn /\ notes # NoNotes

(* The file has the hold that the loop goes by, or the loop is about to     *)
(* report the change and to write it.                                       *)
HoldInv ==
    /\ HoldIsShown
    /\ \/ st.report = disk.report /\ st.pending = disk.pending
       \/ st.report # disk.report /\ st.pending /\ pc \in {"begin", "closing"}

(* The turn that ended and that the file still has as running.              *)
Unwritten == IF InTurn /\ disk.running # 0 THEN {turn.id} ELSE {}

(* A stop loses no turn's cost but that of the turn the file has running.   *)
SpendInv ==
    /\ SpendIsKept
    /\ \A id \in 1..turns : id \in hub.turns \cup Queued(disk) \cup lost.costs \cup Unwritten

(* The turns of a state's backlog that count against the attempt.           *)
Charges(s) ==
    {s.backlog[i].id : i \in {j \in DOMAIN s.backlog : s.backlog[j].charged}}

(* A state that knows the attempt's spend counts all of it that aicrewd     *)
(* has, and all that its own reports will add there, but for `missed`.      *)
Covers(recorded, s, missed) ==
    IF s.attempt = Unknown THEN Charges(s) = {}
    ELSE recorded.attempt + Cardinality(Charges(s) \ recorded.turns)
           <= s.attempt + Cardinality(recorded.turns \cap missed)

(* A turn that opens its attempt, or may.                                   *)
Opens == phase = "none" \/ (pc \in {"admit", "begin", "run"} /\ ~turn.open /\ Open(phase))

(* Both copies of the state count the spend; a turn that opens the attempt  *)
(* finds nothing spent on it yet.                                           *)
BudgetInv ==
    /\ Covers(hub, st, lost.costs)
    /\ Covers(hub, disk, lost.costs \cup Unwritten)
    /\ Charges(st) \subseteq Charges(disk) \cup Unwritten
    /\ Opens => hub.attempt = 0 /\ Charges(st) = {} /\ Charges(disk) = {}

LoopInv == TypeOK /\ TurnInv /\ NotesInv /\ HoldInv /\ SpendInv /\ BudgetInv
=============================================================================
