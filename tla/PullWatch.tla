----------------------------- MODULE PullWatch -----------------------------
(***************************************************************************)
(* The pull request of a work attempt: the forge it lives on, the launcher *)
(* that watches it (agent/forgewatch.go) and runs the process's automations *)
(* at its extension points (agent/dispatch.go), and aicrewd, which records *)
(* what the launcher observed and tells the worker what needs a decision   *)
(* (store/forgeevents.go, actions.go).                                     *)
(*                                                                         *)
(* An observation is the version of the pull request that it read.  Four   *)
(* ghosts: `late`, an observation was recorded or kept after a newer one;  *)
(* `cut`, the launcher stopped between taking a merged pull request off    *)
(* its watch list and keeping the merge; `hushed`, what a report of the    *)
(* member's own command made known to aicrewd, and aicrewd to nobody;      *)
(* `left`, what aicrewd told nobody, leaving it to an automation.          *)
(***************************************************************************)
EXTENDS Integers, Sequences, FiniteSets

CONSTANT MaxSteps  \* bound: moves of the pull request, forge pr commands and faults

ASSUME PullWatchAssumption == MaxSteps \in Nat

VARIABLES history,   \* forge: the versions of the pull request
          record,    \* aicrewd: the pull request as last observed
          queued,    \* aicrewd: the needs of the events not yet delivered
          told,      \* aicrewd: what the worker was told, or has just seen
          watch,     \* launcher's disk: whether it watches the pull request
          points,    \* launcher's disk: what it keeps for the points
          report,    \* launcher: the observation each reporter is at
          jobs,      \* launcher: the points dispatched, each for an observation
          run,       \* launcher: the point that runs
          seen,      \* launcher: what it last reported with its content
          late, cut, hushed, left,
          steps      \* what MaxSteps bounds

aicrewdVars == <<record, queued, told, late, hushed, left>>
diskVars == <<watch, points, cut>>
vars == <<history, aicrewdVars, diskVars, report, jobs, run, seen, steps>>

-----------------------------------------------------------------------------
Reporters == {"poll", "command"}

Points == {"after-push", "gates-green", "after-merge"}

(* The newest external review: its number, its head, whether it blocks.     *)
NoReview == [id |-> 0, head |-> 0, blocker |-> FALSE]

Versions == 1..Len(history)

Now == history[Len(history)]

(* An observation: the version of its status, of its content (0 for none),  *)
(* whether it carries the head's failed check, whether it is a baseline.    *)
NoObservation == [v |-> 0, w |-> 0, baseline |-> FALSE, names |-> FALSE, prePush |-> FALSE]

Idle == [phase |-> "idle", o |-> NoObservation]

NotRunning == [stage |-> "none", failed |-> FALSE, job |-> [edge |-> <<>>, o |-> NoObservation]]

NoRecord == [v |-> 0, review |-> NoReview, prePush |-> FALSE]

NoPoints == [state |-> "open", review |-> NoReview, fired |-> {}, prePush |-> 0]

Init ==
    /\ \E ci \in {"success", "failure"} :
          history = <<[state |-> "open", head |-> 1, ci |-> ci, review |-> NoReview]>>
    /\ record = NoRecord /\ queued = {} /\ told = {} /\ late = FALSE /\ hushed = {} /\ left = {}
    /\ watch = "off" /\ points = NoPoints /\ cut = FALSE
    /\ report = [r \in Reporters |-> Idle]
    /\ jobs = {}
    /\ run = NotRunning
    /\ seen = <<>>
    /\ steps = 0

(* What the bound counts.                                                   *)
Step == steps < MaxSteps /\ steps' = steps + 1

-----------------------------------------------------------------------------
(* The forge: others push, review, conclude CI, merge and close             *)

Move(version) ==
    /\ Step
    /\ history' = Append(history, version)
    /\ UNCHANGED <<aicrewdVars, diskVars, report, jobs, run, seen>>

(* A head is named by the version that brought it.                          *)
Push == Now.state = "open" /\ Move([Now EXCEPT !.head = Len(history) + 1, !.ci = "pending"])

(* The branch is put back to a head it had, with what CI said of it.        *)
Rewind(v) ==
    /\ Now.state = "open" /\ history[v].head # Now.head
    /\ Move([Now EXCEPT !.head = history[v].head, !.ci = history[v].ci])

Conclude(ci) ==
    /\ Now.state = "open" /\ ci # Now.ci /\ "pending" \in {ci, Now.ci}
    /\ Move([Now EXCEPT !.ci = ci])

Review(blocker) ==
    /\ Now.state = "open"
    /\ Move([Now EXCEPT !.review = [id |-> @.id + 1, head |-> Now.head, blocker |-> blocker]])

Merge == Now.state = "open" /\ Move([Now EXCEPT !.state = "merged"])
Close == Now.state = "open" /\ Move([Now EXCEPT !.state = "closed"])
Reopen == Now.state = "closed" /\ Move([Now EXCEPT !.state = "open"])

-----------------------------------------------------------------------------
(* aicrewd *)

AtHead(review, head) == review.id # 0 /\ review.head = head

Green(review, version) ==
    AtHead(review, version.head) /\ ~review.blocker /\ version.ci = "success"

(* The review that stands after o: its content's at the head, or the one    *)
(* recorded before.                                                         *)
ReviewAfter(o) ==
    IF o.w = 0 THEN record.review
    ELSE IF AtHead(history[o.w].review, history[o.v].head) THEN history[o.w].review ELSE NoReview

(* pullNeeds: what the change from the record to o needs a decision on, or  *)
(* an automation.                                                           *)
Needs(o) ==
    LET prev == history[record.v]
        cur  == history[o.v]
        rv   == ReviewAfter(o)
        news == record.review # rv
        open == cur.state = "open"
        turned(need, state) == IF cur.state = state /\ prev.state # state THEN {need} ELSE {}
    IN  turned("merged", "merged") \cup turned("closed", "closed") \cup turned("reopened", "open")
        \cup {n \in {"ci", "pre_push", "review", "gates"} : open /\
                CASE n = "ci" -> cur.ci = "failure" /\ (prev.ci # "failure" \/ prev.head # cur.head)
                  [] n = "pre_push" -> o.prePush /\ (prev.head # cur.head \/ ~record.prePush)
                  [] n = "review" -> AtHead(rv, cur.head) /\ rv.blocker /\ news
                  [] n = "gates" -> Green(rv, cur) /\ (news \/ ~Green(rv, prev))}

(* handles: what the launcher performs itself.                              *)
Handled(o) == IF o.names THEN {"gates"} ELSE {}

(* Nothing of what is recorded differs.                                     *)
Unchanged(o) ==
    LET prev == history[record.v]
        cur  == history[o.v]
    IN  /\ [prev EXCEPT !.review = NoReview] = [cur EXCEPT !.review = NoReview]
        /\ prev.review.id = cur.review.id
        /\ ~(o.w # 0 /\ ReviewAfter(o).id # 0 /\ ReviewAfter(o) # record.review)
        /\ o.prePush = record.prePush

(* The needs that hold at a version with its review and failed check, and   *)
(* what each is about.                                                      *)
About(n, version, review) ==
    CASE n = "review" -> <<n, review.id>>
      [] n \in {"ci", "pre_push", "gates"} -> <<n, version.head>>
      [] OTHER -> <<n, 0>>

Holds(n, version, review, prePush) ==
    CASE n = "review" -> version.state = "open" /\ AtHead(review, version.head) /\ review.blocker
      [] n = "ci" -> version.state = "open" /\ version.ci = "failure"
      [] n = "pre_push" -> version.state = "open" /\ prePush
      [] n = "gates" -> version.state = "open" /\ Green(review, version)
      [] n = "reopened" -> version.state = "open"
      [] OTHER -> version.state = n

AllAbout(needs, o) == {About(n, history[o.v], ReviewAfter(o)) : n \in needs}

(* What the member has just seen when its own command reports: the status   *)
(* that the command printed.                                                *)
Shown(o) ==
    AllAbout({n \in {"ci", "merged", "closed"} :
                Holds(n, history[o.v], ReviewAfter(o), o.prePush)}, o)

(* ObservePullWithToken, for a report of a running attempt's pull request.  *)
Observe(o) ==
    LET known == record.v # 0
        same  == known /\ Unchanged(o)
        loud  == known /\ ~same /\ ~o.baseline
    IN  /\ record' = IF same THEN record
                     ELSE [v |-> o.v, review |-> ReviewAfter(o), prePush |-> o.prePush]
        /\ queued' = queued \cup (IF loud THEN Needs(o) \ Handled(o) ELSE {})
        /\ left' = left \cup (IF loud THEN AllAbout(Needs(o) \cap Handled(o), o) ELSE {})
        /\ told' = told \cup (IF o.baseline THEN Shown(o) ELSE {})
        /\ hushed' = hushed \cup (IF known /\ ~same /\ o.baseline
                               THEN AllAbout(Needs(o) \cap {"pre_push", "gates"}, o) ELSE {})
        /\ late' = (late \/ o.v < record.v)

(* wakeForge: the needs of the queue that still hold.                       *)
Wake ==
    /\ queued # {}
    /\ told' = told \cup {About(n, history[record.v], record.review) :
                            n \in {k \in queued : Holds(k, history[record.v], record.review, record.prePush)}}
    /\ queued' = {}
    /\ UNCHANGED <<history, record, late, hushed, left, diskVars, report, jobs, run, seen, steps>>

-----------------------------------------------------------------------------
(* The launcher: two reporters, its poll and a member's forge pr command     *)

At(r, phase) == report[r].phase = phase
To(r, phase) == report' = [report EXCEPT ![r].phase = phase]
Leave(r) == report' = [report EXCEPT ![r] = Idle]

(* pullSeen: what of a status tells whether its content changed.           *)
Summary(v) == <<history[v].head, history[v].ci, history[v].review.id>>

(* wantsContent: CI concluded or a review came, and that changed.           *)
WantsContent(v) ==
    /\ history[v].ci # "pending" \/ history[v].review.id # 0
    /\ seen # Summary(v)

(* Mutant: the end of the watch ends the points too. *)
ForgottenMerge == FALSE

(* pendingMerge: the pull request was merged and after-merge has not run.   *)
PendingMerge ==
    /\ points.state = "merged"
    /\ <<"after-merge", 0>> \notin points.fired

(* An extension point's edge at a version.                                  *)
Edge(point, version) ==
    <<point, IF point = "after-merge" THEN 0 ELSE version.head>>

(* edges: the points whose edge the version is, with the reviews known.     *)
(* The local review counts as READY with the external one.                  *)
EdgesAt(version, review) ==
    {p \in Points :
        CASE p = "after-push" -> version.state = "open"
          [] p = "gates-green" -> version.state = "open" /\ Green(review, version)
          [] p = "after-merge" -> version.state = "merged"}

(* Dispatched, or running and not recorded yet.                            *)
InFlight(p) == \/ \E j \in jobs : j.edge[1] = p
               \/ run.stage = "ran" /\ run.job.edge[1] = p

(* Mutant: only the recorded edges are looked at. *)
FiresBesideRun(p, version) == Edge(p, version) \notin points.fired

Fires(p, version) == Edge(p, version) \notin points.fired /\ ~InFlight(p)

(* pollPulls begins: it dispatches what the kept state still owes, and      *)
(* reads the status of the pull request it watches.                         *)
Poll ==
    /\ At("poll", "idle")
    /\ watch = "on" \/ PendingMerge
    /\ jobs' = IF PendingMerge /\ ~InFlight("after-merge")
               THEN jobs \cup {[edge |-> <<"after-merge", 0>>, o |-> NoObservation]} ELSE jobs
    /\ IF watch = "on"
       THEN report' = [report EXCEPT !["poll"] =
                         [phase |-> IF WantsContent(Len(history)) THEN "content" ELSE "ready",
                          o |-> [NoObservation EXCEPT !.v = Len(history)]]]
       ELSE report' = report
    /\ UNCHANGED <<history, aicrewdVars, diskVars, run, seen, steps>>

(* Mutant: what is read counts as reported. *)
ReadContentSeen ==
    /\ At("poll", "content")
    /\ report' = [report EXCEPT !["poll"].phase = "ready", !["poll"].o.w = Len(history)]
    /\ seen' = Summary(report["poll"].o.v)
    /\ UNCHANGED <<history, aicrewdVars, diskVars, jobs, run, steps>>

(* The content read for the status, unless the branch moved in between      *)
(* (addContent), or the read failed: then the status goes alone.            *)
ReadContent ==
    /\ At("poll", "content")
    /\ LET o == report["poll"].o
           w == IF Now.head = history[o.v].head THEN Len(history) ELSE 0
       IN  report' = [report EXCEPT !["poll"] = [phase |-> "ready", o |-> [o EXCEPT !.w = w]]]
    /\ UNCHANGED <<history, aicrewdVars, diskVars, jobs, run, seen, steps>>

ContentFails ==
    /\ At("poll", "content")
    /\ To("poll", "ready")
    /\ Step
    /\ UNCHANGED <<history, aicrewdVars, diskVars, jobs, run, seen>>

(* A forge pr command has acted, and reads the status it will report.       *)
Command ==
    /\ At("command", "idle")
    /\ Step
    /\ report' = [report EXCEPT !["command"] =
                    [phase |-> "ready", o |-> [NoObservation EXCEPT !.v = Len(history), !.baseline = TRUE]]]
    /\ UNCHANGED <<history, aicrewdVars, diskVars, jobs, run, seen>>

(* Whether an observation names gates-green among the automations that run: *)
(* a poll's, when it is one and the set could be read (AutomationNames).    *)
Naming(o) == IF o.baseline THEN {FALSE} ELSE BOOLEAN

(* observePull: the report goes with the check that failed at its head, and *)
(* aicrewd takes it, or answers that it is no running attempt's.            *)
Sent(r) ==
    LET o == report[r].o
    IN  {[o EXCEPT !.names = names, !.prePush = (points.prePush = history[o.v].head)] :
            names \in Naming(o)}

Serve(r) ==
    /\ At(r, "ready")
    /\ \/ (\E o \in Sent(r) : Observe(o)) /\ To(r, "taken") /\ UNCHANGED watch
       \/ watch' = "refused" /\ Leave(r) /\ UNCHANGED aicrewdVars
    /\ UNCHANGED <<history, points, cut, jobs, run, seen, steps>>

(* No answer: aicrewd took the report, or never saw it.                     *)
ReportFails(r) ==
    /\ At(r, "ready")
    /\ \/ \E o \in Sent(r) : Observe(o)
       \/ UNCHANGED aicrewdVars
    /\ Leave(r)
    /\ Step
    /\ UNCHANGED <<history, diskVars, jobs, run, seen>>

(* setWatched: an open pull request stays watched, no other does.           *)
Watching(r) ==
    /\ At(r, "taken")
    /\ watch' = IF history[report[r].o.v].state = "open" THEN "on" ELSE "ended"
    /\ To(r, "kept")
    /\ UNCHANGED <<history, aicrewdVars, points, cut, jobs, run, seen, steps>>

(* noticePull: the observation is kept, and its points are due.             *)
Notice(r) ==
    LET o       == report[r].o
        version == history[o.v]
        review  == IF o.w # 0 THEN history[o.w].review ELSE points.review
    IN  /\ At(r, "kept")
        /\ points' = [points EXCEPT !.state = version.state, !.review = review]
        /\ jobs' = jobs \cup
             {[edge |-> Edge(p, version),
               o |-> IF p = "after-push" THEN o ELSE NoObservation] :
                 p \in {q \in EdgesAt(version, review) : Fires(q, version)}}
        /\ seen' = IF o.w # 0 THEN Summary(o.v) ELSE seen
        /\ Leave(r)
        /\ late' = (late \/ (points.state = "merged" /\ version.state # "merged"))
        /\ UNCHANGED <<history, record, queued, told, hushed, left, watch, cut, run, steps>>

-----------------------------------------------------------------------------
(* The launcher: the points, one at a time                                   *)

(* runPoint: its automations run; a declared check may fail at after-push.  *)
(* For an attempt that is no longer open nothing runs, and nothing fails.   *)
RunPoint(j) ==
    /\ run = NotRunning
    /\ jobs' = jobs \ {j}
    /\ \E failed \in BOOLEAN :
          /\ failed => j.edge[1] = "after-push"
          /\ run' = [stage |-> "ran", failed |-> failed, job |-> j]
    /\ UNCHANGED <<history, aicrewdVars, diskVars, report, seen, steps>>

(* A point that could not be prepared fires again.                          *)
NotPrepared(j) ==
    /\ run = NotRunning
    /\ jobs' = jobs \ {j}
    /\ Step
    /\ UNCHANGED <<history, aicrewdVars, diskVars, report, run, seen>>

(* firePoint's end: the edge is recorded, and what after-push found.        *)
RecordPoint ==
    LET p == run.job.edge[1] IN
    /\ run.stage = "ran"
    /\ points' = [points EXCEPT !.fired = @ \cup {run.job.edge},
                                !.prePush = IF p # "after-push" THEN @
                                            ELSE IF run.failed THEN run.job.edge[2] ELSE 0]
    /\ run' = IF run.failed THEN [run EXCEPT !.stage = "announce"] ELSE NotRunning
    /\ UNCHANGED <<history, aicrewdVars, watch, cut, report, jobs, seen, steps>>

(* The observation that fired the point, sent again with the failed check.  *)
Announce ==
    /\ run.stage = "announce"
    /\ \/ \E names \in Naming(run.job.o) :
             Observe([run.job.o EXCEPT !.baseline = FALSE, !.names = names, !.prePush = TRUE])
       \/ UNCHANGED aicrewdVars
    /\ run' = NotRunning
    /\ UNCHANGED <<history, diskVars, report, jobs, seen, steps>>

AnnounceFails ==
    /\ run.stage = "announce"
    /\ run' = NotRunning
    /\ Step
    /\ UNCHANGED <<history, aicrewdVars, diskVars, report, jobs, seen>>

(* The launcher stops and starts again: only its files are left.            *)
Crash ==
    /\ Step
    /\ report' = [r \in Reporters |-> Idle]
    /\ jobs' = {}
    /\ run' = NotRunning /\ seen' = <<>>
    /\ cut' = (cut \/ \E r \in Reporters :
                        At(r, "kept") /\ history[report[r].o.v].state = "merged")
    /\ UNCHANGED <<history, aicrewdVars, watch, points>>

-----------------------------------------------------------------------------
(* What happens to the pull request beside a push.                          *)
Forge ==
    \/ Merge \/ Close \/ Reopen
    \/ \E v \in Versions : Rewind(v)
    \/ \E ci \in {"pending", "success", "failure"} : Conclude(ci)
    \/ \E blocker \in BOOLEAN : Review(blocker)

Reports(r) == Serve(r) \/ Watching(r) \/ Notice(r)

PollGoesOn == Poll \/ ReadContent \/ Reports("poll")

StartPoint == \E j \in jobs : RunPoint(j)

(* What fails while the launcher runs.                                      *)
Faulty ==
    \/ ContentFails \/ AnnounceFails
    \/ \E j \in jobs : NotPrepared(j)
    \/ \E r \in Reporters : ReportFails(r)

(* All but the pushes, a run's end and the launcher's.                      *)
Beside ==
    \/ Forge \/ Wake \/ Command \/ Reports("command")
    \/ PollGoesOn \/ StartPoint \/ Announce \/ Faulty

Next == Beside \/ Push \/ RecordPoint \/ Crash

Spec == Init /\ [][Next]_vars

(* The launcher polls while its member waits, ends what it began, and       *)
(* aicrewd's event loop runs a queue that is due (EventDelivery).           *)
Fairness ==
    /\ WF_vars(PollGoesOn) /\ WF_vars(StartPoint \/ RecordPoint \/ Announce)
    /\ WF_vars(Reports("command")) /\ WF_vars(Wake)

FairSpec == Spec /\ Fairness

-----------------------------------------------------------------------------
(* What the proofs rest on *)

(* The states of a pull request, what CI says of a head, and what a member  *)
(* may have to decide.                                                      *)
States == {"open", "closed", "merged"}
Conclusions == {"pending", "success", "failure"}
Decisions == {"merged", "closed", "reopened", "ci", "pre_push", "review", "gates"}

Reviews == [id : Nat, head : Int, blocker : BOOLEAN]

Version == [state : States, head : Int, ci : Conclusions, review : Reviews]

(* An observation names versions that the pull request has had.             *)
Observation ==
    [v : 0..Len(history), w : 0..Len(history),
     baseline : BOOLEAN, names : BOOLEAN, prePush : BOOLEAN]

Job == [edge : Points \X Int, o : Observation]

(* What after-push finds is sent again with the observation that fired it.  *)
Announced(job) == job.edge[1] = "after-push" => job.o.v # 0

HistoryOK == history \in Seq(Version) /\ Len(history) > 0 /\ steps \in Nat

AicrewdOK ==
    /\ record \in [v : 0..Len(history), review : Reviews, prePush : BOOLEAN]
    /\ queued \subseteq Decisions /\ told \subseteq Decisions \X Int
    /\ hushed \subseteq Decisions \X Int /\ left \subseteq Decisions \X Int /\ late \in BOOLEAN
    /\ queued # {} => record.v # 0

DiskOK ==
    /\ watch \in {"off", "on", "refused", "ended"} /\ cut \in BOOLEAN
    /\ points \in [state : States, review : Reviews, fired : SUBSET (Points \X Int), prePush : Int]

ReportsOK ==
    /\ report \in [Reporters -> [phase : {"idle", "content", "ready", "taken", "kept"}, o : Observation]]
    /\ \A r \in Reporters : report[r].phase # "idle" => report[r].o.v # 0
    /\ seen \in {<<>>} \cup (Int \X Conclusions \X Nat)

RunOK ==
    \/ run = NotRunning
    \/ /\ run \in [stage : {"ran", "announce"}, failed : BOOLEAN, job : Job]
       /\ Announced(run.job)
       /\ run.failed => run.job.edge[1] = "after-push"
       /\ run.stage = "announce" => run.failed

JobsOK == jobs \subseteq Job /\ \A j \in jobs : Announced(j)

TypeOK == HistoryOK /\ AicrewdOK /\ DiskOK /\ ReportsOK /\ RunOK /\ JobsOK

(* A point is dispatched or running once at a time, for an edge that is not *)
(* recorded.                                                                *)
OncePerPoint ==
    /\ \A j \in jobs : j.edge \notin points.fired
    /\ \A j, k \in jobs : j.edge[1] = k.edge[1] => j = k
    /\ run.stage = "ran" =>
          run.job.edge \notin points.fired /\ \A j \in jobs : j.edge[1] # run.job.edge[1]

PointsInv == TypeOK /\ OncePerPoint

-----------------------------------------------------------------------------
(* Properties *)

(* An edge that is recorded never fires again, whatever reports overlap and *)
(* however long a run takes (dispatch.go, pointState.inflight, Fired).      *)
FiredOnce ==
    [][run'.stage = "ran" /\ run.stage # "ran" => run'.job.edge \notin points.fired]_vars

Fired(point) == Edge(point, Now) \in points.fired

(* What the worker has to decide at the newest version and has not been     *)
(* told, when no observation overtook another.                              *)
Owed(n) ==
    /\ watch = "on" \/ (watch = "ended" /\ Now.state = "merged")
    /\ ~late
    /\ Holds(n, Now, Now.review, points.prePush = Now.head)
    /\ About(n, Now, Now.review) \notin told
    /\ ~(n = "gates" /\ Fired("gates-green") /\ About(n, Now, Now.review) \in left)

(* Of a watched pull request, what needs a decision reaches the worker, in  *)
(* a message or in the status its own command prints; or it was left to the *)
(* launcher's automation, and that ran: lost reports, failed reads and      *)
(* restarts notwithstanding (forgewatch.go, pullNeeds, holdingNeeds).  It   *)
(* says nothing of what a baseline swallowed, which FailedCheckIsTold is    *)
(* about, nor of what an observation that was overtaken recorded.           *)
NeedIsTold ==
    []<>(\A n \in {"review", "ci", "pre_push", "gates", "merged"} :
            Owed(n) => About(n, Now, Now.review) \in hushed)

(* A declared check that fails after a push, and stands at the head, is     *)
(* told to the worker: "the failure reaches the worker through the          *)
(* observation's `pre_push`" (docs/CREW-CONTRACT.md), which is sent "so     *)
(* aicrewd wakes the worker with it" (agent/forgewatch.go, PullObservation).*)
FailedCheckIsTold == []<>~Owed("pre_push")

(* The after-merge point of a merge that the launcher saw runs in the end,  *)
(* though the merge ends the watch (dispatch.go, replayPoints).             *)
MergeIsFollowed ==
    []<>(Now.state = "merged" /\ watch \in {"on", "ended"} => Fired("after-merge") \/ cut \/ late)
=============================================================================
