-------------------------- MODULE PullWatchProofs --------------------------
(***************************************************************************)
(* Proofs about BaseUpdate and the PullWatch it runs beside, for every     *)
(* number of steps: no extension point fires twice for an edge that is     *)
(* recorded, no head is re-run twice and no note posted twice unnoticed,   *)
(* and a base update that was cut can be completed.                        *)
(***************************************************************************)
EXTENDS BaseUpdate, SequenceTheorems, TLAPS

-----------------------------------------------------------------------------
(* Versions and observations *)

(* The pull request has a newest version, and every version is well formed. *)
LEMMA VersionsAre ==
    ASSUME HistoryOK
    PROVE  /\ Len(history) \in Nat /\ Len(history) \in Versions /\ 0 \notin Versions
           /\ \A v \in Versions : v \in Nat /\ history[v] \in Version
           /\ Now \in Version
<1>1. Len(history) \in Nat /\ \A v \in Versions : history[v] \in Version
  BY LenProperties, ElementOfSeq DEF HistoryOK, Versions
<1>2. Len(history) \in Versions /\ 0 \notin Versions /\ \A v \in Versions : v \in Nat
  BY <1>1 DEF HistoryOK, Versions
<1>. QED
  BY <1>1, <1>2 DEF Now

(* The placeholders have the shape of what they stand for.                  *)
LEMMA Placeholders ==
    ASSUME HistoryOK
    PROVE  NoReview \in Reviews /\ NoObservation \in Observation /\ Idle.o = NoObservation
<1>1. 0 \in 0..Len(history)
  BY VersionsAre
<1>. QED
  BY <1>1 DEF NoReview, Reviews, NoObservation, Observation, Idle

(* What a decision is about is a number of the review or the head.          *)
LEMMA AboutIs ==
    ASSUME NEW n \in Decisions, NEW version \in Version, NEW review \in Reviews
    PROVE  About(n, version, review) \in Decisions \X Int
<1>1. review.id \in Int /\ version.head \in Int
  BY DEF Reviews, Version
<1>. QED
  BY <1>1 DEF About

(* The review that an observation leaves is a review.                       *)
LEMMA ReviewAfterIs ==
    ASSUME HistoryOK, AicrewdOK, NEW o \in Observation
    PROVE  ReviewAfter(o) \in Reviews
<1>1. record.review \in Reviews
  BY DEF AicrewdOK
<1>2. ASSUME o.w # 0
      PROVE  history[o.w].review \in Reviews
  <2>1. o.w \in Versions
    <3>1. o.w \in 0..Len(history) /\ Len(history) \in Nat
      BY VersionsAre DEF Observation
    <3>. QED
      BY <3>1, <1>2 DEF Versions
  <2>. QED
    BY <2>1, VersionsAre DEF Version
<1>3. NoReview \in Reviews
  BY Placeholders
<1>. QED
  BY <1>1, <1>2, <1>3 DEF ReviewAfter

(* What an observation asks a decision on is one of the decisions.          *)
LEMMA NeedsAre ==
    ASSUME NEW o
    PROVE  Needs(o) \subseteq Decisions
<1>. DEFINE turned(need, state) ==
         IF history[o.v].state = state /\ history[record.v].state # state THEN {need} ELSE {}
<1>1. turned("merged", "merged") \subseteq Decisions /\ turned("closed", "closed") \subseteq Decisions
      /\ turned("reopened", "open") \subseteq Decisions
  BY DEF Decisions
<1>2. {"ci", "pre_push", "review", "gates"} \subseteq Decisions
  BY DEF Decisions
<1>. QED
  BY <1>1, <1>2 DEF Needs

(* aicrewd taking a report keeps what it knows well formed.                 *)
LEMMA ObserveKeeps ==
    ASSUME HistoryOK, AicrewdOK, NEW o \in Observation, o.v # 0, Observe(o), UNCHANGED history
    PROVE  AicrewdOK'
<1>1. o.v \in 0..Len(history) /\ o.v \in Versions /\ o.prePush \in BOOLEAN
  <2>1. o.v \in 0..Len(history) /\ Len(history) \in Nat /\ o.prePush \in BOOLEAN
    BY VersionsAre DEF Observation
  <2>. QED
    BY <2>1 DEF Versions
<1>2. ReviewAfter(o) \in Reviews
  BY ReviewAfterIs
<1>3. record' \in [v : 0..Len(history), review : Reviews, prePush : BOOLEAN]
  <2>1. record' = record \/ record' = [v |-> o.v, review |-> ReviewAfter(o), prePush |-> o.prePush]
    BY DEF Observe
  <2>2. record \in [v : 0..Len(history), review : Reviews, prePush : BOOLEAN]
    BY DEF AicrewdOK
  <2>. QED
    BY <2>1, <2>2, <1>1, <1>2
<1>4. queued' \subseteq Decisions
  <2>1. queued' \subseteq queued \cup Needs(o)
    BY DEF Observe
  <2>. QED
    BY <2>1, NeedsAre DEF AicrewdOK
<1>5. told' \subseteq Decisions \X Int /\ hushed' \subseteq Decisions \X Int
      /\ left' \subseteq Decisions \X Int
  <2>1. ASSUME NEW needs, needs \subseteq Decisions
        PROVE  AllAbout(needs, o) \subseteq Decisions \X Int
    <3>1. \A n \in Decisions : About(n, history[o.v], ReviewAfter(o)) \in Decisions \X Int
      BY <1>1, <1>2, AboutIs, VersionsAre
    <3>. QED
      BY <2>1, <3>1 DEF AllAbout
  <2>2. Shown(o) \subseteq Decisions \X Int
    <3>1. {"ci", "merged", "closed"} \subseteq Decisions
      BY DEF Decisions
    <3>. QED
      BY <3>1, <2>1 DEF Shown
  <2>3. AllAbout(Needs(o) \cap {"pre_push", "gates"}, o) \subseteq Decisions \X Int
        /\ AllAbout(Needs(o) \cap Handled(o), o) \subseteq Decisions \X Int
    BY <2>1, NeedsAre
  <2>4. told' \subseteq told \cup Shown(o)
        /\ hushed' \subseteq hushed \cup AllAbout(Needs(o) \cap {"pre_push", "gates"}, o)
        /\ left' \subseteq left \cup AllAbout(Needs(o) \cap Handled(o), o)
    BY DEF Observe
  <2>. QED
    BY <2>2, <2>3, <2>4 DEF AicrewdOK
<1>6. late' \in BOOLEAN
  BY DEF Observe, AicrewdOK
<1>7. queued' # {} => record'.v # 0
  <2>1. record'.v = record.v \/ record'.v = o.v
    BY DEF Observe
  <2>2. record.v = 0 => queued' = queued
    BY DEF Observe
  <2>. QED
    BY <2>1, <2>2 DEF AicrewdOK
<1>. QED
  BY <1>3, <1>4, <1>5, <1>6, <1>7 DEF AicrewdOK

-----------------------------------------------------------------------------
(* What a step leaves alone *)

(* A part of the state that a step leaves alone stays well formed.          *)
LEMMA Kept ==
    ASSUME TypeOK, UNCHANGED history
    PROVE  /\ steps' \in Nat => HistoryOK'
           /\ UNCHANGED aicrewdVars => AicrewdOK'
           /\ UNCHANGED diskVars => DiskOK'
           /\ UNCHANGED <<report, seen>> => ReportsOK'
           /\ UNCHANGED run => RunOK'
           /\ UNCHANGED jobs => JobsOK'
           /\ Observation' = Observation /\ Job' = Job
<1>1. Observation' = Observation
  BY DEF Observation
<1>2. Job' = Job
  BY <1>1 DEF Job
<1>3. steps' \in Nat => HistoryOK'
  BY DEF TypeOK, HistoryOK
<1>4. UNCHANGED aicrewdVars => AicrewdOK'
  BY DEF TypeOK, AicrewdOK, aicrewdVars
<1>5. UNCHANGED diskVars => DiskOK'
  BY DEF TypeOK, DiskOK, diskVars
<1>6. UNCHANGED <<report, seen>> => ReportsOK'
  BY <1>1 DEF TypeOK, ReportsOK
<1>7. UNCHANGED run => RunOK'
  BY <1>2 DEF TypeOK, RunOK
<1>8. UNCHANGED jobs => JobsOK'
  BY <1>2 DEF TypeOK, JobsOK
<1>. QED
  BY <1>1, <1>2, <1>3, <1>4, <1>5, <1>6, <1>7, <1>8

(* A bounded step counts on.                                                *)
LEMMA StepCounts == ASSUME HistoryOK, Step PROVE steps' \in Nat
<1>1. steps \in Nat
  BY DEF HistoryOK
<1>. QED
  BY <1>1 DEF Step

(* The points that fired, are dispatched or run stay what they were.        *)
LEMMA KeptOnce ==
    ASSUME OncePerPoint, UNCHANGED <<points, jobs, run>>
    PROVE  OncePerPoint'
BY DEF OncePerPoint

-----------------------------------------------------------------------------
(* The pull request *)

(* A new version leaves every other where it was.                           *)
LEMMA Grows ==
    ASSUME HistoryOK, NEW x \in Version, history' = Append(history, x), steps' \in Nat
    PROVE  /\ HistoryOK' /\ Len(history') = Len(history) + 1 /\ Len(history) \in Nat
           /\ Versions' = Versions \cup {Len(history) + 1} /\ Len(history) + 1 \notin Versions
           /\ \A v \in Versions : history'[v] = history[v]
           /\ history'[Len(history) + 1] = x /\ Now' = x
           /\ Observation \subseteq Observation'
<1>1. history \in Seq(Version) /\ Len(history) \in Nat
  BY VersionsAre DEF HistoryOK
<1>2. /\ history' \in Seq(Version) /\ Len(history') = Len(history) + 1
      /\ \A v \in 1..Len(history) : history'[v] = history[v]
      /\ history'[Len(history) + 1] = x
  BY <1>1, AppendProperties
<1>3. HistoryOK'
  BY <1>1, <1>2 DEF HistoryOK
<1>4. Versions' = Versions \cup {Len(history) + 1} /\ Len(history) + 1 \notin Versions
  BY <1>1, <1>2 DEF Versions
<1>5. Now' = x
  BY <1>2 DEF Now
<1>6. Observation \subseteq Observation'
  <2>1. 0..Len(history) \subseteq 0..Len(history')
    BY <1>1, <1>2
  <2>. QED
    BY <2>1 DEF Observation
<1>. QED
  BY <1>1, <1>2, <1>3, <1>4, <1>5, <1>6 DEF Versions

(* What was observed and dispatched stays well formed under a new version.  *)
LEMMA GrowsKeeps ==
    ASSUME PointsInv, NEW x \in Version, history' = Append(history, x), steps' \in Nat,
           UNCHANGED <<aicrewdVars, diskVars, report, jobs, run, seen>>
    PROVE  PointsInv'
<1>0. HistoryOK /\ AicrewdOK /\ DiskOK /\ ReportsOK /\ RunOK /\ JobsOK /\ OncePerPoint
  BY DEF PointsInv, TypeOK
<1>1. HistoryOK' /\ Observation \subseteq Observation'
  BY <1>0, Grows
<1>2. 0..Len(history) \subseteq 0..Len(history')
  <2>1. Len(history) \in Nat /\ Len(history') = Len(history) + 1
    BY <1>0, Grows
  <2>. QED
    BY <2>1
<1>3. Job \subseteq Job'
  BY <1>1 DEF Job
<1>4. AicrewdOK'
  BY <1>0, <1>2 DEF AicrewdOK, aicrewdVars
<1>5. DiskOK'
  BY <1>0 DEF DiskOK, diskVars
<1>6. ReportsOK'
  <2>1. report' \in [Reporters -> [phase : {"idle", "content", "ready", "taken", "kept"}, o : Observation']]
    BY <1>0, <1>1 DEF ReportsOK
  <2>. QED
    BY <1>0, <2>1 DEF ReportsOK
<1>7. RunOK'
  <2>1. CASE run = NotRunning
    BY <2>1 DEF RunOK
  <2>2. CASE run # NotRunning
    <3>1. run \in [stage : {"ran", "announce"}, failed : BOOLEAN, job : Job]
      BY <1>0, <2>2 DEF RunOK
    <3>2. run' \in [stage : {"ran", "announce"}, failed : BOOLEAN, job : Job']
      BY <3>1, <1>3
    <3>. QED
      BY <1>0, <2>2, <3>2 DEF RunOK
  <2>. QED
    BY <2>1, <2>2
<1>8. JobsOK'
  BY <1>0, <1>3 DEF JobsOK
<1>9. OncePerPoint'
  BY <1>0, KeptOnce DEF diskVars
<1>. QED
  BY <1>1, <1>4, <1>5, <1>6, <1>7, <1>8, <1>9 DEF PointsInv, TypeOK

(* Whatever happens to the pull request brings a version of it.             *)
Comes(x) == x \in Version /\ Move(x)

(* A push brings a head named by its version.                               *)
LEMMA PushMoves ==
    ASSUME HistoryOK, Push
    PROVE  /\ Now.state # "merged"
           /\ \E x : Comes(x) /\ x.head = Len(history) + 1
<1>. DEFINE x == [Now EXCEPT !.head = Len(history) + 1, !.ci = "pending"]
<1>1. Now \in Version /\ Len(history) \in Nat
  BY VersionsAre
<1>2. Len(history) + 1 \in Int
  BY <1>1
<1>3. x \in Version /\ x.head = Len(history) + 1
  BY <1>1, <1>2 DEF Version, Conclusions
<1>4. Now.state # "merged" /\ Move(x)
  BY DEF Push
<1>5. Comes(x)
  BY <1>3, <1>4 DEF Comes
<1>. QED
  BY <1>3, <1>4, <1>5

(* A merge is final: what comes to the pull request comes before it.        *)
LEMMA ForgeMoves ==
    ASSUME HistoryOK, Forge
    PROVE  /\ Now.state # "merged"
           /\ \E x : /\ Comes(x)
                     /\ x.head = Now.head \/ \E v \in Versions : x.head = history[v].head
<1>0. Now \in Version /\ Len(history) \in Nat /\ \A v \in Versions : history[v] \in Version
  BY VersionsAre
<1>. DEFINE Goal == /\ Now.state # "merged"
                    /\ \E x : /\ Comes(x)
                              /\ x.head = Now.head \/ \E v \in Versions : x.head = history[v].head
<1>2. ASSUME NEW v \in Versions, Rewind(v)
      PROVE  Goal
  <2>. DEFINE x == [Now EXCEPT !.head = history[v].head, !.ci = history[v].ci]
  <2>1. history[v].head \in Int /\ history[v].ci \in Conclusions
    BY <1>0 DEF Version
  <2>2. x \in Version /\ x.head = history[v].head
    BY <1>0, <2>1 DEF Version
  <2>3. Now.state # "merged" /\ Move(x)
    BY <1>2 DEF Rewind
  <2>4. Comes(x)
    BY <2>2, <2>3 DEF Comes
  <2>. QED
    BY <2>2, <2>3, <2>4
<1>3. ASSUME NEW ci \in Conclusions, Conclude(ci)
      PROVE  Goal
  <2>. DEFINE x == [Now EXCEPT !.ci = ci]
  <2>1. x \in Version /\ x.head = Now.head
    BY <1>0 DEF Version
  <2>2. Now.state # "merged" /\ Move(x)
    BY <1>3 DEF Conclude
  <2>3. Comes(x)
    BY <2>1, <2>2 DEF Comes
  <2>. QED
    BY <2>1, <2>2, <2>3
<1>4. ASSUME NEW blocker \in BOOLEAN, Review(blocker)
      PROVE  Goal
  <2>. DEFINE x == [Now EXCEPT !.review = [id |-> @.id + 1, head |-> Now.head, blocker |-> blocker]]
  <2>1. Now.review.id \in Nat /\ Now.head \in Int
    BY <1>0 DEF Version, Reviews
  <2>2. [id |-> Now.review.id + 1, head |-> Now.head, blocker |-> blocker] \in Reviews
    BY <2>1 DEF Reviews
  <2>3. x \in Version /\ x.head = Now.head
    BY <1>0, <2>2 DEF Version
  <2>4. Now.state # "merged" /\ Move(x)
    BY <1>4 DEF Review
  <2>5. Comes(x)
    BY <2>3, <2>4 DEF Comes
  <2>. QED
    BY <2>3, <2>4, <2>5
<1>5. ASSUME NEW s \in States, Move([Now EXCEPT !.state = s]), Now.state # "merged"
      PROVE  Goal
  <2>. DEFINE x == [Now EXCEPT !.state = s]
  <2>1. x \in Version /\ x.head = Now.head
    BY <1>0 DEF Version
  <2>2. Comes(x)
    BY <1>5, <2>1 DEF Comes
  <2>. QED
    BY <1>5, <2>1, <2>2
<1>6. CASE Merge \/ Close \/ Reopen
  BY <1>5, <1>6 DEF Merge, Close, Reopen, States
<1>7. Merge \/ Close \/ Reopen \/ (\E v \in Versions : Rewind(v))
      \/ (\E ci \in Conclusions : Conclude(ci)) \/ (\E blocker \in BOOLEAN : Review(blocker))
  BY DEF Forge, Conclusions
<1>. QED
  BY <1>2, <1>3, <1>4, <1>6, <1>7

-----------------------------------------------------------------------------
(* The launcher's reports *)

(* A change of one reporter that names a version it has read is well formed. *)
LEMMA ReportChanges ==
    ASSUME TypeOK, UNCHANGED <<history, seen>>, NEW r \in Reporters,
           NEW x \in [phase : {"idle", "content", "ready", "taken", "kept"}, o : Observation],
           x.phase # "idle" => x.o.v # 0,
           report' = [report EXCEPT ![r] = x]
    PROVE  ReportsOK'
<1>1. Observation' = Observation
  BY Kept
<1>2. /\ report \in [Reporters -> [phase : {"idle", "content", "ready", "taken", "kept"}, o : Observation]]
      /\ \A s \in Reporters : report[s].phase # "idle" => report[s].o.v # 0
  BY DEF TypeOK, ReportsOK
<1>3. report' \in [Reporters -> [phase : {"idle", "content", "ready", "taken", "kept"}, o : Observation]]
  BY <1>2
<1>4. \A s \in Reporters : report'[s] = IF s = r THEN x ELSE report[s]
  BY <1>2
<1>5. \A s \in Reporters : report'[s].phase # "idle" => report'[s].o.v # 0
  BY <1>2, <1>4
<1>6. seen' \in {<<>>} \cup (Int \X Conclusions \X Nat)
  BY DEF TypeOK, ReportsOK
<1>. QED
  BY <1>1, <1>3, <1>5, <1>6 DEF ReportsOK

(* What a reporter is at.                                                   *)
LEMMA ReportIs ==
    ASSUME TypeOK, NEW r \in Reporters
    PROVE  /\ report[r] \in [phase : {"idle", "content", "ready", "taken", "kept"}, o : Observation]
           /\ report[r].phase # "idle" => report[r].o.v # 0 /\ report[r].o.v \in Versions
           /\ report[r].o.w # 0 => report[r].o.w \in Versions
<1>1. report[r] \in [phase : {"idle", "content", "ready", "taken", "kept"}, o : Observation]
      /\ (report[r].phase # "idle" => report[r].o.v # 0)
  BY DEF TypeOK, ReportsOK
<1>2. report[r].o.v \in 0..Len(history) /\ report[r].o.w \in 0..Len(history) /\ Len(history) \in Nat
  <2>1. report[r].o \in Observation
    BY <1>1
  <2>. QED
    BY <2>1, VersionsAre DEF Observation, TypeOK
<1>. QED
  BY <1>1, <1>2 DEF Versions

(* A reporter that moves on or leaves keeps its report well formed.         *)
LEMMA ReporterMoves ==
    ASSUME TypeOK, UNCHANGED <<history, seen>>, NEW r \in Reporters, report[r].phase # "idle",
           (\E phase \in {"ready", "taken", "kept"} : To(r, phase)) \/ Leave(r)
    PROVE  ReportsOK'
<1>1. report[r] \in [phase : {"idle", "content", "ready", "taken", "kept"}, o : Observation]
      /\ report[r].o.v # 0
  BY ReportIs
<1>2. ASSUME NEW phase \in {"ready", "taken", "kept"}, To(r, phase)
      PROVE  ReportsOK'
  <2>. DEFINE x == [report[r] EXCEPT !.phase = phase]
  <2>1. x \in [phase : {"idle", "content", "ready", "taken", "kept"}, o : Observation] /\ x.o.v # 0
    BY <1>1
  <2>2. report' = [report EXCEPT ![r] = x]
    BY <1>2 DEF To
  <2>. HIDE DEF x
  <2>. QED
    BY <2>1, <2>2, ReportChanges
<1>3. ASSUME Leave(r)
      PROVE  ReportsOK'
  <2>1. Idle \in [phase : {"idle", "content", "ready", "taken", "kept"}, o : Observation]
        /\ Idle.phase = "idle"
    BY Placeholders DEF Idle, TypeOK
  <2>2. report' = [report EXCEPT ![r] = Idle]
    BY <1>3 DEF Leave
  <2>. QED
    BY <2>1, <2>2, ReportChanges
<1>. QED
  BY <1>2, <1>3

(* What a reporter sends is what it read.                                   *)
LEMMA SentIs ==
    ASSUME TypeOK, NEW r \in Reporters, report[r].phase = "ready", NEW o \in Sent(r)
    PROVE  o \in Observation /\ o.v # 0
<1>1. report[r].o \in Observation /\ report[r].o.v # 0
  BY ReportIs
<1>2. PICK names \in Naming(report[r].o) :
        o = [report[r].o EXCEPT !.names = names,
                                !.prePush = (points.prePush = history[report[r].o.v].head)]
  BY DEF Sent
<1>3. names \in BOOLEAN
  BY DEF Naming
<1>. QED
  BY <1>1, <1>2, <1>3 DEF Observation

(* Serving a report, and failing to, keep the state well formed.            *)
LEMMA ServeKeeps ==
    ASSUME PointsInv, NEW r \in Reporters, Serve(r) \/ ReportFails(r)
    PROVE  PointsInv'
<1>0. TypeOK /\ OncePerPoint /\ report[r].phase = "ready" /\ UNCHANGED history
      /\ HistoryOK /\ AicrewdOK /\ DiskOK
  BY DEF PointsInv, TypeOK, Serve, ReportFails, At
<1>1. AicrewdOK'
  <2>1. CASE UNCHANGED aicrewdVars
    BY <1>0, <2>1, Kept
  <2>2. ASSUME NEW o \in Sent(r), Observe(o)
        PROVE  AicrewdOK'
    BY <1>0, <2>2, SentIs, ObserveKeeps
  <2>. QED
    BY <2>1, <2>2 DEF Serve, ReportFails
<1>2. HistoryOK'
  <2>1. steps' \in Nat
    BY <1>0, StepCounts DEF HistoryOK, Serve, ReportFails
  <2>. QED
    BY <1>0, <2>1, Kept
<1>3. DiskOK'
  BY <1>0 DEF DiskOK, Serve, ReportFails, diskVars
<1>4. ReportsOK'
  <2>1. UNCHANGED seen /\ ((\E phase \in {"ready", "taken", "kept"} : To(r, phase)) \/ Leave(r))
    BY DEF Serve, ReportFails
  <2>. QED
    BY <1>0, <2>1, ReporterMoves
<1>5. UNCHANGED <<points, jobs, run>>
  BY DEF Serve, ReportFails, diskVars
<1>6. RunOK' /\ JobsOK' /\ OncePerPoint'
  BY <1>0, <1>5, Kept, KeptOnce
<1>. QED
  BY <1>1, <1>2, <1>3, <1>4, <1>6 DEF PointsInv, TypeOK

(* Keeping the watch keeps the state well formed.                           *)
LEMMA WatchingKeeps ==
    ASSUME PointsInv, NEW r \in Reporters, Watching(r)
    PROVE  PointsInv'
<1>0. TypeOK /\ OncePerPoint /\ report[r].phase # "idle" /\ HistoryOK /\ DiskOK
  BY DEF PointsInv, TypeOK, Watching, At
<1>1. UNCHANGED <<history, aicrewdVars, points, cut, jobs, run, seen, steps>> /\ To(r, "kept")
      /\ watch' \in {"on", "ended"}
  BY DEF Watching
<1>2. HistoryOK' /\ AicrewdOK' /\ RunOK' /\ JobsOK' /\ OncePerPoint'
  BY <1>0, <1>1, Kept, KeptOnce DEF HistoryOK
<1>3. DiskOK'
  BY <1>0, <1>1 DEF DiskOK
<1>4. ReportsOK'
  BY <1>0, <1>1, ReporterMoves
<1>. QED
  BY <1>2, <1>3, <1>4 DEF PointsInv, TypeOK

(* Reading the content, failing to, and a member's own command keep it.     *)
LEMMA ReadingKeeps ==
    ASSUME PointsInv, ReadContent \/ ContentFails \/ Command
    PROVE  PointsInv'
<1>0. TypeOK /\ OncePerPoint /\ HistoryOK
  BY DEF PointsInv, TypeOK
<1>1. UNCHANGED <<history, aicrewdVars, diskVars, jobs, run, seen>> /\ steps' \in Nat
  BY <1>0, StepCounts DEF ReadContent, ContentFails, Command, HistoryOK
<1>2. HistoryOK' /\ AicrewdOK' /\ DiskOK' /\ RunOK' /\ JobsOK' /\ OncePerPoint'
  BY <1>0, <1>1, Kept, KeptOnce DEF diskVars
<1>3. Len(history) \in 0..Len(history) /\ 0 \in 0..Len(history) /\ Len(history) # 0
  BY <1>0, VersionsAre DEF HistoryOK
<1>4. ReportsOK'
  <2>1. CASE ReadContent
    <3>. DEFINE o == report["poll"].o
                w == IF Now.head = history[o.v].head THEN Len(history) ELSE 0
                x == [phase |-> "ready", o |-> [o EXCEPT !.w = w]]
    <3>1. o \in Observation /\ o.v # 0
      BY <1>0, <2>1, ReportIs DEF ReadContent, At, Reporters
    <3>2. w \in 0..Len(history)
      BY <1>3
    <3>3. report' = [report EXCEPT !["poll"] = x]
      BY <2>1 DEF ReadContent
    <3>. HIDE DEF w, o
    <3>4. x \in [phase : {"idle", "content", "ready", "taken", "kept"}, o : Observation] /\ x.o.v # 0
      BY <3>1, <3>2 DEF Observation
    <3>. HIDE DEF x
    <3>. QED
      BY <1>0, <1>1, <3>3, <3>4, ReportChanges DEF Reporters
  <2>2. CASE ContentFails
    BY <1>0, <1>1, <2>2, ReporterMoves DEF ContentFails, At, Reporters
  <2>3. CASE Command
    <3>. DEFINE x == [phase |-> "ready", o |-> [NoObservation EXCEPT !.v = Len(history), !.baseline = TRUE]]
    <3>1. x \in [phase : {"idle", "content", "ready", "taken", "kept"}, o : Observation] /\ x.o.v # 0
      BY <1>3 DEF NoObservation, Observation
    <3>2. report' = [report EXCEPT !["command"] = x]
      BY <2>3 DEF Command
    <3>. HIDE DEF x
    <3>. QED
      BY <1>0, <1>1, <3>1, <3>2, ReportChanges DEF Reporters
  <2>. QED
    BY <2>1, <2>2, <2>3
<1>. QED
  BY <1>2, <1>4 DEF PointsInv, TypeOK

-----------------------------------------------------------------------------
(* The points *)

(* What is in flight of no point and not recorded may be dispatched.        *)
LEMMA Dispatching ==
    ASSUME TypeOK, OncePerPoint, NEW ps \in SUBSET Points, NEW f \in [ps -> Job],
           \A p \in ps : /\ f[p].edge[1] = p /\ f[p].edge \notin points.fired
                         /\ ~InFlight(p) /\ Announced(f[p]),
           jobs' = jobs \cup {f[p] : p \in ps},
           UNCHANGED <<history, run>>, points'.fired = points.fired
    PROVE  JobsOK' /\ OncePerPoint' /\ RunOK'
<1>1. Job' = Job /\ RunOK' /\ JobsOK
  BY Kept DEF TypeOK
<1>2. \A j \in jobs' : j \in jobs \/ \E p \in ps : j = f[p]
  OBVIOUS
<1>3. JobsOK'
  BY <1>1, <1>2 DEF JobsOK
<1>4. \A j \in jobs' : j.edge \notin points'.fired
  BY <1>2 DEF OncePerPoint
<1>5. \A j, k \in jobs' : j.edge[1] = k.edge[1] => j = k
  <2>1. \A p \in ps : \A j \in jobs : j.edge[1] # p
    BY DEF InFlight
  <2>. QED
    BY <1>2, <2>1 DEF OncePerPoint
<1>6. run'.stage = "ran" =>
        run'.job.edge \notin points'.fired /\ \A j \in jobs' : j.edge[1] # run'.job.edge[1]
  BY <1>2 DEF OncePerPoint, InFlight
<1>. QED
  BY <1>1, <1>3, <1>4, <1>5, <1>6 DEF OncePerPoint

(* A poll keeps the state well formed: it dispatches the merge once.        *)
LEMMA PollKeeps ==
    ASSUME PointsInv, Poll
    PROVE  PointsInv'
<1>0. TypeOK /\ OncePerPoint /\ HistoryOK
  BY DEF PointsInv, TypeOK
<1>1. UNCHANGED <<history, aicrewdVars, diskVars, run, seen, steps>>
  BY DEF Poll
<1>2. HistoryOK' /\ AicrewdOK' /\ DiskOK'
  BY <1>0, <1>1, Kept DEF HistoryOK
<1>3. RunOK' /\ JobsOK' /\ OncePerPoint'
  <2>1. CASE PendingMerge /\ ~InFlight("after-merge")
    <3>. DEFINE j == [edge |-> <<"after-merge", 0>>, o |-> NoObservation]
                f == [p \in {"after-merge"} |-> j]
    <3>1. j \in Job /\ j.edge = <<"after-merge", 0>> /\ Announced(j)
      BY <1>0, Placeholders DEF Job, Points, Announced
    <3>2. j.edge \notin points.fired
      BY <2>1 DEF PendingMerge
    <3>3. jobs' = jobs \cup {j}
      BY <2>1 DEF Poll
    <3>. HIDE DEF j
    <3>4. jobs' = jobs \cup {f[p] : p \in {"after-merge"}}
      BY <3>3
    <3>5. f \in [{"after-merge"} -> Job] /\ f["after-merge"] = j
      BY <3>1
    <3>6. {"after-merge"} \in SUBSET Points /\ points'.fired = points.fired
      BY <1>1 DEF Points, diskVars
    <3>. HIDE DEF f
    <3>. QED
      BY <1>0, <1>1, <2>1, <3>1, <3>2, <3>4, <3>5, <3>6, Dispatching
  <2>2. CASE ~(PendingMerge /\ ~InFlight("after-merge"))
    <3>1. UNCHANGED <<points, jobs, run>>
      BY <2>2 DEF Poll, diskVars
    <3>. QED
      BY <1>0, <1>1, <3>1, Kept, KeptOnce
  <2>. QED
    BY <2>1, <2>2
<1>4. ReportsOK'
  <2>1. CASE watch = "on"
    <3>. DEFINE x == [phase |-> IF WantsContent(Len(history)) THEN "content" ELSE "ready",
                      o |-> [NoObservation EXCEPT !.v = Len(history)]]
    <3>1. Len(history) \in 0..Len(history) /\ 0 \in 0..Len(history) /\ Len(history) # 0
      BY <1>0, VersionsAre DEF HistoryOK
    <3>2. x \in [phase : {"idle", "content", "ready", "taken", "kept"}, o : Observation] /\ x.o.v # 0
      BY <3>1 DEF NoObservation, Observation
    <3>3. report' = [report EXCEPT !["poll"] = x]
      BY <2>1 DEF Poll
    <3>. HIDE DEF x
    <3>. QED
      BY <1>0, <1>1, <3>2, <3>3, ReportChanges DEF Reporters
  <2>2. CASE watch # "on"
    BY <1>0, <1>1, <2>2, Kept DEF Poll
  <2>. QED
    BY <2>1, <2>2
<1>. QED
  BY <1>2, <1>3, <1>4 DEF PointsInv, TypeOK

(* Noticing an observation keeps the state well formed: each point whose    *)
(* edge it is goes once.                                                    *)
LEMMA NoticeKeeps ==
    ASSUME PointsInv, NEW r \in Reporters, Notice(r)
    PROVE  PointsInv'
<1>. DEFINE o == report[r].o
            version == history[o.v]
            review == IF o.w # 0 THEN history[o.w].review ELSE points.review
            ps == {q \in EdgesAt(version, review) : Fires(q, version)}
            f == [p \in ps |-> [edge |-> Edge(p, version),
                                o |-> IF p = "after-push" THEN o ELSE NoObservation]]
<1>0. TypeOK /\ OncePerPoint /\ HistoryOK /\ AicrewdOK /\ DiskOK /\ report[r].phase = "kept"
  BY DEF PointsInv, TypeOK, Notice, At
<1>1. /\ UNCHANGED <<history, record, queued, told, hushed, left, watch, cut, run, steps>>
      /\ Leave(r)
      /\ points' = [points EXCEPT !.state = version.state, !.review = review]
      /\ jobs' = jobs \cup {[edge |-> Edge(p, version),
                             o |-> IF p = "after-push" THEN o ELSE NoObservation] : p \in ps}
      /\ seen' = IF o.w # 0 THEN Summary(o.v) ELSE seen
      /\ late' = (late \/ (points.state = "merged" /\ version.state # "merged"))
  BY DEF Notice
<1>2. o \in Observation /\ o.v # 0 /\ o.v \in Versions /\ version \in Version
  BY <1>0, ReportIs, VersionsAre
<1>3. review \in Reviews
  <2>1. o.w # 0 => history[o.w] \in Version
    BY <1>0, ReportIs, VersionsAre
  <2>2. points.review \in Reviews
    BY <1>0 DEF DiskOK
  <2>. QED
    BY <2>1, <2>2 DEF Version
<1>4. HistoryOK'
  BY <1>0, <1>1, Kept DEF HistoryOK
<1>5. AicrewdOK'
  BY <1>0, <1>1 DEF AicrewdOK
<1>. HIDE DEF review
<1>6. DiskOK'
  BY <1>0, <1>1, <1>2, <1>3 DEF DiskOK, Version
<1>7. ReportsOK'
  <2>1. report' = [report EXCEPT ![r] = Idle] /\ Idle \in [phase : {"idle"}, o : Observation]
    BY <1>0, <1>1, Placeholders DEF Leave, Idle
  <2>2. /\ report \in [Reporters -> [phase : {"idle", "content", "ready", "taken", "kept"}, o : Observation]]
        /\ \A s \in Reporters : report[s].phase # "idle" => report[s].o.v # 0
        /\ seen \in {<<>>} \cup (Int \X Conclusions \X Nat)
    BY <1>0 DEF TypeOK, ReportsOK
  <2>3. Idle \in [phase : {"idle", "content", "ready", "taken", "kept"}, o : Observation] /\ Idle.phase = "idle"
    BY <2>1
  <2>4. report' \in [Reporters -> [phase : {"idle", "content", "ready", "taken", "kept"}, o : Observation]]
    BY <2>1, <2>2, <2>3
  <2>5. \A s \in Reporters : report'[s].phase # "idle" => report'[s].o.v # 0
    BY <2>1, <2>2, <2>3
  <2>6. Summary(o.v) \in Int \X Conclusions \X Nat
    <3>1. version.head \in Int /\ version.ci \in Conclusions /\ version.review \in Reviews
      BY <1>2 DEF Version
    <3>2. version.review.id \in Nat
      BY <3>1 DEF Reviews
    <3>. QED
      BY <3>1, <3>2 DEF Summary
  <2>7. Observation' = Observation
    BY <1>0, <1>1, Kept
  <2>. HIDE DEF o
  <2>8. seen' \in {<<>>} \cup (Int \X Conclusions \X Nat)
    BY <1>1, <2>2, <2>6
  <2>. QED
    BY <2>4, <2>5, <2>7, <2>8 DEF ReportsOK
<1>8. JobsOK' /\ OncePerPoint' /\ RunOK'
  <2>1. ps \in SUBSET Points
    BY DEF EdgesAt
  <2>2. \A p \in ps : /\ Edge(p, version) \in Points \X Int /\ Edge(p, version)[1] = p
                      /\ Edge(p, version) \notin points.fired /\ ~InFlight(p)
    <3>1. version.head \in Int
      BY <1>2 DEF Version
    <3>2. \A p \in Points : Edge(p, version) \in Points \X Int /\ Edge(p, version)[1] = p
      BY <3>1 DEF Edge
    <3>. QED
      BY <2>1, <3>2 DEF Fires
  <2>3. NoObservation \in Observation
    BY <1>0, Placeholders
  <2>. HIDE DEF ps, version, o
  <2>4. f \in [ps -> Job]
    BY <1>2, <2>2, <2>3 DEF Job
  <2>5. \A p \in ps : /\ f[p].edge[1] = p /\ f[p].edge \notin points.fired /\ ~InFlight(p)
                      /\ Announced(f[p])
    BY <1>2, <2>2 DEF Announced
  <2>6. jobs' = jobs \cup {f[p] : p \in ps}
    BY <1>1
  <2>7. points'.fired = points.fired
    BY <1>0, <1>1 DEF DiskOK
  <2>. HIDE DEF f
  <2>. QED
    BY <1>0, <1>1, <2>1, <2>4, <2>5, <2>6, <2>7, Dispatching
<1>. QED
  BY <1>4, <1>5, <1>6, <1>7, <1>8 DEF PointsInv, TypeOK

(* Taking a dispatched point, to run it or because it could not be prepared, *)
(* keeps the state well formed.                                             *)
LEMMA StartKeeps ==
    ASSUME PointsInv, NEW j \in jobs, RunPoint(j) \/ NotPrepared(j)
    PROVE  PointsInv'
<1>0. TypeOK /\ OncePerPoint /\ HistoryOK /\ j \in Job /\ Announced(j) /\ jobs \subseteq Job
      /\ \A k \in jobs : Announced(k)
  BY DEF PointsInv, TypeOK, JobsOK
<1>1. /\ UNCHANGED <<history, aicrewdVars, diskVars, report, seen>> /\ steps' \in Nat
      /\ run = NotRunning /\ jobs' = jobs \ {j}
  BY <1>0, StepCounts DEF RunPoint, NotPrepared, HistoryOK
<1>2. HistoryOK' /\ AicrewdOK' /\ DiskOK' /\ ReportsOK' /\ Job' = Job
  BY <1>0, <1>1, Kept
<1>3. JobsOK'
  BY <1>0, <1>1, <1>2 DEF JobsOK
<1>4. points' = points
  BY <1>1 DEF diskVars
<1>5. CASE RunPoint(j)
  <2>1. PICK failed \in BOOLEAN : /\ failed => j.edge[1] = "after-push"
                                  /\ run' = [stage |-> "ran", failed |-> failed, job |-> j]
    BY <1>5 DEF RunPoint
  <2>2. run' \in [stage : {"ran", "announce"}, failed : BOOLEAN, job : Job']
    BY <1>0, <1>2, <2>1
  <2>3. RunOK'
    BY <1>0, <2>1, <2>2 DEF RunOK
  <2>4. OncePerPoint'
    BY <1>0, <1>1, <1>4, <2>1 DEF OncePerPoint
  <2>. QED
    BY <1>2, <1>3, <2>3, <2>4 DEF PointsInv, TypeOK
<1>6. CASE NotPrepared(j)
  <2>1. UNCHANGED run
    BY <1>6 DEF NotPrepared
  <2>2. RunOK'
    BY <1>0, <1>1, <2>1, Kept
  <2>3. OncePerPoint'
    BY <1>0, <1>1, <1>4, <2>1 DEF OncePerPoint
  <2>. QED
    BY <1>2, <1>3, <2>2, <2>3 DEF PointsInv, TypeOK
<1>. QED
  BY <1>5, <1>6

(* Recording a point keeps the state well formed: none in flight has its    *)
(* edge.                                                                    *)
LEMMA RecordKeeps ==
    ASSUME PointsInv, RecordPoint
    PROVE  PointsInv'
<1>0. TypeOK /\ OncePerPoint /\ HistoryOK /\ DiskOK /\ jobs \subseteq Job /\ run.stage = "ran"
  BY DEF PointsInv, TypeOK, JobsOK, RecordPoint
<1>1. run \in [stage : {"ran", "announce"}, failed : BOOLEAN, job : Job] /\ Announced(run.job)
      /\ (run.failed => run.job.edge[1] = "after-push")
  BY <1>0 DEF TypeOK, RunOK, NotRunning
<1>2. run.job.edge \in Points \X Int
  BY <1>1 DEF Job
<1>3. UNCHANGED <<history, aicrewdVars, watch, cut, report, jobs, seen, steps>>
  BY DEF RecordPoint
<1>4. HistoryOK' /\ AicrewdOK' /\ ReportsOK' /\ JobsOK' /\ Job' = Job
  BY <1>0, <1>3, Kept DEF HistoryOK
<1>5. points \in [state : States, review : Reviews, fired : SUBSET (Points \X Int), prePush : Int]
  BY <1>0 DEF DiskOK
<1>6. \E n \in Int : points' = [points EXCEPT !.fired = points.fired \cup {run.job.edge}, !.prePush = n]
  <2>. DEFINE n == IF run.job.edge[1] # "after-push" THEN points.prePush
                   ELSE IF run.failed THEN run.job.edge[2] ELSE 0
  <2>1. n \in Int
    BY <1>2, <1>5
  <2>2. points' = [points EXCEPT !.fired = points.fired \cup {run.job.edge}, !.prePush = n]
    BY DEF RecordPoint
  <2>. QED
    BY <2>1, <2>2
<1>7. /\ points' \in [state : States, review : Reviews, fired : SUBSET (Points \X Int), prePush : Int]
      /\ points'.fired = points.fired \cup {run.job.edge}
  <2>1. PICK n \in Int : points' = [points EXCEPT !.fired = points.fired \cup {run.job.edge}, !.prePush = n]
    BY <1>6
  <2>2. points.fired \cup {run.job.edge} \in SUBSET (Points \X Int)
    BY <1>2, <1>5
  <2>. QED
    BY <1>5, <2>1, <2>2
<1>8. DiskOK'
  BY <1>0, <1>3, <1>7 DEF DiskOK
<1>9. run' = IF run.failed THEN [run EXCEPT !.stage = "announce"] ELSE NotRunning
  BY DEF RecordPoint
<1>10. RunOK' /\ run'.stage # "ran"
  <2>1. CASE run.failed
    <3>1. run' \in [stage : {"ran", "announce"}, failed : BOOLEAN, job : Job']
          /\ run'.job = run.job /\ run'.stage = "announce" /\ run'.failed
      BY <1>1, <1>4, <1>9, <2>1
    <3>. QED
      BY <1>1, <2>1, <3>1 DEF RunOK, Announced
  <2>2. CASE ~run.failed
    BY <1>9, <2>2 DEF RunOK, NotRunning
  <2>. QED
    BY <2>1, <2>2
<1>11. OncePerPoint'
  <2>1. \A j \in jobs : j.edge # run.job.edge
    BY <1>0 DEF OncePerPoint
  <2>. QED
    BY <1>0, <1>3, <1>7, <1>10, <2>1 DEF OncePerPoint
<1>. QED
  BY <1>4, <1>8, <1>10, <1>11 DEF PointsInv, TypeOK

(* Sending a failed check again, or failing to, keeps the state well formed. *)
LEMMA AnnounceKeeps ==
    ASSUME PointsInv, Announce \/ AnnounceFails
    PROVE  PointsInv'
<1>0. TypeOK /\ OncePerPoint /\ HistoryOK /\ AicrewdOK /\ run.stage = "announce"
  BY DEF PointsInv, TypeOK, Announce, AnnounceFails
<1>1. run \in [stage : {"ran", "announce"}, failed : BOOLEAN, job : Job]
      /\ run.job.edge[1] = "after-push" /\ Announced(run.job)
  BY <1>0 DEF TypeOK, RunOK, NotRunning
<1>2. run.job.o \in Observation /\ run.job.o.v # 0
  BY <1>1 DEF Job, Announced
<1>3. UNCHANGED <<history, diskVars, report, jobs, seen>> /\ steps' \in Nat /\ run' = NotRunning
  BY <1>0, StepCounts DEF Announce, AnnounceFails, HistoryOK
<1>4. HistoryOK' /\ DiskOK' /\ ReportsOK' /\ JobsOK'
  BY <1>0, <1>3, Kept
<1>5. AicrewdOK'
  <2>1. CASE UNCHANGED aicrewdVars
    BY <1>0, <1>3, <2>1, Kept
  <2>2. ASSUME NEW names \in Naming(run.job.o),
               Observe([run.job.o EXCEPT !.baseline = FALSE, !.names = names, !.prePush = TRUE])
        PROVE  AicrewdOK'
    <3>. DEFINE o == [run.job.o EXCEPT !.baseline = FALSE, !.names = names, !.prePush = TRUE]
    <3>1. names \in BOOLEAN
      BY DEF Naming
    <3>2. o \in Observation /\ o.v # 0
      BY <1>2, <3>1 DEF Observation
    <3>. HIDE DEF o
    <3>3. Observe(o)
      BY <2>2 DEF o
    <3>. QED
      BY <1>0, <1>3, <3>2, <3>3, ObserveKeeps
  <2>. QED
    BY <2>1, <2>2 DEF Announce, AnnounceFails
<1>6. RunOK'
  BY <1>3 DEF RunOK, NotRunning
<1>7. OncePerPoint'
  <2>1. points' = points
    BY <1>3 DEF diskVars
  <2>. QED
    BY <1>0, <1>3, <2>1 DEF OncePerPoint, NotRunning
<1>. QED
  BY <1>4, <1>5, <1>6, <1>7 DEF PointsInv, TypeOK

(* The launcher's stop keeps what its files say.                            *)
LEMMA CrashKeeps ==
    ASSUME PointsInv, Crash
    PROVE  PointsInv'
<1>0. TypeOK /\ OncePerPoint /\ HistoryOK /\ DiskOK
  BY DEF PointsInv, TypeOK
<1>1. /\ UNCHANGED <<history, aicrewdVars, watch, points>> /\ steps' \in Nat
      /\ report' = [r \in Reporters |-> Idle] /\ jobs' = {} /\ run' = NotRunning /\ seen' = <<>>
  BY <1>0, StepCounts DEF Crash
<1>2. HistoryOK' /\ AicrewdOK' /\ Observation' = Observation
  BY <1>0, <1>1, Kept
<1>3. cut' \in BOOLEAN
  BY <1>0 DEF Crash, DiskOK
<1>4. DiskOK'
  BY <1>0, <1>1, <1>3 DEF DiskOK
<1>5. ReportsOK'
  <2>1. Idle \in [phase : {"idle", "content", "ready", "taken", "kept"}, o : Observation] /\ Idle.phase = "idle"
    BY <1>0, Placeholders DEF Idle
  <2>. QED
    BY <1>1, <1>2, <2>1 DEF ReportsOK
<1>6. RunOK' /\ JobsOK' /\ OncePerPoint'
  BY <1>1 DEF RunOK, JobsOK, OncePerPoint, NotRunning
<1>. QED
  BY <1>2, <1>4, <1>5, <1>6 DEF PointsInv, TypeOK

(* Telling the worker keeps the state well formed.                          *)
LEMMA WakeKeeps ==
    ASSUME PointsInv, Wake
    PROVE  PointsInv'
<1>0. TypeOK /\ OncePerPoint /\ HistoryOK /\ AicrewdOK
  BY DEF PointsInv, TypeOK
<1>1. UNCHANGED <<history, record, late, hushed, left, diskVars, report, jobs, run, seen, steps>>
      /\ queued' = {}
  BY DEF Wake
<1>2. HistoryOK' /\ DiskOK' /\ ReportsOK' /\ RunOK' /\ JobsOK' /\ OncePerPoint'
  BY <1>0, <1>1, Kept, KeptOnce DEF HistoryOK, diskVars
<1>. DEFINE holding == {k \in queued : Holds(k, history[record.v], record.review, record.prePush)}
<1>3. \A n \in holding : About(n, history[record.v], record.review) \in Decisions \X Int
  <2>1. record.v \in 0..Len(history) /\ record.v # 0 /\ record.review \in Reviews
    BY <1>0 DEF AicrewdOK, Wake
  <2>2. history[record.v] \in Version
    <3>1. Len(history) \in Nat /\ \A v \in Versions : history[v] \in Version
      BY <1>0, VersionsAre
    <3>. QED
      BY <2>1, <3>1 DEF Versions
  <2>3. queued \subseteq Decisions
    BY <1>0 DEF AicrewdOK
  <2>. QED
    BY <2>1, <2>2, <2>3, AboutIs
<1>4. told' \subseteq Decisions \X Int
  BY <1>0, <1>3 DEF Wake, AicrewdOK
<1>. QED
  BY <1>0, <1>1, <1>2, <1>4 DEF PointsInv, TypeOK, AicrewdOK

-----------------------------------------------------------------------------
(* Every step of the pull request and its launcher *)

(* The initial states are well formed.                                      *)
LEMMA PointsStart == ASSUME Init PROVE PointsInv
<1>1. PICK ci \in {"success", "failure"} :
        history = <<[state |-> "open", head |-> 1, ci |-> ci, review |-> NoReview]>>
  BY DEF Init
<1>2. NoReview \in Reviews
  BY DEF NoReview, Reviews
<1>. DEFINE x == [state |-> "open", head |-> 1, ci |-> ci, review |-> NoReview]
<1>3. x \in Version
  BY <1>2 DEF Version, States, Conclusions
<1>. HIDE DEF x
<1>4. history = <<x>>
  BY <1>1 DEF x
<1>5. history \in Seq(Version) /\ Len(history) = 1
  BY <1>3, <1>4
<1>6. HistoryOK
  BY <1>5 DEF Init, HistoryOK
<1>7. AicrewdOK
  <2>1. NoRecord \in [v : 0..Len(history), review : Reviews, prePush : BOOLEAN]
    BY <1>2, <1>5 DEF NoRecord
  <2>. QED
    BY <2>1 DEF Init, AicrewdOK
<1>8. DiskOK
  <2>1. NoPoints \in [state : States, review : Reviews, fired : SUBSET (Points \X Int), prePush : Int]
    <3>1. {} \in SUBSET (Points \X Int) /\ "open" \in States
      BY DEF States
    <3>. QED
      BY <1>2, <3>1 DEF NoPoints
  <2>. QED
    BY <2>1 DEF Init, DiskOK
<1>9. ReportsOK
  BY <1>6, Placeholders DEF Init, ReportsOK, Idle
<1>10. RunOK /\ JobsOK /\ OncePerPoint
  BY DEF Init, RunOK, JobsOK, OncePerPoint, NotRunning
<1>. QED
  BY <1>6, <1>7, <1>8, <1>9, <1>10 DEF PointsInv, TypeOK

(* A version of the pull request keeps the state well formed.               *)
LEMMA VersionKeeps ==
    ASSUME PointsInv, Forge \/ Push
    PROVE  PointsInv'
<1>1. HistoryOK
  BY DEF PointsInv, TypeOK
<1>2. PICK x : Comes(x)
  <2>1. CASE Forge
    BY <1>1, <2>1, ForgeMoves
  <2>2. CASE Push
    BY <1>1, <2>2, PushMoves
  <2>. QED
    BY <2>1, <2>2
<1>3. steps' \in Nat
  BY <1>1, <1>2, StepCounts DEF Comes, Move
<1>. QED
  BY <1>2, <1>3, GrowsKeeps DEF Comes, Move

(* So does whatever happens beside a script's host calls.                   *)
LEMMA BesideKeeps ==
    ASSUME PointsInv, Beside
    PROVE  PointsInv'
<1>1. CASE Forge
  BY <1>1, VersionKeeps
<1>2. CASE Wake
  BY <1>2, WakeKeeps
<1>3. ASSUME NEW r \in Reporters, Reports(r) \/ ReportFails(r)
      PROVE  PointsInv'
  BY <1>3, ServeKeeps, WatchingKeeps, NoticeKeeps DEF Reports
<1>4. CASE Command \/ ReadContent \/ ContentFails
  BY <1>4, ReadingKeeps
<1>5. CASE Poll
  BY <1>5, PollKeeps
<1>6. CASE StartPoint \/ \E j \in jobs : NotPrepared(j)
  BY <1>6, StartKeeps DEF StartPoint
<1>7. CASE Announce \/ AnnounceFails
  BY <1>7, AnnounceKeeps
<1>. QED
  BY <1>1, <1>2, <1>3, <1>4, <1>5, <1>6, <1>7 DEF Beside, PollGoesOn, Faulty, Reporters

(* A state that does not change stays well formed.                          *)
LEMMA StutterKeeps ==
    ASSUME PointsInv, UNCHANGED vars
    PROVE  PointsInv'
<1>1. UNCHANGED <<history, aicrewdVars, diskVars, report, jobs, run, seen, steps>>
  BY DEF vars
<1>2. HistoryOK /\ TypeOK /\ OncePerPoint
  BY DEF PointsInv, TypeOK
<1>3. steps' \in Nat /\ points' = points
  BY <1>1, <1>2 DEF HistoryOK, diskVars
<1>. QED
  BY <1>1, <1>2, <1>3, Kept, KeptOnce DEF PointsInv, TypeOK

(* Counting a fault changes nothing else.                                   *)
LEMMA FaultKeeps ==
    ASSUME PointsInv, UNCHANGED <<history, aicrewdVars, diskVars, report, jobs, run, seen>>,
           steps' \in Nat
    PROVE  PointsInv'
<1>1. TypeOK /\ OncePerPoint /\ points' = points
  BY DEF PointsInv, diskVars
<1>. QED
  BY <1>1, Kept, KeptOnce DEF PointsInv, TypeOK

-----------------------------------------------------------------------------
(* The branch and the heads it was at *)

(* What the invariant says of the branch, of the calls and of the effects.  *)
LEMMA Parts ==
    ASSUME BaseInv
    PROVE  /\ HistoryOK /\ OriginOK /\ CallOK /\ HeadsAreNew /\ NotesInv /\ UpdateCallInv
           /\ RerunsInv /\ CutIsCompletable /\ EffectsOnce /\ PointsInv
           /\ update \in Update /\ call \in Call /\ Now \in Version /\ Now.head \in Int
           /\ Len(history) \in Nat /\ Len(history) \in Versions
<1>1. HistoryOK
  BY DEF BaseInv, PointsInv, TypeOK
<1>. QED
  BY <1>1, VersionsAre DEF BaseInv, EffectsInv, CallOK, Version

(* A new head, or one the branch was at, comes after what it names.         *)
LEMMA HeadsGrow ==
    ASSUME BaseInv, NEW x \in Version, history' = Append(history, x), steps' \in Nat,
           Now.state # "merged", -x.head < Len(history) + 1,
           has' \in [DOMAIN has' -> Nat], DOMAIN has \subseteq DOMAIN has', x.head \in DOMAIN has'
    PROVE  /\ HeadsAreNew'
           /\ \A v \in Versions' : history'[v].head \in DOMAIN has'
           /\ \A h \in Int : Before(h) => Before(h)'
           /\ \A h \in Int : Left(h) => Left(h)'
<1>0. HistoryOK /\ OriginOK /\ HeadsAreNew
  BY Parts
<1>1. /\ Len(history') = Len(history) + 1 /\ Len(history) \in Nat
      /\ Versions' = Versions \cup {Len(history) + 1} /\ Len(history) + 1 \notin Versions
      /\ \A v \in Versions : history'[v] = history[v]
      /\ history'[Len(history) + 1] = x
  BY <1>0, Grows
<1>2. HeadsAreNew'
  BY <1>0, <1>1 DEF HeadsAreNew
<1>3. \A v \in Versions' : history'[v].head \in DOMAIN has'
  BY <1>0, <1>1 DEF OriginOK
<1>4. \A h \in Int : Before(h) => Before(h)'
  BY <1>1 DEF Before
<1>5. \A h \in Int : Left(h) => Left(h)'
  BY <1>1 DEF Left
<1>. QED
  BY <1>2, <1>3, <1>4, <1>5

(* A branch that others move stays at the head of an update, or leaves it.  *)
LEMMA CutGrows ==
    ASSUME BaseInv, NEW x \in Version, history' = Append(history, x), steps' \in Nat,
           \A h \in Int : Left(h) => Left(h)',
           \/ x.head = Now.head \/ x.head >= 0 \/ \E v \in Versions : x.head = history[v].head,
           UNCHANGED <<done, update>>
    PROVE  CutIsCompletable'
<1>0. HistoryOK /\ CutIsCompletable /\ Len(history) \in Nat /\ Len(history) \in Versions
      /\ Now.head \in Int
  BY Parts
<1>1. /\ Len(history') = Len(history) + 1 /\ Now' = x
      /\ Versions' = Versions \cup {Len(history) + 1}
      /\ \A v \in Versions : history'[v] = history[v]
      /\ history'[Len(history) + 1] = x
  BY <1>0, Grows
<1>2. CASE x.head = Now.head
  BY <1>0, <1>1, <1>2 DEF CutIsCompletable
<1>3. CASE x.head >= 0
  <2>1. x.head \in Int
    BY DEF Version
  <2>2. ~(x.head < 0)
    BY <1>3, <2>1
  <2>. QED
    BY <1>1, <2>2 DEF CutIsCompletable
<1>4. ASSUME NEW v \in Versions, x.head = history[v].head, x.head # Now.head
      PROVE  CutIsCompletable'
  <2>1. v < Len(history)
    BY <1>0, <1>4 DEF Versions, Now
  <2>2. /\ v \in Versions' /\ Len(history) \in Versions'
        /\ history'[v].head = x.head /\ history'[Len(history)].head # x.head
    BY <1>0, <1>1, <1>4 DEF Now
  <2>3. Left(x.head)'
    BY <2>1, <2>2 DEF Left
  <2>. QED
    BY <1>1, <2>3 DEF CutIsCompletable
<1>. QED
  BY <1>2, <1>3, <1>4

(* Effects and calls that stay as they are, under a branch that moves on.   *)
LEMMA EffectsGrow ==
    ASSUME BaseInv, \A h \in Int : Before(h) => Before(h)', Versions \subseteq Versions',
           UNCHANGED <<keptVars, call, ghostVars>>
    PROVE  CallOK' /\ NotesInv' /\ UpdateCallInv' /\ RerunsInv' /\ EffectsOnce'
<1>0. CallOK /\ NotesInv /\ UpdateCallInv /\ RerunsInv /\ EffectsOnce /\ update \in Update
  BY Parts
<1>1. UNCHANGED <<update, reruns, call, done, again, unsure>>
  BY DEF keptVars, ghostVars
<1>2. CallOK' /\ RerunsInv' /\ EffectsOnce'
  BY <1>0, <1>1 DEF CallOK, RerunsInv, EffectsOnce
<1>3. NotesInv'
  <2>1. \A e \in done : e[2] \in Int
    BY <1>0 DEF CallOK, Effects
  <2>. QED
    BY <1>0, <1>1, <2>1 DEF NotesInv
<1>4. UpdateCallInv'
  <2>1. update.new \in Int
    BY <1>0 DEF Update
  <2>. QED
    BY <1>0, <1>1, <2>1 DEF UpdateCallInv
<1>. QED
  BY <1>2, <1>3, <1>4

-----------------------------------------------------------------------------
(* Steps beside the host calls *)

(* What leaves the branch and the calls alone keeps the effects.            *)
LEMMA CallsUntouched ==
    ASSUME BaseInv, UNCHANGED <<history, baseVars>>
    PROVE  EffectsInv'
<1>0. OriginOK /\ CallOK /\ HeadsAreNew /\ NotesInv /\ UpdateCallInv /\ RerunsInv
      /\ CutIsCompletable /\ EffectsOnce
  BY Parts
<1>1. UNCHANGED <<history, base, has, update, reruns, call, done, again, unsure>>
  BY DEF baseVars, originVars, keptVars, ghostVars
<1>2. Versions' = Versions /\ Now' = Now
  BY <1>1 DEF Versions, Now
<1>3. \A h : Before(h)' <=> Before(h)
  BY <1>1, <1>2 DEF Before
<1>4. \A h : Left(h)' <=> Left(h)
  BY <1>1, <1>2 DEF Left
<1>5. OriginOK' /\ CallOK' /\ HeadsAreNew'
  BY <1>0, <1>1, <1>2 DEF OriginOK, CallOK, HeadsAreNew
<1>6. NotesInv' /\ UpdateCallInv'
  BY <1>0, <1>1, <1>2, <1>3 DEF NotesInv, UpdateCallInv
<1>7. RerunsInv' /\ EffectsOnce'
  BY <1>0, <1>1 DEF RerunsInv, EffectsOnce
<1>8. CutIsCompletable'
  BY <1>0, <1>1, <1>2, <1>4 DEF CutIsCompletable
<1>. QED
  BY <1>5, <1>6, <1>7, <1>8 DEF EffectsInv

(* What happens to the pull request keeps the effects.                      *)
LEMMA ForgeEffects ==
    ASSUME BaseInv, Forge, UNCHANGED baseVars
    PROVE  EffectsInv'
<1>0. HistoryOK /\ OriginOK /\ HeadsAreNew /\ Len(history) \in Nat /\ Len(history) \in Versions
  BY Parts
<1>1. PICK x : /\ Comes(x) /\ Now.state # "merged"
               /\ x.head = Now.head \/ \E v \in Versions : x.head = history[v].head
  BY <1>0, ForgeMoves
<1>2. x \in Version /\ history' = Append(history, x) /\ steps' \in Nat
  BY <1>0, <1>1, StepCounts DEF Comes, Move
<1>3. UNCHANGED <<base, has, keptVars, call, ghostVars>>
  BY DEF baseVars, originVars
<1>4. PICK v \in Versions : x.head = history[v].head
  BY <1>0, <1>1 DEF Now
<1>5. x.head \in DOMAIN has
  BY <1>0, <1>4 DEF OriginOK
<1>6. -x.head < Len(history) + 1
  <2>1. -history[v].head < v
    BY <1>0 DEF HeadsAreNew
  <2>2. v \in Nat /\ v <= Len(history) /\ history[v].head \in Int
    BY <1>0, VersionsAre DEF Versions, Version
  <2>. QED
    BY <1>0, <1>4, <2>1, <2>2
<1>7. /\ HeadsAreNew' /\ \A w \in Versions' : history'[w].head \in DOMAIN has'
      /\ \A h \in Int : Before(h) => Before(h)'
      /\ \A h \in Int : Left(h) => Left(h)'
  <2>1. has' \in [DOMAIN has' -> Nat] /\ DOMAIN has \subseteq DOMAIN has' /\ x.head \in DOMAIN has'
    BY <1>0, <1>3, <1>5 DEF OriginOK
  <2>. QED
    BY <1>1, <1>2, <1>6, <2>1, HeadsGrow
<1>8. OriginOK'
  BY <1>0, <1>3, <1>7 DEF OriginOK
<1>9. CutIsCompletable'
  <2>1. UNCHANGED <<done, update>>
    BY <1>3 DEF keptVars, ghostVars
  <2>. QED
    BY <1>1, <1>2, <1>7, <2>1, CutGrows
<1>10. Versions \subseteq Versions'
  BY <1>0, <1>2, Grows
<1>11. CallOK' /\ NotesInv' /\ UpdateCallInv' /\ RerunsInv' /\ EffectsOnce'
  BY <1>3, <1>7, <1>10, EffectsGrow
<1>. QED
  BY <1>7, <1>8, <1>9, <1>11 DEF EffectsInv

(* A push by somebody else keeps the effects: its head is new.              *)
LEMMA PushedEffects ==
    ASSUME BaseInv, Pushed
    PROVE  EffectsInv'
<1>0. HistoryOK /\ OriginOK /\ Len(history) \in Nat /\ Len(history) \in Versions /\ Now \in Version
  BY Parts
<1>1. Now.state # "merged" /\ UNCHANGED <<base, keptVars, call, ghostVars>>
  BY <1>0, PushMoves DEF Pushed
<1>2. PICK x : Comes(x) /\ x.head = Len(history) + 1
  BY <1>0, PushMoves DEF Pushed
<1>3. x \in Version /\ history' = Append(history, x) /\ steps' \in Nat
  BY <1>0, <1>2, StepCounts DEF Comes, Move
<1>4. PICK version \in {has[Now.head], base} : Contains(version, Len(history) + 1)
  BY DEF Pushed
<1>5. version \in Nat
  BY <1>0 DEF OriginOK, Now
<1>6. /\ has' \in [DOMAIN has' -> Nat] /\ DOMAIN has' = DOMAIN has \cup {x.head}
  <2>1. has' = [k \in DOMAIN has \cup {x.head} |-> IF k = x.head THEN version ELSE has[k]]
    BY <1>2, <1>4 DEF Contains
  <2>. QED
    BY <1>0, <1>5, <2>1 DEF OriginOK
<1>7. -x.head < Len(history) + 1 /\ x.head >= 0
  BY <1>0, <1>2
<1>8. /\ HeadsAreNew' /\ \A w \in Versions' : history'[w].head \in DOMAIN has'
      /\ \A h \in Int : Before(h) => Before(h)'
      /\ \A h \in Int : Left(h) => Left(h)'
  BY <1>1, <1>3, <1>6, <1>7, HeadsGrow
<1>9. OriginOK'
  BY <1>0, <1>1, <1>6, <1>8 DEF OriginOK
<1>10. CutIsCompletable'
  <2>1. UNCHANGED <<done, update>>
    BY <1>1 DEF keptVars, ghostVars
  <2>. QED
    BY <1>3, <1>7, <1>8, <2>1, CutGrows
<1>11. Versions \subseteq Versions'
  BY <1>0, <1>3, Grows
<1>12. CallOK' /\ NotesInv' /\ UpdateCallInv' /\ RerunsInv' /\ EffectsOnce'
  BY <1>1, <1>8, <1>11, EffectsGrow
<1>. QED
  BY <1>8, <1>9, <1>10, <1>12 DEF EffectsInv

(* The base moving on keeps the effects.                                    *)
LEMMA BaseMovesEffects ==
    ASSUME BaseInv, BaseMoves
    PROVE  EffectsInv'
<1>0. OriginOK /\ CallOK /\ HeadsAreNew /\ CutIsCompletable
  BY Parts
<1>1. UNCHANGED <<history, has, keptVars, call, ghostVars>> /\ base' = base + 1
  BY DEF BaseMoves
<1>2. Versions' = Versions /\ Now' = Now /\ UNCHANGED <<update, done>>
  BY <1>1 DEF Versions, Now, keptVars, ghostVars
<1>3. OriginOK' /\ HeadsAreNew'
  <2>1. base \in Nat
    BY <1>0 DEF OriginOK
  <2>2. base' \in Nat
    BY <1>1, <2>1
  <2>. QED
    BY <1>0, <1>1, <1>2, <2>2 DEF OriginOK, HeadsAreNew
<1>4. \A h \in Int : Before(h) => Before(h)'
  BY <1>1, <1>2 DEF Before
<1>5. CutIsCompletable'
  <2>1. \A h : Left(h)' <=> Left(h)
    BY <1>1, <1>2 DEF Left
  <2>. QED
    BY <1>0, <1>2, <2>1 DEF CutIsCompletable
<1>6. CallOK' /\ NotesInv' /\ UpdateCallInv' /\ RerunsInv' /\ EffectsOnce'
  BY <1>1, <1>2, <1>4, EffectsGrow
<1>. QED
  BY <1>3, <1>5, <1>6 DEF EffectsInv

-----------------------------------------------------------------------------
(* Host calls *)

(* What leaves the branch, its notes and the base alone.                    *)
LEMMA BranchStays ==
    ASSUME BaseInv, UNCHANGED <<history, originVars>>
    PROVE  /\ OriginOK' /\ HeadsAreNew' /\ Versions' = Versions /\ Now' = Now
           /\ \A h : Before(h)' <=> Before(h)
           /\ \A h : Left(h)' <=> Left(h)
<1>0. OriginOK /\ HeadsAreNew /\ UNCHANGED <<history, base, has>>
  BY Parts DEF originVars
<1>1. Versions' = Versions /\ Now' = Now
  BY <1>0 DEF Versions, Now
<1>2. OriginOK' /\ HeadsAreNew'
  BY <1>0, <1>1 DEF OriginOK, HeadsAreNew
<1>3. \A h : Before(h)' <=> Before(h)
  BY <1>0, <1>1 DEF Before
<1>4. \A h : Left(h)' <=> Left(h)
  BY <1>0, <1>1 DEF Left
<1>. QED
  BY <1>1, <1>2, <1>3, <1>4

(* The calls that a script may be at after one ended.                       *)
LEMMA AnsweredIs ==
    ASSUME NEW reason \in BOOLEAN, call \in Call
    PROVE  Answered(reason) \in Call /\ Answered(reason).at \in {"none", "over"}
<1>1. NoCall \in Call /\ NoCall.at = "none"
  BY DEF NoCall, Call
<1>2. Over \in Call /\ Over.at = "over"
  BY <1>1 DEF Over, Call
<1>3. [NoCall EXCEPT !.second = TRUE] \in Call /\ [NoCall EXCEPT !.second = TRUE].at = "none"
  BY <1>1 DEF Call
<1>. QED
  BY <1>2, <1>3 DEF Answered

(* A call that begins nothing, ends, or was cut keeps the effects, as long  *)
(* as a note it may have posted is kept or counted as unsure.               *)
LEMMA CallLeaves ==
    ASSUME BaseInv, UNCHANGED <<history, originVars, keptVars, done, again>>,
           call' \in Call, call'.at \in {"none", "over"},
           unsure' = unsure \/ unsure' = Unsure,
           call.at \in {"posted", "noted"} /\ ~update.commented => unsure' = Unsure
    PROVE  EffectsInv'
<1>0. CallOK /\ NotesInv /\ RerunsInv /\ CutIsCompletable /\ EffectsOnce /\ update \in Update
  BY Parts
<1>1. UNCHANGED <<update, reruns, done, again>>
  BY DEF keptVars
<1>2. /\ OriginOK' /\ HeadsAreNew' /\ Now' = Now
      /\ \A h : Before(h)' <=> Before(h)
      /\ \A h : Left(h)' <=> Left(h)
  BY BranchStays
<1>3. unsure \subseteq unsure' /\ unsure' \subseteq Int
  BY <1>0 DEF Unsure, CallOK, Update
<1>4. CallOK'
  BY <1>0, <1>1, <1>3 DEF CallOK
<1>5. NotesInv'
  <2>1. call.at \in {"posted", "noted"} /\ ~update.commented => update.new \in unsure'
    BY DEF Unsure
  <2>. QED
    BY <1>0, <1>1, <1>2, <1>3, <2>1 DEF NotesInv
<1>6. UpdateCallInv' /\ RerunsInv'
  <2>1. UpdateCallInv
    BY Parts
  <2>. QED
    BY <1>0, <1>1, <2>1 DEF UpdateCallInv, RerunsInv
<1>7. CutIsCompletable'
  BY <1>0, <1>1, <1>2 DEF CutIsCompletable
<1>8. EffectsOnce'
  BY <1>0, <1>1, <1>3 DEF EffectsOnce
<1>. QED
  BY <1>2, <1>4, <1>5, <1>6, <1>7, <1>8 DEF EffectsInv

(* Calling update_base() keeps the effects: it resumes the update in        *)
(* progress, or records one whose head the branch never had.                *)
LEMMA CallUpdateEffects ==
    ASSUME BaseInv, CallUpdate
    PROVE  EffectsInv'
<1>0. OriginOK /\ CallOK /\ HeadsAreNew /\ NotesInv /\ RerunsInv /\ CutIsCompletable /\ EffectsOnce
      /\ update \in Update /\ call \in Call /\ Now.head \in Int
      /\ Len(history) \in Nat /\ Len(history) \in Versions
  BY Parts
<1>1. /\ UNCHANGED <<history, originVars, reruns, done, again, unsure>>
      /\ call.at = "none" /\ Now.state # "merged"
  BY DEF CallUpdate, ScriptRuns, ghostVars, vars
<1>2. /\ OriginOK' /\ HeadsAreNew' /\ Now' = Now /\ Versions' = Versions
      /\ \A h : Before(h)' <=> Before(h)
      /\ \A h : Left(h)' <=> Left(h)
  BY <1>1, BranchStays
<1>3. EffectsOnce'
  BY <1>0, <1>1 DEF EffectsOnce
<1>4. CASE update # NoUpdate /\ update.new = Now.head
  <2>1. call' = [call EXCEPT !.at = "pushed", !.resumed = TRUE] /\ update' = update
    BY <1>4 DEF CallUpdate, Resume
  <2>2. call' \in Call /\ call'.at = "pushed"
    BY <1>0, <2>1 DEF Call
  <2>3. CallOK' /\ RerunsInv' /\ NotesInv'
    BY <1>0, <1>1, <1>2, <2>1, <2>2 DEF CallOK, RerunsInv, NotesInv
  <2>4. Before(update.new)
    <3>1. -Now.head < Len(history)
      BY <1>0 DEF HeadsAreNew, Now
    <3>2. update.new < 0
      BY <1>4, Parts DEF UpdateCallInv
    <3>. QED
      BY <1>4, <3>1, <3>2 DEF Before
  <2>5. UpdateCallInv'
    BY <1>2, <2>1, <2>2, <2>4, Parts DEF UpdateCallInv
  <2>6. CutIsCompletable'
    BY <1>0, <1>1, <1>2, <2>1 DEF CutIsCompletable
  <2>. QED
    BY <1>2, <1>3, <2>3, <2>5, <2>6 DEF EffectsInv
<1>5. CASE ~(update # NoUpdate /\ update.new = Now.head)
  <2>0. MergeBase
    BY <1>5 DEF CallUpdate
  <2>1. CutIsCompletable'
    <3>1. Now.head < 0 => update.new # Now.head
      BY <1>0, <1>5 DEF NoUpdate
    <3>. QED
      BY <1>0, <1>1, <1>2, <3>1 DEF CutIsCompletable
  <2>2. CASE update' = NoUpdate /\ call' = Over
    <3>1. NoUpdate \in Update /\ NoUpdate.new = 0 /\ ~NoUpdate.commented
      BY DEF NoUpdate, Update
    <3>2. call' \in Call /\ call'.at = "over"
      <4>1. NoCall \in Call
        BY DEF NoCall, Call
      <4>. QED
        BY <2>2, <4>1 DEF Over, Call
    <3>3. CallOK' /\ RerunsInv' /\ NotesInv' /\ UpdateCallInv'
      BY <1>0, <1>1, <1>2, <2>2, <3>1, <3>2 DEF CallOK, RerunsInv, NotesInv, UpdateCallInv
    <3>. QED
      BY <1>2, <1>3, <2>1, <3>3 DEF EffectsInv
  <2>3. CASE /\ update' = [old |-> Now.head, new |-> Merged(Len(history)), commented |-> FALSE]
             /\ call' = [call EXCEPT !.at = "recorded", !.v = Len(history), !.head = Now.head, !.base = base]
    <3>1. Merged(Len(history)) \in Int /\ Merged(Len(history)) < 0 /\ ~Before(Merged(Len(history)))
      <4>1. Len(history) > 0
        BY Parts DEF HistoryOK
      <4>. QED
        BY <1>0, <1>1, <4>1 DEF Merged, Before
    <3>2. update' \in Update /\ update'.new = Merged(Len(history)) /\ ~update'.commented
      BY <1>0, <2>3, <3>1 DEF Update
    <3>3. /\ call' \in Call /\ call'.at = "recorded"
          /\ call'.v = Len(history) /\ call'.head = Now.head
      <4>1. base \in Nat
        BY <1>0 DEF OriginOK
      <4>. QED
        BY <1>0, <2>3, <4>1 DEF Call
    <3>4. CallOK' /\ RerunsInv'
      BY <1>0, <1>1, <3>2, <3>3 DEF CallOK, RerunsInv
    <3>5. NotesInv'
      <4>1. <<"note", Merged(Len(history))>> \notin done
        BY <1>0, <3>1 DEF NotesInv
      <4>. QED
        BY <1>0, <1>1, <1>2, <3>2, <3>3, <4>1 DEF NotesInv
    <3>6. UpdateCallInv'
      BY <1>0, <1>2, <2>3, <3>1, <3>2, <3>3 DEF UpdateCallInv
    <3>. QED
      BY <1>2, <1>3, <2>1, <3>4, <3>5, <3>6 DEF EffectsInv
  <2>. QED
    BY <2>0, <2>2, <2>3 DEF MergeBase
<1>. QED
  BY <1>4, <1>5

(* A push of the merged head keeps the effects: the update that names it is *)
(* on disk before, so the next call finds it.                               *)
LEMMA LandsEffects ==
    ASSUME BaseInv, call.at = "recorded", Lands, steps' \in Nat, update' = update,
           call' = [call EXCEPT !.at = "pushed"] \/ call' = Over
    PROVE  BaseInv'
<1>0. /\ HistoryOK /\ OriginOK /\ CallOK /\ HeadsAreNew /\ NotesInv /\ RerunsInv /\ CutIsCompletable
      /\ EffectsOnce /\ UpdateCallInv /\ update \in Update /\ call \in Call /\ Now \in Version
      /\ Len(history) \in Nat /\ Len(history) \in Versions /\ PointsInv
  BY Parts
<1>1. /\ UNCHANGED <<aicrewdVars, diskVars, report, jobs, run, seen, base, reruns, ghostVars>>
      /\ UNCHANGED <<done, again, unsure, update>>
  BY DEF Lands, ghostVars
<1>2. /\ update.new = Merged(call.v) /\ ~update.commented /\ call.v \in Versions
      /\ call.v \in Nat /\ call.v <= Len(history) /\ call.v >= 1
  <2>1. update.new = Merged(call.v) /\ ~update.commented /\ call.v \in Versions
    BY <1>0 DEF UpdateCallInv
  <2>. QED
    BY <1>0, <2>1 DEF Versions
<1>3. Merged(call.v) \in Int /\ Merged(call.v) < 0 /\ -Merged(call.v) = call.v
  BY <1>2 DEF Merged
<1>4. call' \in Call /\ call'.at \in {"pushed", "over"}
  <2>1. NoCall \in Call
    BY DEF NoCall, Call
  <2>2. Over \in Call /\ Over.at = "over"
    BY <2>1 DEF Over, Call
  <2>3. [call EXCEPT !.at = "pushed"] \in Call /\ [call EXCEPT !.at = "pushed"].at = "pushed"
    BY <1>0 DEF Call
  <2>. QED
    BY <2>2, <2>3
<1>5. CallOK' /\ RerunsInv' /\ EffectsOnce'
  BY <1>0, <1>1, <1>4 DEF CallOK, RerunsInv, EffectsOnce
<1>6. ASSUME \A h \in Int : Before(h) => Before(h)', Before(update.new)'
      PROVE  NotesInv' /\ UpdateCallInv'
  <2>1. \A e \in done : e[2] \in Int
    BY <1>0 DEF CallOK, Effects
  <2>2. NotesInv'
    BY <1>0, <1>1, <1>4, <1>6, <2>1 DEF NotesInv
  <2>3. UpdateCallInv'
    BY <1>0, <1>1, <1>2, <1>3, <1>4, <1>6 DEF UpdateCallInv
  <2>. QED
    BY <2>2, <2>3
<1>7. CASE Now.state = "merged"
  <2>1. UNCHANGED <<history, originVars>>
    BY <1>1, <1>7 DEF Lands, originVars
  <2>2. /\ OriginOK' /\ HeadsAreNew' /\ Now' = Now
        /\ \A h : Before(h)' <=> Before(h)
        /\ \A h : Left(h)' <=> Left(h)
    BY <2>1, BranchStays
  <2>3. Before(update.new)
    BY <1>2, <1>3, <1>7 DEF Before
  <2>4. NotesInv' /\ UpdateCallInv'
    BY <1>6, <2>2, <2>3
  <2>5. CutIsCompletable'
    BY <1>0, <1>1, <2>2 DEF CutIsCompletable
  <2>6. PointsInv'
    BY <1>0, <1>1, <2>1, FaultKeeps
  <2>. QED
    BY <1>5, <2>2, <2>4, <2>5, <2>6 DEF BaseInv, EffectsInv
<1>8. CASE Now.state # "merged"
  <2>. DEFINE x == [Now EXCEPT !.head = Merged(call.v), !.ci = "pending"]
  <2>1. history' = Append(history, x) /\ Contains(call.base, Merged(call.v))
    BY <1>8 DEF Lands
  <2>2. x \in Version /\ x.head = Merged(call.v)
    BY <1>0, <1>3 DEF Version, Conclusions
  <2>. HIDE DEF x
  <2>3. has' \in [DOMAIN has' -> Nat] /\ DOMAIN has' = DOMAIN has \cup {x.head}
    <3>1. call.base \in Nat
      BY <1>0 DEF Call
    <3>2. has' = [k \in DOMAIN has \cup {x.head} |-> IF k = x.head THEN call.base ELSE has[k]]
      BY <2>1, <2>2 DEF Contains
    <3>. QED
      BY <1>0, <3>1, <3>2 DEF OriginOK
  <2>4. -x.head < Len(history) + 1
    BY <1>0, <1>2, <1>3, <2>2
  <2>5. /\ HeadsAreNew' /\ \A w \in Versions' : history'[w].head \in DOMAIN has'
        /\ \A h \in Int : Before(h) => Before(h)'
        /\ \A h \in Int : Left(h) => Left(h)'
    BY <1>8, <2>1, <2>2, <2>3, <2>4, HeadsGrow
  <2>6. OriginOK'
    BY <1>0, <1>1, <2>3, <2>5 DEF OriginOK
  <2>7. Len(history') = Len(history) + 1 /\ Now' = x
    BY <1>0, <2>1, <2>2, Grows
  <2>8. Before(update.new)'
    BY <1>0, <1>1, <1>2, <1>3, <2>7 DEF Before
  <2>9. NotesInv' /\ UpdateCallInv'
    BY <1>6, <2>5, <2>8
  <2>10. CutIsCompletable'
    BY <1>1, <1>2, <2>2, <2>7 DEF CutIsCompletable
  <2>11. PointsInv'
    BY <1>0, <1>1, <2>1, <2>2, GrowsKeeps
  <2>. QED
    BY <1>5, <2>5, <2>6, <2>9, <2>10, <2>11 DEF BaseInv, EffectsInv
<1>. QED
  BY <1>7, <1>8

(* Pushing the merged head, answered or not, keeps the invariant.           *)
LEMMA PushMergeKeeps ==
    ASSUME BaseInv, PushMerge \/ PushUnanswered
    PROVE  BaseInv'
<1>0. HistoryOK /\ UpdateCallInv /\ PointsInv
  BY Parts
<1>1. CASE PushUnanswered
  BY <1>0, <1>1, StepCounts, LandsEffects DEF PushUnanswered
<1>2. CASE /\ call.at = "recorded" /\ Lands
           /\ update' = [old |-> call.head, new |-> Merged(call.v), commented |-> FALSE]
           /\ call' = [call EXCEPT !.at = "pushed"]
           /\ UNCHANGED steps
  BY <1>0, <1>2, LandsEffects DEF UpdateCallInv, HistoryOK
<1>3. CASE /\ call.at = "recorded" /\ call' = Over
           /\ UNCHANGED <<vars, originVars, keptVars, ghostVars>>
  <2>1. NoCall \in Call
    BY DEF NoCall, Call
  <2>2. Over \in Call /\ Over.at = "over"
    BY <2>1 DEF Over, Call
  <2>3. UNCHANGED <<history, originVars, keptVars, done, again, unsure>>
    BY <1>3 DEF vars, ghostVars
  <2>4. EffectsInv'
    BY <1>3, <2>2, <2>3, CallLeaves
  <2>5. PointsInv'
    BY <1>0, <1>3, StutterKeeps
  <2>. QED
    BY <2>4, <2>5 DEF BaseInv
<1>. QED
  BY <1>1, <1>2, <1>3 DEF PushMerge

(* Posting the note, kept or not, keeps the effects: the call that posts it *)
(* finds none posted, or one that a call could not keep.                    *)
LEMMA NoteEffects ==
    ASSUME BaseInv, PostNote \/ NoteUnanswered
    PROVE  EffectsInv'
<1>0. /\ CallOK /\ NotesInv /\ RerunsInv /\ CutIsCompletable /\ EffectsOnce /\ UpdateCallInv
      /\ update \in Update /\ call \in Call
  BY Parts
<1>1. call.at = "pushed" /\ UNCHANGED <<history, originVars, keptVars>> /\ UNCHANGED <<update, reruns>>
  BY DEF PostNote, NoteUnanswered, vars, keptVars
<1>2. /\ OriginOK' /\ HeadsAreNew' /\ Now' = Now
      /\ \A h : Before(h)' <=> Before(h)
      /\ \A h : Left(h)' <=> Left(h)
  BY <1>1, BranchStays
<1>3. Before(update.new) /\ update.new \in Int
  BY <1>0, <1>1 DEF UpdateCallInv, Update
<1>. DEFINE note == <<"note", update.new>>
<1>5. /\ call' \in Call /\ call'.at \in {"posted", "noted", "none", "over"}
      /\ call'.at = "posted" \/ update.commented \/ unsure' = unsure \cup {update.new}
      /\ call'.at \in {"posted", "noted"} => unsure' = unsure
  <2>1. CASE update.commented /\ PostNote
    BY <1>0, <2>1 DEF PostNote, ghostVars, Call
  <2>2. CASE ~update.commented /\ PostNote
    BY <1>0, <2>2 DEF PostNote, Call
  <2>3. CASE NoteUnanswered
    BY <1>0, <2>3, AnsweredIs DEF NoteUnanswered
  <2>. QED
    BY <2>1, <2>2, <2>3
<1>6. /\ unsure \subseteq unsure' /\ unsure' \subseteq Int
      /\ call'.at \in {"none", "over"} => ~update.commented
  BY <1>0, <1>3, AnsweredIs DEF PostNote, NoteUnanswered, ghostVars, CallOK, Call
<1>7. \/ update.commented /\ UNCHANGED <<done, again>>
      \/ ~update.commented /\ Does(note)
  BY DEF PostNote, NoteUnanswered, ghostVars
<1>8. /\ done' = done \/ done' = done \cup {note}
      /\ note \in done'
      /\ \A e \in again' : e \in again \/ (e = note /\ note \in done /\ ~update.commented)
  <2>1. update.commented => note \in done
    BY <1>0 DEF NotesInv
  <2>. QED
    BY <1>7, <2>1 DEF Does
<1>9. CallOK'
  <2>1. note \in Effects
    BY <1>3 DEF Effects
  <2>2. again' \subseteq Effects /\ done' \subseteq Effects
    BY <1>0, <1>8, <2>1 DEF CallOK
  <2>. QED
    BY <1>0, <1>1, <1>5, <1>6, <2>2 DEF CallOK
<1>10. EffectsOnce'
  <2>1. note \in done /\ ~update.commented => update.new \in unsure
    <3>1. update.new # 0
      BY <1>3 DEF Before
    <3>. QED
      BY <1>0, <1>1, <3>1 DEF NotesInv
  <2>2. note[1] = "note" /\ note[2] = update.new
    OBVIOUS
  <2>3. \A e \in again : e[1] = "note" /\ e[2] \in unsure'
    BY <1>0, <1>6 DEF EffectsOnce
  <2>. HIDE DEF note
  <2>. QED
    BY <1>6, <1>8, <2>1, <2>2, <2>3 DEF EffectsOnce
<1>11. NotesInv'
  <2>1. \A e \in done' : e[1] = "note" => Before(e[2])
    BY <1>0, <1>3, <1>8 DEF NotesInv
  <2>. QED
    BY <1>1, <1>2, <1>5, <1>6, <1>8, <2>1 DEF NotesInv
<1>12. UpdateCallInv'
  BY <1>0, <1>1, <1>2, <1>3, <1>5 DEF UpdateCallInv
<1>13. RerunsInv'
  BY <1>0, <1>1, <1>5, <1>8 DEF RerunsInv
<1>14. CutIsCompletable'
  BY <1>0, <1>1, <1>2, <1>8 DEF CutIsCompletable
<1>. QED
  BY <1>2, <1>9, <1>10, <1>11, <1>12, <1>13, <1>14 DEF EffectsInv

(* Keeping the note, failing to, and clearing the update keep the effects:  *)
(* the note is there by then.                                               *)
LEMMA KeepEffects ==
    ASSUME BaseInv, KeepNote \/ NoteNotKept \/ ClearUpdate
    PROVE  EffectsInv'
<1>0. /\ CallOK /\ NotesInv /\ RerunsInv /\ CutIsCompletable /\ EffectsOnce /\ UpdateCallInv
      /\ update \in Update /\ call \in Call
  BY Parts
<1>1. /\ UNCHANGED <<history, originVars, reruns, done, again, unsure>>
      /\ call.at \in {"posted", "noted"}
  BY DEF KeepNote, NoteNotKept, ClearUpdate, vars, ghostVars, keptVars
<1>2. /\ OriginOK' /\ HeadsAreNew' /\ Now' = Now
      /\ \A h : Before(h)' <=> Before(h)
      /\ \A h : Left(h)' <=> Left(h)
  BY <1>1, BranchStays
<1>3. Before(update.new) /\ update.new \in Int /\ <<"note", update.new>> \in done
  BY <1>0, <1>1 DEF UpdateCallInv, Update, NotesInv
<1>4. EffectsOnce'
  BY <1>0, <1>1 DEF EffectsOnce
<1>5. CASE KeepNote \/ NoteNotKept
  <2>1. call' \in Call /\ call'.at = "noted"
    BY <1>0, <1>5 DEF KeepNote, NoteNotKept, Call
  <2>2. update' \in Update /\ update'.new = update.new
    BY <1>0, <1>5 DEF KeepNote, NoteNotKept, Update, keptVars
  <2>3. CallOK' /\ RerunsInv'
    BY <1>0, <1>1, <2>1, <2>2 DEF CallOK, RerunsInv
  <2>4. NotesInv'
    BY <1>0, <1>1, <1>2, <1>3, <2>1, <2>2 DEF NotesInv
  <2>5. UpdateCallInv'
    BY <1>0, <1>2, <1>3, <2>1, <2>2 DEF UpdateCallInv, Before
  <2>6. CutIsCompletable'
    BY <1>0, <1>1, <1>2, <2>2 DEF CutIsCompletable
  <2>. QED
    BY <1>2, <1>4, <2>3, <2>4, <2>5, <2>6 DEF EffectsInv
<1>6. CASE ClearUpdate
  <2>1. call' \in Call /\ call'.at \in {"none", "over"} /\ update' = NoUpdate
    <3>1. call.resumed \in BOOLEAN
      BY <1>0 DEF Call
    <3>. QED
      BY <1>0, <1>6, <3>1, AnsweredIs DEF ClearUpdate
  <2>2. NoUpdate \in Update /\ NoUpdate.new = 0 /\ ~NoUpdate.commented
    BY DEF NoUpdate, Update
  <2>3. CallOK' /\ RerunsInv'
    BY <1>0, <1>1, <2>1, <2>2 DEF CallOK, RerunsInv
  <2>4. NotesInv'
    BY <1>0, <1>1, <1>2, <2>1, <2>2 DEF NotesInv
  <2>5. UpdateCallInv'
    BY <2>1 DEF UpdateCallInv
  <2>6. CutIsCompletable'
    BY <1>0, <1>1, <1>2, <1>3, <2>1 DEF CutIsCompletable
  <2>. QED
    BY <1>2, <1>4, <2>3, <2>4, <2>5, <2>6 DEF EffectsInv
<1>. QED
  BY <1>5, <1>6

(* Re-running a head's jobs keeps the effects: the head was claimed when no *)
(* re-run of it was asked for.                                              *)
LEMMA RerunEffects ==
    ASSUME BaseInv, CallRerun \/ AskRerun \/ RerunUnanswered
    PROVE  EffectsInv'
<1>0. /\ CallOK /\ NotesInv /\ RerunsInv /\ CutIsCompletable /\ EffectsOnce /\ UpdateCallInv
      /\ update \in Update /\ call \in Call /\ Now.head \in Int
  BY Parts
<1>1. UNCHANGED <<history, originVars, update, unsure>> /\ call.at \in {"none", "claimed"}
  BY DEF CallRerun, AskRerun, RerunUnanswered, ScriptRuns, vars, keptVars, ghostVars
<1>2. /\ OriginOK' /\ HeadsAreNew' /\ Now' = Now
      /\ \A h : Before(h)' <=> Before(h)
      /\ \A h : Left(h)' <=> Left(h)
  BY <1>1, BranchStays
<1>. DEFINE rerun == <<"rerun", call.head>>
<1>3. /\ call' \in Call /\ call'.at \in {"over", "claimed"} /\ call.head \in Int
      /\ call'.at = "claimed" => call'.head = Now.head /\ CallRerun /\ Now.head \notin reruns
  <2>1. NoCall \in Call
    BY DEF NoCall, Call
  <2>2. Over \in Call /\ Over.at = "over"
    BY <2>1 DEF Over, Call
  <2>3. [call EXCEPT !.at = "claimed", !.head = Now.head] \in Call
        /\ [call EXCEPT !.at = "claimed", !.head = Now.head].at = "claimed"
        /\ [call EXCEPT !.at = "claimed", !.head = Now.head].head = Now.head /\ call.head \in Int
    BY <1>0 DEF Call
  <2>. QED
    BY <2>2, <2>3 DEF CallRerun, Claim, AskRerun, RerunUnanswered
<1>4. \/ CallRerun /\ UNCHANGED <<done, again>> /\ reruns' \in {reruns, reruns \cup {Now.head}}
      \/ call.at = "claimed" /\ Does(rerun) /\ reruns' = reruns \cup {call.head}
      \/ call.at = "claimed" /\ UNCHANGED <<done, again>> /\ reruns' = reruns \ {call.head}
  <2>1. call.at = "claimed" => reruns = reruns \cup {call.head}
    BY <1>0 DEF RerunsInv
  <2>. QED
    BY <2>1 DEF CallRerun, Claim, AskRerun, RerunUnanswered, keptVars, ghostVars
<1>5. call.at = "claimed" => rerun \notin done
  BY <1>0 DEF RerunsInv
<1>6. again' = again /\ done \subseteq done' /\ done' \subseteq done \cup {rerun}
  BY <1>4, <1>5 DEF Does
<1>7. CallOK'
  <2>1. rerun \in Effects
    BY <1>3 DEF Effects
  <2>2. reruns' \subseteq Int
    BY <1>0, <1>3, <1>4 DEF CallOK
  <2>3. done' \subseteq Effects
    BY <1>0, <1>6, <2>1 DEF CallOK
  <2>. QED
    BY <1>0, <1>1, <1>3, <1>6, <2>2, <2>3 DEF CallOK
<1>8. NotesInv'
  BY <1>0, <1>1, <1>2, <1>3, <1>6 DEF NotesInv
<1>9. UpdateCallInv'
  BY <1>0, <1>1, <1>2, <1>3 DEF UpdateCallInv
<1>10. RerunsInv'
  <2>0. \A e \in done : e[1] = "rerun" => e[2] \in reruns
    BY <1>0 DEF RerunsInv
  <2>00. \A e \in done : e = <<e[1], e[2]>>
    BY <1>0 DEF CallOK, Effects
  <2>1. CASE CallRerun /\ UNCHANGED <<done, again>> /\ reruns' \in {reruns, reruns \cup {Now.head}}
    <3>1. \A e \in done' : e[1] = "rerun" => e[2] \in reruns'
      BY <2>0, <2>1
    <3>2. call'.at = "claimed" => <<"rerun", Now.head>> \notin done /\ Now.head \in reruns'
      BY <1>3, <2>0, <2>1 DEF CallRerun, Claim
    <3>. QED
      BY <1>3, <2>1, <3>1, <3>2 DEF RerunsInv
  <2>2. CASE call.at = "claimed" /\ Does(rerun) /\ reruns' = reruns \cup {call.head}
    BY <1>1, <1>3, <2>0, <2>2 DEF RerunsInv, Does, CallRerun, ScriptRuns
  <2>3. CASE call.at = "claimed" /\ UNCHANGED <<done, again>> /\ reruns' = reruns \ {call.head}
    <3>1. \A e \in done : e[1] = "rerun" => e[2] # call.head
      BY <1>5, <2>00, <2>3
    <3>. QED
      BY <1>3, <2>0, <2>3, <3>1 DEF RerunsInv, CallRerun, ScriptRuns
  <2>. QED
    BY <1>4, <2>1, <2>2, <2>3
<1>11. CutIsCompletable'
  BY <1>0, <1>1, <1>2, <1>6 DEF CutIsCompletable
<1>12. EffectsOnce'
  BY <1>0, <1>1, <1>6 DEF EffectsOnce
<1>. QED
  BY <1>2, <1>7, <1>8, <1>9, <1>10, <1>11, <1>12 DEF EffectsInv

(* A call that fails, and the launcher's stop, keep the effects: a note that *)
(* they leave unkept is counted as unsure.                                  *)
LEMMA EndsEffects ==
    ASSUME BaseInv, CallFails \/ Stop
    PROVE  EffectsInv'
<1>0. call \in Call
  BY Parts
<1>1. call' \in Call /\ call'.at \in {"none", "over"}
  <2>1. NoCall \in Call /\ NoCall.at = "none"
    BY DEF NoCall, Call
  <2>2. (call.at = "pushed") \in BOOLEAN
    OBVIOUS
  <2>. QED
    BY <1>0, <2>1, <2>2, AnsweredIs DEF CallFails, CallEnds, Stop
<1>2. UNCHANGED <<history, originVars, keptVars, done, again>> /\ unsure' = Unsure
  BY DEF CallFails, CallEnds, Stop, Crash
<1>. QED
  BY <1>1, <1>2, CallLeaves

(* The end of a script keeps the effects.                                   *)
LEMMA EndRunEffects ==
    ASSUME BaseInv, EndRun
    PROVE  EffectsInv'
<1>1. NoCall \in Call /\ NoCall.at = "none"
  BY DEF NoCall, Call
<1>2. UNCHANGED <<history, originVars, keptVars, done, again, unsure>> /\ call' = NoCall
      /\ call.at \in {"none", "over"}
  BY DEF EndRun, RecordPoint, ghostVars
<1>. QED
  BY <1>1, <1>2, CallLeaves

-----------------------------------------------------------------------------
(* Every step *)

(* The initial states satisfy the invariant.                                *)
LEMMA BaseStarts == ASSUME BaseInit PROVE BaseInv
<1>1. PointsInv
  BY PointsStart DEF BaseInit
<1>2. PICK ci \in {"success", "failure"} :
        history = <<[state |-> "open", head |-> 1, ci |-> ci, review |-> NoReview]>>
  BY DEF BaseInit, Init
<1>3. Len(history) = 1 /\ history[1].head = 1 /\ Versions = {1}
  <2>1. Len(history) = 1 /\ history[1].head = 1
    BY <1>2
  <2>. QED
    BY <2>1 DEF Versions
<1>4. OriginOK /\ HeadsAreNew /\ CutIsCompletable
  <2>1. OriginOK /\ HeadsAreNew
    BY <1>3 DEF BaseInit, OriginOK, HeadsAreNew
  <2>2. ~(Now.head < 0)
    BY <1>3 DEF Now
  <2>. QED
    BY <2>1, <2>2 DEF CutIsCompletable
<1>5. NoCall \in Call /\ NoCall.at = "none" /\ NoUpdate \in Update /\ ~NoUpdate.commented
  BY DEF NoCall, Call, NoUpdate, Update
<1>6. CallOK /\ NotesInv /\ UpdateCallInv /\ RerunsInv /\ EffectsOnce
  BY <1>5 DEF BaseInit, CallOK, NotesInv, UpdateCallInv, RerunsInv, EffectsOnce
<1>. QED
  BY <1>1, <1>4, <1>6 DEF BaseInv, EffectsInv

(* Beside a push, only the forge moves the branch.                          *)
LEMMA BesideBranch == ASSUME Beside PROVE Forge \/ UNCHANGED history
BY DEF Beside, Wake, Command, Reports, PollGoesOn, StartPoint, Announce, Faulty, Serve, Watching,
       Notice, Poll, ReadContent, RunPoint, ContentFails, AnnounceFails, NotPrepared, ReportFails

(* Every step keeps the invariant.                                          *)
LEMMA BaseKeeps ==
    ASSUME BaseInv, [BaseNext]_allVars
    PROVE  BaseInv'
<1>0. PointsInv /\ HistoryOK
  BY Parts
<1>1. CASE Beside /\ UNCHANGED baseVars
  <2>1. PointsInv'
    BY <1>0, <1>1, BesideKeeps
  <2>2. EffectsInv'
    BY <1>1, BesideBranch, ForgeEffects, CallsUntouched
  <2>. QED
    BY <2>1, <2>2 DEF BaseInv
<1>2. CASE BaseMoves
  <2>1. PointsInv'
    BY <1>0, <1>2, StepCounts, FaultKeeps DEF BaseMoves
  <2>. QED
    BY <1>2, <2>1, BaseMovesEffects DEF BaseInv
<1>3. CASE Pushed
  <2>1. PointsInv'
    BY <1>0, <1>3, VersionKeeps DEF Pushed
  <2>. QED
    BY <1>3, <2>1, PushedEffects DEF BaseInv
<1>4. CASE PushMerge \/ PushUnanswered
  BY <1>4, PushMergeKeeps
<1>5. CASE CallUpdate \/ CallRerun \/ PostNote \/ KeepNote \/ ClearUpdate \/ AskRerun
  <2>1. UNCHANGED vars
    BY <1>5 DEF CallUpdate, CallRerun, PostNote, KeepNote, ClearUpdate, AskRerun
  <2>2. PointsInv'
    BY <1>0, <2>1, StutterKeeps
  <2>3. EffectsInv'
    BY <1>5, CallUpdateEffects, RerunEffects, NoteEffects, KeepEffects
  <2>. QED
    BY <2>2, <2>3 DEF BaseInv
<1>6. CASE NoteUnanswered \/ NoteNotKept \/ RerunUnanswered \/ CallFails
  <2>1. UNCHANGED <<history, aicrewdVars, diskVars, report, jobs, run, seen>> /\ Step
    BY <1>6 DEF NoteUnanswered, NoteNotKept, RerunUnanswered, CallFails, CallEnds
  <2>2. PointsInv'
    BY <1>0, <2>1, StepCounts, FaultKeeps
  <2>3. EffectsInv'
    BY <1>6, RerunEffects, NoteEffects, KeepEffects, EndsEffects
  <2>. QED
    BY <2>2, <2>3 DEF BaseInv
<1>7. CASE EndRun
  <2>1. PointsInv'
    BY <1>0, <1>7, RecordKeeps DEF EndRun
  <2>. QED
    BY <1>7, <2>1, EndRunEffects DEF BaseInv
<1>8. CASE Stop
  <2>1. PointsInv'
    BY <1>0, <1>8, CrashKeeps DEF Stop
  <2>. QED
    BY <1>8, <2>1, EndsEffects DEF BaseInv
<1>9. CASE UNCHANGED allVars
  <2>1. UNCHANGED vars /\ UNCHANGED <<history, baseVars>>
    BY <1>9 DEF allVars, vars
  <2>. QED
    BY <1>0, <2>1, StutterKeeps, CallsUntouched DEF BaseInv
<1>. QED
  BY <1>1, <1>2, <1>3, <1>4, <1>5, <1>6, <1>7, <1>8, <1>9 DEF BaseNext, CallGoesOn

(* In every state of a launcher that watches a pull request and runs its    *)
(* automations, what it keeps agrees with what it did (forgewatch.go,       *)
(* dispatch.go, automation.go).                                             *)
THEOREM EffectsAreKept == BaseSpec => []BaseInv
<1>1. BaseInit => BaseInv
  BY BaseStarts
<1>2. BaseInv /\ [BaseNext]_allVars => BaseInv'
  BY BaseKeeps
<1>. QED
  BY <1>1, <1>2, PTL DEF BaseSpec

(* A base update cut between any two of its effects is completed by the     *)
(* next call: the note is posted or the record is there (hostUpdateBase).   *)
THEOREM UpdatesAreCompletable == BaseSpec => []CutIsCompletable
<1>1. BaseInv => CutIsCompletable
  BY DEF BaseInv, EffectsInv
<1>. QED
  BY <1>1, EffectsAreKept, PTL

(* No head's jobs are re-run twice, and a note is posted twice only by a    *)
(* call that could not keep that it was (hostRerun, finishBaseUpdate).      *)
THEOREM NoEffectTwice == BaseSpec => []EffectsOnce
<1>1. BaseInv => EffectsOnce
  BY DEF BaseInv, EffectsInv
<1>. QED
  BY <1>1, EffectsAreKept, PTL

(* No point runs for an edge that is recorded as run, whatever reports      *)
(* overlap (firePoint, pointState.inflight).                                *)
THEOREM PointsFireOnce == BaseSpec => FiredOnce
<1>1. ASSUME BaseInv, [BaseNext]_allVars, run'.stage = "ran", run.stage # "ran"
      PROVE  run'.job.edge \notin points.fired
  <2>0. OncePerPoint
    BY <1>1, Parts DEF PointsInv
  <2>1. \E j \in jobs : RunPoint(j)
    <3>1. run' # run
      BY <1>1
    <3>2. BaseNext /\ run' # NotRunning
      BY <1>1, <3>1 DEF NotRunning, allVars, vars
    <3>3. Beside
      BY <3>1, <3>2, <1>1
         DEF BaseNext, BaseMoves, Pushed, Push, Move, CallUpdate, CallRerun, CallGoesOn, PushMerge,
             PushUnanswered, Lands, PostNote, KeepNote, ClearUpdate, AskRerun, NoteUnanswered,
             NoteNotKept, RerunUnanswered, CallFails, CallEnds, EndRun, RecordPoint, Stop, Crash, vars
    <3>4. \/ StartPoint
          \/ UNCHANGED run \/ run' = NotRunning
      BY <3>3 DEF Beside, Forge, Merge, Close, Reopen, Rewind, Conclude, Review, Move, Wake, Command,
             Reports, PollGoesOn, Announce, Faulty, Serve, Watching, Notice, Poll, ReadContent,
             ContentFails, AnnounceFails, NotPrepared, ReportFails
    <3>. QED
      BY <3>1, <3>2, <3>4 DEF StartPoint
  <2>2. PICK j \in jobs : RunPoint(j)
    BY <2>1
  <2>3. run'.job = j
    BY <2>2 DEF RunPoint
  <2>. QED
    BY <2>0, <2>3 DEF OncePerPoint
<1>2. BaseInv /\ [BaseNext]_allVars
        => [run'.stage = "ran" /\ run.stage # "ran" => run'.job.edge \notin points.fired]_vars
  BY <1>1
<1>. QED
  BY <1>2, EffectsAreKept, PTL DEF BaseSpec, FiredOnce

=============================================================================
