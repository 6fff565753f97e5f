------------------------------ MODULE BoardFeed ------------------------------
(***************************************************************************)
(* The board wake (internal/store/board.go and readytasks.go,               *)
(* internal/server/board.go): aicrewd reads a hub's feed of task changes on *)
(* from the cursor it stored, journals each change of a granted project as  *)
(* an event (EventDelivery.tla), keeps each task's latest state, and tells  *)
(* a coordinator that starts or resumes which tasks wait in READY.          *)
(*                                                                         *)
(* One team, one hub, one project.  The hub's clock and aicrewd's agree: a  *)
(* stamp is the number of changes the board has seen.                       *)
(***************************************************************************)
EXTENDS Integers, EventDelivery

VARIABLES
    feed,      \* the hub's feed: what it returns, in order
    made,      \* the changes the board has seen, those a restore lost included
    cursor,    \* the stored cursor: the position read to, 0 for none
    page,      \* the page read and not recorded, if any
    since,     \* the stamp of the project's first sight, NoSight before it
    task,      \* each task's recorded revision and state
    attempt,   \* the team's attempt for each task: none, open or closed
    granted,   \* the team holds the project's grant
    active,    \* the coordinator with an active session, if any
    informed,  \* that session began with the grant and all the history read,
               \* and neither was lost since
    skipped,   \* tasks whose change was read while the grant was not held
    kept,      \* the changes every restore since the last reset has kept
    parkedOnce \* the events that were parked at some time

boardVars == <<feed, made, cursor, page, since, task, attempt, granted, active, informed, skipped, kept>>
vars == <<deliveryVars, boardVars, parkedOnce>>

Tasks == Subjects
NoSight == MaxMoves + 1
NoPage == [from |-> -1, changes |-> <<>>]
Unread == [rev |-> 0, to |-> "none", stamp |-> 0]

Init ==
    /\ DeliveryInit
    /\ feed = <<>>
    /\ made = 0
    /\ cursor = 0
    /\ page = NoPage
    /\ since = NoSight
    /\ task = [t \in Tasks |-> Unread]
    /\ attempt = [t \in Tasks |-> "none"]
    /\ granted = TRUE
    /\ active = {}
    /\ informed = FALSE
    /\ skipped = {}
    /\ kept = MaxMoves
    /\ parkedOnce = {}

-----------------------------------------------------------------------------
(* The hub and the crew *)

(* A task changes on the board: by an outsider, or by a step of the team's   *)
(* attempt for it.  A restored hub counts a task's revisions on from the     *)
(* ones it kept.                                                             *)
HubChange(t, to, own) ==
    LET rev == Cardinality({n \in DOMAIN feed : feed[n].subject = t}) + 1
    IN  /\ Move
        /\ own => attempt[t] # "none"
        /\ made' = made + 1
        /\ feed' = Append(feed, [subject |-> t, rev |-> rev, to |-> to, own |-> own, stamp |-> made'])
        /\ UNCHANGED <<role, journal, delivery, failures, log, broken, version, loop>>
        /\ UNCHANGED <<cursor, page, since, task, attempt, granted, active, informed, skipped, kept, parkedOnce>>

(* The hub's state is restored from a backup: its last changes are gone.     *)
(* The cursor is a position, so a feed that grew past it again takes it.     *)
RestoreHub(n) ==
    /\ Move
    /\ n < Len(feed)
    /\ feed' = SubSeq(feed, 1, n)
    /\ kept' = Min({kept, n})
    /\ UNCHANGED <<role, journal, delivery, failures, log, broken, version, loop>>
    /\ UNCHANGED <<made, cursor, page, since, task, attempt, granted, active, informed, skipped, parkedOnce>>

(* The team offers the task, or its attempt ends (Attempts.tla).             *)
MoveAttempt(t) ==
    /\ Move
    /\ attempt[t] # "closed"
    /\ attempt' = [attempt EXCEPT ![t] = IF @ = "none" THEN "open" ELSE "closed"]
    /\ UNCHANGED <<role, journal, delivery, failures, log, broken, version, loop>>
    /\ UNCHANGED <<feed, made, cursor, page, since, task, granted, active, informed, skipped, kept, parkedOnce>>

(* RecordTeamGrants. *)
RecordGrants ==
    /\ Move
    /\ granted' = ~granted
    /\ informed' = FALSE
    /\ UNCHANGED <<role, journal, delivery, failures, log, broken, version, loop>>
    /\ UNCHANGED <<feed, made, cursor, page, since, task, attempt, active, skipped, kept, parkedOnce>>

(* SetMemberRole, which ends the member's session.                           *)
SetRole(a) ==
    /\ Move
    /\ role' = [role EXCEPT ![a] = IF @ = "worker" THEN "coordinator" ELSE "worker"]
    /\ active' = active \ {a}
    /\ UNCHANGED <<journal, delivery, failures, log, broken, version, loop>>
    /\ UNCHANGED <<feed, made, cursor, page, since, task, attempt, granted, informed, skipped, kept, parkedOnce>>

(* Mutant: a session that starts is told nothing. *)
NoticeNothing == log' = log

(* noticeReadyTasks: the granted project's READY tasks without an open       *)
(* attempt of the team, listed in one message to its coordinators.           *)
ReadyTasks == {t \in Tasks : granted /\ task[t].to = "READY" /\ attempt[t] # "open"}

NoticeReadyTasks ==
    log' = IF ReadyTasks = {} \/ Coordinators = {} THEN log
           ELSE Append(log, [Message(Coordinators) EXCEPT !.ready = ReadyTasks])

(* What aicrewd has not recorded yet: the page read, and the feed after it.  *)
Ahead == Range(page.changes) \cup {feed[n] : n \in cursor + 1 .. Len(feed)}

(* The project's history is read: no change from before its first sight is   *)
(* still ahead.                                                              *)
HistoryRead ==
    since # NoSight /\ \A c \in Ahead : c.stamp > since

(* startSessionTx and resumeSessionTx of a coordinator (TeamSessions.tla).   *)
StartCoordinator(a) ==
    /\ Move
    /\ a \in Coordinators
    /\ active \subseteq {a}
    /\ active' = {a}
    /\ NoticeReadyTasks
    /\ informed' = (granted /\ HistoryRead)
    /\ UNCHANGED <<role, journal, delivery, failures, broken, version, loop>>
    /\ UNCHANGED <<feed, made, cursor, page, since, task, attempt, granted, skipped, kept, parkedOnce>>

-----------------------------------------------------------------------------
(* The board loop *)

(* readBoard: a page from the stored cursor, whole or cut at its limit.  An  *)
(* empty one changes something only while the project has not been seen.     *)
ReadBoard ==
    /\ page = NoPage
    /\ cursor < Len(feed) \/ (cursor = Len(feed) /\ since = NoSight)
    /\ \E upto \in cursor .. Len(feed) :
          /\ upto = cursor => cursor = Len(feed)
          /\ page' = [from |-> cursor, changes |-> SubSeq(feed, cursor + 1, upto)]
    /\ UNCHANGED deliveryVars
    /\ UNCHANGED <<feed, made, cursor, since, task, attempt, granted, active, informed, skipped, kept, parkedOnce>>

(* boardSince: the first sight of the project, once it is granted.           *)
FirstSight == IF since = NoSight /\ granted THEN made ELSE since

(* recordBoardTask: the latest revision of each task the page changes.       *)
Latest(t, changes) ==
    LET revs == {n \in DOMAIN changes : changes[n].subject = t}
        last == CHOOSE n \in revs : \A k \in revs : k <= n
    IN  IF revs = {} \/ changes[last].rev <= task[t].rev THEN task[t]
        ELSE [rev |-> changes[last].rev, to |-> changes[last].to, stamp |-> changes[last].stamp]

(* The board-wake subscription: not aicrew's own change, and one that made   *)
(* the task READY or of a task the team has an attempt for.                  *)
BoardWake(e) == ~e.own /\ (e.to = "READY" \/ attempt[e.subject] # "none")

(* RecordBoardPage: in one transaction the page's events and deliveries, the *)
(* tasks' states and the cursor, if the stored one is where the page began.  *)
(* The changes from before the first sight are history.  Between two reads   *)
(* no other read records, so the guard only says so.                         *)
RecordBoardPage(p) ==
    LET first  == FirstSight
        recent == Only(p.changes, {c \in Range(p.changes) : c.stamp > first})
    IN  /\ cursor = p.from
        /\ since' = first
        /\ cursor' = p.from + Len(p.changes)
        /\ page' = NoPage
        /\ IF granted
           THEN /\ task' = [t \in Tasks |-> Latest(t, p.changes)]
                /\ JournalEvents(recent, {e \in Range(recent) : BoardWake(e)})
                /\ UNCHANGED skipped
           ELSE /\ skipped' = skipped \cup {c.subject : c \in Range(p.changes)}
                /\ UNCHANGED <<task, journal, delivery>>
        /\ UNCHANGED <<role, failures, log, broken, version, loop, moves>>
        /\ UNCHANGED <<feed, made, attempt, granted, active, informed, kept, parkedOnce>>

RecordPage == page # NoPage /\ RecordBoardPage(page)

(* Mutant: the tasks' states stay. *)
ResetKeepsTasks ==
    /\ page = NoPage
    /\ cursor > Len(feed)
    /\ cursor' = 0
    /\ since' = IF since = NoSight THEN NoSight ELSE made
    /\ skipped' = {}
    /\ kept' = MaxMoves
    /\ UNCHANGED deliveryVars
    /\ informed' = FALSE
    /\ UNCHANGED <<feed, made, page, task, attempt, granted, active, parkedOnce>>

(* ResetBoardCursor, when the hub answers that the cursor is past its feed:  *)
(* the feed is read again from its start, all of it history, and the tasks'  *)
(* states with it; what it shows READY again is announced to nobody.         *)
ResetBoardCursor ==
    /\ page = NoPage
    /\ cursor > Len(feed)
    /\ cursor' = 0
    /\ since' = IF since = NoSight THEN NoSight ELSE made
    /\ task' = [t \in Tasks |-> Unread]
    /\ skipped' = {}
    /\ kept' = MaxMoves
    /\ UNCHANGED deliveryVars
    /\ informed' = FALSE
    /\ UNCHANGED <<feed, made, page, attempt, granted, active, parkedOnce>>

(* aicrewd stops with a page read and not recorded. *)
LosePage ==
    /\ page # NoPage
    /\ page' = NoPage
    /\ Move
    /\ UNCHANGED <<role, journal, delivery, failures, log, broken, version, loop>>
    /\ UNCHANGED <<feed, made, cursor, since, task, attempt, granted, active, informed, skipped, kept, parkedOnce>>

-----------------------------------------------------------------------------
(* wakeBoard: one subject with all the run's changes of the task, to the     *)
(* team's coordinators as they are now.                                      *)
WakeBoard == [s \in Subjects |-> {[to |-> Coordinators, events |-> PendingEvents(s)]}]

NoteParked ==
    parkedOnce' = parkedOnce \cup {i \in DOMAIN delivery' : delivery'[i].state = "parked"}

Next ==
    \/ DeliveryNext(WakeBoard) /\ NoteParked /\ UNCHANGED boardVars
    \/ \E t \in Tasks :
          \/ \E to \in {"READY", "other"}, own \in BOOLEAN : HubChange(t, to, own)
          \/ MoveAttempt(t)
    \/ \E n \in 0..MaxMoves : RestoreHub(n)
    \/ RecordGrants
    \/ \E a \in Agents : SetRole(a) \/ StartCoordinator(a)
    \/ ReadBoard
    \/ RecordPage
    \/ ResetBoardCursor
    \/ LosePage

(* The event loop ticks, and a queue that waits is due in the end.           *)
LoopFairness ==
    /\ WF_deliveryVars(ReplayParked)
    /\ WF_deliveryVars(FailRun)
    /\ \A s \in Subjects :
          /\ SF_deliveryVars(\E due \in SUBSET Subjects : s \in due /\ RunTeam(due, WakeBoard))
          /\ WF_deliveryVars(RunQueue(s, WakeBoard))

Spec == Init /\ [][Next]_vars /\ LoopFairness

-----------------------------------------------------------------------------
(* Properties *)

(* What a task's record says is what the feed says up to the cursor, while   *)
(* the feed still is the one that was read: a page                           *)
(* cut at its limit, a restored hub that counts revisions again and a page   *)
(* lost with its cursor leave no task in a state it is not in                *)
(* (recordBoardTask, ResetBoardCursor).                                      *)
BoardIsTheFeeds ==
    \A t \in Tasks \ skipped :
        LET read == {n \in 1 .. Min({cursor, Len(feed)}) : feed[n].subject = t}
            last == CHOOSE n \in read : \A k \in read : k <= n
        IN  (granted /\ cursor <= kept /\ read # {})
                => /\ task[t].rev = feed[last].rev
                   /\ task[t].to = feed[last].to

(* Each event is told in one message at most, exactly when it was handled    *)
(* with somebody to tell, and a subject's events in the order they were      *)
(* journaled unless some were parked meanwhile: a batch that failed, a crash *)
(* between two queues and a replay repeat nothing (runTeam, failRun).        *)
ToldOnceInOrder ==
    /\ \A i \in DOMAIN journal :
          /\ Cardinality(Carried(i)) <= 1
          /\ Carried(i) # {} => delivery[i].state = "handled"
    /\ \A i, j \in DOMAIN journal :
          (/\ i < j /\ journal[i].subject = journal[j].subject
           /\ delivery[j].state = "handled" /\ delivery[i].state \notin {"none", "parked"})
              => \A n \in Carried(i), k \in Carried(j) :
                    n <= k \/ i \in parkedOnce

(* A coordinator in a session never works beside a READY task nobody told it *)
(* of: a task whose last change was announced as READY, which the team never *)
(* took up, waits in the journal, or is in a message to this coordinator,    *)
(* whoever held the office when it was delivered (wakeBoard,                 *)
(* noticeReadyTasks).                                                        *)
ReadyIsTold ==
    \A a \in active, t \in Tasks, i \in DOMAIN journal :
        (/\ granted /\ informed /\ attempt[t] = "none"
         /\ task[t].to = "READY"
         /\ journal[i].subject = t /\ journal[i].stamp = task[t].stamp)
            => \/ delivery[i].state \in {"pending", "parked"}
               \/ \E m \in Range(log) : a \in m.to /\ (i \in m.events \/ t \in m.ready)

-----------------------------------------------------------------------------
(* What the proofs rest on *)

Change == [subject : Tasks, rev : Nat, to : {"READY", "other"}, own : BOOLEAN, stamp : Nat]

BoardTypeOK ==
    /\ feed \in Seq(Change)
    /\ made \in 0..moves
    /\ cursor \in Nat
    /\ page \in [from : Int, changes : Seq(Change)]
    /\ since \in 0..made \cup {NoSight}
    /\ task \in [Tasks -> [rev : Nat, to : {"READY", "other", "none"}, stamp : 0..made]]
    /\ attempt \in [Tasks -> {"none", "open", "closed"}]
    /\ granted \in BOOLEAN
    /\ active \subseteq Coordinators
    /\ informed \in BOOLEAN
    /\ skipped \subseteq Tasks
    /\ kept \in Nat
    /\ parkedOnce \subseteq DOMAIN journal

TypeOK == DeliveryTypeOK(Change, Tasks) /\ BoardTypeOK

(* A task's revisions count its changes, and the feed is in the order of the *)
(* hub's clock.                                                              *)
FeedInv ==
    /\ \A n \in DOMAIN feed :
          feed[n].rev = Cardinality({k \in 1..n : feed[k].subject = feed[n].subject})
    /\ \A n, k \in DOMAIN feed : n < k => feed[n].stamp < feed[k].stamp

(* The page follows the cursor; of what the restores kept, it is what the    *)
(* feed holds there, and the feed after it is later.                         *)
PageInv ==
    /\ page # NoPage => page.from = cursor
    /\ \A k \in DOMAIN page.changes :
          /\ cursor + k <= kept
                => cursor + k \in DOMAIN feed /\ page.changes[k] = feed[cursor + k]
          /\ \A n \in DOMAIN feed :
                n > cursor + Len(page.changes) => page.changes[k].stamp < feed[n].stamp

(* Up to the cursor, while all of it is kept, a task's record is its last    *)
(* change.                                                                   *)
ReadInv ==
    cursor <= kept =>
        /\ cursor <= Len(feed)
        /\ \A t \in Tasks \ skipped :
              \/ /\ \A n \in 1..cursor : feed[n].subject # t
                 /\ task[t].rev = 0
              \/ \E n \in 1..cursor :
                    /\ feed[n].subject = t
                    /\ \A k \in 1..cursor : feed[k].subject = t => k <= n
                    /\ task[t].rev = feed[n].rev
                    /\ task[t].to = feed[n].to

(* A change is known by its stamp, in the feed, the page, the journal and    *)
(* the tasks' records; the crew's own are of tasks it has an attempt for.    *)
Seen == Range(feed) \cup Range(page.changes) \cup Range(journal)

SeenInv ==
    /\ \A c \in Seen : c.stamp \in 1..made /\ (c.own => attempt[c.subject] # "none")
    /\ \A c, d \in Seen : c.stamp = d.stamp => c = d
    /\ \A c \in Seen : c.stamp = task[c.subject].stamp => c.to = task[c.subject].to

(* What is ahead and not history is later than what is journaled; a          *)
(* coordinator that is informed has no history ahead.                        *)
AheadInv ==
    /\ \A c \in Range(journal), d \in Ahead : d.stamp > since => c.stamp < d.stamp
    /\ informed => granted /\ HistoryRead

BoardInv == FeedInv /\ PageInv /\ ReadInv /\ SeenInv /\ AheadInv

(* An event is told when it was handled; a later one of the subject is told  *)
(* first only if it was parked.                                              *)
ToldInv ==
    /\ \A n \in DOMAIN log : log[n].events \subseteq DOMAIN journal
    /\ \A i \in DOMAIN journal :
          /\ \A n, k \in Carried(i) : n = k
          /\ Carried(i) # {} => delivery[i].state = "handled"
          /\ delivery[i].state = "parked" => i \in parkedOnce
    /\ \A i, j \in DOMAIN journal :
          (/\ i < j /\ journal[i].subject = journal[j].subject
           /\ i \notin parkedOnce /\ Carried(j) # {})
              => /\ delivery[i].state \in {"none", "handled"}
                 /\ \A n \in Carried(i), k \in Carried(j) : n <= k

FeedWakesInv == TypeOK /\ LoopInv /\ BoardInv /\ ToldInv /\ ReadyIsTold
=============================================================================
