# A verification model of aicrew

aicrew coordinates AI agents that work on tasks of another system, aimem. It keeps teams, members
and their sessions, hands tasks to members as *work attempts*, and records what became of them.
aimem owns the tasks: it alone holds, updates and finalizes one, and a member sends it each change
over its own connection. aicrew never sees that change. It issues a *proof* that the change may be
made, answers aimem's question whether the proof still stands, and afterwards has to find out from
a read scope whether the change was made. Almost everything hard in this code follows from that.

This directory holds TLA+ modules of that core, TLC configurations for small instances, and TLAPS
proofs for every value of the constants.

## 1. The system's parts

State lives in one SQLite database with serialized write transactions (`internal/store`); an action
of a model is one such transaction, one call to another system, or one thing that system does.

| Part | State | Operations | What is hard | What makes it right |
| --- | --- | --- | --- | --- |
| Coordinated steps (`store/steps.go`, `coordination.go`, `scan.go`) | proofs and their ends, the pending step, its recorded outcome, the scan's progress | begin, replay of a begin, the fact service, settle by a member or by the reconciler, void | late commits, absence of a receipt as evidence, cut-off calls, a budget of reads | the outcome recorded is the truth and stays it; a commit is found |
| Proofless updates (`store/updates.go`, `work.go`) | request keys and the keys they supersede, the fence and revision last confirmed | update, supersede, settle | a request arrives at any time; outside edits; recoveries | one key commits at most; the record is true; the worker is freed |
| Teams, members, identity, sessions (`store/registry.go`, `identity.go`, `session.go`, `sessiontoken.go`, `invitation.go`) | memberships with revisions, sessions with ordinal and generation, coordinator generation, credential links | add, change role, remove, enter, resume, leave, stop, prove, redeem an invitation | stale commands after a change by somebody else | one coordinator; nothing acts for what it was |
| Work attempts (`store/attempts.go`, `claim.go`, `work.go`, `stop.go`, `confirm.go`, `reconcile.go`) | attempts and their pending step; aimem's reservations | offer, accept, decline, release, claim, update, review, deliver, finalize, stop, settle, close as recovered | steps in flight while sessions, roles, the coordinator and stops change | the record agrees with aimem; one execution slot per agent; a finished task is reviewed; a stop ends work |
| Reconcile loop (`internal/reconcile`) | per-attempt backoff, a rolling budget of reads | a round over the candidates | fairness of a small budget | every pending step is settled in the end |
| Commands and receipts (`store/command.go`, `inflight.go`) | one receipt per caller, operation, scope and key; calls in flight | run, replay | a retry that overlaps its original | applied once |
| Session entry and tokens (`store/sessiontoken.go`, `identity.go`, `redemption.go`) | challenges, bearer tokens, invitation codes | begin, complete, reissue | waiting on aimem with no transaction open | a challenge is used once; what committed first wins |
| Inbox and events (`store/messages.go`, `events.go`, `staleoffers.go`, `readytasks.go`, `internal/events`) | the team's message log, recipients, the journal and its queues | send, read, acknowledge, deliver, retry, give up | redelivery, page limits, a failed run | no message or event skipped |
| Board feed, pull-request needs, escalations, controls, automations, introspection (`store/board.go`, `actions.go`, `merges.go`, `escalations.go`, `holds.go`, `control.go`, `automations.go`, `introspection.go`) | mirrors, needs, questions, pauses, rules | read, compare, wake, fire a point | polling against change, two reporters, runs that take minutes | nothing due is dropped, nothing fires twice |
| Agent runtime (`internal/agent`) | turn state on disk, open attempts, pending steps | turns, wake-ups, the member's side of a step, forge watch | restarts, cost limits | one turn at a time; a begun step is settled |
| HTTP server, aimem clients, forge client, service manager, installer, configuration, command line | connections, files | requests | I/O | transport only |

How they interact. The server authenticates a call and runs one store operation. A session change
ends the proofs of that session in the same transaction. A settle changes its attempt and records
the step. The reconciler calls the same settle as a member does, as itself. Lifecycle messages are
posted in the transaction they announce.

`PROJECT.json` lists every part with its status, and the hazards at their lines.

## 2. Modules

| Module | What it is |
| --- | --- |
| `StepOutcome` | abstract: what is promised about one step. It commits at most once, only while pending, and is recorded as it is |
| `StepSettlement` | the settlement of a step with a proof, one action per transaction or read |
| `UpdateSettlement` | the settlement of updates, which have no proof |
| `FencedOffice` | abstract: an office with one holder and a term that moves at every change |
| `TeamSessions` | memberships, sessions, credential links, coordinator generations |
| `ExecutionCapacity` | abstract: a slot per agent, taken before a task is reserved and freed only after aimem holds nothing |
| `Attempts` | work attempts; extends `TeamSessions`, whose steps interleave with its own |
| `Redemption` | an invitation code redeemed by several homes: bootstrap, aicrewd and aimem |
| `SessionEntry` | entering, holding, resuming and leaving a session: the home's clients, aicrewd and aimem |
| `TeamInbox` | one team's message log, its delivery and acknowledgement, the turns that read it |
| `EventDelivery` | the journal of events, its queues, their failed runs and their retry |
| `BoardFeed` | a hub's feed of task changes read into the journal and a record of the board; extends `EventDelivery` |
| `TurnLoop` | a worker's launcher: turns, costs, holds, the hand-off document, stops and new homes |
| `PullWatch` | an attempt's pull request: the launcher's watch and extension points, aicrewd's record and needs |
| `BaseUpdate` | what a point's scripts do to the pull request: the base update and the re-run of failed jobs; extends `PullWatch` |
| `MC...` | the instances TLC checks |
| `StepSettlementProofs`, `UpdateSettlementProofs`, `RedemptionProofs`, `TurnLoopProofs` | theorems about the module of that name, and their proofs |
| `AttemptsProofs` | theorems about `Attempts` and the `TeamSessions` in it |
| `ClientProofs` | theorems about what a member's client relies on: `SessionEntry`, and `TeamInbox` |
| `PullWatchProofs` | theorems about `BaseUpdate` and the `PullWatch` in it |
| `BoardFeedProofs` | theorems about `BoardFeed` and the `EventDelivery` in it |

```
 StepOutcome <--implements-- StepSettlement <-- StepSettlementProofs
     ^------------implements-- UpdateSettlement <-- UpdateSettlementProofs
 FencedOffice <--implements-- TeamSessions <-- AttemptsProofs
                                   ^ extends
 ExecutionCapacity <--implements-- Attempts <-- AttemptsProofs   (settles as StepOutcome promises)

 Redemption <-- RedemptionProofs:  what it binds is InviteBinds of TeamSessions
 SessionEntry <-- ClientProofs:  what it enters is EnterSession of TeamSessions
 TeamInbox <-- ClientProofs:  who reads is in a session of TeamSessions, in a turn of TurnLoop
 BoardFeed --extends--> EventDelivery, both <-- BoardFeedProofs;  the messages written there are TeamInbox's log
 TurnLoop <-- TurnLoopProofs:  its turns are the ones TeamInbox starts, for the causes beside messages
 PullWatch: its needs travel by a queue of EventDelivery; it polls while TurnLoop waits
 BaseUpdate --extends--> PullWatch, both <-- PullWatchProofs;  a script is a point's run there, and its push a version of the history
```

### StepSettlement

`call` is the one settle call that may run on the attempt (`lockAttempt`); its phases are the points
between its transactions and reads in `settleStep`. `ReadScopeLooks` is apart from `SendRead` and
`RecordNone`, so a commit may fall between a question and its answer. A call notes in `asked` when it
began and in `known` the ends of the proofs as it read them. A member's call may report a refusal or
an unknown outcome, which voids the proofs (`TakeReport`); an operator's settle is a member's
without a token to check. The reconciler's may run out of its budget. `CallCut` stands for a dead
process, a failed read and a refusing guard. `MoveSession`, `StartSession` and `RuleChanges` are what
sessions and attempts may do to the fact. `FactGranted` and `Commits` are aimem's.

Left out: the text of refusals (`pending_refusal`), the journal, lifecycle messages.

Assumed of aimem: it commits less than `NoneFinalAfter` after it was told that the fact is active
(`steps.go:25-33` states that allowance), and it keeps one receipt per step. The clock does not run
backwards.

### UpdateSettlement

`requests` are the keys issued in order, each with the step it belongs to and what it expects.
`Commits(k)` may happen at any time, also long after the step was settled. `ReadHold` comes before
the receipts, as in `settleUpdate`. The check of the caller's session in a begin or a supersede is
left to `Attempts` and `TeamSessions`; the read budget is part of `CallCut`.

### TeamSessions

One record per member: the role and revision of its membership, and its latest session. `Rotated`
moves the generation of all active sessions of an agent, in every team; `EndSessions` ends some and
opens a new coordinator term where a coordinator was among them. A command names the revision or the
generation that it read earlier, so a stale one is an input like any other.

Of the operations, the server calls `EnterSession`, `ResumeSessionWithProof`, `LeaveWithToken` and
`CompleteRedemption`. `AddMember`, `SetMemberRole`, `RemoveMember`, `StopSession`,
`CompleteAgentProof`, `StartSession` and the plain resume are in the store's interface without a
caller outside its tests.
They are modelled all the same. Not modelled: heartbeats (they change no authority), challenges and
tokens, rows of the team and agent registries, notices.

### Attempts

`attempts` is the table in the order of its rows, `reservation` what aimem has made of each. A step
is begun by `OfferTask`, `ClaimTask`, `AcceptOffer`, `ReleaseOffer`, `UpdateWork`, `FinalizeWork` or
`ReleaseStopped`; it may get a new proof, be granted, commit, and is settled. Of the settling only
what `StepOutcome` says is used: `SettleNotCommitted` needs a step that has not committed, and the
step is gone with it. Here an update may fail to commit at any time, which includes every way it can.
`FactHolds` has a case for every kind of fact in `fill`.

`SessionSteps` are the steps of `TeamSessions`, with the checks for open work that leave and rebind
make. Abstracted: an offer's expiry (it only refuses, and may refuse at any time), project grants,
dependencies and the contents of evidence, messages. `ReconcileAttempt` and the other calls that go
through the `Reservations` port are not modelled: only a test fake implements it
(`reservations.go:14`). The state `reconciling` is reached on that path only and is left out.

### Redemption

Each home runs the bootstrap of `join.go`: `Run(h)` are its steps from the begin to the saved link,
with what it writes to `state/aicrew-join.json` before each call (`disk`) and the rerun that reads
it. A call is a record in `calls` with a stage per transaction: the receipt of a committed command,
the in-flight entry of its key, the check of the challenge, aimem's redemption with no transaction
open, and the binding. A client may give up a call that aicrewd still serves, and aicrewd may be
restarted while it serves the calls of a home in `Flaky`. `Revoke` and the `Expire` actions run
beside all of it. A revoked and an expired invitation are both "closed" and a superseded and an
expired challenge both "gone", since the code treats each pair alike; checks made before the receipt
is looked up are merged with that lookup. One run begins once (`MaxBegins`).

### SessionEntry

`Launchers` start or resume the home's session and hold it; `Leavers` are `session leave`, which
resumes what the home recorded and ends it. A client asks for a challenge, obtains a proof for it,
sends the entry, and takes the answer; `Serve` is aicrewd with aimem's redemption between two of its
transactions. A retry after a lost reply finds the receipt and gets fresh secrets (`Reissue`). The
token and the aimem handle issued with it live and die together. The session is recorded before aimem is
given the handle, and once more after (`RecordBound`). The key of an entry and its proof
are obtained together, sessions and generations are numbered over all sessions of the agent, and
challenges of one agent do not supersede each other. `MaxChallenges` names the challenges that somebody may
still complete; in the run a client that asks for one always finds a name (`ChallengeLeft`).

### TeamInbox

`log` is the team's sequence of messages; `delivered` and `acked` are the two records per recipient.
`ReadInbox` delivers a page from the reader's oldest unacknowledged visible message, new or not.
`held` is what a client has of its pages; a resume, a lost reply and the end of a turn empty it.
Roles, grants and pauses change in between and decide what is visible. `StartTurn` is the launcher,
which starts a turn when the pending list is not empty. A client may acknowledge any of the messages
delivered to it.

### EventDelivery and BoardFeed

`journal` and `delivery` are the tables; `loop` is the event loop between two transactions: a batch
that failed runs its queues one at a time, a queue that fails is recorded by `FailRun` in a
transaction of its own, and the third failure parks its events. A release with other subscriptions
(`Upgrade`) takes them up again. `BoardFeed` gives the events: `ReadBoard` and `RecordPage` are a read
of the feed and the transaction that records it, `ResetBoardCursor` the hub's answer that the cursor
is past its feed, `RestoreHub` a hub restored from a backup. `BoardWake` and `WakeBoard` are the
subscription and its handler, and `NoticeReadyTasks` what a coordinator's session is told at its
start. The cursor is a position in the feed; retention gaps answer as a restored hub does. `Only` keeps
the elements of a set in a sequence, by the rank of their places.

Ghosts. `kept`: how far the feed still is the one read. `skipped`: tasks whose change was read while the
project was not granted. `parkedOnce`: the events parked at some time, whose order a replay may change. `informed`:
the coordinator's session began with the grant and all history read, and neither was lost since. A
`cursor_ahead` reset ends it too: what the restored hub shows READY again is history and announced to
nobody (`CREW-CONTRACT.md:1488-1492`), until the next session starts.

### TurnLoop

`disk` is `state/turns.json`, `st` the loop's copy of it, which is ahead of the file between two
writes; a crash leaves the file. `Due`, `Admit`, `Begin`, `EndTurn`, `AfterOutcome` and `Close` are the
pieces of `Tick` and `turn` between the points where a call may fail or the launcher may stop.
`ReportTurn` and `SyncHold` send what the state holds for sending; a call may be served and its answer
lost. A turn costs one unit; a turn stopped at its time limit is a failed one whose hold ends at
once. Not modelled here: a client that writes a section of its own where the launcher prepared none,
and a return to a home that was left. The ghost `lost` records what a stop took away: costs between
the turn's end and the write of the state, a hold's change, and what was due.

### PullWatch

`history` is the pull request on its forge, version by version; an observation names the version its
status was read at, and the one its content was. Two reporters send observations: the launcher's
`Poll` with `ReadContent`, and a member's `Command` (a baseline, which announces nothing). Between
`Serve` (aicrewd's transaction, or its refusal), `Watching` (the watch list) and `Notice` (the points
file) the other reporter may come in, and a stop loses all but the two files. `Observe` is aicrewd's
side, with `Needs` the change that needs a decision and `Wake` the event handler that tells the worker
what of it still holds. `jobs` and `run` are the dispatches, serialized in the code by a mutex: a point
runs, its edge is recorded, and a failed check is announced by sending the observation again.

A local review is counted READY together with the external one. `after-ci` and `ci-failed` are left
out: they are dispatched like `after-push`, at an edge that has the conclusion in it. Each pull request
has its own state, so one is modelled. The first head's CI has concluded, and `Rewind` puts the branch
back to an earlier head. What the automations do is left to `BaseUpdate`; labels and comments, which
no need is about, are left out.

The status that a command prints shows the member CI, a merge and a close (`Shown`), and neither a failed
declared check nor that both gates are green. A poll names `gates-green` when the automation runs and the
effective set could be read; aicrewd then leaves the gates to it (`left`), and `NeedIsTold` asks that the
point ran. Of a poll that does not name it, it asks that the worker is told, whether the point fires or
not. Ghosts: `late` (an older observation was recorded after a newer one), `cut` (a stop between the watch
list and the points file), `hushed` (needs that a baseline brought and nobody was told) and `left`.

### BaseUpdate

While a point of `PullWatch` runs, its script may make the host calls `update_base()` and `rerun()`
(`agent/automation.go`). `call.at` is the effect that the call has reached: the merge is `recorded`,
then `pushed`, its delta note `posted`, that `noted` on disk and the record cleared; a re-run is
`claimed`, then asked for. Between any two the call may fail, its run may pass its time limit, or the
launcher may stop: `update` and `reruns` are what the points file keeps of it. The next `CallUpdate`
finds the branch at the recorded head and resumes, or drops the record as stale. `Answered` is the
script's second call after an update with a reason (`base-update.star`). `BaseMoves` and `Pushed` are
others; `has` says which version of the base a head contains. Heads that `update_base()` merges are
negative, named by the version it fetched. Ghosts: `done` and `again`, the effects on the forge and
those that came twice, and `unsure`, the notes whose call ended before it kept that they were posted.

Abstracted: a conflict and a changed patch identity end a call alike; the script's own conditions
(CI has concluded, no external review runs) are its free choice; the default set has the base
update at after-ci, and here the script of any point may call it. Assumed: the call of a run that was
stopped is over when the next run begins (its git and its requests end with the run's context). The
points file drops the entries of pull requests it has not written for long (`writePoints`); the one of
this pull request is kept. Left out: the other host calls, which keep no state of their own.

## 3. Runs

| Run | Instance | Question |
| --- | --- | --- |
| `step_settlement` | two proofs, three generations, one cut-off call, one read per reconciler call, a replay at time 1, clock to 5 | is the record true, is what a running call knows true, is one proof live, does the reconciler cut nobody off, is a commit found, is `StepOutcome` implemented with its fairness |
| `sessions_and_updates` | two instances in one run, each in behaviours of its own. One team, two agents, three credentials of two users, two sessions each, three generations; and updates of an attempt with two superseded keys, three steps, outside edits, a recovery, a cut-off call | one coordinator, its term, sessions bound to what they act for, fences of sessions and of memberships, `FencedOffice`; is the record of an update true, does one key commit, is the fence known, is everything settled in the end |
| `update_refresh` (violation) | two updates, an outside edit, no key superseded and no call cut off | is the revision refreshed before a new request, as `work.go` says |
| `attempts` | two scopes in one run. One team, a coordinator and a worker or independent member, one attempt, two results, a second session each, two generations, three coordinator terms; and two teams, two tasks, two attempts with sessions that stand still | does the record agree with aimem, is a finished task reviewed, does a stop void and end, the execution slot across teams, a task attempted again |
| `board_wakes` | two tasks, two agents, four moves of the board, the hub, the crew or the loop | does the record say what the board says, is every event told once and in order, does a coordinator in a session know each READY task |
| `turn_loop` | three turns, one move of the others, one fault, budgets of two and three turns | are costs kept, is the budget kept across homes, is the hold shown, does the hand-off never go back, does the work go on |
| `redemption` | two homes, two attempts, one fault | is the code redeemed once, is nobody refused for its own redemption, is no attempt wasted, is the home linked in the end |
| `redemption_lost_answer` (violation) | one home, one fault | is a lost answer of aimem recovered, as `ONBOARDING-CONTRACT.md` says |
| `session_entry` | a launcher and a leaver, two faults, one move | is a committed entry answered, is a recorded session held again |
| `inbox` | two agents, two messages, pages of two, two starts, two moves | is every message read, is only the hidden passed over |
| `pull_watch` | three moves of the pull request or its base, commands, faults or restarts in all, with the calls of the scripts beside them | does an edge fire once, is the worker told what it has to decide, is a merge followed by its point, is a base update that was cut completed, does no effect come twice |
| `pull_watch_failed_check` (violation) | two forge pr commands, moves or faults | is a failed declared check told to the worker, as `CREW-CONTRACT.md` says |

Why the bounds are enough to meet the hazards. Two proofs are what a replay needs, and one cut-off
call is enough to leave partial progress. The clock reaches past the expiry of the last proof that may
be issued and `NoneFinalAfter` more, so that finality is reached. Two generations tell a holder from a
superseded one (a third lets a session end and the next one start), three terms a coordinator from its
successor and from its own return. Two results tell the latest from an accepted one. One attempt meets
every race between a step, a stop, a session and a recovery; two are needed only for capacity and for
a task tried again, which is the second scope of that run. What a second team adds to sessions, a
credential that rotates or is rebound in both, is covered by the proofs, which hold for any set of
teams. Four moves are an event, its handler breaking, a crash and a change of the team; three turns a
turn, its continuation and one beyond the budget. One fault at each point of a call tells served from
unserved; two of them in `session_entry` let a retry be lost too. Two messages fill a page, and two
starts fence a reader. Three steps around a pull request let a move, a command and a fault meet; the
calls of a script are not counted, so a move of the base, a fault in the update and one more in its
completion fit. Two commands are what `pull_watch_failed_check` needs.

`sessions_and_updates` takes two instances because they are one subject, the session that acts and the
updates it begins, and share no variable: `part` says which of them a behaviour is of, and the other
stands still. Nothing is due of updates that stand still, so their fairness asks nothing there.

`CHECK_DEADLOCK FALSE` stands where the bounds let every counter run out. Every property is shown to
be sensitive to the code by a mutant: an operator beside the one it replaces, with the comment
`Mutant:`.

Fairness. `StepSettlement` assumes that time passes, that a call which runs goes on (`CallCut` may
still end it, `MaxCuts` times), and strongly that the reconciler comes back to a pending step: its
rounds run on a ticker over all pending attempts, and an attempt's lock is free again and again.
`UpdateSettlement` assumes the same, and that the rounds come back to an attempt whose reservation
is closed. Nothing is assumed of members, operators or aimem there. `BoardFeed`: the event loop runs on
a ticker and a queue that stays due is run; strong for a queue in a batch, since arrivals may end its
quiet. `TurnLoop`: the launcher is a service, ticks every `wakePoll`, and a turn ends by its time
limit (weak, for the loop as a whole). `Redemption` and `SessionEntry`: aicrewd serves the calls it has
taken, and a bootstrap that failed is run again, a launcher started again and its session refreshed
(the engine's timer). `TeamInbox`: the launcher polls (weak); a client in a turn reads until its inbox is
empty and acknowledges what it holds (strong). That last one is an assumption on the environment: it
is what the guidance installed for clients tells them, and no code enforces it. `PullWatch` (weak): the
launcher polls and ends what it began, and aicrewd's event loop runs a queue that is due, which is
`AllDelivered` of `board_wakes`. No move of the forge and no command is assumed. `BaseUpdate` (weak): a
host call goes on or fails, and a script ends, both by the run's time limit; that a script calls
`update_base()` again is not assumed.

### What the violation runs show

`update_refresh`: somebody edits the task in aimem before an update's request gets there, so its
revision is no longer the one the request expects, and aimem would refuse it whenever it came. The settle
sees the hold past the request and records `not_committed`. The reservation is held all the while (the
property asks nothing once it is closed), the attempt keeps the old `task_revision`, and the next update
expects it again. `work.go:34-35` describes an attempt that refreshes its revision first; the code which
does so is reached through the test-only port. `FenceIsKnown` holds: the revision is what is wrong.

`redemption_lost_answer`: aimem redeems the receipt and its answer to aicrewd is lost. The bootstrap
retries under its saved key with a new receipt, aimem knows the request key with the old one and
answers a conflict, and the run and its reruns stop until the challenge expires.
`ONBOARDING-CONTRACT.md:178` says that the same request gets the same result.

`pull_watch_failed_check`: a declared check fails at after-push, and its verdict is in the points file.
Before the announcement reaches aicrewd, or when aicrewd does not take it, the member runs a
forge pr command. Its report carries the failure as a baseline, which aicrewd records and announces to
nobody (`store/forgeevents.go:286-289`), and the command prints the status alone. The announcement and
every later poll then bring nothing new (:262-266), so the worker never has the `pre_push` need while the
failure stands. `CREW-CONTRACT.md:1641-1644` says that the failure reaches the worker through the
observation's `pre_push`, and `agent/forgewatch.go:82-85` that aicrewd wakes the worker with it. The
`gates` need of a process that disables the default automation (`CREW-CONTRACT.md:1677-1681`) can be
swallowed in the same way, by a command's report of the CI that passed. `NeedIsTold` leaves out exactly
these (`hushed`).

Observations that are no disagreement with a text:

- A worker that has confirmed a stop and is made coordinator before it releases cannot release as
  that coordinator, because the fact of a stopped release asks for a worker or an independent member.
- `RemoveMember` ends the session of a member with open work. Its comment announces the check for
  that for later, and no route calls it yet; `AgreesWithAimem` and `ImplementsCapacity` hold under it.
- A client that dies after its entry committed and before it recorded the session leaves an active
  session that the home cannot name. The refusal `session_active` advises to resume it
  (`server/session.go:98`), which needs that name; the coordinator or the operator has to stop it.
- A launcher that stops between the end of a turn and the write of its state forgets that the
  attempt was due a continuation, which `DESIGN-CONTROL-PLANE.md` 1.3 (b) asks for; the next message or
  notice starts the turn. The cost of such a turn is not in the home's own figures either.
- The hold of a home that is left stays shown until its successor reports one.
- A failed after-push check is announced by sending the observation that fired the point once more
  (`agent/dispatch.go:575`), after the run. If the pull request was merged meanwhile, aicrewd records it
  as open again and tells the worker `reopened`, though nobody watches it any more; if a newer review
  was recorded, it is overwritten and not read again, because the launcher has it as seen. No property
  covers this: `NeedIsTold` and `MergeIsFollowed` leave these behaviours out (`late`).
- A base update that was cut after its push is completed at the next call only if the branch is still at
  the pushed head. When the worker pushes on top of it first, the record is stale and the delta note of
  that update is never posted (`Left` in `CutIsCompletable`).
- A launcher that stops after it took a merged pull request off its watch list and before it kept the
  merge (`cut`) never runs after-merge for it; `replayPoints` starts from what was kept.
- `CREW-CONTRACT.md:1682` lists `reopened` as a need. A closed pull request leaves the watch list (:1596-1598),
  and only a member's command puts it back, whose baseline announces nothing: the need is reached
  only after a lost answer or a late report.

## 4. Proofs

`StepSettlementProofs` proves, for every proof lifetime, every finality allowance longer than the
commit lag, and any number of proofs, generations and cut-off calls:

- `Invariance`: `Spec => []SettlementInv`. `OutcomeIsTrue` alone is not inductive: at the moment of
  settling, the call relies on what it read some steps ago. `SettlementInv` says what a running call
  knows. `ProofsInTime`: aimem was granted each proof before its end. `CallInv`: the ends in `known`
  are no earlier than the true ones, as ends only move forward in time by being set. `ScanInv` and
  `ReadInv`: for each proof already read, *if* it had been dead for `NoneFinalAfter` when the call
  asked, no commit under it has happened. `FinalsInv` and `OutcomeInv`: recorded findings stay true,
  since a commit follows its grant by at most `CommitLag`.
- `TrueOutcome` and `FinalNone` follow.
- `OneProofLives`: two proofs of a step never live together. A proof is issued only when the one
  before it has ended, ends only move to be set, and the step's actor is the same, so a session that
  comes back revives nothing.
- `ReconcilerVoidsNothing`: a step of the reconciler's call that ends a live proof is the one that
  records the commit. What it settles as not committed has, by `ScanInv`, no proof that lives.
- `Refinement`: `Spec => Promise!Spec`. Each step is a `Commit`, a `Settle` or a stutter; a commit
  after the settle is excluded by `OutcomeInv` and `ProofsInTime`.

`UpdateSettlementProofs` proves, for any number of steps, keys, edits and cut-off calls:

- `UpdatesAreSettled`: `Spec => []UpdateInv`. Here the hold's fence stands where time stood above. That
  one key of a step commits (`OneKeyCommits`) needs that a committed key's fence is behind the hold's
  (`SpentInv`) and that all keys of a step expect the same fence and revision (`KeysInv`): the commit
  of one spends the others. That a record is true rests on `CallInv`: once a call has seen the hold past
  the pending request, every key of the step is spent, and a key of it that committed is still among
  those left to read.
- `RecordsAreTrue` names the promises in it. `UpdatesKeepPromise`: each step implements `StepOutcome`,
  whichever of its keys commits.

`AttemptsProofs` proves of `TeamSessions`, for any sets of teams, agents, credentials and users:

- `SessionsInvariance`: the conjunction of the type invariant, `OneCoordinator`, `CoordinatorTerm`,
  `SessionBound` and `OneAgentPerUser` is inductive. The first two need each other: a start looks for
  an active coordinator, and a term names it only if there is one.
- `CoordinatorFenced`, `SessionsBound` follow; `FencesMoveForward` is the action property
  `Fenced`: a session's ordinal and generation and a membership's revision move with every change.
- `OfficeRefinement`: every team's office is a `FencedOffice`.

Of `Attempts`, which extends it, it proves for any teams, agents, tasks, number of attempts and of
results:

- `WorkInvariance`: `SessionsInv /\ WorkInv` is inductive. A step changes one attempt or aimem's side of
  it, and almost everything is a relation of the two, `AttemptInv`: what state a pending step stands
  for (`StateInv`), what aimem may hold before and after its commit (`PendingInv`), what an acceptance
  rests on while a finalize is in flight (`ReviewInv`), what a stop leaves (`StopInv`). `Agrees` alone
  is not inductive: whether a settled step leaves the record right depends on what its commit did.
  `OneOpenAttempt` alone relates attempts to each other.
- `RecordAgrees`, `DoneWasReviewed`, `StopsHold` follow.
- `CapacityRefinement`: `Spec => ImplementsCapacity`. The slot of an agent is chosen from its open
  attempts; `OneOpenAttempt` before and after a step makes that choice the attempt the step is about.

`RedemptionProofs` proves, for any number of homes, attempts, begins and faults and any homes whose
aicrewd restarts in a call:

- `RedemptionIsConsistent`: `Spec => []RedemptionInv`. `RedeemedOnce` needs to know which completions may
  still bind, and those are known only through what the homes have saved: `DiskInv` (a saved challenge
  was issued by the saved begin), `JobInv` (a run works on what its home saved), `CallInv` and
  `FlightInv` (a call carries its home's keys, one completion of a key is in flight and its receipt is
  its own). `UsableInv` is the centre: a challenge that may still be completed is the saved one, so no
  other call can count. `AnswerInv` says what each refusal means at the moment it is kept.
- `InvitationBindsOnce`, `NobodyIsRefusedFalsely` follow; `AttemptsAreNotWasted` is the action property
  `NoAttemptWasted`, from `UsableInv`: a begin that issues a challenge has a key that is not recorded,
  and then the home has no usable challenge.

Its keys and receipts come from finite sets (`MaxKeys`, `MaxReceipts`): an action that needs a new one
is enabled only while there is one (`KeyLeft`, `ReceiptsInUse`). The runs never come to that end.

`TurnLoopProofs` proves, for any budgets, limits and number of turns, moves and faults:

- `LoopIsConsistent`: `Spec => []LoopInv`. The state is kept twice, and a stop replaces the loop's copy
  by the file, so each property needs to hold of both copies. `SpendInv`: the file misses at most the turn
  it has as running. `BudgetInv`: a copy that knows the attempt's spend counts what aicrewd has and
  what its own backlog will add, but for turns that a stop took; a sum over the backlog is compared as the
  cardinality of a set of turns, so that a report served twice counts once. `HoldInv`: the two copies
  differ in the hold only with the report pending. `NotesInv`: a home's section is not behind aicrewd's.
- `NoSpendIsLost`, `HoldIsTheHomes`, `BudgetIsKept` follow, and the action property `HandoffAdvances`.

`PullWatchProofs` proves, for any number of steps:

- `EffectsAreKept`: `BaseSpec => []BaseInv`. `PointsInv` is the types (an observation names versions that
  exist, a point that failed has one to send again) and `OncePerPoint`: a point is dispatched or running
  once, for an edge that is not recorded. `EffectsInv` is about a script's calls. A merged head names
  the version it was fetched at and comes after it (`HeadsAreNew`), so an update recorded anew has a head
  that no note is about (`NotesInv`), unless the pull request was merged meanwhile, which is final
  (`Before`). `RerunsInv`: a claimed head was not re-run yet.
- `UpdatesAreCompletable`, `NoEffectTwice` follow, and `PointsFireOnce`, the action property `FiredOnce`.

`BoardFeedProofs` proves, for any number of members, tasks and moves:

- `FeedWakes`: `Spec => []FeedWakesInv`. None of the three properties of the run is inductive. Behind
  `BoardIsTheFeeds`: `FeedInv` (a task's revisions count its changes, the feed is in the order of its
  stamps) makes a page's last change of a task later than its record, `PageInv` ties the page to the feed at
  the cursor through restores, and `ReadInv` says the property for the whole of the feed read. Behind
  `ToldOnceInOrder`: `LoopInv` (what a failed run read still waits when its failure is recorded) and `ToldInv`
  (if a later event of a queue was told, an earlier one that was never parked is handled, and told no
  later). Behind `ReadyIsTold`: `SeenInv` (a stamp names one change, in the feed, the page, the
  journal and the record; aicrew's own changes are of tasks with an attempt) and `AheadInv` (what
  is not recorded yet is history, or later than all that is journaled; an informed coordinator has no
  history ahead), so a new READY record has its event in the same page, and the board wake queues it.
- `BoardIsTheFeedsHolds`, `ToldOnceInOrderHolds` and `ReadyIsToldHolds` follow.
- The lemmas on what the model is built from: the rank of a place and what `Only` keeps, what
  journaling appends (`JournalGrows`), the one message of a batch (`OneMessage`), the outcome of a run
  (`MarkProperties`), a page's effect on a record (`LatestProperties`), and that revisions grow along the feed
  (`RevisionsGrow`).

The attempt to prove it corrected the model: with seven moves, beyond the run's four, TLC found both
`ToldOnceInOrder` and `ReadyIsTold` violated as they stood. An event parked while the team had no coordinator
leaves no message to tell that it was parked, so the exception to the order is now `parkedOnce`; and a
reset makes READY tasks history, so it ends `informed`. Both are what the contract says of the code.

`ClientProofs` proves of `SessionEntry`, for any number of launchers and leavers, challenges, rounds,
renewals, moves and faults:

- `EntryInvHolds`: `Spec => []EntryInv`. A client that waits has one live call at most, with the challenge
  and the proof of its latest request (`LiveInv`); a key is past its checks in one call at a time, and in
  none once it committed (`FlightInv`). The second needs that a call which goes on to be redeemed found
  neither another in flight with its key (`Busy`) nor a receipt of it, and that a commit takes the only one
  there is.
- `OwnEntryIsAnswered`: a call of a client whose entry has committed cannot be past its checks, so it finds
  the receipt, and the fence it names is the session's. Every step of a client has one shape
  (`ClientStep`): it changes the client's own state, gives up its own calls or sends one more, forgets
  only challenges nobody is at, and answers itself with `unanswered` at most.

and of `TeamInbox`, for any members, page size, messages, sessions and moves:

- `InboxInvHolds`: `Spec => []InboxInv`, with which an acknowledged message is a delivered one.
- `OnlyHiddenIsSkipped`: what comes before a message of a page and waits is of the page
  (`PageIsLeading`, on the cardinality of what comes before), so a visible message that was skipped would
  have to be acknowledged without having been delivered.

The proofs have one lemma for each action or for each way of changing the state that several
actions share (ending, rotating, joining), and the theorems combine them. They rest on the named
assumptions of the modules, which say that bounds are numbers, that placeholders are none of the
values they stand for and, in `TimingAssumption`, how late aimem may commit. Each invariant named above
was checked by TLC over its run's instance before it was proved, as one more invariant of that run.

Every invariant and every action property that the passing runs check is a theorem. Only model-checked are
the liveness properties (`CommitIsRecorded`, `OvertakenIsSettled`, `RecoveryFreesTheWorker`, `WorkGoesOn`, `RedeemedIsLinked`,
`AllDelivered`, `NeedIsTold`, `MergeIsFollowed`, `SessionIsKept`, `MessagesAreRead`). Liveness under fairness, and with it the fairness half of the
refinement of `StepOutcome`, is out of the prover's reach and stays with TLC. The three violation runs are
counterexamples and have nothing to prove.

## 5. What is left

Not yet modelled, in the order of what it would add: the member's side of a step and its state on
disk (`agent/steps.go`), composed with `StepOutcome`; the reconciler's rounds with backoff and the
rolling minute, shown to give the fairness assumed of it; escalations; the points of a turn and the
submit that a script asks for.

## 6. Not modelled

Transport, parsing, file layout, processes, service managers, the installer and the command lines: they
hold no coordination state. The introspection log: bookkeeping with no reader. The contents of
messages and evidence. Heartbeats: they change no authority. The rows of the team,
agent and capability registries: written by one command each and read as constants here. aimem and
forges: external; their actions are taken from how the code uses them.
