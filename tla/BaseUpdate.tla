----------------------------- MODULE BaseUpdate -----------------------------
(***************************************************************************)
(* What the scripts that a point runs do to the pull request through their *)
(* host calls (agent/automation.go): update_base(), which merges the base  *)
(* into a branch behind it, pushes and posts the delta note, and rerun(),  *)
(* which re-runs the failed jobs of a head.  Both keep on the launcher's   *)
(* disk what they are about to do, since a run may be cut between two of   *)
(* its effects.  The launcher and the forge are those of PullWatch, beside *)
(* which a script runs.                                                    *)
(*                                                                         *)
(* Ghosts: `done`, the effects on the forge; `again`, those that came      *)
(* twice; `unsure`, the heads whose note was posted by a call that ended   *)
(* before it kept that.                                                    *)
(***************************************************************************)
EXTENDS PullWatch

VARIABLES base,    \* origin: the version of the base branch
          has,     \* origin: per head, the version of the base it contains
          update,  \* launcher's disk: the base update in progress
          reruns,  \* launcher's disk: the heads whose re-run is claimed
          call,    \* launcher: the host call that the running script makes
          done, again, unsure

originVars == <<base, has>>
keptVars == <<update, reruns>>
ghostVars == <<done, again, unsure>>
baseVars == <<originVars, keptVars, call, ghostVars>>
allVars == <<vars, baseVars>>

-----------------------------------------------------------------------------
(* The merged head of an update_base() that fetched at this version of the  *)
(* pull request: no head that others pushed, nor one pushed before.         *)
Merged(version) == -version

NoUpdate == [old |-> 0, new |-> 0, commented |-> FALSE]

NoCall == [at |-> "none", v |-> 0, head |-> 0, base |-> 0, resumed |-> FALSE, second |-> FALSE]

Over == [NoCall EXCEPT !.at = "over"]

(* base-update.star: an update that comes back with a reason (it was        *)
(* resumed, or its note is not posted) is followed by one call more.        *)
Answered(reason) ==
    IF reason /\ ~call.second THEN [NoCall EXCEPT !.second = TRUE] ELSE Over

BaseInit ==
    /\ Init
    /\ base = 1 /\ has = [h \in {1} |-> 1]
    /\ update = NoUpdate /\ reruns = {}
    /\ call = NoCall
    /\ done = {} /\ again = {} /\ unsure = {}

(* An effect on the forge.                                                  *)
Does(effect) ==
    /\ done' = done \cup {effect}
    /\ again' = again \cup (done \cap {effect})

(* What a head contains that somebody else pushes: the base as before, or   *)
(* as it is now.                                                            *)
Contains(version, h) == has' = [k \in DOMAIN has \cup {h} |-> IF k = h THEN version ELSE has[k]]

-----------------------------------------------------------------------------
(* Others: the base moves, and the branch is pushed to                      *)

BaseMoves ==
    /\ Step
    /\ base' = base + 1
    /\ UNCHANGED <<history, aicrewdVars, diskVars, report, jobs, run, seen>>
    /\ UNCHANGED <<has, keptVars, call, ghostVars>>

Pushed ==
    /\ Push
    /\ \E version \in {has[Now.head], base} : Contains(version, Len(history) + 1)
    /\ UNCHANGED <<base, keptVars, call, ghostVars>>

-----------------------------------------------------------------------------
(* update_base() *)

ScriptRuns == run.stage = "ran" /\ call.at = "none"

(* The branch is at the new head of the update in progress: its push went   *)
(* through, and what is left of it is done.                                 *)
Resume ==
    /\ call' = [call EXCEPT !.at = "pushed", !.resumed = TRUE]
    /\ UNCHANGED update

(* Mutant: an update is recorded once it is pushed. *)
MergeUnrecorded ==
    /\ update' = NoUpdate
    /\ call' = IF has[Now.head] < base
               THEN [call EXCEPT !.at = "recorded", !.v = Len(history), !.head = Now.head, !.base = base]
               ELSE Over

(* Any other record is stale and goes.  The base is merged and the update   *)
(* recorded; or there is nothing to merge, a conflict, or another patch.    *)
MergeBase ==
    \/ /\ has[Now.head] < base
       /\ update' = [old |-> Now.head, new |-> Merged(Len(history)), commented |-> FALSE]
       /\ call' = [call EXCEPT !.at = "recorded", !.v = Len(history), !.head = Now.head, !.base = base]
    \/ update' = NoUpdate /\ call' = Over

(* hostUpdateBase, up to its push: the fetch, and what it finds.            *)
CallUpdate ==
    /\ ScriptRuns /\ Now.state # "merged"
    /\ update # NoUpdate \/ has[Now.head] < base
    /\ IF update # NoUpdate /\ update.new = Now.head THEN Resume ELSE MergeBase
    /\ UNCHANGED <<vars, originVars, reruns, ghostVars>>

(* The merged head is the branch's: the forge takes a push without force    *)
(* while the branch is where the merge found it, or was put back to a head  *)
(* that this one may descend from.  A pull request that is merged follows   *)
(* its branch no more.                                                      *)
Lands ==
    /\ \E v \in 1..call.v : Now.head = history[v].head
    /\ IF Now.state = "merged" THEN UNCHANGED <<history, has>>
       ELSE /\ history' = Append(history, [Now EXCEPT !.head = Merged(call.v), !.ci = "pending"])
            /\ Contains(call.base, Merged(call.v))
    /\ UNCHANGED <<aicrewdVars, diskVars, report, jobs, run, seen, base, reruns, ghostVars>>

PushMerge ==
    /\ call.at = "recorded"
    /\ \/ /\ Lands
          /\ update' = [old |-> call.head, new |-> Merged(call.v), commented |-> FALSE]
          /\ call' = [call EXCEPT !.at = "pushed"]
          /\ UNCHANGED steps
       \/ /\ Now.head # call.head
          /\ call' = Over
          /\ UNCHANGED <<vars, originVars, keptVars, ghostVars>>

(* The push went through, and the call does not learn it.                   *)
PushUnanswered ==
    /\ call.at = "recorded"
    /\ Lands
    /\ call' = Over
    /\ Step
    /\ UNCHANGED update

(* finishBaseUpdate: the delta note, unless it was posted.                  *)
PostNote ==
    /\ call.at = "pushed"
    /\ IF update.commented
       THEN call' = [call EXCEPT !.at = "noted"] /\ UNCHANGED ghostVars
       ELSE call' = [call EXCEPT !.at = "posted"] /\ Does(<<"note", update.new>>) /\ UNCHANGED unsure
    /\ UNCHANGED <<vars, originVars, keptVars>>

NoteUnanswered ==
    /\ call.at = "pushed" /\ ~update.commented
    /\ Does(<<"note", update.new>>)
    /\ unsure' = unsure \cup {update.new}
    /\ call' = Answered(TRUE)
    /\ Step
    /\ UNCHANGED <<history, aicrewdVars, diskVars, report, jobs, run, seen, originVars, keptVars>>

KeepNote ==
    /\ call.at = "posted"
    /\ update' = [update EXCEPT !.commented = TRUE]
    /\ call' = [call EXCEPT !.at = "noted"]
    /\ UNCHANGED <<vars, originVars, reruns, ghostVars>>

(* The record's write fails, and the call goes on.                          *)
NoteNotKept ==
    /\ call.at = "posted"
    /\ call' = [call EXCEPT !.at = "noted"]
    /\ Step
    /\ UNCHANGED <<history, aicrewdVars, diskVars, report, jobs, run, seen>>
    /\ UNCHANGED <<originVars, keptVars, ghostVars>>

(* The step is recorded and the record cleared.                             *)
ClearUpdate ==
    /\ call.at = "noted"
    /\ update' = NoUpdate
    /\ call' = Answered(call.resumed)
    /\ UNCHANGED <<vars, originVars, reruns, ghostVars>>

-----------------------------------------------------------------------------
(* rerun() *)

(* Mutant: a head is claimed when its jobs were re-run. *)
ClaimNothing ==
    /\ call' = IF Now.head \in reruns THEN Over ELSE [call EXCEPT !.at = "claimed", !.head = Now.head]
    /\ UNCHANGED reruns

(* The head is claimed, unless it was.                                      *)
Claim ==
    IF Now.head \in reruns THEN call' = Over /\ UNCHANGED reruns
    ELSE /\ call' = [call EXCEPT !.at = "claimed", !.head = Now.head]
         /\ reruns' = reruns \cup {Now.head}

(* hostRerun, up to its request: the failed jobs of the head are read.      *)
CallRerun ==
    /\ ScriptRuns /\ Now.ci = "failure"
    /\ Claim
    /\ UNCHANGED <<vars, originVars, update, ghostVars>>

(* The forge re-runs the jobs, or has no call for it: then the head is given *)
(* back.                                                                    *)
AskRerun ==
    /\ call.at = "claimed"
    /\ call' = Over
    /\ \/ Does(<<"rerun", call.head>>) /\ reruns' = reruns \cup {call.head}
       \/ reruns' = reruns \ {call.head} /\ UNCHANGED <<done, again>>
    /\ UNCHANGED <<vars, originVars, update, unsure>>

RerunUnanswered ==
    /\ call.at = "claimed"
    /\ Does(<<"rerun", call.head>>)
    /\ call' = Over
    /\ Step
    /\ UNCHANGED <<history, aicrewdVars, diskVars, report, jobs, run, seen>>
    /\ UNCHANGED <<originVars, keptVars, unsure>>

-----------------------------------------------------------------------------
(* Whatever of a call fails, or its run's time is over: it ends there.      *)
Unsure ==
    IF call.at \in {"posted", "noted"} /\ ~update.commented
    THEN unsure \cup {update.new} ELSE unsure

CallEnds(after) ==
    /\ Step
    /\ call' = after /\ unsure' = Unsure
    /\ UNCHANGED <<originVars, keptVars, done, again>>

CallFails ==
    /\ call.at \notin {"none", "over"}
    /\ CallEnds(Answered(call.at = "pushed"))
    /\ UNCHANGED <<history, aicrewdVars, diskVars, report, jobs, run, seen>>

(* The launcher stops, in a call or beside it.                              *)
Stop ==
    /\ Crash
    /\ call' = NoCall /\ unsure' = Unsure
    /\ UNCHANGED <<originVars, keptVars, done, again>>

(* The script ended, and its point is recorded.                             *)
EndRun ==
    /\ call.at \in {"none", "over"}
    /\ RecordPoint
    /\ call' = NoCall
    /\ UNCHANGED <<originVars, keptVars, ghostVars>>

-----------------------------------------------------------------------------
CallGoesOn ==
    \/ PushMerge \/ PostNote \/ KeepNote \/ ClearUpdate
    \/ AskRerun

BaseNext ==
    \/ Beside /\ UNCHANGED baseVars
    \/ BaseMoves \/ Pushed
    \/ CallUpdate \/ CallRerun \/ CallGoesOn
    \/ PushUnanswered \/ NoteUnanswered \/ NoteNotKept \/ RerunUnanswered
    \/ CallFails
    \/ EndRun \/ Stop

BaseSpec == BaseInit /\ [][BaseNext]_allVars

(* As in PullWatch; a host call goes on, and a script ends.                 *)
BaseFairness ==
    /\ WF_allVars(PollGoesOn /\ UNCHANGED baseVars)
    /\ WF_allVars(EndRun \/ CallGoesOn \/ ((StartPoint \/ Announce) /\ UNCHANGED baseVars))
    /\ WF_allVars(Reports("command") /\ UNCHANGED baseVars)
    /\ WF_allVars(Wake /\ UNCHANGED baseVars)

FairBaseSpec == BaseSpec /\ BaseFairness

-----------------------------------------------------------------------------
(* Properties *)

(* The branch was at a head and left it.                                    *)
Left(h) == \E i, j \in Versions : i < j /\ history[i].head = h /\ history[j].head # h

(* A head that update_base() pushed has its delta note, or the update is    *)
(* on disk, where the next call finds it: whatever was cut, and unless      *)
(* somebody has moved the branch on (DESIGN-TURNS.md 12.4).                 *)
CutIsCompletable ==
    Now.head < 0 /\ ~Left(Now.head) =>
        <<"note", Now.head>> \in done \/ update.new = Now.head

(* No effect comes twice: the jobs of a head are re-run once, over all runs *)
(* and wherever the branch goes in between, and a note is posted twice only *)
(* when the call that posted it could not keep that (hostRerun, Commented). *)
EffectsOnce == \A e \in again : e[1] = "note" /\ e[2] \in unsure

-----------------------------------------------------------------------------
(* What the proofs rest on *)

Effects == {"note", "rerun"} \X Int

Update == [old : Int, new : Int, commented : BOOLEAN]

Call ==
    [at : {"none", "over", "recorded", "pushed", "posted", "noted", "claimed"},
     v : Nat, head : Int, base : Nat, resumed : BOOLEAN, second : BOOLEAN]

(* The base that a head contains is known for every head of the branch.     *)
OriginOK ==
    /\ base \in Nat
    /\ has \in [DOMAIN has -> Nat] /\ \A v \in Versions : history[v].head \in DOMAIN has

CallOK ==
    /\ update \in Update /\ reruns \subseteq Int /\ call \in Call
    /\ done \subseteq Effects /\ again \subseteq Effects /\ unsure \subseteq Int

(* A merged head came after the version it was merged at; so one merged at  *)
(* the newest version is new to the branch.                                 *)
Before(h) == h < 0 /\ (-h < Len(history) \/ Now.state = "merged")

HeadsAreNew == \A v \in Versions : -history[v].head < v

NotesInv ==
    /\ \A e \in done : e[1] = "note" => Before(e[2])
    /\ (update.new # 0 /\ ~update.commented /\ call.at \notin {"posted", "noted"})
          => <<"note", update.new>> \notin done \/ update.new \in unsure
    /\ update.commented \/ call.at \in {"posted", "noted"} => <<"note", update.new>> \in done

UpdateCallInv ==
    /\ update # NoUpdate => update.new < 0
    /\ call.at = "recorded" =>
          /\ update = [old |-> call.head, new |-> Merged(call.v), commented |-> FALSE]
          /\ call.v \in Versions
    /\ call.at \in {"pushed", "posted", "noted"} => Before(update.new)

RerunsInv ==
    /\ \A e \in done : e[1] = "rerun" => e[2] \in reruns
    /\ call.at = "claimed" => call.head \in reruns /\ <<"rerun", call.head>> \notin done

EffectsInv ==
    /\ OriginOK /\ CallOK
    /\ HeadsAreNew /\ NotesInv /\ UpdateCallInv /\ RerunsInv
    /\ CutIsCompletable /\ EffectsOnce

BaseInv == PointsInv /\ EffectsInv
=============================================================================
