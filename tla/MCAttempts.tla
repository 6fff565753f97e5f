----------------------------- MODULE MCAttempts -----------------------------
(***************************************************************************)
(* A small instance of Attempts, in two scopes: one team whose sessions,   *)
(* roles and coordinator change around one attempt, and two teams with the *)
(* same agents and two attempts, whose sessions stand still.  It starts    *)
(* where the members have joined, been linked and entered their sessions:  *)
(* each by an invitation, then EnterSession, a coordinator first.          *)
(***************************************************************************)
EXTENDS Attempts

CONSTANTS t1, t2, a1, a2, c1, c2, d1, u1, u2, k1, k2

MCUserOf == [c \in Creds |-> IF c = c1 THEN u1 ELSE u2]

CredOf(a) == IF a = a1 THEN c1 ELSE c2

First(role, c) ==
    [ordinal |-> 1, active |-> TRUE, gen |-> 1, role |-> role,
     coordGen |-> IF role = "coordinator" THEN 1 ELSE 0, cred |-> c]

(* The members of these teams in their roles, their first sessions active. *)
Entered(teams, role) ==
    /\ membership = [m \in Members |->
                       IF m[1] \in teams THEN [role |-> role[m[2]], revision |-> 1]
                       ELSE [role |-> "none", revision |-> 0]]
    /\ session = [m \in Members |->
                    IF m[1] \in teams THEN First(role[m[2]], CredOf(m[2])) ELSE NoSession]
    /\ coordGen = [t \in Teams |-> IF t \in teams THEN 1 ELSE 0]
    /\ cred = [a \in Agents |-> CredOf(a)]
    /\ attempts = <<>>
    /\ reservation = <<>>

Crew(other) == [a \in Agents |-> IF a = a1 THEN "coordinator" ELSE other]

(* Bound: the first scope has one attempt, of one task, in one team. *)
OneTeam ==
    /\ \A m \in Members : m[1] = t2 => membership[m].revision = 0
    /\ Len(attempts) <= 1
    /\ \A i \in Ids : attempts[i].task = k1

(* Bound: in the second one sessions stand still, with one result each. *)
TwoTeams ==
    /\ \A m \in Members : /\ membership[m].revision = 1
                          /\ session[m].ordinal = 1 /\ session[m].gen = 1
    /\ \A t \in Teams : coordGen[t] = 1
    /\ \A i \in Ids : attempts[i].results <= 1

(* The other member is a worker, to be offered work, or independent. *)
CrewSpec ==
    /\ \E other \in {"worker", "independent"}, teams \in {{t1}, {t1, t2}} :
          Entered(teams, Crew(other))
    /\ [][Next /\ (OneTeam \/ TwoTeams)']_vars
=============================================================================
