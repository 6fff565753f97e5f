---------------------------- MODULE TeamSessions ----------------------------
(***************************************************************************)
(* Teams, memberships, identity links and sessions (internal/store         *)
(* registry.go, identity.go, invitation.go, session.go, sessiontoken.go).  *)
(*                                                                         *)
(* A member's session is fenced by its ordinal and generation, a team's    *)
(* coordinator by the team-wide coordinator generation, and a membership   *)
(* by its revision.  Each is advanced by operations of different actors:   *)
(* the member enters and resumes with an aimem proof, which may also       *)
(* rotate the credential of all its sessions, the operator changes roles,  *)
(* removes and stops, and an invitation may link, rotate or rebind.  Every *)
(* operation is one serialized transaction.                                *)
(***************************************************************************)
EXTENDS Integers

CONSTANTS Teams, Agents,
          Creds,        \* aimem credentials (token IDs)
          Users,        \* aimem users
          UserOf,       \* the user a credential belongs to
          NoCred,       \* an agent without an identity link
          MaxRevision,  \* bound: a membership's revision
          MaxOrdinal,   \* bound: sessions of one member
          MaxGen,       \* bound: a session's generation
          MaxTerm       \* bound: a team's coordinator generation

ASSUME CredsAssumption == UserOf \in [Creds -> Users] /\ NoCred \notin Creds

VARIABLES membership,  \* per member: its role ("none": no row, or removed) and revision
          session,     \* per member: its latest session
          coordGen,    \* per team: the coordinator generation
          cred         \* per agent: the linked credential

sessionVars == <<membership, session, coordGen, cred>>

-----------------------------------------------------------------------------
Members == Teams \X Agents

Roles == {"coordinator", "worker", "independent"}

Membership == [role : Roles \cup {"none"}, revision : Nat]

(* The ordinal numbers a member's sessions; a session keeps the role and    *)
(* the credential it was started with, and a coordinator's the coordinator  *)
(* generation of its start or last resume.                                  *)
Session == [ordinal : Nat, active : BOOLEAN, gen : Nat, role : Roles \cup {"none"},
            coordGen : Nat, cred : Creds \cup {NoCred}]

NoSession == [ordinal |-> 0, active |-> FALSE, gen |-> 0, role |-> "none",
              coordGen |-> 0, cred |-> NoCred]

TypeOK ==
    /\ membership \in [Members -> Membership]
    /\ session \in [Members -> Session]
    /\ \A m \in Members : session[m] # NoSession => session[m].gen >= 1
    /\ coordGen \in [Teams -> Nat]
    /\ cred \in [Agents -> Creds \cup {NoCred}]

ActiveCoordinator(m) == session[m].active /\ session[m].role = "coordinator"

(* The bounds, checked of the state an operation leads to. *)
WithinBounds ==
    /\ \A m \in Members : /\ membership[m].revision <= MaxRevision
                          /\ session[m].ordinal <= MaxOrdinal
                          /\ session[m].gen <= MaxGen
    /\ \A t \in Teams : coordGen[t] <= MaxTerm

SessionsInit ==
    /\ membership = [m \in Members |-> [role |-> "none", revision |-> 0]]
    /\ session = [m \in Members |-> NoSession]
    /\ coordGen = [t \in Teams |-> 0]
    /\ cred = [a \in Agents |-> NoCred]

-----------------------------------------------------------------------------
(* Shared steps of the operations *)

Ended(s) == [s EXCEPT !.active = FALSE, !.gen = @ + 1]

Rebound(s, c) == [s EXCEPT !.cred = c, !.gen = @ + 1]

Resumed(s, term) == [s EXCEPT !.coordGen = term, !.gen = @ + 1]

(* Mutant: the coordinator generation stays when a coordinator's session ends. *)
EndSessionsOnly(ms) ==
    /\ session' = [m \in Members |->
                     IF m \in ms /\ session[m].active
                     THEN Ended(session[m])
                     ELSE session[m]]
    /\ UNCHANGED coordGen

(* endSession of every active session among ms: the generation advances and *)
(* so does the coordinator generation of a team whose coordinator ends.     *)
EndSessions(ms) ==
    /\ session' = [m \in Members |->
                     IF m \in ms /\ session[m].active
                     THEN Ended(session[m])
                     ELSE session[m]]
    /\ coordGen' = [t \in Teams |->
                     IF \E m \in ms : m[1] = t /\ ActiveCoordinator(m)
                     THEN coordGen[t] + 1 ELSE coordGen[t]]

(* Mutant: the sessions keep the credential they were started with. *)
RotatedUnbound(a, c) ==
    [m \in Members |->
        IF c # cred[a] /\ m[2] = a /\ session[m].active
        THEN [session[m] EXCEPT !.gen = @ + 1]
        ELSE session[m]]

(* Mutant: the sessions are bound under the generation they have. *)
RotatedInPlace(a, c) ==
    [m \in Members |->
        IF c # cred[a] /\ m[2] = a /\ session[m].active
        THEN [session[m] EXCEPT !.cred = c]
        ELSE session[m]]

(* rotateIfNeeded: a new credential of the same user is linked, and all of   *)
(* the agent's active sessions are bound to it under a new generation.      *)
Rotated(a, c) ==
    [m \in Members |->
        IF c # cred[a] /\ m[2] = a /\ session[m].active
        THEN Rebound(session[m], c)
        ELSE session[m]]

(* The verified identity is the one linked to the agent. *)
ProvesAgent(a, c) == cred[a] # NoCred /\ UserOf[c] = UserOf[cred[a]]

(* agentByIdentity: the user is linked to another agent. *)
HeldByAnother(a, c) ==
    \E b \in Agents \ {a} : cred[b] # NoCred /\ UserOf[cred[b]] = UserOf[c]

(* addMembership: a removed row is reactivated, so its revision keeps       *)
(* increasing.                                                              *)
Joined(m, r) == [membership EXCEPT ![m] = [role |-> r, revision |-> @.revision + 1]]

IsMember(m) == membership[m].role # "none"

-----------------------------------------------------------------------------
(* The operator *)

AddMember(m, r) ==
    /\ ~IsMember(m)
    /\ membership' = Joined(m, r)
    /\ UNCHANGED <<session, coordGen, cred>>

(* A command that names another revision than the current one is refused.   *)
SetMemberRole(m, expected, r) ==
    /\ IsMember(m)
    /\ expected = membership[m].revision
    /\ membership' = [membership EXCEPT ![m] = [role |-> r, revision |-> @.revision + 1]]
    /\ EndSessions({m})
    /\ UNCHANGED cred

RemoveMember(m, expected) ==
    /\ IsMember(m)
    /\ expected = membership[m].revision
    /\ membership' = [membership EXCEPT ![m].role = "none", ![m].revision = @ + 1]
    /\ EndSessions({m})
    /\ UNCHANGED cred

StopSession(m) ==
    /\ session[m].active
    /\ EndSessions({m})
    /\ UNCHANGED <<membership, cred>>

-----------------------------------------------------------------------------
(* The agent, with a proof that aimem vouched for credential c *)

(* CompleteAgentProof *)
ProveAgain(a, c) ==
    /\ ProvesAgent(a, c)
    /\ c # cred[a]
    /\ session' = Rotated(a, c)
    /\ cred' = [cred EXCEPT ![a] = c]
    /\ UNCHANGED <<membership, coordGen>>

(* Mutant: no look at the team's other sessions. *)
OfficeOpen(t) == TRUE

(* No active coordinator session in the team. *)
OfficeVacant(t) == ~\E m \in Members : m[1] = t /\ ActiveCoordinator(m)

(* The member's next session, with the role it has now. *)
Started(m, c, term) ==
    [ordinal |-> session[m].ordinal + 1, active |-> TRUE, gen |-> 1,
     role |-> membership[m].role, coordGen |-> term, cred |-> c]

(* EnterSession: rotates, then starts the member's next session.  A          *)
(* coordinator starts only while the team has no active coordinator, and    *)
(* under a new coordinator generation.                                      *)
EnterSession(m, c) ==
    LET coordinates == membership[m].role = "coordinator"
        term == coordGen[m[1]] + 1
    IN  /\ ProvesAgent(m[2], c)
        /\ IsMember(m)
        /\ ~session[m].active
        /\ coordinates => OfficeVacant(m[1])
        /\ coordGen' = IF coordinates THEN [coordGen EXCEPT ![m[1]] = term] ELSE coordGen
        /\ session' = [Rotated(m[2], c) EXCEPT ![m] =
                         Started(m, c, IF coordinates THEN term ELSE 0)]
        /\ cred' = [cred EXCEPT ![m[2]] = c]
        /\ UNCHANGED membership

(* ResumeSessionWithProof: the active session moves to a new generation,     *)
(* whoever held the old one; a coordinator's to a new coordinator           *)
(* generation too.  A rotation in the same transaction moves it once more.  *)
ResumeSession(m, c) ==
    LET coordinates == session[m].role = "coordinator"
        term == coordGen[m[1]] + 1
    IN  /\ ProvesAgent(m[2], c)
        /\ session[m].active
        /\ coordGen' = IF coordinates THEN [coordGen EXCEPT ![m[1]] = term] ELSE coordGen
        /\ session' = [Rotated(m[2], c) EXCEPT ![m] =
                         Resumed(@, IF coordinates THEN term ELSE session[m].coordGen)]
        /\ cred' = [cred EXCEPT ![m[2]] = c]
        /\ UNCHANGED membership

(* Leave, by the holder of the current generation.  Open work in the team   *)
(* refuses it; Attempts.tla adds that guard.                                *)
LeaveSession(m, gen) ==
    /\ session[m].active
    /\ session[m].gen = gen
    /\ EndSessions({m})
    /\ UNCHANGED <<membership, cred>>

-----------------------------------------------------------------------------
(* An invitation, redeemed with a proof of credential c (bindInvitation):    *)
(* it links an unlinked agent, rotates a linked one, or moves it to another  *)
(* user, and makes it a member of the invitation's team.                     *)

EnsuredMembership(m, r) ==
    /\ membership[m].role \in {"none", r}
    /\ membership' = IF IsMember(m) THEN membership ELSE Joined(m, r)

RedeemToLink(m, r, c) ==
    /\ cred[m[2]] = NoCred
    /\ ~HeldByAnother(m[2], c)
    /\ EnsuredMembership(m, r)
    /\ cred' = [cred EXCEPT ![m[2]] = c]
    /\ UNCHANGED <<session, coordGen>>

RedeemAsLinked(m, r, c) ==
    /\ ProvesAgent(m[2], c)
    /\ EnsuredMembership(m, r)
    /\ session' = Rotated(m[2], c)
    /\ cred' = [cred EXCEPT ![m[2]] = c]
    /\ UNCHANGED coordGen

(* Rebinding ends the agent's sessions in every team.  Outstanding work      *)
(* refuses it; Attempts.tla adds that guard.                                 *)
RedeemToRebind(m, r, c) ==
    /\ ~ProvesAgent(m[2], c)
    /\ ~HeldByAnother(m[2], c)
    /\ EnsuredMembership(m, r)
    /\ EndSessions({other \in Members : other[2] = m[2]})
    /\ cred' = [cred EXCEPT ![m[2]] = c]

-----------------------------------------------------------------------------
OperatorSteps ==
    \E m \in Members :
        \/ \E r \in Roles : AddMember(m, r)
        \/ \E expected \in 1..MaxRevision :
              \/ \E r \in Roles : SetMemberRole(m, expected, r)
              \/ RemoveMember(m, expected)
        \/ StopSession(m)

ProofSteps ==
    \E c \in Creds :
        \/ \E a \in Agents : ProveAgain(a, c)
        \/ \E m \in Members : EnterSession(m, c) \/ ResumeSession(m, c)

InvitationSteps ==
    \E m \in Members, r \in Roles, c \in Creds :
        RedeemToLink(m, r, c) \/ RedeemAsLinked(m, r, c) \/ RedeemToRebind(m, r, c)

SessionsNext ==
    /\ \/ OperatorSteps
       \/ ProofSteps
       \/ InvitationSteps
       \/ \E m \in Members, gen \in 1..MaxGen : LeaveSession(m, gen)
    /\ WithinBounds'

SessionsSpec == SessionsInit /\ [][SessionsNext]_sessionVars

-----------------------------------------------------------------------------
(* Properties *)

(* A team has at most one active coordinator session, whatever starts,       *)
(* stops, role changes, removals and rebinds come in between                 *)
(* (startSessionTx, ErrCoordinatorActive).                                   *)
OneCoordinator ==
    \A m, n \in Members :
        m[1] = n[1] /\ ActiveCoordinator(m) /\ ActiveCoordinator(n) => m = n

(* The team's coordinator generation names the active coordinator session:   *)
(* it has recorded that very generation, and no ended one has, so an offer   *)
(* fenced by a superseded coordinator never becomes current again            *)
(* (bumpCoordinatorGeneration, currentCoordinator).                          *)
CoordinatorTerm ==
    \A m \in Members :
        session[m].role = "coordinator" =>
            /\ session[m].coordGen <= coordGen[m[1]]
            /\ session[m].active <=> session[m].coordGen = coordGen[m[1]]

(* An active session acts for a present member, in the role it has now and   *)
(* under the credential its agent is linked with now: every operation that   *)
(* changes one of them ends or rebinds the session in the same transaction   *)
(* (tokenBinding and actingMember recheck it).                               *)
SessionBound ==
    \A m \in Members :
        session[m].active =>
            /\ IsMember(m)
            /\ session[m].role = membership[m].role
            /\ session[m].cred = cred[m[2]]
            /\ session[m].cred # NoCred

(* No two agents are linked to one user (agents_one_per_identity).           *)
OneAgentPerUser ==
    \A a \in Agents : cred[a] # NoCred => ~HeldByAnother(a, cred[a])

(* A session never changes under its holder: whatever changes it moves its   *)
(* ordinal or its generation forward, so a command that names what it was    *)
(* is stale (currentSession), and no ended session comes back.  A revision   *)
(* names one state of one membership, removal and a later return included,   *)
(* so a delayed command that read an older one is refused (addMembership's   *)
(* comment).                                                                 *)
Fenced ==
    [][\A m \in Members :
          /\ session'[m] # session[m] =>
                \/ session'[m].ordinal = session[m].ordinal + 1
                \/ /\ session'[m].ordinal = session[m].ordinal
                   /\ session[m].active
                   /\ session'[m].gen > session[m].gen
          /\ membership'[m] # membership[m] =>
                membership'[m].revision > membership[m].revision]_sessionVars

(* Who holds the coordinator's office of a team: a member's session.         *)
HolderOf(t) ==
    LET holders == {m \in Members : m[1] = t /\ ActiveCoordinator(m)}
        m == CHOOSE n \in holders : TRUE
    IN  IF holders = {} THEN <<>> ELSE <<m[2], session[m].ordinal>>

Office(t) ==
    INSTANCE FencedOffice WITH
        Holders <- Agents \X (1..MaxOrdinal), NoHolder <- <<>>,
        term <- coordGen[t], holder <- HolderOf(t)

(* Every team's office is held as FencedOffice promises: the conjunction of  *)
(* Office(t)!Spec over the teams, with one subscript for all of them.        *)
ImplementsOffice ==
    /\ \A t \in Teams : Office(t)!Init
    /\ [][\A t \in Teams : Office(t)!Next
                           \/ UNCHANGED <<coordGen[t], HolderOf(t)>>]_sessionVars

(* What the proofs rest on. *)
SessionsInv == TypeOK /\ OneCoordinator /\ CoordinatorTerm /\ SessionBound /\ OneAgentPerUser
=============================================================================
