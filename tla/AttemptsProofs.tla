--------------------------- MODULE AttemptsProofs ---------------------------
(***************************************************************************)
(* Proofs about TeamSessions and about Attempts, which extends it, for any  *)
(* teams, agents, credentials, tasks and bounds.                            *)
(*                                                                         *)
(* The sessions' fences and bindings are one inductive invariant; two       *)
(* lemmas say what the two shared steps of the operations do to it, ending  *)
(* a set of sessions and rotating an agent's credential.                    *)
(*                                                                         *)
(* An operation on an attempt changes one attempt, or aimem's reservation   *)
(* of it, and what it must keep is a relation of the two (AttemptInv); only *)
(* the open attempts of one agent are related across attempts, by the       *)
(* guards of OfferTask and ClaimTask.                                       *)
(***************************************************************************)
EXTENDS Attempts, TLAPS

-----------------------------------------------------------------------------
(* Sessions *)

(* Ending a session moves its generation on and keeps its ordinal, role     *)
(* and term.                                                                *)
LEMMA EndedSession ==
    ASSUME NEW s \in Session
    PROVE  /\ Ended(s) \in Session
           /\ Ended(s).gen = s.gen + 1
           /\ Ended(s).active = FALSE
           /\ Ended(s).ordinal = s.ordinal
           /\ Ended(s).role = s.role
           /\ Ended(s).coordGen = s.coordGen
<1>1. PICK g \in Nat : g = s.gen + 1
    BY DEF Session
<1>2. Ended(s) = [s EXCEPT !.active = FALSE, !.gen = g]
    BY <1>1, Zenon DEF Ended
<1> QED
    BY <1>1, <1>2 DEF Session

(* Binding a session to another credential moves its generation on and      *)
(* keeps the rest.                                                          *)
LEMMA ReboundSession ==
    ASSUME NEW s \in Session, NEW c \in Creds
    PROVE  /\ Rebound(s, c) \in Session
           /\ Rebound(s, c).gen = s.gen + 1
           /\ Rebound(s, c).cred = c
           /\ Rebound(s, c).active = s.active
           /\ Rebound(s, c).ordinal = s.ordinal
           /\ Rebound(s, c).role = s.role
           /\ Rebound(s, c).coordGen = s.coordGen
<1>1. PICK g \in Nat : g = s.gen + 1
    BY DEF Session
<1>2. Rebound(s, c) = [s EXCEPT !.cred = c, !.gen = g]
    BY <1>1, Zenon DEF Rebound
<1> QED
    BY <1>1, <1>2 DEF Session

(* Resuming a session moves its generation on and gives it the current      *)
(* term.                                                                    *)
LEMMA ResumedSession ==
    ASSUME NEW s \in Session, NEW term \in Nat
    PROVE  /\ Resumed(s, term) \in Session
           /\ Resumed(s, term).gen = s.gen + 1
           /\ Resumed(s, term).coordGen = term
           /\ Resumed(s, term).active = s.active
           /\ Resumed(s, term).ordinal = s.ordinal
           /\ Resumed(s, term).role = s.role
           /\ Resumed(s, term).cred = s.cred
<1>1. PICK g \in Nat : g = s.gen + 1
    BY DEF Session
<1>2. Resumed(s, term) = [s EXCEPT !.coordGen = term, !.gen = g]
    BY <1>1, Zenon DEF Resumed
<1> QED
    BY <1>1, <1>2 DEF Session

(* Ending sessions keeps the fences, and what stays active is unchanged.     *)
LEMMA EndingSessions ==
    ASSUME NEW ms \in SUBSET Members, SessionsInv, EndSessions(ms)
    PROVE  /\ session' \in [Members -> Session]
           /\ \A m \in Members : session'[m] # NoSession => session'[m].gen >= 1
           /\ coordGen' \in [Teams -> Nat]
           /\ OneCoordinator'
           /\ CoordinatorTerm'
           /\ \A m \in Members : session'[m].active => m \notin ms /\ session'[m] = session[m]
<1> USE DEF SessionsInv
<1>10. /\ session \in [Members -> Session]
      /\ coordGen \in [Teams -> Nat]
      /\ \A m \in Members : session[m] # NoSession => session[m].gen >= 1
    BY DEF TypeOK
<1>11. \A m \in Members :
          session'[m] = IF m \in ms /\ session[m].active THEN Ended(session[m]) ELSE session[m]
    BY <1>10 DEF EndSessions
<1>12. \A t \in Teams :
          coordGen'[t] = IF \E m \in ms : m[1] = t /\ ActiveCoordinator(m)
                         THEN coordGen[t] + 1 ELSE coordGen[t]
    BY <1>10 DEF EndSessions
<1>4. \A m \in Members :
          /\ session'[m] \in Session
          /\ session'[m].active => m \notin ms /\ session'[m] = session[m]
          /\ session'[m].active => session[m].active
          /\ m \notin ms => session'[m] = session[m]
          /\ session'[m].role = session[m].role
          /\ session'[m].coordGen = session[m].coordGen
    BY <1>10, <1>11, EndedSession
<1>1. session' \in [Members -> Session]
    BY <1>4 DEF EndSessions
<1>2. \A m \in Members : session'[m] # NoSession => session'[m].gen >= 1
  <2> SUFFICES ASSUME NEW m \in Members, session'[m] # NoSession
               PROVE  session'[m].gen >= 1
      OBVIOUS
  <2>1. CASE session'[m] = session[m]
      BY <2>1, <1>10
  <2>2. CASE session'[m] = Ended(session[m])
    <3>1. session[m] \in Session
        BY <1>10
    <3>2. session[m].gen \in Nat /\ Ended(session[m]).gen = session[m].gen + 1
        BY <3>1, EndedSession DEF Session
    <3> QED
        BY <2>2, <3>2
  <2> QED
      BY <2>1, <2>2, <1>11
<1>3. coordGen' \in [Teams -> Nat]
    BY <1>10, <1>12 DEF EndSessions
<1>5. OneCoordinator'
    BY <1>4 DEF OneCoordinator, ActiveCoordinator
<1>6. CoordinatorTerm'
  <2> SUFFICES ASSUME NEW m \in Members, session'[m].role = "coordinator"
               PROVE  /\ session'[m].coordGen <= coordGen'[m[1]]
                      /\ session'[m].active <=> session'[m].coordGen = coordGen'[m[1]]
      BY DEF CoordinatorTerm
  <2>1. /\ m[1] \in Teams
        /\ coordGen[m[1]] \in Nat
        /\ session[m].coordGen \in Nat
        /\ session[m].coordGen <= coordGen[m[1]]
        /\ session[m].active <=> session[m].coordGen = coordGen[m[1]]
    <3>1. session[m] \in Session /\ m[1] \in Teams
        BY <1>10 DEF Members
    <3> QED
        BY <1>10, <1>4, <3>1 DEF CoordinatorTerm, Session
  <2>2. CASE \E n \in ms : n[1] = m[1] /\ ActiveCoordinator(n)
    <3>1. coordGen'[m[1]] = coordGen[m[1]] + 1
        BY <2>1, <2>2, <1>12
    <3>2. ~session'[m].active
        BY <2>2, <1>4 DEF OneCoordinator, ActiveCoordinator
    <3> QED
        BY <2>1, <3>1, <3>2, <1>4
  <2>3. CASE ~\E n \in ms : n[1] = m[1] /\ ActiveCoordinator(n)
    <3>1. coordGen'[m[1]] = coordGen[m[1]]
        BY <2>1, <2>3, <1>12
    <3>2. session'[m].active = session[m].active
        BY <2>3, <1>4, <1>10, <1>11, EndedSession DEF ActiveCoordinator
    <3> QED
        BY <2>1, <3>1, <3>2, <1>4
  <2> QED
      BY <2>2, <2>3
<1> QED
    BY <1>1, <1>2, <1>3, <1>4, <1>5, <1>6

(* A rotation binds every active session of the agent to the credential and  *)
(* changes nothing else but generations, which never go back.                *)
LEMMA Rotating ==
    ASSUME NEW a \in Agents, NEW c \in Creds, SessionsInv
    PROVE  /\ Rotated(a, c) \in [Members -> Session]
           /\ \A m \in Members :
                /\ Rotated(a, c)[m].ordinal = session[m].ordinal
                /\ Rotated(a, c)[m].active = session[m].active
                /\ Rotated(a, c)[m].role = session[m].role
                /\ Rotated(a, c)[m].coordGen = session[m].coordGen
                /\ Rotated(a, c)[m].gen >= session[m].gen
                /\ session[m].active /\ m[2] = a => Rotated(a, c)[m].cred = c
                /\ m[2] # a => Rotated(a, c)[m].cred = session[m].cred
                /\ ~session[m].active => Rotated(a, c)[m] = session[m]
                /\ Rotated(a, c)[m] # session[m] =>
                     session[m].active /\ Rotated(a, c)[m].gen > session[m].gen
<1> DEFINE R == Rotated(a, c)
<1>1. ASSUME NEW m \in Members
      PROVE  /\ R[m] = IF c # cred[a] /\ m[2] = a /\ session[m].active
                       THEN Rebound(session[m], c) ELSE session[m]
             /\ session[m] \in Session
             /\ session[m].active /\ m[2] = a => session[m].cred = cred[a]
    BY DEF Rotated, SessionsInv, TypeOK, SessionBound
<1>2. \A m \in Members : R[m] \in Session
    BY <1>1, ReboundSession
<1>3. R \in [Members -> Session]
    BY <1>2 DEF Rotated
<1> HIDE DEF R
<1>4. \A m \in Members :
        /\ R[m].ordinal = session[m].ordinal
        /\ R[m].active = session[m].active
        /\ R[m].role = session[m].role
        /\ R[m].coordGen = session[m].coordGen
        /\ R[m].gen >= session[m].gen
        /\ session[m].active /\ m[2] = a => R[m].cred = c
        /\ m[2] # a => R[m].cred = session[m].cred
        /\ ~session[m].active => R[m] = session[m]
        /\ R[m] # session[m] => session[m].active /\ R[m].gen > session[m].gen
    BY <1>1, ReboundSession DEF Session
<1> QED
    BY <1>3, <1>4 DEF R

-----------------------------------------------------------------------------
(* The initial states satisfy the invariant.                                *)
LEMMA InitInv == SessionsInit => SessionsInv
  BY DEF SessionsInit, SessionsInv, TypeOK, Membership, Session, NoSession, OneCoordinator,
         ActiveCoordinator, CoordinatorTerm, SessionBound, OneAgentPerUser

(* Joining gives one member a role and leaves every other membership        *)
(* alone.                                                                   *)
LEMMA Joining ==
    ASSUME NEW m \in Members, NEW r \in Roles, membership \in [Members -> Membership]
    PROVE  /\ Joined(m, r) \in [Members -> Membership]
           /\ Joined(m, r)[m].role = r
           /\ \A n \in Members : n # m => Joined(m, r)[n] = membership[n]
<1>1. membership[m].revision + 1 \in Nat
    BY DEF Membership
<1> QED
    BY <1>1 DEF Joined, Membership

(* Joining only ever adds a member that was none. *)
LEMMA Ensuring ==
    ASSUME NEW m \in Members, NEW r \in Roles, TypeOK, EnsuredMembership(m, r)
    PROVE  /\ membership' \in [Members -> Membership]
           /\ \A n \in Members : IsMember(n) => membership'[n] = membership[n]
<1>1. membership \in [Members -> Membership]
    BY DEF TypeOK
<1>2. CASE IsMember(m)
    BY <1>1, <1>2 DEF EnsuredMembership
<1>3. CASE ~IsMember(m)
    BY <1>1, <1>3, Joining DEF EnsuredMembership
<1> QED
    BY <1>2, <1>3

(* The operator adding a member keeps the invariant.                        *)
LEMMA AddMemberInv ==
    ASSUME SessionsInv, NEW m \in Members, NEW r \in Roles, AddMember(m, r)
    PROVE  SessionsInv'
<1> USE DEF SessionsInv, AddMember
<1>1. TypeOK'
    BY Joining DEF TypeOK
<1>2. OneCoordinator' /\ CoordinatorTerm' /\ OneAgentPerUser'
    BY DEF OneCoordinator, CoordinatorTerm, OneAgentPerUser, ActiveCoordinator, HeldByAnother
<1>3. SessionBound'
  <2>1. ~session[m].active
      BY DEF SessionBound
  <2>2. \A n \in Members : n # m => membership'[n] = membership[n]
      BY Joining DEF TypeOK
  <2>3. session' = session /\ cred' = cred
      OBVIOUS
  <2> QED
      BY <2>1, <2>2, <2>3 DEF SessionBound, IsMember
<1> QED
    BY <1>1, <1>2, <1>3

(* A change of m's membership that ends its session. *)
LEMMA LeavingInv ==
    ASSUME SessionsInv, NEW m \in Members, EndSessions({m}), UNCHANGED cred,
           membership' \in [Members -> Membership],
           \A n \in Members : n # m => membership'[n] = membership[n]
    PROVE  SessionsInv'
<1> USE DEF SessionsInv
<1>1. TypeOK' /\ OneCoordinator' /\ CoordinatorTerm'
    BY EndingSessions DEF TypeOK
<1>2. SessionBound'
    BY EndingSessions DEF SessionBound, IsMember
<1>3. OneAgentPerUser'
    BY DEF OneAgentPerUser, HeldByAnother
<1> QED
    BY <1>1, <1>2, <1>3

(* Every step of the operator keeps the invariant.                          *)
LEMMA OperatorInv ==
    ASSUME SessionsInv, OperatorSteps
    PROVE  SessionsInv'
<1>1. PICK m \in Members :
        \/ \E r \in Roles : AddMember(m, r)
        \/ \E expected \in 1..MaxRevision :
              \/ \E r \in Roles : SetMemberRole(m, expected, r)
              \/ RemoveMember(m, expected)
        \/ StopSession(m)
    BY DEF OperatorSteps
<1>2. membership \in [Members -> Membership] /\ membership[m].revision + 1 \in Nat
    BY DEF SessionsInv, TypeOK, Membership
<1>3. ASSUME NEW r \in Roles, NEW expected, SetMemberRole(m, expected, r)
      PROVE  SessionsInv'
    BY <1>2, <1>3, LeavingInv DEF SetMemberRole, Membership
<1>4. ASSUME NEW expected, RemoveMember(m, expected)
      PROVE  SessionsInv'
    BY <1>2, <1>4, LeavingInv DEF RemoveMember, Membership
<1>5. ASSUME StopSession(m)
      PROVE  SessionsInv'
    BY <1>2, <1>5, LeavingInv DEF StopSession
<1> QED
    BY <1>1, <1>3, <1>4, <1>5, AddMemberInv

-----------------------------------------------------------------------------
(* Linking an agent to a user it already has, or that no other agent has.    *)
LEMMA Linking ==
    ASSUME SessionsInv, NEW a \in Agents, NEW c \in Creds, cred' = [cred EXCEPT ![a] = c],
           ProvesAgent(a, c) \/ ~HeldByAnother(a, c)
    PROVE  /\ cred' \in [Agents -> Creds \cup {NoCred}]
           /\ cred'[a] = c
           /\ \A b \in Agents \ {a} : cred'[b] = cred[b]
           /\ OneAgentPerUser'
<1>1. cred \in [Agents -> Creds \cup {NoCred}]
    BY DEF SessionsInv, TypeOK
<1>2. /\ cred' \in [Agents -> Creds \cup {NoCred}]
      /\ cred'[a] = c
      /\ \A b \in Agents \ {a} : cred'[b] = cred[b]
    BY <1>1
<1>3. \A b \in Agents \ {a} : cred[b] # NoCred => UserOf[cred[b]] # UserOf[c]
    BY DEF ProvesAgent, HeldByAnother, SessionsInv, OneAgentPerUser
<1>4. OneAgentPerUser'
    BY <1>2, <1>3 DEF SessionsInv, OneAgentPerUser, HeldByAnother
<1> QED
    BY <1>2, <1>4

(* A rotation alone, with whatever the membership of the agent grows by.     *)
LEMMA RotationInv ==
    ASSUME SessionsInv, NEW a \in Agents, NEW c \in Creds, ProvesAgent(a, c),
           session' = Rotated(a, c), cred' = [cred EXCEPT ![a] = c], UNCHANGED coordGen,
           membership' \in [Members -> Membership],
           \A n \in Members : IsMember(n) => membership'[n] = membership[n]
    PROVE  SessionsInv'
<1> USE DEF SessionsInv
<1>1. \A m \in Members : m[2] \in Agents
    BY DEF Members
<1>2. TypeOK'
  <2>1. \A m \in Members : session'[m] # NoSession => session'[m].gen >= 1
    <3> SUFFICES ASSUME NEW m \in Members, session'[m] # NoSession
                 PROVE  session'[m].gen >= 1
        OBVIOUS
    <3>1. /\ session[m].gen \in Nat
          /\ session[m] # NoSession => session[m].gen >= 1
          /\ session'[m] # session[m] => session'[m].gen > session[m].gen
          /\ session'[m].gen \in Nat
        BY Rotating DEF TypeOK, Session
    <3> QED
        BY <3>1
  <2> QED
      BY <2>1, Rotating, Linking DEF TypeOK
<1>3. OneCoordinator'
    BY Rotating DEF OneCoordinator, ActiveCoordinator
<1>4. CoordinatorTerm'
    BY Rotating DEF CoordinatorTerm
<1>5. SessionBound'
  <2> SUFFICES ASSUME NEW m \in Members, session'[m].active
               PROVE  /\ IsMember(m)'
                      /\ session'[m].role = membership'[m].role
                      /\ session'[m].cred = cred'[m[2]]
                      /\ session'[m].cred # NoCred
      BY DEF SessionBound
  <2>1. /\ session[m].active
        /\ IsMember(m)
        /\ session'[m].role = session[m].role
        /\ session[m].role = membership[m].role
        /\ session[m].cred = cred[m[2]]
        /\ session[m].cred # NoCred
    <3>1. session'[m].active = session[m].active /\ session'[m].role = session[m].role
        BY Rotating
    <3>2. session[m].active
        BY <3>1
    <3> QED
        BY <3>1, <3>2 DEF SessionBound
  <2>2. CASE m[2] = a
    <3>1. cred'[m[2]] = c
        BY <2>2, Linking
    <3>2. session'[m].cred = c
        BY <2>1, <2>2, Rotating
    <3>3. c # NoCred
        BY CredsAssumption
    <3> QED
        BY <2>1, <3>1, <3>2, <3>3 DEF IsMember
  <2>3. CASE m[2] # a
      BY <1>1, <2>1, <2>3, Rotating, Linking DEF IsMember
  <2> QED
      BY <2>2, <2>3
<1> QED
    BY <1>2, <1>3, <1>4, <1>5, Linking

(* Proving an identity again with a new credential keeps the invariant.     *)
LEMMA ProveAgainInv ==
    ASSUME SessionsInv, NEW a \in Agents, NEW c \in Creds, ProveAgain(a, c)
    PROVE  SessionsInv'
  BY RotationInv DEF ProveAgain, SessionsInv, TypeOK

(* Entering a session keeps the invariant: a coordinator enters only an     *)
(* empty office, with a new term.                                           *)
LEMMA EnterInv ==
    ASSUME SessionsInv, NEW m \in Members, NEW c \in Creds, EnterSession(m, c)
    PROVE  SessionsInv'
<1> USE DEF SessionsInv
<1> DEFINE coordinates == membership[m].role = "coordinator"
           term == coordGen[m[1]] + 1
           mine == Started(m, c, IF coordinates THEN term ELSE 0)
           R == Rotated(m[2], c)
<1>1. /\ ProvesAgent(m[2], c)
      /\ IsMember(m)
      /\ ~session[m].active
      /\ coordinates => OfficeVacant(m[1])
      /\ coordGen' = IF coordinates THEN [coordGen EXCEPT ![m[1]] = term] ELSE coordGen
      /\ session' = [R EXCEPT ![m] = mine]
      /\ cred' = [cred EXCEPT ![m[2]] = c]
      /\ membership' = membership
    BY Zenon DEF EnterSession
<1>2. /\ \A n \in Members : n[1] \in Teams /\ n[2] \in Agents
      /\ coordGen[m[1]] \in Nat /\ term \in Nat
      /\ session[m] \in Session
      /\ membership[m].role \in Roles
    BY <1>1 DEF Members, TypeOK, Membership, IsMember
<1>3. /\ mine \in Session /\ mine.active /\ mine.gen = 1 /\ mine.cred = c
      /\ mine.role = membership[m].role
      /\ mine.coordGen = IF coordinates THEN term ELSE 0
    BY <1>2 DEF Started, Session
<1>4. /\ R \in [Members -> Session]
      /\ session' \in [Members -> Session]
      /\ session'[m] = mine
      /\ \A n \in Members : n # m => session'[n] = R[n]
    BY <1>1, <1>2, <1>3, Rotating
<1>5. /\ coordGen' \in [Teams -> Nat]
      /\ coordinates => coordGen'[m[1]] = term
      /\ \A t \in Teams : t # m[1] \/ ~coordinates => coordGen'[t] = coordGen[t]
    BY <1>1, <1>2 DEF TypeOK
<1>10. \A n \in Members :
         /\ R[n].active = session[n].active
         /\ R[n].role = session[n].role
         /\ R[n].coordGen = session[n].coordGen
         /\ R[n].gen >= session[n].gen
         /\ R[n] # session[n] => R[n].gen > session[n].gen
         /\ session[n].active /\ n[2] = m[2] => R[n].cred = c
         /\ n[2] # m[2] => R[n].cred = session[n].cred
    BY <1>2, Rotating
<1> HIDE DEF mine, R
<1>11. \A n \in Members :
         /\ session[n].gen \in Nat /\ R[n].gen \in Nat
         /\ session[n].coordGen \in Nat /\ coordGen[n[1]] \in Nat
         /\ session[n] # NoSession => session[n].gen >= 1
    BY <1>2, <1>4 DEF TypeOK, Session
<1>6. TypeOK'
  <2>1. ASSUME NEW n \in Members, n # m, session'[n] # NoSession
        PROVE  session'[n].gen >= 1
    BY <1>4, <1>10, <1>11, <2>1
  <2> QED
      BY <1>1, <1>2, <1>3, <1>4, <1>5, <2>1, Linking DEF TypeOK
<1>7. OneCoordinator'
  <2> SUFFICES ASSUME NEW n \in Members, n # m, coordinates, n[1] = m[1]
               PROVE  ~ActiveCoordinator(n)'
      BY <1>2, <1>3, <1>4, <1>10 DEF OneCoordinator, ActiveCoordinator
  <2> QED
      BY <1>1, <1>2, <1>4, <1>10 DEF OfficeVacant, ActiveCoordinator
<1>8. CoordinatorTerm'
  <2> SUFFICES ASSUME NEW n \in Members, session'[n].role = "coordinator"
               PROVE  /\ session'[n].coordGen <= coordGen'[n[1]]
                      /\ session'[n].active <=> session'[n].coordGen = coordGen'[n[1]]
      BY DEF CoordinatorTerm
  <2>1. CASE n = m
      BY <1>2, <1>3, <1>4, <1>5, <2>1
  <2>2. CASE n # m
    <3>1. /\ session'[n].coordGen = session[n].coordGen
          /\ session'[n].active = session[n].active
          /\ session[n].role = "coordinator"
          /\ session[n].coordGen \in Nat /\ coordGen[n[1]] \in Nat
        BY <1>4, <1>10, <1>11, <2>2
    <3>2. /\ session[n].coordGen <= coordGen[n[1]]
          /\ session[n].active <=> session[n].coordGen = coordGen[n[1]]
        BY <3>1 DEF CoordinatorTerm
    <3>3. CASE coordinates /\ n[1] = m[1]
        BY <1>1, <1>5, <3>1, <3>2, <3>3 DEF OfficeVacant, ActiveCoordinator
    <3>4. CASE ~(coordinates /\ n[1] = m[1])
        BY <1>2, <1>5, <3>1, <3>2, <3>4
    <3> QED
        BY <3>3, <3>4
  <2> QED
      BY <2>1, <2>2
<1>9. SessionBound'
  <2> SUFFICES ASSUME NEW n \in Members, session'[n].active
               PROVE  /\ IsMember(n)'
                      /\ session'[n].role = membership'[n].role
                      /\ session'[n].cred = cred'[n[2]]
                      /\ session'[n].cred # NoCred
      BY DEF SessionBound
  <2>1. CASE n = m
      BY <1>1, <1>2, <1>3, <1>4, <2>1, Linking, CredsAssumption, ZenonT(40) DEF IsMember
  <2>2. CASE n # m
    <3>1. session'[n] = R[n] /\ session[n].active /\ R[n].role = session[n].role
        BY <1>4, <1>10, <2>2
    <3>4. /\ session[n].role = membership[n].role /\ IsMember(n)
          /\ session[n].cred = cred[n[2]] /\ session[n].cred # NoCred
        BY <3>1 DEF SessionBound
    <3>2. CASE n[2] = m[2]
      <4>1. cred'[n[2]] = c
          BY <1>1, <1>2, <3>2, Linking
      <4>2. session'[n].cred = c
          BY <1>10, <3>1, <3>2
      <4>3. c # NoCred
          BY CredsAssumption
      <4> QED
          BY <1>1, <3>1, <3>4, <4>1, <4>2, <4>3 DEF IsMember
    <3>3. CASE n[2] # m[2]
        BY <1>1, <1>2, <1>10, <3>1, <3>3, <3>4, Linking DEF IsMember
    <3> QED
        BY <3>2, <3>3
  <2> QED
      BY <2>1, <2>2
<1> QED
    BY <1>1, <1>2, <1>6, <1>7, <1>8, <1>9, Linking

(* Resuming a session keeps the invariant.                                  *)
LEMMA ResumeInv ==
    ASSUME SessionsInv, NEW m \in Members, NEW c \in Creds, ResumeSession(m, c)
    PROVE  SessionsInv'
<1> USE DEF SessionsInv
<1> DEFINE coordinates == session[m].role = "coordinator"
           term == coordGen[m[1]] + 1
           R == Rotated(m[2], c)
           mine == Resumed(R[m], IF coordinates THEN term ELSE session[m].coordGen)
<1>1. /\ ProvesAgent(m[2], c)
      /\ session[m].active
      /\ coordGen' = IF coordinates THEN [coordGen EXCEPT ![m[1]] = term] ELSE coordGen
      /\ session' = [R EXCEPT ![m] = mine]
      /\ cred' = [cred EXCEPT ![m[2]] = c]
      /\ membership' = membership
    BY Zenon DEF ResumeSession
<1>2. /\ \A n \in Members : n[1] \in Teams /\ n[2] \in Agents
      /\ \A t \in Teams : coordGen[t] \in Nat
      /\ term \in Nat
      /\ \A n \in Members : session[n] \in Session
    BY DEF Members, TypeOK
<1>3. /\ R \in [Members -> Session]
      /\ \A n \in Members :
           /\ R[n].active = session[n].active
           /\ R[n].role = session[n].role
           /\ R[n].coordGen = session[n].coordGen
           /\ R[n].gen >= session[n].gen
           /\ R[n] # session[n] => R[n].gen > session[n].gen
           /\ session[n].active /\ n[2] = m[2] => R[n].cred = c
           /\ n[2] # m[2] => R[n].cred = session[n].cred
    BY <1>2, Rotating
<1>4. /\ coordGen' \in [Teams -> Nat]
      /\ coordinates => coordGen'[m[1]] = term
      /\ \A t \in Teams : t # m[1] \/ ~coordinates => coordGen'[t] = coordGen[t]
    BY <1>1, <1>2 DEF TypeOK
<1> HIDE DEF R
<1>5. (IF coordinates THEN term ELSE session[m].coordGen) \in Nat
    BY <1>2 DEF Session
<1>6. /\ mine \in Session
      /\ mine.gen = R[m].gen + 1
      /\ mine.active = R[m].active
      /\ mine.role = R[m].role
      /\ mine.cred = R[m].cred
      /\ mine.coordGen = IF coordinates THEN term ELSE session[m].coordGen
    BY ZenonT(40), <1>3, <1>5, ResumedSession
<1> HIDE DEF mine
<1>7. /\ session' \in [Members -> Session]
      /\ session'[m] = mine
      /\ \A n \in Members : n # m => session'[n] = R[n]
    BY <1>1, <1>3, <1>6
<1>8. \A n \in Members :
        /\ session'[n].active = session[n].active
        /\ session'[n].role = session[n].role
        /\ session'[n].cred = R[n].cred
        /\ n # m => session'[n].coordGen = session[n].coordGen
    BY <1>3, <1>6, <1>7
<1>9. \A n \in Members :
         /\ session[n].gen \in Nat /\ R[n].gen \in Nat
         /\ session[n].coordGen \in Nat
         /\ session[n] # NoSession => session[n].gen >= 1
    BY <1>2, <1>3 DEF TypeOK, Session
<1>10. TypeOK'
  <2>1. session'[m].gen >= 1
      BY <1>6, <1>7, <1>9
  <2>2. ASSUME NEW n \in Members, n # m, session'[n] # NoSession
        PROVE  session'[n].gen >= 1
      BY <1>3, <1>7, <1>9, <2>2
  <2> QED
      BY <1>1, <1>2, <1>4, <1>7, <2>1, <2>2, Linking DEF TypeOK
<1>11. OneCoordinator'
    BY <1>8 DEF OneCoordinator, ActiveCoordinator
<1>12. CoordinatorTerm'
  <2> SUFFICES ASSUME NEW n \in Members, session'[n].role = "coordinator"
               PROVE  /\ session'[n].coordGen <= coordGen'[n[1]]
                      /\ session'[n].active <=> session'[n].coordGen = coordGen'[n[1]]
      BY DEF CoordinatorTerm
  <2>1. CASE n = m
    <3>1. coordinates /\ session'[m].coordGen = term
        BY <1>6, <1>7, <1>8, <2>1
    <3> QED
        BY <1>1, <1>2, <1>4, <1>8, <2>1, <3>1
  <2>2. CASE n # m
    <3>1. /\ session[n].role = "coordinator"
          /\ session[n].coordGen <= coordGen[n[1]]
          /\ session[n].active <=> session[n].coordGen = coordGen[n[1]]
        BY <1>8 DEF CoordinatorTerm
    <3>2. CASE coordinates /\ n[1] = m[1]
      <4>1. ~session[n].active
          BY <1>1, <2>2, <3>1, <3>2 DEF OneCoordinator, ActiveCoordinator
      <4> QED
          BY <1>2, <1>4, <1>8, <1>9, <2>2, <3>1, <3>2, <4>1
    <3>3. CASE ~(coordinates /\ n[1] = m[1])
        BY <1>2, <1>4, <1>8, <2>2, <3>1, <3>3
    <3> QED
        BY <3>2, <3>3
  <2> QED
      BY <2>1, <2>2
<1>13. SessionBound'
  <2> SUFFICES ASSUME NEW n \in Members, session'[n].active
               PROVE  /\ IsMember(n)'
                      /\ session'[n].role = membership'[n].role
                      /\ session'[n].cred = cred'[n[2]]
                      /\ session'[n].cred # NoCred
      BY DEF SessionBound
  <2>1. session[n].active /\ session'[n].role = session[n].role /\ session'[n].cred = R[n].cred
      BY <1>8
  <2>2. /\ session[n].role = membership[n].role /\ IsMember(n)
        /\ session[n].cred = cred[n[2]] /\ session[n].cred # NoCred
      BY <2>1 DEF SessionBound
  <2>3. CASE n[2] = m[2]
    <3>1. cred'[n[2]] = c
        BY <1>1, <1>2, <2>3, Linking
    <3>2. c # NoCred
        BY CredsAssumption
    <3> QED
        BY <1>1, <1>3, <2>1, <2>2, <2>3, <3>1, <3>2 DEF IsMember
  <2>4. CASE n[2] # m[2]
      BY <1>1, <1>2, <1>3, <2>1, <2>2, <2>4, Linking DEF IsMember
  <2> QED
      BY <2>3, <2>4
<1> QED
    BY <1>1, <1>2, <1>10, <1>11, <1>12, <1>13, Linking

(* Every step taken with a proof of identity keeps the invariant.           *)
LEMMA ProofStepsInv ==
    ASSUME SessionsInv, ProofSteps
    PROVE  SessionsInv'
  BY ProveAgainInv, EnterInv, ResumeInv DEF ProofSteps

-----------------------------------------------------------------------------
(* Redeeming an invitation keeps the invariant.                             *)
LEMMA InvitationInv ==
    ASSUME SessionsInv, InvitationSteps
    PROVE  SessionsInv'
<1>1. PICK m \in Members, r \in Roles, c \in Creds :
        RedeemToLink(m, r, c) \/ RedeemAsLinked(m, r, c) \/ RedeemToRebind(m, r, c)
    BY DEF InvitationSteps
<1>2. m[2] \in Agents /\ TypeOK /\ cred \in [Agents -> Creds \cup {NoCred}]
    BY DEF Members, SessionsInv, TypeOK
<1>3. ASSUME RedeemToLink(m, r, c)
      PROVE  SessionsInv'
  <2>1. /\ cred[m[2]] = NoCred /\ ~HeldByAnother(m[2], c) /\ EnsuredMembership(m, r)
        /\ cred' = [cred EXCEPT ![m[2]] = c] /\ session' = session /\ coordGen' = coordGen
      BY <1>3 DEF RedeemToLink
  <2>2. TypeOK' /\ OneCoordinator' /\ CoordinatorTerm' /\ OneAgentPerUser'
      BY <1>2, <2>1, Ensuring, Linking
         DEF SessionsInv, TypeOK, OneCoordinator, CoordinatorTerm, ActiveCoordinator
  <2>3. SessionBound'
    <3> SUFFICES ASSUME NEW n \in Members, session[n].active
                 PROVE  /\ IsMember(n)'
                        /\ session[n].role = membership'[n].role
                        /\ session[n].cred = cred'[n[2]]
                        /\ session[n].cred # NoCred
        BY <2>1 DEF SessionBound
    <3>1. /\ session[n].role = membership[n].role /\ IsMember(n)
          /\ session[n].cred = cred[n[2]] /\ session[n].cred # NoCred
          /\ n[2] \in Agents
        BY DEF SessionsInv, SessionBound, Members
    <3>2. membership'[n] = membership[n] /\ cred'[n[2]] = cred[n[2]]
        BY <1>2, <2>1, <3>1, Ensuring
    <3> QED
        BY <3>1, <3>2 DEF IsMember
  <2> QED
      BY <2>2, <2>3 DEF SessionsInv
<1>4. ASSUME RedeemAsLinked(m, r, c)
      PROVE  SessionsInv'
    BY <1>2, <1>4, RotationInv, Ensuring DEF RedeemAsLinked
<1>5. ASSUME RedeemToRebind(m, r, c)
      PROVE  SessionsInv'
  <2> DEFINE own == {n \in Members : n[2] = m[2]}
  <2>1. /\ ~HeldByAnother(m[2], c) /\ EnsuredMembership(m, r) /\ EndSessions(own)
        /\ cred' = [cred EXCEPT ![m[2]] = c]
      BY <1>5 DEF RedeemToRebind
  <2>2. TypeOK' /\ OneCoordinator' /\ CoordinatorTerm' /\ OneAgentPerUser'
    <3>1. own \in SUBSET Members
        OBVIOUS
    <3> HIDE DEF own
    <3> QED
        BY <1>2, <2>1, <3>1, Ensuring, Linking, EndingSessions DEF TypeOK
  <2>3. SessionBound'
    <3> SUFFICES ASSUME NEW n \in Members, session'[n].active
                 PROVE  /\ IsMember(n)'
                        /\ session'[n].role = membership'[n].role
                        /\ session'[n].cred = cred'[n[2]]
                        /\ session'[n].cred # NoCred
        BY DEF SessionBound
    <3>1. n \notin own /\ session'[n] = session[n]
        BY <2>1, EndingSessions
    <3>2. /\ session[n].role = membership[n].role /\ IsMember(n)
          /\ session[n].cred = cred[n[2]] /\ session[n].cred # NoCred
          /\ n[2] \in Agents /\ n[2] # m[2]
        BY <3>1 DEF SessionsInv, SessionBound, Members
    <3>3. membership'[n] = membership[n] /\ cred'[n[2]] = cred[n[2]]
        BY <1>2, <2>1, <3>2, Ensuring
    <3> QED
        BY <3>1, <3>2, <3>3 DEF IsMember
  <2> QED
      BY <2>2, <2>3 DEF SessionsInv
<1> QED
    BY <1>1, <1>3, <1>4, <1>5

(* Leaving a session keeps the invariant.                                   *)
LEMMA LeaveInv ==
    ASSUME SessionsInv, NEW m \in Members, NEW gen, LeaveSession(m, gen)
    PROVE  SessionsInv'
  BY LeavingInv DEF LeaveSession, SessionsInv, TypeOK

(* Every step of the sessions keeps the invariant. *)
LEMMA SessionsStep ==
    ASSUME SessionsInv, [SessionsNext]_sessionVars
    PROVE  SessionsInv'
<1>1. CASE SessionsNext
    BY <1>1, OperatorInv, ProofStepsInv, InvitationInv, LeaveInv DEF SessionsNext
<1>2. CASE UNCHANGED sessionVars
    BY <1>2 DEF sessionVars, SessionsInv, TypeOK, OneCoordinator, ActiveCoordinator,
                CoordinatorTerm, SessionBound, IsMember, OneAgentPerUser, HeldByAnother
<1> QED
    BY <1>1, <1>2

(* The fences and bindings of sessions hold in every reachable state.        *)
THEOREM SessionsInvariance == SessionsSpec => []SessionsInv
  BY InitInv, SessionsStep, PTL DEF SessionsSpec

(* A team never has two active coordinator sessions, and its coordinator     *)
(* generation is the one of the active one and of no other (session.go,      *)
(* startSessionTx, endSession).                                              *)
THEOREM CoordinatorFenced == SessionsSpec => [](OneCoordinator /\ CoordinatorTerm)
<1>1. SessionsInv => OneCoordinator /\ CoordinatorTerm
    BY DEF SessionsInv
<1> QED
    BY <1>1, SessionsInvariance, PTL

(* An active session's role and credential are the member's current ones     *)
(* (registry.go SetMemberRole, identity.go rotateIfNeeded).                  *)
THEOREM SessionsBound == SessionsSpec => []SessionBound
<1>1. SessionsInv => SessionBound
    BY DEF SessionsInv
<1> QED
    BY <1>1, SessionsInvariance, PTL

-----------------------------------------------------------------------------
(* How far one step moves a session. *)
MovesForward(m) ==
    session'[m] # session[m] =>
        \/ session'[m].ordinal = session[m].ordinal + 1
        \/ /\ session'[m].ordinal = session[m].ordinal
           /\ session[m].active
           /\ session'[m].gen > session[m].gen

(* Ending sessions moves no generation, ordinal or term back.               *)
LEMMA EndingMovesForward ==
    ASSUME SessionsInv, NEW ms \in SUBSET Members, EndSessions(ms), NEW m \in Members
    PROVE  MovesForward(m)
<1>1. session[m] \in Session
    BY DEF SessionsInv, TypeOK
<1>2. session'[m] = IF m \in ms /\ session[m].active THEN Ended(session[m]) ELSE session[m]
    BY DEF EndSessions
<1>3. session[m].gen \in Nat
    BY <1>1 DEF Session
<1>4. /\ Ended(session[m]).gen = session[m].gen + 1
      /\ Ended(session[m]).ordinal = session[m].ordinal
    BY <1>1, EndedSession
<1> QED
    BY <1>2, <1>3, <1>4 DEF MovesForward

(* Rotating a credential moves no generation, ordinal or term back.         *)
LEMMA RotatingMovesForward ==
    ASSUME SessionsInv, NEW a \in Agents, NEW c \in Creds, NEW m \in Members,
           session'[m] = Rotated(a, c)[m]
    PROVE  MovesForward(m)
  BY Rotating DEF MovesForward

(* Entering a session moves no generation, ordinal or term back.            *)
LEMMA EnteringMovesForward ==
    ASSUME SessionsInv, NEW n \in Members, NEW c \in Creds, EnterSession(n, c), NEW m \in Members
    PROVE  MovesForward(m)
<1>1. PICK term : session' = [Rotated(n[2], c) EXCEPT ![n] = Started(n, c, term)]
    BY Zenon DEF EnterSession
<1>2. Rotated(n[2], c) \in [Members -> Session] /\ n[2] \in Agents
    BY Rotating DEF Members
<1>3. CASE m = n
    BY <1>1, <1>2, <1>3 DEF Started, MovesForward
<1>4. CASE m # n
    BY <1>1, <1>2, <1>4, RotatingMovesForward
<1> QED
    BY <1>3, <1>4

(* Resuming a session moves no generation, ordinal or term back.            *)
LEMMA ResumingMovesForward ==
    ASSUME SessionsInv, NEW n \in Members, NEW c \in Creds, ResumeSession(n, c), NEW m \in Members
    PROVE  MovesForward(m)
<1> DEFINE R == Rotated(n[2], c)
           term == IF session[n].role = "coordinator" THEN coordGen[n[1]] + 1 ELSE session[n].coordGen
<1>1. session' = [R EXCEPT ![n] = Resumed(R[n], term)] /\ session[n].active
    BY Zenon DEF ResumeSession
<1>2. /\ R \in [Members -> Session] /\ n[2] \in Agents /\ R[n] \in Session
      /\ R[n].gen >= session[n].gen /\ R[n].ordinal = session[n].ordinal
  <2>1. n[2] \in Agents
      BY DEF Members
  <2> QED
      BY <2>1, Rotating
<1>3. term \in Nat /\ session[n].gen \in Nat /\ R[n].gen \in Nat
  <2>1. session[n] \in Session /\ coordGen[n[1]] \in Nat
      BY DEF SessionsInv, TypeOK, Members
  <2> QED
      BY <1>2, <2>1 DEF Session
<1> HIDE DEF term, R
<1>4. CASE m = n
  <2>1. session'[n] = Resumed(R[n], term)
      BY <1>1, <1>2
  <2>2. session'[n].gen = R[n].gen + 1 /\ session'[n].ordinal = R[n].ordinal
    <3>1. /\ Resumed(R[n], term).gen = R[n].gen + 1
          /\ Resumed(R[n], term).ordinal = R[n].ordinal
        BY <1>2, <1>3, ResumedSession
    <3> QED
        BY <2>1, <3>1
  <2> QED
      BY <1>1, <1>2, <1>3, <1>4, <2>2 DEF MovesForward
<1>5. CASE m # n
    BY <1>1, <1>2, <1>5, RotatingMovesForward DEF R
<1> QED
    BY <1>4, <1>5

(* How far one step moves a membership. *)
RevisionMoves(m) ==
    membership'[m] # membership[m] => membership'[m].revision > membership[m].revision

(* A membership that changes has a higher revision.                         *)
LEMMA JoiningMovesRevision ==
    ASSUME SessionsInv, NEW n \in Members, NEW role \in Roles, NEW m \in Members,
           membership' = membership \/ membership' = Joined(n, role)
    PROVE  RevisionMoves(m)
<1>1. membership \in [Members -> Membership] /\ membership[n].revision \in Nat
    BY DEF SessionsInv, TypeOK, Membership
<1>2. CASE membership' = membership
    BY <1>2 DEF RevisionMoves
<1>3. CASE membership' = Joined(n, role)
  <2>1. m # n => membership'[m] = membership[m]
      BY <1>1, <1>3 DEF Joined
  <2>2. membership'[n].revision = membership[n].revision + 1
      BY <1>1, <1>3 DEF Joined
  <2> QED
      BY <1>1, <2>1, <2>2 DEF RevisionMoves
<1> QED
    BY <1>2, <1>3

(* No step changes a membership without moving its revision on.             *)
LEMMA StepMovesRevision ==
    ASSUME SessionsInv, SessionsNext, NEW m \in Members
    PROVE  RevisionMoves(m)
<1>1. membership \in [Members -> Membership]
      /\ \A n \in Members : membership[n].revision \in Nat
    BY DEF SessionsInv, TypeOK, Membership
<1>2. membership' = membership => RevisionMoves(m)
    BY DEF RevisionMoves
<1>3. ASSUME NEW n \in Members, NEW role \in Roles, AddMember(n, role)
      PROVE  RevisionMoves(m)
    BY <1>3, JoiningMovesRevision DEF AddMember
<1>4. ASSUME NEW n \in Members, NEW e \in 1..MaxRevision, NEW role \in Roles, SetMemberRole(n, e, role)
      PROVE  RevisionMoves(m)
  <2>1. membership' = [membership EXCEPT ![n] = [role |-> role, revision |-> @.revision + 1]]
      BY <1>4 DEF SetMemberRole
  <2> QED
      BY <1>1, <2>1 DEF RevisionMoves
<1>5. ASSUME NEW n \in Members, NEW e \in 1..MaxRevision, RemoveMember(n, e)
      PROVE  RevisionMoves(m)
  <2>1. membership' = [membership EXCEPT ![n].role = "none", ![n].revision = @ + 1]
      BY <1>5 DEF RemoveMember
  <2>2. membership[n] \in [role : Roles \cup {"none"}, revision : Nat]
      BY <1>1 DEF Membership
  <2> QED
      BY <1>1, <2>1, <2>2 DEF RevisionMoves
<1>6. ASSUME NEW n \in Members, StopSession(n)
      PROVE  RevisionMoves(m)
    BY <1>2, <1>6 DEF StopSession
<1>7. OperatorSteps => RevisionMoves(m)
    BY <1>3, <1>4, <1>5, <1>6 DEF OperatorSteps
<1>8. ProofSteps => RevisionMoves(m)
    BY <1>2 DEF ProofSteps, ProveAgain, EnterSession, ResumeSession
<1>9. ASSUME NEW n \in Members, NEW role \in Roles, EnsuredMembership(n, role)
      PROVE  RevisionMoves(m)
    BY <1>9, JoiningMovesRevision DEF EnsuredMembership
<1>10. InvitationSteps => RevisionMoves(m)
    BY <1>9 DEF InvitationSteps, RedeemToLink, RedeemAsLinked, RedeemToRebind
<1>11. (\E n \in Members, gen \in 1..MaxGen : LeaveSession(n, gen)) => RevisionMoves(m)
    BY <1>2 DEF LeaveSession
<1> QED
    BY <1>7, <1>8, <1>10, <1>11 DEF SessionsNext

(* Whatever an operation does to a session or a membership, it moves its     *)
(* fence forward: a command that names an older ordinal, generation or       *)
(* revision stays refused (session.go, currentSession; registry.go).         *)
THEOREM FencesMoveForward == SessionsSpec => Fenced
<1>1. ASSUME SessionsInv, SessionsNext, NEW m \in Members
      PROVE  MovesForward(m)
  <2>1. \A n \in Members : {n} \in SUBSET Members
                          /\ {o \in Members : o[2] = n[2]} \in SUBSET Members
                          /\ n[2] \in Agents
      BY DEF Members
  <2>2. session' = session => MovesForward(m)
      BY DEF MovesForward
  <2>3. OperatorSteps => MovesForward(m)
      BY <1>1, <2>1, <2>2, EndingMovesForward
         DEF OperatorSteps, AddMember, SetMemberRole, RemoveMember, StopSession
  <2>4. ProofSteps => MovesForward(m)
      BY <1>1, RotatingMovesForward, EnteringMovesForward, ResumingMovesForward
         DEF ProofSteps, ProveAgain
  <2>5. InvitationSteps => MovesForward(m)
      BY <1>1, <2>1, <2>2, EndingMovesForward, RotatingMovesForward
         DEF InvitationSteps, RedeemToLink, RedeemAsLinked, RedeemToRebind
  <2>6. (\E n \in Members, gen \in 1..MaxGen : LeaveSession(n, gen)) => MovesForward(m)
      BY <1>1, <2>1, EndingMovesForward DEF LeaveSession
  <2> QED
      BY <1>1, <2>3, <2>4, <2>5, <2>6 DEF SessionsNext
<1>2. SessionsInv /\ [SessionsNext]_sessionVars =>
        [\A m \in Members : MovesForward(m) /\ RevisionMoves(m)]_sessionVars
    BY <1>1, StepMovesRevision
<1>3. [\A m \in Members : MovesForward(m) /\ RevisionMoves(m)]_sessionVars =>
        [\A m \in Members :
          /\ session'[m] # session[m] =>
                \/ session'[m].ordinal = session[m].ordinal + 1
                \/ /\ session'[m].ordinal = session[m].ordinal
                   /\ session[m].active
                   /\ session'[m].gen > session[m].gen
          /\ membership'[m] # membership[m] =>
                membership'[m].revision > membership[m].revision]_sessionVars
    BY DEF MovesForward, RevisionMoves
<1> QED
    BY <1>2, <1>3, SessionsInvariance, PTL DEF SessionsSpec, Fenced

-----------------------------------------------------------------------------
(* The office: the holder of a team is its active coordinator session.       *)

(* With one coordinator per team, the member who coordinates is the holder  *)
(* of the office.                                                           *)
LEMMA HolderIs ==
    ASSUME NEW t \in Teams, OneCoordinator,
           NEW m \in Members, m[1] = t, ActiveCoordinator(m)
    PROVE  HolderOf(t) = <<m[2], session[m].ordinal>>
<1> DEFINE holders == {n \in Members : n[1] = t /\ ActiveCoordinator(n)}
<1>1. holders = {m}
    BY DEF OneCoordinator
<1>2. (CHOOSE n \in holders : TRUE) = m
    BY <1>1
<1> QED
    BY <1>1, <1>2 DEF HolderOf

(* A team nobody coordinates has an empty office.                           *)
LEMMA NoHolderIs ==
    ASSUME NEW t \in Teams, \A m \in Members : m[1] = t => ~ActiveCoordinator(m)
    PROVE  HolderOf(t) = <<>>
  BY DEF HolderOf

(* The holder of the office after the step is the member who coordinates    *)
(* then.                                                                    *)
LEMMA HolderIsAfter ==
    ASSUME NEW t \in Teams, OneCoordinator',
           NEW m \in Members, m[1] = t, ActiveCoordinator(m)'
    PROVE  HolderOf(t)' = <<m[2], session'[m].ordinal>>
<1> DEFINE holders == {n \in Members : n[1] = t /\ ActiveCoordinator(n)'}
<1>1. holders = {m}
    BY DEF OneCoordinator, ActiveCoordinator
<1>2. (CHOOSE n \in holders : TRUE) = m
    BY <1>1
<1> QED
    BY <1>1, <1>2 DEF HolderOf, ActiveCoordinator

(* The office is empty after the step when nobody coordinates then.         *)
LEMMA NoHolderIsAfter ==
    ASSUME NEW t \in Teams, \A m \in Members : m[1] = t => ~ActiveCoordinator(m)'
    PROVE  HolderOf(t)' = <<>>
  BY DEF HolderOf, ActiveCoordinator

(* Steps that move no coordinator and no term leave every office alone.      *)
LEMMA OfficeUntouched ==
    ASSUME SessionsInv, SessionsInv', NEW t \in Teams, coordGen'[t] = coordGen[t],
           \A m \in Members : m[1] = t =>
               /\ ActiveCoordinator(m)' <=> ActiveCoordinator(m)
               /\ ActiveCoordinator(m) => session'[m].ordinal = session[m].ordinal
    PROVE  UNCHANGED <<coordGen[t], HolderOf(t)>>
<1>1. CASE \E m \in Members : m[1] = t /\ ActiveCoordinator(m)
  <2>1. PICK m \in Members : m[1] = t /\ ActiveCoordinator(m)
      BY <1>1
  <2>2. HolderOf(t) = <<m[2], session[m].ordinal>>
      BY <2>1, HolderIs DEF SessionsInv
  <2>3. HolderOf(t)' = <<m[2], session'[m].ordinal>>
      BY <2>1, HolderIsAfter DEF SessionsInv
  <2> QED
      BY <2>1, <2>2, <2>3
<1>2. CASE \A m \in Members : m[1] = t => ~ActiveCoordinator(m)
    BY <1>2, NoHolderIs, NoHolderIsAfter
<1> QED
    BY <1>1, <1>2

(* Ending sessions is a resignation of the offices their holders had, and   *)
(* no step of any other.                                                    *)
LEMMA EndingResigns ==
    ASSUME SessionsInv, SessionsInv', NEW ms \in SUBSET Members, EndSessions(ms), NEW t \in Teams
    PROVE  Office(t)!Next \/ UNCHANGED <<coordGen[t], HolderOf(t)>>
<1>1. \A m \in Members : session[m] \in Session /\ session'[m] \in Session
    BY DEF SessionsInv, TypeOK
<1>2. \A m \in Members :
        session'[m] = IF m \in ms /\ session[m].active THEN Ended(session[m]) ELSE session[m]
    BY DEF EndSessions
<1>3. \A m \in Members :
        /\ session'[m].role = session[m].role
        /\ session'[m].ordinal = session[m].ordinal
        /\ session'[m].active <=> session[m].active /\ m \notin ms
  <2> SUFFICES ASSUME NEW m \in Members
               PROVE  /\ session'[m].role = session[m].role
                      /\ session'[m].ordinal = session[m].ordinal
                      /\ session'[m].active <=> session[m].active /\ m \notin ms
      OBVIOUS
  <2>1. CASE m \in ms /\ session[m].active
    <3>1. session'[m] = Ended(session[m])
        BY <1>2, <2>1
    <3> QED
        BY <1>1, <2>1, <3>1, EndedSession
  <2>2. CASE ~(m \in ms /\ session[m].active)
      BY <1>2, <2>2
  <2> QED
      BY <2>1, <2>2
<1>4. coordGen'[t] = IF \E m \in ms : m[1] = t /\ ActiveCoordinator(m)
                     THEN coordGen[t] + 1 ELSE coordGen[t]
    BY DEF EndSessions
<1>5. CASE \E m \in ms : m[1] = t /\ ActiveCoordinator(m)
  <2>1. PICK m \in ms : m[1] = t /\ ActiveCoordinator(m)
      BY <1>5
  <2>2. HolderOf(t) = <<m[2], session[m].ordinal>>
      BY <2>1, HolderIs DEF SessionsInv
  <2>3. \A n \in Members : n[1] = t => ~ActiveCoordinator(n)'
      BY <1>3, <2>1 DEF SessionsInv, OneCoordinator, ActiveCoordinator
  <2>4. HolderOf(t)' = <<>>
      BY <2>3, NoHolderIsAfter
  <2>5. coordGen'[t] = coordGen[t] + 1
      BY <1>4, <1>5
  <2> QED
      BY <2>2, <2>4, <2>5 DEF Office!Next, Office!Resign, Office!NewTerm
<1>6. CASE ~\E m \in ms : m[1] = t /\ ActiveCoordinator(m)
  <2>1. coordGen'[t] = coordGen[t]
      BY <1>4, <1>6
  <2>2. \A m \in Members : m[1] = t =>
               /\ ActiveCoordinator(m)' <=> ActiveCoordinator(m)
               /\ ActiveCoordinator(m) => session'[m].ordinal = session[m].ordinal
      BY <1>3, <1>6 DEF ActiveCoordinator
  <2> QED
      BY <2>1, <2>2, OfficeUntouched
<1> QED
    BY <1>5, <1>6

(* Rotating a credential changes no office.                                 *)
LEMMA RotatingKeepsOffices ==
    ASSUME SessionsInv, SessionsInv', NEW a \in Agents, NEW c \in Creds, NEW t \in Teams,
           session' = Rotated(a, c), UNCHANGED coordGen
    PROVE  UNCHANGED <<coordGen[t], HolderOf(t)>>
<1>1. \A m \in Members :
        /\ session'[m].active = session[m].active
        /\ session'[m].role = session[m].role
        /\ session'[m].ordinal = session[m].ordinal
    BY Rotating
<1> QED
    BY <1>1, OfficeUntouched DEF ActiveCoordinator

(* Entering a session is an appointment to the office, or leaves it alone.  *)
LEMMA EnteringAppoints ==
    ASSUME SessionsInv, SessionsInv', WithinBounds', NEW m \in Members, NEW c \in Creds,
           EnterSession(m, c), NEW t \in Teams
    PROVE  Office(t)!Next \/ UNCHANGED <<coordGen[t], HolderOf(t)>>
<1> DEFINE coordinates == membership[m].role = "coordinator"
           term == coordGen[m[1]] + 1
           R == Rotated(m[2], c)
           mine == Started(m, c, IF coordinates THEN term ELSE 0)
<1>1. /\ ~session[m].active
      /\ coordinates => OfficeVacant(m[1])
      /\ coordGen' = IF coordinates THEN [coordGen EXCEPT ![m[1]] = term] ELSE coordGen
      /\ session' = [R EXCEPT ![m] = mine]
    BY Zenon DEF EnterSession
<1>2. m[1] \in Teams /\ m[2] \in Agents /\ coordGen \in [Teams -> Nat]
    BY DEF Members, SessionsInv, TypeOK
<1>3. /\ R \in [Members -> Session]
      /\ \A n \in Members :
           /\ R[n].active = session[n].active
           /\ R[n].role = session[n].role
           /\ R[n].ordinal = session[n].ordinal
    BY <1>2, Rotating
<1>4. mine.active /\ mine.role = membership[m].role /\ mine.ordinal = session[m].ordinal + 1
    BY DEF Started
<1> HIDE DEF R, mine
<1>5. session'[m] = mine /\ \A n \in Members : n # m => session'[n] = R[n]
    BY <1>1, <1>3
<1>6. CASE coordinates /\ t = m[1]
  <2>1. HolderOf(t) = <<>>
      BY <1>1, <1>6, NoHolderIs DEF OfficeVacant
  <2>2. HolderOf(t)' = <<m[2], session'[m].ordinal>>
      BY <1>4, <1>5, <1>6, HolderIsAfter DEF SessionsInv, ActiveCoordinator
  <2>3. session'[m].ordinal \in 1..MaxOrdinal
    <3>1. session'[m].ordinal <= MaxOrdinal
        BY DEF WithinBounds
    <3>2. session[m].ordinal \in Nat /\ session'[m].ordinal \in Int
        BY <1>4, <1>5 DEF SessionsInv, TypeOK, Session
    <3>3. session'[m].ordinal = session[m].ordinal + 1
        BY <1>4, <1>5
    <3> QED
        BY <3>1, <3>2, <3>3
  <2>4. coordGen'[t] = coordGen[t] + 1
      BY <1>1, <1>2, <1>6
  <2> QED
      BY <1>2, <2>1, <2>2, <2>3, <2>4 DEF Office!Next, Office!Appoint, Office!NewTerm
<1>7. CASE ~(coordinates /\ t = m[1])
  <2>1. coordGen'[t] = coordGen[t]
      BY <1>1, <1>2, <1>7
  <2>2. \A n \in Members : n[1] = t =>
               /\ ActiveCoordinator(n)' <=> ActiveCoordinator(n)
               /\ ActiveCoordinator(n) => session'[n].ordinal = session[n].ordinal
      BY <1>1, <1>3, <1>4, <1>5, <1>7 DEF ActiveCoordinator
  <2> QED
      BY <2>1, <2>2, OfficeUntouched
<1> QED
    BY <1>6, <1>7

(* Resuming a session renews the office of its holder, or leaves it alone.  *)
LEMMA ResumingRenews ==
    ASSUME SessionsInv, SessionsInv', NEW m \in Members, NEW c \in Creds,
           ResumeSession(m, c), NEW t \in Teams
    PROVE  Office(t)!Next \/ UNCHANGED <<coordGen[t], HolderOf(t)>>
<1> DEFINE coordinates == session[m].role = "coordinator"
           term == IF coordinates THEN coordGen[m[1]] + 1 ELSE session[m].coordGen
           R == Rotated(m[2], c)
           mine == Resumed(R[m], term)
<1>1. /\ session[m].active
      /\ coordGen' = IF coordinates THEN [coordGen EXCEPT ![m[1]] = @ + 1] ELSE coordGen
      /\ session' = [R EXCEPT ![m] = mine]
    BY Zenon DEF ResumeSession
<1>2. /\ m[1] \in Teams /\ m[2] \in Agents /\ coordGen \in [Teams -> Nat]
      /\ session[m] \in Session
    BY DEF Members, SessionsInv, TypeOK
<1>3. /\ R \in [Members -> Session]
      /\ \A n \in Members :
           /\ R[n].active = session[n].active
           /\ R[n].role = session[n].role
           /\ R[n].ordinal = session[n].ordinal
    BY <1>2, Rotating
<1>4. term \in Nat
    BY <1>2 DEF Session
<1> HIDE DEF R, term
<1>5. /\ mine.active = R[m].active
      /\ mine.role = R[m].role
      /\ mine.ordinal = R[m].ordinal
    BY <1>3, <1>4, ResumedSession
<1> HIDE DEF mine
<1>6. \A n \in Members :
        /\ session'[n].active = session[n].active
        /\ session'[n].role = session[n].role
        /\ session'[n].ordinal = session[n].ordinal
  <2>1. session'[m] = mine /\ \A n \in Members : n # m => session'[n] = R[n]
      BY <1>1, <1>3
  <2> QED
      BY <1>3, <1>5, <2>1
<1>7. CASE coordinates /\ t = m[1]
  <2>1. HolderOf(t) = <<m[2], session[m].ordinal>>
      BY <1>1, <1>7, HolderIs DEF SessionsInv, ActiveCoordinator
  <2>2. HolderOf(t)' = <<m[2], session'[m].ordinal>>
      BY <1>1, <1>6, <1>7, HolderIsAfter DEF SessionsInv, ActiveCoordinator
  <2>3. HolderOf(t)' = HolderOf(t)
      BY <1>6, <2>1, <2>2
  <2>4. HolderOf(t) # <<>>
      BY <2>1
  <2>5. coordGen'[t] = coordGen[t] + 1
      BY <1>1, <1>2, <1>7
  <2> QED
      BY <2>3, <2>4, <2>5 DEF Office!Next, Office!Renew, Office!NewTerm
<1>8. CASE ~(coordinates /\ t = m[1])
  <2>1. coordGen'[t] = coordGen[t]
      BY <1>1, <1>2, <1>8
  <2> QED
      BY <1>6, <2>1, OfficeUntouched DEF ActiveCoordinator
<1> QED
    BY <1>7, <1>8

(* A team's coordinator is an office: one holder at a time, a new term with  *)
(* every start, resume and end, and no change of holder without one          *)
(* (docs/CREW-CONTRACT.md, Roles; session.go, bumpCoordinatorGeneration).    *)
THEOREM OfficeRefinement == SessionsSpec => ImplementsOffice
<1>1. SessionsInit => \A t \in Teams : Office(t)!Init
  <2> SUFFICES ASSUME SessionsInit, NEW t \in Teams
               PROVE  Office(t)!Init
      OBVIOUS
  <2>1. \A m \in Members : ~ActiveCoordinator(m)
      BY DEF SessionsInit, NoSession, ActiveCoordinator
  <2>2. HolderOf(t) = <<>>
      BY <2>1, NoHolderIs
  <2> QED
      BY <2>2 DEF SessionsInit, Office!Init
<1>2. ASSUME SessionsInv, SessionsInv', SessionsNext, NEW t \in Teams
      PROVE  Office(t)!Next \/ UNCHANGED <<coordGen[t], HolderOf(t)>>
  <2> DEFINE Kept == Office(t)!Next \/ UNCHANGED <<coordGen[t], HolderOf(t)>>
  <2>1. \A n \in Members : {n} \in SUBSET Members
                          /\ {o \in Members : o[2] = n[2]} \in SUBSET Members
                          /\ n[2] \in Agents
      BY DEF Members
  <2>2. ASSUME session' = session, coordGen' = coordGen
        PROVE  Kept
      BY <1>2, <2>2, OfficeUntouched DEF ActiveCoordinator
  <2>3. \A ms \in SUBSET Members : EndSessions(ms) => Kept
      BY <1>2, EndingResigns
  <2>4. \A a \in Agents, c \in Creds :
          session' = Rotated(a, c) /\ coordGen' = coordGen => Kept
      BY <1>2, RotatingKeepsOffices
  <2>5. \A m \in Members, c \in Creds : EnterSession(m, c) \/ ResumeSession(m, c) => Kept
      BY <1>2, EnteringAppoints, ResumingRenews DEF SessionsNext
  <2> HIDE DEF Kept
  <2>6. OperatorSteps => Kept
      BY <2>1, <2>2, <2>3
         DEF OperatorSteps, AddMember, SetMemberRole, RemoveMember, StopSession
  <2>7. ProofSteps => Kept
      BY <2>4, <2>5 DEF ProofSteps, ProveAgain
  <2>8. InvitationSteps => Kept
      BY <2>1, <2>2, <2>3, <2>4 DEF InvitationSteps, RedeemToLink, RedeemAsLinked, RedeemToRebind
  <2>9. (\E n \in Members, gen \in 1..MaxGen : LeaveSession(n, gen)) => Kept
      BY <2>1, <2>3 DEF LeaveSession
  <2> QED
      BY <1>2, <2>6, <2>7, <2>8, <2>9 DEF SessionsNext, Kept
<1>3. SessionsInv /\ SessionsInv' /\ [SessionsNext]_sessionVars =>
        [\A t \in Teams : Office(t)!Next
                         \/ UNCHANGED <<coordGen[t], HolderOf(t)>>]_sessionVars
    BY <1>2
<1> QED
    BY <1>1, <1>3, SessionsInvariance, PTL DEF SessionsSpec, ImplementsOffice

-----------------------------------------------------------------------------
(* Attempts *)

Inv == SessionsInv /\ WorkInv

(* What a change of attempt i to y must be: no attempt is opened again, and *)
(* one is closed only when aimem holds nothing for it.                      *)
Moves(i, y) ==
    /\ Change(i, y)
    /\ y \in Attempt
    /\ y.worker = attempts[i].worker
    /\ Open(i)
    /\ y.state = "closed" => ~Held(i)
    /\ AttemptInv(y, reservation[i])

-----------------------------------------------------------------------------
(* Values *)

(* A member's present session is one an attempt can name.                   *)
LEMMA NowIsSessionAt ==
    ASSUME TypeOK, NEW m \in Members
    PROVE  Now(m) \in SessionAt /\ Now(m).member = m
  BY DEF TypeOK, Session, Now, SessionAt

(* The placeholders for nobody and for no step have the shape of the real   *)
(* ones.                                                                    *)
LEMMA PlaceholdersAt ==
    /\ Nobody \in SessionAt
    /\ NoStep \in Step
    /\ NoStep.op = "none" /\ NoStep.from = "closed" /\ ~NoStep.committed
  BY DEF Nobody, SessionAt, NoStep, Step, WorkPhases, States

(* The placeholder member is none of the members.                           *)
LEMMA NoMemberIsNone == \A m \in Members : m # NoMember
  BY AttemptsAssumption DEF Members

(* What the invariant says of one attempt and its reservation.              *)
LEMMA AttemptAt ==
    ASSUME WorkInv, NEW i \in Ids
    PROVE  attempts[i] \in Attempt /\ reservation[i] \in Reservations
           /\ AttemptInv(attempts[i], reservation[i])
  BY DEF WorkInv, WorkTypeOK, Ids

(* y is x but for its state and its step. *)
SameWork(x, y) ==
    /\ y.worker = x.worker /\ y.origin = x.origin /\ y.phase = x.phase /\ y.stop = x.stop
    /\ y.results = x.results /\ y.accepted = x.accepted /\ y.reviewer = x.reviewer
    /\ y.delivered = x.delivered /\ y.reason = x.reason

(* Beginning a step keeps the attempt's work and records the step with the  *)
(* state it began in.                                                       *)
LEMMA Beginning ==
    ASSUME NEW x \in Attempt, NEW op \in Operations, NEW to \in WorkPhases,
           NEW state \in States, NEW actor \in SessionAt,
           NEW y, y = Begin(x, op, to, state, actor)
    PROVE  /\ y \in Attempt
           /\ SameWork(x, y)
           /\ y.state = state
           /\ y.step.op = op /\ y.step.to = to /\ y.step.from = x.state
           /\ ~y.step.committed
  BY DEF Begin, Attempt, Step, SameWork

(* Clearing or voiding an acceptance keeps everything the attempt had       *)
(* besides it.                                                              *)
LEMMA Clearing ==
    ASSUME NEW x \in Attempt
    PROVE  LET y == AcceptanceCleared(x)
               z == AcceptanceVoided(x)
           IN  /\ y \in Attempt /\ z \in Attempt
               /\ y.accepted = 0 /\ z.accepted = 0 /\ y.delivered = 0 /\ z.delivered = 0
               /\ z.phase = IF x.phase = "accepted" THEN "submitted" ELSE x.phase
               /\ y.phase = x.phase
               /\ y.worker = x.worker /\ y.origin = x.origin /\ y.state = x.state
               /\ y.stop = x.stop /\ y.results = x.results /\ y.step = x.step
               /\ y.reason = x.reason
               /\ z.worker = x.worker /\ z.origin = x.origin /\ z.state = x.state
               /\ z.stop = x.stop /\ z.results = x.results /\ z.step = x.step
               /\ z.reason = x.reason
  BY PlaceholdersAt DEF AcceptanceCleared, AcceptanceVoided, Attempt, WorkPhases

-----------------------------------------------------------------------------
(* Steps begun *)

(* Beginning a step is a legal move of the attempt.                         *)
LEMMA BeginMoves ==
    ASSUME Inv, NEW i \in Ids, NEW x, x = attempts[i],
           NEW op \in Operations, NEW to \in WorkPhases, NEW state \in States,
           NEW actor \in SessionAt,
           NEW y, y = Begin(x, op, to, state, actor), Change(i, y),
           x.step.op = "none", op # "claim",
           op = "transfer" => state = "accepting" /\ x.state = "offered",
           op = "release" => /\ state = "releasing"
                             /\ x.state \in {"offered", "running"},
           op \in {"update", "finalize"} => state = "running" /\ x.state = "running"
                                           /\ x.stop = "none",
           op = "update" => /\ to \in {"working", "blocked", "submitted"}
                            /\ x.phase \in {"working", "blocked", "rework"},
           op = "finalize" => x.phase = "accepted" /\ x.delivered = x.accepted
    PROVE  Moves(i, y)
<1>1. x \in Attempt /\ AttemptInv(x, reservation[i])
    BY AttemptAt DEF Inv
<1>2. /\ y \in Attempt /\ SameWork(x, y)
      /\ y.state = state
      /\ y.step.op = op /\ y.step.to = to /\ y.step.from = x.state
      /\ ~y.step.committed
    BY <1>1, Beginning
<1>3. x.state # "closed" /\ y.state # "closed"
    BY <1>2 DEF Operations
<1>4. Agrees(y, reservation[i]) /\ StateInv(y)
    BY <1>1, <1>2, <1>3 DEF SameWork, AttemptInv, Agrees, StateInv, Operations
<1>5. PendingInv(y, reservation[i])
    BY <1>1, <1>2, <1>3 DEF AttemptInv, Agrees, PendingInv, Operations
<1>6. ReviewInv(y)
    BY <1>1, <1>2, <1>3 DEF SameWork, AttemptInv, ReviewInv
<1>7. StopInv(y)
    BY <1>1, <1>2, <1>3
       DEF SameWork, AttemptInv, StopInv, StateInv, NothingAccepted, Operations
<1> QED
    BY <1>1, <1>2, <1>3, <1>4, <1>5, <1>6, <1>7 DEF Moves, Open, SameWork, AttemptInv

(* The worker of an attempt is a member of its team.                        *)
LEMMA WorkerIsMember ==
    ASSUME Inv, NEW i \in Ids
    PROVE  attempts[i].worker \in Members /\ Now(attempts[i].worker) \in SessionAt
  BY AttemptAt, NowIsSessionAt DEF Inv, SessionsInv, Attempt

(* An attempt that is on offer has no step under way.                       *)
LEMMA IdleInState ==
    ASSUME Inv, NEW i \in Ids, attempts[i].state \in {"offered"}
    PROVE  attempts[i].step.op = "none"
  BY AttemptAt DEF Inv, AttemptInv, StateInv, Attempt, Step, Operations

(* Every request that begins a step is a legal move.                        *)
LEMMA BeginningSteps ==
    ASSUME Inv, NEW i \in Ids,
           \/ AcceptOffer(i) \/ ReleaseStopped(i)
           \/ \E to \in WorkPhases : UpdateWork(i, to)
           \/ \E m \in Members : ReleaseOffer(m, i) \/ FinalizeWork(m, i)
    PROVE  \E y : Moves(i, y)
<1> DEFINE x == attempts[i]
<1>1. CASE AcceptOffer(i)
  <2>1. PICK y : y = Begin(x, "transfer", "working", "accepting", Now(x.worker))
      OBVIOUS
  <2>2. x.state = "offered" /\ Change(i, y)
      BY <1>1, <2>1 DEF AcceptOffer, Acceptable
  <2>3. "transfer" \in Operations /\ "working" \in WorkPhases /\ "accepting" \in States
      BY DEF Operations, WorkPhases, States
  <2> QED
      BY <2>1, <2>2, <2>3, BeginMoves, WorkerIsMember, IdleInState
<1>2. CASE ReleaseStopped(i)
  <2>1. PICK y : y = Begin(x, "release", "none", "releasing", Now(x.worker))
      OBVIOUS
  <2>2. x.state = "running" /\ x.step.op = "none" /\ Change(i, y)
      BY <1>2, <2>1 DEF ReleaseStopped, IdleRunning
  <2>3. "release" \in Operations /\ "none" \in WorkPhases /\ "releasing" \in States
      BY DEF Operations, WorkPhases, States
  <2> QED
      BY <2>1, <2>2, <2>3, BeginMoves, WorkerIsMember
<1>3. ASSUME NEW to \in WorkPhases, UpdateWork(i, to)
      PROVE  \E y : Moves(i, y)
  <2>1. PICK y : y = Begin(x, "update", to, "running", Nobody)
      OBVIOUS
  <2>2. x.state = "running" /\ x.step.op = "none" /\ x.stop = "none" /\ Change(i, y)
      BY <1>3, <2>1 DEF UpdateWork, Workable, IdleRunning
  <2>3. to \in {"working", "blocked", "submitted"} /\ x.phase \in {"working", "blocked", "rework"}
      BY <1>3 DEF UpdateWork, WorkIntents
  <2>4. "update" \in Operations /\ "running" \in States
      BY DEF Operations, States
  <2> QED
      BY <2>1, <2>2, <2>3, <2>4, BeginMoves, PlaceholdersAt
<1>4. ASSUME NEW m \in Members, ReleaseOffer(m, i)
      PROVE  \E y : Moves(i, y)
  <2>1. PICK y : y = Begin(x, "release", "none", "releasing", Now(m))
      OBVIOUS
  <2>2. x.state = "offered" /\ Change(i, y)
      BY <1>4, <2>1 DEF ReleaseOffer
  <2>3. "release" \in Operations /\ "none" \in WorkPhases /\ "releasing" \in States
      BY DEF Operations, WorkPhases, States
  <2>4. Now(m) \in SessionAt
      BY NowIsSessionAt DEF Inv, SessionsInv
  <2> QED
      BY <2>1, <2>2, <2>3, <2>4, BeginMoves, IdleInState
<1>5. ASSUME NEW m \in Members, FinalizeWork(m, i)
      PROVE  \E y : Moves(i, y)
  <2>1. PICK y : y = Begin(x, "finalize", "finalized", "running", Now(m))
      OBVIOUS
  <2>2. /\ x.state = "running" /\ x.step.op = "none" /\ x.stop = "none" /\ Change(i, y)
        /\ x.phase = "accepted" /\ x.delivered = x.accepted
      BY <1>5, <2>1 DEF FinalizeWork, Workable, IdleRunning
  <2>3. "finalize" \in Operations /\ "finalized" \in WorkPhases /\ "running" \in States
      BY DEF Operations, WorkPhases, States
  <2>4. Now(m) \in SessionAt
      BY NowIsSessionAt DEF Inv, SessionsInv
  <2> QED
      BY <2>1, <2>2, <2>3, <2>4, BeginMoves
<1> QED
    BY <1>1, <1>2, <1>3, <1>4, <1>5

-----------------------------------------------------------------------------
(* Local changes *)

(* Declining an offer is a legal move.                                      *)
LEMMA DeclineOfferMoves ==
    ASSUME Inv, NEW i \in Ids, DeclineOffer(i)
    PROVE  \E y : Moves(i, y)
<1>1. PICK x : x = attempts[i]
    OBVIOUS
<1>2. PICK y : y = [x EXCEPT !.declined = TRUE]
    OBVIOUS
<1>3. x.state = "offered" /\ Change(i, y)
    BY <1>1, <1>2 DEF DeclineOffer
<1>4. x \in Attempt /\ AttemptInv(x, reservation[i])
    BY <1>1, AttemptAt DEF Inv
<1>5. y \in Attempt /\ SameWork(x, y) /\ y.state = x.state /\ y.step = x.step
    BY <1>2, <1>4 DEF Attempt, SameWork
<1>6. AttemptInv(y, reservation[i])
    BY <1>4, <1>5 DEF SameWork, AttemptInv, Agrees, StateInv, PendingInv, ReviewInv, StopInv,
                      NothingAccepted, Reviewed
<1> QED
    BY <1>1, <1>3, <1>4, <1>5, <1>6 DEF Moves, Open, SameWork

(* Accepting a result, returning it and confirming its delivery are legal   *)
(* moves.                                                                   *)
LEMMA ReviewMoves ==
    ASSUME Inv, NEW i \in Ids, NEW m \in Members,
           AcceptResult(m, i) \/ ReturnForRework(m, i) \/ ConfirmDelivery(m, i)
    PROVE  \E y : Moves(i, y)
<1>1. PICK x : x = attempts[i]
    OBVIOUS
<1>2. x \in Attempt /\ AttemptInv(x, reservation[i])
    BY <1>1, AttemptAt DEF Inv
<1>3. /\ x.state = "running" /\ x.step.op = "none" /\ x.stop = "none"
      /\ m # x.worker /\ m # NoMember
      /\ x.phase \in {"submitted", "accepted"}
    BY <1>1, NoMemberIsNone
       DEF AcceptResult, ReturnForRework, ConfirmDelivery, MayReview, Workable, IdleRunning
<1>4. PICK s \in SessionAt : s = Now(m) /\ s.member = m
    BY NowIsSessionAt DEF Inv, SessionsInv
<1>5. CASE AcceptResult(m, i)
  <2>1. PICK y : y = [x EXCEPT !.phase = "accepted", !.accepted = x.results, !.reviewer = s]
      OBVIOUS
  <2>2. Change(i, y)
      BY <1>1, <1>4, <1>5, <2>1 DEF AcceptResult
  <2>3. /\ y \in Attempt
        /\ y.phase = "accepted" /\ y.accepted = x.results /\ y.reviewer = s
        /\ y.worker = x.worker /\ y.origin = x.origin /\ y.stop = x.stop
        /\ y.results = x.results /\ y.reason = x.reason
        /\ y.state = x.state /\ y.step = x.step
      BY <1>2, <2>1 DEF Attempt, WorkPhases
  <2>4. AttemptInv(y, reservation[i])
      BY <1>2, <1>3, <1>4, <2>3
         DEF AttemptInv, Agrees, StateInv, PendingInv, ReviewInv, StopInv
  <2> QED
      BY <1>1, <1>3, <2>2, <2>3, <2>4 DEF Moves, Open
<1>6. CASE ReturnForRework(m, i)
  <2>1. PICK z : z = AcceptanceCleared(x)
      OBVIOUS
  <2>2. PICK y : y = [z EXCEPT !.phase = "rework"]
      OBVIOUS
  <2>3. Change(i, y)
      BY <1>1, <1>6, <2>1, <2>2 DEF ReturnForRework
  <2>4. /\ z \in Attempt /\ z.accepted = 0 /\ z.delivered = 0
        /\ z.worker = x.worker /\ z.origin = x.origin /\ z.state = x.state
        /\ z.stop = x.stop /\ z.results = x.results /\ z.step = x.step
        /\ z.reason = x.reason
      BY <1>2, <2>1, Clearing
  <2>5. /\ y \in Attempt
        /\ y.phase = "rework" /\ y.accepted = 0 /\ y.delivered = 0
        /\ y.worker = x.worker /\ y.origin = x.origin /\ y.stop = x.stop
        /\ y.results = x.results /\ y.reason = x.reason
        /\ y.state = x.state /\ y.step = x.step
      BY <2>2, <2>4 DEF Attempt, WorkPhases
  <2>6. AttemptInv(y, reservation[i])
      BY <1>2, <1>3, <2>5
         DEF AttemptInv, Agrees, StateInv, PendingInv, ReviewInv, StopInv
  <2> QED
      BY <1>1, <1>3, <2>3, <2>5, <2>6 DEF Moves, Open
<1>7. CASE ConfirmDelivery(m, i)
  <2>1. PICK y : y = [x EXCEPT !.delivered = x.accepted]
      OBVIOUS
  <2>2. Change(i, y) /\ x.phase = "accepted"
      BY <1>1, <1>7, <2>1 DEF ConfirmDelivery
  <2>3. /\ y \in Attempt
        /\ y.phase = x.phase /\ y.accepted = x.accepted /\ y.reviewer = x.reviewer
        /\ y.worker = x.worker /\ y.origin = x.origin /\ y.stop = x.stop
        /\ y.results = x.results /\ y.reason = x.reason
        /\ y.state = x.state /\ y.step = x.step
      BY <1>2, <2>1 DEF Attempt
  <2>4. AttemptInv(y, reservation[i])
      BY <1>2, <1>3, <2>2, <2>3
         DEF AttemptInv, Agrees, StateInv, PendingInv, ReviewInv, StopInv
  <2> QED
      BY <1>1, <1>3, <2>2, <2>3, <2>4 DEF Moves, Open
<1> QED
    BY <1>5, <1>6, <1>7

(* Requesting and confirming a stop are legal moves.                        *)
LEMMA StopMoves ==
    ASSUME Inv, NEW i \in Ids, RequestStop(i) \/ ConfirmStop(i)
    PROVE  \E y : Moves(i, y)
<1>1. PICK x : x = attempts[i]
    OBVIOUS
<1>2. x \in Attempt /\ AttemptInv(x, reservation[i])
    BY <1>1, AttemptAt DEF Inv
<1>3. CASE RequestStop(i)
  <2>1. PICK z : z = IF x.step.op = "finalize" THEN x ELSE AcceptanceVoided(x)
      OBVIOUS
  <2>2. PICK y : y = [z EXCEPT !.stop = "requested"]
      OBVIOUS
  <2>3. Change(i, y) /\ x.state # "closed" /\ x.phase \in StoppablePhases
      BY <1>1, <1>3, <2>1, <2>2 DEF RequestStop, Open
  <2>4. /\ z \in Attempt
        /\ z.worker = x.worker /\ z.origin = x.origin /\ z.state = x.state
        /\ z.results = x.results /\ z.step = x.step /\ z.reason = x.reason
        /\ x.step.op = "finalize" => z = x
        /\ x.step.op # "finalize" =>
              /\ z.accepted = 0 /\ z.delivered = 0
              /\ z.phase = IF x.phase = "accepted" THEN "submitted" ELSE x.phase
      BY <1>2, <2>1, Clearing
  <2>5. /\ y \in Attempt
        /\ y.stop = "requested" /\ y.phase = z.phase
        /\ y.accepted = z.accepted /\ y.delivered = z.delivered /\ y.reviewer = z.reviewer
        /\ y.worker = x.worker /\ y.origin = x.origin
        /\ y.results = x.results /\ y.reason = x.reason
        /\ y.state = x.state /\ y.step = x.step
      BY <2>2, <2>4 DEF Attempt
  <2>6. Agrees(y, reservation[i]) /\ PendingInv(y, reservation[i])
      BY <1>2, <2>5 DEF AttemptInv, Agrees, PendingInv
  <2>7. StateInv(y)
      BY <1>2, <2>3, <2>4, <2>5 DEF AttemptInv, StateInv, StoppablePhases
  <2>8. ReviewInv(y) /\ StopInv(y)
      BY <1>2, <2>3, <2>4, <2>5
         DEF AttemptInv, ReviewInv, StopInv, NothingAccepted, StoppablePhases
  <2> QED
      BY <1>1, <2>3, <2>5, <2>6, <2>7, <2>8 DEF Moves, Open, AttemptInv
<1>4. CASE ConfirmStop(i)
  <2>1. PICK y : y = [x EXCEPT !.stop = "confirmed"]
      OBVIOUS
  <2>2. Change(i, y) /\ x.state = "running" /\ x.step.op = "none" /\ x.stop = "requested"
      BY <1>1, <1>4, <2>1 DEF ConfirmStop, IdleRunning
  <2>3. /\ y \in Attempt
        /\ y.stop = "confirmed" /\ y.phase = x.phase
        /\ y.accepted = x.accepted /\ y.delivered = x.delivered /\ y.reviewer = x.reviewer
        /\ y.worker = x.worker /\ y.origin = x.origin
        /\ y.results = x.results /\ y.reason = x.reason
        /\ y.state = x.state /\ y.step = x.step
      BY <1>2, <2>1 DEF Attempt
  <2>4. AttemptInv(y, reservation[i])
      BY <1>2, <2>2, <2>3
         DEF AttemptInv, Agrees, StateInv, PendingInv, ReviewInv, StopInv, NothingAccepted
  <2> QED
      BY <1>1, <2>2, <2>3, <2>4 DEF Moves, Open
<1> QED
    BY <1>3, <1>4

-----------------------------------------------------------------------------
(* Proofs of the pending step *)

(* A new proof for a step, and aimem granting the fact, are legal moves.    *)
LEMMA ProofMoves ==
    ASSUME Inv, NEW i \in Ids, ReplaceProof(i) \/ FactGranted(i)
    PROVE  \E y : Moves(i, y)
<1>1. PICK x : x = attempts[i]
    OBVIOUS
<1>2. x \in Attempt /\ AttemptInv(x, reservation[i])
    BY <1>1, AttemptAt DEF Inv
<1>3. x.step.op # "none"
    BY <1>1 DEF ReplaceProof, FactGranted, Proved
<1>4. x.state # "closed"
    BY <1>2, <1>3 DEF AttemptInv, StateInv, Attempt, Step, Operations
<1>5. SUFFICES ASSUME NEW y, y \in Attempt, SameWork(x, y), y.state = x.state, Change(i, y),
                      y.step.op = x.step.op, y.step.to = x.step.to, y.step.from = x.step.from,
                      y.step.committed = x.step.committed
               PROVE  Moves(i, y)
  <2>1. CASE ReplaceProof(i)
    <3>1. PICK s : s = Now(x.step.actor.member)
        OBVIOUS
    <3>2. PICK z : z = IF x.origin = "claim" /\ x.step.op = "claim" /\ s.ordinal = x.bound.ordinal
                       THEN [x EXCEPT !.bound.gen = s.gen] ELSE x
        OBVIOUS
    <3>3. PICK y : y = [z EXCEPT !.step.actor = s]
        OBVIOUS
    <3>4. Change(i, y) /\ Acting(s)
        BY <1>1, <2>1, <3>1, <3>2, <3>3 DEF ReplaceProof
    <3>5. s \in SessionAt
      <4>1. s.member \in Members /\ s.member = x.step.actor.member
          BY <3>1, <3>4 DEF Acting, Now
      <4> QED
          BY <3>1, <4>1, NowIsSessionAt DEF Inv, SessionsInv
    <3>6. z \in Attempt /\ SameWork(x, z) /\ z.state = x.state /\ z.step = x.step
        BY <1>2, <3>2, <3>5 DEF Attempt, SessionAt, SameWork
    <3>7. y \in Attempt /\ SameWork(x, y) /\ y.state = x.state
          /\ y.step = [x.step EXCEPT !.actor = s]
        BY <3>3, <3>5, <3>6 DEF Attempt, Step, SameWork
    <3>8. /\ y.step.op = x.step.op /\ y.step.to = x.step.to /\ y.step.from = x.step.from
          /\ y.step.committed = x.step.committed
        BY <1>2, <3>7 DEF Attempt, Step
    <3> QED
        BY <1>5, <3>4, <3>7, <3>8
  <2>2. CASE FactGranted(i)
    <3>1. PICK y : y = [x EXCEPT !.step.granted = TRUE]
        OBVIOUS
    <3>2. Change(i, y)
        BY <1>1, <2>2, <3>1 DEF FactGranted
    <3>3. y \in Attempt /\ SameWork(x, y) /\ y.state = x.state
          /\ y.step.op = x.step.op /\ y.step.to = x.step.to /\ y.step.from = x.step.from
          /\ y.step.committed = x.step.committed
        BY <1>2, <3>1 DEF Attempt, Step, SameWork
    <3> QED
        BY <1>5, <3>2, <3>3
  <2> QED
      BY <2>1, <2>2
<1>6. AttemptInv(y, reservation[i])
    BY <1>2, <1>5 DEF SameWork, AttemptInv, Agrees, StateInv, PendingInv, ReviewInv, StopInv,
                      NothingAccepted, Reviewed
<1> QED
    BY <1>1, <1>2, <1>4, <1>5, <1>6 DEF Moves, Open, SameWork

-----------------------------------------------------------------------------
(* Settling *)

(* Closing an attempt ends its step and keeps who did the work.             *)
LEMMA Closing ==
    ASSUME NEW x \in Attempt, NEW y,
           NEW reason \in {"none", "claim", "declined", "withdrawn", "stopped", "finalized",
                           "recovered"},
           y = Closed(x, reason)
    PROVE  /\ y \in Attempt
           /\ y.state = "closed" /\ y.reason = reason
           /\ y.step.op = "none" /\ ~y.step.committed /\ y.step.from = "closed"
           /\ y.worker = x.worker /\ y.origin = x.origin /\ y.phase = x.phase
           /\ y.stop = x.stop /\ y.results = x.results /\ y.accepted = x.accepted
           /\ y.reviewer = x.reviewer /\ y.delivered = x.delivered
  BY PlaceholdersAt DEF Closed, Attempt, States

(* Settling a step that aimem committed is a legal move.                    *)
LEMMA SettleCommittedMoves ==
    ASSUME Inv, NEW i \in Ids, SettleCommitted(i)
    PROVE  \E y : Moves(i, y)
<1>1. PICK x : x = attempts[i]
    OBVIOUS
<1>2. PICK y : y = Settled(x)
    OBVIOUS
<1>3. Change(i, y) /\ x.step.op # "none" /\ x.step.committed
    BY <1>1, <1>2 DEF SettleCommitted
<1>4. x \in Attempt /\ AttemptInv(x, reservation[i])
    BY <1>1, AttemptAt DEF Inv
<1>5. x.step.op \in Operations /\ x.origin \in {"offer", "claim"}
    BY <1>3, <1>4 DEF Attempt, Step
<1>6. x.state # "closed"
    BY <1>4, <1>5 DEF AttemptInv, StateInv, Operations
<1>7. CASE x.step.op = "claim" /\ x.origin = "offer"
  <2>1. y = [x EXCEPT !.state = "offered", !.step = NoStep]
      BY <1>2, <1>7 DEF Settled
  <2>2. y \in Attempt /\ SameWork(x, y) /\ y.state = "offered" /\ y.step = NoStep
      BY <1>4, <2>1, PlaceholdersAt DEF Attempt, SameWork, States
  <2>3. AttemptInv(y, reservation[i])
      BY <1>3, <1>4, <1>7, <2>2, PlaceholdersAt
         DEF SameWork, AttemptInv, Agrees, StateInv, PendingInv, ReviewInv, StopInv,
             NothingAccepted, Reviewed
  <2> QED
      BY <1>1, <1>3, <1>6, <2>2, <2>3 DEF Moves, Open, SameWork
<1>8. CASE (x.step.op = "claim" /\ x.origin = "claim") \/ x.step.op = "transfer"
  <2>1. y = [x EXCEPT !.state = "running", !.phase = "working", !.step = NoStep]
      BY <1>2, <1>8 DEF Settled
  <2>2. /\ y \in Attempt /\ y.state = "running" /\ y.step = NoStep /\ y.phase = "working"
        /\ y.worker = x.worker /\ y.origin = x.origin /\ y.stop = x.stop
        /\ y.results = x.results /\ y.accepted = x.accepted
        /\ y.delivered = x.delivered /\ y.reason = x.reason
      BY <1>4, <2>1, PlaceholdersAt DEF Attempt, States, WorkPhases
  <2>3. x.state \in {"claiming", "accepting"}
      BY <1>4, <1>8 DEF AttemptInv, StateInv
  <2>4. AttemptInv(y, reservation[i])
      BY <1>3, <1>4, <1>8, <2>2, <2>3, PlaceholdersAt
         DEF AttemptInv, Agrees, StateInv, PendingInv, ReviewInv, StopInv
  <2> QED
      BY <1>1, <1>3, <1>6, <2>2, <2>4 DEF Moves, Open
<1>9. CASE x.step.op = "release"
  <2>1. PICK reason \in {"declined", "withdrawn", "stopped"} :
            /\ y = Closed(x, reason)
            /\ x.stop = "confirmed" => reason = "stopped"
      BY <1>2, <1>9 DEF Settled
  <2>2. /\ y \in Attempt
        /\ y.state = "closed" /\ y.reason = reason
        /\ y.step.op = "none" /\ ~y.step.committed
        /\ y.worker = x.worker /\ y.origin = x.origin /\ y.phase = x.phase
        /\ y.stop = x.stop /\ y.results = x.results /\ y.accepted = x.accepted
        /\ y.reviewer = x.reviewer /\ y.delivered = x.delivered
      BY <1>4, <2>1, Closing
  <2>3. AttemptInv(y, reservation[i]) /\ reservation[i] = "released"
      BY <1>3, <1>4, <1>9, <2>1, <2>2
         DEF AttemptInv, Agrees, StateInv, PendingInv, ReviewInv, StopInv
  <2> QED
      BY <1>1, <1>3, <1>6, <2>2, <2>3 DEF Moves, Open, Held
<1>10. CASE x.step.op = "update"
  <2>1. y = [x EXCEPT !.state = "running", !.phase = x.step.to, !.step = NoStep,
                      !.results = IF x.step.to = "submitted" THEN @ + 1 ELSE @]
      BY <1>2, <1>10 DEF Settled
  <2>2. /\ x.step.to \in {"working", "blocked", "submitted"} /\ x.state = "running"
        /\ x.phase \in {"working", "blocked", "rework"} /\ x.results \in Nat
      BY <1>4, <1>10 DEF AttemptInv, StateInv, Attempt
  <2>3. PICK n \in Nat : n = IF x.step.to = "submitted" THEN x.results + 1 ELSE x.results
      BY <2>2
  <2>4. /\ y \in Attempt /\ y.state = "running" /\ y.step = NoStep /\ y.phase = x.step.to
        /\ y.results = n
        /\ y.worker = x.worker /\ y.origin = x.origin /\ y.stop = x.stop
        /\ y.accepted = x.accepted /\ y.delivered = x.delivered /\ y.reason = x.reason
    <3>1. y = [x EXCEPT !.state = "running", !.phase = x.step.to, !.step = NoStep, !.results = n]
        BY <2>1, <2>3
    <3> QED
        BY <1>4, <2>2, <3>1, PlaceholdersAt DEF Attempt, States, WorkPhases
  <2>5. Agrees(y, reservation[i]) /\ StateInv(y) /\ PendingInv(y, reservation[i])
      BY <1>3, <1>4, <1>10, <2>2, <2>4, PlaceholdersAt
         DEF AttemptInv, Agrees, StateInv, PendingInv
  <2>6. x.step.to = "submitted" => y.results # 0
      BY <2>2, <2>3, <2>4
  <2>7. ReviewInv(y) /\ StopInv(y)
      BY <1>3, <1>4, <1>10, <2>2, <2>4, <2>6, PlaceholdersAt
         DEF AttemptInv, ReviewInv, StopInv, NothingAccepted, Reviewed
  <2> QED
      BY <1>1, <1>3, <1>6, <2>4, <2>5, <2>7 DEF Moves, Open, AttemptInv
<1>11. CASE x.step.op = "finalize"
  <2>1. PICK z : z = Closed(x, "finalized")
      OBVIOUS
  <2>2. y = [z EXCEPT !.phase = "finalized"]
      BY <1>2, <1>11, <2>1 DEF Settled
  <2>3. /\ z \in Attempt
        /\ z.state = "closed" /\ z.reason = "finalized"
        /\ z.step.op = "none" /\ ~z.step.committed
        /\ z.worker = x.worker /\ z.origin = x.origin
        /\ z.stop = x.stop /\ z.results = x.results /\ z.accepted = x.accepted
        /\ z.reviewer = x.reviewer /\ z.delivered = x.delivered
      BY <1>4, <2>1, Closing
  <2>4. /\ y \in Attempt
        /\ y.state = "closed" /\ y.reason = "finalized" /\ y.phase = "finalized"
        /\ y.step.op = "none" /\ ~y.step.committed
        /\ y.worker = x.worker /\ y.origin = x.origin
        /\ y.stop = x.stop /\ y.results = x.results /\ y.accepted = x.accepted
        /\ y.reviewer = x.reviewer /\ y.delivered = x.delivered
      BY <2>2, <2>3 DEF Attempt, WorkPhases
  <2>5. Agrees(y, reservation[i]) /\ StateInv(y) /\ PendingInv(y, reservation[i])
        /\ reservation[i] = "finalized"
      BY <1>3, <1>4, <1>11, <2>4 DEF AttemptInv, Agrees, StateInv, PendingInv
  <2>6. ReviewInv(y) /\ StopInv(y)
      BY <1>3, <1>4, <1>11, <2>4
         DEF AttemptInv, ReviewInv, StopInv, NothingAccepted, Reviewed
  <2> QED
      BY <1>1, <1>3, <1>6, <2>4, <2>5, <2>6 DEF Moves, Open, AttemptInv, Held
<1> QED
    BY <1>5, <1>7, <1>8, <1>9, <1>10, <1>11 DEF Operations

(* Settling a step that aimem did not commit is a legal move.               *)
LEMMA SettleNotCommittedMoves ==
    ASSUME Inv, NEW i \in Ids, SettleNotCommitted(i)
    PROVE  \E y : Moves(i, y)
<1>1. PICK x : x = attempts[i]
    OBVIOUS
<1>2. x \in Attempt /\ AttemptInv(x, reservation[i])
    BY <1>1, AttemptAt DEF Inv
<1>3. x.step.op # "none" /\ ~x.step.committed
    BY <1>1 DEF SettleNotCommitted
<1>4. x.step.op \in Operations /\ x.step.from \in States
    BY <1>2, <1>3 DEF Attempt, Step
<1>5. x.state # "closed"
    BY <1>2, <1>4 DEF AttemptInv, StateInv, Operations
<1>6. CASE x.step.op = "claim"
  <2>1. PICK y : y = Closed(x, "claim")
      OBVIOUS
  <2>2. Change(i, y)
      BY <1>1, <1>6, <2>1 DEF SettleNotCommitted
  <2>3. /\ y \in Attempt
        /\ y.state = "closed" /\ y.reason = "claim"
        /\ y.step.op = "none" /\ ~y.step.committed
        /\ y.worker = x.worker /\ y.origin = x.origin /\ y.phase = x.phase
        /\ y.stop = x.stop /\ y.results = x.results /\ y.accepted = x.accepted
        /\ y.reviewer = x.reviewer /\ y.delivered = x.delivered
      BY <1>2, <2>1, Closing
  <2>4. AttemptInv(y, reservation[i]) /\ reservation[i] = "none"
      BY <1>2, <1>3, <1>6, <2>3
         DEF AttemptInv, Agrees, StateInv, PendingInv, ReviewInv, StopInv
  <2> QED
      BY <1>1, <1>5, <2>2, <2>3, <2>4 DEF Moves, Open, Held
<1>7. CASE x.step.op # "claim"
  <2>1. PICK z : z = Back(x)
      OBVIOUS
  <2>2. /\ z \in Attempt /\ SameWork(x, z) /\ z.state = x.step.from /\ z.step = NoStep
      BY <1>2, <1>4, <2>1, PlaceholdersAt DEF Back, Attempt, SameWork
  <2>3. x.step.from \in {"offered", "running"}
      BY <1>2, <1>4, <1>7 DEF AttemptInv, StateInv, Operations
  <2>4. CASE x.step.op = "finalize" /\ x.stop # "none"
    <3>1. PICK y : y = AcceptanceVoided(z)
        OBVIOUS
    <3>2. Change(i, y)
        BY <1>1, <2>1, <2>4, <3>1 DEF SettleNotCommitted
    <3>3. /\ y \in Attempt /\ y.accepted = 0 /\ y.delivered = 0
          /\ y.phase = IF x.phase = "accepted" THEN "submitted" ELSE x.phase
          /\ y.worker = x.worker /\ y.origin = x.origin /\ y.state = x.step.from
          /\ y.stop = x.stop /\ y.results = x.results /\ y.step = NoStep
          /\ y.reason = x.reason
        BY <2>2, <3>1, Clearing DEF SameWork
    <3>4. Agrees(y, reservation[i]) /\ StateInv(y) /\ PendingInv(y, reservation[i])
        BY <1>2, <1>3, <2>3, <2>4, <3>3, PlaceholdersAt
           DEF AttemptInv, Agrees, StateInv, PendingInv
    <3>5. ReviewInv(y) /\ StopInv(y)
        BY <1>2, <1>5, <2>3, <2>4, <3>3, PlaceholdersAt
           DEF AttemptInv, ReviewInv, StopInv, NothingAccepted, Reviewed
    <3> QED
        BY <1>1, <1>5, <2>3, <3>2, <3>3, <3>4, <3>5 DEF Moves, Open, AttemptInv
  <2>5. CASE ~(x.step.op = "finalize" /\ x.stop # "none")
    <3>1. Change(i, z)
        BY <1>1, <1>7, <2>1, <2>5 DEF SettleNotCommitted
    <3>2. Agrees(z, reservation[i]) /\ PendingInv(z, reservation[i])
        BY <1>2, <1>3, <1>4, <1>7, <2>2, <2>3, PlaceholdersAt
           DEF SameWork, AttemptInv, Agrees, StateInv, PendingInv, Operations
    <3>3. StateInv(z)
        BY <1>2, <1>4, <1>7, <2>2, <2>3, PlaceholdersAt
           DEF SameWork, AttemptInv, StateInv, Operations
    <3>4. ReviewInv(z) /\ StopInv(z)
        BY <1>2, <1>5, <2>2, <2>3, <2>5, PlaceholdersAt
           DEF SameWork, AttemptInv, ReviewInv, StopInv, NothingAccepted, Reviewed
    <3> QED
        BY <1>1, <1>5, <2>2, <2>3, <3>1, <3>2, <3>3, <3>4 DEF Moves, Open, SameWork, AttemptInv
  <2> QED
      BY <2>4, <2>5
<1> QED
    BY <1>6, <1>7

(* Closing an attempt whose task was taken from it is a legal move.         *)
LEMMA CloseRecoveredMoves ==
    ASSUME Inv, NEW i \in Ids, CloseRecovered(i)
    PROVE  \E y : Moves(i, y)
<1>1. PICK x : x = attempts[i]
    OBVIOUS
<1>2. PICK y : y = Closed(x, "recovered")
    OBVIOUS
<1>3. /\ Change(i, y) /\ x.state \in {"offered", "running"} /\ x.step.op = "none"
      /\ reservation[i] \notin {"none", "offer", "work"}
    BY <1>1, <1>2 DEF CloseRecovered
<1>4. x \in Attempt /\ AttemptInv(x, reservation[i])
    BY <1>1, AttemptAt DEF Inv
<1>5. /\ y \in Attempt
      /\ y.state = "closed" /\ y.reason = "recovered"
      /\ y.step.op = "none" /\ ~y.step.committed
      /\ y.worker = x.worker /\ y.origin = x.origin /\ y.phase = x.phase
      /\ y.stop = x.stop /\ y.results = x.results /\ y.accepted = x.accepted
      /\ y.reviewer = x.reviewer /\ y.delivered = x.delivered
    BY <1>2, <1>4, Closing
<1>6. AttemptInv(y, reservation[i])
    BY <1>3, <1>4, <1>5
       DEF AttemptInv, Agrees, StateInv, PendingInv, ReviewInv, StopInv
<1> QED
    BY <1>1, <1>3, <1>5, <1>6 DEF Moves, Open, Held

(* A change of one attempt keeps the invariant. *)
LEMMA MovingInv ==
    ASSUME Inv, NEW i \in Ids, NEW y, Moves(i, y)
    PROVE  Inv'
<1>1. /\ attempts' = [attempts EXCEPT ![i] = y] /\ reservation' = reservation
      /\ UNCHANGED sessionVars
    BY DEF Moves, Change
<1>2. SessionsInv'
    BY <1>1, SessionsStep DEF Inv
<1>3. attempts \in Seq(Attempt) /\ y \in Attempt /\ reservation \in [Ids -> Reservations]
    BY DEF Inv, WorkInv, WorkTypeOK, Moves, Ids
<1>4. /\ attempts' \in Seq(Attempt) /\ Ids' = Ids
      /\ \A j \in Ids : attempts'[j] = IF j = i THEN y ELSE attempts[j]
    BY <1>1, <1>3 DEF Ids
<1>5. WorkTypeOK'
    BY <1>1, <1>2, <1>3, <1>4 DEF WorkTypeOK, SessionsInv, Ids
<1>6. OneOpenAttempt'
    BY <1>4 DEF Inv, WorkInv, OneOpenAttempt, Open, Moves
<1>7. ASSUME NEW j \in Ids'
      PROVE  AttemptInv(attempts'[j], reservation'[j])
    BY <1>1, <1>4 DEF Inv, WorkInv, Moves
<1> QED
    BY <1>2, <1>5, <1>6, <1>7 DEF Inv, WorkInv

-----------------------------------------------------------------------------
(* aimem *)

(* aimem committing a step keeps the invariant and changes no attempt's     *)
(* worker or state.                                                         *)
LEMMA CommitsInv ==
    ASSUME Inv, NEW i \in Ids, Commits(i)
    PROVE  /\ Inv'
           /\ Open(i)
           /\ Ids' = Ids
           /\ \A j \in Ids :
                 /\ attempts'[j].worker = attempts[j].worker
                 /\ attempts'[j].state = attempts[j].state
                 /\ j # i => reservation'[j] = reservation[j]
<1>1. PICK x : x = attempts[i]
    OBVIOUS
<1>2. PICK y : y = [x EXCEPT !.step.committed = TRUE]
    OBVIOUS
<1>3. PICK r : r = Reserved(i)
    OBVIOUS
<1>4. /\ attempts' = [attempts EXCEPT ![i] = y] /\ reservation' = [reservation EXCEPT ![i] = r]
      /\ UNCHANGED sessionVars /\ r # "none" /\ ~x.step.committed
    BY <1>1, <1>2, <1>3 DEF Commits
<1>5. x \in Attempt /\ AttemptInv(x, reservation[i])
    BY <1>1, AttemptAt DEF Inv
<1>6. /\ y \in Attempt /\ SameWork(x, y) /\ y.state = x.state
      /\ y.step.op = x.step.op /\ y.step.to = x.step.to /\ y.step.from = x.step.from
      /\ y.step.committed
    BY <1>2, <1>5 DEF Attempt, Step, SameWork
<1>7. /\ x.step.op \in Operations /\ r \in Reservations
      /\ x.step.op = "claim" => r = IF x.origin = "offer" THEN "offer" ELSE "work"
      /\ x.step.op \in {"transfer", "update"} => r = "work"
      /\ x.step.op = "release" => r = "released"
      /\ x.step.op = "finalize" => r = "finalized"
    BY <1>1, <1>3, <1>4, <1>5 DEF Reserved, Attempt, Step, Operations, Reservations
<1>8. x.state # "closed"
    BY <1>5, <1>7 DEF AttemptInv, StateInv, Operations
<1>9. Agrees(y, r) /\ StateInv(y) /\ PendingInv(y, r)
    BY <1>5, <1>6, <1>7, <1>8 DEF SameWork, AttemptInv, Agrees, StateInv, PendingInv, Operations
<1>10. ReviewInv(y) /\ StopInv(y)
    BY <1>5, <1>6 DEF SameWork, AttemptInv, ReviewInv, StopInv, NothingAccepted, Reviewed
<1>11. attempts \in Seq(Attempt) /\ reservation \in [Ids -> Reservations]
    BY DEF Inv, WorkInv, WorkTypeOK, Ids
<1>12. /\ attempts' \in Seq(Attempt) /\ Ids' = Ids
       /\ \A j \in Ids : attempts'[j] = IF j = i THEN y ELSE attempts[j]
       /\ \A j \in Ids : reservation'[j] = IF j = i THEN r ELSE reservation[j]
       /\ reservation' \in [Ids' -> Reservations]
    BY <1>4, <1>6, <1>7, <1>11 DEF Ids
<1>13. SessionsInv'
    BY <1>4, SessionsStep DEF Inv
<1>14. WorkTypeOK'
    BY <1>12, <1>13 DEF WorkTypeOK, SessionsInv, Ids
<1>15. OneOpenAttempt'
    BY <1>1, <1>6, <1>12 DEF Inv, WorkInv, OneOpenAttempt, Open, SameWork
<1>16. ASSUME NEW j \in Ids'
       PROVE  AttemptInv(attempts'[j], reservation'[j])
    BY <1>9, <1>10, <1>12 DEF Inv, WorkInv, AttemptInv
<1>17. Inv'
    BY <1>13, <1>14, <1>15, <1>16 DEF Inv, WorkInv
<1> QED
    BY <1>1, <1>6, <1>8, <1>12, <1>17 DEF Open, SameWork

(* aimem recovering a task by itself keeps the invariant.                   *)
LEMMA RecoveredInv ==
    ASSUME Inv, NEW i \in Ids, Recovered(i)
    PROVE  Inv' /\ Open(i)
<1>1. /\ attempts' = attempts /\ reservation' = [reservation EXCEPT ![i] = "recovered"]
      /\ UNCHANGED sessionVars /\ reservation[i] \in {"offer", "work"}
    BY DEF Recovered, Held
<1>2. AttemptInv(attempts[i], reservation[i])
    BY AttemptAt DEF Inv
<1>3. AttemptInv(attempts[i], "recovered")
    BY <1>1, <1>2 DEF AttemptInv, Agrees, PendingInv
<1>4. attempts \in Seq(Attempt) /\ reservation \in [Ids -> Reservations]
    BY DEF Inv, WorkInv, WorkTypeOK, Ids
<1>5. /\ Ids' = Ids /\ reservation' \in [Ids -> Reservations]
      /\ \A j \in Ids : reservation'[j] = IF j = i THEN "recovered" ELSE reservation[j]
    BY <1>1, <1>4 DEF Ids, Reservations
<1>6. SessionsInv'
    BY <1>1, SessionsStep DEF Inv
<1>7. WorkTypeOK'
    BY <1>1, <1>4, <1>5, <1>6 DEF WorkTypeOK, SessionsInv, Ids
<1>8. OneOpenAttempt'
    BY <1>1, <1>5 DEF Inv, WorkInv, OneOpenAttempt, Open
<1>9. ASSUME NEW j \in Ids'
      PROVE  AttemptInv(attempts'[j], reservation'[j])
    BY <1>1, <1>3, <1>5 DEF Inv, WorkInv
<1>10. Open(i)
    BY <1>1, <1>2 DEF AttemptInv, Agrees, Open
<1> QED
    BY <1>6, <1>7, <1>8, <1>9, <1>10 DEF Inv, WorkInv

-----------------------------------------------------------------------------
(* Attempts recorded: their worker has no open one in any team. *)

(* The attempt x is recorded for a worker with no open attempt. *)
Records(x) ==
    /\ Recorded(x)
    /\ Len(attempts) < MaxAttempts
    /\ x \in Attempt
    /\ AttemptInv(x, "none")
    /\ x.state # "closed"
    /\ \A i \in Ids : attempts[i].worker[2] = x.worker[2] => ~Open(i)

(* The step a claim begins with is a step.                                  *)
LEMMA FirstStep ==
    ASSUME NEW s \in SessionAt
    PROVE  LET step == [NoStep EXCEPT !.op = "claim", !.actor = s]
           IN  step \in Step /\ step.op = "claim" /\ ~step.committed
  BY DEF NoStep, Step, Operations, States, WorkPhases

(* An agent the guard finds without open work has no open attempt in any    *)
(* team.                                                                    *)
LEMMA FreeWorker ==
    ASSUME Inv, NEW a, ~OpenWork(a, Teams), NEW i \in Ids, attempts[i].worker[2] = a
    PROVE  ~Open(i)
<1>1. attempts[i].worker[1] \in Teams
    BY AttemptAt DEF Inv, Attempt, Members
<1> QED
    BY <1>1 DEF OpenWork

(* Offering a task records one new attempt.                                 *)
LEMMA OfferRecords ==
    ASSUME Inv, NEW m \in Members, NEW w \in Members, NEW task \in Tasks, OfferTask(m, w, task)
    PROVE  \E x : Records(x)
<1>1. PICK s \in SessionAt : s = Now(m)
    BY NowIsSessionAt DEF Inv, SessionsInv
<1>2. PICK step : step = [NoStep EXCEPT !.op = "claim", !.actor = s]
    OBVIOUS
<1>3. step \in Step /\ step.op = "claim" /\ ~step.committed
    BY <1>2, FirstStep
<1>4. PICK bound : bound = [ordinal |-> session[w].ordinal,
                            gen |-> IF session[w].active THEN session[w].gen ELSE 0]
    OBVIOUS
<1>5. bound \in [ordinal : Nat, gen : Nat] /\ session[m].coordGen \in Nat
    BY <1>4 DEF Inv, SessionsInv, TypeOK, Session
<1>6. PICK x : x = [task |-> task, worker |-> w, origin |-> "offer", coordinator |-> s,
                    term |-> session[m].coordGen, bound |-> bound,
                    state |-> "offering", phase |-> "none", stop |-> "none", declined |-> FALSE,
                    results |-> 0, accepted |-> 0, reviewer |-> Nobody, delivered |-> 0,
                    reason |-> "none", step |-> step]
    OBVIOUS
<1>7. Recorded(x) /\ Len(attempts) < MaxAttempts /\ ~OpenWork(w[2], Teams)
    BY <1>1, <1>2, <1>4, <1>6 DEF OfferTask
<1>8. x \in Attempt
    BY <1>3, <1>5, <1>6, PlaceholdersAt DEF Attempt, States, WorkPhases
<1>9. AttemptInv(x, "none")
    BY <1>3, <1>6 DEF AttemptInv, Agrees, StateInv, PendingInv, ReviewInv, StopInv
<1> QED
    BY <1>6, <1>7, <1>8, <1>9, FreeWorker DEF Records

(* Claiming a task records one new attempt.                                 *)
LEMMA ClaimRecords ==
    ASSUME Inv, NEW m \in Members, NEW task \in Tasks, ClaimTask(m, task)
    PROVE  \E x : Records(x)
<1>1. PICK s \in SessionAt : s = Now(m)
    BY NowIsSessionAt DEF Inv, SessionsInv
<1>2. PICK step : step = [NoStep EXCEPT !.op = "claim", !.actor = s]
    OBVIOUS
<1>3. step \in Step /\ step.op = "claim" /\ ~step.committed
    BY <1>2, FirstStep
<1>4. PICK bound : bound = [ordinal |-> session[m].ordinal, gen |-> session[m].gen]
    OBVIOUS
<1>5. bound \in [ordinal : Nat, gen : Nat]
    BY <1>4 DEF Inv, SessionsInv, TypeOK, Session
<1>6. PICK x : x = [task |-> task, worker |-> m, origin |-> "claim", coordinator |-> Nobody,
                    term |-> 0, bound |-> bound,
                    state |-> "claiming", phase |-> "none", stop |-> "none", declined |-> FALSE,
                    results |-> 0, accepted |-> 0, reviewer |-> Nobody, delivered |-> 0,
                    reason |-> "none", step |-> step]
    OBVIOUS
<1>7. Recorded(x) /\ Len(attempts) < MaxAttempts /\ ~OpenWork(m[2], Teams)
    BY <1>1, <1>2, <1>4, <1>6 DEF ClaimTask
<1>8. x \in Attempt
    BY <1>3, <1>5, <1>6, PlaceholdersAt DEF Attempt, States, WorkPhases
<1>9. AttemptInv(x, "none")
    BY <1>3, <1>6 DEF AttemptInv, Agrees, StateInv, PendingInv, ReviewInv, StopInv
<1> QED
    BY <1>6, <1>7, <1>8, <1>9, FreeWorker DEF Records

(* What recording an attempt does to the sequence of attempts and to the    *)
(* reservations.                                                            *)
LEMMA Appended ==
    ASSUME Inv, NEW x, Records(x)
    PROVE  \E n \in Nat :
              /\ Len(attempts) = n /\ Len(attempts') = n + 1
              /\ Ids = 1..n /\ Ids' = 1..(n + 1)
              /\ attempts' \in Seq(Attempt)
              /\ reservation' \in [1..(n + 1) -> Reservations]
              /\ \A j \in 1..(n + 1) :
                    /\ attempts'[j] = IF j = n + 1 THEN x ELSE attempts[j]
                    /\ reservation'[j] = IF j = n + 1 THEN "none" ELSE reservation[j]
<1>1. /\ attempts' = Append(attempts, x) /\ reservation' = Append(reservation, "none")
    BY DEF Records, Recorded
<1>2. attempts \in Seq(Attempt) /\ reservation \in [Ids -> Reservations] /\ x \in Attempt
    BY DEF Inv, WorkInv, WorkTypeOK, Ids, Records
<1>3. PICK n \in Nat : n = Len(attempts) /\ Ids = 1..n
    BY <1>2 DEF Ids
<1>4. /\ attempts' \in Seq(Attempt) /\ Ids' = 1..(n + 1) /\ Len(attempts') = n + 1
      /\ \A j \in 1..(n + 1) : attempts'[j] = IF j = n + 1 THEN x ELSE attempts[j]
    BY <1>1, <1>2, <1>3 DEF Ids
<1>5. reservation \in Seq(Reservations) /\ Len(reservation) = n
    BY <1>2, <1>3
<1>6. reservation' \in Seq(Reservations) /\ Len(reservation') = n + 1
    BY <1>1, <1>5 DEF Reservations
<1>7. reservation' \in [1..(n + 1) -> Reservations]
    BY <1>6
<1>8. ASSUME NEW j \in 1..(n + 1)
      PROVE  reservation'[j] = IF j = n + 1 THEN "none" ELSE reservation[j]
    BY <1>1, <1>3, <1>5
<1> QED
    BY <1>3, <1>4, <1>7, <1>8

(* Recording a new attempt keeps the invariant: its worker had none open.   *)
LEMMA RecordingInv ==
    ASSUME Inv, NEW x, Records(x)
    PROVE  Inv'
<1>1. PICK n \in Nat :
              /\ Len(attempts) = n /\ Len(attempts') = n + 1
              /\ Ids = 1..n /\ Ids' = 1..(n + 1)
              /\ attempts' \in Seq(Attempt)
              /\ reservation' \in [1..(n + 1) -> Reservations]
              /\ \A j \in 1..(n + 1) :
                    /\ attempts'[j] = IF j = n + 1 THEN x ELSE attempts[j]
                    /\ reservation'[j] = IF j = n + 1 THEN "none" ELSE reservation[j]
    BY Appended
<1>2. SessionsInv'
    BY SessionsStep DEF Inv, Records, Recorded
<1>3. WorkTypeOK'
    BY <1>1, <1>2 DEF WorkTypeOK, SessionsInv, Ids
<1>4. \A j \in 1..(n + 1) : j = n + 1 \/ j \in Ids
    BY <1>1
<1>5. OneOpenAttempt'
    BY <1>1, <1>4 DEF Inv, WorkInv, OneOpenAttempt, Open, Records
<1>6. ASSUME NEW j \in Ids'
      PROVE  AttemptInv(attempts'[j], reservation'[j])
    BY <1>1, <1>4 DEF Inv, WorkInv, Records
<1> QED
    BY <1>2, <1>3, <1>5, <1>6 DEF Inv, WorkInv

-----------------------------------------------------------------------------
(* The composition *)

(* What sessions and memberships do keeps the invariant and touches no      *)
(* work.                                                                    *)
LEMMA SessionStepsInv ==
    ASSUME Inv, SessionSteps
    PROVE  Inv' /\ UNCHANGED workVars
<1>1. SessionsNext
    BY DEF SessionSteps, SessionsNext, InvitationSteps
<1>2. SessionsInv'
    BY <1>1, SessionsStep DEF Inv
<1>3. attempts' = attempts /\ reservation' = reservation
    BY DEF SessionSteps, workVars
<1> QED
    BY <1>2, <1>3 DEF Inv, WorkInv, WorkTypeOK, SessionsInv, OneOpenAttempt, Open, Ids, workVars

(* What a step of the composition does to the attempts. *)
LEMMA WorkStep ==
    ASSUME Inv, Next
    PROVE  \/ SessionSteps
           \/ \E x : Records(x)
           \/ \E i \in Ids : \/ \E y : Moves(i, y)
                             \/ Commits(i)
                             \/ Recovered(i)
<1>1. CASE SessionSteps
    BY <1>1
<1>2. CASE MemberSteps
    BY <1>2, ClaimRecords, OfferRecords, BeginningSteps, DeclineOfferMoves, StopMoves, ReviewMoves
       DEF MemberSteps
<1>3. ASSUME NEW i \in Ids,
             \/ RequestStop(i) \/ ReplaceProof(i) \/ FactGranted(i) \/ SettleCommitted(i)
             \/ SettleNotCommitted(i) \/ CloseRecovered(i)
      PROVE  \E y : Moves(i, y)
    BY <1>3, StopMoves, ProofMoves, SettleCommittedMoves, SettleNotCommittedMoves,
       CloseRecoveredMoves
<1> QED
    BY <1>1, <1>2, <1>3 DEF Next

(* The initial states satisfy the invariant.                                *)
LEMMA WorkInitInv == Init => Inv
<1> SUFFICES ASSUME Init PROVE Inv
    OBVIOUS
<1>1. attempts = <<>> /\ reservation = <<>> /\ Ids = {}
    BY DEF Init, Ids
<1>2. SessionsInv
    BY InitInv DEF Init
<1>3. WorkTypeOK
    BY <1>1, <1>2 DEF WorkTypeOK, SessionsInv, Ids
<1> QED
    BY <1>1, <1>2, <1>3 DEF Inv, WorkInv, OneOpenAttempt

(* Every step keeps the invariant.                                          *)
LEMMA InvStep == Inv /\ [Next]_vars => Inv'
<1> SUFFICES ASSUME Inv, [Next]_vars PROVE Inv'
    OBVIOUS
<1>1. CASE Next
    BY <1>1, WorkStep, SessionStepsInv, RecordingInv, MovingInv, CommitsInv, RecoveredInv
<1>2. CASE UNCHANGED vars
  <2>1. UNCHANGED sessionVars /\ UNCHANGED workVars
      BY <1>2 DEF vars, sessionVars, workVars
  <2>2. SessionsInv'
      BY <2>1, SessionsStep DEF Inv
  <2> QED
      BY <2>1, <2>2 DEF Inv, WorkInv, WorkTypeOK, SessionsInv, OneOpenAttempt, Open, Ids, workVars
<1> QED
    BY <1>1, <1>2

(* The sessions and the attempts keep their invariants together, and every  *)
(* attempt and reservation keeps to its type (the tables' columns).         *)
THEOREM WorkInvariance == Spec => [](SessionsInv /\ WorkInv)
  BY WorkInitInv, InvStep, PTL DEF Spec, Inv

(* aimem holds a reservation for an attempt when its record says so, and    *)
(* none when it is closed (applyOutcome, closesRecovered).                  *)
THEOREM RecordAgrees == Spec => []AgreesWithAimem
<1>1. SessionsInv /\ WorkInv => AgreesWithAimem
    BY DEF WorkInv, AttemptInv, AgreesWithAimem
<1> QED
    BY <1>1, WorkInvariance, PTL

(* A task aimem records as done has its latest result accepted by a         *)
(* coordinator other than its worker, and delivered (work.go).              *)
THEOREM DoneWasReviewed == Spec => []DoneIsReviewed
<1>1. ASSUME Inv, NEW i \in Ids, reservation[i] = "finalized"
      PROVE  Reviewed(attempts[i])
  <2>1. PICK x : x = attempts[i]
      OBVIOUS
  <2>2. x \in Attempt /\ AttemptInv(x, "finalized")
      BY <1>1, <2>1, AttemptAt DEF Inv
  <2>3. x.step.op \in Operations \cup {"none"} /\ x.step.committed \in BOOLEAN
      BY <2>2 DEF Attempt, Step
  <2>4. CASE x.step.op = "none"
      BY <2>1, <2>2, <2>4 DEF AttemptInv, Agrees, StateInv, ReviewInv
  <2>5. CASE x.step.op # "none"
    <3>1. x.step.op = "finalize"
        BY <2>2, <2>3, <2>5 DEF AttemptInv, PendingInv, StateInv, Operations
    <3> QED
        BY <2>1, <2>2, <3>1 DEF AttemptInv, ReviewInv, Reviewed
  <2> QED
      BY <2>4, <2>5
<1>2. Inv => DoneIsReviewed
    BY <1>1 DEF DoneIsReviewed
<1> QED
    BY <1>2, WorkInvariance, PTL DEF Inv

(* A stop holds: it voids an acceptance, and confirmed it is the end of the *)
(* work (stop.go, requestStop, confirmStop).                                *)
THEOREM StopsHold == Spec => []StopHolds
<1>1. SessionsInv /\ WorkInv => StopVoidsAcceptance
    BY DEF WorkInv, AttemptInv, StopInv, StopVoidsAcceptance, Open
<1>2. SessionsInv /\ WorkInv => ConfirmedStopEndsWork
    BY DEF WorkInv, AttemptInv, StopInv, ConfirmedStopEndsWork, Open
<1>3. SessionsInv /\ WorkInv => StopHolds
    BY <1>1, <1>2 DEF StopHolds
<1> QED
    BY <1>3, WorkInvariance, PTL

-----------------------------------------------------------------------------
(* Capacity: an agent's slot is its open attempt. *)

(* With one open attempt per agent, the agent's slot holds that attempt.    *)
LEMMA SlotIs ==
    ASSUME OneOpenAttempt, NEW i \in Ids, Open(i), NEW a, a = attempts[i].worker[2]
    PROVE  SlotOf(a) = i
<1> DEFINE own == {j \in Ids : Open(j) /\ attempts[j].worker[2] = a}
<1>1. own = {i}
    BY DEF OneOpenAttempt
<1>2. (CHOOSE j \in own : TRUE) = i
    BY <1>1
<1> QED
    BY <1>1, <1>2 DEF SlotOf

(* An agent without open work has an empty slot.                            *)
LEMMA NoSlotIs ==
    ASSUME NEW a, \A i \in Ids : attempts[i].worker[2] = a => ~Open(i)
    PROVE  SlotOf(a) = 0
  BY DEF SlotOf

(* The slot after the step holds the attempt that is open then.             *)
LEMMA SlotIsAfter ==
    ASSUME OneOpenAttempt', NEW i \in Ids', Open(i)', NEW a, a = attempts'[i].worker[2]
    PROVE  SlotOf(a)' = i
<1> DEFINE own == {j \in Ids' : Open(j)' /\ attempts'[j].worker[2] = a}
<1>1. own = {i}
    BY DEF OneOpenAttempt, Open
<1>2. (CHOOSE j \in own : TRUE) = i
    BY <1>1
<1> QED
    BY <1>1, <1>2 DEF SlotOf, Open

(* The slot is empty after the step when no attempt is open then.           *)
LEMMA NoSlotIsAfter ==
    ASSUME NEW a, \A i \in Ids' : attempts'[i].worker[2] = a => ~Open(i)'
    PROVE  SlotOf(a)' = 0
  BY DEF SlotOf, Open

(* A step that opens and closes nothing of agent a leaves its slot alone. *)
LEMMA SlotKept ==
    ASSUME OneOpenAttempt, OneOpenAttempt', NEW a,
           \A i \in Ids : Open(i) /\ attempts[i].worker[2] = a
                         => i \in Ids' /\ Open(i)' /\ attempts'[i].worker[2] = a,
           \A i \in Ids' : Open(i)' /\ attempts'[i].worker[2] = a
                         => i \in Ids /\ Open(i) /\ attempts[i].worker[2] = a
    PROVE  SlotOf(a)' = SlotOf(a)
<1>1. CASE \E i \in Ids : Open(i) /\ attempts[i].worker[2] = a
  <2>1. PICK i \in Ids : Open(i) /\ attempts[i].worker[2] = a
      BY <1>1
  <2>2. SlotOf(a) = i
      BY <2>1, SlotIs
  <2>3. SlotOf(a)' = i
      BY <2>1, SlotIsAfter
  <2> QED
      BY <2>2, <2>3
<1>2. CASE ~\E i \in Ids : Open(i) /\ attempts[i].worker[2] = a
    BY <1>2, NoSlotIs, NoSlotIsAfter
<1> QED
    BY <1>1, <1>2

(* The variables of ExecutionCapacity, as Capacity instantiates them. *)
Slots == [a \in Agents |-> SlotOf(a)]

HeldIds == {i \in Ids : Held(i)}

(* Recording an attempt takes an empty slot of the abstract specification.  *)
LEMMA TakesCapacity ==
    ASSUME Inv, Inv', NEW x, Records(x)
    PROVE  Capacity!Next
<1>1. PICK n \in Nat :
              /\ Len(attempts) = n /\ Len(attempts') = n + 1
              /\ Ids = 1..n /\ Ids' = 1..(n + 1)
              /\ \A j \in 1..(n + 1) :
                    /\ attempts'[j] = IF j = n + 1 THEN x ELSE attempts[j]
                    /\ reservation'[j] = IF j = n + 1 THEN "none" ELSE reservation[j]
    BY Appended
<1>2. PICK w \in Agents : w = x.worker[2]
    BY DEF Records, Attempt, Members
<1>3. /\ n < MaxAttempts /\ x.state # "closed"
      /\ \A i \in Ids : attempts[i].worker[2] = w => ~Open(i)
    BY <1>1, <1>2 DEF Records
<1>4. /\ attempts'[n + 1] = x /\ reservation'[n + 1] = "none" /\ n + 1 \in Ids'
      /\ \A j \in Ids : attempts'[j] = attempts[j] /\ reservation'[j] = reservation[j]
      /\ \A j \in Ids' : j = n + 1 \/ j \in Ids
      /\ \A j \in Ids : j \in Ids' /\ j # n + 1
    BY <1>1
<1>5. SlotOf(w) = 0
    BY <1>3, NoSlotIs
<1>6. SlotOf(w)' = n + 1
  <2>1. n + 1 \in Ids' /\ Open(n + 1)'
      BY <1>3, <1>4 DEF Open
  <2> QED
      BY <1>2, <1>4, <2>1, SlotIsAfter DEF Inv, WorkInv
<1>7. ASSUME NEW a \in Agents, a # w
      PROVE  SlotOf(a)' = SlotOf(a)
  <2>1. \A i \in Ids : Open(i) /\ attempts[i].worker[2] = a
                      => i \in Ids' /\ Open(i)' /\ attempts'[i].worker[2] = a
      BY <1>4 DEF Open
  <2>2. \A i \in Ids' : Open(i)' /\ attempts'[i].worker[2] = a
                       => i \in Ids /\ Open(i) /\ attempts[i].worker[2] = a
      BY <1>2, <1>4, <1>7 DEF Open
  <2> QED
      BY <2>1, <2>2, SlotKept DEF Inv, WorkInv
<1>8. Slots' = [Slots EXCEPT ![w] = n + 1]
    BY <1>6, <1>7 DEF Slots
<1>9. HeldIds' = HeldIds
    BY <1>4 DEF HeldIds, Held
<1>10. Capacity!Take(w)
    BY <1>1, <1>3, <1>4, <1>5, <1>8, <1>9 DEF Capacity!Take, Slots, HeldIds
<1> QED
    BY <1>10 DEF Capacity!Next

CapacityUnchanged == Slots' = Slots /\ HeldIds' = HeldIds /\ Len(attempts') = Len(attempts)

(* A move of an attempt frees its slot or leaves the slots alone.           *)
LEMMA MovesCapacity ==
    ASSUME Inv, Inv', NEW i \in Ids, NEW y, Moves(i, y)
    PROVE  Capacity!Next \/ CapacityUnchanged
<1>1. PICK w \in Agents : w = attempts[i].worker[2] /\ w = y.worker[2]
    BY AttemptAt DEF Inv, Attempt, Members, Moves
<1>2. attempts \in Seq(Attempt) /\ y \in Attempt
    BY DEF Inv, WorkInv, WorkTypeOK, Moves
<1>3. /\ Ids' = Ids /\ Len(attempts') = Len(attempts) /\ reservation' = reservation
      /\ \A j \in Ids : attempts'[j] = IF j = i THEN y ELSE attempts[j]
    BY <1>2 DEF Moves, Change, Ids
<1>4. HeldIds' = HeldIds
    BY <1>3 DEF HeldIds, Held
<1>5. ASSUME NEW a \in Agents, a # w \/ y.state # "closed"
      PROVE  SlotOf(a)' = SlotOf(a)
  <2>1. \A j \in Ids : Open(j) /\ attempts[j].worker[2] = a
                      => j \in Ids' /\ Open(j)' /\ attempts'[j].worker[2] = a
      BY <1>1, <1>3, <1>5 DEF Open
  <2>2. \A j \in Ids' : Open(j)' /\ attempts'[j].worker[2] = a
                       => j \in Ids /\ Open(j) /\ attempts[j].worker[2] = a
      BY <1>1, <1>3, <1>5 DEF Open, Moves
  <2> QED
      BY <2>1, <2>2, SlotKept DEF Inv, WorkInv
<1>6. CASE y.state # "closed"
    BY <1>3, <1>4, <1>5, <1>6 DEF CapacityUnchanged, Slots
<1>7. CASE y.state = "closed"
  <2>1. SlotOf(w) = i /\ Open(i) /\ ~Held(i)
      BY <1>1, <1>7, SlotIs DEF Inv, WorkInv, Moves
  <2>2. SlotOf(w)' = 0
    <3>1. ASSUME NEW j \in Ids', attempts'[j].worker[2] = w
          PROVE  ~Open(j)'
      <4>1. CASE j = i
          BY <1>3, <1>7, <4>1 DEF Open
      <4>2. CASE j # i
        <5>1. j \in Ids /\ attempts'[j] = attempts[j] /\ attempts[j].worker[2] = w
            BY <1>3, <3>1, <4>2
        <5>2. ~Open(j)
            BY <1>1, <2>1, <4>2, <5>1 DEF Inv, WorkInv, OneOpenAttempt
        <5> QED
            BY <5>1, <5>2 DEF Open
      <4> QED
          BY <4>1, <4>2
    <3> QED
        BY <3>1, NoSlotIsAfter
  <2>3. Slots' = [Slots EXCEPT ![w] = 0]
      BY <1>5, <2>2 DEF Slots
  <2>4. i # 0
      BY <1>2 DEF Ids
  <2>5. Capacity!Free(w)
      BY <1>3, <1>4, <2>1, <2>3, <2>4 DEF Capacity!Free, Slots, HeldIds
  <2> QED
      BY <2>5 DEF Capacity!Next
<1> QED
    BY <1>6, <1>7

(* A step of aimem changes what is held of one open attempt. *)
LEMMA HeldCapacity ==
    ASSUME Inv, Inv', NEW i \in Ids, Open(i), Ids' = Ids,
           \A j \in Ids :
              /\ attempts'[j].worker = attempts[j].worker
              /\ attempts'[j].state = attempts[j].state
              /\ j # i => reservation'[j] = reservation[j]
    PROVE  Capacity!Next \/ CapacityUnchanged
<1>1. PICK w \in Agents : w = attempts[i].worker[2]
    BY AttemptAt DEF Inv, Attempt, Members
<1>2. attempts \in Seq(Attempt) /\ attempts' \in Seq(Attempt)
    BY DEF Inv, WorkInv, WorkTypeOK
<1>3. Len(attempts') = Len(attempts) /\ i # 0
    BY <1>2 DEF Ids
<1>4. Slots' = Slots
  <2>1. ASSUME NEW a \in Agents
        PROVE  SlotOf(a)' = SlotOf(a)
    <3>1. \A j \in Ids : Open(j) /\ attempts[j].worker[2] = a
                        => j \in Ids' /\ Open(j)' /\ attempts'[j].worker[2] = a
        BY DEF Open
    <3>2. \A j \in Ids' : Open(j)' /\ attempts'[j].worker[2] = a
                         => j \in Ids /\ Open(j) /\ attempts[j].worker[2] = a
        BY DEF Open
    <3> QED
        BY <3>1, <3>2, SlotKept DEF Inv, WorkInv
  <2> QED
      BY <2>1 DEF Slots
<1>5. \A j \in Ids : j # i => (Held(j)' <=> Held(j))
    BY DEF Held
<1>6. SlotOf(w) = i
    BY <1>1, SlotIs DEF Inv, WorkInv
<1>7. CASE Held(i)'
  <2>1. HeldIds' = HeldIds \cup {i}
      BY <1>5, <1>7 DEF HeldIds
  <2>2. Capacity!Reserve(w)
      BY <1>3, <1>4, <1>6, <2>1 DEF Capacity!Reserve, Slots, HeldIds
  <2> QED
      BY <2>2 DEF Capacity!Next
<1>8. CASE ~Held(i)' /\ Held(i)
  <2>1. HeldIds' = HeldIds \ {i}
      BY <1>5, <1>8 DEF HeldIds
  <2>2. Capacity!EndReservation(w)
      BY <1>3, <1>4, <1>6, <1>8, <2>1 DEF Capacity!EndReservation, Slots, HeldIds
  <2> QED
      BY <2>2 DEF Capacity!Next
<1>9. CASE ~Held(i)' /\ ~Held(i)
  <2>1. HeldIds' = HeldIds
      BY <1>5, <1>9 DEF HeldIds
  <2> QED
      BY <1>3, <1>4, <2>1 DEF CapacityUnchanged
<1> QED
    BY <1>7, <1>8, <1>9

(* A step that touches no work leaves the slots alone.                      *)
LEMMA UntouchedCapacity ==
    ASSUME UNCHANGED workVars
    PROVE  CapacityUnchanged
<1>1. attempts' = attempts /\ reservation' = reservation
    BY DEF workVars
<1> QED
    BY <1>1 DEF CapacityUnchanged, Slots, SlotOf, HeldIds, Held, Open, Ids

(* An agent's work keeps to its one execution capacity across all teams:    *)
(* an attempt takes it before aimem reserves the task, and frees it only    *)
(* when aimem holds nothing for it (attempts.go, openWork; applyOutcome).   *)
THEOREM CapacityRefinement == Spec => ImplementsCapacity
<1>1. Init => Capacity!Init
  <2> SUFFICES ASSUME Init PROVE Capacity!Init
      OBVIOUS
  <2>1. attempts = <<>> /\ Ids = {} /\ Len(attempts) = 0
      BY DEF Init, Ids
  <2>2. \A a \in Agents : SlotOf(a) = 0
      BY <2>1, NoSlotIs
  <2> QED
      BY <2>1, <2>2 DEF Capacity!Init
<1>2. ASSUME Inv, Inv', [Next]_vars
      PROVE  Capacity!Next \/ CapacityUnchanged
  <2>1. CASE Next
    <3>1. CASE SessionSteps
        BY <1>2, <3>1, SessionStepsInv, UntouchedCapacity
    <3>2. ASSUME NEW x, Records(x)
          PROVE  Capacity!Next
        BY <1>2, <3>2, TakesCapacity
    <3>3. ASSUME NEW i \in Ids, NEW y, Moves(i, y)
          PROVE  Capacity!Next \/ CapacityUnchanged
        BY <1>2, <3>3, MovesCapacity
    <3>4. ASSUME NEW i \in Ids, Commits(i)
          PROVE  Capacity!Next \/ CapacityUnchanged
        BY <1>2, <3>4, CommitsInv, HeldCapacity
    <3>5. ASSUME NEW i \in Ids, Recovered(i)
          PROVE  Capacity!Next \/ CapacityUnchanged
      <4>1. /\ Open(i) /\ attempts' = attempts /\ Ids' = Ids
            /\ \A j \in Ids : j # i => reservation'[j] = reservation[j]
          BY <1>2, <3>5, RecoveredInv DEF Recovered, Ids, Inv, WorkInv, WorkTypeOK
      <4> QED
          BY <1>2, <4>1, HeldCapacity
    <3> QED
        BY <1>2, <2>1, <3>1, <3>2, <3>3, <3>4, <3>5, WorkStep
  <2>2. CASE UNCHANGED vars
      BY <2>2, UntouchedCapacity DEF vars, workVars
  <2> QED
      BY <1>2, <2>1, <2>2
<1>3. Inv /\ Inv' /\ [Next]_vars => [Capacity!Next]_Capacity!vars
    BY <1>2 DEF Capacity!vars, CapacityUnchanged, Slots, HeldIds
<1>4. Spec => []Inv
    BY WorkInvariance DEF Inv
<1> QED
    BY <1>1, <1>3, <1>4, PTL DEF Spec, ImplementsCapacity, Capacity!Spec
=============================================================================
