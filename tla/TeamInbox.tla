------------------------------ MODULE TeamInbox ------------------------------
(***************************************************************************)
(* The inbox of one team (internal/store/messages.go and control.go): one   *)
(* ordered message log, the recipients of a message fixed when it is        *)
(* written, and for each recipient the record of what was delivered to it   *)
(* and what it acknowledged.  There is no client cursor: a read starts at   *)
(* the reader's oldest unacknowledged visible message.                      *)
(*                                                                         *)
(* The member's client is here as far as it reads: the turn its launcher    *)
(* starts when the pending read lists something, and what it holds of the   *)
(* pages it was given.  A client that is resumed elsewhere, or whose reply  *)
(* is lost, holds nothing of them.                                          *)
(***************************************************************************)
EXTENDS Naturals, Sequences, FiniteSets

CONSTANTS
    Agents,        \* the agents that may be members of the team
    Team,          \* the team, as the target of a pause
    PageSize,      \* the messages a read delivers at most
    MaxSent,       \* bound: messages of members and nudges
    MaxStarts,     \* bound: sessions started or resumed
    MaxChanges     \* bound: role changes, and changes of grants and pauses

ASSUME InboxAssumption ==
    /\ Team \notin Agents
    /\ PageSize \in Nat \ {0}
    /\ MaxSent \in Nat /\ MaxStarts \in Nat /\ MaxChanges \in Nat

Roles == {"none", "worker", "coordinator"}

VARIABLES
    role,       \* each agent's role in the team, "none" for no membership
    active,     \* the agents with an active session
    granted,    \* the team holds the grant for the project
    paused,     \* what the operator paused: the team, members
    log,        \* the team's messages, in sequence order
    delivered,  \* per agent, the messages whose delivery is recorded
    acked,      \* per agent, the messages whose acknowledgement is
    turn,       \* the agents in a turn their launcher started
    held,       \* per agent, what its client holds: read, not acknowledged
    sent,       \* messages sent by members and the operator
    starts,     \* sessions started or resumed
    changes     \* role, grant and pause changes

inboxVars == <<role, active, granted, paused, log, delivered, acked, turn, held,
                    sent, starts, changes>>

Members == {a \in Agents : role[a] # "none"}

(* activeCoordinators: by membership, in a session or not.                   *)
Coordinators == {a \in Agents : role[a] = "coordinator"}

InboxInit ==
    /\ role \in [Agents -> {"worker", "coordinator"}]
    /\ Cardinality({a \in Agents : role[a] = "coordinator"}) = 1
    /\ active = {}
    /\ granted = TRUE
    /\ paused = {}
    /\ log = <<>>
    /\ delivered = [a \in Agents |-> {}]
    /\ acked = [a \in Agents |-> {}]
    /\ turn = {}
    /\ held = [a \in Agents |-> {}]
    /\ sent = 0
    /\ starts = 0
    /\ changes = 0

(* A message: its recipients, and whether it is scoped to the project. *)
Message(to, scoped) == [to |-> to, scoped |-> scoped]

-----------------------------------------------------------------------------
(* Reading *)

Visible(i) == log[i].scoped => granted

(* UndeliveredOnly is a read that does not repeat what it delivered once.    *)
UndeliveredOnly(a) ==
    {i \in DOMAIN log : a \in log[i].to /\ i \notin acked[a] \cup delivered[a] /\ Visible(i)}

(* pendingMessages: the agent's unacknowledged messages it may see now.      *)
PendingMessages(a) == {i \in DOMAIN log : a \in log[i].to /\ i \notin acked[a] /\ Visible(i)}

(* Newest is a page that starts at the other end.                            *)
Newest(s, n) == {i \in s : Cardinality({j \in s : j > i}) < n}

(* fitPage and the query's LIMIT: the first n of a set of messages.          *)
Leading(s, n) == {i \in s : Cardinality({j \in s : j < i}) < n}

(* pauseOf: the team's pause, or the member's own.                           *)
PausedFor(a) == Team \in paused \/ a \in paused

(* PendingWithToken, read by the launcher: something waits and no pause      *)
(* holds it back, so the launcher starts a turn.                             *)
StartTurn(a) ==
    /\ a \in active \ turn
    /\ ~PausedFor(a)
    /\ PendingMessages(a) # {}
    /\ turn' = turn \cup {a}
    /\ UNCHANGED <<role, active, granted, paused, log, delivered, acked, held, sent, starts, changes>>

(* A turn ends, whatever it did with what it read.                           *)
EndTurn(a) ==
    /\ a \in turn
    /\ turn' = turn \ {a}
    /\ held' = [held EXCEPT ![a] = {}]
    /\ UNCHANGED <<role, active, granted, paused, log, delivered, acked, sent, starts, changes>>

(* readInbox, in a turn: the leading messages that fit a page, at least one, *)
(* are recorded as delivered.  The reply may be lost.                        *)
ReadInbox(a) ==
    /\ a \in active \cap turn
    /\ \E n \in 1..PageSize :
          LET page == Leading(PendingMessages(a), n)
          IN  /\ delivered' = [delivered EXCEPT ![a] = @ \cup page]
              /\ \E lost \in BOOLEAN :
                    held' = IF lost THEN held ELSE [held EXCEPT ![a] = @ \cup page]
    /\ UNCHANGED <<role, active, granted, paused, log, acked, turn, sent, starts, changes>>

(* ackCommand: every message named was delivered to the caller, or nothing   *)
(* is recorded; one acknowledged before is only reported.  The reply may be  *)
(* lost, and the same messages named again.                                  *)
AckMessages(a, ids) ==
    /\ a \in active \cap turn
    /\ ids # {}
    /\ ids \subseteq delivered[a]
    /\ acked' = [acked EXCEPT ![a] = @ \cup ids]
    /\ \E lost \in BOOLEAN :
          held' = IF lost THEN held ELSE [held EXCEPT ![a] = @ \ ids]
    /\ UNCHANGED <<role, active, granted, paused, log, delivered, turn, sent, starts, changes>>

-----------------------------------------------------------------------------
(* Writing *)

(* memberRecipients: the active member named, or every other one.            *)
MemberRecipients(a, to) ==
    IF to = {} THEN Members \ {a} ELSE (to \cap Members) \ {a}

(* SendMessage, under the sender's current session.  A message scoped to the *)
(* project needs its grant.                                                  *)
SendMessage(a, to, scoped) ==
    LET recipients == MemberRecipients(a, to)
    IN  /\ a \in active
        /\ sent < MaxSent
        /\ recipients # {}
        /\ scoped => granted
        /\ log' = Append(log, Message(recipients, scoped))
        /\ sent' = sent + 1
        /\ UNCHANGED <<role, active, granted, paused, delivered, acked, turn, held, starts, changes>>

(* Nudge: the operator's note to one member, unscoped.                       *)
Nudge(a) ==
    /\ sent < MaxSent
    /\ a \in Members
    /\ log' = Append(log, Message({a}, FALSE))
    /\ sent' = sent + 1
    /\ UNCHANGED <<role, active, granted, paused, delivered, acked, turn, held, starts, changes>>

-----------------------------------------------------------------------------
(* What changes who reads, and what *)

(* SetPause; a pause touches no session and no running turn.                 *)
SetPause(target) ==
    /\ changes < MaxChanges
    /\ target = Team \/ target \in Members
    /\ paused' = IF target \in paused THEN paused \ {target} ELSE paused \cup {target}
    /\ changes' = changes + 1
    /\ UNCHANGED <<role, active, granted, log, delivered, acked, turn, held, sent, starts>>

(* RecordTeamGrants: the hub's latest set replaces the team's.               *)
RecordGrants ==
    /\ changes < MaxChanges
    /\ granted' = ~granted
    /\ changes' = changes + 1
    /\ UNCHANGED <<role, active, paused, log, delivered, acked, turn, held, sent, starts>>

(* AddMember, SetMemberRole and RemoveMember end the member's session        *)
(* (TeamSessions.tla), and with it the client's turn.                        *)
SetRole(a, r) ==
    /\ changes < MaxChanges
    /\ role[a] # r
    /\ role' = [role EXCEPT ![a] = r]
    /\ active' = active \ {a}
    /\ turn' = turn \ {a}
    /\ held' = [held EXCEPT ![a] = {}]
    /\ changes' = changes + 1
    /\ UNCHANGED <<granted, paused, log, delivered, acked, sent, starts>>

(* startSessionTx and resumeSessionTx: a new client, with nothing in hand.   *)
NewSession(a) ==
    /\ starts < MaxStarts
    /\ a \in Members
    /\ \/ a \in active
       \/ role[a] = "coordinator" => active \cap Coordinators = {}
    /\ active' = active \cup {a}
    /\ turn' = turn \ {a}
    /\ held' = [held EXCEPT ![a] = {}]
    /\ starts' = starts + 1
    /\ UNCHANGED <<role, granted, paused, log, delivered, acked, sent, changes>>

InboxNext ==
    \/ \E a \in Agents :
          \/ StartTurn(a) \/ EndTurn(a) \/ ReadInbox(a) \/ Nudge(a) \/ NewSession(a)
          \/ \E ids \in SUBSET delivered[a] : AckMessages(a, ids)
          \/ \E to \in SUBSET Agents, scoped \in BOOLEAN :
                Cardinality(to) <= 1 /\ SendMessage(a, to, scoped)
          \/ \E r \in Roles : SetRole(a, r)
    \/ \E target \in Agents \cup {Team} : SetPause(target)
    \/ RecordGrants

(* The launcher polls, and a turn reads until the inbox is empty and         *)
(* acknowledges what it holds, as clients are told to: a turn may end before *)
(* it did, and a reply may be lost, but not every time.                      *)
InboxFairness ==
    \A a \in Agents :
        /\ WF_inboxVars(StartTurn(a))
        /\ SF_inboxVars(ReadInbox(a) /\ held'[a] # held[a])
        /\ SF_inboxVars(AckMessages(a, held[a]) /\ held'[a] = {})

InboxSpec == InboxInit /\ [][InboxNext]_inboxVars

InboxFairSpec == InboxSpec /\ InboxFairness

-----------------------------------------------------------------------------
(* A message is in the end acknowledged by each of its recipients, as long   *)
(* as that member is in a session, nothing is paused for it and the team may *)
(* see the message: no lost reply, no turn that ended early, no resumed      *)
(* client and no role, grant or pause that went and came back loses one      *)
(* (readInbox, ackCommand).                                                  *)
Unread(a, i) ==
    /\ i \in DOMAIN log
    /\ a \in log[i].to
    /\ i \notin acked[a]
    /\ a \in active /\ ~PausedFor(a) /\ Visible(i)

MessagesAreRead == \A a \in Agents, i \in 1..MaxSent : Unread(a, i) ~> ~Unread(a, i)

(* A member is first given the messages to it in their order, whatever it    *)
(* acknowledged between two pages: one is passed over only while its project *)
(* is none of the team's (pendingMessages, fitPage).                         *)
OnlyHiddenIsSkipped ==
    [][\A a \in Agents : \A j \in delivered'[a] \ delivered[a] :
          \A i \in 1..(j - 1) : a \in log[i].to /\ i \notin delivered'[a] => ~Visible(i)]_inboxVars

-----------------------------------------------------------------------------
(* What the proofs rest on: a client holds, and acknowledges, only what was  *)
(* delivered to it of the log.                                               *)
InboxTypeOK ==
    /\ role \in [Agents -> Roles]
    /\ active \subseteq Agents /\ turn \subseteq Agents
    /\ granted \in BOOLEAN
    /\ paused \subseteq Agents \cup {Team}
    /\ log \in Seq([to : SUBSET Agents, scoped : BOOLEAN])
    /\ {delivered, acked, held} \subseteq [Agents -> SUBSET Nat]
    /\ {sent, starts, changes} \subseteq Nat

InboxInv ==
    /\ InboxTypeOK
    /\ \A a \in Agents : /\ delivered[a] \subseteq DOMAIN log
                         /\ acked[a] \cup held[a] \subseteq delivered[a]
=============================================================================
