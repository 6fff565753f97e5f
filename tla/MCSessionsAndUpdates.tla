------------------------ MODULE MCSessionsAndUpdates ------------------------
(***************************************************************************)
(* Small instances of TeamSessions, two agents of two users of which one   *)
(* may rotate its credential, and of UpdateSettlement, the updates that a  *)
(* session begins.  Whose session it is does not matter to the second, so  *)
(* a behaviour is of one of the two, and the other stands still.           *)
(***************************************************************************)
EXTENDS TeamSessions, UpdateSettlement

CONSTANTS t1, a1, a2, c1, c2, d1, u1, u2

VARIABLE part  \* which of the two a behaviour is of

MCUserOf == [c \in Creds |-> IF c = d1 THEN u2 ELSE u1]

BothInit == SessionsInit /\ Init /\ part \in {"sessions", "updates"}

BothNext ==
    \/ part = "sessions" /\ SessionsNext /\ UNCHANGED <<vars, part>>
    \/ part = "updates" /\ Next /\ UNCHANGED <<sessionVars, part>>

(* Where updates stand still nothing of them is due, so Fairness asks        *)
(* nothing there.                                                           *)
BothSpec == BothInit /\ [][BothNext]_<<sessionVars, vars, part>> /\ Fairness
=============================================================================
