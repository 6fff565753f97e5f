----------------------------- MODULE MCTeamInbox -----------------------------
(***************************************************************************)
(* A small instance of TeamInbox: a team of two.                            *)
(***************************************************************************)
EXTENDS TeamInbox

CONSTANTS a1, a2, t1
=============================================================================
