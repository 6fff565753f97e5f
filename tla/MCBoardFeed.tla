----------------------------- MODULE MCBoardFeed -----------------------------
(***************************************************************************)
(* A small instance of BoardFeed: one coordinator and one worker, who may   *)
(* change places, and two tasks.                                            *)
(***************************************************************************)
EXTENDS BoardFeed

CONSTANTS a1, a2, x, y

=============================================================================
