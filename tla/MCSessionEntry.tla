--------------------------- MODULE MCSessionEntry ---------------------------
(* A launcher of a home, and `session leave` in the same home. *)
EXTENDS SessionEntry

CONSTANTS run, leave
=============================================================================
