------------------------- MODULE MCUpdateSettlement -------------------------
(***************************************************************************)
(* Small instances of UpdateSettlement for TLC.                            *)
(***************************************************************************)
EXTENDS UpdateSettlement
=============================================================================
