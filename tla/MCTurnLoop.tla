------------------------------ MODULE MCTurnLoop ------------------------------
(***************************************************************************)
(* Small instances of TurnLoop: budgets of a few turns, a stall after two   *)
(* turns, and few enough faults that each can fall between any two steps.   *)
(***************************************************************************)
EXTENDS TurnLoop
=============================================================================
