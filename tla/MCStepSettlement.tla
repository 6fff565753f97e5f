-------------------------- MODULE MCStepSettlement --------------------------
(***************************************************************************)
(* Small instances of StepSettlement for TLC.                              *)
(***************************************************************************)
EXTENDS StepSettlement
=============================================================================
