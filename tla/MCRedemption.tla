---------------------------- MODULE MCRedemption ----------------------------
(* Small instances of Redemption: two homes that hold one code. *)
EXTENDS Redemption

CONSTANTS h1, h2
=============================================================================
