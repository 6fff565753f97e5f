---------------------------- MODULE MCPullWatch ----------------------------
(* A small instance of BaseUpdate, and of PullWatch in it. *)
EXTENDS BaseUpdate
=============================================================================
