---------------------------- MODULE StepOutcome ----------------------------
(***************************************************************************)
(* What aicrew promises about one coordinated step.                        *)
(*                                                                         *)
(* A step is one mutation of a reservation.  aimem owns the reservation,   *)
(* commits the mutation at most once and keeps its receipt; aicrew only    *)
(* records, later and from what it can read, whether the step committed.   *)
(* The promise is that the record is right when it is made and stays right *)
(* for ever: a step recorded as not committed can no longer commit.        *)
(***************************************************************************)
VARIABLES outcome,    \* aicrew's record of the step
          committed   \* whether aimem has committed the step

vars == <<outcome, committed>>

Outcomes == {"pending", "committed", "not_committed"}

Init == /\ outcome = "pending"
        /\ committed = FALSE

(* aimem commits the step, while aicrew still waits for its outcome. *)
Commit == /\ outcome = "pending"
          /\ ~committed
          /\ committed' = TRUE
          /\ UNCHANGED outcome

(* aicrew records what is true. *)
Settle == /\ outcome = "pending"
          /\ outcome' = IF committed THEN "committed" ELSE "not_committed"
          /\ UNCHANGED committed

Next == Commit \/ Settle

Spec == Init /\ [][Next]_vars

(* The record is made in the end, and then it stands. *)
FairSpec == Spec /\ WF_vars(Settle)
=============================================================================
