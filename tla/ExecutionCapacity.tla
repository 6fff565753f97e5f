-------------------------- MODULE ExecutionCapacity --------------------------
(***************************************************************************)
(* What aicrew promises about an agent's execution capacity                *)
(* (docs/CREW-CONTRACT.md, Execution capacity): every agent has exactly    *)
(* one, across all its teams.  An attempt takes it before aimem reserves   *)
(* the task, and frees it only when aimem holds nothing for the attempt    *)
(* any more.                                                               *)
(***************************************************************************)
EXTENDS Naturals

CONSTANTS Workers, MaxAttempts

VARIABLES slot,  \* per worker: the attempt that takes its capacity, or 0
          held,  \* attempts aimem keeps a reservation for
          taken  \* attempts begun so far

vars == <<slot, held, taken>>

Init == slot = [w \in Workers |-> 0] /\ held = {} /\ taken = 0

Take(w) ==
    /\ slot[w] = 0
    /\ taken < MaxAttempts
    /\ taken' = taken + 1
    /\ slot' = [slot EXCEPT ![w] = taken + 1]
    /\ UNCHANGED held

Reserve(w) ==
    /\ slot[w] # 0
    /\ held' = held \cup {slot[w]}
    /\ UNCHANGED <<slot, taken>>

EndReservation(w) ==
    /\ slot[w] \in held
    /\ held' = held \ {slot[w]}
    /\ UNCHANGED <<slot, taken>>

Free(w) ==
    /\ slot[w] # 0
    /\ slot[w] \notin held
    /\ slot' = [slot EXCEPT ![w] = 0]
    /\ UNCHANGED <<held, taken>>

Next == \E w \in Workers : Take(w) \/ Reserve(w) \/ EndReservation(w) \/ Free(w)

Spec == Init /\ [][Next]_vars
=============================================================================
