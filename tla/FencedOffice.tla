---------------------------- MODULE FencedOffice ----------------------------
(***************************************************************************)
(* What a team promises about its coordinator: an office with one holder   *)
(* at a time and a term that names the holder.  Every appointment, renewal *)
(* and resignation opens a new term, so a holder that knows its term can   *)
(* be told from every earlier and later one (docs/CREW-CONTRACT.md, Roles). *)
(***************************************************************************)
EXTENDS Naturals

CONSTANTS Holders, NoHolder

VARIABLES term, holder

Init == term = 0 /\ holder = NoHolder

NewTerm == term' = term + 1

Appoint ==
    /\ holder = NoHolder
    /\ holder' \in Holders
    /\ NewTerm

Renew ==
    /\ holder # NoHolder
    /\ holder' = holder
    /\ NewTerm

Resign ==
    /\ holder # NoHolder
    /\ holder' = NoHolder
    /\ NewTerm

Next == Appoint \/ Renew \/ Resign

Spec == Init /\ [][Next]_<<term, holder>>
=============================================================================
