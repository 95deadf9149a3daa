---------------------------- MODULE PrdContract ----------------------------
(***************************************************************************)
(* What the rest of the system may assume of the life of one PRD:          *)
(*   - it is open (in progress, held or dropped) or completed, and each    *)
(*     completion begins a new cycle that only a reopening ends;           *)
(*   - it may be put in the trash and taken out of it again at any time,   *)
(*     without changing whether it is completed;                           *)
(*   - it is deleted for good only from the trash, and then stays gone.    *)
(* A completion or a reopening that was admitted before the PRD went to    *)
(* the trash may still happen there.                                       *)
(***************************************************************************)
EXTENDS Integers

VARIABLES phase,    (* "open", "completed" or "gone"                       *)
          trashed,  (* is it in the trash?                                 *)
          cycle     (* how often it was completed                          *)

vars == <<phase, trashed, cycle>>

Init == phase = "open" /\ trashed = FALSE /\ cycle = 0

Complete ==
    /\ phase = "open"
    /\ phase' = "completed"
    /\ cycle' = cycle + 1
    /\ UNCHANGED trashed

Reopen ==
    /\ phase = "completed"
    /\ phase' = "open"
    /\ UNCHANGED <<trashed, cycle>>

Trash ==
    /\ phase # "gone"
    /\ ~trashed
    /\ trashed' = TRUE
    /\ UNCHANGED <<phase, cycle>>

Restore ==
    /\ phase # "gone"
    /\ trashed
    /\ trashed' = FALSE
    /\ UNCHANGED <<phase, cycle>>

Purge ==
    /\ phase # "gone"
    /\ trashed
    /\ phase' = "gone"
    /\ UNCHANGED <<trashed, cycle>>

Next == Complete \/ Reopen \/ Trash \/ Restore \/ Purge

Spec == Init /\ [][Next]_vars
=============================================================================
