--------------------------- MODULE VideoLifecycle ---------------------------
(***************************************************************************)
(* What the rest of the system promises of one video: its status only ever *)
(* moves along an edge of the canonical machine.  Status changes are        *)
(* spread over a dozen unconditional UPDATE statements (UpdateVideoStatus   *)
(* has no WHERE on the old status), so this is a claim about the handlers   *)
(* and their interleavings, not about the database.                         *)
(***************************************************************************)
EXTENDS VideoState

VARIABLE status

Init == status \in State

Move(to) ==
    /\ CanTransition(status, to)
    /\ status' = to

Next == \E to \in State : Move(to)

Spec == Init /\ [][Next]_status
=============================================================================
