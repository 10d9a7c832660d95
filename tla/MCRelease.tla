----------------------------- MODULE MCRelease ------------------------------
(* Constants for TLC. *)
EXTENDS Release, TLC

Symmetry == Permutations(Users)
AllFaults == FaultKind
=============================================================================
