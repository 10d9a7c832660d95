--------------------------- MODULE MCRenderQueue ----------------------------
(* Constants for TLC. *)
EXTENDS RenderQueue, TLC

Symmetry == Permutations(Videos) \cup Permutations(Users) \cup Permutations(Runners)
             \cup Permutations(Zombies)
AllFaults == FaultKind
=============================================================================
