-------------------------- MODULE MCGlobalHandles --------------------------
(* Model checking of GlobalHandles. *)
EXTENDS GlobalHandles, TLC

Symmetry == Permutations(Blocks)
=============================================================================
