--------------------------- MODULE MCHeapMarking ---------------------------
(* Instances of module HeapMarking for TLC. *)
EXTENDS HeapMarking, TLC

Symmetry == Permutations(Objects)
=============================================================================
