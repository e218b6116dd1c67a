----------------------------- MODULE MCGCPause -----------------------------
(* Instances of module GCPause for TLC. *)
EXTENDS GCPause, TLC

(* Threads are interchangeable when all of them may run out of memory. *)
Symmetry == Permutations(Threads)
=============================================================================
