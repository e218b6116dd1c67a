---------------------------- MODULE MCEventLoop ----------------------------
(* Instances of module EventLoop for TLC. *)
EXTENDS EventLoop, TLC

(* The workers are interchangeable. *)
Symmetry == Permutations(Workers)
=============================================================================
