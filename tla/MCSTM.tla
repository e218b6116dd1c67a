------------------------------- MODULE MCSTM -------------------------------
(* Instances of module STM for TLC. *)
EXTENDS STM, TLC

(* Threads are interchangeable, and so are objects, in the safety runs. *)
Symmetry == Permutations(Threads) \cup Permutations(Objects)
=============================================================================
