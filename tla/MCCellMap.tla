----------------------------- MODULE MCCellMap -----------------------------
(* An instance of module CellMap for TLC. *)
EXTENDS CellMap, TLC

(* Addresses are interchangeable. *)
Symmetry == Permutations(Addresses)
=============================================================================
