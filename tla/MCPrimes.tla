------------------------------ MODULE MCPrimes ------------------------------
(* Instances of module Primes for TLC. *)
EXTENDS Primes

TwoBatches   == <<1, 2>>
=============================================================================
