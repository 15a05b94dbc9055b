---------------------------- MODULE MCPriceOracle ----------------------------
(***************************************************************************)
(* Instances of PriceOracle for TLC.                                       *)
(***************************************************************************)
EXTENDS PriceOracle, TLC

Symmetry == Permutations(Threads)
=============================================================================
