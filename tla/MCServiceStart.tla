---------------------------- MODULE MCServiceStart ---------------------------
(***************************************************************************)
(* Instances of ServiceStart for TLC.                                      *)
(***************************************************************************)
EXTENDS ServiceStart, TLC

Symmetry == Permutations(Runners \ Containers)
=============================================================================
