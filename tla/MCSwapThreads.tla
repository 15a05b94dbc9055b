---------------------------- MODULE MCSwapThreads ----------------------------
(***************************************************************************)
(* An instance of SwapThreads for TLC.                                     *)
(***************************************************************************)
EXTENDS SwapThreads

CONSTANTS c1, s1, foreign

OneAmount == {1}
SomeTargets == {"cancelled", "delayed"}
=============================================================================
