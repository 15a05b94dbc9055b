----------------------------- MODULE MCSwapEngine -----------------------------
(***************************************************************************)
(* Instances of SwapEngine for TLC.                                        *)
(***************************************************************************)
EXTENDS SwapEngine, TLC

CONSTANTS s1, s2, main, master, worker

\* Ids are interchangeable: every swap of an instance pays the same coin.
Symmetry == Permutations(Swaps)

OneCoin == [s \in Swaps |-> "OXG"]
OneAmount == {1}
TwoAmounts == {1, 2}
NoStatuses == {}
SomeTargets == {"pending", "delayed", "cancelled", "failed"}
OnlyCancel == {"cancelled"}
NoFaults == {}
ThreadOnly == {"loop"}
BothSweepers == {"loop", "admin"}
=============================================================================
