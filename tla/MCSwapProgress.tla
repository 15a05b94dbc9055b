---------------------------- MODULE MCSwapProgress ----------------------------
(***************************************************************************)
(* Instances of SwapProgress for TLC.                                      *)
(***************************************************************************)
EXTENDS SwapProgress

CONSTANTS s1, s2, main, master, worker

OneCoin == [s \in Swaps |-> "OXG"]
OneAmount == {1}
TwoAmounts == {1, 2}
NoStatuses == {}
NoFaults == {}
ThreadOnly == {"loop"}
=============================================================================
