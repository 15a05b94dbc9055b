---------------------------- MODULE MCWalletAudit ----------------------------
(***************************************************************************)
(* Instances of WalletAudit for TLC.                                       *)
(***************************************************************************)
EXTENDS WalletAudit, TLC

\* Threads and deposits are interchangeable.
Symmetry == Permutations(Admins) \cup Permutations(Deposits)
=============================================================================
