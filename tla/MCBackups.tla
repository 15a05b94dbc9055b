------------------------------ MODULE MCBackups ------------------------------
(***************************************************************************)
(* Instances of Backups for TLC.                                           *)
(***************************************************************************)
EXTENDS Backups, TLC

CONSTANTS r1, r2, t1, t2, w1, oxc

\* Runs do the same steps; tables are alike.
Symmetry == Permutations(Runners) \cup Permutations(Tables)
=============================================================================
