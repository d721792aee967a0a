---------------------------- MODULE MCHardLinks -----------------------------
(***************************************************************************)
(* Which file is which, and what blocks hold, makes no difference.         *)
(***************************************************************************)
EXTENDS HardLinks, TLC

FileSymmetry == Permutations(Names) \cup Permutations(Blocks) \cup Permutations(Tails)

(***************************************************************************)
(* Two failures or kills, one and a file written to, or just that.         *)
(***************************************************************************)
TwoDisturbances == faults + Cardinality(written) <= 2
=============================================================================
