------------------------------ MODULE MCMerge ------------------------------
(* Model-checking instance of Merge: two parents of up to two batches.     *)
EXTENDS Merge, TLC

CONSTANTS p1, p2

MCParents == {p1, p2}

Symmetry == Permutations(MCParents)
=============================================================================
