---------------------------- MODULE MCViewNames ----------------------------
(* Four objects: a view, its copy, the place they are moved to and the one *)
(* that takes the memory of a destroyed one.                               *)
EXTENDS ViewNames, TLC

MCSymmetry == Permutations(Objects) \cup Permutations(Blocks)

=============================================================================
