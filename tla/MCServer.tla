------------------------------ MODULE MCServer ------------------------------
(* Symmetry of the cells of Server, for the runs without liveness.         *)
EXTENDS Server, TLC

Symmetry == Permutations(Cells)
=============================================================================
