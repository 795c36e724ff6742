----------------------------- MODULE MCAesdChar -----------------------------
(* What the configurations of AesdChar need beyond sets of model values.   *)
EXTENDS AesdChar

CONSTANTS a, nl

Pieces       == {<<a>>, <<nl>>}
MorePieces   == {<< >>, <<a>>, <<a, nl>>}

Symmetry == Permutations(Blocks) \cup Permutations(Threads)
=============================================================================
