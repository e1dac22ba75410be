--------------------------- MODULE MCVarientTree ---------------------------
(* Trees of Varients for TLC *)
EXTENDS VarientTree, TLC

Interchangeable == Permutations(Root) \cup Permutations(Obj)
=============================================================================
