----------------------------- MODULE MCDescList -----------------------------
(* Small instances of DescList. *)
EXTENDS DescList, TLC

Symmetry == Permutations(Threads) \cup Permutations(Descs)
=============================================================================
