------------------------------- MODULE MCHeap -------------------------------
(* Small instances of Heap: superblocks of four or six words. *)
EXTENDS Heap

\* Blocks of two words; and, beside them, blocks of three words.
OneClass == <<2>>
TwoClasses == <<2, 3>>

Symmetry == Permutations(Threads)
=============================================================================
