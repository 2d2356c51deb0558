------------------------------ MODULE MCRegion ------------------------------
(* Small instances of Region: pages of 4 units, superblocks of 8. *)
EXTENDS Region, TLC

\* Expansion for superblocks (aligned to a superblock at first, to a page
\* later) and for a large block, and an odd one of the metadata region.
SbRequests == {[align |-> 8, size |-> 8], [align |-> 4, size |-> 8],
               [align |-> 2, size |-> 3]}

\* The first expansion of the sb region, aligned to a superblock.
FirstSb == [align |-> 8, size |-> 8]

Symmetry == Permutations(Threads)
=============================================================================
