-------------------------------- MODULE MCApi --------------------------------
(* Two size classes, of which one does not fill its superblocks. *)
EXTENDS Api, TLC

OneAndThree == <<1, 3>>
Arrays == {<<2, 1>>, <<1, 4>>}
\* After a copy ran over its block, or a size did not fit its descriptor, no
\* property promises anything: such states are not explored any further.
Promised == intact

Symmetry == Permutations(Threads)
=============================================================================
