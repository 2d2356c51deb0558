----------------------------- MODULE MCRecovery -----------------------------
(* Values for the constants of Recovery: superblocks of two words. *)
EXTENDS Recovery

\* One block of two words; and, beside it, two blocks of one word.
TwoClasses == <<2, 1>>
=============================================================================
