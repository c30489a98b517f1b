---------------------------- MODULE MCNorflashApi ----------------------------
(* NorflashApi on small instances; the configurations give the constants.  *)
EXTENDS NorflashApi, TLC

\* The threads that call norflash_api_flush are interchangeable.
FlusherSymmetry == Permutations(Flushers \ {IDLE})
==============================================================================
