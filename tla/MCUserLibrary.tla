---------------------------- MODULE MCUserLibrary ----------------------------
(***************************************************************************)
(* An instance of UserLibrary for TLC.                                     *)
(***************************************************************************)
EXTENDS UserLibrary, TLC

CONSTANTS t1, t2, t3

ThreeThreads == {t1, t2, t3}
Symmetric == Permutations(ThreeThreads)
=============================================================================
