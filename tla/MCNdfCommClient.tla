--------------------------- MODULE MCNdfCommClient ---------------------------
(***************************************************************************)
(* Instances of NdfCommClient for TLC.                                     *)
(***************************************************************************)
EXTENDS NdfCommClientChannel, NdfCommClientLibrary, TLC

CONSTANTS i1, i2, t1, t2

TwoIrps == {i1, i2}
TwoThreads == {t1, t2}
OneThread == {t1}
OneIrp == {i1}
NoIrp == {}

\* Requests are alike, and so are threads: safety runs only.
Symmetric == Permutations(TwoIrps) \cup Permutations(TwoThreads)
=============================================================================
