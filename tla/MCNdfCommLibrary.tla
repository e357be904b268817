--------------------------- MODULE MCNdfCommLibrary ---------------------------
\* NdfCommLibrary on a few file objects.
EXTENDS NdfCommLibrary, TLC

CONSTANTS f1, f2, f3

ThreeFiles == {f1, f2, f3}
Symmetric == Permutations(Files)
=============================================================================
