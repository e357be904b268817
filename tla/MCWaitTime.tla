------------------------------ MODULE MCWaitTime ------------------------------
(***************************************************************************)
(* An instance of WaitTime for TLC: a millisecond of 3 units and a LowPart *)
(* of 16 values, so that delays of 1 to 5 are expressible, 0 and 6 are not.*)
(***************************************************************************)
EXTENDS WaitTime
=============================================================================
