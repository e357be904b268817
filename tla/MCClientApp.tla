----------------------------- MODULE MCClientApp -----------------------------
(***************************************************************************)
(* Instances of ClientApp for TLC: two processes may meet and a third one  *)
(* finds what they left.                                                   *)
(***************************************************************************)
EXTENDS ClientApp

CONSTANTS a1, a2, a3

TwoApps == {a1, a2}
ThreeApps == {a1, a2, a3}
=============================================================================
