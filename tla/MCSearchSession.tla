--------------------------- MODULE MCSearchSession ---------------------------
(***************************************************************************)
(* Instances of SearchSession for TLC.                                     *)
(***************************************************************************)
EXTENDS SearchSession, TLC

CONSTANTS c1, c2, served, unserved

TwoCalls == {c1, c2}
CallSymmetry == Permutations(Calls)
=============================================================================
