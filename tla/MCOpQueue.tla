----------------------------- MODULE MCOpQueue ------------------------------
(***************************************************************************)
(* An instance of OpQueue for TLC.                                         *)
(***************************************************************************)
EXTENDS OpQueue

CONSTANTS l1, l2

TwoLoops == {l1, l2}
=============================================================================
