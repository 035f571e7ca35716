-------------------------- MODULE MCFxUploadQueue ---------------------------
(***************************************************************************)
(* Instances of FxUploadQueue for TLC.                                     *)
(***************************************************************************)
EXTENDS FxUploadQueue

CONSTANTS f1, f2
TwoFiles == {f1, f2}
=============================================================================
