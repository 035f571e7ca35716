----------------------------- MODULE MCLivePatch -----------------------------
(***************************************************************************)
(* Instances of LivePatch for TLC: two patches for one section, one that   *)
(* switches it off and one that switches it on, and one for another.       *)
(***************************************************************************)
EXTENDS LivePatch

CONSTANTS f1, f2, p1, p2, p3

TwoFeatures == {f1, f2}
ThreePatches == {p1, p2, p3}
FeatureOf == (p1 :> f1) @@ (p2 :> f1) @@ (p3 :> f2)
ValueOf == (p1 :> "off") @@ (p2 :> "on") @@ (p3 :> "off")
=============================================================================
