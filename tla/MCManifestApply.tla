--------------------------- MODULE MCManifestApply ---------------------------
(* Two appliers; a metadata file and a Plan file as targets.                *)
EXTENDS ManifestApply, TLC

CONSTANTS a1, a2, plan, meta, old, new1, new2, user

MCNew == (a1 :> new1) @@ (a2 :> new2)
OneApplier == a1 :> new1
BothFiles == {<<plan, meta>>}
EitherFirst == {<<plan, meta>>, <<meta>>}
NoEdits == {}
SomeEdits == {<<plan, user>>, <<meta, user>>, <<meta, Absent>>}
=============================================================================
