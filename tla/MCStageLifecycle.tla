---------------------------- MODULE MCStageLifecycle ----------------------------
(* StageReads, and with it StageLifecycle, on a small instance: enough     *)
(* objects for a parse node, an array of two, and their binding and        *)
(* compilation once others are gone.                                       *)
EXTENDS StageReads, TLC

Symmetry == Permutations(Ids)
=============================================================================
