---------------------------- MODULE MCSourceExec ----------------------------
(* SourceExec on a small instance: enough buffers for every one that can   *)
(* be lost (one of the upstream, one per row of the stage) and for a       *)
(* result in the host's hands.                                             *)
EXTENDS SourceExec, TLC

Symmetry == Permutations(UpBufs) \cup Permutations(OwnBufs)
=============================================================================
