---------------------------- MODULE MCTransformExec ----------------------------
(* TransformExec on a small instance.  At most two buffers of the upstream *)
(* (a row and its metadata) and one of the stage exist at a time, so one   *)
(* more of the stage shows any leak.  No symmetry: the run checks liveness. *)
EXTENDS TransformExec
=============================================================================
