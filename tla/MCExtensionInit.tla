---------------------------- MODULE MCExtensionInit ----------------------------
(* ExtensionInit on a small instance: three stages, so that a duplicate    *)
(* need not be a neighbour and an initialization can fail in the middle.   *)
EXTENDS ExtensionInit
=============================================================================
