---------------------------- MODULE MCVectorSearch ----------------------------
(* VectorSearch on a small instance: a third endpoint tells "the next" from *)
(* "the last" one, and the clock outlasts the timeouts of two requests.    *)
EXTENDS VectorSearch
=============================================================================
