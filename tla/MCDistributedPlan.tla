-------------------------- MODULE MCDistributedPlan --------------------------
(* DistributedPlan on a small instance: enough stages for a bound stage, a *)
(* merger with one suffix stage and a shard component, and one spare for a *)
(* clone or for planning again.                                            *)
EXTENDS DistributedPlan, TLC

Symmetry == Permutations(Stages) \cup Permutations(Plans)
=============================================================================
