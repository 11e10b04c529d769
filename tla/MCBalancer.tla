----------------------------- MODULE MCBalancer -----------------------------
(* Small instances of Balancer for TLC. *)
EXTENDS Balancer, TLC

Symmetry == Permutations(Callers)
=============================================================================
