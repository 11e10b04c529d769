-------------------------- MODULE MCHealthChecker --------------------------
(* A small instance of HealthChecker for TLC. *)
EXTENDS HealthChecker
=============================================================================
