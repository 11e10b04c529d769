--------------------------- MODULE MCMkcpListener ---------------------------
(* Small instances of MkcpListener for TLC. *)
EXTENDS MkcpListener
=============================================================================
