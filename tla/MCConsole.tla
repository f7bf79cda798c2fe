----------------------------- MODULE MCConsole -----------------------------
(* Instances of Console for TLC. *)
EXTENDS Console

CONSTANTS p, q
=============================================================================
