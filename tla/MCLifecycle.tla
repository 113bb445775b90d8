---------------------------- MODULE MCLifecycle ----------------------------
(* A Connection with one command of its user for TLC. *)
EXTENDS Lifecycle

CONSTANT c1

=============================================================================
