---------------------------- MODULE MCGenServer ----------------------------
(* Instances of GenServer for TLC. *)
EXTENDS GenServer

CONSTANTS r1, r2

=============================================================================
