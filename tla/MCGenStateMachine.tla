------------------------- MODULE MCGenStateMachine -------------------------
(* Instances of GenStateMachine for TLC. *)
EXTENDS GenStateMachine

=============================================================================
