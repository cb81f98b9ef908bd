---------------------------- MODULE MCSupervisor ----------------------------
(* Instances of Supervisor for TLC. *)
EXTENDS Supervisor, TLC

CONSTANTS a, b, c1

OneSeed == <<a>>

Kinds(x, y) == [i \in Ids |-> IF i = a THEN x ELSE y]

EachKind  == Kinds("permanent", "transient")
EachShutdown == Kinds("timeout", "brutal_kill")

=============================================================================
