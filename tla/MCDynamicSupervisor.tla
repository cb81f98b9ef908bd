------------------------ MODULE MCDynamicSupervisor ------------------------
(* Instances of DynamicSupervisor for TLC. *)
EXTENDS DynamicSupervisor, TLC

CONSTANTS a, b, c1

OneSeed == <<a>>

Kinds(x, y) == [i \in Ids |-> IF i = a THEN x ELSE y]
Transient == Kinds("transient", "transient")
Timeouts  == Kinds("timeout", "timeout")

=============================================================================
