------------------------- MODULE MCSupervisorGroup -------------------------
(* Instances of SupervisorGroup for TLC. *)
EXTENDS SupervisorGroup, TLC

CONSTANTS a, b, c, c1

OneSeed    == <<a>>
ThreeSeeds == <<a, b, c>>

Kinds(x, y, z) == [i \in Ids |-> CASE i = a -> x [] i = b -> y [] OTHER -> z]
Permanent == Kinds("permanent", "permanent", "permanent")
EachKind  == Kinds("permanent", "transient", "temporary")
Timeouts  == Kinds("timeout", "timeout", "timeout")
EachShutdown == Kinds("infinity", "brutal_kill", "timeout")

=============================================================================
