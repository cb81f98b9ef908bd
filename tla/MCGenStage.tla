----------------------------- MODULE MCGenStage -----------------------------
(* Instances of GenStage for TLC. *)
EXTENDS GenStage

CONSTANTS p, m, c, d, s1, s2, s3

(* Two consumers of one producer. *)
FanUp   == [s \in Subs |-> p]
FanDown == [s \in Subs |-> IF s = s1 THEN c ELSE d]

(* The producer has a consumer and a stage in the middle. *)
TreeUp   == [s \in Subs |-> IF s = s2 THEN m ELSE p]
TreeDown == [s \in Subs |-> CASE s = s1 -> m [] s = s2 -> c [] OTHER -> d]

TwoThenOne == [s \in Subs |-> IF s = s1 THEN 2 ELSE 1]
Zero       == [s \in Subs |-> 0]
Partitions == [s \in Subs |-> IF s = s1 THEN 0 ELSE 1]
TreePartitions == [s \in Subs |-> IF s = s3 THEN 1 ELSE 0]
EvenOdd    == [e \in Events |-> e % 2]

=============================================================================
