----------------------------- MODULE MCGenEvent -----------------------------
(* Instances of GenEvent for TLC. *)
EXTENDS GenEvent, TLC

CONSTANTS h1, h2, h3

Alike == Permutations(Handlers)

=============================================================================
