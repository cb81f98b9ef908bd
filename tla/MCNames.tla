------------------------------ MODULE MCNames ------------------------------
(* Instances of Names for TLC. *)
EXTENDS Names, TLC

CONSTANTS a, b, c, m, n, u, d, k, l

MCSymmetry == Permutations(Procs) \cup Permutations(Names) \cup Permutations(Keys)

=============================================================================
