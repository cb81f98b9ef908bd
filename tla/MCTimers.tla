------------------------------ MODULE MCTimers ------------------------------
(* Instances of Timers for TLC: process a owns the timers. *)
EXTENDS Timers

CONSTANTS a, b, x, y, tick

=============================================================================
