----------------------------- MODULE EventQueue -----------------------------
(***************************************************************************)
(* What a state machine promises about its events (SPEC.md 5.3, 5.4, 5.6): *)
(* they form one queue, in the order in which they came, and each is dealt *)
(* with once.  A callback may leave its event where it is; the machine then*)
(* goes on with the events behind it, and comes back to it as soon as the  *)
(* state changes.  An event that a callback injects goes before those that *)
(* the machine has not seen yet.                                           *)
(***************************************************************************)
EXTENDS Naturals, Sequences, SequencesExt

CONSTANT Events

VARIABLES queue,   \* the events that are not dealt with
          tried,   \* how many at its front were left there in this state
          fresh,   \* how many at its end the machine has never looked at
          busy,    \* the event after those tried is with a callback
          over     \* the machine has ended

vars == <<queue, tried, fresh, busy, over>>

Init == queue = <<>> /\ tried = 0 /\ fresh = 0 /\ busy = FALSE /\ over = FALSE

Seen == Len(queue) - fresh
With(e) == InsertAt(queue, Seen + 1, e)

Arrive(e) ==
    /\ ~over
    /\ queue' = Append(queue, e)
    /\ fresh' = fresh + 1
    /\ UNCHANGED <<tried, busy, over>>

Take ==
    /\ ~over /\ ~busy /\ tried < Len(queue)
    /\ busy' = TRUE
    /\ fresh' = IF tried = Seen THEN fresh - 1 ELSE fresh
    /\ UNCHANGED <<queue, tried, over>>

(* The callback returns; it may leave its event, inject one and change state. *)
Return ==
    /\ busy /\ ~over
    /\ \E leave, change \in BOOLEAN, new \in {<<>>} \cup {<<e>> : e \in Events} :
         /\ queue' = LET with == IF new = <<>> THEN queue ELSE With(new[1])
                     IN  IF leave THEN with ELSE RemoveAt(with, tried + 1)
         /\ tried' = IF change THEN 0 ELSE IF leave THEN tried + 1 ELSE tried
    /\ busy' = FALSE
    /\ UNCHANGED <<fresh, over>>

(* init and the callback that enters a state inject events as well. *)
Inject(e) ==
    /\ ~busy /\ ~over
    /\ queue' = With(e)
    /\ UNCHANGED <<tried, fresh, busy, over>>

(* The machine ends; what is left will not be dealt with. *)
End ==
    /\ ~over
    /\ over' = TRUE
    /\ queue' = <<>> /\ tried' = 0 /\ fresh' = 0 /\ busy' = FALSE

Next == Take \/ Return \/ End \/ \E e \in Events : Arrive(e) \/ Inject(e)

Spec == Init /\ [][Next]_vars

=============================================================================
