---------------------------- MODULE CallContract ----------------------------
(***************************************************************************)
(* What GenServer.call promises to whoever awaits it, in terms of the      *)
(* calls alone: a call that was accepted ends exactly once, with an answer *)
(* given to that very call while it was awaited, or with an error of its   *)
(* own; and it does end.  GenServer implements this specification.         *)
(***************************************************************************)
CONSTANTS Calls, Answers

VARIABLES status,   \* of each call: "new", "open", "answered", "failed"
          offered,  \* the answers given to a call while it was open
          answer    \* the answer each call returned, as a set of at most one

vars == <<status, offered, answer>>

Init == /\ status = [c \in Calls |-> "new"]
        /\ offered = [c \in Calls |-> {}]
        /\ answer = [c \in Calls |-> {}]

Begin(c) == /\ status[c] = "new"
            /\ status' = [status EXCEPT ![c] = "open"]
            /\ UNCHANGED <<offered, answer>>

Offer(c, a) == /\ status[c] = "open"
               /\ offered' = [offered EXCEPT ![c] = @ \cup {a}]
               /\ UNCHANGED <<status, answer>>

Return(c, a) == /\ status[c] = "open" /\ a \in offered[c]
                /\ status' = [status EXCEPT ![c] = "answered"]
                /\ answer' = [answer EXCEPT ![c] = {a}]
                /\ UNCHANGED offered

(* noproc, or a full mailbox. *)
Refuse(c) == /\ status[c] = "new"
             /\ status' = [status EXCEPT ![c] = "failed"]
             /\ UNCHANGED <<offered, answer>>

(* A timeout. *)
Fail(c) == /\ status[c] = "open"
           /\ status' = [status EXCEPT ![c] = "failed"]
           /\ UNCHANGED <<offered, answer>>

Next == \E c \in Calls :
            \/ Begin(c) \/ Refuse(c) \/ Fail(c)
            \/ \E a \in Answers : Offer(c, a) \/ Return(c, a)

Ends == \A c \in Calls : WF_vars(Fail(c) \/ \E a \in Answers : Return(c, a))

Safety == Init /\ [][Next]_vars
Spec   == Safety /\ Ends

(* An awaited call does not hang. *)
EveryCallEnds == \A c \in Calls : (status[c] = "open") ~> (status[c] # "open")

=============================================================================
