------------------------------ MODULE GenEvent ------------------------------
(***************************************************************************)
(* fastactor/otp/gen_event.py: an event manager and its table of handlers. *)
(* The manager handles one request at a time; each callback of a handler   *)
(* is an await, at which clients queue more requests or stop the manager.  *)
(* Events are numbered as the manager begins to dispatch them.             *)
(***************************************************************************)
EXTENDS Integers, Sequences, SequencesExt

CONSTANTS Handlers, None,
          MaxRequests,   \* bound: requests of clients
          Reused         \* whether a swap may bring a handler used before

ASSUME GenEventAssumption ==
    /\ None \notin Handlers
    /\ MaxRequests \in Nat /\ Reused \in BOOLEAN

VARIABLES
    at,         \* the callback the manager is at, or the point in its loop
    who, new,   \* the handler of that callback, and its successor in a swap
    event,      \* the event under dispatch, or 0
    left,       \* the handlers that a loop over list(_handlers) has left
    handlers,   \* _handlers
    queue,      \* the mailbox
    open,       \* it is open; kill() closes it and skips terminate
    polite,     \* terminate() runs, and so on_terminate
    requests,   \* history: requests so far,
    used,       \* the handlers that they and swaps have named as new,
    events,     \* the events so far,
    since,      \* of each handler, the events before its last init,
    seen,       \* those it was given since,
    lives       \* its successful init() less its terminate()

place   == <<at, who, new, event, left, polite>>
mail    == <<queue, open, requests>>
history == <<used, events, since, seen, lives>>
vars    == <<place, mail, handlers, history>>

Request(type, h, g) == [type |-> type, handler |-> h, new |-> g]

Init ==
    /\ at = "idle" /\ who = None /\ new = None
    /\ event = 0 /\ left = <<>> /\ polite = FALSE
    /\ handlers = <<>>
    /\ queue = <<>> /\ open = TRUE /\ requests = 0
    /\ used = {} /\ events = 0
    /\ since = [h \in Handlers |-> 0]
    /\ seen = [h \in Handlers |-> <<>>]
    /\ lives = [h \in Handlers |-> 0]

Installed(h) == Contains(handlers, h)

-----------------------------------------------------------------------------
(* Clients. *)

(* A swap brings an object of its own; add_handler() may repeat itself.      *)
Fresh == IF Reused THEN Handlers ELSE Handlers \ used

Asks ==
    /\ open /\ requests < MaxRequests
    /\ requests' = requests + 1
    /\ \E h, g \in Handlers :
         \/ \E type \in {"delete", "call", "notify", "stop", "shutdown"} :
              queue' = Append(queue, Request(type, h, None)) /\ UNCHANGED used
         \/ queue' = Append(queue, Request("add", None, g)) /\ used' = used \cup {g}
         \/ g \in Fresh /\ queue' = Append(queue, Request("swap", h, g)) /\ used' = used \cup {g}
    /\ UNCHANGED <<open, place, handlers, events, since, seen, lives>>

Kill ==
    /\ open
    /\ open' = FALSE
    /\ UNCHANGED <<queue, requests, place, handlers, history>>

-----------------------------------------------------------------------------
(* The callbacks, and what follows when they have returned.                  *)

Back == IF polite THEN "closing" ELSE IF event # 0 THEN "dispatch" ELSE "idle"
Goes(pc, h, g) == at' = pc /\ who' = h /\ new' = g

(* Mutant: it stays in the table. *)
RemovedNot(h) == handlers
Removed(h) == RemoveFirst(handlers, h)

(* Mutant: the loop goes over _handlers itself, and so loses its place.      *)
LeftBehindLive(h) == IF left = <<>> THEN left ELSE Tail(left)
LeftBehind(h) == left

(* A handler goes: out of the table first, then terminate().                 *)
Drops(h, g) ==
    /\ handlers' = IF Installed(h) THEN Removed(h) ELSE handlers
    /\ left' = LeftBehind(h)
    /\ lives' = [lives EXCEPT ![h] = @ - 1]
    /\ Goes("terminate", h, g)

(* It returned or raised: the successor gets its result or the exception.    *)
Terminated ==
    /\ at = "terminate"
    /\ IF new # None THEN Goes("init", new, None) ELSE Goes(Back, None, None)
    /\ UNCHANGED <<event, left, polite, mail, handlers, history>>

(* Only an init() that does not raise installs the handler.                  *)
Initialised ==
    /\ at = "init"
    /\ Goes(Back, None, None)
    /\ \/ UNCHANGED <<handlers, since, seen, lives>>
       \/ /\ handlers' = Append(handlers, who)
          /\ since' = [since EXCEPT ![who] = events]
          /\ seen' = [seen EXCEPT ![who] = <<>>]
          /\ lives' = [lives EXCEPT ![who] = @ + 1]
    /\ UNCHANGED <<event, left, polite, mail, used, events>>

(* handle_event() or handle_call() returns a result, RemoveHandler or        *)
(* SwapHandler, or raises.                                                   *)
HandlerReturns ==
    /\ at \in {"event", "call"}
    /\ \/ Goes(Back, None, None) /\ UNCHANGED <<handlers, left, lives, used>>
       \/ Drops(who, None) /\ UNCHANGED used
       \/ \E g \in Fresh : Drops(who, g) /\ used' = used \cup {g}
    /\ UNCHANGED <<event, polite, mail, events, since, seen>>

-----------------------------------------------------------------------------
(* The manager takes a request. *)

Takes(type) == at = "idle" /\ queue # <<>> /\ Head(queue).type = type /\ queue' = Tail(queue)
Asked == Head(queue).handler

TakeAdd ==
    /\ Takes("add")
    /\ IF Installed(Head(queue).new) THEN UNCHANGED <<at, who, new>>
                                     ELSE Goes("init", Head(queue).new, None)
    /\ UNCHANGED <<event, left, polite, open, requests, handlers, history>>

TakeDelete ==
    /\ Takes("delete")
    /\ IF Installed(Asked) THEN Drops(Asked, None)
                           ELSE UNCHANGED <<at, who, new, left, handlers, lives>>
    /\ UNCHANGED <<event, polite, open, requests, used, events, since, seen>>

(* Without the old handler the new one is told "error" for its result.       *)
TakeSwap ==
    /\ Takes("swap")
    /\ IF Installed(Asked) THEN Drops(Asked, Head(queue).new)
                           ELSE Goes("init", Head(queue).new, None)
                                /\ UNCHANGED <<left, handlers, lives>>
    /\ UNCHANGED <<event, polite, open, requests, used, events, since, seen>>

TakeCall ==
    /\ Takes("call")
    /\ IF Installed(Asked) THEN Goes("call", Asked, None) ELSE UNCHANGED <<at, who, new>>
    /\ UNCHANGED <<event, left, polite, open, requests, handlers, history>>

(* notify() and sync_notify(): a loop over a copy of the table,              *)
TakeNotify ==
    /\ Takes("notify")
    /\ events' = events + 1
    /\ event' = events + 1
    /\ left' = handlers
    /\ Goes("dispatch", None, None)
    /\ UNCHANGED <<polite, open, requests, handlers, used, since, seen, lives>>

(* which passes over what has gone since.                                    *)
NextHandler ==
    /\ at = "dispatch" /\ left # <<>>
    /\ left' = Tail(left)
    /\ IF Installed(Head(left))
       THEN /\ seen' = [seen EXCEPT ![Head(left)] = Append(@, event)]
            /\ Goes("event", Head(left), None)
       ELSE UNCHANGED <<seen, at, who, new>>
    /\ UNCHANGED <<event, polite, mail, handlers, used, events, since, lives>>

Dispatched ==
    /\ at = "dispatch" /\ left = <<>>
    /\ event' = 0
    /\ Goes("idle", None, None)
    /\ UNCHANGED <<left, polite, mail, handlers, history>>

-----------------------------------------------------------------------------
(* The end.  After kill(), or a "shutdown", terminate() is left out.         *)

Ends(calls) ==
    /\ IF calls THEN Goes("closing", None, None) /\ left' = handlers
                ELSE Goes("ended", None, None) /\ UNCHANGED left
    /\ polite' = calls
    /\ open' = FALSE

TakeStop ==
    /\ Takes("stop") \/ Takes("shutdown")
    /\ Ends(open /\ Head(queue).type = "stop")
    /\ UNCHANGED <<event, requests, handlers, history>>

EndOfStream ==
    /\ at = "idle" /\ queue = <<>> /\ ~open
    /\ Ends(FALSE)
    /\ UNCHANGED <<event, queue, requests, handlers, history>>

(* on_terminate: each handler is terminated, then the table is cleared.      *)
CloseNext ==
    /\ at = "closing" /\ left # <<>>
    /\ left' = Tail(left)
    /\ lives' = [lives EXCEPT ![Head(left)] = @ - 1]
    /\ Goes("terminate", Head(left), None)
    /\ UNCHANGED <<event, polite, mail, handlers, used, events, since, seen>>

Closed ==
    /\ at = "closing" /\ left = <<>>
    /\ handlers' = <<>>
    /\ Goes("ended", None, None)
    /\ UNCHANGED <<event, left, polite, mail, history>>

-----------------------------------------------------------------------------
Step == \/ TakeAdd \/ TakeDelete \/ TakeSwap \/ TakeCall \/ TakeNotify \/ NextHandler \/ Dispatched
        \/ Terminated \/ Initialised \/ HandlerReturns
        \/ TakeStop \/ EndOfStream \/ CloseNext \/ Closed
AllOver == at = "ended" /\ UNCHANGED vars
Next == Asks \/ Kill \/ Step \/ AllOver

Spec == Init /\ [][Next]_vars

-----------------------------------------------------------------------------
(* A handler that is in the table gets every event that is dispatched while  *)
(* it is there, once and in order, whatever goes or comes in the meantime.   *)
Pending(h) == event # 0 /\ Contains(left, h)
EveryEventOnce ==
    \A h \in ToSet(handlers) :
        seen[h] = [n \in 1..(events - since[h] - IF Pending(h) THEN 1 ELSE 0) |-> since[h] + n]

(* A handler lives from its init() to its terminate(): neither is repeated,  *)
(* only a living one gets events and calls, and none is left behind by an    *)
(* end that calls on_terminate.                                              *)
OneLifeAtATime ==
    /\ \A h \in Handlers : lives[h] \in {0, 1}
    /\ at \in {"event", "call"} => lives[who] = 1
    /\ at = "ended" /\ polite => \A h \in Handlers : lives[h] = 0

=============================================================================
