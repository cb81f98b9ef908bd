-------------------------- MODULE GenStateMachine --------------------------
(***************************************************************************)
(* fastactor/otp/gen_state_machine.py: one state machine, its callbacks,   *)
(* its timers and the processes that send to it.  The state it is in is    *)
(* known by the number of changes that led to it, and an event by the      *)
(* number it got when the machine accepted or injected it.                 *)
(*                                                                         *)
(* A callback is an await; _process_gsm_event has none after it, so what   *)
(* the callback returns takes effect in one action.                        *)
(***************************************************************************)
EXTENDS Naturals, Sequences, SequencesExt

CONSTANTS EnterMode,    \* "state_enter" is in callback_mode
          MailboxSize,  \* settings.mailbox_size
          MaxEvents,    \* bound: events, timeouts included
          MaxChanges,   \* bound: state changes
          MaxEnters,    \* bound: the states whose entering can be postponed
          MaxTimers,    \* bound: timers
          Watched,      \* whether it is monitored
          Scopes        \* what timers are set for: "state", a name, or
                        \* "plain", for a Timeout without a name

ASSUME GenStateMachineAssumption ==
    /\ EnterMode \in BOOLEAN /\ Watched \subseteq BOOLEAN
    /\ MailboxSize \in Nat \ {0}
    /\ {MaxEvents, MaxChanges, MaxEnters, MaxTimers} \subseteq Nat
    /\ "none" \notin Scopes

Timers  == 1..MaxTimers
NoTimer == 0

Item    == [type: {"event", "enter", "stop"}, num: 0..MaxEvents, timer: 0..MaxTimers]
Enter   == [type |-> "enter", num |-> 0, timer |-> NoTimer]
Stop    == [type |-> "stop", num |-> 0, timer |-> NoTimer]
Event(n, t) == [type |-> "event", num |-> n, timer |-> t]

VARIABLES
    at,           \* what the task of the machine is at
    open,         \* the send end of the mailbox is open
    mailbox, current,
    next,         \* _next_events
    postponed,    \* _postponed
    visit,        \* the state, _gsm_state
    starting,     \* _init_actions are still to be applied
    scope,        \* of each timer, what it was scheduled as
    task,         \* where its task is
    active,       \* _state_timeout_scope and _named_timers
    watched,      \* monitored_by is not empty
    events,       \* events so far
    setIn,        \* history: the state a timer was set in
    entered       \* history: the last state whose enter callback has begun

queues == <<mailbox, current, next, postponed, events>>
timers == <<scope, task, active, setIn>>
status == <<at, open, watched>>
vars   == <<status, queues, timers, visit, starting, entered>>

Alive  == at \in {"idle", "handed", "callback"}
Parked == at = "idle" /\ ~starting /\ next = <<>> /\ mailbox = <<>>

Init ==
    /\ at = IF EnterMode THEN "callback" ELSE "idle"
    /\ open = TRUE
    /\ watched \in Watched
    /\ mailbox = <<>> /\ next = <<>> /\ postponed = <<>>
    /\ current = Enter
    /\ visit = 0 /\ entered = 0
    /\ starting = TRUE
    /\ scope = [t \in Timers |-> "none"]
    /\ task = [t \in Timers |-> "none"]
    /\ active = [s \in (Scopes \cup {"state"}) \ {"plain"} |-> NoTimer]
    /\ setIn = [t \in Timers |-> 0]
    /\ events = 0

-----------------------------------------------------------------------------
(* The mailbox.  A machine that waits in receive() is handed the message.    *)

Room == Parked \/ Len(mailbox) < MailboxSize

Put(m) ==
    /\ open /\ Room
    /\ IF Parked THEN current' = m /\ at' = "handed" /\ UNCHANGED mailbox
                 ELSE mailbox' = Append(mailbox, m) /\ UNCHANGED <<current, at>>
    /\ UNCHANGED <<next, postponed>>

(* cast(), call(), info(). *)
Arrives ==
    /\ events < MaxEvents
    /\ Put(Event(events + 1, NoTimer))
    /\ events' = events + 1
    /\ UNCHANGED <<open, watched, timers, visit, starting, entered>>

(* stop(), or the exit of a linked process when exits are not trapped. *)
StopArrives ==
    /\ \A n \in DOMAIN mailbox : mailbox[n] # Stop
    /\ current # Stop
    /\ Put(Stop)
    /\ UNCHANGED <<open, watched, events, timers, visit, starting, entered>>

(* kill() closes the mailbox; what is in it will still be handled. *)
Kill ==
    /\ Alive /\ open
    /\ open' = FALSE
    /\ UNCHANGED <<at, watched, queues, timers, visit, starting, entered>>

-----------------------------------------------------------------------------
(* Timers: _schedule_timer, and the part of _apply_actions about them.       *)

(* What the actions of a callback do to timers.                              *)
Effects == [op: {"set"}, scope: Scopes] \cup [op: {"cancel"}, scope: Scopes \ {"plain"}]
           \cup {[op |-> "none", scope |-> "plain"]}

(* The timers that are cancelled: that of the state if it changes, and the   *)
(* one that is set anew.  An unnamed one never is.                           *)
(* Mutant: a state timeout outlives its state.                               *)
EndedOnlySet(f, change) == IF f.op = "none" THEN {} ELSE {f.scope}
EndedBy(f, change) ==
    (IF change THEN {"state"} ELSE {}) \cup (IF f.op = "none" THEN {} ELSE {f.scope})

(* A task is cancelled in its sleep, and no more once the sleep is over.     *)
Cancelled(scopes) ==
    [t \in Timers |-> IF task[t] = "asleep" /\ \E s \in scopes \cap DOMAIN active : active[s] = t
                      THEN "ended" ELSE task[t]]

ApplyTimers(f, change) ==
    LET gone == EndedBy(f, change)
        left == [s \in DOMAIN active |-> IF s \in gone THEN NoTimer ELSE active[s]]
    IN  \/ /\ f.op # "set"
           /\ task' = Cancelled(gone)
           /\ active' = left
           /\ UNCHANGED <<scope, setIn>>
        \/ \E t \in Timers :
             /\ f.op = "set"
             /\ task[t] = "none" /\ \A u \in Timers : task[u] = "none" => t <= u
             /\ task' = [Cancelled(gone) EXCEPT ![t] = "asleep"]
             /\ active' = [s \in DOMAIN left |-> IF s = f.scope THEN t ELSE left[s]]
             /\ scope' = [scope EXCEPT ![t] = f.scope]
             /\ setIn' = [setIn EXCEPT ![t] = IF change THEN visit + 1 ELSE visit]

TimerDue(t) ==
    /\ task[t] = "asleep"
    /\ task' = [task EXCEPT ![t] = "due"]
    /\ UNCHANGED <<status, queues, scope, active, setIn, visit, starting, entered>>

(* send_nowait, whose failure is passed over, and the `finally` of the task. *)
TimerFires(t) ==
    /\ task[t] = "due"
    /\ task' = [task EXCEPT ![t] = "ended"]
    /\ active' = [s \in DOMAIN active |-> IF active[s] = t THEN NoTimer ELSE active[s]]
    /\ \/ events < MaxEvents /\ Put(Event(events + 1, t)) /\ events' = events + 1
       \/ ~(open /\ Room) /\ UNCHANGED <<at, queues>>
    /\ UNCHANGED <<open, watched, scope, setIn, visit, starting, entered>>

-----------------------------------------------------------------------------
(* The loop. *)

Begin(m) ==
    /\ current' = m
    /\ at' = "callback"
    /\ entered' = IF m = Enter THEN visit ELSE entered
    /\ UNCHANGED <<open, watched, timers, postponed, events, visit, starting>>

Ready == at = "idle" /\ ~starting

TakeNext == Ready /\ next # <<>> /\ next' = Tail(next) /\ Begin(Head(next)) /\ UNCHANGED mailbox

TakeMessage ==
    /\ Ready /\ next = <<>> /\ mailbox # <<>>
    /\ mailbox' = Tail(mailbox) /\ Begin(Head(mailbox))
    /\ UNCHANGED next

Resume == at = "handed" /\ Begin(current) /\ UNCHANGED <<mailbox, next>>

Injected(inject) == IF inject THEN <<Event(events + 1, NoTimer)>> ELSE <<>>
Counted(inject) ==
    /\ inject => events < MaxEvents
    /\ events' = IF inject THEN events + 1 ELSE events

(* Mutant: the enter callback runs after the postponed events.               *)
ReplayedFirst(kept) == kept \o (IF EnterMode THEN <<Enter>> ELSE <<>>)
Replayed(kept) == (IF EnterMode THEN <<Enter>> ELSE <<>>) \o kept

(* Mutant: a postponed event is replayed at once.                            *)
RequeueAtOnce(change, leave, inject) ==
    LET kept == IF leave THEN Append(postponed, current) ELSE postponed
    IN  next' = Replayed(kept) \o next \o Injected(inject) /\ postponed' = <<>>
(* Mutant: what is replayed stays in _postponed.                             *)
RequeueKeeping(change, leave, inject) ==
    LET kept == IF leave THEN Append(postponed, current) ELSE postponed
    IN  /\ next' = (IF change THEN Replayed(kept) ELSE <<>>) \o next \o Injected(inject)
        /\ postponed' = kept
Requeue(change, leave, inject) ==
    LET kept == IF leave THEN Append(postponed, current) ELSE postponed
    IN  /\ next' = (IF change THEN Replayed(kept) ELSE <<>>) \o next \o Injected(inject)
        /\ postponed' = IF change THEN <<>> ELSE kept

HandledCurrent == at' = "idle" /\ current' = Enter

(* _process_gsm_event once the callback has returned, for an event.          *)
CallbackReturns ==
    /\ at = "callback" /\ current.type = "event"
    /\ \E change, leave, inject \in BOOLEAN, f \in Effects :
         /\ change => visit < MaxChanges
         /\ ApplyTimers(f, change)
         /\ Requeue(change, leave, inject)
         /\ Counted(inject)
         /\ visit' = IF change THEN visit + 1 ELSE visit
    /\ HandledCurrent
    /\ UNCHANGED <<open, watched, mailbox, starting, entered>>

(* For the entering of a state, which cannot change it again, but can be     *)
(* postponed: then it is replayed with the events, after the next change.    *)
EnterReturns ==
    /\ at = "callback" /\ current = Enter
    /\ \E leave, inject \in BOOLEAN, f \in Effects :
         /\ leave => visit < MaxEnters
         /\ ApplyTimers(f, FALSE)
         /\ next' = next \o Injected(inject)
         /\ postponed' = IF leave THEN Append(postponed, Enter) ELSE postponed
         /\ Counted(inject)
    /\ HandledCurrent
    /\ UNCHANGED <<open, watched, mailbox, visit, starting, entered>>

(* The actions that init returned, if any. *)
InitActions ==
    /\ at = "idle" /\ starting
    /\ starting' = FALSE
    /\ \E inject \in BOOLEAN, f \in Effects :
         /\ ApplyTimers(f, FALSE)
         /\ next' = next \o Injected(inject)
         /\ Counted(inject)
    /\ UNCHANGED <<status, mailbox, current, postponed, visit, entered>>

(* The streams are closed and on_terminate runs; nobody reads the queues     *)
(* any more.                                                                 *)
Leaves ==
    /\ at' = "terminating"
    /\ open' = FALSE
    /\ current' = Enter
    /\ mailbox' = <<>> /\ next' = <<>> /\ postponed' = <<>>
    /\ UNCHANGED <<watched, events, timers, visit, starting, entered>>

(* A Stop, a callback that raises or stops, the end of a mailbox that kill() *)
(* has closed.                                                               *)
CallbackEnds == at = "callback" /\ Leaves
EndOfStream == Ready /\ next = <<>> /\ mailbox = <<>> /\ ~open /\ Leaves

(* terminate() returns and loop() cancels the timers.                        *)
Ends ==
    /\ at = "terminating"
    /\ at' = "stopped"
    /\ task' = [t \in Timers |-> IF task[t] = "none" THEN "none" ELSE "ended"]
    /\ active' = [s \in DOMAIN active |-> NoTimer]
    /\ UNCHANGED <<open, watched, queues, scope, setIn, visit, starting, entered>>

-----------------------------------------------------------------------------
Step == TakeNext \/ TakeMessage \/ Resume \/ CallbackReturns \/ EnterReturns \/ InitActions
        \/ CallbackEnds \/ EndOfStream \/ Ends
AllOver == at = "stopped" /\ UNCHANGED vars

Next == \/ Step \/ Arrives \/ StopArrives \/ Kill \/ AllOver
        \/ \E t \in Timers : TimerDue(t) \/ TimerFires(t)

Spec == Init /\ [][Next]_vars

(* The event loop runs ready tasks, and callbacks return.                    *)
FairSpec == Spec /\ WF_vars(Step) /\ \A t \in Timers : WF_vars(TimerFires(t))

-----------------------------------------------------------------------------
(* The queues together implement one queue of events: none is lost or dealt  *)
(* with twice, they stay in order, and postponed ones wait for a change.     *)
Nums(items) ==
    LET nums[n \in 0..Len(items)] ==
            IF n = 0 THEN <<>>
            ELSE IF items[n].type = "event" THEN Append(nums[n - 1], items[n].num) ELSE nums[n - 1]
    IN  nums[Len(items)]
Taken == IF at = "callback" THEN <<current>> ELSE <<>>
Unseen == (IF at = "handed" THEN <<current>> ELSE <<>>) \o mailbox

Q == INSTANCE EventQueue WITH
        Events <- 1..MaxEvents,
        queue  <- IF Alive THEN Nums(postponed \o Taken \o next \o Unseen) ELSE <<>>,
        tried  <- IF Alive THEN Len(Nums(postponed)) ELSE 0,
        fresh  <- IF Alive THEN Len(Nums(Unseen)) ELSE 0,
        busy   <- at = "callback" /\ current.type = "event",
        over   <- ~Alive
ImplementsQueue == Q!Spec

(* SPEC.md 5.1: the enter callback of a state runs before any of its events. *)
EnterComesFirst == EnterMode /\ at = "callback" /\ current.type = "event" => entered = visit

(* A timer that is still asleep can be cancelled: it is in the table, the    *)
(* only one for its name, and that of a state was set in the present state.  *)
TimersInHand ==
    \A t \in Timers :
        task[t] = "asleep" /\ scope[t] # "plain" =>
            /\ active[scope[t]] = t
            /\ scope[t] = "state" => setIn[t] = visit

(* Postponed events wait for a change of state, and do not spin: once the    *)
(* state stays and no more events come or are injected, the machine empties  *)
(* its mailbox or ends.  (A callback that postpones its event and changes    *)
(* the state each time keeps it from its mailbox for ever.)                  *)
Settles == <>[][visit' = visit /\ events' = events]_vars
SettledMachineDrains == Settles => []<>(~Alive \/ (Ready /\ next = <<>> /\ mailbox = <<>>))

-----------------------------------------------------------------------------
(* Promises of the documentation that the code does not keep. *)

(* StateTimeout, "Cancelled on state change": a timeout that had fired       *)
(* before the change is still in the mailbox, or is due.                     *)
NoStaleTimeout ==
    at = "callback" /\ current.type = "event" /\ current.timer # NoTimer
        => (scope[current.timer] = "state" => setIn[current.timer] = visit)

(* SPEC.md 2.6: whoever monitors a machine gets a Down.  _loop ends without  *)
(* _system_teardown, and leaves monitored_by and links as they are.          *)
MonitorsTold == at = "stopped" => ~watched

(* SPEC.md 6.6: no terminate is observed after a brutal kill.                *)
KillSkipsTerminate == [][Alive /\ ~open => at' # "terminating"]_vars

(* A timer that fires is delivered: at a full mailbox it is dropped.         *)
TimersArrive ==
    [][\A t \in Timers : Alive /\ open /\ task[t] = "due" /\ task'[t] = "ended"
                            => events' = events + 1]_vars

=============================================================================
