------------------------------- MODULE Timers -------------------------------
(***************************************************************************)
(* The timers of one process, fastactor/otp/process.py: send_after,        *)
(* start_interval, cancel_timer, reschedule and _teardown_proc_timers.     *)
(*                                                                         *)
(* Each timer is a task in a task group of its owner, which sleeps and     *)
(* then puts an Info into the mailbox of its target.  Code between two     *)
(* awaits is one action.  The calls have no await inside, and any task may *)
(* make one, so they interleave with the timer tasks at every point.       *)
(*                                                                         *)
(* Time is only whether the time in _proc_timer_fire_times has come.       *)
(***************************************************************************)
EXTENDS Naturals, Sequences, FiniteSets

CONSTANTS Procs, Owner,
          Plain,        \* the processes that run Process._loop, not their own
          Timers,       \* the timers that can be made
          Names,        \* the names for reschedule
          MailboxSize,  \* settings.mailbox_size
          None,         \* no timer, no name
          Other         \* a message that is not from a timer

ASSUME TimersAssumption ==
    /\ Owner \in Procs /\ Plain \subseteq Procs
    /\ MailboxSize \in Nat \ {0}
    /\ {None, Other} \cap Timers = {} /\ None # Other
    /\ None \notin Names

VARIABLES
    group,        \* of the owner's task group: "open", "failed" once a timer
                  \* raised in it, "gone" after the teardown
    made,         \* the kind, target and name each timer was made with
    task,         \* where each timer's task is
    timers,       \* the keys of _proc_timers
    fire,         \* _proc_timer_fire_times: "none", or if it has come
    intervals,    \* _proc_interval_timers
    named,        \* _proc_named_timers
    cancelled,    \* the timers whose scope is cancelled
    open,         \* the processes to whose mailbox one can send
    mailbox,      \* of each process, the timers that its messages are from
    handling,     \* the message in its _dispatch_message, or None
    silenced      \* history: the timers that were cancelled before their time

tables == <<timers, fire, intervals>>
procs  == <<open, mailbox, handling>>
vars   == <<group, made, task, tables, named, cancelled, procs, silenced>>

Kinds   == {"once", "interval"}
Unmade  == [kind |-> "once", target |-> Owner, name |-> None]
Pending(t)    == task[t] \notin {"none", "ended"}
IsInterval(t) == made[t].kind = "interval"
Target(t)     == made[t].target

Init ==
    /\ group = "open"
    /\ made = [t \in Timers |-> Unmade]
    /\ task = [t \in Timers |-> "none"]
    /\ timers = {} /\ intervals = {} /\ cancelled = {} /\ silenced = {}
    /\ fire = [t \in Timers |-> "none"]
    /\ named = [n \in Names |-> None]
    /\ open = Procs
    /\ mailbox = [p \in Procs |-> <<>>]
    /\ handling = [p \in Procs |-> None]

-----------------------------------------------------------------------------
(* The calls.                                                                *)

(* cancel_timer leaves alone a timer it does not know, and one whose time    *)
(* has come, unless it is an interval.                                       *)
(* Mutant: the time is not looked at. *)
StoppableAny(t) == t \in timers
Stoppable(t) == t \in timers /\ (fire[t] = "past" => t \in intervals)

(* Mutant: the entries are popped but the scope is not cancelled. *)
ScopesCancelledNot(S) == cancelled
ScopesCancelled(S) == cancelled \cup S

(* The rest of cancel_timer for the timers in S, at most one, followed by    *)
(* the entries of the new timers in N, at most one.  A number is returned    *)
(* for those whose time has not come.                                        *)
Replace(S, N, kind) ==
    /\ cancelled' = ScopesCancelled(S)
    /\ timers' = (timers \ S) \cup N
    /\ intervals' = (intervals \ S) \cup (IF kind = "interval" THEN N ELSE {})
    /\ fire' = [t \in Timers |-> IF t \in N THEN "future"
                                 ELSE IF t \in S THEN "none" ELSE fire[t]]
    /\ silenced' = silenced \cup {t \in S : fire[t] = "future"}

Cancel(t) ==
    /\ Stoppable(t)
    /\ Replace({t}, {}, "once")
    /\ UNCHANGED <<group, made, task, named, procs>>

(* The checks and assignments that the three calls that make a timer share:  *)
(* RuntimeError without a task group, a fresh id, start_soon.                *)
Make(t, kind, target, name) ==
    /\ group # "gone" /\ task[t] = "none"
    /\ made' = [made EXCEPT ![t] = [kind |-> kind, target |-> target, name |-> name]]
    /\ task' = [task EXCEPT ![t] = "starting"]
    /\ UNCHANGED <<group, procs>>

SendAfter(t, target) ==
    /\ Make(t, "once", target, None)
    /\ Replace({}, {t}, "once")
    /\ UNCHANGED named

StartInterval(t, target) ==
    /\ Make(t, "interval", target, None)
    /\ Replace({}, {t}, "interval")
    /\ UNCHANGED named

(* Mutant: the prior timer is left to fire. *)
SupersededNone(n) == {}
Superseded(n) == {t \in {named[n]} \ {None} : Stoppable(t)}

Reschedule(n, t) ==
    /\ Make(t, "once", Owner, n)
    /\ Replace(Superseded(n), {t}, "once")
    /\ named' = [named EXCEPT ![n] = t]

-----------------------------------------------------------------------------
(* The task of a timer.                                                      *)

(* Its own scope is cancelled, or the task group around it.                  *)
Doomed(t) == t \in cancelled \/ group # "open"

(* A new time, and sleep: in an interval also when its entry is gone by now. *)
Sleep(t) ==
    /\ task' = [task EXCEPT ![t] = "sleeping"]
    /\ fire' = IF IsInterval(t) THEN [fire EXCEPT ![t] = "future"] ELSE fire
    /\ UNCHANGED <<timers, intervals>>

(* The finally blocks: only entries that are still the task's own are popped.*)
(* Mutant: the entry in _proc_timers stays. *)
PoppedNot(t) == timers
Popped(t) == timers \ {t}
Finish(t) ==
    /\ task' = [task EXCEPT ![t] = "ended"]
    /\ timers' = Popped(t)
    /\ intervals' = intervals \ {t}
    /\ fire' = IF t \in timers THEN [fire EXCEPT ![t] = "none"] ELSE fire

(* A cancelled scope does not keep a task from starting: it runs up to its   *)
(* first await.                                                              *)
Run(t) ==
    /\ task[t] = "starting"
    /\ Sleep(t)
    /\ UNCHANGED <<group, made, named, cancelled, procs, silenced>>

TimeComes(t) ==
    /\ t \in timers /\ fire[t] = "future"
    /\ task[t] \in {"starting", "sleeping"}
    /\ fire' = [fire EXCEPT ![t] = "past"]
    /\ UNCHANGED <<group, made, task, timers, intervals, named, cancelled,
                   procs, silenced>>

(* The sleep is over and the task is ready to run, which nothing can cancel. *)
Wake(t) ==
    /\ task[t] = "sleeping" /\ fire[t] # "future" /\ ~Doomed(t)
    /\ task' = [task EXCEPT ![t] = "awake"]
    /\ UNCHANGED <<group, made, tables, named, cancelled, procs, silenced>>

(* An interval waits until its message is handled if the target is a process *)
(* that tells.                                                               *)
(* Mutant: it goes on at once. *)
AwaitsAckNever(t) == FALSE
AwaitsAck(t) == IsInterval(t) /\ Target(t) \in Plain

Room(p) == Len(mailbox[p]) < MailboxSize

(* _send_timer_info into an open mailbox with room. *)
FireSent(t) ==
    /\ task[t] = "awake" /\ Target(t) \in open /\ Room(Target(t))
    /\ mailbox' = [mailbox EXCEPT ![Target(t)] = Append(@, t)]
    /\ IF AwaitsAck(t)
       THEN task' = [task EXCEPT ![t] = "waiting"] /\ UNCHANGED tables
       ELSE IF IsInterval(t) THEN Sleep(t) ELSE Finish(t)
    /\ UNCHANGED <<group, made, named, cancelled, open, handling, silenced>>

(* Into a closed one: nothing is sent, and an interval goes on for ever. *)
FireClosed(t) ==
    /\ task[t] = "awake" /\ Target(t) \notin open
    /\ IF IsInterval(t) THEN Sleep(t) ELSE Finish(t)
    /\ UNCHANGED <<group, made, named, cancelled, procs, silenced>>

(* Into a full one: WouldBlock is not caught, leaves the task, and cancels   *)
(* the group, with the loop of the owner in it.                              *)
FireFull(t) ==
    /\ task[t] = "awake" /\ Target(t) \in open /\ ~Room(Target(t))
    /\ Finish(t)
    /\ group' = IF group = "open" THEN "failed" ELSE group
    /\ UNCHANGED <<made, named, cancelled, procs, silenced>>

(* ack.wait() returns. *)
Resume(t) ==
    /\ task[t] = "acked"
    /\ Sleep(t)
    /\ UNCHANGED <<group, made, named, cancelled, procs, silenced>>

(* Cancellation reaches a task at an await that is not over.                 *)
(* Mutant: the wait for the ack is shielded. *)
ParkedAsleep(t) == task[t] = "sleeping"
Parked(t) == task[t] \in {"sleeping", "waiting"}
Interrupt(t) ==
    /\ Parked(t) /\ Doomed(t)
    /\ Finish(t)
    /\ UNCHANGED <<group, made, named, cancelled, procs, silenced>>

-----------------------------------------------------------------------------
(* The processes.                                                            *)

(* Any other sender. *)
Post(p) ==
    /\ p \in open /\ Room(p)
    /\ mailbox' = [mailbox EXCEPT ![p] = Append(@, Other)]
    /\ UNCHANGED <<group, made, task, tables, named, cancelled, open, handling, silenced>>

(* A loop that is cancelled takes no more. *)
Take(p) ==
    /\ handling[p] = None /\ mailbox[p] # <<>>
    /\ p = Owner => group = "open"
    /\ handling' = [handling EXCEPT ![p] = Head(mailbox[p])]
    /\ mailbox' = [mailbox EXCEPT ![p] = Tail(@)]
    /\ UNCHANGED <<group, made, task, tables, named, cancelled, open, silenced>>

(* _dispatch_message is left, by a return or an exception: its finally sets  *)
(* the ack, which a cancelled timer no longer waits for.                     *)
(* Mutant: the ack is not set. *)
AcknowledgedNot(m) == task
Acknowledged(m) ==
    [t \in Timers |-> IF t = m /\ task[t] = "waiting" /\ AwaitsAck(t)
                      THEN "acked" ELSE task[t]]
Handled(p) ==
    /\ handling[p] # None
    /\ task' = Acknowledged(handling[p])
    /\ handling' = [handling EXCEPT ![p] = None]
    /\ UNCHANGED <<group, made, tables, named, cancelled, open, mailbox, silenced>>

(* kill() closes the end for sending; what is queued is still handled.       *)
Kill(p) ==
    /\ p \in open
    /\ open' = open \ {p}
    /\ UNCHANGED <<group, made, task, tables, named, cancelled, mailbox, handling, silenced>>

(* The loop of p ends for any reason, cancellation included, and both ends   *)
(* close.  What is queued is lost.                                           *)
Close(p) ==
    /\ handling[p] = None
    /\ p \in open \/ mailbox[p] # <<>>
    /\ open' = open \ {p}
    /\ mailbox' = [mailbox EXCEPT ![p] = <<>>]
    /\ UNCHANGED <<group, made, task, tables, named, cancelled, handling, silenced>>

(* _teardown_proc_timers, once the loop of the owner is over.                *)
Teardown ==
    /\ Owner \notin open /\ mailbox[Owner] = <<>> /\ handling[Owner] = None
    /\ group # "gone"
    /\ group' = "gone"
    /\ cancelled' = cancelled \cup timers
    /\ timers' = {} /\ intervals' = {}
    /\ fire' = [t \in Timers |-> "none"]
    /\ named' = [n \in Names |-> None]
    /\ silenced' = silenced \cup {t \in timers : task[t] # "awake"}
    /\ UNCHANGED <<made, task, procs>>

-----------------------------------------------------------------------------
(* Everything has ended: so that a state where tasks wait for ever, which is *)
(* a deadlock, is told from the end.                                         *)
Over ==
    /\ group = "gone" /\ open = {}
    /\ \A p \in Procs : handling[p] = None /\ mailbox[p] = <<>>
    /\ \A t \in Timers : ~Pending(t)
    /\ UNCHANGED vars

TaskStep(t) ==
    \/ Run(t) \/ TimeComes(t) \/ Wake(t) \/ Resume(t) \/ Interrupt(t)
    \/ FireSent(t) \/ FireClosed(t) \/ FireFull(t)

Next ==
    \/ \E t \in Timers : Cancel(t) \/ TaskStep(t)
    \/ \E t \in Timers, p \in Procs : SendAfter(t, p) \/ StartInterval(t, p)
    \/ \E t \in Timers, n \in Names : Reschedule(n, t)
    \/ \E p \in Procs : Post(p) \/ Take(p) \/ Handled(p) \/ Kill(p) \/ Close(p)
    \/ Teardown \/ Over

Spec == Init /\ [][Next]_vars

(* The event loop runs every task that is ready, and time passes.  A process *)
(* reads its mailbox and its callbacks return; a cancelled loop closes.      *)
Fairness ==
    /\ \A t \in Timers : WF_vars(TaskStep(t))
    /\ \A p \in Procs : WF_vars(Take(p)) /\ WF_vars(Handled(p))
    /\ WF_vars(group # "open" /\ Close(Owner)) /\ WF_vars(Teardown)

FairSpec == Spec /\ Fairness

-----------------------------------------------------------------------------
Phases == {"none", "starting", "sleeping", "awake", "waiting", "acked", "ended"}

(* The tables keep their types, and no mailbox grows beyond its size.        *)
TypeOK ==
    /\ group \in {"open", "failed", "gone"}
    /\ made \in [Timers -> [kind : Kinds, target : Procs, name : Names \cup {None}]]
    /\ task \in [Timers -> Phases]
    /\ timers \subseteq Timers /\ intervals \subseteq Timers
    /\ cancelled \subseteq Timers /\ silenced \subseteq Timers
    /\ fire \in [Timers -> {"none", "future", "past"}]
    /\ named \in [Names -> Timers \cup {None}]
    /\ open \subseteq Procs
    /\ mailbox \in [Procs -> Seq(Timers \cup {Other})]
    /\ \A p \in Procs : Len(mailbox[p]) <= MailboxSize
    /\ handling \in [Procs -> Timers \cup {Other, None}]

(* The three tables know the timers that are pending and not cancelled, each *)
(* with a time, though tasks and calls take entries out at any point.  The   *)
(* exception is in _proc_timer_fire_times (process.py:452): a task of a      *)
(* cancelled interval may write its time again, and that entry then stays.   *)
TablesTrackTimers ==
    /\ timers = {t \in Timers : Pending(t) /\ t \notin cancelled}
    /\ intervals = {t \in timers : IsInterval(t)}
    /\ \A t \in Timers :
         IF t \in timers THEN fire[t] # "none"
         ELSE fire[t] # "none" => IsInterval(t) /\ t \in cancelled

Queued(t) == Cardinality({i \in DOMAIN mailbox[Target(t)] : mailbox[Target(t)][i] = t})

(* An interval whose target runs Process._loop never has two messages that   *)
(* are not handled, however slow the callbacks are: the ack of               *)
(* _run_interval_timer and _dispatch_message.                                *)
NoPileUp ==
    \A t \in Timers :
        IsInterval(t) /\ Target(t) \in Plain
            => Queued(t) + (IF handling[Target(t)] = t THEN 1 ELSE 0) <= 1

(* A timer that a later reschedule of its name replaced is still pending     *)
(* only if its time had come at that call, when cancel_timer refused it.     *)
OnlyDueOnesLinger ==
    \A t \in timers :
        made[t].name # None /\ named[made[t].name] # t => fire[t] = "past"

(* No message is sent by a timer for which cancel_timer returned a number,   *)
(* nor by one that was not ready to run when its owner cancelled all timers. *)
SilencedStaySilent == [][\A t \in silenced : Queued(t)' <= Queued(t)]_vars

(* An interval fires again and again unless it is taken out of the tables or *)
(* its target ends, with or without acks and late callbacks.                 *)
IntervalGoesOn ==
    \A t \in Timers :
        (IsInterval(t) /\ t \in timers)
            ~> (task[t] = "awake" \/ t \notin timers \/ Target(t) \notin open)

(* After the teardown of the owner every task of its timers ends, so that    *)
(* the task group in loop() can be left, also when a target never acks.      *)
TimersEndWithOwner == group = "gone" ~> \A t \in Timers : ~Pending(t)

(* A promise that is not kept: "always leaves exactly one pending timer"     *)
(* under a name (process.py:520).  One that was due at the time still fires. *)
OnePendingPerName ==
    \A n \in Names : Cardinality({t \in timers : made[t].name = n}) <= 1
=============================================================================
