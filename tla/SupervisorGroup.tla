-------------------------- MODULE SupervisorGroup --------------------------
(***************************************************************************)
(* fastactor/otp/supervisor.py with the strategies one_for_all and         *)
(* rest_for_one.  The supervisor's own task is that of Supervisor.tla, but *)
(* here a task runs one process (_supervise_once), and one more task, the  *)
(* manager (_one_for_all or _rest_for_one), waits for the first child that *)
(* stops, stops what must be restarted with it, and starts it all again.   *)
(* A task that is done may stand for a later one: the generation tells its *)
(* processes apart.                                                        *)
(***************************************************************************)
EXTENDS Supervisor, SequencesExt

CONSTANTS Strategies,
          MaxCalls       \* bound: calls of the clients

ASSUME GroupAssumption ==
    /\ Strategies \subseteq {"one_for_all", "rest_for_one"}
    /\ MaxCalls \in Nat

VARIABLES
    strategy,
    events,     \* _strategy_stopped_events: the process whose end sets it
    update,     \* a message is in the stream of _signal_strategy_update
    restarts,   \* Len(restart_times) of the manager
    mgr,        \* the manager's task
    calls       \* the calls of the clients so far

manager == <<strategy, events, update, restarts, mgr>>
group   == <<manager, calls>>

(* Its locals: what it waits for, ordered_ids, those still to be stopped or  *)
(* waited for, whether they are started again, and what it awaits.  History: *)
(* the processes of the batch when it chose it, those that ran and those     *)
(* whose start was under way, and which of them calls of clients have taken  *)
(* out of its hands since.                                                   *)
Manager == [at: {"none", "watching", "stopping", "awaiting", "draining", "starting", "gone"},
            watch: [Ids -> Processes], batch: Seq(Ids), left: Seq(Ids),
            again: BOOLEAN, wait: Processes, ran: SUBSET Processes,
            joining: SUBSET Processes, taken: SUBSET Processes]

NoEvents == [i \in Ids |-> NoProcess]

GInit ==
    /\ Init
    /\ strategy \in Strategies
    /\ events = [i \in Ids |-> IF InSpecs(i)
                               THEN [task |-> CHOOSE t \in Tasks : id[t] = i, gen |-> 1]
                               ELSE NoProcess]
    /\ update = FALSE
    /\ calls = 0
    /\ restarts = 0
    /\ mgr = [at |-> "none", watch |-> NoEvents, batch |-> <<>>, left |-> <<>>,
              again |-> FALSE, wait |-> NoProcess, ran |-> {}, joining |-> {},
              taken |-> {}]

(* The event of a process is set when its task is done with it.              *)
IsSet(w) == gen[w.task] > w.gen \/ (gen[w.task] = w.gen /\ at[w.task] # "watching")

(* A task that is done, and that no entry of children but those of S names;  *)
(* each stands for MaxStarts tasks of the program at most.                   *)
FreeFor(S) == {t \in Tasks : /\ at[t] \in {"none", "done"} /\ gen[t] < MaxStarts
                             /\ \A i \in Ids \ S : children[i] # t}

(* _start_strategy_children, up to its wait, for the ids of `starts`; the    *)
(* events of `popped` have been taken out.                                   *)
Schedule(starts, popped) ==
    /\ Cardinality(FreeFor(popped)) >= Cardinality(starts)
    /\ LET own == CHOOSE f \in [starts -> FreeFor(popped)] :
                      \A i, j \in starts : f[i] = f[j] => i = j
           for(t) == {i \in starts : own[i] = t}
       IN  /\ id' = [t \in Tasks |-> IF for(t) = {} THEN id[t] ELSE CHOOSE i \in for(t) : TRUE]
           /\ at' = [t \in Tasks |-> IF for(t) = {} THEN at[t] ELSE "starting"]
           /\ events' = [i \in Ids |->
                CASE i \in starts -> [task |-> own[i], gen |-> gen[own[i]] + 1]
                  [] i \in popped \ starts -> NoProcess
                  [] OTHER -> events[i]]

Popped(S) == [i \in Ids |-> IF i \in S THEN None ELSE children[i]]
EventsWithout(S) == [i \in Ids |-> IF i \in S THEN NoProcess ELSE events[i]]

-----------------------------------------------------------------------------
(* _supervise_once. *)

GroupChildStarted(t) ==
    /\ ChildStarted(t)
    /\ UNCHANGED group

SuperviseEnds(t) ==
    /\ at[t] = "watching" /\ child[t] = "stopped"
    /\ at' = [at EXCEPT ![t] = "done"]
    /\ UNCHANGED <<supvars, dicts, id, gen, recorded, slid, redone, procs, client, group>>

(* The manager is a task of the group too. *)
ManagerEnds == mgr' = [mgr EXCEPT !.at = "gone"]

(* The child's start raises: ready is set all the same, and start_child says *)
(* that the child failed.                                                    *)
GroupStartFails(t) ==
    /\ at[t] = "starting" /\ "start_fails" \in Workload
    /\ GroupCancelled
    /\ ManagerEnds
    /\ client' = [c \in Clients |-> IF client[c].op = "start" /\ client[c].proc.task = t
                                    THEN Idle ELSE client[c]]
    /\ UNCHANGED <<strategy, events, update, restarts, calls, stop, supKilled, terminating,
                   todo, wait, kids, snapshot, dicts, id, gen, recorded, slid, redone, procs>>

-----------------------------------------------------------------------------
(* The manager.  Its loop reads the events anew each time round.             *)

Watches == [mgr EXCEPT !.at = "watching", !.left = <<>>, !.wait = NoProcess,
                       !.watch = [i \in Ids |-> IF \E n \in DOMAIN specs' : specs'[n] = i
                                                THEN events'[i] ELSE NoProcess]]

GroupSeedsReady ==
    /\ SeedsReady
    /\ events' = events
    /\ mgr' = Watches
    /\ UNCHANGED <<strategy, update, restarts, calls>>

Updated ==
    /\ mgr.at = "watching" /\ update
    /\ update' = FALSE
    /\ UNCHANGED <<events, specs>>
    /\ mgr' = Watches
    /\ UNCHANGED <<strategy, restarts, calls, supvars, preserve, children, tasks, procs, client>>

(* _wait_for_first_stop has returned i, which ended since or before.         *)
FirstStop(i) == mgr.at = "watching" /\ mgr.watch[i] # NoProcess /\ IsSet(mgr.watch[i])
Ordered == Keep(specs, {i \in Ids : events[i] # NoProcess})
IsIn(i, ids) == \E n \in DOMAIN ids : ids[n] = i

(* Nothing is known of it any more, or the supervisor terminates.            *)
Ignored(i) ==
    /\ FirstStop(i)
    /\ \/ ~IsIn(i, Ordered) /\ UNCHANGED <<events, children>>
       \/ /\ IsIn(i, Ordered)
          /\ terminating \/ (strategy = "one_for_all" /\ children[i] = None)
          /\ events' = EventsWithout({i})
          /\ children' = Popped({i})
    /\ UNCHANGED specs
    /\ mgr' = Watches
    /\ UNCHANGED <<strategy, update, restarts, calls, supvars, preserve, tasks, procs, client>>

Matters(i) ==
    /\ FirstStop(i) /\ IsIn(i, Ordered) /\ ~terminating
    /\ strategy = "one_for_all" => children[i] # None
ReasonWas(i) == children[i] # None /\ crashed[children[i]]
IsRestarted(i) == Restart[i] = "permanent" \/ (Restart[i] = "transient" /\ ReasonWas(i))

Batch(ids, left, again) ==
    LET known == {events[i] : i \in ToSet(ids)}
        up    == {Proc(children[i]) : i \in {j \in Ids : children[j] # None}}
    IN  mgr' = [mgr EXCEPT !.at = "stopping", !.batch = ids, !.left = left, !.again = again,
                           !.watch = NoEvents, !.ran = known \cap up, !.joining = known \ up,
                           !.taken = {}]

(* Mutant: the children are stopped in the order of their specs.             *)
InOrder(ids) == ids
StopOrder(ids) == Reverse(ids)

(* It is not restarted: with one_for_all, all others are stopped as well.    *)
Dropped(i) ==
    /\ Matters(i) /\ ~IsRestarted(i)
    /\ specs' = Without(i)
    /\ IF strategy = "one_for_all"
       THEN Batch(Ordered, StopOrder(Ordered), FALSE) /\ UNCHANGED <<events, children>>
       ELSE /\ events' = EventsWithout({i})
            /\ children' = Popped({i})
            /\ mgr' = Watches
    /\ UNCHANGED <<strategy, update, restarts, calls, supvars, preserve, tasks, procs, client>>

(* rest_for_one stops those behind i, then, like one_for_all, all that are   *)
(* to be started again.                                                      *)
Affected(i) ==
    IF strategy = "one_for_all" THEN Ordered
    ELSE SubSeq(Ordered, CHOOSE n \in DOMAIN Ordered : Ordered[n] = i, Len(Ordered))
Behind(i) == IF strategy = "one_for_all" THEN <<>> ELSE Tail(Affected(i))

Restarted(i) ==
    /\ Matters(i) /\ IsRestarted(i)
    /\ ~Exceeded(restarts + 1)
    /\ restarts' = restarts + 1
    /\ Batch(Affected(i), StopOrder(Behind(i)) \o StopOrder(Affected(i)), TRUE)
    /\ UNCHANGED <<strategy, events, update, calls, supvars, dicts, tasks, procs, client>>

(* _fail_supervisor, as in RestartsExceeded, and the manager returns.        *)
GroupRestartsExceeded(i) ==
    /\ Matters(i) /\ IsRestarted(i)
    /\ Exceeded(restarts + 1)
    /\ IF sup = "loop" /\ ~supKilled
       THEN stop' = (IF stop = None THEN "abnormal" ELSE stop) /\ UNCHANGED <<sup, at>>
       ELSE GroupCancelled /\ UNCHANGED stop
    /\ ManagerEnds
    /\ UNCHANGED <<strategy, events, update, restarts, calls, supKilled, terminating, todo,
                   wait, kids, snapshot, dicts, id, gen, recorded, slid, redone, procs, client>>

(* _restart_strategy_children: the children are stopped one after the other, *)
NeedsStop(i) == children[i] # None /\ child[children[i]] # "stopped"
NextToStop(n) == NeedsStop(mgr.left[n]) /\ \A m \in 1..(n - 1) : ~NeedsStop(mgr.left[m])

ManagerStops ==
    /\ mgr.at = "stopping"
    /\ \E n \in DOMAIN mgr.left :
         LET t == children[mgr.left[n]]
         IN  /\ NextToStop(n)
             /\ BrutalKill(t) \/ StopSent(t)
             /\ mgr' = [mgr EXCEPT !.left = SubSeq(@, n + 1, Len(@)),
                                   !.at = "awaiting", !.wait = Proc(t)]
    /\ UNCHANGED <<strategy, events, update, restarts, calls, supvars, dicts, tasks,
                   crashed, client>>

ManagerStopped ==
    /\ mgr.at = "awaiting" /\ HasStopped(mgr.wait)
    /\ mgr' = [mgr EXCEPT !.at = "stopping", !.wait = NoProcess]
    /\ UNCHANGED <<strategy, events, update, restarts, calls, vars>>

(* The stop timeout of a child that the manager stops. *)
ManagerKills ==
    /\ mgr.at = "awaiting" /\ mgr.wait = Proc(mgr.wait.task)
    /\ LET t == mgr.wait.task
       IN  /\ child[t] = "stopping" /\ Shutdown[id[t]] = "timeout"
           /\ child' = [child EXCEPT ![t] = "killed"]
           /\ wasKilled' = [wasKilled EXCEPT ![t] = TRUE]
    /\ UNCHANGED <<supvars, dicts, tasks, crashed, client, group>>

(* What _shutdown_child does not catch ends the manager and so the group.    *)
ManagerRaises ==
    /\ mgr.at = "stopping"
    /\ \E n \in DOMAIN mgr.left : NextToStop(n) /\ StopRaises(children[mgr.left[n]])
    /\ GroupCancelled
    /\ ManagerEnds
    /\ UNCHANGED <<strategy, events, update, restarts, calls, stop, supKilled, terminating,
                   todo, wait, kids, snapshot, dicts, id, gen, recorded, slid, redone, crashed, client>>

(* then the event of each is waited for,                                     *)
Drains(ids) == [mgr EXCEPT !.at = "draining", !.left = ids,
                           !.wait = IF ids = <<>> THEN NoProcess ELSE events[Head(ids)]]
AllTold == mgr.at = "stopping" /\ \A n \in DOMAIN mgr.left : ~NeedsStop(mgr.left[n])
(* Mutant: the ends of the children are not waited for.                      *)
DrainNever == AllTold /\ mgr' = Drains(<<>>)
Drain ==
    \/ AllTold /\ mgr' = Drains(mgr.batch)
    \/ /\ mgr.at = "draining" /\ mgr.left # <<>>
       /\ mgr.wait # NoProcess => IsSet(mgr.wait)
       /\ mgr' = Drains(Tail(mgr.left))
ManagerDrains ==
    /\ Drain
    /\ UNCHANGED <<strategy, events, update, restarts, calls, vars>>

(* and those that still have a spec are started.                             *)
ManagerStarts ==
    /\ mgr.at = "draining" /\ mgr.left = <<>>
    /\ LET S == ToSet(mgr.batch)
           starts == IF mgr.again THEN S \cap ToSet(specs) ELSE {}
       IN  /\ children' = Popped(S)
           /\ Schedule(starts, S)
           /\ mgr' = [mgr EXCEPT !.at = "starting",
                                 !.watch = [i \in Ids |-> IF i \in starts THEN events'[i]
                                                          ELSE NoProcess]]
    /\ UNCHANGED specs
    /\ UNCHANGED <<strategy, update, restarts, calls, supvars, preserve, gen, recorded, slid, redone,
                   procs, client>>

ManagerReady ==
    /\ mgr.at = "starting"
    /\ \A i \in Ids : mgr.watch[i] # NoProcess => gen[mgr.watch[i].task] >= mgr.watch[i].gen
    /\ UNCHANGED <<events, specs>>
    /\ mgr' = Watches
    /\ UNCHANGED <<strategy, update, restarts, calls, supvars, preserve, children, tasks,
                   procs, client>>

-----------------------------------------------------------------------------
(* The operations of clients. *)

Called == calls < MaxCalls /\ calls' = calls + 1

(* The event of i goes, or becomes that of another process: the manager no   *)
(* longer stops or waits for the one it was.                                 *)
Forgets(i) ==
    mgr' = [mgr EXCEPT !.taken = @ \cup ({events[i]} \cap (mgr.ran \cup mgr.joining))]

GroupStartChild(c, i) ==
    /\ "start" \in Workload /\ client[c].op = "idle" /\ Open /\ Called
    /\ ~IdInUse(i)
    /\ specs' = Append(Without(i), i)
    /\ Schedule({i}, {})
    /\ Waits(c, "start", i, events'[i])
    /\ Forgets(i)
    /\ UNCHANGED <<supvars, preserve, children, gen, recorded, slid, redone, procs,
                   strategy, update, restarts>>

GroupRestartChild(c, i) ==
    /\ "restart" \in Workload /\ client[c].op = "idle" /\ Open /\ Called
    /\ InSpecs(i)
    /\ children[i] # None => child[children[i]] = "stopped"
    /\ children' = Popped({i})
    /\ Schedule({i}, {i})
    /\ redone' = redone \cup {i}
    /\ Waits(c, "start", i, events'[i])
    /\ Forgets(i)
    /\ UNCHANGED <<supvars, specs, preserve, gen, recorded, slid, procs,
                   strategy, update, restarts>>

(* The child is up, and the manager is told of it. *)
GroupStartReturns(c) ==
    /\ client[c].op = "start" /\ gen[client[c].proc.task] >= client[c].proc.gen
    /\ client' = [client EXCEPT ![c] = Idle]
    /\ update' = TRUE
    /\ UNCHANGED <<supvars, dicts, tasks, procs, strategy, events, restarts, mgr, calls>>

GroupTerminateChild(c, i) ==
    /\ "terminate" \in Workload /\ client[c].op = "idle" /\ Open /\ Called
    /\ InSpecs(i) /\ children[i] # None
    /\ children' = Popped({i})
    /\ events' = EventsWithout({i})
    /\ update' = TRUE
    /\ Forgets(i)
    /\ LET t == children[i]
       IN  \/ /\ child[t] # "stopped"
              /\ BrutalKill(t) \/ StopSent(t)
              /\ Waits(c, "terminate", i, Proc(t))
           \/ /\ child[t] = "stopped" \/ StopRaises(t)
              /\ UNCHANGED <<child, wasKilled, client>>
    /\ UNCHANGED <<supvars, specs, preserve, tasks, crashed, strategy, restarts>>

GroupTerminateReturns(c) ==
    /\ client[c].op = "terminate" /\ HasStopped(client[c].proc)
    /\ client' = [client EXCEPT ![c] = Idle]
    /\ UNCHANGED <<supvars, dicts, tasks, procs, group>>

GroupDeleteChild(i) == Called /\ DeleteChild(i) /\ UNCHANGED manager

-----------------------------------------------------------------------------
GroupFinish ==
    /\ Finish
    /\ ManagerEnds
    /\ UNCHANGED <<strategy, events, update, restarts, calls>>

ManagerStep ==
    \/ Updated \/ ManagerStops \/ ManagerStopped \/ ManagerRaises \/ ManagerDrains
    \/ ManagerStarts \/ ManagerReady
    \/ \E i \in Ids : Ignored(i) \/ Dropped(i) \/ Restarted(i) \/ GroupRestartsExceeded(i)
GroupSupStep ==
    \/ GroupSeedsReady \/ GroupFinish
    \/ /\ \/ LeaveLoop \/ BeginTerminate \/ NextChild \/ ChildGone \/ EndTerminate
          \/ TerminateRaises \/ SkipTerminate \/ NextKid \/ KidEnds \/ Abort
       /\ UNCHANGED group
GroupTaskStep(t) == GroupChildStarted(t) \/ GroupStartFails(t) \/ SuperviseEnds(t)
GroupChildStep(t) == ChildStep(t) /\ UNCHANGED group
GroupReturns(c) == GroupStartReturns(c) \/ GroupTerminateReturns(c)
GroupUsers ==
    \/ /\ StopSupervisor \/ KillSupervisor \/ AllOver
          \/ (\E t \in Tasks : ChildKilled(t) \/ KillAfterTimeout(t))
       /\ UNCHANGED group
    \/ ManagerKills
    \/ \E i \in Ids : GroupDeleteChild(i)
    \/ \E c \in Clients, i \in Ids : \/ GroupStartChild(c, i) \/ GroupRestartChild(c, i)
                                     \/ GroupTerminateChild(c, i)

GNext == \/ ManagerStep \/ GroupSupStep \/ GroupUsers
         \/ \E t \in Tasks : GroupTaskStep(t) \/ GroupChildStep(t)
         \/ \E c \in Clients : GroupReturns(c)

gvars == <<vars, group>>
GSpec == GInit /\ [][GNext]_gvars

(* As in Supervisor; the manager is one more task that the event loop runs.  *)
GFairSpec ==
    /\ GSpec
    /\ WF_gvars(GroupSupStep) /\ WF_gvars(ManagerStep)
    /\ \A t \in Tasks : /\ WF_gvars(GroupTaskStep(t))
                        /\ WF_gvars(child[t] # "live" /\ GroupChildStep(t))
    /\ \A c \in Clients : WF_gvars(GroupReturns(c))

-----------------------------------------------------------------------------
(* The old group, as far as it is still in the hands of the manager: without *)
(* the processes that a terminate_child, restart_child or start_child of     *)
(* their id, after the batch was chosen, has taken out of them.  Nobody      *)
(* waits for those, see NoneBesideItsSuccessor.                              *)
Old     == mgr.ran \ mgr.taken
Joining == mgr.joining \ mgr.taken

(* Once the manager starts its batch again, every process of the old group   *)
(* that clients have left to it has come and gone, also one whose start was  *)
(* under way when the group was to be restarted.                             *)
RestartedTogether ==
    mgr.at = "starting" => \A w \in Old \cup Joining : gen[w.task] >= w.gen /\ HasStopped(w)

(* otp/README.md:290: when the manager waits for a child to stop, those that *)
(* ran in its batch with a later spec, that clients have left to it and not  *)
(* redone, have stopped.                                                     *)
StopsInReverse ==
    mgr.at = "awaiting" /\ ~HasStopped(mgr.wait) =>
        \A m, n \in DOMAIN mgr.batch :
            m < n /\ mgr.batch[m] = id[mgr.wait.task] =>
                \A w \in Old :
                    id[w.task] = mgr.batch[n] /\ mgr.batch[n] \notin redone => HasStopped(w)

(* A crash in the group is answered: the permanent child is back, or the     *)
(* supervisor ends.                                                          *)
GroupComesBack ==
    \A i \in Ids :
        (sup = "loop" /\ children[i] # None /\ child[children[i]] = "stopped"
            /\ Restart[i] = "permanent")
        ~> ((\E t \in Tasks : id[t] = i /\ child[t] = "live") \/ Ending)

-----------------------------------------------------------------------------
(* Promises of the documentation that the code does not keep. *)

(* otp/README.md:290: the affected children are terminated, then restarted,  *)
(* so none of them still runs when its successor is started.                 *)
NoneBesideItsSuccessor ==
    mgr.at = "starting" =>
        \A w \in mgr.ran : mgr.watch[id[w.task]] # NoProcess => HasStopped(w)

=============================================================================
