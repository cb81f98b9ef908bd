----------------------------- MODULE Supervisor -----------------------------
(***************************************************************************)
(* fastactor/otp/supervisor.py with the one_for_one strategy: the tasks    *)
(* that run _run_child, the supervisor's own task (seeding, mailbox loop,  *)
(* terminate, teardown), and clients that call start_child,                *)
(* terminate_child, delete_child and restart_child.                        *)
(*                                                                         *)
(* A task runs one process at a time; the process is known by the task and *)
(* a generation.  The exit path of a process is that of Process.tla, here  *)
(* as seen by its supervisor.  Code between two awaits is one action.      *)
(***************************************************************************)
EXTENDS Integers, Sequences, FiniteSets

CONSTANTS Ids,           \* the child ids
          Seeds,         \* the children given to init, in order
          Restart,       \* of each id: "permanent", "transient", "temporary"
          Shutdown,      \* of each id: "timeout", "infinity", "brutal_kill"
          MaxRestarts,   \* max_restarts
          MaxSlides,     \* bound: how often the window of a task slides on
          MaxTasks,      \* bound: runs of _run_child
          Clients, None,
          Workload       \* what clients and children do in this instance

Operations == {"start", "terminate", "delete", "restart", "stop", "kill", "crash",
               "child_killed", "start_fails", "full_mailbox"}

ASSUME SupervisorAssumption ==
    /\ Seeds \in Seq(Ids)           \* no id twice: init raises Failed
    /\ \A m, n \in DOMAIN Seeds : Seeds[m] = Seeds[n] => m = n
    /\ Restart \in [Ids -> {"permanent", "transient", "temporary"}]
    /\ Shutdown \in [Ids -> {"timeout", "infinity", "brutal_kill"}]
    /\ {MaxRestarts, MaxSlides, MaxTasks} \subseteq Nat
    /\ Len(Seeds) <= MaxTasks
    /\ None \notin Ids \cup (1..MaxTasks) /\ None \notin {"normal", "abnormal", "seed_failed"}
    /\ Workload \subseteq Operations

Tasks     == 1..MaxTasks
MaxStarts == (MaxSlides + 1) * (MaxRestarts + 1)
NoProcess == [task |-> 0, gen |-> 0]

VARIABLES
    sup,          \* where the supervisor's own task is
    stop,         \* the reason of the Stop in its mailbox, or None
    supKilled,    \* _forced_exit_reason and _skip_terminate of the supervisor
    terminating,  \* _terminating
    todo,         \* the ids that the loop in terminate() has left
    wait,         \* the process that terminate or teardown waits for
    kids,         \* the linked processes that _system_teardown has left
    specs,        \* the keys of child_specs, in order
    preserve,     \* _preserve_child_specs
    children,     \* id -> the task of its process
    id, at,       \* of each task: its child id, and its place in _run_child
    gen,          \* the processes it has started
    child,        \* its process
    crashed,      \* _crash_exc of that process is set
    recorded,     \* Len(restart_times)
    slid,         \* how often the window has slid
    client,       \* what each client waits for
    snapshot,     \* history: ordered_ids of terminate()
    redone,       \* history: the ids given to restart_child or delete_child
    wasKilled     \* history: kill() was called on that process

supvars == <<sup, stop, supKilled, terminating, todo, wait, kids, snapshot>>
dicts   == <<specs, preserve, children>>
tasks   == <<id, at, gen, recorded, slid, redone>>
procs   == <<child, crashed, wasKilled>>
vars    == <<supvars, dicts, tasks, procs, client>>

Idle == [op |-> "idle", id |-> None, proc |-> NoProcess]
SeededBy(t) == t <= Len(Seeds)

(* The supervisor has run init; the tasks of S are those that its loop       *)
(* starts for Seeds.                                                         *)
InitAt(place, S) ==
    /\ sup = place
    /\ stop = None
    /\ supKilled = FALSE
    /\ terminating = FALSE
    /\ todo = <<>>
    /\ wait = NoProcess
    /\ kids = {}
    /\ specs = Seeds
    /\ preserve = {}
    /\ children = [i \in Ids |-> None]
    /\ id = [t \in Tasks |-> IF t \in S THEN Seeds[t] ELSE None]
    /\ at = [t \in Tasks |-> IF t \in S THEN "starting" ELSE "none"]
    /\ gen = [t \in Tasks |-> 0]
    /\ child = [t \in Tasks |-> "none"]
    /\ crashed = [t \in Tasks |-> FALSE]
    /\ recorded = [t \in Tasks |-> 0]
    /\ slid = 0
    /\ client = [c \in Clients |-> Idle]
    /\ snapshot = <<>>
    /\ redone = {}
    /\ wasKilled = [t \in Tasks |-> FALSE]

Init == InitAt("seeding", {t \in Tasks : SeededBy(t)})

(* The elements of s that are in S, in their order. *)
Keep(s, S) ==
    LET keep[n \in 0..Len(s)] ==
            IF n = 0 THEN <<>>
            ELSE IF s[n] \in S THEN Append(keep[n - 1], s[n]) ELSE keep[n - 1]
    IN  keep[Len(s)]

InSpecs(i)   == \E n \in DOMAIN specs : specs[n] = i
Without(i)   == Keep(specs, Ids \ {i})
Proc(t)      == [task |-> t, gen |-> gen[t]]
Running(t)   == child[t] \in {"live", "stopping", "killed", "dying"}
HasStopped(w) == gen[w.task] > w.gen \/ child[w.task] = "stopped"

-----------------------------------------------------------------------------
(* The processes of the children.  They are linked to the supervisor.        *)

(* It leaves its loop: a Stop it takes, its own Stop, or a crash.            *)
ChildLeaves(t) ==
    /\ child[t] \in {"live", "stopping", "killed"}
    /\ \/ child[t] # "live" /\ UNCHANGED crashed
       \/ "crash" \in Workload /\ \E b \in BOOLEAN : crashed' = [crashed EXCEPT ![t] = b]
    /\ child' = [child EXCEPT ![t] = "dying"]
    /\ UNCHANGED <<supvars, dicts, tasks, wasKilled, client>>

ChildStops(t) ==
    /\ child[t] = "dying"
    /\ child' = [child EXCEPT ![t] = "stopped"]
    /\ UNCHANGED <<supvars, dicts, tasks, crashed, wasKilled, client>>

(* Somebody calls kill() on it. *)
ChildKilled(t) ==
    /\ "child_killed" \in Workload /\ child[t] = "live"
    /\ child' = [child EXCEPT ![t] = "killed"]
    /\ wasKilled' = [wasKilled EXCEPT ![t] = TRUE]
    /\ UNCHANGED <<supvars, dicts, tasks, crashed, client>>

-----------------------------------------------------------------------------
(* _run_child. *)

(* _start_child_process has returned: the child is in the table. *)
ChildStarted(t) ==
    /\ at[t] = "starting"
    /\ at' = [at EXCEPT ![t] = "watching"]
    /\ gen' = [gen EXCEPT ![t] = @ + 1]
    /\ child' = [child EXCEPT ![t] = "live"]
    /\ crashed' = [crashed EXCEPT ![t] = FALSE]
    /\ wasKilled' = [wasKilled EXCEPT ![t] = FALSE]
    /\ children' = [children EXCEPT ![id[t]] = t]
    /\ UNCHANGED <<supvars, specs, preserve, id, recorded, slid, redone, client>>

(* A task of the group raises: the group is cancelled, the other tasks with  *)
(* it.  Where the supervisor is decides what it still does, see Abort.       *)
GroupCancelled ==
    /\ at' = [t \in Tasks |-> IF at[t] = "none" THEN "none" ELSE "done"]
    /\ sup' = CASE sup = "seeding"              -> "seed_failed"
                [] sup \in {"loop", "closing"}  -> "aborting"
                [] OTHER                        -> "aborted"

(* The child's start raises. *)
StartFails(t) ==
    /\ at[t] = "starting" /\ "start_fails" \in Workload
    /\ GroupCancelled
    /\ UNCHANGED <<stop, supKilled, terminating, todo, wait, kids, snapshot, dicts,
                   id, gen, recorded, slid, redone, procs, client>>

(* Mutant: only a permanent child is restarted. *)
ShouldRestartPermanent(t) == Restart[id[t]] = "permanent"
(* _should_restart; the reason is "normal" unless _crash_exc is set. *)
ShouldRestart(t) ==
    \/ Restart[id[t]] = "permanent"
    \/ Restart[id[t]] = "transient" /\ crashed[t]

(* The entry of the child goes as soon as its process has stopped. *)
Forget(t) == [children EXCEPT ![id[t]] = None]

Stopped(t) == at[t] = "watching" /\ child[t] = "stopped" /\ children' = Forget(t)

(* Its supervisor terminates, or it need not be restarted; terminate_child   *)
(* has marked the specs that stay.                                           *)
ChildEnds(t) ==
    /\ Stopped(t)
    /\ terminating \/ ~ShouldRestart(t)
    /\ IF terminating THEN UNCHANGED <<specs, preserve>>
       ELSE IF id[t] \in preserve
            THEN preserve' = preserve \ {id[t]} /\ UNCHANGED specs
            ELSE specs' = Without(id[t]) /\ UNCHANGED preserve
    /\ at' = [at EXCEPT ![t] = "done"]
    /\ UNCHANGED <<supvars, id, gen, recorded, slid, redone, procs, client>>

(* _record_restart: the length of restart_times once now is appended and the *)
(* window has slid.                                                          *)
Counts(t) == {recorded[t] + 1} \cup IF slid < MaxSlides THEN 1..recorded[t] ELSE {}
Exceeded(n) == n > MaxRestarts

ChildRestarts(t) ==
    /\ Stopped(t)
    /\ ~terminating /\ ShouldRestart(t)
    /\ \E n \in Counts(t) :
         /\ ~Exceeded(n)
         /\ recorded' = [recorded EXCEPT ![t] = n]
         /\ slid' = IF n <= recorded[t] THEN slid + 1 ELSE slid
    /\ at' = [at EXCEPT ![t] = "starting"]
    /\ UNCHANGED <<supvars, specs, preserve, id, gen, redone, procs, client>>

(* The limit is passed: _fail_supervisor sends the supervisor a Stop.  If    *)
(* its mailbox is closed already, the ClosedResourceError leaves the task.   *)
RestartsExceeded(t) ==
    /\ Stopped(t)
    /\ ~terminating /\ ShouldRestart(t)
    /\ Exceeded(recorded[t] + 1)
    /\ IF sup \in {"seeding", "loop"} /\ ~supKilled
       THEN /\ stop' = IF stop = None THEN "abnormal" ELSE stop
            /\ at' = [at EXCEPT ![t] = "done"]
            /\ UNCHANGED sup
       ELSE GroupCancelled /\ UNCHANGED stop
    /\ UNCHANGED <<supKilled, terminating, todo, wait, kids, snapshot, specs, preserve,
                   id, gen, recorded, slid, redone, procs, client>>

-----------------------------------------------------------------------------
(* _shutdown_child, up to its await: what happens to the process of task t.  *)

BrutalKill(t) ==
    /\ Shutdown[id[t]] = "brutal_kill"
    /\ child' = [child EXCEPT ![t] = IF @ = "dying" THEN @ ELSE "killed"]
    /\ wasKilled' = [wasKilled EXCEPT ![t] = TRUE]

(* Mutant: stop() waits, but sent nothing. *)
StopSentNot(t) == Shutdown[id[t]] # "brutal_kill" /\ UNCHANGED <<child, wasKilled>>
(* stop() puts a Stop in the mailbox.  While the streams are being closed it *)
(* raises BrokenResourceError, and the process is waited for all the same.   *)
StopSent(t) ==
    /\ Shutdown[id[t]] # "brutal_kill" /\ child[t] # "killed"
    /\ child' = [child EXCEPT ![t] = IF @ = "dying" THEN @ ELSE "stopping"]
    /\ UNCHANGED wasKilled

(* ClosedResourceError and WouldBlock are not caught. *)
StopRaises(t) ==
    /\ Shutdown[id[t]] # "brutal_kill"
    /\ \/ child[t] \in {"killed", "dying"}
       \/ "full_mailbox" \in Workload /\ child[t] \in {"live", "stopping"}
    /\ UNCHANGED <<child, wasKilled>>

(* The stop timeout: kill(), which waits for the end of the process again.   *)
KillAfterTimeout(t) ==
    /\ child[t] = "stopping" /\ Shutdown[id[t]] = "timeout"
    /\ \/ sup = "wait" /\ wait = Proc(t)
       \/ \E c \in Clients : client[c].op = "terminate" /\ client[c].proc = Proc(t)
    /\ child' = [child EXCEPT ![t] = "killed"]
    /\ wasKilled' = [wasKilled EXCEPT ![t] = TRUE]
    /\ UNCHANGED <<supvars, dicts, tasks, crashed, client>>

-----------------------------------------------------------------------------
(* The supervisor's own task. *)

(* Every child of init has been started once. *)
SeedsReady ==
    /\ sup = "seeding" /\ \A t \in Tasks : SeededBy(t) => gen[t] > 0
    /\ sup' = "loop"
    /\ UNCHANGED <<stop, supKilled, terminating, todo, wait, kids, snapshot,
                   dicts, tasks, procs, client>>

LeaveLoop ==
    /\ sup = "loop" /\ (stop # None \/ supKilled)
    /\ sup' = "closing"
    /\ UNCHANGED <<stop, supKilled, terminating, todo, wait, kids, snapshot,
                   dicts, tasks, procs, client>>

(* terminate() takes the children in the reverse order of their specs. *)
RunningIds == Keep(specs, {i \in Ids : children[i] # None})
(* Mutant: in the order of their specs. *)
ShutdownOrderForward == RunningIds
ShutdownOrder == [n \in DOMAIN RunningIds |-> RunningIds[Len(RunningIds) + 1 - n]]

BeginTerminate ==
    /\ sup = "seed_failed" \/ (sup = "closing" /\ ~supKilled)
    /\ sup' = "terminate"
    /\ stop' = IF sup = "seed_failed" THEN "seed_failed" ELSE stop
    /\ terminating' = TRUE
    /\ todo' = ShutdownOrder
    /\ snapshot' = ShutdownOrder
    /\ UNCHANGED <<supKilled, wait, kids, dicts, tasks, procs, client>>

NextChild ==
    /\ sup = "terminate" /\ todo # <<>>
    /\ todo' = Tail(todo)
    /\ LET t == children[Head(todo)]
       IN  \/ /\ IF t = None THEN TRUE ELSE child[t] = "stopped"
              /\ UNCHANGED <<sup, wait, child, wasKilled>>
           \/ /\ t # None
              /\ child[t] # "stopped"
              /\ BrutalKill(t) \/ StopSent(t)
              /\ sup' = "wait"
              /\ wait' = Proc(t)
    /\ UNCHANGED <<stop, supKilled, terminating, kids, snapshot, dicts, tasks, crashed, client>>

ChildGone ==
    /\ sup = "wait" /\ HasStopped(wait)
    /\ sup' = "terminate"
    /\ wait' = NoProcess
    /\ UNCHANGED <<stop, supKilled, terminating, todo, kids, snapshot, dicts, tasks, procs, client>>

(* Entering _system_teardown: after an abnormal exit it stops whom it is     *)
(* linked to; after a failed seeding it does not run at all.                 *)
Teardown ==
    /\ sup' = IF stop = "seed_failed" THEN "aborted" ELSE "teardown"
    /\ kids' = IF stop = "abnormal" \/ supKilled
               THEN {Proc(t) : t \in {u \in Tasks : Running(u)}} ELSE {}
    /\ todo' = <<>>
    /\ wait' = NoProcess

EndTerminate ==
    /\ sup = "terminate" /\ todo = <<>>
    /\ children' = [i \in Ids |-> None]
    /\ Teardown
    /\ UNCHANGED <<stop, supKilled, terminating, snapshot, specs, preserve, tasks, procs, client>>

(* An exception of _shutdown_child leaves terminate(). *)
TerminateRaises ==
    /\ sup = "terminate" /\ todo # <<>>
    /\ LET t == children[Head(todo)] IN t # None /\ StopRaises(t)
    /\ Teardown
    /\ UNCHANGED <<stop, supKilled, terminating, snapshot, dicts, tasks, crashed, client>>

SkipTerminate ==
    /\ sup = "closing" /\ supKilled
    /\ Teardown
    /\ UNCHANGED <<stop, supKilled, terminating, snapshot, dicts, tasks, procs, client>>

(* One linked process: stop(reason), which waits for it or times out. *)
NextKid ==
    /\ sup = "teardown"
    /\ \E k \in kids :
         /\ kids' = kids \ {k}
         /\ IF gen[k.task] = k.gen /\ child[k.task] \in {"live", "stopping"}
            THEN /\ child' = [child EXCEPT ![k.task] = "stopping"]
                 /\ crashed' = [crashed EXCEPT ![k.task] = TRUE]
                 /\ sup' = "kid_wait"
                 /\ wait' = k
            ELSE UNCHANGED <<sup, wait, child, crashed>>
    /\ UNCHANGED <<stop, supKilled, terminating, todo, snapshot, dicts, tasks, wasKilled, client>>

KidEnds ==
    /\ sup = "kid_wait"
    /\ sup' = "teardown"
    /\ wait' = NoProcess
    /\ UNCHANGED <<stop, supKilled, terminating, todo, kids, snapshot, dicts, tasks, procs, client>>

(* In a cancelled group the first await of terminate() raises: only the      *)
(* first child is told, and _system_teardown is cut short as well.           *)
Abort ==
    /\ sup = "aborting"
    /\ LET told == Keep(ShutdownOrder, {i \in Ids : children[i] # None /\ Running(children[i])})
       IN  IF told = <<>> \/ supKilled THEN UNCHANGED <<child, wasKilled>>
           ELSE LET t == children[told[1]]
                IN  BrutalKill(t) \/ StopSent(t) \/ StopRaises(t)
    /\ terminating' = ~supKilled
    /\ sup' = "aborted"
    /\ UNCHANGED <<stop, supKilled, todo, wait, kids, snapshot, dicts, tasks, crashed, client>>

(* _stopped is set and the task group, with what runs in it, is gone. *)
Finish ==
    /\ sup = "aborted" \/ (sup = "teardown" /\ kids = {})
    /\ sup' = "stopped"
    /\ at' = [t \in Tasks |-> IF at[t] = "none" THEN "none" ELSE "done"]
    /\ UNCHANGED <<stop, supKilled, terminating, todo, wait, kids, snapshot, dicts,
                   id, gen, recorded, slid, redone, procs, client>>

StopSupervisor ==
    /\ "stop" \in Workload /\ sup = "loop" /\ stop = None /\ ~supKilled
    /\ stop' = "normal"
    /\ UNCHANGED <<sup, supKilled, terminating, todo, wait, kids, snapshot,
                   dicts, tasks, procs, client>>

KillSupervisor ==
    /\ "kill" \in Workload /\ sup = "loop" /\ ~supKilled
    /\ supKilled' = TRUE
    /\ UNCHANGED <<sup, stop, terminating, todo, wait, kids, snapshot,
                   dicts, tasks, procs, client>>

-----------------------------------------------------------------------------
(* The operations of clients, while _task_group is not None.                 *)

Open == sup \in {"loop", "closing", "terminate", "wait", "teardown", "kid_wait"}
        /\ stop # "seed_failed"
Free(t) == at[t] = "none" /\ \A u \in Tasks : at[u] = "none" => t <= u

NewTask(t, i) ==
    /\ Free(t)
    /\ id' = [id EXCEPT ![t] = i]
    /\ at' = [at EXCEPT ![t] = "starting"]

Waits(c, op, i, w) == client' = [client EXCEPT ![c] = [op |-> op, id |-> i, proc |-> w]]

(* Mutant: start_child looks at the running children, not at the specs. *)
IdInUseRunning(i) == children[i] # None
IdInUse(i) == InSpecs(i)

AddChild(c, i) ==
    /\ "start" \in Workload /\ client[c].op = "idle"
    /\ ~IdInUse(i)
    /\ preserve' = preserve \ {i}
    /\ specs' = Append(Without(i), i)
    /\ \E t \in Tasks : NewTask(t, i) /\ Waits(c, "start", i, [task |-> t, gen |-> 1])
    /\ UNCHANGED <<supvars, children, gen, recorded, slid, redone, procs>>

AddAgain(c, i) ==
    /\ "restart" \in Workload /\ client[c].op = "idle"
    /\ InSpecs(i)
    /\ children[i] # None => child[children[i]] = "stopped"
    /\ redone' = redone \cup {i}
    /\ \E t \in Tasks : NewTask(t, i) /\ Waits(c, "start", i, [task |-> t, gen |-> 1])
    /\ UNCHANGED <<supvars, dicts, gen, recorded, slid, procs>>

StartChild(c, i)   == Open /\ AddChild(c, i)
RestartChild(c, i) == Open /\ AddAgain(c, i)

(* The ready event has been set. *)
StartReturns(c) ==
    /\ client[c].op = "start" /\ gen[client[c].proc.task] > 0
    /\ client' = [client EXCEPT ![c] = Idle]
    /\ UNCHANGED <<supvars, dicts, tasks, procs>>

TerminateChild(c, i) ==
    /\ "terminate" \in Workload /\ client[c].op = "idle" /\ Open
    /\ InSpecs(i) /\ children[i] # None
    /\ preserve' = preserve \cup {i}
    /\ LET t == children[i]
       IN  \/ /\ child[t] # "stopped"
              /\ BrutalKill(t) \/ StopSent(t)
              /\ Waits(c, "terminate", i, Proc(t))
              /\ UNCHANGED children
           \/ /\ child[t] = "stopped"
              /\ children' = [children EXCEPT ![i] = None]
              /\ UNCHANGED <<child, wasKilled, client>>
           \/ /\ StopRaises(t)
              /\ UNCHANGED <<children, client>>
    /\ UNCHANGED <<supvars, specs, tasks, crashed>>

(* Whatever process the id has by now, its entry goes. *)
TerminateReturns(c) ==
    /\ client[c].op = "terminate" /\ HasStopped(client[c].proc)
    /\ children' = [children EXCEPT ![client[c].id] = None]
    /\ client' = [client EXCEPT ![c] = Idle]
    /\ UNCHANGED <<supvars, specs, preserve, tasks, procs>>

DeleteChild(i) ==
    /\ "delete" \in Workload
    /\ InSpecs(i) /\ children[i] = None
    /\ specs' = Without(i)
    /\ redone' = redone \cup {i}
    /\ UNCHANGED <<supvars, preserve, children, id, at, gen, recorded, slid, procs, client>>

-----------------------------------------------------------------------------
TaskStep(t) == ChildStarted(t) \/ StartFails(t) \/ ChildEnds(t) \/ ChildRestarts(t)
               \/ RestartsExceeded(t)
ChildStep(t) == ChildLeaves(t) \/ ChildStops(t)
SupStep == SeedsReady \/ LeaveLoop \/ BeginTerminate \/ NextChild \/ ChildGone
           \/ EndTerminate \/ TerminateRaises \/ SkipTerminate \/ NextKid \/ KidEnds
           \/ Abort \/ Finish
Returns(c) == StartReturns(c) \/ TerminateReturns(c)

(* Nothing is left to run, or only processes and clients that wait. *)
AllOver == sup = "stopped" /\ UNCHANGED vars

Next ==
    \/ SupStep \/ StopSupervisor \/ KillSupervisor \/ AllOver
    \/ \E t \in Tasks : TaskStep(t) \/ ChildStep(t) \/ ChildKilled(t) \/ KillAfterTimeout(t)
    \/ \E c \in Clients : \/ Returns(c)
                          \/ \E i \in Ids : \/ StartChild(c, i) \/ RestartChild(c, i)
                                            \/ TerminateChild(c, i)
    \/ \E i \in Ids : DeleteChild(i)

Spec == Init /\ [][Next]_vars

(* Ready tasks run, and a child that is told to stop, or dies, does end; a   *)
(* live child may live for ever.                                             *)
FairSpec ==
    /\ Spec
    /\ WF_vars(SupStep)
    /\ \A t \in Tasks : WF_vars(TaskStep(t)) /\ WF_vars(child[t] # "live" /\ ChildStep(t))
    /\ \A c \in Clients : WF_vars(Returns(c))

-----------------------------------------------------------------------------
Processes == [task: 0..MaxTasks, gen: 0..MaxStarts]

(* Every variable has the type of the attribute it stands for; the restarts  *)
(* a task has recorded and not yet given up on never exceed its intensity.   *)
TypeOK ==
    /\ sup \in {"seeding", "loop", "closing", "terminate", "wait", "teardown", "kid_wait",
                "seed_failed", "aborting", "aborted", "stopped"}
    /\ stop \in {None, "normal", "abnormal", "seed_failed"}
    /\ supKilled \in BOOLEAN /\ terminating \in BOOLEAN
    /\ todo \in Seq(Ids) /\ snapshot \in Seq(Ids) /\ specs \in Seq(Ids)
    /\ wait \in Processes /\ kids \subseteq Processes
    /\ preserve \subseteq Ids
    /\ children \in [Ids -> Tasks \cup {None}]
    /\ id \in [Tasks -> Ids \cup {None}]
    /\ at \in [Tasks -> {"none", "starting", "watching", "done"}]
    /\ gen \in [Tasks -> 0..MaxStarts]
    /\ child \in [Tasks -> {"none", "live", "stopping", "killed", "dying", "stopped"}]
    /\ crashed \in [Tasks -> BOOLEAN]
    /\ recorded \in [Tasks -> 0..MaxRestarts]
    /\ slid \in 0..MaxSlides /\ redone \subseteq Ids
    /\ client \in [Clients -> [op: {"idle", "start", "terminate"}, id: Ids \cup {None},
                               proc: Processes]]
    /\ wasKilled \in [Tasks -> BOOLEAN]

(* An id never has two processes, through restarts, start_child and          *)
(* terminate_child, as long as restart_child and delete_child, which do not  *)
(* look whether its task is between two processes, leave it alone.           *)
OneProcessPerId ==
    \A t, u \in Tasks :
        Running(t) /\ Running(u) /\ id[t] = id[u] /\ id[t] \notin redone => t = u

(* terminate_child was called for i, and its process, if it has one, has no  *)
(* entry.                                                                    *)
DroppedEntry(i) == i \in preserve /\ children[i] = None

(* SPEC.md 6.7: when terminate() waits for a child, every process, whether   *)
(* it still has its entry or not, of every child that was running and has a  *)
(* later spec is gone.  There is one exception (but see OneProcessPerId): a  *)
(* child given to terminate_child whose entry that call has dropped after it *)
(* had been restarted; that one is passed over, see NoneIsPassedOver.        *)
ShutdownInOrder ==
    sup = "wait" =>
        \A m, n \in DOMAIN specs :
            /\ m < n
            /\ specs[n] \notin redone
            /\ id[wait.task] = specs[m]
            /\ \E k \in DOMAIN snapshot : snapshot[k] = specs[n]
            => \A t \in Tasks : id[t] = specs[n] /\ Running(t) => DroppedEntry(specs[n])

(* A supervisor that is told to stop, fails or is killed does stop.          *)
Ending == stop # None \/ supKilled \/ sup \in {"seed_failed", "aborting", "aborted"}
SupervisorEnds == Ending ~> sup = "stopped"

(* A permanent child that has stopped, however, and a transient one that has *)
(* crashed, is back, unless terminate_child was called for it, or the        *)
(* supervisor ends.  A kill is no crash here, see KilledIsRestarted; what    *)
(* terminate_child has ended is the matter of TerminatedStaysDown.           *)
Failure(t) == at[t] = "watching" /\ child[t] = "stopped" /\ id[t] \notin preserve
              /\ (Restart[id[t]] = "transient" => crashed[t])
ChildReturns ==
    \A t \in Tasks :
        (Failure(t) /\ Restart[id[t]] # "temporary") ~> (child[t] = "live" \/ Ending)

-----------------------------------------------------------------------------
(* Promises of the documentation that the code does not keep. *)

(* SPEC.md 6.5: more than max_restarts restarts end the supervisor.          *)
Restarts == {r \in Tasks \X (1..MaxStarts) : r[2] < gen[r[1]]}
IntensityIsShared == slid = 0 => Cardinality(Restarts) <= MaxRestarts

(* SPEC.md 6.6, 6.7: the children do not outlive their supervisor.           *)
NoOrphans == sup = "stopped" => \A t \in Tasks : child[t] # "live"

(* test_supervisor.py: what terminate_child has ended stays undefined, until *)
(* start_child or restart_child is called for it.                            *)
TerminatedStaysDown ==
    [][\A t \in Tasks : at[t] = "watching" /\ at'[t] = "starting"
                            => id[t] \notin preserve]_vars

(* SPEC.md 6.3: a transient child that was killed is restarted.              *)
KilledIsRestarted ==
    [][\A t \in Tasks :
         /\ ~terminating /\ sup = "loop" /\ sup' = "loop"
         /\ at[t] = "watching" /\ wasKilled[t] /\ Restart[id[t]] = "transient"
         => at'[t] # "done"]_vars

(* SPEC.md 6.6, 6.7: the running children are stopped, so while terminate()  *)
(* waits, each running process has the entry it is found by.                 *)
NoneIsPassedOver ==
    sup = "wait" => \A t \in Tasks : Running(t) /\ id[t] \notin redone => children[id[t]] = t

(* start_child: a child that fails to start raises Failed.                   *)
StartChildReturns == \A c \in Clients : client[c].op = "start" ~> client[c].op = "idle"

=============================================================================
