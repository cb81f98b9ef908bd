------------------------- MODULE DynamicSupervisor -------------------------
(***************************************************************************)
(* fastactor/otp/dynamic_supervisor.py: the class that overrides loop() and *)
(* start_child() of Supervisor.  Its loop starts no child of init, cancels *)
(* nothing when the mailbox loop ends, and catches nothing: the process is *)
(* stopped, and then the task group waits for every _run_child, or lets an *)
(* exception through to the task group of the runtime.                     *)
(*                                                                         *)
(* One specification for the objects of both classes; of a Supervisor it   *)
(* takes the actions of Supervisor.tla as they are.                        *)
(***************************************************************************)
EXTENDS Supervisor

CONSTANTS Classes, MaxChildren

ASSUME DynamicAssumption ==
    /\ Classes \subseteq {"Supervisor", "DynamicSupervisor"}
    /\ MaxChildren \in Nat

VARIABLES
    class,
    loop     \* loop(): "in" it, to be left by an exception, "returned", "raised"

dvars == <<vars, class, loop>>

DInit ==
    /\ class \in Classes
    /\ loop = "in"
    /\ IF class = "Supervisor" THEN Init ELSE InitAt("loop", {})

Dynamic   == class = "DynamicSupervisor" /\ loop # "raised" /\ UNCHANGED class
Inherited == class = "Supervisor" /\ UNCHANGED <<class, loop>>

-----------------------------------------------------------------------------
(* The tasks of the children. *)

(* The group is cancelled; what its loop has still to do comes first.        *)
Raises == loop' = IF sup = "stopped" THEN "raised" ELSE "raising"

DStartFails(t) ==
    \/ sup # "stopped" /\ StartFails(t) /\ Raises
    \/ /\ sup = "stopped"
       /\ at[t] = "starting" /\ "start_fails" \in Workload
       /\ at' = [u \in Tasks |-> IF at[u] = "none" THEN "none" ELSE "done"]
       /\ Raises
       /\ UNCHANGED <<supvars, dicts, id, gen, recorded, slid, redone, procs, client>>

(* _fail_supervisor does nothing for a supervisor that has stopped.          *)
DRestartsExceeded(t) ==
    \/ /\ sup # "stopped" /\ RestartsExceeded(t)
       /\ IF sup = "loop" /\ ~supKilled THEN UNCHANGED loop ELSE Raises
    \/ /\ sup = "stopped" /\ Stopped(t)
       /\ ~terminating /\ ShouldRestart(t) /\ Exceeded(recorded[t] + 1)
       /\ at' = [at EXCEPT ![t] = "done"]
       /\ UNCHANGED <<supvars, specs, preserve, id, gen, recorded, slid, redone, procs,
                      client, loop>>

DTaskStep(t) ==
    /\ Dynamic
    /\ \/ DStartFails(t) \/ DRestartsExceeded(t)
       \/ (ChildStarted(t) \/ ChildEnds(t) \/ ChildRestarts(t)) /\ UNCHANGED loop

-----------------------------------------------------------------------------
(* Its own task. *)

(* terminate() raises; the process is torn down, and the exception goes on.  *)
DTerminateRaises == TerminateRaises /\ loop' = "raising"

(* Mutant: as in Supervisor, the group is cancelled at the end.              *)
KeepTasksNot == at' = [t \in Tasks |-> IF at[t] = "none" THEN "none" ELSE "done"]
KeepTasks == UNCHANGED at

(* _stopped is set.  Without an exception the group waits for its tasks.     *)
DFinish ==
    \/ /\ loop = "raising" /\ Finish
       /\ loop' = "raised"
    \/ /\ loop = "in" /\ sup = "teardown" /\ kids = {}
       /\ sup' = "stopped"
       /\ KeepTasks
       /\ UNCHANGED <<stop, supKilled, terminating, todo, wait, kids, snapshot, dicts, id, gen,
                      recorded, slid, redone, procs, client, loop>>

Returned ==
    /\ sup = "stopped" /\ loop = "in"
    /\ \A t \in Tasks : at[t] \in {"none", "done"}
    /\ loop' = "returned"
    /\ UNCHANGED vars

DSupStep ==
    /\ Dynamic
    /\ \/ DTerminateRaises \/ DFinish \/ Returned
       \/ /\ \/ LeaveLoop \/ BeginTerminate \/ NextChild \/ ChildGone \/ EndTerminate
             \/ SkipTerminate \/ NextKid \/ KidEnds \/ Abort
          /\ UNCHANGED loop

-----------------------------------------------------------------------------
(* The calls of clients: _task_group is set for good, and accepts new tasks  *)
(* until the loop is left, that is also when the process has stopped.        *)

DOpen == loop = "in" /\ sup \notin {"aborting", "aborted"}

Room == Cardinality({i \in Ids : children[i] # None}) < MaxChildren

DStartChild(c, i) == DOpen /\ Room /\ AddChild(c, i)
DRestartChild(c, i) == DOpen /\ AddAgain(c, i)

DUsers ==
    /\ Dynamic /\ UNCHANGED loop
    /\ \/ StopSupervisor \/ KillSupervisor
       \/ \E t \in Tasks : ChildKilled(t) \/ KillAfterTimeout(t)
       \/ \E i \in Ids : DeleteChild(i)
       \/ \E c \in Clients, i \in Ids :
             DStartChild(c, i) \/ DRestartChild(c, i) \/ TerminateChild(c, i)

-----------------------------------------------------------------------------
ClassTaskStep(t) == (Inherited /\ TaskStep(t)) \/ DTaskStep(t)
ClassSupStep     == (Inherited /\ SupStep) \/ DSupStep
EitherChildStep(t) == ChildStep(t) /\ UNCHANGED <<class, loop>>
EitherReturns(c)   == Returns(c) /\ UNCHANGED <<class, loop>>
ClassUsers ==
    \/ DUsers
    \/ /\ Inherited
       /\ \/ StopSupervisor \/ KillSupervisor
          \/ \E t \in Tasks : ChildKilled(t) \/ KillAfterTimeout(t)
          \/ \E i \in Ids : DeleteChild(i)
          \/ \E c \in Clients, i \in Ids :
                StartChild(c, i) \/ RestartChild(c, i) \/ TerminateChild(c, i)

DOver == sup = "stopped" /\ UNCHANGED dvars

DNext == \/ ClassSupStep \/ ClassUsers \/ DOver
         \/ \E t \in Tasks : ClassTaskStep(t) \/ EitherChildStep(t)
         \/ \E c \in Clients : EitherReturns(c)

DSpec == DInit /\ [][DNext]_dvars

(* As in Supervisor. *)
DFairSpec ==
    /\ DSpec
    /\ WF_dvars(ClassSupStep)
    /\ \A t \in Tasks : /\ WF_dvars(ClassTaskStep(t))
                        /\ WF_dvars(child[t] # "live" /\ EitherChildStep(t))
    /\ \A c \in Clients : WF_dvars(EitherReturns(c))

-----------------------------------------------------------------------------
(* A dynamic supervisor does not return before its children are gone, and    *)
(* with it the runtime waits for them; compare NoOrphans of Supervisor.      *)
ReturnsLast == loop = "returned" => \A t \in Tasks : ~Running(t)

-----------------------------------------------------------------------------
(* Promises of the documentation that the code does not keep. *)

(* README.md:257: max_children caps the pool.  Two starts, or a start and a  *)
(* restart, pass the check one beside the other.                             *)
MaxChildrenKept ==
    class = "DynamicSupervisor" => Cardinality({t \in Tasks : Running(t)}) <= MaxChildren

(* otp/README.md:345: children= seeds a DynamicSupervisor too.  Nothing ever *)
(* starts them.                                                              *)
SeedsAreStarted ==
    class = "DynamicSupervisor" =>
        \A n \in DOMAIN Seeds : <>(children[Seeds[n]] # None \/ Ending)

(* A DynamicSupervisor that has ended does not start children.               *)
StartsNothingAfterwards ==
    [][sup = "stopped" => \A t \in Tasks : gen'[t] = gen[t]]_dvars

(* What fails in one supervisor stays there.                                 *)
RuntimeUnharmed == loop # "raised"

=============================================================================
