# fastactor in TLA+

fastactor is an actor library for Python's `asyncio`/`anyio`, modelled on Erlang/OTP.
This directory holds TLA+ modules for the part of it that carries its own logic
(`src/src/fastactor/otp/`), TLC configurations that check them on small instances, and proofs of
their central invariants for all instances. File references are relative to the repository root;
`otp/` abbreviates `src/src/fastactor/otp/`, the packages of the library.

## Running

    tlc -config Process.cfg MCProcess.tla              # any row of the table of runs
    tlapm Process_proofs.tla                           # or any other *_proofs.tla

## The system and its parts

Everything runs in one event loop, cooperatively: a task gives way only at an `await`. So an
action of a module is a stretch of code between two awaits, and what makes the system hard is
what other tasks do at those awaits. Processes share memory: `link`, `monitor`, `kill`,
`register_name`, `cancel_subscription` change the tables of *another* process directly, from
whatever task calls them, while messages go through bounded mailboxes.

| Component | State | Operations | What is hard |
|---|---|---|---|
| Process (`process.py`) | mailbox (an anyio stream of `settings.mailbox_size`), exit reason, `links`, `monitors`, `monitored_by`, `_ignored_downs` | loop, stop, kill, link, unlink, monitor, demonitor, teardown | overlapping teardowns that block on each other's full mailboxes; monitors set up or dropped in the middle of one |
| GenServer (`gen_server.py`) | `_pending_results`, `_pending_continue`, `_idle_timeout` | call, cast, reply, continue, idle timeout | late, double and reordered replies; a callee that dies |
| Runtime names (`runtime.py`) | `registry`, `_reverse_registry`, `processes`, `_proc_keys` | spawn with `name=`/`via=`, register_name, unregister | check and registration are separated by awaits |
| Registry (`registry.py`) | entries per key, `_proc_keys` | register, unregister, scrub at exit | liveness of an owner is read from a table that lags behind |
| Supervisor (`supervisor.py`), one_for_one | `child_specs`, `children`, `_preserve_child_specs`, restart times | the task of each child, start/terminate/delete/restart_child, shutdown | client operations against restarts; shutdown against ending children; failed starts |
| Supervisor, one_for_all and rest_for_one | the same, `_strategy_stopped_events`, the stream of `_signal_strategy_update` | the manager task: wait for the first stop, stop the others, start the batch | stops and client operations in the middle of a restart of the group |
| DynamicSupervisor (`dynamic_supervisor.py`) | as Supervisor, `max_children` | its own `loop` and `start_child` | its children outlive its mailbox loop; the check of `max_children` is before an await |
| GenStateMachine (`gen_state_machine.py`) | state, `_next_events`, `_postponed`, `_state_timeout_scope`, `_named_timers` | loop, the callbacks' results, timers, stop, kill | four queues that must behave as one; timers against state changes; its own way to end |
| GenEvent (`gen_event.py`) | `_handlers` | add, delete, swap, call, notify, `on_terminate` | handlers go or are swapped, and raise, in the middle of a dispatch |
| GenStage (`gen_stage.py`) | subscriptions on both sides, the dispatcher's demand, `in_flight`, `_output_buffer` | subscribe, ask, dispatch, cancel | demand conservation; order through the buffer; blocking sends in both directions |
| Timers (`process.py:379-561`) | `_proc_timers`, `_proc_timer_fire_times`, `_proc_interval_timers`, `_proc_named_timers`, one task each | send_after, start_interval, cancel_timer, reschedule, teardown | calls against a timer that is due or ready to run; the tables are changed by calls and by the tasks themselves |
| Task, TaskSupervisor (`task.py`) | the result, the cancel scope of the coroutine | run, await, stop, kill | stop and kill wait for a scope that is not there yet; not modelled, see the end |
| Agent, telemetry, settings, utils | | | no control flow of their own |

What makes each part correct: *Process*: the tables of two processes agree at all times, each
monitor is answered once and with the right reason, teardown always completes. *GenServer*: every
call ends once, with an answer that was given for it or its own timeout. *Names*: both directions
of each table agree and an exit leaves nothing behind. *Supervisor*: one process per id, ordered
shutdown, an end to every shutdown, and what must be restarted is. *Groups*: no process of the old
group is left when the new one starts, and they stop in reverse order. *GenStateMachine*: no event
is lost, doubled or overtaken, and no timer outlives the state it is for. *GenEvent*: every installed
handler gets every event once and lives once. *GenStage*: demand is conserved, and
events are neither lost, doubled nor reordered. *Timers*: a cancelled timer is silent, the others
fire, and none outlives its owner.

## Modules

**`Process.tla`** models `_loop`, `_handle_message`, `_system_teardown`, `stop`, `kill`, `link`,
`unlink`, `monitor`, `demonitor`. `pc[p]` is the await at which the task of `p` is parked;
`running` is the task that has not reached its next await (a cascade of steps that no other task
can interrupt). A mailbox is the anyio stream: a message for a process parked in `receive()` is
handed to it, others go to a buffer of `MailboxSize`, a `send()` that finds the buffer full queues
in `senders`, FIFO, and closing the stream wakes the queue with an error. `downTodo` and
`exitTodo` are what the two loops of `_system_teardown` still have before them. `sent`, `seen`,
`late`, `flushed` are history. All processes are past `init`. `SendYields` says whether `send()`
gives way before it tries (it depends on the backend); the run takes the finer choice.

**`CallContract.tla`** states what `call` promises: each call is refused, returns an answer that was
offered for it, or fails, once, and an open call does end. **`GenServer.tla`** is the server with
its mailbox, continue, idle timeout, `_pending_results` and callers, and is shown to implement
the contract: `Contract == INSTANCE CallContract`, property `KeepsContract`. Callbacks are
demonic: they reply now, later, twice, never, out of order, raise, stop or call their own server.
A timeout is two steps: the deadline cancels the caller (`Expire`), and the caller runs (`TimeOut`).
In between its ref is still pending, so that a reply is stored, and the `finally` of `call` has to
take it out (`otp/process.py:284`).

**`Names.tla`** has the life of processes (`Spawn`, `Started`, `Exits`, `Unregister`) and the
four tables that name them. `Enroll` and `EnrollVia` are what the spawner does *after* its await.
`late` are processes that were given a name or key after their exit.

**`Supervisor.tla`** is the one_for_one supervisor: a task per child (`_run_child`), the
supervisor's own loop, `terminate`, teardown and abort, and clients that wait in `start_child`,
`terminate_child` and `restart_child`. A child is a small automaton (live, stopping, killed, dying,
stopped); that a process behaves so is what Process is about. `redone` is history: the ids that
`restart_child`, or `delete_child` and a new `start_child`, have started once more.

**`SupervisorGroup.tla`** EXTENDS Supervisor for the two other strategies: the supervisor's own task
and the children are those of Supervisor, a task now runs one process (`_supervise_once`), and `mgr`
is the manager (`_one_for_all`, `_rest_for_one`) with its locals. `events` are the stopped events,
`update` the stream that wakes the manager. A task of the model that is done may stand for a later
task of the program; its generation tells the processes apart. `mgr.ran` and `mgr.joining` are
history: the processes of the batch when it was chosen; `mgr.taken` are those of them whose event a
call of a client has taken out of `events` since (`Forgets`). Of these the manager knows nothing any
more: nobody waits for them, and `terminate_child` or `restart_child` in the middle of a restart can
leave one beside its successor (`NoneBesideItsSuccessor` below). So the two properties of the
groups are about the others, `Old` and `Joining`, and say so. `StopsInReverse` leaves out `redone`, the ids that a client has started once more, for
which two processes can run.

**`DynamicSupervisor.tla`** EXTENDS Supervisor with `loop`, where the method of that name is: it
starts nothing, catches nothing, and ends after the last child. `class` says what the object is, so
that one run asks the same questions of both classes.

**`EventQueue.tla`** states what a state machine promises of its events: one queue, from whose front
the machine takes them, may leave one until the state changes, and may inject one before those it
has not seen. **`GenStateMachine.tla`** has what the code has, the mailbox, `_next_events`,
`_postponed` and the event in hand, and timers that go from `asleep` to `due` (nothing can cancel
the send any more) and `ended`. `Requeue` is what a result does to the queues. The mapping
to the abstract queue is `postponed \o Taken \o next \o Unseen`: `Q == INSTANCE EventQueue`, property
`ImplementsQueue`. A state is the number of changes that led to it. The enter callback may postpone
too, and is then replayed with the events (`EnterReturns`); the queue is about the events only.

**`GenEvent.tla`** is a manager, its table of handlers and its mailbox. `at` is the callback it waits
for, `left` what a loop over `list(_handlers)` has still before it. Callbacks are demonic: they keep
or remove their handler, swap it or raise. `since`, `seen` and `lives` are history.

**`GenStage.tla`** is a graph of stages with any subscriptions between them. A handler's sends
are in `outbox`, each one a step that waits for room. `Greedy`, `Common` and `Hashed` state for
the three dispatchers which positions of a batch a subscription gets, in closed form instead of
the loops of the code; `Dispatch` is `_dispatch_events`.

**`Timers.tla`** has the timers of one process. A timer's task goes from `starting` to `sleeping`,
`awake` (its sleep is over and nothing can cancel the send any more), for an interval to `waiting`
and `acked`, and back. `timers`, `fire` and `intervals` are the three tables; `Replace` is what
`cancel_timer` and a new timer do to them, `Finish` the `finally` of the tasks. Time is only whether
the entry in `_proc_timer_fire_times` has come. `Plain` are the processes that run
`Process._loop`; others (`GenStateMachine`, `Task`) never set the ack. `Kill` closes a mailbox for
sending only: what is queued is still handled. `silenced` is history.

`MC*.tla` extend these with the constants of the instances. `*_proofs.tla` hold the proofs: one
module for each of Process, Names, Timers, GenEvent, GenStateMachine, GenServer and GenStage, and
`Supervisor_proofs` for Supervisor, DynamicSupervisor and SupervisorGroup. Lists are
filtered and summed with recursive functions (`Keep`, `Nums`, `Sum`) rather than with library operators that
declare `RECURSIVE`, so that the proofs can speak of them.

## Runs

| Run | Asks | Bounds, and why they are enough |
|---|---|---|
| `process` | tables, Downs, reasons, blocked senders, over all operations; `ShutdownCompletes` | two processes, one trapping, one ref, mailbox of one: both sides of a table can be at any await of teardown, any mailbox can be full, and two processes can wait for each other in every way there is: stop, send, link |
| `server` | replies, order, and the contract | two calls, four messages, mailbox of two: late, double and crossed replies, one between a deadline and the end of its caller, a full mailbox, a self-call |
| `names` | the tables, the scrub, the owner's key | two processes, two names, a unique and a duplicate registry, one key: every collision, also with an exiting process |
| `supervisor_safety` | one process per id, shutdown order | a seed and a second task, for another child or the same one again; permanent and transient, with a shutdown timeout and brutal_kill; every operation, failure and exit of the module, intensity one: at and past the limit |
| `supervisor_progress` | `SupervisorEnds`, `ChildReturns` for both classes, `ReturnsLast` | one id, two tasks, so that a client's task and a restarting task of the same id meet; the child is transient, so that how it ends matters; all operations of a client |
| `group` | `RestartedTogether`, `StopsInReverse` | three children, one of each restart and shutdown kind, both strategies, intensity one, one call of a client (`MaxCalls`): it can meet any step of a restart, and a second stop any step of the first |
| `timers` | tables, silence after a cancel, no pile-up, progress, end | two timers, so that one can replace the other, to the owner, which sets acks, and to a process that does not; mailbox of one |
| `stage_flow` | order, accounting, arrival | a producer with a consumer and a middle stage with a consumer, each dispatcher, batches of two against demands of two and one, mailbox of one: overproduction, partial batches and blocked sends all occur |
| `stage_cancel` | demand and restraint under cancel and stop | two consumers of one producer, each dispatcher |
| `state_machine` | the queue, the enter callback, timers, `SettledMachineDrains` | three events, two changes of state, one enter callback that postpones (`MaxEnters`), two timers (of the state and named), mailbox of one: an event can be postponed twice, behind another and in front of an injected one, and a timer can fire at a full mailbox |
| `events` | `EveryEventOnce`, `OneLifeAtATime` | three handlers, so that one goes while two are to come; five requests, enough to install two, dispatch, and swap or delete in between and after |
| `group_start` | a promise of the documentation, violated | two ids, the smallest instance that shows it |

Symmetry is used in `names` and `events` only, safety runs, over processes, names, keys and
handlers that start alike. Deadlock is checked in every run but those of the groups: each module
has an action that stutters once everything has ended (or, for GenStage, is at rest), so that a
state where tasks wait for each other for ever is reported. A group can really come to a halt, which
is what `group_start` shows; there `CHECK_DEADLOCK FALSE`.

### Fairness

Weak fairness on the steps of each task (the event loop runs every task that is ready) and on
timeouts (the clock advances). In Timers, a process reads its mailbox and its callbacks return; a target may
end at any time, but need not. In GenStateMachine callbacks return and timers that are due send, but
no timer need come due. In the supervisors a child that has been told to stop stops, and the manager
of a group is one more task. In GenStage, strong fairness of a blocked send: anyio gives a place
that becomes free to the sender that has waited longest. Nothing is assumed of users: nobody need
call, stop, subscribe, reply or make events, and a callback may run as long as it likes only where
the property does not depend on its end.

### What the passing runs show

Links and monitors stay consistent through every overlap of teardowns, kills and demonitors, also
when a teardown is blocked at a full mailbox; at most one Down is made per monitor, also when its
owner lets go of it in the middle of the send. Two processes that stop each other from callbacks
end, because one `stop()` times out; without the timeout they do not. A server implements the call contract whatever its callbacks
do, and a reply that comes late, or while its caller is being cancelled, leaves nothing in
`_pending_results`. After an exit only what was registered
*after* that exit is left. A supervisor that is killed, or in which something fails, also
by the Stop it then sends itself, ends; a transient child that has crashed and was not given to `terminate_child` comes back, unless
the supervisor ends. One process runs per id, unless a client starts an id once more, and a shutdown
stops the children in reverse order, all but a child whose entry `terminate_child` has dropped. A DynamicSupervisor returns last, after its children. A restarted group never overlaps
with what is left of the old one, also when its children end or fail to stop meanwhile, and stops in
reverse order, but for what clients have taken out of the hands of the manager. The queues of a state machine implement one queue, whatever is postponed,
replayed and injected; the enter callback is first, no sleeping timer is forgotten, and once its
state settles the machine comes back to its mailbox: postponed events do not spin. A GenEvent handler gets each event
once, in order, from its `init` to its removal, whatever others do in the middle of a dispatch. A timer that `cancel_timer` answered
with a number is silent for ever, an interval has one message under way however slow its target
is, and the end of the owner ends every task, also one that waits for an ack that never comes. Demand
in GenStage is conserved unit by unit under all three dispatchers, and events arrive. (In the runs
`min_demand` is 0; what a consumer asks with another one is counted by the theorem `DemandKept` only.)

### Promises that the code does not keep

One has a run and is listed as a finding: `start_child` enters the stopped event of the new child
before its process is up (`_start_strategy_children`), and a restart of the group that begins in
between waits for it (`otp/supervisor.py:410`), which nobody sets while the new child lives (`GroupComesBack`). The
modules state more, each checked to be violated in an instance of its module:

- Process: `NoMonitorOfTheDead` (a monitor set up during teardown is never answered),
  `AbnormalExitStopsPeers` (a linked peer with a full mailbox is never told, `otp/process.py:208`), `FlushedIsSilent`
  (`demonitor(flush=True)` during the send), `KilledReportsKilled` (a Stop in the backlog gives the
  reason).
- GenServer: `DeathIsNotATimeout` (a caller waits for its timeout when the callee dies).
- Names: `NameKept` (the second of two spawns with one name wins silently), `KeyKept` (a unique key
  taken in `init` can be stolen), `EntriesScrubbed` (a process that exits before its `via`
  registration leaves an entry), `ViaInsideInit`.
- Supervisor: `IntensityIsShared` (the intensity is counted per child), `NoOrphans` (shutdown aborted
  by a child that has just gone), `TerminatedStaysDown` (a permanent child returns after
  `terminate_child`), `KilledIsRestarted` (a killed transient child does not return),
  `StartChildReturns` (never, when the start fails), `NoneIsPassedOver` (`terminate_child` awaits the
  end of a child and then drops the entry of its id, also that of the process which has been
  restarted meanwhile; the shutdown passes over that one). `OneProcessPerId` leaves out the ids in
  `redone`: for those, two processes can run.
- SupervisorGroup: `NoneBesideItsSuccessor` (`terminate_child` of a child in the middle of a restart
  takes out its event and ends its task, so the manager does not wait for it: its successor is
  started while it is still stopping).
- DynamicSupervisor: `MaxChildrenKept` (two starts pass the check together; `src/README.md:257`),
  `SeedsAreStarted` (`children=` from `init` are never started; `otp/README.md:345`),
  `StartsNothingAfterwards` (children come back after it has stopped), `RuntimeUnharmed` (a failed
  start leaves `loop` as an exception).
- Timers: `OnePendingPerName` (`reschedule` does not stop a timer that is due, so two messages come;
  the docstring, `otp/process.py:520`, says "always leaves exactly one pending timer").
- GenStateMachine: `NoStaleTimeout` (a state timeout that has fired is handled in the next state),
  `MonitorsTold` (the loop ends without `_system_teardown`), `KillSkipsTerminate`, `TimersArrive` (a
  timer at a full mailbox is dropped). A callback that postpones its event and changes the state each time has
  it replayed for ever, and the mailbox is never read (`otp/gen_state_machine.py:234`, `:414`): that is
  why `SettledMachineDrains` asks for a state that settles.
- GenStage: `BacklogFirst` ("Always flush the output buffer first (handles ProducerConsumer
  backlog)", `otp/gen_stage.py:317`). When the slowest subscriber of a stage in the middle that
  broadcasts cancels, nothing flushes what it held back (`_do_cancel`), and the events that come
  next, from the producer and not from a demand, overtake it. The smallest graph that shows it is a
  producer, a middle stage and its two subscribers. `InOrder` leaves those stages out (`Overtakes`).
- GenEvent, with `Reused = TRUE`: a swap to a handler that is already installed enters it twice, and
  both properties fail.
- GenStage: `Backpressure` (a stage in the middle asks upstream again although it cannot pass on
  what it has). With a `min_demand` above 0 a consumer asks while events are still on their way to it, and a
  producer and a consumer with full mailboxes can wait for each other for ever. An instance that
  ends so: mailboxes of one, `max_demand` and `min_demand` of 3, batches of one, two consumers; the
  producer is sending an event to the first, which is sending demand to the producer, whose mailbox
  holds the request of the second. (`settings.mailbox_size` is 1024 by default.)

## Proofs

TLAPS checks these for every value of the constants: any number of processes, refs, timers,
handlers, children, tasks, clients or calls, any mailbox size and any workload.

| Theorem | States |
|---|---|
| `Process_proofs!Typed` | `Spec => []TypeOK`: mailboxes keep their bound, and no task reaches code that reads a reason, peer or message that is not there |
| `Process_proofs!TablesAlwaysAgree` | `TablesAgree`: links are symmetric, monitors and `monitored_by` inverse |
| `Process_proofs!DownsComeOnce`, `DownsTellTheTruth`, `NoSenderIsLost`, `SurvivorsAreLate` | `DownAtMostOnce`, `DownTellsReason`, `NoLostSender`, `OnlyLateMonitorsSurvive` |
| `Names_proofs!Typed`, `NamesAreInverse`, `EntriesAreTracked`, `ExitsLeaveNoNames` | `TypeOK` and the three invariants of `names` |
| `Names_proofs!OwnersKeepKeys` | the action property `OwnerKeepsKey` |
| `Timers_proofs!TimersTyped`, `TablesTracked`, `ReplacedAreDue`, `IntervalsDoNotPileUp` | `TypeOK`, `TablesTrackTimers`, `OnlyDueOnesLinger`, `NoPileUp` |
| `Timers_proofs!SilencedSendNothing` | the action property `SilencedStaySilent` |
| `GenServer_proofs!TakenInOrder`, `NobodyElsesAnswer`, `LateRepliesLeakNothing` | `InOrder`, `AnswersTheirOwnCall`, `NoResultLeak` |
| `GenServer_proofs!KeepsContractSafely` | `Spec => Contract!Safety`: every step of the server is a step of `CallContract` or none |
| `Supervisor_proofs!OneProcess`, `StopsInOrder` | `OneProcessPerId`, `ShutdownInOrder` |
| `Supervisor_proofs!ChildrenComeFirst` | `ReturnsLast`, for `DSpec` |
| `Supervisor_proofs!GroupRestartsTogether`, `GroupStopsInReverse` | `RestartedTogether`, `StopsInReverse`, for `GSpec` |
| `GenStateMachine_proofs!EntersFirst`, `SleepersInHand` | `EnterComesFirst`, `TimersInHand` |
| `GenStateMachine_proofs!QueuesAreOne` | `Spec => ImplementsQueue`: every step of the machine is a step of `EventQueue` or none |
| `GenEvent_proofs!HandlersLiveOnce`, `HandlersGetEveryEvent` | `OneLifeAtATime`, `EveryEventOnce`, where no handler is installed twice (`Reused = FALSE`; with it both are false) |
| `GenStage_proofs!TypesKept`, `DemandKept`, `MadeOnlyOnDemand` | `TypeOK`, `DemandConserved`, `MadeOnDemand` |
| `GenStage_proofs!OrderKept`, `NoneLost` | `InOrder`, `EventsAccounted`, where each stage in the middle has one producer (`Straight`) |

### What they assume

Only the named assumptions of the modules (`ProcessAssumption`, `NamesAssumption`,
`TimersAssumption`, `GenServerAssumption`, `GenEventAssumption`, `GenStateMachineAssumption`,
`SupervisorAssumption`, `DynamicAssumption`, `GroupAssumption`, `GenStageAssumption`), which TLC evaluates in each run. They give the
constants their types, keep null values apart from real ones and mailboxes from being of size 0. The one with
content is that `Seeds` has no id twice: `init` raises `Failed` for such specs
(`validate_child_specs`). GenEvent's theorems have `Reused = FALSE` as a hypothesis. `OrderKept` and
`NoneLost` have `Straight`, which says that a stage in the middle has one producer only, as in the graphs
of the runs. The code lets a stage subscribe to two, and then makes no promise: it passes on their events
in the order in which they happen to arrive.

### How they go

Each invariant of a run is a conjunct, or a consequence, of one that is inductive. The strengthenings
say what the properties silently rest on.

- *Process*, `IInv == TypeOK /\ TablesAgree`. Neither half is inductive alone: teardown reads
  the owner of a ref of its snapshot (`NextDown`), which is a process only because `TablesAgree` pairs
  every ref with an owner and covers the snapshot `downTodo` as well as `monitored_by`. The proof goes
  by groups of actions: lemmas say what `Deliver`, `Woken`, `Unlinked`, `LeaveLoop` preserve.
- *Its Downs*, `DownInv`. A ref is in one place only (`InOnePlace`): in a table, in a snapshot
  or in a Down that is being sent, queued, in hand or handled. That gives `DownAtMostOnce`, and with
  `AllTruthful` (reasons and the parties of a ref are final) `DownTellsReason`. A sender waits once,
  for a process whose mailbox is open and full (`NoLostSender`, `QueuedOnce`), and an open mailbox
  means that the loop runs (`LoopIsOpen`).
- *Names*, `IInv == TypeOK /\ NamesInverse /\ EntriesTracked /\ OnlyLateNamesSurvive`. The scrub
  looks only at the reverse map and at `_proc_keys`, so it is complete exactly because the maps are
  inverse and every entry is tracked (`ScrubbedIsComplete`).
- *Timers*. What a call may take out of the tables depends on where the timer's task is, so
  `TasksMatchTables` says which entries a task in each phase can have. `OneMessage`: the message of an
  interval is in one place, and only while its task waits for the ack or has ended.
- *GenServer*. A message for `handle_call` names its call (`CallsAreNamed`), the
  mailbox is numbered behind the message in hand (`Numbered`), and what is stored or returned was
  offered (`Offered`). That a caller which is cancelled has its ref until it runs is a stutter of the
  contract, and its `finally` is what `NoResultLeak` needs. The simulation of `CallContract` needs only `Offered`.
- *Supervisor*, `Core /\ Sealed`. An entry of `children` and a process that runs belong to the
  task of their id (`Started`, `Hosted`); once the group was cancelled no task starts anything, and
  until then a process only runs under a task that watches it (`Sealed`). For the order of a shutdown,
  `Descent`: what `terminate()` has left of its snapshot is the reverse of the specs as they are by now, whatever
  was added or removed since, and what it has passed is gone. `terminate()` finds a child by its entry,
  so the proof also needs to know when a process that runs has none (`EInv`): its id is
  in `redone`, or `terminate_child` was called for it (`Entered`, `DropsMarked`); the second is the
  exception of `ShutdownInOrder`. `DInv` is the same for
  DynamicSupervisor, whose tasks go on after the loop has been left.
- *SupervisorGroup*, `GroupInv`. `EventInv`: each event belongs to a process of its id, what runs is
  watched by a task that will set its event, and the manager still has before it the event of each process
  of the batch that is not over and that no client has taken; so all these are over when it starts again
  (`RestartedTogether`). For the
  order, two more parts, about the ids no client has started twice. `StartInv`: an id has one start
  under way at most, and none while it has an entry in `children`. `OrderInv`: a process of the batch that
  runs is the entry of its id, so that the manager finds it; where it comes to in its list, those of
  later specs came before or are over (`LeftInOrder`). Two lists go down the batch:
  its reverse and, for rest_for_one, the reverse of those behind the first in front of it
  (`ReverseGoesDown`, `BothGoDown`). A `terminate()` of the supervisor at the same time clears `children`
  only when it has stopped what the manager still looks for (`TerminateFinds`). The proof showed what both properties
  have to leave out: a process whose event a client has taken out, which the manager does not know any
  more (`mgr.taken`).
- *GenStateMachine*. A timer that runs has a scope and sleeps only in the table of that scope; if the
  present state has not been entered, `Enter` is first in `_next_events`. For `QueuesAreOne`,
  the abstract queue is written as four parts, `Left`, `InHand`, `Coming`, `Unread`, in this order.
  Lemmas say what each step does to the parts (`PartsArrive`, `PartsTake`, `PartsReturn`...), and
  others that each such change is a step of the queue. The invariant it needs is `Fits`:
  a message is handed over only when nothing else is to come, and an open mailbox means that the
  machine lives.
- *GenEvent*. `_handlers` has no handler twice, and what a loop has left neither (`NoneTwice`); a handler
  that comes, or that a queued swap brings, is nowhere else before (`ComesOnce`), which is where
  `Reused = FALSE` is needed; those that live are those in the table, or those left when the manager closes.

- *GenStage*, `IInv`. `DemandConserved` speaks only of a subscription between two living stages. What
  makes it inductive: a message is where its type says (`Addressed`), the handler of a stage at rest
  has nothing to send (`Resting`), a request to subscribe is on its way once at most and before the
  producer knows of it (`Begins`), and the demand of a subscription that is being cancelled is not
  counted again (`Cancels`). All that is on its way is counted with weights (`Load`, `Sum`), so that
  each action adds or takes the weight of one message, whatever the weights are for.
- *GenStage, what is made*, `MInv`. Why the source never buffers a batch on top of a batch is not that it
  looks: `handle_demand` is asked whenever a demand is told. It is that an event only waits in a buffer
  as long as no subscriber can get it (`Holds`, of each stage whose buffer is not about to be flushed), so that a source
  that is asked with demand has an empty buffer (`Restrained`). That rests on what the dispatchers
  have in common: what is left over comes behind all that was shared, and nobody can get
  more of it (`FairlyShared`; `GreedyShares`, `CommonShares`, `HashedShares`).
- *GenStage, the events*, `OInv == IInv /\ MInv /\ Placed /\ (InLine => AllSound)`. Every stage that feeds
  others is `Sound`. `Flow`: its buffer is in order, the route of each of its subscriptions is too, and
  what is buffered comes after all that was sent. `Level`: what it has passed on or buffers is what it
  accepted. `InPassing`: what a stage in the middle is about to pass on comes after all it has passed
  on. And `Holds`, for the stages in the middle too: that is why events which are dispatched behind a
  buffer cannot overtake it, since whoever has demand left can get nothing of what is buffered. A broadcast
  loses `Holds` when the slowest subscriber goes away (the least demand rises, and nobody flushes
  the buffer before the next batch), so the invariant speaks of behaviours in which no stage in the middle
  does (`InLine`); `BacklogFirst` above is what happens otherwise. The order of a stage follows
  from that of its producer, by way of `got` of its one subscription, which is where `Straight` is needed. The
  lemmas go by what an action does to a route: nothing, it adds to its end (`DispatchSound`), or it
  takes some away, which only a cancellation or the end of a stage does (`Thinner`).

What a recursive function (`Keep`, `Nums`, `Sum`) returns is proved by a least counterexample
(`LeastNumber`) or by `AllSequences`: a set of sequences that has the empty one and is closed under
`Append` has them all.

### Only model-checked

Liveness and deadlock freedom (outside the prover's reach), and so the fairness part of
`KeepsContract`. Every safety property of the runs is stated by a theorem. A `TypeOK` that no run lists
documents the types of its module; those of Process, Names, Timers and GenStage are proved as stated.

## What is left out

- *Data*: payloads, telemetry, logging, wire formats and process identifiers.
- *Process*: `init` (its order is in Names), cancellation from outside, and an `Exit` message that a
  user sends by hand.
- *Timers*: the teardown after an `init` that fails, and that a `WouldBlock` of a timer (`FireFull`)
  also leaves `Process.loop` and so ends the runtime; `TablesTrackTimers` allows what the code does,
  an entry of a cancelled interval that stays in `_proc_timer_fire_times` until the owner ends.
- *Names*: entry and exit of the runtime itself, `dispatch`, `lookup`.
- *Supervisor*: a child whose `init` returns Ignore, grandchildren. In a group the restart window does
  not slide, and the stream of updates holds one message.
- *GenStateMachine*: replies to calls, and more than one timer action or injected event in one result.
- *GenEvent*: the replies, and `which_handlers`, which only reads.
- *GenStage*: callbacks that raise, two subscriptions for one partition, a `Cancel` from the
  producer's side (no code sends one).
- *Task and TaskSupervisor*: a Task runs one coroutine and never reads its mailbox; `stop` and `kill`
  poll for the scope of the coroutine (`otp/task.py:110`, `:123`) and cancel it. Its end is the
  teardown of Process, and a TaskSupervisor starts it as a DynamicSupervisor does. The polling, a
  coroutine that ignores its cancellation, and a spawner that is cancelled before it acknowledges
  the start are what a module of its own would be about. *Agent*: a GenServer whose callbacks apply a function.
  *Telemetry, settings, utils*: nothing depends on them.

## Plan

Each safety property and action property that a run checks is proved, the refinements of `CallContract` and
`EventQueue` in their safety. What could be added: a module for Task; callbacks of GenStage that raise;
the restart period as time that passes, so that its boundary and its sliding become a property; a third
process in Process, for what a dropped exit signal must not keep from others; and lists of
actions in a result of GenStateMachine.
