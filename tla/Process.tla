------------------------------ MODULE Process ------------------------------
(***************************************************************************)
(* fastactor/otp/process.py: the mailbox loop of a Process, its exit path  *)
(* (`_loop`, `_system_teardown`), and the two ways processes observe each  *)
(* other, links and monitors.                                              *)
(*                                                                         *)
(* The runtime is cooperative: a task gives way only at an `await`.  An    *)
(* action is code between two awaits; where one action is not enough the   *)
(* task keeps the processor in `running` until it reaches its await.       *)
(* A mailbox is an anyio memory object stream of MailboxSize messages; a   *)
(* sender that finds it full raises (send_nowait) or queues (send).        *)
(***************************************************************************)
EXTENDS Naturals, Sequences, FiniteSets

CONSTANTS Procs,        \* the processes, all of them past init
          None,         \* no process, no message, no reason
          Trapping,     \* the processes started with trap_exits=True
          MailboxSize,  \* settings.mailbox_size
          MaxRefs,      \* bound: monitor() is called at most MaxRefs times
          SendYields,   \* send() is a scheduling point before it tries
          StopReasons,  \* the reasons users pass to stop() or return in Stop
          Workload      \* the operations users perform in this instance

Operations == {"info", "stop", "kill", "link", "unlink", "monitor",
               "demonitor", "raise", "call_stop", "call_closed"}
Reasons    == {"normal", "shutdown", "killed", "crash", "noproc"}

Refs    == 1..MaxRefs
Message == [type: {"Info", "Stop", "Exit", "Down"}, pid: Procs \cup {None},
            reason: Reasons, ref: 0..MaxRefs]

ASSUME ProcessAssumption ==
    /\ None \notin Procs /\ None \notin Reasons /\ None \notin Message
    /\ Trapping \subseteq Procs
    /\ MailboxSize \in Nat \ {0}
    /\ MaxRefs \in Nat
    /\ SendYields \in BOOLEAN
    /\ StopReasons \subseteq Reasons
    /\ Workload \subseteq Operations

Info          == [type |-> "Info", pid |-> None, reason |-> "normal", ref |-> 0]
Stop(p, r)    == [type |-> "Stop", pid |-> p, reason |-> r, ref |-> 0]
Exit(p, r)    == [type |-> "Exit", pid |-> p, reason |-> r, ref |-> 0]
(* Mutant: every Down says normal. *)
DownAlwaysNormal(p, r, n) ==
    [type |-> "Down", pid |-> p, reason |-> "normal", ref |-> n]
Down(p, r, n) == [type |-> "Down", pid |-> p, reason |-> r, ref |-> n]

VARIABLES
    pc,           \* where the task of each process is
    running,      \* the task that has not reached an await yet, or None
    inboxOpen,    \* the send end of the mailbox is open
    mailbox,      \* the buffered messages
    senders,      \* the tasks queued in send(), oldest first
    current,      \* the message taken from the mailbox and not yet finished
    reason,       \* the exit reason, once the loop has been left
    killed,       \* _forced_exit_reason and _skip_terminate, set by kill()
    links, monitors, monitoredBy, ignoredDowns,
    owner, target, nextRef,     \* who monitors whom under each ref
    downTodo, exitTodo,         \* what the loops of _system_teardown have left
    peer, outgoing,             \* whom the task waits for, and its message
    sent, seen, late, flushed   \* history: Downs made, Downs handled, refs
                                \* made during the target's teardown, refs
                                \* given to demonitor(flush=True)

mail    == <<inboxOpen, mailbox, senders, current>>
life    == <<reason, killed>>
tables  == <<links, monitors, monitoredBy, ignoredDowns, owner, target, nextRef>>
work    == <<downTodo, exitTodo, peer, outgoing>>
history == <<sent, seen, late, flushed>>
vars    == <<pc, running, mail, life, tables, work, history>>

(* The places a task can be in, by the await it is parked at. *)
InLoop     == {"idle", "handling", "callback", "awaiting_stop"}
InTeardown == {"downs", "send", "send_wait", "exits", "peer_stop", "unregister"}
Pcs        == InLoop \cup {"terminating", "closing"} \cup InTeardown \cup {"stopped"}

(* The task of p stands at the await `place` and may go on. *)
At(p, place) == pc[p] = place /\ running \in {p, None}

Live(p)    == pc[p] \in InLoop
Stopped(p) == pc[p] = "stopped"         \* has_stopped()
Dying(p)   == pc[p] \in InTeardown      \* past the snapshot of monitored_by

(* is_normal_shutdown_reason, negated. *)
Abnormal(r) == r \notin {"normal", "shutdown"}

Init ==
    /\ pc = [p \in Procs |-> "idle"]
    /\ running = None
    /\ inboxOpen = [p \in Procs |-> TRUE]
    /\ mailbox = [p \in Procs |-> <<>>]
    /\ senders = [p \in Procs |-> <<>>]
    /\ current = [p \in Procs |-> None]
    /\ reason = [p \in Procs |-> None]
    /\ killed = [p \in Procs |-> FALSE]
    /\ links = [p \in Procs |-> {}]
    /\ monitors = [p \in Procs |-> {}]
    /\ monitoredBy = [p \in Procs |-> {}]
    /\ ignoredDowns = [p \in Procs |-> {}]
    /\ owner = [r \in Refs |-> None]
    /\ target = [r \in Refs |-> None]
    /\ nextRef = 1
    /\ downTodo = [p \in Procs |-> {}]
    /\ exitTodo = [p \in Procs |-> {}]
    /\ peer = [p \in Procs |-> None]
    /\ outgoing = [p \in Procs |-> None]
    /\ sent = [r \in Refs |-> 0]
    /\ seen = [r \in Refs |-> 0]
    /\ late = {}
    /\ flushed = {}

-----------------------------------------------------------------------------
(* The memory object stream.  A message for a process parked in receive()  *)
(* is handed to it; any other goes to the buffer.                           *)

Parked(q)  == pc[q] = "idle" /\ mailbox[q] = <<>>
Accepts(q) == inboxOpen[q] /\ (Parked(q) \/ Len(mailbox[q]) < MailboxSize)
Full(q)    == inboxOpen[q] /\ ~Accepts(q)

Deliver(q, m) ==
    /\ Accepts(q)
    /\ IF Parked(q) THEN current' = [current EXCEPT ![q] = m] /\ UNCHANGED mailbox
                    ELSE mailbox' = [mailbox EXCEPT ![q] = Append(@, m)]
                         /\ UNCHANGED current
    /\ UNCHANGED <<inboxOpen, senders>>

Woken(q) == IF Parked(q) THEN [pc EXCEPT ![q] = "handling"] ELSE pc

(* The loop of _system_teardown a blocked or finished send() returns to. *)
(* Mutant: it sends again. *)
ResumeRetries(p) == "send"
Resume(p) == IF outgoing[p].type = "Down" THEN "downs" ELSE "exits"

(* Mutant: closing the stream wakes nobody. *)
QueuedAtNobody(q) == {}
QueuedAt(q) == {senders[q][i] : i \in DOMAIN senders[q]}

(* receive(): a queued sender, if any, refills the slot that is taken. *)
Receive(p) ==
    /\ At(p, "idle") /\ mailbox[p] # <<>>
    /\ current' = [current EXCEPT ![p] = Head(mailbox[p])]
    /\ IF senders[p] = <<>>
       THEN /\ mailbox' = [mailbox EXCEPT ![p] = Tail(@)]
            /\ pc' = [pc EXCEPT ![p] = "handling"]
            /\ UNCHANGED senders
       ELSE LET s == Head(senders[p])
            IN  /\ mailbox' = [mailbox EXCEPT ![p] = Append(Tail(@), outgoing[s])]
                /\ pc' = [pc EXCEPT ![p] = "handling", ![s] = Resume(s)]
                /\ senders' = [senders EXCEPT ![p] = Tail(@)]
    /\ UNCHANGED <<running, inboxOpen, life, tables, work, history>>

-----------------------------------------------------------------------------
(* Leaving the loop: the streams close with the `async with`, which wakes   *)
(* every queued sender with BrokenResourceError.                            *)

LeaveLoop(p, r) ==
    /\ reason' = [reason EXCEPT ![p] = r]
    /\ inboxOpen' = [inboxOpen EXCEPT ![p] = FALSE]
    /\ mailbox' = [mailbox EXCEPT ![p] = <<>>]
    /\ senders' = [senders EXCEPT ![p] = <<>>]
    /\ current' = [current EXCEPT ![p] = None]
    /\ pc' = [q \in Procs |->
                IF q = p THEN "closing"
                ELSE IF q \in QueuedAt(p) THEN Resume(q) ELSE pc[q]]
    /\ UNCHANGED <<running, killed>>

(* EndOfStream: the inbox was closed (only kill() does) and is drained. *)
EndOfStream(p) ==
    /\ At(p, "idle") /\ mailbox[p] = <<>> /\ ~inboxOpen[p]
    /\ LeaveLoop(p, IF killed[p] THEN "killed" ELSE "normal")
    /\ UNCHANGED <<tables, work, history>>

(* Mutant: unlink forgets the other side. *)
UnlinkedOneSided(p, q) == [links EXCEPT ![p] = @ \ {q}]
Unlinked(p, q) == [links EXCEPT ![p] = @ \ {q}, ![q] = @ \ {p}]

(* _dispatch_message / Process._handle_message, one action per message. *)
HandleStop(p) ==
    /\ At(p, "handling") /\ current[p].type = "Stop"
    /\ LeaveLoop(p, current[p].reason)
    /\ UNCHANGED <<tables, work, history>>

HandleExit(p) ==
    /\ At(p, "handling") /\ current[p].type = "Exit"
    /\ IF p \notin Trapping /\ Abnormal(current[p].reason)
       THEN /\ links' = Unlinked(p, current[p].pid)
            /\ LeaveLoop(p, current[p].reason)
       ELSE /\ pc' = [pc EXCEPT ![p] = "callback"]         \* handle_exit
            /\ UNCHANGED <<running, mail, life, links>>
    /\ UNCHANGED <<monitors, monitoredBy, ignoredDowns, owner, target, nextRef,
                   work, history>>

HandleDown(p) ==
    /\ At(p, "handling") /\ current[p].type = "Down"
    /\ LET r == current[p].ref
       IN  IF r \in ignoredDowns[p]
           THEN /\ ignoredDowns' = [ignoredDowns EXCEPT ![p] = @ \ {r}]
                /\ pc' = [pc EXCEPT ![p] = "idle"]
                /\ current' = [current EXCEPT ![p] = None]
                /\ UNCHANGED seen
           ELSE /\ seen' = [seen EXCEPT ![r] = @ + 1]
                /\ pc' = [pc EXCEPT ![p] = "callback"]     \* handle_down
                /\ UNCHANGED <<ignoredDowns, current>>
    /\ UNCHANGED <<running, inboxOpen, mailbox, senders, life, links, monitors, monitoredBy,
                   owner, target, nextRef, work, sent, late, flushed>>

HandleInfo(p) ==
    /\ At(p, "handling") /\ current[p].type = "Info"
    /\ pc' = [pc EXCEPT ![p] = "callback"]                 \* handle_info
    /\ UNCHANGED <<running, mail, life, tables, work, history>>

-----------------------------------------------------------------------------
(* What a user callback, and the continuations it returns, may do.          *)

CallbackReturns(p) ==
    /\ At(p, "callback")
    /\ pc' = [pc EXCEPT ![p] = "idle"]
    /\ current' = [current EXCEPT ![p] = None]
    /\ UNCHANGED <<running, inboxOpen, mailbox, senders, life, tables, work, history>>

CallbackRaises(p) ==
    /\ At(p, "callback") /\ "raise" \in Workload
    /\ LeaveLoop(p, "crash")
    /\ UNCHANGED <<tables, work, history>>

(* handle_info, or a continuation of it, returns Stop(reason). *)
CallbackReturnsStop(p) ==
    /\ At(p, "callback") /\ current[p].type = "Info" /\ "stop" \in Workload
    /\ \E r \in StopReasons : LeaveLoop(p, r)
    /\ UNCHANGED <<tables, work, history>>

(* The callback awaits other.stop(r): accepted, it waits for the other.      *)
CallbackStops(p) ==
    /\ At(p, "callback") /\ "call_stop" \in Workload
    /\ \E q \in Procs, r \in StopReasons :
         /\ ~Stopped(q)
         /\ Deliver(q, Stop(p, r))
         /\ pc' = [Woken(q) EXCEPT ![p] = "awaiting_stop"]
         /\ peer' = [peer EXCEPT ![p] = q]
    /\ UNCHANGED <<running, life, tables, downTodo, exitTodo, outgoing, history>>

(* The callback's send_nowait raises: WouldBlock, or BrokenResourceError     *)
(* while the streams close, is a crash like any other; ClosedResourceError,  *)
(* meant for the process's own streams, is taken for a kill.                 *)
CallbackSendFails(p) ==
    /\ At(p, "callback") /\ "call_closed" \in Workload
    /\ \E q \in Procs :
         \/ ~inboxOpen[q] /\ LeaveLoop(p, "killed")
         \/ (Full(q) \/ pc[q] = "closing") /\ LeaveLoop(p, "crash")
    /\ UNCHANGED <<tables, work, history>>

StopReturns(p) ==
    /\ At(p, "awaiting_stop") /\ Stopped(peer[p])
    /\ pc' = [pc EXCEPT ![p] = "callback"]
    /\ peer' = [peer EXCEPT ![p] = None]
    /\ UNCHANGED <<running, mail, life, tables, downTodo, exitTodo, outgoing, history>>

(* fail_after(timeout): the TimeoutError leaves the callback and crashes it. *)
(* Mutant: stop(timeout=None). *)
StopNeverTimesOut(p) == FALSE
StopTimesOut(p) ==
    /\ At(p, "awaiting_stop") /\ ~Stopped(peer[p])
    /\ LeaveLoop(p, "crash")
    /\ peer' = [peer EXCEPT ![p] = None]
    /\ UNCHANGED <<tables, downTodo, exitTodo, outgoing, history>>

-----------------------------------------------------------------------------
(* terminate() and _system_teardown *)

(* terminate() runs unless the process was killed, or does not trap exits    *)
(* and was shut down.                                                        *)
RunsTerminate(p) ==
    ~killed[p] /\ (p \in Trapping \/ reason[p] = "normal" \/ Abnormal(reason[p]))

Terminate(p) ==
    /\ At(p, "closing") /\ RunsTerminate(p)
    /\ pc' = [pc EXCEPT ![p] = "terminating"]
    /\ UNCHANGED <<running, mail, life, tables, work, history>>

(* terminate() is over, or was skipped: the snapshot of monitored_by. *)
BeginTeardown(p) ==
    /\ \/ At(p, "terminating")
       \/ At(p, "closing") /\ ~RunsTerminate(p)
    /\ pc' = [pc EXCEPT ![p] = "downs"]
    /\ running' = p
    /\ downTodo' = [downTodo EXCEPT ![p] = monitoredBy[p]]
    /\ UNCHANGED <<mail, life, tables, exitTodo, peer, outgoing, history>>

(* One round of the first loop, up to its await: dicts iterate in insertion  *)
(* order and refs are numbered in that order.                                *)
NextDown(p) ==
    /\ At(p, "downs")
    /\ \E r \in downTodo[p] :
         /\ \A s \in downTodo[p] : r <= s
         /\ downTodo' = [downTodo EXCEPT ![p] = @ \ {r}]
         /\ monitoredBy' = [monitoredBy EXCEPT ![p] = @ \ {r}]
         /\ monitors' = [monitors EXCEPT ![owner[r]] = @ \ {r}]
         /\ peer' = [peer EXCEPT ![p] = owner[r]]
         /\ outgoing' = [outgoing EXCEPT ![p] = Down(p, reason[p], r)]
         /\ sent' = [sent EXCEPT ![r] = @ + 1]
    /\ pc' = [pc EXCEPT ![p] = "send"]
    /\ running' = IF SendYields THEN None ELSE p
    /\ UNCHANGED <<mail, life, links, ignoredDowns, owner, target, nextRef, exitTodo,
                   seen, late, flushed>>

(* await process.send(...): delivered, queued behind a full mailbox, or an   *)
(* exception that is logged.                                                 *)
Send(p) ==
    /\ At(p, "send")
    /\ LET q == peer[p]
       IN \/ /\ Deliver(q, outgoing[p])
             /\ pc' = [Woken(q) EXCEPT ![p] = Resume(p)]
             /\ running' = p
          \/ /\ Full(q)
             /\ senders' = [senders EXCEPT ![q] = Append(@, p)]
             /\ pc' = [pc EXCEPT ![p] = "send_wait"]
             /\ running' = None
             /\ UNCHANGED <<inboxOpen, mailbox, current>>
          \/ /\ ~inboxOpen[q]
             /\ pc' = [pc EXCEPT ![p] = Resume(p)]
             /\ running' = p
             /\ UNCHANGED mail
    /\ UNCHANGED <<life, tables, work, history>>

(* Mutant: an exception of send() ends the first loop. *)
DownsDoneEarly(p) == TRUE
DownsDone(p) == downTodo[p] = {}

(* The first loop is over: the snapshot of links. *)
BeginExits(p) ==
    /\ At(p, "downs") /\ DownsDone(p)
    /\ pc' = [pc EXCEPT ![p] = "exits"]
    /\ running' = p
    /\ exitTodo' = [exitTodo EXCEPT ![p] = links[p]]
    /\ UNCHANGED <<mail, life, tables, downTodo, peer, outgoing, history>>

(* One round of the second loop: an Exit message for a peer that traps       *)
(* exits, stop(reason) for one that does not if the exit is abnormal.        *)
NotifyTrapping(p, q) ==
    /\ q \in Trapping
    /\ pc' = [pc EXCEPT ![p] = "send"]
    /\ peer' = [peer EXCEPT ![p] = q]
    /\ outgoing' = [outgoing EXCEPT ![p] = Exit(p, reason[p])]
    /\ running' = IF SendYields THEN None ELSE p
    /\ UNCHANGED mail

StopPeer(p, q) ==
    /\ q \notin Trapping /\ Abnormal(reason[p]) /\ ~Stopped(q)
    /\ Deliver(q, Stop(p, reason[p]))
    /\ pc' = [Woken(q) EXCEPT ![p] = "peer_stop"]
    /\ peer' = [peer EXCEPT ![p] = q]
    /\ running' = None
    /\ UNCHANGED outgoing

(* Normal exit, peer already stopped, or send_nowait raised: nothing to do.  *)
SkipPeer(p, q) ==
    /\ q \notin Trapping
    /\ ~Abnormal(reason[p]) \/ Stopped(q) \/ ~Accepts(q)
    /\ running' = p
    /\ UNCHANGED <<pc, mail, peer, outgoing>>

NextExit(p) ==
    /\ At(p, "exits")
    /\ \E q \in exitTodo[p] :
         /\ exitTodo' = [exitTodo EXCEPT ![p] = @ \ {q}]
         /\ links' = Unlinked(p, q)
         /\ NotifyTrapping(p, q) \/ StopPeer(p, q) \/ SkipPeer(p, q)
    /\ UNCHANGED <<life, monitors, monitoredBy, ignoredDowns, owner, target, nextRef,
                   downTodo, history>>

(* process.stop() returns, or times out and is logged. *)
PeerStopEnds(p) ==
    /\ At(p, "peer_stop")
    /\ pc' = [pc EXCEPT ![p] = "exits"]
    /\ running' = p
    /\ UNCHANGED <<mail, life, tables, work, history>>

(* monitored_by of everyone without the monitors that p owns. *)
(* Mutant: only the owner's table is cleared. *)
ReleasedNot(p) == monitoredBy
Released(p) ==
    [q \in Procs |-> monitoredBy[q] \ {r \in monitors[p] : target[r] = q}]

ExitsDone(p) == exitTodo[p] = {}

(* The second loop is over: the process drops the monitors it owns. *)
DropMonitors(p) ==
    /\ At(p, "exits") /\ ExitsDone(p)
    /\ monitoredBy' = Released(p)
    /\ monitors' = [monitors EXCEPT ![p] = {}]
    /\ pc' = [pc EXCEPT ![p] = "unregister"]
    /\ running' = None
    /\ UNCHANGED <<mail, life, links, ignoredDowns, owner, target, nextRef, work, history>>

(* Runtime.unregister and the last events are over: _stopped is set. *)
Finish(p) ==
    /\ At(p, "unregister")
    /\ pc' = [pc EXCEPT ![p] = "stopped"]
    /\ UNCHANGED <<running, mail, life, tables, work, history>>

-----------------------------------------------------------------------------
(* The operations of Process that other tasks call. *)

Called(op) == op \in Workload /\ running = None

SendInfo(p) ==
    /\ Called("info")
    /\ Deliver(p, Info)
    /\ pc' = Woken(p)
    /\ UNCHANGED <<running, life, tables, work, history>>

RequestStop(p) ==
    /\ Called("stop") /\ ~Stopped(p)
    /\ \E r \in StopReasons : Deliver(p, Stop(None, r))
    /\ pc' = Woken(p)
    /\ UNCHANGED <<running, life, tables, work, history>>

Kill(p) ==
    /\ Called("kill") /\ ~Stopped(p) /\ ~killed[p]
    /\ killed' = [killed EXCEPT ![p] = TRUE]
    /\ inboxOpen' = [inboxOpen EXCEPT ![p] = FALSE]
    /\ UNCHANGED <<running, pc, mailbox, senders, current, reason, tables, work, history>>

Link(p, q) ==
    /\ Called("link") /\ Live(p) /\ p # q
    /\ links' = [links EXCEPT ![p] = @ \cup {q}, ![q] = @ \cup {p}]
    /\ UNCHANGED <<running, pc, mail, life, monitors, monitoredBy, ignoredDowns, owner, target,
                   nextRef, work, history>>

Unlink(p, q) ==
    /\ Called("unlink") /\ Live(p) /\ p # q
    /\ links' = Unlinked(p, q)
    /\ UNCHANGED <<running, pc, mail, life, monitors, monitoredBy, ignoredDowns, owner, target,
                   nextRef, work, history>>

Monitor(p, q) ==
    /\ Called("monitor") /\ Live(p) /\ p # q /\ nextRef <= MaxRefs
    /\ owner' = [owner EXCEPT ![nextRef] = p]
    /\ target' = [target EXCEPT ![nextRef] = q]
    /\ nextRef' = nextRef + 1
    /\ IF Stopped(q)
       THEN /\ Deliver(p, Down(q, "noproc", nextRef))
            /\ pc' = Woken(p)
            /\ sent' = [sent EXCEPT ![nextRef] = @ + 1]
            /\ UNCHANGED <<monitors, monitoredBy, late>>
       ELSE /\ monitors' = [monitors EXCEPT ![p] = @ \cup {nextRef}]
            /\ monitoredBy' = [monitoredBy EXCEPT ![q] = @ \cup {nextRef}]
            /\ late' = IF Dying(q) THEN late \cup {nextRef} ELSE late
            /\ UNCHANGED <<pc, mail, sent>>
    /\ UNCHANGED <<running, life, links, ignoredDowns, work, seen, flushed>>

Demonitor(p, r, flush) ==
    /\ Called("demonitor") /\ Live(p) /\ owner[r] = p
    /\ IF r \in monitors[p]
       THEN /\ monitors' = [monitors EXCEPT ![p] = @ \ {r}]
            /\ monitoredBy' = [monitoredBy EXCEPT ![target[r]] = @ \ {r}]
            /\ UNCHANGED ignoredDowns
       ELSE /\ flush
            /\ ignoredDowns' = [ignoredDowns EXCEPT ![p] = @ \cup {r}]
            /\ UNCHANGED <<monitors, monitoredBy>>
    /\ flushed' = IF flush THEN flushed \cup {r} ELSE flushed
    /\ UNCHANGED <<running, pc, mail, life, links, owner, target, nextRef, work, sent, seen, late>>

-----------------------------------------------------------------------------
(* The steps of the task of process p, and those of everybody else. *)

Step(p) ==
    \/ Receive(p) \/ EndOfStream(p)
    \/ HandleStop(p) \/ HandleExit(p) \/ HandleDown(p) \/ HandleInfo(p)
    \/ CallbackReturns(p) \/ CallbackRaises(p) \/ CallbackReturnsStop(p)
    \/ CallbackStops(p) \/ CallbackSendFails(p) \/ StopReturns(p) \/ StopTimesOut(p)
    \/ Terminate(p) \/ BeginTeardown(p) \/ NextDown(p) \/ Send(p) \/ BeginExits(p)
    \/ NextExit(p) \/ PeerStopEnds(p) \/ DropMonitors(p) \/ Finish(p)

Environment ==
    \E p \in Procs :
      \/ SendInfo(p) \/ RequestStop(p) \/ Kill(p)
      \/ \E q \in Procs : Link(p, q) \/ Unlink(p, q) \/ Monitor(p, q)
      \/ \E r \in Refs, flush \in BOOLEAN : Demonitor(p, r, flush)

(* Every process has stopped: there is nothing left to run. *)
AllStopped == (\A p \in Procs : Stopped(p)) /\ UNCHANGED vars

Next == Environment \/ AllStopped \/ \E p \in Procs : Step(p)

Spec == Init /\ [][Next]_vars

(* asyncio runs every ready task, callbacks return and timeouts fire. *)
FairSpec == Spec /\ \A p \in Procs : WF_vars(Step(p))

-----------------------------------------------------------------------------
StreamTypes ==
    /\ inboxOpen \in [Procs -> BOOLEAN]
    /\ mailbox \in [Procs -> Seq(Message)]
    /\ \A p \in Procs : Len(mailbox[p]) <= MailboxSize
    /\ senders \in [Procs -> Seq(Procs)]
    /\ current \in [Procs -> Message \cup {None}]

TaskTypes ==
    /\ pc \in [Procs -> Pcs]
    /\ running \in Procs \cup {None}
    /\ reason \in [Procs -> Reasons \cup {None}]
    /\ killed \in [Procs -> BOOLEAN]
    /\ downTodo \in [Procs -> SUBSET Refs]
    /\ exitTodo \in [Procs -> SUBSET Procs]
    /\ peer \in [Procs -> Procs \cup {None}]
    /\ outgoing \in [Procs -> Message \cup {None}]

TableTypes ==
    /\ links \in [Procs -> SUBSET Procs]
    /\ monitors \in [Procs -> SUBSET Refs]
    /\ monitoredBy \in [Procs -> SUBSET Refs]
    /\ ignoredDowns \in [Procs -> SUBSET Refs]
    /\ owner \in [Refs -> Procs \cup {None}]
    /\ target \in [Refs -> Procs \cup {None}]
    /\ nextRef \in 1..(MaxRefs + 1)
    /\ sent \in [Refs -> Nat]
    /\ seen \in [Refs -> Nat]
    /\ late \subseteq Refs
    /\ flushed \subseteq Refs

(* A task has what the code at its place reads: a message to handle or to    *)
(* send, whom to send it to or wait for, a reason to exit with.              *)
TasksReady ==
    \A p \in Procs :
      /\ pc[p] \in {"handling", "callback", "awaiting_stop"} => current[p] # None
      /\ pc[p] \notin InLoop => reason[p] # None
      /\ pc[p] \in {"send", "send_wait"} => outgoing[p] # None
      /\ pc[p] \in {"send", "send_wait", "awaiting_stop", "peer_stop"} => peer[p] # None
      /\ \A i \in DOMAIN senders[p] :
           reason[senders[p][i]] # None /\ outgoing[senders[p][i]] # None

(* Every variable has the type of the attribute it stands for, a mailbox     *)
(* never exceeds its size, and no task lacks what it reads next.             *)
TypeOK == StreamTypes /\ TaskTypes /\ TableTypes /\ TasksReady

(* The tables two processes share agree at every step of either: links are   *)
(* symmetric, and a ref is in its owner's `monitors` exactly while it is in  *)
(* the target's `monitored_by`.  A ref is used once, and a Down is only made *)
(* by the process that the ref is about.                                     *)
TablesAgree ==
    /\ \A p, q \in Procs : q \in links[p] <=> p \in links[q]
    /\ \A p \in Procs : \A r \in monitors[p] :
         owner[r] = p /\ target[r] \in Procs /\ r \in monitoredBy[target[r]]
    /\ \A q \in Procs : \A r \in monitoredBy[q] :
         target[r] = q /\ owner[r] \in Procs /\ r \in monitors[owner[r]]
    /\ \A q \in Procs : \A r \in downTodo[q] : target[r] = q /\ owner[r] \in Procs
    /\ \A r \in Refs : r >= nextRef => owner[r] = None /\ target[r] = None

(* A monitor is one-shot: whatever is called while its target goes down, at  *)
(* most one Down is made under a ref, and handle_down runs at most once.     *)
DownAtMostOnce == \A r \in Refs : sent[r] <= 1 /\ seen[r] <= sent[r]

(* Nobody is left behind a mailbox that is not read: a task queued in send() *)
(* waits for a process in its loop, with a full mailbox, that it notifies.   *)
NoLostSender ==
    /\ \A q \in Procs : \A i \in DOMAIN senders[q] :
         LET p == senders[q][i]
         IN  /\ pc[p] = "send_wait" /\ peer[p] = q
             /\ Live(q) /\ Len(mailbox[q]) = MailboxSize
    /\ \A p \in Procs :
         pc[p] = "send_wait" => \E i \in DOMAIN senders[peer[p]] : senders[peer[p]][i] = p

(* A monitor set up before the target's teardown takes its snapshot is gone  *)
(* when the target has stopped: the owner was notified, or let it go.        *)
OnlyLateMonitorsSurvive ==
    \A p \in Procs : Stopped(p) => monitoredBy[p] \subseteq late

(* The reason in a Down message is the exit reason of its sender, or noproc  *)
(* if the sender had stopped before it was monitored.                        *)
InTransit == {current[p] : p \in Procs}
             \cup UNION {{mailbox[p][i] : i \in DOMAIN mailbox[p]} : p \in Procs}
DownTellsReason ==
    \A m \in InTransit \ {None} :
        m.type = "Down" => /\ m.pid = target[m.ref]
                           /\ \/ m.reason = reason[m.pid]
                              \/ m.reason = "noproc" /\ Stopped(m.pid)

(* Teardown cannot be blocked for ever: whoever was killed, or has a Stop    *)
(* before it, ends, also with full mailboxes and peers that wait in circles. *)
Doomed(p) == killed[p] \/ \E i \in DOMAIN mailbox[p] : mailbox[p][i].type = "Stop"
ShutdownCompletes == \A p \in Procs : Doomed(p) ~> Stopped(p)

-----------------------------------------------------------------------------
(* Promises of the documentation that the code does not keep. *)

(* otp/README.md, Links: an abnormal exit stops the other side, always; the  *)
(* code gives up on a peer whose mailbox is full.                            *)
MustStop(p, q) ==
    pc[p] = "exits" /\ q \in exitTodo[p] /\ Abnormal(reason[p]) /\ q \notin Trapping
AbnormalExitStopsPeers == \A p, q \in Procs : MustStop(p, q) ~> Stopped(q)

(* SPEC.md 2.6: the monitor of a process that has died is not left armed.    *)
NoMonitorOfTheDead == \A p \in Procs : Stopped(p) => monitoredBy[p] = {}

(* SPEC.md 2.6: after demonitor(ref, [flush]) no DOWN is handled.            *)
FlushedIsSilent ==
    [][\A r \in Refs : r \in flushed => seen'[r] = seen[r]]_vars

(* SPEC.md 2.5: whoever is linked to a killed process sees reason killed.    *)
KilledReportsKilled ==
    [][\A p \in Procs : killed[p] /\ Live(p) /\ pc'[p] = "closing" => reason'[p] = "killed"]_vars

=============================================================================
