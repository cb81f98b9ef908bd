--------------------------- MODULE Process_proofs ---------------------------
(***************************************************************************)
(* Proofs about Process, for any processes, mailbox size, workload and     *)
(* number of monitors.                                                     *)
(***************************************************************************)
EXTENDS Process, TLAPS, SequenceTheorems

USE ProcessAssumption

-----------------------------------------------------------------------------
(* What the operators of the module return. *)

(* The constructors build messages. *)
LEMMA MessageTypes ==
  /\ Info \in Message
  /\ \A p \in Procs \cup {None}, r \in Reasons : Stop(p, r) \in Message /\ Exit(p, r) \in Message
  /\ \A p \in Procs, r \in Reasons, n \in Refs : Down(p, r, n) \in Message
<1>1. Info \in Message
  BY DEF Info, Message, Reasons
<1>2. \A p \in Procs \cup {None}, r \in Reasons : Stop(p, r) \in Message /\ Exit(p, r) \in Message
  BY DEF Stop, Exit, Message
<1>3. \A p \in Procs, r \in Reasons, n \in Refs : Down(p, r, n) \in Message
  BY DEF Down, Message, Refs
<1> QED
  BY <1>1, <1>2, <1>3

(* The message a task handles is a message. *)
LEMMA CurrentTypes ==
  ASSUME TypeOK, NEW p \in Procs, pc[p] \in {"handling", "callback", "awaiting_stop"}
  PROVE  /\ current[p] \in Message /\ current[p].reason \in Reasons
         /\ current[p].pid \in Procs \cup {None} /\ current[p].ref \in 0..MaxRefs
  BY DEF TypeOK, StreamTypes, TasksReady, Message

(* A blocked or finished send() goes on with one of the two loops. *)
LEMMA ResumeTypes == \A p \in Procs : Resume(p) \in {"downs", "exits"}
  BY DEF Resume

(* Unlinking keeps the table of links well typed. *)
LEMMA UnlinkedTypes ==
  ASSUME links \in [Procs -> SUBSET Procs], NEW p, NEW q
  PROVE  Unlinked(p, q) \in [Procs -> SUBSET Procs]
  BY DEF Unlinked

(* Delivery respects the size of the mailbox and takes no message away. *)
LEMMA DeliverTypes ==
  ASSUME TypeOK, NEW q \in Procs, NEW m \in Message, Deliver(q, m)
  PROVE  /\ StreamTypes'
         /\ \A p \in Procs : current[p] # None => current'[p] # None
         /\ Parked(q) => current'[q] # None
         /\ UNCHANGED <<inboxOpen, senders>>
<1>0. m # None
  BY ProcessAssumption
<1>1. CASE Parked(q)
  <2>1. current' = [current EXCEPT ![q] = m] /\ UNCHANGED <<mailbox, inboxOpen, senders>>
    BY <1>1 DEF Deliver
  <2> QED
    BY <1>0, <1>1, <2>1 DEF TypeOK, StreamTypes
<1>2. CASE ~Parked(q)
  <2>1. /\ mailbox' = [mailbox EXCEPT ![q] = Append(@, m)] /\ Len(mailbox[q]) < MailboxSize
        /\ UNCHANGED <<current, inboxOpen, senders>>
    BY <1>2 DEF Deliver, Accepts
  <2>2. Append(mailbox[q], m) \in Seq(Message) /\ Len(Append(mailbox[q], m)) <= MailboxSize
    BY <2>1 DEF TypeOK, StreamTypes
  <2> QED
    BY <1>2, <2>1, <2>2 DEF TypeOK, StreamTypes
<1> QED
  BY <1>1, <1>2

(* A message for a parked process wakes that process and no other. *)
LEMMA WokenTypes ==
  ASSUME TypeOK, NEW q \in Procs
  PROVE  /\ Woken(q) \in [Procs -> Pcs]
         /\ \A p \in Procs : Woken(q)[p] = IF p = q /\ Parked(q) THEN "handling" ELSE pc[p]
  BY DEF TypeOK, TaskTypes, Woken, Pcs, InLoop

(* A task moves on and everything that the code at its new place reads is    *)
(* there: so it is for all tasks.                                            *)
LEMMA MoveReady ==
  ASSUME TypeOK, NEW p \in Procs, NEW place,
         pc' = [pc EXCEPT ![p] = place],
         place \in {"handling", "callback", "awaiting_stop"} => current'[p] # None,
         place \notin InLoop => reason[p] # None,
         place \in {"send", "send_wait"} => outgoing'[p] # None,
         place \in {"send", "send_wait", "awaiting_stop", "peer_stop"} => peer'[p] # None,
         \A q \in Procs \ {p} : peer'[q] = peer[q] /\ outgoing'[q] = outgoing[q]
                                /\ current'[q] = current[q],
         outgoing[p] # None => outgoing'[p] # None,
         UNCHANGED <<senders, reason>>
  PROVE  TasksReady'
<1>1. \A q \in Procs : pc'[q] = IF q = p THEN place ELSE pc[q]
  BY DEF TypeOK, TaskTypes
<1>2. \A q \in Procs : \A i \in DOMAIN senders[q] : senders[q][i] \in Procs
  BY DEF TypeOK, StreamTypes
<1> QED
  BY <1>1, <1>2 DEF TypeOK, TasksReady

(* Delivering a message leaves every task ready. *)
LEMMA DeliverReady ==
  ASSUME TypeOK, NEW q \in Procs, NEW m \in Message, Deliver(q, m),
         pc' = Woken(q), UNCHANGED <<reason, peer, outgoing>>
  PROVE  TasksReady'
  BY DeliverTypes, WokenTypes DEF TypeOK, TasksReady, InLoop

(* Leaving the loop: the closing streams wake the queued senders, who have   *)
(* a reason and a message; the mailbox is emptied.                           *)
LEMMA LeaveLoopTypes ==
  ASSUME TypeOK, NEW p \in Procs, NEW r \in Reasons, LeaveLoop(p, r),
         UNCHANGED <<downTodo, exitTodo, outgoing>>,
         peer' \in {peer, [peer EXCEPT ![p] = None]}
  PROVE  StreamTypes' /\ TaskTypes' /\ TasksReady'
<1>1. pc' \in [Procs -> Pcs] /\ pc'[p] = "closing"
  BY ResumeTypes DEF LeaveLoop, TypeOK, TaskTypes, Pcs, InTeardown
<1>2. /\ reason' \in [Procs -> Reasons \cup {None}]
      /\ \A q \in Procs : reason'[q] = IF q = p THEN r ELSE reason[q]
  BY DEF LeaveLoop, TypeOK, TaskTypes
<1>3. /\ mailbox' \in [Procs -> Seq(Message)] /\ senders' \in [Procs -> Seq(Procs)]
      /\ current' \in [Procs -> Message \cup {None}] /\ inboxOpen' \in [Procs -> BOOLEAN]
      /\ \A q \in Procs : /\ mailbox'[q] = IF q = p THEN <<>> ELSE mailbox[q]
                          /\ senders'[q] = IF q = p THEN <<>> ELSE senders[q]
                          /\ q # p => current'[q] = current[q]
  BY DEF LeaveLoop, TypeOK, StreamTypes
<1>4. StreamTypes'
  BY <1>3 DEF TypeOK, StreamTypes
<1>5. TaskTypes'
  BY <1>1, <1>2 DEF TypeOK, TaskTypes, LeaveLoop
<1>6. \A q \in Procs \ {p} : pc'[q] = pc[q] \/ (q \in QueuedAt(p) /\ pc'[q] \in {"downs", "exits"})
  BY ResumeTypes DEF LeaveLoop
<1>7. \A q \in QueuedAt(p) : reason[q] # None /\ outgoing[q] # None
  BY DEF QueuedAt, TypeOK, TasksReady
<1>8. \A q \in Procs \ {p} : peer'[q] = peer[q]
  BY DEF TypeOK, TaskTypes
<1>9. ASSUME NEW q \in Procs
      PROVE  /\ pc'[q] \in {"handling", "callback", "awaiting_stop"} => current'[q] # None
             /\ pc'[q] \notin InLoop => reason'[q] # None
             /\ pc'[q] \in {"send", "send_wait"} => outgoing'[q] # None
             /\ pc'[q] \in {"send", "send_wait", "awaiting_stop", "peer_stop"} => peer'[q] # None
  <2>1. CASE q = p
    BY <1>1, <1>2, <2>1, ProcessAssumption DEF InLoop
  <2>2. CASE q # p /\ q \in QueuedAt(p) /\ pc'[q] \in {"downs", "exits"}
    BY <1>2, <1>7, <2>2, ProcessAssumption
  <2>3. CASE q # p /\ pc'[q] = pc[q]
    BY <1>2, <1>3, <1>8, <2>3 DEF TypeOK, TasksReady
  <2> QED
    BY <1>6, <2>1, <2>2, <2>3
<1>10. ASSUME NEW q \in Procs, NEW i \in DOMAIN senders'[q]
       PROVE  reason'[senders'[q][i]] # None /\ outgoing'[senders'[q][i]] # None
  <2>1. q # p /\ senders'[q] = senders[q]
    BY <1>3
  <2>2. senders[q][i] \in Procs /\ reason[senders[q][i]] # None /\ outgoing[senders[q][i]] # None
    BY <2>1 DEF TypeOK, StreamTypes, TasksReady
  <2> QED
    BY <1>2, <2>1, <2>2
<1>11. TasksReady'
  BY <1>9, <1>10 DEF TasksReady
<1> QED
  BY <1>4, <1>5, <1>11

-----------------------------------------------------------------------------
(* TypeOK is inductive: a lemma for each group of actions. *)

(* The loop and its dispatch. *)
LEMMA LoopTypes ==
  ASSUME TypeOK, NEW p \in Procs,
         \/ Receive(p) \/ EndOfStream(p)
         \/ HandleStop(p) \/ HandleExit(p) \/ HandleDown(p) \/ HandleInfo(p)
  PROVE  TypeOK'
<1>1. CASE Receive(p)
  <2>0. /\ Head(mailbox[p]) \in Message /\ Tail(mailbox[p]) \in Seq(Message)
        /\ Len(Tail(mailbox[p])) = Len(mailbox[p]) - 1 /\ Head(mailbox[p]) # None
    BY <1>1, ProcessAssumption DEF Receive, TypeOK, StreamTypes
  <2>1. current' = [current EXCEPT ![p] = Head(mailbox[p])]
    BY <1>1 DEF Receive
  <2>2. /\ current' \in [Procs -> Message \cup {None}]
        /\ \A q \in Procs : current'[q] = IF q = p THEN Head(mailbox[p]) ELSE current[q]
    BY <2>0, <2>1 DEF TypeOK, StreamTypes
  <2>3. TableTypes'
    BY <1>1 DEF Receive, TypeOK, TableTypes, tables, history
  <2>4. CASE senders[p] = <<>>
    <3>1. StreamTypes'
      <4>1. mailbox' = [mailbox EXCEPT ![p] = Tail(@)] /\ UNCHANGED <<senders, inboxOpen>>
        BY <1>1, <2>4 DEF Receive
      <4>2. mailbox' \in [Procs -> Seq(Message)] /\ \A q \in Procs : Len(mailbox'[q]) <= MailboxSize
        BY <2>0, <4>1 DEF TypeOK, StreamTypes
      <4> QED
        BY <2>2, <4>1, <4>2 DEF TypeOK, StreamTypes
    <3>2. TaskTypes'
      BY <1>1, <2>4 DEF Receive, TypeOK, TaskTypes, Pcs, InLoop, life, work
    <3>3. TasksReady'
      BY <1>1, <2>0, <2>2, <2>4, MoveReady DEF Receive, InLoop, life, work
    <3> QED
      BY <2>3, <3>1, <3>2, <3>3 DEF TypeOK
  <2>5. CASE senders[p] # <<>>
    <3> DEFINE s == Head(senders[p])
    <3>1. s \in Procs /\ reason[s] # None /\ outgoing[s] # None
      BY <2>5 DEF TypeOK, StreamTypes, TasksReady
    <3>2. /\ mailbox' = [mailbox EXCEPT ![p] = Append(Tail(@), outgoing[s])]
          /\ pc' = [pc EXCEPT ![p] = "handling", ![s] = Resume(s)]
          /\ senders' = [senders EXCEPT ![p] = Tail(@)]
          /\ UNCHANGED <<running, inboxOpen, life, tables, work, history>>
      BY <1>1, <2>5 DEF Receive
    <3> HIDE DEF s
    <3>3. /\ Append(Tail(mailbox[p]), outgoing[s]) \in Seq(Message)
          /\ Len(Append(Tail(mailbox[p]), outgoing[s])) = Len(mailbox[p])
      BY <2>0, <3>1 DEF TypeOK, TaskTypes
    <3>4. /\ mailbox' \in [Procs -> Seq(Message)]
          /\ \A q \in Procs : Len(mailbox'[q]) <= MailboxSize
      BY <3>2, <3>3 DEF TypeOK, StreamTypes
    <3>5. /\ Tail(senders[p]) \in Seq(Procs)
          /\ \A i \in DOMAIN Tail(senders[p]) :
               i + 1 \in DOMAIN senders[p] /\ Tail(senders[p])[i] = senders[p][i + 1]
      BY <2>5 DEF TypeOK, StreamTypes
    <3>6. /\ senders' \in [Procs -> Seq(Procs)]
          /\ \A q \in Procs : senders'[q] = IF q = p THEN Tail(senders[p]) ELSE senders[q]
      BY <3>2, <3>5 DEF TypeOK, StreamTypes
    <3>7. StreamTypes'
      BY <2>2, <3>2, <3>4, <3>6 DEF TypeOK, StreamTypes
    <3>8. /\ pc' \in [Procs -> Pcs]
          /\ \A q \in Procs :
               pc'[q] = IF q = s THEN Resume(s) ELSE IF q = p THEN "handling" ELSE pc[q]
      BY <3>1, <3>2, ResumeTypes DEF TypeOK, TaskTypes, Pcs, InLoop, InTeardown
    <3>9. TaskTypes'
      BY <3>2, <3>8 DEF TypeOK, TaskTypes, life, work
    <3>10. ASSUME NEW q \in Procs
           PROVE  /\ pc'[q] \in {"handling", "callback", "awaiting_stop"} => current'[q] # None
                  /\ pc'[q] \notin InLoop => reason[q] # None
                  /\ pc'[q] \in {"send", "send_wait"} => outgoing[q] # None
                  /\ pc'[q] \in {"send", "send_wait", "awaiting_stop", "peer_stop"} => peer[q] # None
      <4>1. CASE q = s
        BY <3>1, <3>8, <4>1, ResumeTypes
      <4>2. CASE q = p /\ q # s
        BY <2>0, <2>2, <3>8, <4>2 DEF InLoop
      <4>3. CASE q # p /\ q # s
        BY <2>2, <3>8, <4>3 DEF TypeOK, TasksReady
      <4> QED
        BY <4>1, <4>2, <4>3
    <3>11. ASSUME NEW q \in Procs, NEW i \in DOMAIN senders'[q]
           PROVE  reason[senders'[q][i]] # None /\ outgoing[senders'[q][i]] # None
      <4>1. CASE q = p
        <5>1. i \in DOMAIN Tail(senders[p]) /\ senders'[q][i] = senders[p][i + 1]
              /\ i + 1 \in DOMAIN senders[p]
          BY <3>5, <3>6, <3>11, <4>1
        <5> QED
          BY <5>1 DEF TypeOK, TasksReady
      <4>2. CASE q # p
        BY <3>6, <3>11, <4>2 DEF TypeOK, TasksReady
      <4> QED
        BY <4>1, <4>2
    <3>12. TasksReady'
      BY <3>2, <3>10, <3>11 DEF TasksReady, life, work
    <3> QED
      BY <2>3, <3>7, <3>9, <3>12 DEF TypeOK
  <2> QED
    BY <2>4, <2>5
<1>2. CASE EndOfStream(p)
  BY <1>2, LeaveLoopTypes DEF EndOfStream, Reasons, TypeOK, TableTypes, tables, work, history
<1>3. CASE HandleStop(p)
  BY <1>3, LeaveLoopTypes, CurrentTypes
     DEF HandleStop, At, TypeOK, TableTypes, tables, work, history
<1>4. CASE HandleExit(p)
  <2>1. CASE p \notin Trapping /\ Abnormal(current[p].reason)
    <3>1. TableTypes'
      BY <1>4, <2>1, UnlinkedTypes DEF HandleExit, TypeOK, TableTypes, history
    <3> QED
      BY <1>4, <2>1, <3>1, LeaveLoopTypes, CurrentTypes DEF HandleExit, At, TypeOK, work
  <2>2. CASE ~(p \notin Trapping /\ Abnormal(current[p].reason))
    <3>1. TableTypes'
      BY <1>4, <2>2 DEF HandleExit, TypeOK, TableTypes, history
    <3>2. StreamTypes' /\ TaskTypes'
      BY <1>4, <2>2 DEF HandleExit, TypeOK, StreamTypes, TaskTypes, Pcs, InLoop, mail, life, work
    <3>3. TasksReady'
      BY <1>4, <2>2, MoveReady, CurrentTypes, ProcessAssumption
         DEF HandleExit, At, InLoop, mail, life, work
    <3> QED
      BY <3>1, <3>2, <3>3 DEF TypeOK
  <2> QED
    BY <2>1, <2>2
<1>5. CASE HandleDown(p)
  <2>1. TableTypes'
    <3>1. ignoredDowns' \in [Procs -> SUBSET Refs]
      BY <1>5 DEF HandleDown, TypeOK, TableTypes
    <3>2. seen' \in [Refs -> Nat]
      BY <1>5 DEF HandleDown, TypeOK, TableTypes
    <3> QED
      BY <1>5, <3>1, <3>2 DEF HandleDown, TypeOK, TableTypes
  <2>2. StreamTypes' /\ TaskTypes'
    BY <1>5 DEF HandleDown, TypeOK, StreamTypes, TaskTypes, Pcs, InLoop, life, work
  <2>3. CASE current[p].ref \in ignoredDowns[p]
    <3>1. TasksReady'
      BY <1>5, <2>3, MoveReady DEF HandleDown, At, InLoop, TypeOK, StreamTypes, life, work
    <3> QED
      BY <2>1, <2>2, <3>1 DEF TypeOK
  <2>4. CASE current[p].ref \notin ignoredDowns[p]
    <3>1. TasksReady'
      BY <1>5, <2>4, MoveReady, CurrentTypes, ProcessAssumption
         DEF HandleDown, At, InLoop, life, work
    <3> QED
      BY <2>1, <2>2, <3>1 DEF TypeOK
  <2> QED
    BY <2>3, <2>4
<1>6. CASE HandleInfo(p)
  <2>1. StreamTypes' /\ TaskTypes' /\ TableTypes'
    BY <1>6 DEF HandleInfo, TypeOK, StreamTypes, TaskTypes, TableTypes, Pcs, InLoop,
                mail, life, tables, work, history
  <2>2. TasksReady'
    BY <1>6, MoveReady, CurrentTypes, ProcessAssumption DEF HandleInfo, At, InLoop, mail, life, work
  <2> QED
    BY <2>1, <2>2 DEF TypeOK
<1> QED
  BY <1>1, <1>2, <1>3, <1>4, <1>5, <1>6

(* What callbacks do, and how waiting for stop() ends. *)
LEMMA CallbackTypes ==
  ASSUME TypeOK, NEW p \in Procs,
         \/ CallbackReturns(p) \/ CallbackRaises(p) \/ CallbackReturnsStop(p)
         \/ CallbackStops(p) \/ CallbackSendFails(p) \/ StopReturns(p) \/ StopTimesOut(p)
  PROVE  TypeOK'
<1>1. CASE CallbackReturns(p)
  <2>1. StreamTypes' /\ TaskTypes' /\ TableTypes'
    BY <1>1 DEF CallbackReturns, TypeOK, StreamTypes, TaskTypes, TableTypes, Pcs, InLoop,
                life, tables, work, history
  <2>2. TasksReady'
    BY <1>1, MoveReady DEF CallbackReturns, InLoop, TypeOK, StreamTypes, life, work
  <2> QED
    BY <2>1, <2>2 DEF TypeOK
<1>2. CASE CallbackRaises(p)
  BY <1>2, LeaveLoopTypes DEF CallbackRaises, Reasons, TypeOK, TableTypes, tables, work, history
<1>3. CASE CallbackReturnsStop(p)
  <2>1. PICK r \in Reasons : LeaveLoop(p, r)
    BY <1>3 DEF CallbackReturnsStop
  <2> QED
    BY <1>3, <2>1, LeaveLoopTypes
       DEF CallbackReturnsStop, TypeOK, TableTypes, tables, work, history
<1>4. CASE CallbackStops(p)
  <2>1. PICK q \in Procs, r \in Reasons :
          /\ Deliver(q, Stop(p, r))
          /\ pc' = [Woken(q) EXCEPT ![p] = "awaiting_stop"]
          /\ peer' = [peer EXCEPT ![p] = q]
    BY <1>4 DEF CallbackStops
  <2>2. /\ UNCHANGED <<running, life, tables, downTodo, exitTodo, outgoing, history>>
        /\ pc[p] = "callback"
    BY <1>4 DEF CallbackStops, At
  <2>3. Stop(p, r) \in Message
    BY MessageTypes
  <2>4. /\ StreamTypes'
        /\ \A s \in Procs : current[s] # None => current'[s] # None
        /\ Parked(q) => current'[q] # None
        /\ UNCHANGED <<inboxOpen, senders>>
    BY <2>1, <2>3, DeliverTypes
  <2>5. /\ pc' \in [Procs -> Pcs]
        /\ \A s \in Procs : pc'[s] = IF s = p THEN "awaiting_stop"
                                     ELSE IF s = q /\ Parked(q) THEN "handling" ELSE pc[s]
    BY <2>1, WokenTypes DEF Pcs, InLoop
  <2>6. TaskTypes' /\ TableTypes'
    BY <2>1, <2>2, <2>5 DEF TypeOK, TaskTypes, TableTypes, life, tables, history
  <2>7. TasksReady'
    BY <2>1, <2>2, <2>4, <2>5, ProcessAssumption DEF TypeOK, TaskTypes, TasksReady, InLoop, life
  <2> QED
    BY <2>4, <2>6, <2>7 DEF TypeOK
<1>5. CASE CallbackSendFails(p)
  <2>1. PICK r \in Reasons : LeaveLoop(p, r)
    BY <1>5 DEF CallbackSendFails, Reasons
  <2> QED
    BY <1>5, <2>1, LeaveLoopTypes DEF CallbackSendFails, TypeOK, TableTypes, tables, work, history
<1>6. CASE StopReturns(p)
  <2>1. StreamTypes' /\ TaskTypes' /\ TableTypes'
    BY <1>6 DEF StopReturns, TypeOK, StreamTypes, TaskTypes, TableTypes, Pcs, InLoop,
                mail, life, tables, history
  <2>2. TasksReady'
    <3>1. \A q \in Procs \ {p} : peer'[q] = peer[q]
      BY <1>6 DEF StopReturns, TypeOK, TaskTypes
    <3>2. current[p] # None
      BY <1>6 DEF StopReturns, At, TypeOK, TasksReady
    <3> QED
      BY <1>6, <3>1, <3>2, MoveReady DEF StopReturns, InLoop, mail, life
  <2> QED
    BY <2>1, <2>2 DEF TypeOK
<1>7. CASE StopTimesOut(p)
  BY <1>7, LeaveLoopTypes DEF StopTimesOut, Reasons, TypeOK, TableTypes, tables, history
<1> QED
  BY <1>1, <1>2, <1>3, <1>4, <1>5, <1>6, <1>7

(* terminate() and the two loops of _system_teardown. *)
LEMMA TeardownTypes ==
  ASSUME TypeOK, TablesAgree, NEW p \in Procs,
         \/ Terminate(p) \/ BeginTeardown(p) \/ NextDown(p) \/ Send(p) \/ BeginExits(p)
         \/ NextExit(p) \/ PeerStopEnds(p) \/ DropMonitors(p) \/ Finish(p)
  PROVE  TypeOK'
<1>0. pc[p] \notin InLoop => reason[p] # None /\ reason[p] \in Reasons
  BY DEF TypeOK, TaskTypes, TasksReady
<1>1. CASE Terminate(p) \/ PeerStopEnds(p) \/ Finish(p)
  <2>1. StreamTypes' /\ TableTypes'
    BY <1>1 DEF Terminate, PeerStopEnds, Finish, TypeOK, StreamTypes, TableTypes, mail, tables, history
  <2>2. TaskTypes'
    BY <1>1 DEF Terminate, PeerStopEnds, Finish, TypeOK, TaskTypes, Pcs, InTeardown, life, work
  <2>3. TasksReady'
    BY <1>0, <1>1, MoveReady
       DEF Terminate, PeerStopEnds, Finish, At, InLoop, mail, life, work
  <2> QED
    BY <2>1, <2>2, <2>3 DEF TypeOK
<1>2. CASE BeginTeardown(p)
  <2>1. StreamTypes' /\ TableTypes'
    BY <1>2 DEF BeginTeardown, TypeOK, StreamTypes, TableTypes, mail, tables, history
  <2>2. TaskTypes'
    BY <1>2 DEF BeginTeardown, TypeOK, TaskTypes, TableTypes, Pcs, InTeardown, life
  <2>3. TasksReady'
    BY <1>0, <1>2, MoveReady DEF BeginTeardown, At, InLoop, mail, life
  <2> QED
    BY <2>1, <2>2, <2>3 DEF TypeOK
<1>3. CASE NextDown(p)
  <2>1. PICK r \in downTodo[p] :
          /\ downTodo' = [downTodo EXCEPT ![p] = @ \ {r}]
          /\ monitoredBy' = [monitoredBy EXCEPT ![p] = @ \ {r}]
          /\ monitors' = [monitors EXCEPT ![owner[r]] = @ \ {r}]
          /\ peer' = [peer EXCEPT ![p] = owner[r]]
          /\ outgoing' = [outgoing EXCEPT ![p] = Down(p, reason[p], r)]
          /\ sent' = [sent EXCEPT ![r] = @ + 1]
    BY <1>3 DEF NextDown
  <2>2. r \in Refs /\ Down(p, reason[p], r) \in Message
    BY <1>0, <1>3, MessageTypes DEF NextDown, At, InLoop, TypeOK, TaskTypes
  <2>3. StreamTypes' /\ TableTypes'
    <3>1. monitors' \in [Procs -> SUBSET Refs]
      BY <2>1 DEF TypeOK, TableTypes
    <3>2. monitoredBy' \in [Procs -> SUBSET Refs]
      BY <2>1 DEF TypeOK, TableTypes
    <3>3. sent' \in [Refs -> Nat]
      BY <2>1, <2>2 DEF TypeOK, TableTypes
    <3> QED
      BY <1>3, <3>1, <3>2, <3>3 DEF NextDown, TypeOK, StreamTypes, TableTypes, mail
  <2>4. TaskTypes'
    BY <1>3, <2>1, <2>2 DEF NextDown, TypeOK, TaskTypes, TableTypes, Pcs, InTeardown, life
  <2>5. owner[r] # None
    BY <2>1, ProcessAssumption DEF TablesAgree
  <2>6. TasksReady'
    <3>1. \A q \in Procs \ {p} : peer'[q] = peer[q] /\ outgoing'[q] = outgoing[q]
      BY <2>1 DEF TypeOK, TaskTypes
    <3>2. outgoing'[p] # None /\ peer'[p] # None
      BY <2>1, <2>2, <2>5, ProcessAssumption DEF TypeOK, TaskTypes
    <3> QED
      BY <1>0, <1>3, <3>1, <3>2, MoveReady DEF NextDown, At, InLoop, mail, life
  <2> QED
    BY <2>3, <2>4, <2>6 DEF TypeOK
<1>4. CASE Send(p)
  <2>0. /\ pc[p] = "send" /\ outgoing[p] # None /\ outgoing[p] \in Message
        /\ peer[p] # None /\ peer[p] \in Procs /\ reason[p] # None
        /\ UNCHANGED <<life, tables, work, history>>
    BY <1>4 DEF Send, At, TypeOK, TaskTypes, TasksReady, InLoop
  <2>1. TableTypes'
    BY <2>0 DEF TypeOK, TableTypes, tables, history
  <2> DEFINE q == peer[p]
  <2>2. CASE Deliver(q, outgoing[p]) /\ pc' = [Woken(q) EXCEPT ![p] = Resume(p)] /\ running' = p
    <3>1. /\ StreamTypes'
          /\ \A s \in Procs : current[s] # None => current'[s] # None
          /\ Parked(q) => current'[q] # None
          /\ UNCHANGED <<inboxOpen, senders>>
      BY <2>0, <2>2, DeliverTypes
    <3>2. \A s \in Procs : pc'[s] = IF s = p THEN Resume(p)
                                  ELSE IF s = q /\ Parked(q) THEN "handling" ELSE pc[s]
      BY <2>0, <2>2, WokenTypes
    <3>3. pc' \in [Procs -> Pcs]
      BY <2>0, <2>2, WokenTypes, ResumeTypes DEF Pcs, InTeardown
    <3>4. TaskTypes'
      BY <2>0, <2>2, <3>3 DEF TypeOK, TaskTypes, life, work
    <3>5. TasksReady'
      BY <2>0, <3>1, <3>2, ResumeTypes DEF TypeOK, TasksReady, InLoop, life, work
    <3> QED
      BY <2>1, <3>1, <3>4, <3>5 DEF TypeOK
  <2>3. CASE /\ senders' = [senders EXCEPT ![q] = Append(@, p)]
             /\ pc' = [pc EXCEPT ![p] = "send_wait"]
             /\ running' = None
             /\ UNCHANGED <<inboxOpen, mailbox, current>>
    <3>1. Append(senders[q], p) \in Seq(Procs)
          /\ \A i \in DOMAIN Append(senders[q], p) :
               \/ i \in DOMAIN senders[q] /\ Append(senders[q], p)[i] = senders[q][i]
               \/ Append(senders[q], p)[i] = p
      BY <2>0 DEF TypeOK, StreamTypes
    <3>2. /\ senders' \in [Procs -> Seq(Procs)]
          /\ \A s \in Procs : senders'[s] = IF s = q THEN Append(senders[q], p) ELSE senders[s]
      BY <2>0, <2>3, <3>1 DEF TypeOK, StreamTypes
    <3>3. StreamTypes' /\ TaskTypes'
      BY <2>0, <2>3, <3>2 DEF TypeOK, StreamTypes, TaskTypes, Pcs, InTeardown, life, work
    <3>4. \A s \in Procs : pc'[s] = IF s = p THEN "send_wait" ELSE pc[s]
      BY <2>3 DEF TypeOK, TaskTypes
    <3>5. ASSUME NEW s \in Procs, NEW i \in DOMAIN senders'[s]
          PROVE  reason[senders'[s][i]] # None /\ outgoing[senders'[s][i]] # None
      <4>1. CASE s = q
        <5>1. \/ i \in DOMAIN senders[q] /\ senders'[s][i] = senders[q][i]
              \/ senders'[s][i] = p
          BY <3>1, <3>2, <3>5, <4>1
        <5> QED
          BY <2>0, <5>1 DEF TypeOK, TasksReady
      <4>2. CASE s # q
        BY <3>2, <3>5, <4>2 DEF TypeOK, TasksReady
      <4> QED
        BY <4>1, <4>2
    <3>6. TasksReady'
      BY <2>0, <2>3, <3>4, <3>5 DEF TypeOK, TasksReady, InLoop, life, work
    <3> QED
      BY <2>1, <3>3, <3>6 DEF TypeOK
  <2>4. CASE pc' = [pc EXCEPT ![p] = Resume(p)] /\ running' = p /\ UNCHANGED mail
    <3>1. StreamTypes' /\ TaskTypes'
      BY <2>0, <2>4, ResumeTypes
         DEF TypeOK, StreamTypes, TaskTypes, Pcs, InTeardown, mail, life, work
    <3>2. TasksReady'
      BY <2>0, <2>4, ResumeTypes, MoveReady DEF InLoop, mail, life, work
    <3> QED
      BY <2>1, <3>1, <3>2 DEF TypeOK
  <2> QED
    BY <1>4, <2>2, <2>3, <2>4 DEF Send
<1>5. CASE BeginExits(p)
  <2>1. StreamTypes' /\ TaskTypes' /\ TableTypes'
    BY <1>5 DEF BeginExits, TypeOK, StreamTypes, TaskTypes, TableTypes, Pcs, InTeardown,
                mail, life, tables, history
  <2>2. TasksReady'
    BY <1>0, <1>5, MoveReady DEF BeginExits, At, InLoop, mail, life
  <2> QED
    BY <2>1, <2>2 DEF TypeOK
<1>6. CASE NextExit(p)
  <2>1. PICK q \in exitTodo[p] :
          /\ exitTodo' = [exitTodo EXCEPT ![p] = @ \ {q}]
          /\ links' = Unlinked(p, q)
          /\ NotifyTrapping(p, q) \/ StopPeer(p, q) \/ SkipPeer(p, q)
    BY <1>6 DEF NextExit
  <2>2. /\ pc[p] = "exits" /\ q \in Procs /\ reason[p] \in Reasons /\ reason[p] # None
        /\ UNCHANGED <<life, monitors, monitoredBy, ignoredDowns, owner, target, nextRef,
                       downTodo, history>>
    BY <1>0, <1>6 DEF NextExit, At, InLoop, TypeOK, TaskTypes
  <2>3. TableTypes'
    BY <2>1, <2>2, UnlinkedTypes DEF TypeOK, TableTypes, history
  <2>4. exitTodo' \in [Procs -> SUBSET Procs]
    BY <2>1 DEF TypeOK, TaskTypes
  <2>5. CASE NotifyTrapping(p, q)
    <3>1. Exit(p, reason[p]) \in Message /\ Exit(p, reason[p]) # None /\ q # None
      BY <2>2, MessageTypes, ProcessAssumption
    <3>2. StreamTypes' /\ TaskTypes'
      BY <2>2, <2>4, <2>5, <3>1
         DEF NotifyTrapping, TypeOK, StreamTypes, TaskTypes, Pcs, InTeardown, mail, life
    <3>3. TasksReady'
      <4>1. /\ \A s \in Procs \ {p} : peer'[s] = peer[s] /\ outgoing'[s] = outgoing[s]
            /\ outgoing'[p] # None /\ peer'[p] # None
        BY <2>5, <3>1 DEF NotifyTrapping, TypeOK, TaskTypes
      <4> QED
        BY <2>2, <2>5, <4>1, MoveReady DEF NotifyTrapping, InLoop, mail, life
    <3> QED
      BY <2>3, <3>2, <3>3 DEF TypeOK
  <2>6. CASE StopPeer(p, q)
    <3>1. Stop(p, reason[p]) \in Message /\ q # None
      BY <2>2, MessageTypes, ProcessAssumption
    <3>2. /\ StreamTypes'
          /\ \A s \in Procs : current[s] # None => current'[s] # None
          /\ Parked(q) => current'[q] # None
          /\ UNCHANGED <<inboxOpen, senders>>
      BY <2>2, <2>6, <3>1, DeliverTypes DEF StopPeer
    <3>3. /\ pc' \in [Procs -> Pcs]
          /\ \A s \in Procs : pc'[s] = IF s = p THEN "peer_stop"
                                       ELSE IF s = q /\ Parked(q) THEN "handling" ELSE pc[s]
      BY <2>2, <2>6, WokenTypes DEF StopPeer, Pcs, InTeardown
    <3>4. /\ peer' \in [Procs -> Procs \cup {None}]
          /\ \A s \in Procs : peer'[s] = IF s = p THEN q ELSE peer[s]
      BY <2>2, <2>6 DEF StopPeer, TypeOK, TaskTypes
    <3>5. TaskTypes'
      BY <2>2, <2>4, <2>6, <3>3, <3>4 DEF StopPeer, TypeOK, TaskTypes, life
    <3>6. TasksReady'
      BY <2>2, <2>6, <3>1, <3>2, <3>3, <3>4 DEF StopPeer, TypeOK, TasksReady, InLoop, life
    <3> QED
      BY <2>3, <3>2, <3>5, <3>6 DEF TypeOK
  <2>7. CASE SkipPeer(p, q)
    <3>1. StreamTypes' /\ TaskTypes'
      BY <2>2, <2>4, <2>7 DEF SkipPeer, TypeOK, StreamTypes, TaskTypes, mail, life
    <3>2. TasksReady'
      BY <2>2, <2>7 DEF SkipPeer, TypeOK, TasksReady, mail, life
    <3> QED
      BY <2>3, <3>1, <3>2 DEF TypeOK
  <2> QED
    BY <2>1, <2>5, <2>6, <2>7
<1>7. CASE DropMonitors(p)
  <2>1. monitoredBy' \in [Procs -> SUBSET Refs]
    BY <1>7 DEF DropMonitors, Released, TypeOK, TableTypes
  <2>2. StreamTypes' /\ TaskTypes' /\ TableTypes'
    BY <1>7, <2>1 DEF DropMonitors, TypeOK, StreamTypes, TaskTypes, TableTypes, Pcs, InTeardown,
                      mail, life, work, history
  <2>3. TasksReady'
    BY <1>0, <1>7, MoveReady DEF DropMonitors, At, InLoop, mail, life, work
  <2> QED
    BY <2>2, <2>3 DEF TypeOK
<1> QED
  BY <1>1, <1>2, <1>3, <1>4, <1>5, <1>6, <1>7

(* What other tasks call. *)
LEMMA OperationTypes ==
  ASSUME TypeOK, TablesAgree, NEW p \in Procs,
         \/ SendInfo(p) \/ RequestStop(p) \/ Kill(p)
         \/ \E q \in Procs : Link(p, q) \/ Unlink(p, q) \/ Monitor(p, q)
         \/ \E r \in Refs, flush \in BOOLEAN : Demonitor(p, r, flush)
  PROVE  TypeOK'
<1>1. ASSUME NEW m \in Message, Deliver(p, m), pc' = Woken(p),
             UNCHANGED <<running, life, work>>
      PROVE  StreamTypes' /\ TaskTypes' /\ TasksReady'
  BY <1>1, DeliverTypes, WokenTypes, DeliverReady DEF TypeOK, TaskTypes, life, work
<1>2. CASE SendInfo(p)
  BY <1>1, <1>2, MessageTypes DEF SendInfo, TypeOK, TableTypes, tables, history
<1>3. CASE RequestStop(p)
  <2>1. PICK r \in Reasons : Deliver(p, Stop(None, r))
    BY <1>3 DEF RequestStop
  <2>2. StreamTypes' /\ TaskTypes' /\ TasksReady'
    BY <1>1, <1>3, <2>1, MessageTypes DEF RequestStop
  <2> QED
    BY <1>3, <2>2 DEF RequestStop, TypeOK, TableTypes, tables, history
<1>4. CASE Kill(p)
  <2>1. StreamTypes' /\ TaskTypes' /\ TableTypes'
    BY <1>4 DEF Kill, TypeOK, StreamTypes, TaskTypes, TableTypes, tables, work, history
  <2>2. TasksReady'
    BY <1>4 DEF Kill, TypeOK, TasksReady, work
  <2> QED
    BY <2>1, <2>2 DEF TypeOK
<1>5. ASSUME NEW q \in Procs, Link(p, q) \/ Unlink(p, q) PROVE TypeOK'
  <2>1. links' \in [Procs -> SUBSET Procs]
    BY <1>5, UnlinkedTypes DEF Link, Unlink, TypeOK, TableTypes
  <2>2. StreamTypes' /\ TaskTypes' /\ TableTypes'
    BY <1>5, <2>1
       DEF Link, Unlink, TypeOK, StreamTypes, TaskTypes, TableTypes, mail, life, work, history
  <2>3. TasksReady'
    BY <1>5 DEF Link, Unlink, TypeOK, TasksReady, mail, life, work
  <2> QED
    BY <2>2, <2>3 DEF TypeOK
<1>6. ASSUME NEW q \in Procs, Monitor(p, q) PROVE TypeOK'
  <2>1. nextRef \in Refs
    BY <1>6 DEF Monitor, TypeOK, TableTypes, Refs
  <2>2. /\ owner' \in [Refs -> Procs \cup {None}] /\ target' \in [Refs -> Procs \cup {None}]
        /\ nextRef' \in 1..(MaxRefs + 1)
    BY <1>6, <2>1 DEF Monitor, TypeOK, TableTypes, Refs
  <2>3. CASE Stopped(q)
    <3>1. sent' \in [Refs -> Nat]
      BY <1>6, <2>3 DEF Monitor, TypeOK, TableTypes
    <3>2. TableTypes'
      BY <1>6, <2>2, <2>3, <3>1 DEF Monitor, TypeOK, TableTypes
    <3>3. "noproc" \in Reasons
      BY DEF Reasons
    <3>4. /\ Deliver(p, Down(q, "noproc", nextRef)) /\ pc' = Woken(p)
          /\ UNCHANGED <<running, life, work>>
      BY <1>6, <2>3 DEF Monitor
    <3>5. Down(q, "noproc", nextRef) \in Message
      BY <2>1, <3>3, MessageTypes
    <3>6. StreamTypes' /\ TaskTypes' /\ TasksReady'
      BY <1>1, <3>4, <3>5
    <3> QED
      BY <3>2, <3>6 DEF TypeOK
  <2>4. CASE ~Stopped(q)
    <3>1. /\ monitors' \in [Procs -> SUBSET Refs] /\ monitoredBy' \in [Procs -> SUBSET Refs]
          /\ late' \subseteq Refs
      <4>1. /\ monitors' = [monitors EXCEPT ![p] = @ \cup {nextRef}]
            /\ monitoredBy' = [monitoredBy EXCEPT ![q] = @ \cup {nextRef}]
            /\ late' \in {late, late \cup {nextRef}}
        BY <1>6, <2>4 DEF Monitor
      <4> QED
        BY <2>1, <4>1 DEF TypeOK, TableTypes
    <3>2. StreamTypes' /\ TaskTypes' /\ TableTypes'
      BY <1>6, <2>2, <2>4, <3>1
         DEF Monitor, TypeOK, StreamTypes, TaskTypes, TableTypes, mail, life, work
    <3>3. TasksReady'
      BY <1>6, <2>4 DEF Monitor, TypeOK, TasksReady, mail, life, work
    <3> QED
      BY <3>2, <3>3 DEF TypeOK
  <2> QED
    BY <2>3, <2>4
<1>7. ASSUME NEW r \in Refs, NEW flush \in BOOLEAN, Demonitor(p, r, flush) PROVE TypeOK'
  <2>1. /\ monitors' \in [Procs -> SUBSET Refs] /\ monitoredBy' \in [Procs -> SUBSET Refs]
        /\ ignoredDowns' \in [Procs -> SUBSET Refs] /\ flushed' \subseteq Refs
    BY <1>7 DEF Demonitor, TypeOK, TableTypes
  <2>2. StreamTypes' /\ TaskTypes' /\ TableTypes'
    BY <1>7, <2>1
       DEF Demonitor, TypeOK, StreamTypes, TaskTypes, TableTypes, mail, life, work
  <2>3. TasksReady'
    BY <1>7 DEF Demonitor, TypeOK, TasksReady, mail, life, work
  <2> QED
    BY <2>2, <2>3 DEF TypeOK
<1> QED
  BY <1>2, <1>3, <1>4, <1>5, <1>6, <1>7

-----------------------------------------------------------------------------
(* TablesAgree: the steps that touch the shared tables, and the rest. *)

(* A step that leaves the tables and the snapshots alone. *)
LEMMA TablesUntouched ==
  ASSUME TablesAgree, UNCHANGED <<links, monitors, monitoredBy, owner, target, nextRef, downTodo>>
  PROVE  TablesAgree'
  BY DEF TablesAgree

(* What TablesAgree says of one ref in a table. *)
LEMMA Paired ==
  ASSUME TablesAgree, NEW q \in Procs, NEW n
  PROVE  /\ n \in monitors[q] =>
              owner[n] = q /\ target[n] \in Procs /\ n \in monitoredBy[target[n]]
         /\ n \in monitoredBy[q] =>
              target[n] = q /\ owner[n] \in Procs /\ n \in monitors[owner[n]]
  BY DEF TablesAgree

(* Linking and unlinking change both sides. *)
LEMMA LinksAgree ==
  ASSUME TypeOK, TablesAgree, NEW p \in Procs, NEW q \in Procs \cup {None},
         \/ links' = Unlinked(p, q)
         \/ q \in Procs /\ links' = [links EXCEPT ![p] = @ \cup {q}, ![q] = @ \cup {p}],
         UNCHANGED <<monitors, monitoredBy, owner, target, nextRef, downTodo>>
  PROVE  TablesAgree'
<1>1. \A x, y \in Procs : y \in links'[x] <=> x \in links'[y]
  <2>1. CASE links' = Unlinked(p, q)
    <3>1. \A x \in Procs : links'[x] = {y \in links[x] : ~(x = p /\ y = q) /\ ~(x = q /\ y = p)}
      BY <2>1 DEF Unlinked, TypeOK, TableTypes
    <3> QED
      BY <3>1 DEF TablesAgree
  <2>2. CASE q \in Procs /\ links' = [links EXCEPT ![p] = @ \cup {q}, ![q] = @ \cup {p}]
    <3>1. \A x, y \in Procs :
            y \in links'[x] <=> y \in links[x] \/ (x = p /\ y = q) \/ (x = q /\ y = p)
      BY <2>2 DEF TypeOK, TableTypes
    <3> QED
      BY <3>1 DEF TablesAgree
  <2> QED
    BY <2>1, <2>2
<1> QED
  BY <1>1 DEF TablesAgree

(* The two loops: a ref leaves both tables, or is handed to the first loop.  *)
LEMMA TeardownTables ==
  ASSUME TypeOK, TablesAgree, NEW p \in Procs,
         BeginTeardown(p) \/ NextDown(p) \/ NextExit(p) \/ DropMonitors(p)
  PROVE  TablesAgree'
<1>1. CASE BeginTeardown(p)
  <2>1. \A q \in Procs : downTodo'[q] = IF q = p THEN monitoredBy[p] ELSE downTodo[q]
    BY <1>1 DEF BeginTeardown, TypeOK, TaskTypes
  <2> QED
    BY <1>1, <2>1 DEF BeginTeardown, TablesAgree, tables
<1>2. CASE NextDown(p)
  <2>1. PICK r \in downTodo[p] :
          /\ downTodo' = [downTodo EXCEPT ![p] = @ \ {r}]
          /\ monitoredBy' = [monitoredBy EXCEPT ![p] = @ \ {r}]
          /\ monitors' = [monitors EXCEPT ![owner[r]] = @ \ {r}]
    BY <1>2 DEF NextDown
  <2>2. target[r] = p /\ owner[r] \in Procs
    BY DEF TablesAgree
  <2>3. \A q \in Procs : downTodo'[q] = IF q = p THEN downTodo[p] \ {r} ELSE downTodo[q]
    BY <2>1 DEF TypeOK, TaskTypes
  <2>4. \A q \in Procs : monitoredBy'[q] = IF q = p THEN monitoredBy[p] \ {r} ELSE monitoredBy[q]
    BY <2>1 DEF TypeOK, TableTypes
  <2>5. \A q \in Procs : monitors'[q] = IF q = owner[r] THEN monitors[q] \ {r} ELSE monitors[q]
    BY <2>1, <2>2 DEF TypeOK, TableTypes
  <2>6. UNCHANGED <<links, owner, target, nextRef>>
    BY <1>2 DEF NextDown
  <2>7. ASSUME NEW q \in Procs, NEW n \in monitors'[q]
        PROVE  owner[n] = q /\ target[n] \in Procs /\ n \in monitoredBy'[target[n]]
    <3>1. n \in monitors[q]
      BY <2>7, <2>2, <2>4, <2>5
    <3>2. owner[n] = q /\ target[n] \in Procs /\ n \in monitoredBy[target[n]]
      BY <3>1, Paired
    <3>3. n # r
      BY <2>7, <2>2, <2>4, <2>5, <3>2
    <3> QED
      BY <2>2, <2>4, <2>5, <3>2, <3>3
  <2>8. ASSUME NEW q \in Procs, NEW n \in monitoredBy'[q]
        PROVE  target[n] = q /\ owner[n] \in Procs /\ n \in monitors'[owner[n]]
    <3>1. n \in monitoredBy[q]
      BY <2>8, <2>2, <2>4, <2>5
    <3>2. target[n] = q /\ owner[n] \in Procs /\ n \in monitors[owner[n]]
      BY <3>1, Paired
    <3>3. n # r
      BY <2>8, <2>2, <2>4, <2>5, <3>2
    <3> QED
      BY <2>2, <2>4, <2>5, <3>2, <3>3
  <2>9. \A q \in Procs : \A n \in downTodo'[q] : target[n] = q /\ owner[n] \in Procs
    BY <2>3 DEF TablesAgree
  <2> QED
    BY <2>6, <2>7, <2>8, <2>9 DEF TablesAgree
<1>3. CASE NextExit(p)
  <2>1. PICK q \in exitTodo[p] : links' = Unlinked(p, q)
    BY <1>3 DEF NextExit
  <2>2. q \in Procs
    BY DEF TypeOK, TaskTypes
  <2> QED
    BY <1>3, <2>1, <2>2, LinksAgree DEF NextExit
<1>4. CASE DropMonitors(p)
  <2>1. \A q \in Procs : monitoredBy'[q] = monitoredBy[q] \ {n \in monitors[p] : target[n] = q}
    BY <1>4 DEF DropMonitors, Released
  <2>2. \A q \in Procs : monitors'[q] = IF q = p THEN {} ELSE monitors[q]
    BY <1>4 DEF DropMonitors, TypeOK, TableTypes
  <2>3. UNCHANGED <<links, owner, target, nextRef, downTodo>>
    BY <1>4 DEF DropMonitors, work
  <2>4. \A q \in Procs : \A n \in monitors'[q] :
          owner[n] = q /\ target[n] \in Procs /\ n \in monitoredBy'[target[n]]
    BY <2>1, <2>2 DEF TablesAgree
  <2>5. \A q \in Procs : \A n \in monitoredBy'[q] :
          target[n] = q /\ owner[n] \in Procs /\ n \in monitors'[owner[n]]
    BY <2>1, <2>2 DEF TablesAgree
  <2> QED
    BY <2>3, <2>4, <2>5 DEF TablesAgree
<1> QED
  BY <1>1, <1>2, <1>3, <1>4

(* monitor() enters a fresh ref in both tables, demonitor() takes it out.    *)
LEMMA MonitorTables ==
  ASSUME TypeOK, TablesAgree, NEW p \in Procs, NEW q \in Procs, Monitor(p, q)
  PROVE  TablesAgree'
<1>1. /\ nextRef \in Refs /\ nextRef' = nextRef + 1 /\ UNCHANGED <<links, downTodo>>
      /\ owner' = [owner EXCEPT ![nextRef] = p] /\ target' = [target EXCEPT ![nextRef] = q]
  BY DEF Monitor, TypeOK, TableTypes, Refs, work
<1>2. \A n \in Refs : /\ owner'[n] = IF n = nextRef THEN p ELSE owner[n]
                     /\ target'[n] = IF n = nextRef THEN q ELSE target[n]
  BY <1>1 DEF TypeOK, TableTypes
<1>3. owner[nextRef] = None /\ target[nextRef] = None
  BY <1>1 DEF TablesAgree, Refs
<1>4. \A x \in Procs : /\ nextRef \notin monitors[x] /\ nextRef \notin monitoredBy[x]
                      /\ nextRef \notin downTodo[x]
  BY <1>3, ProcessAssumption DEF TablesAgree
<1>5. \A n \in Refs : n >= nextRef' => owner'[n] = None /\ target'[n] = None
  BY <1>1, <1>2 DEF TablesAgree, Refs
<1>6. \A x \in Procs : \A n \in downTodo'[x] : target'[n] = x /\ owner'[n] \in Procs
  <2>1. \A x \in Procs : \A n \in downTodo[x] : n \in Refs
    BY DEF TypeOK, TaskTypes
  <2> QED
    BY <1>1, <1>2, <1>4, <2>1 DEF TablesAgree
<1>7. \E new \in SUBSET {nextRef} :
        /\ \A x \in Procs : monitors'[x] = IF x = p THEN monitors[x] \cup new ELSE monitors[x]
        /\ \A x \in Procs : monitoredBy'[x] = IF x = q THEN monitoredBy[x] \cup new ELSE monitoredBy[x]
  <2>1. CASE Stopped(q)
    <3>1. UNCHANGED <<monitors, monitoredBy>>
      BY <2>1 DEF Monitor
    <3> WITNESS {} \in SUBSET {nextRef}
    <3> QED
      BY <3>1
  <2>2. CASE ~Stopped(q)
    <3>1. /\ monitors' = [monitors EXCEPT ![p] = @ \cup {nextRef}]
          /\ monitoredBy' = [monitoredBy EXCEPT ![q] = @ \cup {nextRef}]
      BY <2>2 DEF Monitor
    <3> WITNESS {nextRef} \in SUBSET {nextRef}
    <3> QED
      BY <3>1 DEF TypeOK, TableTypes
  <2> QED
    BY <2>1, <2>2
<1>8. PICK new \in SUBSET {nextRef} :
        /\ \A x \in Procs : monitors'[x] = IF x = p THEN monitors[x] \cup new ELSE monitors[x]
        /\ \A x \in Procs : monitoredBy'[x] = IF x = q THEN monitoredBy[x] \cup new ELSE monitoredBy[x]
  BY <1>7
<1>9. \A x \in Procs : monitors[x] \subseteq Refs /\ monitoredBy[x] \subseteq Refs
  BY DEF TypeOK, TableTypes
<1>10. ASSUME NEW x \in Procs, NEW n \in monitors'[x]
       PROVE  owner'[n] = x /\ target'[n] \in Procs /\ n \in monitoredBy'[target'[n]]
  <2>1. CASE n = nextRef
    <3>1. n \in new /\ x = p
      BY <1>4, <1>8, <1>10, <2>1
    <3>2. owner'[n] = p /\ target'[n] = q /\ n \in monitoredBy'[q]
      BY <1>1, <1>2, <1>8, <2>1, <3>1
    <3> QED
      BY <3>1, <3>2
  <2>2. CASE n # nextRef
    <3>1. n \in monitors[x] /\ n \in Refs
      BY <1>8, <1>9, <1>10, <2>2
    <3>2. owner[n] = x /\ target[n] \in Procs /\ n \in monitoredBy[target[n]]
      BY <3>1, Paired
    <3> QED
      BY <1>2, <1>8, <2>2, <3>1, <3>2
  <2> QED
    BY <2>1, <2>2
<1>11. ASSUME NEW x \in Procs, NEW n \in monitoredBy'[x]
       PROVE  target'[n] = x /\ owner'[n] \in Procs /\ n \in monitors'[owner'[n]]
  <2>1. CASE n = nextRef
    <3>1. n \in new /\ x = q
      BY <1>4, <1>8, <1>11, <2>1
    <3>2. owner'[n] = p /\ target'[n] = q /\ n \in monitors'[p]
      BY <1>1, <1>2, <1>8, <2>1, <3>1
    <3> QED
      BY <3>1, <3>2
  <2>2. CASE n # nextRef
    <3>1. n \in monitoredBy[x] /\ n \in Refs
      BY <1>8, <1>9, <1>11, <2>2
    <3>2. target[n] = x /\ owner[n] \in Procs /\ n \in monitors[owner[n]]
      BY <3>1, Paired
    <3> QED
      BY <1>2, <1>8, <2>2, <3>1, <3>2
  <2> QED
    BY <2>1, <2>2
<1> QED
  BY <1>1, <1>5, <1>6, <1>10, <1>11 DEF TablesAgree

(* demonitor() takes a ref out of both tables, whichever side is gone.       *)
LEMMA DemonitorTables ==
  ASSUME TypeOK, TablesAgree, NEW p \in Procs, NEW r \in Refs, NEW flush \in BOOLEAN,
         Demonitor(p, r, flush)
  PROVE  TablesAgree'
<1>1. UNCHANGED <<links, owner, target, nextRef, downTodo>>
  BY DEF Demonitor, work
<1>2. CASE r \in monitors[p]
  <2>1. owner[r] = p /\ target[r] \in Procs
    BY <1>2 DEF TablesAgree
  <2>2. \A q \in Procs : monitors'[q] = IF q = p THEN monitors[p] \ {r} ELSE monitors[q]
    BY <1>2 DEF Demonitor, TypeOK, TableTypes
  <2>3. \A q \in Procs :
          monitoredBy'[q] = IF q = target[r] THEN monitoredBy[q] \ {r} ELSE monitoredBy[q]
    BY <1>2, <2>1 DEF Demonitor, TypeOK, TableTypes
  <2>4. ASSUME NEW q \in Procs, NEW n \in monitors'[q]
        PROVE  owner[n] = q /\ target[n] \in Procs /\ n \in monitoredBy'[target[n]]
    <3>1. n \in monitors[q]
      BY <2>4, <2>1, <2>2, <2>3
    <3>2. owner[n] = q /\ target[n] \in Procs /\ n \in monitoredBy[target[n]]
      BY <3>1, Paired
    <3>3. n # r
      BY <2>4, <2>1, <2>2, <2>3, <3>2
    <3> QED
      BY <2>1, <2>2, <2>3, <3>2, <3>3
  <2>5. ASSUME NEW q \in Procs, NEW n \in monitoredBy'[q]
        PROVE  target[n] = q /\ owner[n] \in Procs /\ n \in monitors'[owner[n]]
    <3>1. n \in monitoredBy[q]
      BY <2>5, <2>1, <2>2, <2>3
    <3>2. target[n] = q /\ owner[n] \in Procs /\ n \in monitors[owner[n]]
      BY <3>1, Paired
    <3>3. n # r
      BY <2>5, <2>1, <2>2, <2>3, <3>2
    <3> QED
      BY <2>1, <2>2, <2>3, <3>2, <3>3
  <2> QED
    BY <1>1, <2>4, <2>5 DEF TablesAgree
<1>3. CASE r \notin monitors[p]
  BY <1>1, <1>3, TablesUntouched DEF Demonitor
<1> QED
  BY <1>2, <1>3

-----------------------------------------------------------------------------
(* The invariant.  TypeOK needs TablesAgree: the owner of a ref that the     *)
(* first loop of the teardown handles is a process because the two tables    *)
(* agreed when the snapshot was taken.                                       *)
IInv == TypeOK /\ TablesAgree

(* Before the first operation the tables are empty and agree.                *)
LEMMA InitIInv == Init => IInv
  BY DEF Init, IInv, TypeOK, StreamTypes, TaskTypes, TableTypes, TasksReady, TablesAgree,
         Pcs, InLoop, Refs

(* Every step of a task keeps the invariant. *)
LEMMA StepIInv == ASSUME IInv, NEW p \in Procs, Step(p) PROVE IInv'
<1>1. TypeOK'
  BY LoopTypes, CallbackTypes, TeardownTypes DEF IInv, Step
<1>2. TablesAgree'
  <2>1. CASE \/ Receive(p) \/ EndOfStream(p) \/ HandleStop(p) \/ HandleDown(p) \/ HandleInfo(p)
    BY <2>1, TablesUntouched
       DEF IInv, Receive, EndOfStream, HandleStop, HandleDown, HandleInfo, tables, work
  <2>2. CASE HandleExit(p)
    <3>1. current[p].pid \in Procs \cup {None}
      BY <2>2, CurrentTypes DEF HandleExit, At, IInv
    <3> QED
      BY <2>2, <3>1, LinksAgree, TablesUntouched DEF IInv, HandleExit, work
  <2>3. CASE \/ CallbackReturns(p) \/ CallbackRaises(p) \/ CallbackReturnsStop(p)
             \/ CallbackStops(p) \/ CallbackSendFails(p) \/ StopReturns(p) \/ StopTimesOut(p)
    BY <2>3, TablesUntouched
       DEF IInv, CallbackReturns, CallbackRaises, CallbackReturnsStop, CallbackStops,
           CallbackSendFails, StopReturns, StopTimesOut, tables, work
  <2>4. CASE Terminate(p) \/ Send(p) \/ BeginExits(p) \/ PeerStopEnds(p) \/ Finish(p)
    BY <2>4, TablesUntouched
       DEF IInv, Terminate, Send, BeginExits, PeerStopEnds, Finish, tables, work
  <2>5. CASE BeginTeardown(p) \/ NextDown(p) \/ NextExit(p) \/ DropMonitors(p)
    BY <2>5, TeardownTables DEF IInv
  <2> QED
    BY <2>1, <2>2, <2>3, <2>4, <2>5 DEF Step
<1> QED
  BY <1>1, <1>2 DEF IInv

(* Every call of another task keeps the invariant. *)
LEMMA EnvironmentIInv == ASSUME IInv, Environment PROVE IInv'
<1>1. PICK p \in Procs :
        \/ SendInfo(p) \/ RequestStop(p) \/ Kill(p)
        \/ \E q \in Procs : Link(p, q) \/ Unlink(p, q) \/ Monitor(p, q)
        \/ \E r \in Refs, flush \in BOOLEAN : Demonitor(p, r, flush)
  BY DEF Environment
<1>2. TypeOK'
  BY <1>1, OperationTypes DEF IInv
<1>3. ASSUME SendInfo(p) \/ RequestStop(p) \/ Kill(p) PROVE TablesAgree'
  <2>1. UNCHANGED tables /\ UNCHANGED work
    <3>1. CASE SendInfo(p)
      BY <3>1 DEF SendInfo
    <3>2. CASE RequestStop(p)
      BY <3>2 DEF RequestStop
    <3>3. CASE Kill(p)
      BY <3>3 DEF Kill
    <3> QED
      BY <1>3, <3>1, <3>2, <3>3
  <2> QED
    BY <2>1, TablesUntouched DEF IInv, tables, work
<1>4. ASSUME NEW q \in Procs, Link(p, q) \/ Unlink(p, q) PROVE TablesAgree'
  BY <1>4, LinksAgree DEF IInv, Link, Unlink, work
<1>5. ASSUME NEW q \in Procs, Monitor(p, q) PROVE TablesAgree'
  BY <1>5, MonitorTables DEF IInv
<1>6. ASSUME NEW r \in Refs, NEW flush \in BOOLEAN, Demonitor(p, r, flush) PROVE TablesAgree'
  BY <1>6, DemonitorTables DEF IInv
<1> QED
  BY <1>1, <1>2, <1>3, <1>4, <1>5, <1>6 DEF IInv

(* IInv is inductive. *)
LEMMA NextIInv == IInv /\ [Next]_vars => IInv'
<1>1. ASSUME IInv, UNCHANGED vars PROVE IInv'
  BY <1>1 DEF IInv, TypeOK, StreamTypes, TaskTypes, TableTypes, TasksReady, TablesAgree,
              vars, mail, life, tables, work, history
<1> QED
  BY <1>1, StepIInv, EnvironmentIInv DEF Next, AllStopped

(* The inductive invariant holds in every reachable state.                   *)
LEMMA Invariance == Spec => []IInv
<1> QED
  BY InitIInv, NextIInv, PTL DEF Spec

(* Every attribute keeps its type, no mailbox exceeds its size, and a task   *)
(* of `_loop` and `_system_teardown` always has the message, the addressee   *)
(* and the reason that the code at its place reads.                          *)
THEOREM Typed == Spec => []TypeOK
<1>1. IInv => TypeOK
  BY DEF IInv
<1> QED
  BY <1>1, Invariance, PTL

(* Links are symmetric and the two tables of every monitor agree, whatever   *)
(* the interleaving of link, unlink, monitor, demonitor, kill and teardown.  *)
THEOREM TablesAlwaysAgree == Spec => []TablesAgree
<1>1. IInv => TablesAgree
  BY DEF IInv
<1> QED
  BY <1>1, Invariance, PTL

-----------------------------------------------------------------------------
(* The Downs and the tasks that wait to send. *)

HIDE ProcessAssumption

(* A process reads its mailbox until it leaves the loop, which closes the    *)
(* mailbox and fixes the reason.                                             *)
LoopIsOpen ==
    \A p \in Procs : /\ inboxOpen[p] => Live(p)
                     /\ Live(p) => reason[p] = None

(* A task waits in one queue, once. *)
QueuedOnce ==
    \A q \in Procs : \A i, j \in DOMAIN senders[q] :
        senders[q][i] = senders[q][j] => i = j

(* A Down for q: made under a ref of q, by the process that the ref is about.*)
Truthful(m, q) ==
    m.type = "Down" =>
        /\ m.ref \in Refs /\ m.ref < nextRef
        /\ m.pid \in Procs /\ m.pid = target[m.ref] /\ q = owner[m.ref]
        /\ reason[m.pid] # None
        /\ m.reason = reason[m.pid] \/ (m.reason = "noproc" /\ Stopped(m.pid))

Sending(p) == pc[p] \in {"send", "send_wait"}

AllTruthful ==
    /\ \A q \in Procs : \A i \in DOMAIN mailbox[q] : Truthful(mailbox[q][i], q)
    /\ \A q \in Procs : current[q] # None => Truthful(current[q], q)
    /\ \A p \in Procs : Sending(p) => /\ Truthful(outgoing[p], peer[p])
                                      /\ outgoing[p].type = "Down" => outgoing[p].pid = p

(* The places of a Down that is not handled yet. *)
Tells(m, r)     == m.type = "Down" /\ m.ref = r
InMail(q, i, r) == i \in DOMAIN mailbox[q] /\ Tells(mailbox[q][i], r)
InHand(q, r)    == pc[q] = "handling" /\ Tells(current[q], r)
InSend(p, r)    == Sending(p) /\ Tells(outgoing[p], r)

(* No Down is made under a ref that a table or a snapshot still holds.       *)
UnsentInTables ==
    /\ \A r \in Refs : r >= nextRef => sent[r] = 0
    /\ \A q \in Procs : \A r \in monitoredBy[q] \cup downTodo[q] : sent[r] = 0

(* A Down that is not handled yet is the only one of its ref, and in one     *)
(* place.                                                                    *)
OnePlace(r) ==
    \A p, q \in Procs :
      /\ InSend(p, r) => sent[r] = 1 /\ seen[r] = 0 /\ ~InHand(q, r)
      /\ InHand(q, r) => sent[r] = 1 /\ seen[r] = 0
      /\ \A i \in DOMAIN mailbox[q] : InMail(q, i, r) =>
            /\ sent[r] = 1 /\ seen[r] = 0
            /\ ~InHand(q, r) /\ ~InSend(p, r)
            /\ \A j \in DOMAIN mailbox[q] : InMail(q, j, r) => i = j
InOnePlace == \A r \in Refs : OnePlace(r)

(* The first loop of the teardown has notified all but the late monitors     *)
(* once its snapshot is used up, and it is used up when the second begins.   *)
SnapshotDone ==
    \A p \in Procs :
      /\ Dying(p) \/ Stopped(p) => monitoredBy[p] \subseteq late \cup downTodo[p]
      /\ pc[p] \in {"exits", "peer_stop", "unregister", "stopped"} => downTodo[p] = {}
      /\ Sending(p) /\ outgoing[p].type # "Down" => downTodo[p] = {}

DownInv == /\ LoopIsOpen /\ NoLostSender /\ QueuedOnce
           /\ AllTruthful /\ UnsentInTables /\ DownAtMostOnce /\ InOnePlace
           /\ SnapshotDone

-----------------------------------------------------------------------------
(* What stays as it is, in terms of what a step may change. *)

(* What a Down says stays true: reasons and the parties of a ref are final.  *)
LEMMA TruthStays ==
  ASSUME NEW m, NEW q, Truthful(m, q), nextRef' >= nextRef, nextRef \in Nat, nextRef' \in Nat,
         \A r \in Refs : r < nextRef => owner'[r] = owner[r] /\ target'[r] = target[r],
         \A p \in Procs : reason[p] # None => reason'[p] = reason[p],
         \A p \in Procs : Stopped(p) => pc'[p] = "stopped"
  PROVE  Truthful(m, q)'
  BY DEF Truthful, Stopped, Refs

(* Messages that were truthful where they are now remain so. *)
LEMMA TruthsStay ==
  ASSUME AllTruthful, nextRef' >= nextRef, nextRef \in Nat, nextRef' \in Nat,
         \A r \in Refs : r < nextRef => owner'[r] = owner[r] /\ target'[r] = target[r],
         \A p \in Procs : reason[p] # None => reason'[p] = reason[p],
         \A p \in Procs : Stopped(p) => pc'[p] = "stopped",
         \A q \in Procs : \A i \in DOMAIN mailbox'[q] :
            Truthful(mailbox'[q][i], q) \/ Truthful(mailbox[q][i], q)',
         \A q \in Procs : current'[q] # None =>
            Truthful(current'[q], q) \/ Truthful(current[q], q)',
         \A p \in Procs : Sending(p)' =>
            /\ Truthful(outgoing'[p], peer'[p])
            /\ outgoing'[p].type = "Down" => outgoing'[p].pid = p
  PROVE  AllTruthful'
<1>1. ASSUME NEW q \in Procs, NEW i \in DOMAIN mailbox'[q] PROVE Truthful(mailbox[q][i], q)'
  <2>1. CASE Truthful(mailbox'[q][i], q)
    <3>1. PICK m : m = mailbox'[q][i]
      OBVIOUS
    <3>2. Truthful(m, q)'
      BY <2>1, <3>1, TruthStays
    <3> QED
      BY <3>1, <3>2 DEF Truthful
  <2> QED
    BY <1>1, <2>1
<1>2. ASSUME NEW q \in Procs, current'[q] # None PROVE Truthful(current[q], q)'
  <2>1. CASE Truthful(current'[q], q)
    <3>1. PICK m : m = current'[q]
      OBVIOUS
    <3>2. Truthful(m, q)'
      BY <2>1, <3>1, TruthStays
    <3> QED
      BY <3>1, <3>2 DEF Truthful
  <2> QED
    BY <1>2, <2>1
<1>3. ASSUME NEW p \in Procs, Sending(p)'
      PROVE  Truthful(outgoing[p], peer[p])' /\ (outgoing'[p].type = "Down" => outgoing'[p].pid = p)
  <2>1. PICK m, q : m = outgoing'[p] /\ q = peer'[p]
    OBVIOUS
  <2>2. Truthful(m, q)'
    BY <1>3, <2>1, TruthStays
  <2> QED
    BY <1>3, <2>1, <2>2 DEF Truthful
<1> QED
  BY <1>1, <1>2, <1>3 DEF AllTruthful

(* Downs that only disappear leave the others in one place. *)
LEMMA PlacesShrink ==
  ASSUME NEW r \in Refs, OnePlace(r), sent'[r] = sent[r], seen'[r] = seen[r],
         \A p \in Procs : InSend(p, r)' => InSend(p, r),
         \A p \in Procs : InHand(p, r)' => InHand(p, r),
         \A p \in Procs : \A i \in DOMAIN mailbox'[p] :
            InMail(p, i, r)' => i \in DOMAIN mailbox[p] /\ InMail(p, i, r)
  PROVE  OnePlace(r)'
<1> SUFFICES ASSUME NEW p \in Procs, NEW q \in Procs
             PROVE  /\ InSend(p, r)' => sent[r] = 1 /\ seen[r] = 0 /\ ~InHand(q, r)'
                    /\ InHand(q, r)' => sent[r] = 1 /\ seen[r] = 0
                    /\ \A i \in DOMAIN mailbox'[q] : InMail(q, i, r)' =>
                          /\ sent[r] = 1 /\ seen[r] = 0
                          /\ ~InHand(q, r)' /\ ~InSend(p, r)'
                          /\ \A j \in DOMAIN mailbox'[q] : InMail(q, j, r)' => i = j
  BY DEF OnePlace
<1>1. /\ InSend(p, r) => sent[r] = 1 /\ seen[r] = 0 /\ ~InHand(q, r)
      /\ InHand(q, r) => sent[r] = 1 /\ seen[r] = 0
  BY DEF OnePlace
<1>2. ASSUME NEW i \in DOMAIN mailbox'[q], InMail(q, i, r)'
      PROVE  /\ sent[r] = 1 /\ seen[r] = 0
             /\ ~InHand(q, r)' /\ ~InSend(p, r)'
             /\ \A j \in DOMAIN mailbox'[q] : InMail(q, j, r)' => i = j
  <2>1. i \in DOMAIN mailbox[q] /\ InMail(q, i, r)
    BY <1>2
  <2>2. /\ sent[r] = 1 /\ seen[r] = 0 /\ ~InHand(q, r) /\ ~InSend(p, r)
        /\ \A j \in DOMAIN mailbox[q] : InMail(q, j, r) => i = j
    BY <2>1 DEF OnePlace
  <2> QED
    BY <2>2
<1> QED
  BY <1>1, <1>2

(* A Down that is made or moves on is in one place, which it shares with no  *)
(* other.                                                                    *)
LEMMA OneNewPlace ==
  ASSUME NEW r \in Refs, sent'[r] = 1, seen'[r] = 0,
         \/ /\ \A p \in Procs : ~InHand(p, r)'
            /\ \A p \in Procs : \A i \in DOMAIN mailbox'[p] : ~InMail(p, i, r)'
         \/ /\ \A p \in Procs : ~InSend(p, r)'
            /\ \A p \in Procs : \A i \in DOMAIN mailbox'[p] : ~InMail(p, i, r)'
         \/ /\ \A p \in Procs : ~InSend(p, r)' /\ ~InHand(p, r)'
            /\ \A p \in Procs : \A i, j \in DOMAIN mailbox'[p] :
                 InMail(p, i, r)' /\ InMail(p, j, r)' => i = j
  PROVE  OnePlace(r)'
  BY DEF OnePlace

(* Tables and snapshots that only lose refs hold no ref of a Down. *)
LEMMA UnsentStays ==
  ASSUME UnsentInTables, UNCHANGED <<sent, nextRef>>,
         \A q \in Procs : /\ monitoredBy'[q] \subseteq monitoredBy[q]
                          /\ downTodo'[q] \subseteq monitoredBy[q] \cup downTodo[q]
  PROVE  UnsentInTables'
  BY DEF UnsentInTables

(* A place of the second loop is reached when the snapshot is used up.       *)
LEMMA SnapshotStays ==
  ASSUME SnapshotDone, UNCHANGED downTodo, late \subseteq late',
         \A q \in Procs : monitoredBy'[q] \subseteq monitoredBy[q],
         \A q \in Procs :
           \/ pc'[q] = pc[q] /\ outgoing'[q] = outgoing[q]
           \/ pc'[q] \notin InTeardown /\ pc'[q] # "stopped"
           \/ Sending(q) /\ pc'[q] \in {Resume(q), "send_wait"} /\ outgoing'[q] = outgoing[q]
           \/ pc[q] \in {"exits", "peer_stop", "unregister"} /\ pc'[q] \in Pcs
  PROVE  SnapshotDone'
<1> SUFFICES ASSUME NEW q \in Procs
             PROVE  /\ Dying(q)' \/ Stopped(q)' => monitoredBy'[q] \subseteq late' \cup downTodo[q]
                    /\ pc'[q] \in {"exits", "peer_stop", "unregister", "stopped"} => downTodo[q] = {}
                    /\ Sending(q)' /\ outgoing'[q].type # "Down" => downTodo[q] = {}
  BY DEF SnapshotDone
<1>1. /\ Dying(q) \/ Stopped(q) => monitoredBy'[q] \subseteq late' \cup downTodo[q]
      /\ pc[q] \in {"exits", "peer_stop", "unregister", "stopped"} => downTodo[q] = {}
      /\ Sending(q) /\ outgoing[q].type # "Down" => downTodo[q] = {}
  BY DEF SnapshotDone
<1>2. CASE pc'[q] = pc[q] /\ outgoing'[q] = outgoing[q]
  BY <1>1, <1>2 DEF Dying, Stopped, Sending
<1>3. CASE pc'[q] \notin InTeardown /\ pc'[q] # "stopped"
  BY <1>3 DEF Dying, Stopped, Sending, InTeardown
<1>4. CASE Sending(q) /\ pc'[q] \in {Resume(q), "send_wait"} /\ outgoing'[q] = outgoing[q]
  BY <1>1, <1>4 DEF Dying, Stopped, Sending, InTeardown, Resume
<1>5. CASE pc[q] \in {"exits", "peer_stop", "unregister"} /\ pc'[q] \in Pcs
  BY <1>1, <1>5 DEF Dying, Stopped, Sending, InTeardown
<1> QED
  BY <1>2, <1>3, <1>4, <1>5

-----------------------------------------------------------------------------
(* Leaving the loop. *)

(* Whatever ended the loop of p: its streams close and it keeps its tables.  *)
Leaving(p) ==
    /\ Live(p)
    /\ \E r \in Reasons : LeaveLoop(p, r)
    /\ \A q \in Procs \ {p} : peer'[q] = peer[q]
    /\ UNCHANGED <<monitoredBy, owner, target, nextRef, downTodo, outgoing, sent, seen, late>>

(* What LeaveLoop does to each process. *)
LEMMA LeavingEffect ==
  ASSUME IInv, DownInv, NEW p \in Procs, Leaving(p)
  PROVE  /\ pc'[p] = "closing" /\ reason'[p] \in Reasons /\ reason[p] = None
         /\ ~inboxOpen'[p] /\ mailbox'[p] = <<>> /\ senders'[p] = <<>> /\ current'[p] = None
         /\ \A q \in Procs \ {p} :
              /\ inboxOpen'[q] = inboxOpen[q] /\ mailbox'[q] = mailbox[q]
              /\ senders'[q] = senders[q] /\ current'[q] = current[q]
              /\ reason'[q] = reason[q] /\ peer'[q] = peer[q]
              /\ \/ /\ q \in QueuedAt(p) /\ pc[q] = "send_wait" /\ peer[q] = p
                    /\ pc'[q] = Resume(q) /\ pc'[q] \in {"downs", "exits"}
                 \/ q \notin QueuedAt(p) /\ pc'[q] = pc[q]
<1>1. PICK r \in Reasons : LeaveLoop(p, r)
  BY DEF Leaving
<1>2. reason[p] = None
  BY DEF Leaving, DownInv, LoopIsOpen
<1>3. /\ pc'[p] = "closing" /\ reason'[p] = r /\ ~inboxOpen'[p] /\ mailbox'[p] = <<>>
      /\ senders'[p] = <<>> /\ current'[p] = None
      /\ \A q \in Procs \ {p} :
              /\ inboxOpen'[q] = inboxOpen[q] /\ mailbox'[q] = mailbox[q]
              /\ senders'[q] = senders[q] /\ current'[q] = current[q]
              /\ reason'[q] = reason[q]
  BY <1>1 DEF LeaveLoop, IInv, TypeOK, StreamTypes, TaskTypes
<1>4. \A q \in QueuedAt(p) : pc[q] = "send_wait" /\ peer[q] = p
  BY DEF DownInv, NoLostSender, QueuedAt
<1>5. \A q \in Procs \ {p} : pc'[q] = IF q \in QueuedAt(p) THEN Resume(q) ELSE pc[q]
  BY <1>1 DEF LeaveLoop
<1>6. \A q \in Procs : Resume(q) \in {"downs", "exits"}
  BY ResumeTypes
<1> QED
  BY <1>2, <1>3, <1>4, <1>5, <1>6 DEF Leaving

(* Closing the streams wakes the senders queued there and no others.         *)
LEMMA LeavingQueues ==
  ASSUME IInv, DownInv, NEW p \in Procs, Leaving(p)
  PROVE  LoopIsOpen' /\ NoLostSender' /\ QueuedOnce'
<1>0. /\ pc'[p] = "closing" /\ ~inboxOpen'[p] /\ senders'[p] = <<>>
      /\ \A q \in Procs \ {p} :
              /\ inboxOpen'[q] = inboxOpen[q] /\ mailbox'[q] = mailbox[q]
              /\ senders'[q] = senders[q] /\ reason'[q] = reason[q] /\ peer'[q] = peer[q]
              /\ \/ /\ q \in QueuedAt(p) /\ pc[q] = "send_wait" /\ peer[q] = p
                    /\ pc'[q] \in {"downs", "exits"}
                 \/ q \notin QueuedAt(p) /\ pc'[q] = pc[q]
  BY LeavingEffect
<1>1. LoopIsOpen'
  BY <1>0 DEF LoopIsOpen, Live, InLoop, DownInv
<1>2. QueuedOnce'
  BY <1>0 DEF QueuedOnce, DownInv
<1>3. ASSUME NEW q \in Procs, NEW i \in DOMAIN senders'[q]
      PROVE  /\ pc'[senders'[q][i]] = "send_wait" /\ peer'[senders'[q][i]] = q
             /\ Live(q)' /\ Len(mailbox'[q]) = MailboxSize
  <2>1. q # p /\ senders'[q] = senders[q] /\ mailbox'[q] = mailbox[q]
    BY <1>0
  <2> DEFINE s == senders[q][i]
  <2>2. /\ s \in Procs /\ pc[s] = "send_wait" /\ peer[s] = q
        /\ Live(q) /\ Len(mailbox[q]) = MailboxSize
    BY <2>1 DEF DownInv, NoLostSender, IInv, TypeOK, StreamTypes
  <2>3. s # p /\ s \notin QueuedAt(p)
    BY <1>0, <2>1, <2>2 DEF Leaving, Live, InLoop
  <2>4. pc'[q] = pc[q]
    BY <1>0, <2>1, <2>2 DEF Live, InLoop
  <2> QED
    BY <1>0, <2>1, <2>2, <2>3, <2>4 DEF Live
<1>4. ASSUME NEW s \in Procs, pc'[s] = "send_wait"
      PROVE  \E i \in DOMAIN senders'[peer'[s]] : senders'[peer'[s]][i] = s
  <2>1. s # p /\ s \notin QueuedAt(p) /\ pc[s] = "send_wait" /\ peer'[s] = peer[s]
    BY <1>0, <1>4
  <2>2. PICK i \in DOMAIN senders[peer[s]] : senders[peer[s]][i] = s
    BY <2>1 DEF DownInv, NoLostSender
  <2>3. peer[s] \in Procs \ {p}
    BY <2>1, <2>2 DEF QueuedAt, IInv, TypeOK, TaskTypes, TasksReady
  <2> QED
    BY <1>0, <2>1, <2>2, <2>3
<1> QED
  BY <1>1, <1>2, <1>3, <1>4 DEF NoLostSender

(* The Downs of the mailbox that closes are lost, the others stay.           *)
LEMMA LeavingDowns ==
  ASSUME IInv, DownInv, NEW p \in Procs, Leaving(p)
  PROVE  DownInv'
<1>0. /\ pc'[p] = "closing" /\ mailbox'[p] = <<>> /\ current'[p] = None
      /\ reason[p] = None
      /\ \A q \in Procs \ {p} :
              /\ mailbox'[q] = mailbox[q] /\ current'[q] = current[q]
              /\ reason'[q] = reason[q] /\ peer'[q] = peer[q]
              /\ \/ /\ q \in QueuedAt(p) /\ pc[q] = "send_wait"
                    /\ pc'[q] = Resume(q) /\ pc'[q] \in {"downs", "exits"}
                 \/ q \notin QueuedAt(p) /\ pc'[q] = pc[q]
  BY LeavingEffect
<1>1. UNCHANGED <<monitoredBy, owner, target, nextRef, downTodo, outgoing, sent, seen, late>>
  BY DEF Leaving
<1>2. \A q \in Procs : Sending(q)' => q # p /\ Sending(q) /\ peer'[q] = peer[q]
  BY <1>0 DEF Sending
<1>3. AllTruthful'
  <2>1. \A q \in Procs : reason[q] # None => reason'[q] = reason[q]
    BY <1>0
  <2>2. \A q \in Procs : Stopped(q) => pc'[q] = "stopped"
    BY <1>0 DEF Stopped, Leaving, Live, InLoop
  <2>3. \A q \in Procs : \A i \in DOMAIN mailbox'[q] : Truthful(mailbox'[q][i], q)
    BY <1>0 DEF DownInv, AllTruthful
  <2>4. \A q \in Procs : current'[q] # None => Truthful(current'[q], q)
    BY <1>0 DEF DownInv, AllTruthful
  <2>5. \A q \in Procs : Sending(q)' =>
            /\ Truthful(outgoing'[q], peer'[q])
            /\ outgoing'[q].type = "Down" => outgoing'[q].pid = q
    BY <1>1, <1>2 DEF DownInv, AllTruthful
  <2> QED
    BY <1>1, <2>1, <2>2, <2>3, <2>4, <2>5, TruthsStay DEF DownInv, IInv, TypeOK, TableTypes
<1>4. InOnePlace'
  <2>1. \A q \in Procs, r \in Refs : InSend(q, r)' => InSend(q, r)
    BY <1>1, <1>2 DEF InSend
  <2>2. \A q \in Procs, r \in Refs : InHand(q, r)' => InHand(q, r)
    BY <1>0 DEF InHand
  <2>3. \A q \in Procs : \A i \in DOMAIN mailbox'[q] : \A r \in Refs :
            InMail(q, i, r)' => i \in DOMAIN mailbox[q] /\ InMail(q, i, r)
    BY <1>0 DEF InMail
  <2> QED
    BY <1>1, <2>1, <2>2, <2>3, PlacesShrink DEF DownInv, InOnePlace
<1>5. UnsentInTables' /\ DownAtMostOnce'
  BY <1>1, UnsentStays DEF DownInv, DownAtMostOnce
<1>6. SnapshotDone'
  <2>1. \A q \in Procs :
           \/ pc'[q] = pc[q] /\ outgoing'[q] = outgoing[q]
           \/ pc'[q] \notin InTeardown /\ pc'[q] # "stopped"
           \/ Sending(q) /\ pc'[q] \in {Resume(q), "send_wait"} /\ outgoing'[q] = outgoing[q]
    BY <1>0, <1>1 DEF Sending, InTeardown
  <2> QED
    BY <1>1, <2>1, SnapshotStays DEF DownInv
<1> QED
  BY <1>3, <1>4, <1>5, <1>6, LeavingQueues DEF DownInv

-----------------------------------------------------------------------------
(* Going from one place to another, in the loop or in the teardown.          *)

(* The task of p touches no mailbox, and stays where it is: in the loop, or  *)
(* out of it.                                                                *)
Moving(p) ==
    /\ pc[p] \notin {"send_wait", "stopped"}
    /\ \E place \in Pcs \ {"send_wait"} :
         pc' = [pc EXCEPT ![p] = place] /\ (Live(p) <=> place \in InLoop)
    /\ current'[p] \in {current[p], None}
    /\ \A q \in Procs \ {p} :
         peer'[q] = peer[q] /\ outgoing'[q] = outgoing[q] /\ current'[q] = current[q]
    /\ UNCHANGED <<inboxOpen, mailbox, senders, reason, owner, target, nextRef>>

(* ... and makes and handles no Down. *)
MovingOn(p) ==
    /\ Moving(p) /\ pc'[p] # "handling"
    /\ Sending(p)' => outgoing'[p].type = "Exit"
    /\ UNCHANGED <<sent, seen>>

(* The queued senders are where they were. *)
LEMMA MovingQueues ==
  ASSUME IInv, DownInv, NEW p \in Procs, Moving(p)
  PROVE  LoopIsOpen' /\ NoLostSender' /\ QueuedOnce'
<1>0. /\ \A q \in Procs \ {p} : pc'[q] = pc[q] /\ peer'[q] = peer[q]
      /\ pc[p] # "send_wait" /\ pc'[p] # "send_wait"
      /\ Live(p) <=> pc'[p] \in InLoop
      /\ UNCHANGED <<inboxOpen, mailbox, senders, reason>>
  BY DEF Moving, IInv, TypeOK, TaskTypes
<1>1. LoopIsOpen'
  BY <1>0 DEF LoopIsOpen, Live, DownInv
<1>2. QueuedOnce'
  BY <1>0 DEF QueuedOnce, DownInv
<1>3. ASSUME NEW q \in Procs, NEW i \in DOMAIN senders'[q]
      PROVE  /\ pc'[senders'[q][i]] = "send_wait" /\ peer'[senders'[q][i]] = q
             /\ Live(q)' /\ Len(mailbox'[q]) = MailboxSize
  <2> DEFINE s == senders[q][i]
  <2>1. /\ s \in Procs /\ pc[s] = "send_wait" /\ peer[s] = q
        /\ Live(q) /\ Len(mailbox[q]) = MailboxSize
    BY <1>0, <1>3 DEF DownInv, NoLostSender, IInv, TypeOK, StreamTypes
  <2> QED
    BY <1>0, <2>1 DEF Live
<1>4. ASSUME NEW s \in Procs, pc'[s] = "send_wait"
      PROVE  \E i \in DOMAIN senders'[peer'[s]] : senders'[peer'[s]][i] = s
  BY <1>0, <1>4 DEF DownInv, NoLostSender
<1> QED
  BY <1>1, <1>2, <1>3, <1>4 DEF NoLostSender

(* A move makes no Down, whatever p lets go of. *)
LEMMA MovingTruths ==
  ASSUME IInv, DownInv, NEW p \in Procs, Moving(p),
         Sending(p)' => /\ Truthful(outgoing'[p], peer'[p])
                        /\ outgoing'[p].type = "Down" => outgoing'[p].pid = p
  PROVE  AllTruthful'
<1>0. /\ \A q \in Procs \ {p} : pc'[q] = pc[q]
      /\ \A q \in Procs \ {p} : peer'[q] = peer[q] /\ outgoing'[q] = outgoing[q]
      /\ \A q \in Procs : current'[q] \in {current[q], None}
      /\ UNCHANGED <<mailbox, reason, owner, target, nextRef>>
  BY DEF Moving, IInv, TypeOK, TaskTypes
<1>1. \A q \in Procs : Stopped(q) => pc'[q] = "stopped"
  BY <1>0 DEF Stopped, Moving
<1>2. \A q \in Procs : \A i \in DOMAIN mailbox'[q] : Truthful(mailbox'[q][i], q)
  BY <1>0 DEF DownInv, AllTruthful
<1>3. \A q \in Procs : current'[q] # None => Truthful(current'[q], q)
  BY <1>0 DEF DownInv, AllTruthful
<1>4. \A q \in Procs : Sending(q)' =>
            /\ Truthful(outgoing'[q], peer'[q])
            /\ outgoing'[q].type = "Down" => outgoing'[q].pid = q
  BY <1>0 DEF DownInv, AllTruthful, Sending
<1> QED
  BY <1>0, <1>1, <1>2, <1>3, <1>4, TruthsStay DEF DownInv, IInv, TypeOK, TableTypes

(* The Downs are where they were. *)
LEMMA MovingOnDowns ==
  ASSUME IInv, DownInv, NEW p \in Procs, MovingOn(p)
  PROVE  /\ LoopIsOpen' /\ NoLostSender' /\ QueuedOnce'
         /\ AllTruthful' /\ DownAtMostOnce' /\ InOnePlace'
<1>0. /\ \A q \in Procs \ {p} : pc'[q] = pc[q]
      /\ \A q \in Procs \ {p} : outgoing'[q] = outgoing[q] /\ current'[q] = current[q]
      /\ pc'[p] # "handling"
      /\ Sending(p)' => outgoing'[p].type = "Exit"
      /\ UNCHANGED <<mailbox, sent, seen>>
  BY DEF MovingOn, Moving, IInv, TypeOK, TaskTypes
<1>1. AllTruthful'
  BY <1>0, MovingTruths DEF MovingOn, Truthful
<1>2. InOnePlace'
  <2>1. \A q \in Procs, r \in Refs : InSend(q, r)' => InSend(q, r)
    BY <1>0 DEF InSend, Sending, Tells
  <2>2. \A q \in Procs, r \in Refs : InHand(q, r)' => InHand(q, r)
    BY <1>0 DEF InHand
  <2>3. \A q \in Procs : \A i \in DOMAIN mailbox'[q] : \A r \in Refs :
            InMail(q, i, r)' => i \in DOMAIN mailbox[q] /\ InMail(q, i, r)
    BY <1>0 DEF InMail
  <2> QED
    BY <1>0, <2>1, <2>2, <2>3, PlacesShrink DEF DownInv, InOnePlace
<1> QED
  BY <1>0, <1>1, <1>2, MovingQueues DEF DownInv, DownAtMostOnce, MovingOn

(* A ref of a table or a snapshot is one of Refs that was given out.         *)
LEMMA RefsInUse ==
  ASSUME IInv, NEW q \in Procs, NEW r \in monitoredBy[q] \cup downTodo[q]
  PROVE  r \in Refs /\ r < nextRef /\ target[r] = q /\ owner[r] \in Procs
<1>1. r \in Refs /\ target[r] = q /\ owner[r] \in Procs
  BY DEF IInv, TypeOK, TaskTypes, TableTypes, TablesAgree
<1> QED
  BY <1>1, ProcessAssumption DEF IInv, TypeOK, TableTypes, TablesAgree, Refs

(* A Down on its way is between the parties of its ref. *)
LEMMA DownsAddressed ==
  ASSUME IInv, DownInv, NEW r
  PROVE  /\ \A q \in Procs : InHand(q, r) => r \in Refs /\ r < nextRef /\ owner[r] = q
         /\ \A q \in Procs : \A i \in DOMAIN mailbox[q] :
              InMail(q, i, r) => r \in Refs /\ r < nextRef /\ owner[r] = q
         /\ \A p \in Procs : InSend(p, r) =>
              r \in Refs /\ r < nextRef /\ target[r] = p /\ owner[r] = peer[p]
<1>1. ASSUME NEW q \in Procs, InHand(q, r) PROVE r \in Refs /\ r < nextRef /\ owner[r] = q
  <2>1. current[q] # None
    BY <1>1 DEF InHand, IInv, TypeOK, TasksReady
  <2> QED
    BY <1>1, <2>1 DEF InHand, Tells, DownInv, AllTruthful, Truthful
<1>2. ASSUME NEW q \in Procs, NEW i \in DOMAIN mailbox[q], InMail(q, i, r)
      PROVE  r \in Refs /\ r < nextRef /\ owner[r] = q
  BY <1>2 DEF InMail, Tells, DownInv, AllTruthful, Truthful
<1>3. ASSUME NEW p \in Procs, InSend(p, r)
      PROVE  r \in Refs /\ r < nextRef /\ target[r] = p /\ owner[r] = peer[p]
  BY <1>3 DEF InSend, Tells, DownInv, AllTruthful, Truthful
<1> QED
  BY <1>1, <1>2, <1>3

(* A Down that is handled was in hand, is counted, and is nowhere now.       *)
LEMMA HandleDownDowns ==
  ASSUME IInv, DownInv, NEW p \in Procs, HandleDown(p)
  PROVE  DownInv'
<1>0. PICK n : n = current[p].ref
  OBVIOUS
<1>1. /\ pc[p] = "handling" /\ current[p] # None /\ current[p].type = "Down"
      /\ \E place \in {"idle", "callback"} : pc' = [pc EXCEPT ![p] = place]
      /\ UNCHANGED <<inboxOpen, mailbox, senders, reason, owner, target, nextRef,
                     peer, outgoing, sent, monitoredBy, downTodo, late>>
  BY DEF HandleDown, At, life, work, IInv, TypeOK, TasksReady
<1>2. /\ \A q \in Procs \ {p} : pc'[q] = pc[q]
      /\ pc'[p] \in {"idle", "callback"}
      /\ \A q \in Procs : current'[q] \in {current[q], None}
  BY <1>1 DEF HandleDown, IInv, TypeOK, TaskTypes, StreamTypes
<1>3. Moving(p)
  BY <1>1, <1>2 DEF Moving, Live, InLoop, Pcs, HandleDown, IInv, TypeOK, StreamTypes
<1>4. ~Sending(p)'
  BY <1>2 DEF Sending
<1>5. SnapshotDone' /\ UnsentInTables'
  <2>1. \A q \in Procs :
           \/ pc'[q] = pc[q] /\ outgoing'[q] = outgoing[q]
           \/ pc'[q] \notin InTeardown /\ pc'[q] # "stopped"
    BY <1>1, <1>2 DEF InTeardown
  <2> QED
    BY <1>1, <2>1, SnapshotStays, UnsentStays DEF DownInv
<1>6. LoopIsOpen' /\ NoLostSender' /\ QueuedOnce' /\ AllTruthful'
  BY <1>3, <1>4, MovingQueues, MovingTruths
<1>7. CASE UNCHANGED seen
  <2>1. MovingOn(p)
    BY <1>1, <1>2, <1>3, <1>4, <1>7 DEF MovingOn
  <2> QED
    BY <1>5, <2>1, MovingOnDowns DEF DownInv
<1>8. CASE seen' = [seen EXCEPT ![n] = @ + 1]
  <2>1. n \in Refs
    BY <1>0, <1>1 DEF DownInv, AllTruthful, Truthful
  <2>2. InHand(p, n)
    BY <1>0, <1>1 DEF InHand, Tells
  <2>3. sent[n] = 1 /\ seen[n] = 0
    BY <2>1, <2>2 DEF DownInv, InOnePlace, OnePlace
  <2>4. \A r \in Refs : seen'[r] = IF r = n THEN 1 ELSE seen[r]
    BY <1>8, <2>1, <2>3 DEF IInv, TypeOK, TableTypes
  <2>5. DownAtMostOnce'
    BY <1>1, <2>3, <2>4 DEF DownInv, DownAtMostOnce
  <2>6. pc'[p] # "handling" /\ \A q \in Procs \ {p} : pc'[q] = pc[q] /\ current'[q] = current[q]
    BY <1>1, <1>2, <1>3 DEF Moving
  <2>7. ASSUME NEW r \in Refs PROVE OnePlace(r)'
    <3>0. OnePlace(r) /\ OnePlace(n)
      BY <2>1 DEF DownInv, InOnePlace
    <3>1. \A q \in Procs : InSend(q, r)' => InSend(q, r)
      BY <1>1, <2>6, <1>4 DEF InSend, Sending
    <3>2. \A q \in Procs : InHand(q, r)' => InHand(q, r)
      BY <2>6 DEF InHand
    <3>3. \A q \in Procs : \A i \in DOMAIN mailbox'[q] :
            InMail(q, i, r)' => i \in DOMAIN mailbox[q] /\ InMail(q, i, r)
      BY <1>1 DEF InMail
    <3>4. CASE r # n
      <4>1. sent'[r] = sent[r] /\ seen'[r] = seen[r]
        BY <1>1, <2>4, <3>4
      <4> QED
        BY <3>0, <3>1, <3>2, <3>3, <4>1, PlacesShrink
    <3>5. CASE r = n
      <4>1. \A q \in Procs : ~InSend(q, n)
        BY <2>2, <3>0 DEF OnePlace
      <4>2. \A q \in Procs : \A i \in DOMAIN mailbox[q] : ~InMail(q, i, n)
        BY <2>2, <3>0, DownsAddressed DEF OnePlace
      <4>3. \A q \in Procs : ~InHand(q, n)'
        BY <2>2, <2>6, <3>2, DownsAddressed DEF InHand
      <4> QED
        BY <3>1, <3>3, <3>5, <4>1, <4>2, <4>3 DEF OnePlace
    <3> QED
      BY <3>4, <3>5
  <2> QED
    BY <1>5, <1>6, <2>5, <2>7 DEF DownInv, InOnePlace
<1> QED
  BY <1>0, <1>7, <1>8 DEF HandleDown

(* A round of the first loop: the first Down of a ref that leaves the        *)
(* snapshot.                                                                 *)
LEMMA NextDownDowns ==
  ASSUME IInv, DownInv, NEW p \in Procs, NextDown(p)
  PROVE  DownInv'
<1>1. PICK n \in downTodo[p] :
          /\ downTodo' = [downTodo EXCEPT ![p] = @ \ {n}]
          /\ monitoredBy' = [monitoredBy EXCEPT ![p] = @ \ {n}]
          /\ peer' = [peer EXCEPT ![p] = owner[n]]
          /\ outgoing' = [outgoing EXCEPT ![p] = Down(p, reason[p], n)]
          /\ sent' = [sent EXCEPT ![n] = @ + 1]
  BY DEF NextDown
<1>2. /\ pc[p] = "downs" /\ pc' = [pc EXCEPT ![p] = "send"]
      /\ UNCHANGED <<inboxOpen, mailbox, senders, current, reason, owner, target, nextRef,
                     seen, late>>
  BY DEF NextDown, At, mail, life
<1>3. n \in Refs /\ n < nextRef /\ target[n] = p /\ owner[n] \in Procs
  BY RefsInUse
<1>4. sent[n] = 0 /\ seen[n] = 0
  BY <1>3 DEF DownInv, UnsentInTables, DownAtMostOnce, IInv, TypeOK, TableTypes
<1>5. /\ \A q \in Procs : downTodo'[q] = IF q = p THEN downTodo[p] \ {n} ELSE downTodo[q]
      /\ \A q \in Procs : monitoredBy'[q] = IF q = p THEN monitoredBy[p] \ {n} ELSE monitoredBy[q]
      /\ \A q \in Procs \ {p} : peer'[q] = peer[q] /\ outgoing'[q] = outgoing[q]
      /\ outgoing'[p] = Down(p, reason[p], n) /\ peer'[p] = owner[n]
      /\ \A r \in Refs : sent'[r] = IF r = n THEN 1 ELSE sent[r]
      /\ \A q \in Procs : pc'[q] = IF q = p THEN "send" ELSE pc[q]
  BY <1>1, <1>2, <1>3, <1>4 DEF IInv, TypeOK, TaskTypes, TableTypes
<1>6. Moving(p)
  BY <1>2, <1>5 DEF Moving, Live, Pcs, InLoop, InTeardown
<1>7. /\ outgoing'[p].type = "Down" /\ outgoing'[p].pid = p
      /\ outgoing'[p].ref = n /\ outgoing'[p].reason = reason[p]
  BY <1>5 DEF Down
<1>8. AllTruthful'
  <2>1. reason[p] # None
    BY <1>2 DEF IInv, TypeOK, TasksReady, InLoop
  <2>2. Truthful(outgoing'[p], peer'[p])
    BY <1>3, <1>5, <1>7, <2>1 DEF Truthful
  <2> QED
    BY <1>6, <1>7, <2>2, MovingTruths
<1>9. UnsentInTables'
  <2>1. ASSUME NEW q \in Procs, NEW r \in monitoredBy'[q] \cup downTodo'[q]
        PROVE  sent'[r] = 0
    <3>1. r \in monitoredBy[q] \cup downTodo[q] /\ r # n
      BY <1>3, <1>5, <2>1, RefsInUse
    <3>2. r \in Refs /\ sent[r] = 0
      BY <3>1, RefsInUse DEF DownInv, UnsentInTables
    <3> QED
      BY <1>5, <3>1, <3>2
  <2>2. \A r \in Refs : r >= nextRef' => sent'[r] = 0
    <3>1. \A r \in Refs : r >= nextRef => sent[r] = 0
      BY DEF DownInv, UnsentInTables
    <3>2. ~(n >= nextRef)
      BY <1>3, ProcessAssumption DEF Refs, IInv, TypeOK, TableTypes
    <3> QED
      BY <1>2, <1>5, <3>1, <3>2
  <2> QED
    BY <2>1, <2>2 DEF UnsentInTables
<1>10. DownAtMostOnce'
  BY <1>2, <1>4, <1>5 DEF DownInv, DownAtMostOnce
<1>11. ASSUME NEW r \in Refs PROVE OnePlace(r)'
  <2>0. OnePlace(r)
    BY DEF DownInv, InOnePlace
  <2>1. \A q \in Procs : InHand(q, r)' => InHand(q, r)
    BY <1>2, <1>5 DEF InHand
  <2>2. \A q \in Procs : \A i \in DOMAIN mailbox'[q] :
            InMail(q, i, r)' => i \in DOMAIN mailbox[q] /\ InMail(q, i, r)
    BY <1>2 DEF InMail
  <2>3. CASE r # n
    <3>1. \A q \in Procs : InSend(q, r)' => InSend(q, r)
      BY <1>5, <1>7, <2>3 DEF InSend, Sending, Tells
    <3>2. sent'[r] = sent[r] /\ seen'[r] = seen[r]
      BY <1>2, <1>5, <2>3
    <3> QED
      BY <2>0, <2>1, <2>2, <3>1, <3>2, PlacesShrink
  <2>4. CASE r = n
    <3>1. /\ \A q \in Procs : ~InHand(q, r)
          /\ \A q \in Procs : \A i \in DOMAIN mailbox[q] : ~InMail(q, i, r)
      BY <1>4, <2>0, <2>4 DEF OnePlace
    <3>2. sent'[r] = 1 /\ seen'[r] = 0
      BY <1>2, <1>4, <1>5, <2>4
    <3> QED
      BY <2>1, <2>2, <3>1, <3>2, OneNewPlace
  <2> QED
    BY <2>3, <2>4
<1>12. SnapshotDone'
  <2>1. ASSUME NEW q \in Procs
        PROVE  /\ Dying(q)' \/ Stopped(q)' => monitoredBy'[q] \subseteq late' \cup downTodo'[q]
               /\ pc'[q] \in {"exits", "peer_stop", "unregister", "stopped"} => downTodo'[q] = {}
               /\ Sending(q)' /\ outgoing'[q].type # "Down" => downTodo'[q] = {}
    <3>1. CASE q = p
      <4>1. monitoredBy[p] \subseteq late \cup downTodo[p]
        BY <1>2 DEF DownInv, SnapshotDone, Dying, InTeardown
      <4> QED
        BY <1>2, <1>5, <1>7, <3>1, <4>1
    <3>2. CASE q # p
      BY <1>2, <1>5, <3>2 DEF DownInv, SnapshotDone, Dying, Stopped, Sending
    <3> QED
      BY <3>1, <3>2
  <2> QED
    BY <2>1 DEF SnapshotDone
<1> QED
  BY <1>6, <1>8, <1>9, <1>10, <1>11, <1>12, MovingQueues DEF DownInv, InOnePlace

-----------------------------------------------------------------------------
(* Delivery to a mailbox. *)

(* q gets m and p, who sends it or not, goes on, in the loop or out of it.   *)
Delivering(p, q, m) ==
    /\ Deliver(q, m)
    /\ pc[p] \notin {"send_wait", "stopped"}
    /\ \E place \in Pcs \ {"send", "send_wait"} :
         /\ Live(p) <=> place \in InLoop
         /\ place = "handling" => pc[p] = "handling"
         /\ \A x \in Procs : pc'[x] = IF x = q /\ Parked(q) THEN "handling"
                                      ELSE IF x = p THEN place ELSE pc[x]
    /\ \A x \in Procs \ {p} : peer'[x] = peer[x]
    /\ UNCHANGED <<reason, outgoing>>

(* What it does to each process and mailbox. *)
LEMMA DeliveringEffect ==
  ASSUME IInv, DownInv, NEW p \in Procs, NEW q \in Procs, NEW m \in Message, Delivering(p, q, m)
  PROVE  /\ Live(q) /\ senders[q] = <<>> /\ UNCHANGED <<inboxOpen, senders, reason, outgoing>>
         /\ \A x \in Procs : /\ Live(x)' <=> Live(x)
                             /\ pc'[x] = "send_wait" <=> pc[x] = "send_wait"
                             /\ Sending(x)' => x # p /\ pc'[x] = pc[x] /\ peer'[x] = peer[x]
                             /\ pc'[x] = "handling" => pc[x] = "handling" \/ (x = q /\ Parked(q))
                             /\ Stopped(x) => pc'[x] = "stopped"
         /\ \A x \in Procs \ {q} : mailbox'[x] = mailbox[x] /\ current'[x] = current[x]
         /\ Parked(q) => current'[q] = m /\ mailbox'[q] = mailbox[q]
         /\ ~Parked(q) => current'[q] = current[q] /\ mailbox'[q] = Append(mailbox[q], m)
<1>1. UNCHANGED <<inboxOpen, senders, reason, outgoing>>
  BY DEF Delivering, Deliver
<1>2. Live(q)
  BY DEF Delivering, Deliver, Accepts, DownInv, LoopIsOpen
<1>3. senders[q] = <<>>
  <2>1. Len(mailbox[q]) # MailboxSize
    BY ProcessAssumption DEF Delivering, Deliver, Accepts, Parked
  <2>2. DOMAIN senders[q] = {}
    BY <2>1 DEF DownInv, NoLostSender
  <2>3. senders[q] \in Seq(Procs)
    BY DEF IInv, TypeOK, StreamTypes
  <2>4. senders[q] # <<>> => 1 \in DOMAIN senders[q]
    BY <2>3, EmptySeq
  <2> QED
    BY <2>2, <2>4
<1>4. /\ \A x \in Procs \ {q} : mailbox'[x] = mailbox[x] /\ current'[x] = current[x]
      /\ Parked(q) => current'[q] = m /\ mailbox'[q] = mailbox[q]
      /\ ~Parked(q) => current'[q] = current[q] /\ mailbox'[q] = Append(mailbox[q], m)
  BY DEF Delivering, Deliver, IInv, TypeOK, StreamTypes
<1>5. PICK place \in Pcs \ {"send", "send_wait"} :
         /\ Live(p) <=> place \in InLoop
         /\ place = "handling" => pc[p] = "handling"
         /\ \A x \in Procs : pc'[x] = IF x = q /\ Parked(q) THEN "handling"
                                      ELSE IF x = p THEN place ELSE pc[x]
  BY DEF Delivering
<1>6. pc[p] \notin {"send_wait", "stopped"} /\ \A x \in Procs \ {p} : peer'[x] = peer[x]
  BY DEF Delivering
<1>7. ASSUME NEW x \in Procs
      PROVE  /\ Live(x)' <=> Live(x)
             /\ pc'[x] = "send_wait" <=> pc[x] = "send_wait"
             /\ Sending(x)' => x # p /\ pc'[x] = pc[x] /\ peer'[x] = peer[x]
             /\ pc'[x] = "handling" => pc[x] = "handling" \/ (x = q /\ Parked(q))
             /\ Stopped(x) => pc'[x] = "stopped"
  <2>1. CASE x = q /\ Parked(q)
    BY <1>5, <2>1 DEF Live, InLoop, Sending, Stopped, Parked
  <2>2. CASE ~(x = q /\ Parked(q)) /\ x = p
    BY <1>5, <1>6, <2>2 DEF Live, Sending, Stopped
  <2>3. CASE ~(x = q /\ Parked(q)) /\ x # p
    BY <1>5, <1>6, <2>3 DEF Live, Sending, Stopped
  <2> QED
    BY <2>1, <2>2, <2>3
<1> QED
  BY <1>1, <1>2, <1>3, <1>4, <1>7

(* Nobody is queued at a mailbox that accepts a message. *)
LEMMA DeliveringQueues ==
  ASSUME IInv, DownInv, NEW p \in Procs, NEW q \in Procs, NEW m \in Message, Delivering(p, q, m)
  PROVE  LoopIsOpen' /\ NoLostSender' /\ QueuedOnce'
<1>0. /\ senders[q] = <<>> /\ UNCHANGED <<inboxOpen, senders, reason>>
      /\ \A x \in Procs : /\ Live(x)' <=> Live(x)
                          /\ pc'[x] = "send_wait" <=> pc[x] = "send_wait"
                          /\ Sending(x)' => peer'[x] = peer[x]
      /\ \A x \in Procs \ {q} : mailbox'[x] = mailbox[x]
  BY DeliveringEffect
<1>1. LoopIsOpen' /\ QueuedOnce'
  BY <1>0 DEF LoopIsOpen, QueuedOnce, DownInv
<1>3. ASSUME NEW x \in Procs, NEW i \in DOMAIN senders'[x]
      PROVE  /\ pc'[senders'[x][i]] = "send_wait" /\ peer'[senders'[x][i]] = x
             /\ Live(x)' /\ Len(mailbox'[x]) = MailboxSize
  <2> DEFINE s == senders[x][i]
  <2>1. /\ s \in Procs /\ pc[s] = "send_wait" /\ peer[s] = x
        /\ Live(x) /\ Len(mailbox[x]) = MailboxSize
    BY <1>0, <1>3 DEF DownInv, NoLostSender, IInv, TypeOK, StreamTypes
  <2>2. x # q
    BY <1>0, <1>3
  <2> QED
    BY <1>0, <2>1, <2>2 DEF Sending
<1>4. ASSUME NEW s \in Procs, pc'[s] = "send_wait"
      PROVE  \E i \in DOMAIN senders'[peer'[s]] : senders'[peer'[s]][i] = s
  <2>1. pc[s] = "send_wait" /\ peer'[s] = peer[s]
    BY <1>0, <1>4 DEF Sending
  <2> QED
    BY <1>0, <2>1 DEF DownInv, NoLostSender
<1> QED
  BY <1>1, <1>3, <1>4 DEF NoLostSender

(* The message that is delivered, and no other, is new where it is.          *)
LEMMA DeliveringTruths ==
  ASSUME IInv, DownInv, NEW p \in Procs, NEW q \in Procs, NEW m \in Message, Delivering(p, q, m),
         nextRef' >= nextRef, nextRef' \in Nat,
         \A r \in Refs : r < nextRef => owner'[r] = owner[r] /\ target'[r] = target[r],
         Truthful(m, q) \/ Truthful(m, q)'
  PROVE  AllTruthful'
<1>1. UNCHANGED <<reason, outgoing>> /\ \A x \in Procs : Stopped(x) => pc'[x] = "stopped"
  BY DeliveringEffect
<1>2. \A x \in Procs : Sending(x)' =>
            /\ Truthful(outgoing'[x], peer'[x])
            /\ outgoing'[x].type = "Down" => outgoing'[x].pid = x
  BY <1>1, DeliveringEffect DEF DownInv, AllTruthful, Sending
<1>3. ASSUME NEW x \in Procs, NEW i \in DOMAIN mailbox'[x]
      PROVE  Truthful(mailbox'[x][i], x) \/ Truthful(mailbox[x][i], x)'
  <2>1. mailbox'[x] = mailbox[x] \/ (x = q /\ mailbox'[x] = Append(mailbox[x], m))
    BY DeliveringEffect
  <2>2. \/ i \in DOMAIN mailbox[x] /\ mailbox'[x][i] = mailbox[x][i]
        \/ x = q /\ mailbox'[x][i] = m
    <3>1. mailbox[x] \in Seq(Message)
      BY DEF IInv, TypeOK, StreamTypes
    <3> QED
      BY <1>3, <2>1, <3>1, AppendProperties
  <2>3. CASE i \in DOMAIN mailbox[x] /\ mailbox'[x][i] = mailbox[x][i]
    BY <2>3 DEF DownInv, AllTruthful
  <2>4. CASE x = q /\ mailbox'[x][i] = m
    BY <2>4 DEF Truthful
  <2> QED
    BY <2>2, <2>3, <2>4
<1>4. ASSUME NEW x \in Procs, current'[x] # None
      PROVE  Truthful(current'[x], x) \/ Truthful(current[x], x)'
  <2>1. \/ current'[x] = current[x]
        \/ x = q /\ current'[x] = m
    BY DeliveringEffect
  <2>2. CASE current'[x] = current[x]
    BY <1>4, <2>2 DEF DownInv, AllTruthful
  <2>3. CASE x = q /\ current'[x] = m
    BY <2>3 DEF Truthful
  <2> QED
    BY <2>1, <2>2, <2>3
<1> QED
  BY <1>1, <1>2, <1>3, <1>4, TruthsStay DEF DownInv, IInv, TypeOK, TableTypes

(* A Down that is delivered was with p, or has just been made: it is in one  *)
(* place now.                                                                *)
LEMMA DeliveringPlaces ==
  ASSUME IInv, DownInv, NEW p \in Procs, NEW q \in Procs, NEW m \in Message, Delivering(p, q, m),
         UNCHANGED seen,
         \A r \in Refs : ~Tells(m, r) => sent'[r] = sent[r],
         \A r \in Refs : Tells(m, r) =>
            /\ sent'[r] = 1 /\ seen[r] = 0
            /\ \A x \in Procs : ~InHand(x, r) /\ (InSend(x, r) => x = p)
            /\ \A x \in Procs : \A i \in DOMAIN mailbox[x] : ~InMail(x, i, r)
  PROVE  InOnePlace'
<1> SUFFICES ASSUME NEW r \in Refs PROVE OnePlace(r)'
  BY DEF InOnePlace
<1>1. \A x \in Procs : InSend(x, r)' => x # p /\ InSend(x, r)
  <2>1. UNCHANGED outgoing /\ \A x \in Procs : Sending(x)' => x # p /\ pc'[x] = pc[x]
    BY DeliveringEffect
  <2> QED
    BY <2>1 DEF InSend, Sending
<1>2. \A x \in Procs : InHand(x, r)' =>
         \/ InHand(x, r)
         \/ x = q /\ Parked(q) /\ Tells(m, r)
  <2>1. /\ \A x \in Procs : pc'[x] = "handling" => pc[x] = "handling" \/ (x = q /\ Parked(q))
        /\ \A x \in Procs \ {q} : current'[x] = current[x]
        /\ Parked(q) => current'[q] = m
        /\ ~Parked(q) => current'[q] = current[q]
    BY DeliveringEffect
  <2> QED
    BY <2>1 DEF InHand
<1>3. \A x \in Procs : \A i \in DOMAIN mailbox'[x] : InMail(x, i, r)' =>
         \/ i \in DOMAIN mailbox[x] /\ InMail(x, i, r)
         \/ x = q /\ ~Parked(q) /\ i = Len(mailbox[q]) + 1 /\ Tells(m, r)
  <2>1. /\ \A x \in Procs \ {q} : mailbox'[x] = mailbox[x]
        /\ Parked(q) => mailbox'[q] = mailbox[q]
        /\ ~Parked(q) => mailbox'[q] = Append(mailbox[q], m)
    BY DeliveringEffect
  <2>2. ASSUME ~Parked(q), NEW i \in DOMAIN mailbox'[q], InMail(q, i, r)'
        PROVE  \/ i \in DOMAIN mailbox[q] /\ InMail(q, i, r)
               \/ i = Len(mailbox[q]) + 1 /\ Tells(m, r)
    <3>1. mailbox[q] \in Seq(Message) /\ mailbox'[q] = Append(mailbox[q], m)
      BY <2>1, <2>2 DEF IInv, TypeOK, StreamTypes
    <3>2. \/ i \in DOMAIN mailbox[q] /\ mailbox'[q][i] = mailbox[q][i]
          \/ i = Len(mailbox[q]) + 1 /\ mailbox'[q][i] = m
      BY <2>2, <3>1, AppendProperties
    <3> QED
      BY <2>2, <3>2 DEF InMail
  <2> QED
    BY <2>1, <2>2 DEF InMail
<1>4. CASE ~Tells(m, r)
  <2>1. OnePlace(r) /\ sent'[r] = sent[r] /\ seen'[r] = seen[r]
    BY <1>4 DEF DownInv, InOnePlace
  <2> QED
    BY <1>1, <1>2, <1>3, <1>4, <2>1, PlacesShrink
<1>5. CASE Tells(m, r)
  <2>1. /\ sent'[r] = 1 /\ seen'[r] = 0
        /\ \A x \in Procs : ~InHand(x, r) /\ (InSend(x, r) => x = p)
        /\ \A x \in Procs : \A i \in DOMAIN mailbox[x] : ~InMail(x, i, r)
    BY <1>5
  <2>2. CASE Parked(q)
    <3>1. /\ \A x \in Procs : ~InSend(x, r)'
          /\ \A x \in Procs : \A i \in DOMAIN mailbox'[x] : ~InMail(x, i, r)'
      BY <1>1, <1>3, <2>1, <2>2
    <3> QED
      BY <2>1, <3>1, OneNewPlace
  <2>3. CASE ~Parked(q)
    <3>1. /\ \A x \in Procs : ~InSend(x, r)' /\ ~InHand(x, r)'
          /\ \A x \in Procs : \A i, j \in DOMAIN mailbox'[x] :
                InMail(x, i, r)' /\ InMail(x, j, r)' => i = j
      BY <1>1, <1>2, <1>3, <2>1, <2>3
    <3> QED
      BY <2>1, <3>1, OneNewPlace
  <2> QED
    BY <2>2, <2>3
<1> QED
  BY <1>4, <1>5

-----------------------------------------------------------------------------
(* Receiving a message, and queueing behind a full mailbox.                  *)

(* The head of the mailbox is in hand; the oldest queued sender, if any, has *)
(* put its message in the slot and goes on.                                  *)
LEMMA ReceiveEffect ==
  ASSUME IInv, DownInv, NEW p \in Procs, Receive(p), NEW s, s = Head(senders[p])
  PROVE  /\ pc[p] = "idle" /\ 1 \in DOMAIN mailbox[p]
         /\ current'[p] = mailbox[p][1] /\ pc'[p] = "handling"
         /\ UNCHANGED <<inboxOpen, reason, owner, target, nextRef, monitoredBy, downTodo,
                        peer, outgoing, sent, seen, late>>
         /\ \A x \in Procs \ {p} : /\ current'[x] = current[x] /\ mailbox'[x] = mailbox[x]
                                   /\ senders'[x] = senders[x]
         /\ \/ /\ senders[p] = <<>> /\ senders'[p] = <<>>
               /\ \A x \in Procs \ {p} : pc'[x] = pc[x]
               /\ mailbox'[p] = Tail(mailbox[p])
            \/ /\ senders[p] # <<>> /\ 1 \in DOMAIN senders[p] /\ s = senders[p][1]
               /\ s \in Procs \ {p} /\ pc[s] = "send_wait" /\ peer[s] = p
               /\ Len(mailbox[p]) = MailboxSize
               /\ senders'[p] = Tail(senders[p])
               /\ mailbox'[p] = Append(Tail(mailbox[p]), outgoing[s])
               /\ \A x \in Procs \ {p, s} : pc'[x] = pc[x]
               /\ pc'[s] = Resume(s) /\ pc'[s] \in {"downs", "exits"}
<1>1. /\ pc[p] = "idle" /\ mailbox[p] # <<>>
      /\ current' = [current EXCEPT ![p] = Head(mailbox[p])]
      /\ UNCHANGED <<inboxOpen, reason, owner, target, nextRef, monitoredBy, downTodo,
                     peer, outgoing, sent, seen, late>>
  BY DEF Receive, At, life, tables, work, history
<1>2. mailbox[p] \in Seq(Message) /\ senders[p] \in Seq(Procs)
  BY DEF IInv, TypeOK, StreamTypes
<1>3. 1 \in DOMAIN mailbox[p] /\ Head(mailbox[p]) = mailbox[p][1]
  BY <1>1, <1>2, EmptySeq
<1>4. \A x \in Procs : current'[x] = IF x = p THEN mailbox[p][1] ELSE current[x]
  BY <1>1, <1>3 DEF IInv, TypeOK, StreamTypes
<1>5. CASE senders[p] = <<>>
  <2>1. /\ mailbox' = [mailbox EXCEPT ![p] = Tail(@)] /\ UNCHANGED senders
        /\ pc' = [pc EXCEPT ![p] = "handling"]
    BY <1>5 DEF Receive
  <2>2. /\ \A x \in Procs : mailbox'[x] = IF x = p THEN Tail(mailbox[p]) ELSE mailbox[x]
        /\ \A x \in Procs : pc'[x] = IF x = p THEN "handling" ELSE pc[x]
    BY <2>1 DEF IInv, TypeOK, StreamTypes, TaskTypes
  <2> QED
    BY <1>1, <1>3, <1>4, <1>5, <2>1, <2>2
<1>6. CASE senders[p] # <<>>
  <2>1. /\ mailbox' = [mailbox EXCEPT ![p] = Append(Tail(@), outgoing[s])]
        /\ senders' = [senders EXCEPT ![p] = Tail(@)]
        /\ pc' = [pc EXCEPT ![p] = "handling", ![s] = Resume(s)]
    BY <1>6 DEF Receive
  <2>2. 1 \in DOMAIN senders[p] /\ s = senders[p][1]
    BY <1>2, <1>6, EmptySeq
  <2>3. s \in Procs /\ pc[s] = "send_wait" /\ peer[s] = p /\ Len(mailbox[p]) = MailboxSize
    BY <1>2, <2>2 DEF DownInv, NoLostSender
  <2>4. s # p /\ Resume(s) \in {"downs", "exits"}
    BY <1>1, <2>3, ResumeTypes
  <2>5. /\ \A x \in Procs : mailbox'[x] = IF x = p THEN Append(Tail(mailbox[p]), outgoing[s])
                                          ELSE mailbox[x]
        /\ \A x \in Procs : senders'[x] = IF x = p THEN Tail(senders[p]) ELSE senders[x]
        /\ \A x \in Procs : pc'[x] = IF x = s THEN Resume(s)
                                     ELSE IF x = p THEN "handling" ELSE pc[x]
    BY <2>1, <2>3, <2>4 DEF IInv, TypeOK, StreamTypes, TaskTypes
  <2> QED
    BY <1>1, <1>3, <1>4, <1>6, <2>2, <2>3, <2>4, <2>5
<1> QED
  BY <1>5, <1>6

(* The queue moves up by one. *)
LEMMA ReceiveQueues ==
  ASSUME IInv, DownInv, NEW p \in Procs, Receive(p)
  PROVE  LoopIsOpen' /\ NoLostSender' /\ QueuedOnce'
<1>0. PICK s : s = Head(senders[p])
  OBVIOUS
<1>1. /\ pc[p] = "idle" /\ pc'[p] = "handling" /\ 1 \in DOMAIN mailbox[p]
      /\ UNCHANGED <<inboxOpen, reason, peer>>
      /\ \A x \in Procs \ {p} : mailbox'[x] = mailbox[x] /\ senders'[x] = senders[x]
  BY <1>0, ReceiveEffect
<1>2. \A x \in Procs : mailbox[x] \in Seq(Message) /\ senders[x] \in Seq(Procs)
  BY DEF IInv, TypeOK, StreamTypes
<1>3. CASE senders[p] = <<>>
  <2>1. senders'[p] = <<>> /\ \A x \in Procs \ {p} : pc'[x] = pc[x]
    BY <1>0, <1>3, ReceiveEffect
  <2>2. LoopIsOpen' /\ QueuedOnce'
    BY <1>1, <2>1 DEF DownInv, LoopIsOpen, QueuedOnce, Live, InLoop
  <2>3. ASSUME NEW q \in Procs, NEW i \in DOMAIN senders'[q]
        PROVE  /\ pc'[senders'[q][i]] = "send_wait" /\ peer'[senders'[q][i]] = q
               /\ Live(q)' /\ Len(mailbox'[q]) = MailboxSize
    <3>1. q # p /\ senders'[q] = senders[q] /\ mailbox'[q] = mailbox[q]
      BY <1>1, <2>1
    <3> DEFINE x == senders[q][i]
    <3>2. /\ x \in Procs /\ pc[x] = "send_wait" /\ peer[x] = q
          /\ Live(q) /\ Len(mailbox[q]) = MailboxSize
      BY <1>2, <2>3, <3>1 DEF DownInv, NoLostSender
    <3> QED
      BY <1>1, <2>1, <3>1, <3>2 DEF Live
  <2>4. ASSUME NEW x \in Procs, pc'[x] = "send_wait"
        PROVE  \E i \in DOMAIN senders'[peer'[x]] : senders'[peer'[x]][i] = x
    <3>1. pc[x] = "send_wait"
      BY <1>1, <2>1, <2>4
    <3>2. PICK i \in DOMAIN senders[peer[x]] : senders[peer[x]][i] = x
      BY <3>1 DEF DownInv, NoLostSender
    <3>3. peer[x] \in Procs
      BY <3>1 DEF IInv, TypeOK, TaskTypes, TasksReady
    <3> QED
      BY <1>1, <1>3, <2>1, <3>2, <3>3
  <2> QED
    BY <2>2, <2>3, <2>4 DEF NoLostSender
<1>4. CASE senders[p] # <<>>
  <2>1. /\ 1 \in DOMAIN senders[p] /\ s = senders[p][1]
        /\ s \in Procs \ {p} /\ pc[s] = "send_wait" /\ peer[s] = p
        /\ Len(mailbox[p]) = MailboxSize
        /\ senders'[p] = Tail(senders[p])
        /\ mailbox'[p] = Append(Tail(mailbox[p]), outgoing[s])
        /\ \A x \in Procs \ {p, s} : pc'[x] = pc[x]
        /\ pc'[s] \in {"downs", "exits"}
    BY <1>0, <1>4, ReceiveEffect
  <2>2. /\ \A i \in DOMAIN Tail(senders[p]) : i + 1 \in DOMAIN senders[p] /\ i \in Nat \ {0}
                                              /\ Tail(senders[p])[i] = senders[p][i + 1]
        /\ \A i \in DOMAIN senders[p] : i # 1 => i \in Nat /\ i - 1 \in DOMAIN Tail(senders[p])
    BY <1>2, <1>4, HeadTailProperties
  <2>3. Len(mailbox'[p]) = MailboxSize
    <3>1. mailbox[p] # <<>> /\ outgoing[s] \in Message
      BY <1>1, <2>1, EmptySeq DEF IInv, TypeOK, TaskTypes, TasksReady
    <3>2. Tail(mailbox[p]) \in Seq(Message) /\ Len(Tail(mailbox[p])) = Len(mailbox[p]) - 1
      BY <1>2, <3>1, HeadTailProperties
    <3>3. Len(mailbox'[p]) = Len(Tail(mailbox[p])) + 1
      BY <2>1, <3>1, <3>2, AppendProperties
    <3> QED
      BY <2>1, <3>2, <3>3, ProcessAssumption
  <2>4. LoopIsOpen'
    BY <1>1, <2>1 DEF DownInv, LoopIsOpen, Live, InLoop
  <2>5. QueuedOnce'
    <3>1. ASSUME NEW i \in DOMAIN senders'[p], NEW j \in DOMAIN senders'[p],
                 senders'[p][i] = senders'[p][j]
          PROVE  i = j
      <4>1. /\ i + 1 \in DOMAIN senders[p] /\ j + 1 \in DOMAIN senders[p]
            /\ senders[p][i + 1] = senders[p][j + 1] /\ i \in Nat /\ j \in Nat
        BY <2>1, <2>2, <3>1
      <4>2. i + 1 = j + 1
        BY <4>1 DEF DownInv, QueuedOnce
      <4> QED
        BY <4>1, <4>2
    <3> QED
      BY <1>1, <3>1 DEF DownInv, QueuedOnce
  <2>6. ASSUME NEW q \in Procs, NEW i \in DOMAIN senders'[q]
        PROVE  /\ pc'[senders'[q][i]] = "send_wait" /\ peer'[senders'[q][i]] = q
               /\ Live(q)' /\ Len(mailbox'[q]) = MailboxSize
    <3>1. CASE q = p
      <4>1. /\ i + 1 \in DOMAIN senders[p] /\ i + 1 # 1
            /\ senders'[p][i] = senders[p][i + 1]
        <5>1. i \in DOMAIN Tail(senders[p]) /\ senders'[p][i] = Tail(senders[p])[i]
          BY <2>1, <2>6, <3>1
        <5>2. i \in Nat \ {0}
          BY <2>2, <5>1
        <5> QED
          BY <2>2, <5>1, <5>2
      <4> DEFINE x == senders[p][i + 1]
      <4>2. x \in Procs /\ pc[x] = "send_wait" /\ peer[x] = p
        BY <1>2, <4>1 DEF DownInv, NoLostSender
      <4>3. x # s /\ x # p
        BY <1>1, <2>1, <4>1, <4>2 DEF DownInv, QueuedOnce
      <4> QED
        BY <1>1, <2>1, <2>3, <3>1, <4>1, <4>2, <4>3 DEF Live, InLoop
    <3>2. CASE q # p
      <4> DEFINE x == senders[q][i]
      <4>1. /\ x \in Procs /\ pc[x] = "send_wait" /\ peer[x] = q
            /\ Live(q) /\ Len(mailbox[q]) = MailboxSize
        BY <1>1, <1>2, <2>6, <3>2 DEF DownInv, NoLostSender
      <4>2. x # s /\ x # p /\ q # s
        BY <1>1, <2>1, <3>2, <4>1 DEF Live, InLoop
      <4> QED
        BY <1>1, <2>1, <3>2, <4>1, <4>2 DEF Live
    <3> QED
      BY <3>1, <3>2
  <2>7. ASSUME NEW x \in Procs, pc'[x] = "send_wait"
        PROVE  \E i \in DOMAIN senders'[peer'[x]] : senders'[peer'[x]][i] = x
    <3>1. pc[x] = "send_wait" /\ x # s
      BY <1>1, <2>1, <2>7
    <3>2. PICK i \in DOMAIN senders[peer[x]] : senders[peer[x]][i] = x
      BY <3>1 DEF DownInv, NoLostSender
    <3>3. peer[x] \in Procs
      BY <3>1 DEF IInv, TypeOK, TaskTypes, TasksReady
    <3>4. CASE peer[x] # p
      BY <1>1, <3>2, <3>3, <3>4
    <3>5. CASE peer[x] = p
      <4>1. i # 1 /\ i \in DOMAIN senders[p] /\ senders[p][i] = x
        BY <2>1, <3>1, <3>2, <3>5
      <4>2. i - 1 \in DOMAIN Tail(senders[p]) /\ i \in Nat
        BY <2>2, <4>1
      <4>3. Tail(senders[p])[i - 1] = senders[p][(i - 1) + 1] /\ (i - 1) + 1 = i
        BY <2>2, <4>2
      <4>4. i - 1 \in DOMAIN senders'[p] /\ senders'[p][i - 1] = x
        BY <2>1, <4>1, <4>2, <4>3
      <4> QED
        BY <1>1, <3>5, <4>4
    <3> QED
      BY <3>4, <3>5
  <2> QED
    BY <2>4, <2>5, <2>6, <2>7 DEF NoLostSender
<1> QED
  BY <1>3, <1>4

(* The Downs move up with the mailbox. *)
LEMMA ReceivePlaces ==
  ASSUME IInv, DownInv, NEW p \in Procs, Receive(p)
  PROVE  InOnePlace'
<1> SUFFICES ASSUME NEW r \in Refs PROVE OnePlace(r)'
  BY DEF InOnePlace
<1>0. PICK s : s = Head(senders[p])
  OBVIOUS
<1>1. /\ pc[p] = "idle" /\ pc'[p] = "handling" /\ 1 \in DOMAIN mailbox[p]
      /\ current'[p] = mailbox[p][1]
      /\ UNCHANGED <<outgoing, sent, seen>>
      /\ \A x \in Procs \ {p} : mailbox'[x] = mailbox[x] /\ current'[x] = current[x]
  BY <1>0, ReceiveEffect
<1>2. /\ \A x \in Procs \ {p} : pc'[x] = pc[x] \/ (x = s /\ pc'[x] \in {"downs", "exits"})
      /\ senders[p] # <<>> => s \in Procs \ {p} /\ Sending(s) /\ ~Sending(s)'
  BY <1>0, ReceiveEffect DEF Sending
<1>3. mailbox[p] \in Seq(Message) /\ mailbox[p] # <<>>
  BY <1>1, EmptySeq DEF IInv, TypeOK, StreamTypes
<1>4. \A x \in Procs : InSend(x, r)' => InSend(x, r) /\ (senders[p] # <<>> => x # s)
  BY <1>1, <1>2 DEF InSend, Sending
<1>5. \A x \in Procs : InHand(x, r)' =>
         \/ x # p /\ InHand(x, r)
         \/ x = p /\ InMail(p, 1, r)
  BY <1>1, <1>2 DEF InHand, InMail
<1>6. \A i \in DOMAIN mailbox'[p] : InMail(p, i, r)' =>
         /\ i \in Nat \ {0}
         /\ \/ i + 1 \in DOMAIN mailbox[p] /\ InMail(p, i + 1, r)
            \/ senders[p] # <<>> /\ InSend(s, r) /\ i = Len(mailbox[p])
  <2>1. /\ \A i \in DOMAIN Tail(mailbox[p]) :
             /\ i \in Nat \ {0} /\ i + 1 \in DOMAIN mailbox[p]
             /\ Tail(mailbox[p])[i] = mailbox[p][i + 1]
        /\ Tail(mailbox[p]) \in Seq(Message)
        /\ Len(Tail(mailbox[p])) + 1 = Len(mailbox[p]) /\ Len(mailbox[p]) \in Nat \ {0}
    BY <1>3, HeadTailProperties, EmptySeq
  <2>2. CASE senders[p] = <<>>
    <3>1. mailbox'[p] = Tail(mailbox[p])
      BY <1>0, <2>2, ReceiveEffect
    <3> QED
      BY <2>1, <3>1 DEF InMail
  <2>3. CASE senders[p] # <<>>
    <3>1. mailbox'[p] = Append(Tail(mailbox[p]), outgoing[s]) /\ Sending(s) /\ s \in Procs
      BY <1>0, <1>2, <2>3, ReceiveEffect
    <3>2. outgoing[s] \in Message
      BY <3>1 DEF Sending, IInv, TypeOK, TaskTypes, TasksReady
    <3>3. \A i \in DOMAIN mailbox'[p] :
            \/ i \in DOMAIN Tail(mailbox[p]) /\ mailbox'[p][i] = Tail(mailbox[p])[i]
            \/ i = Len(mailbox[p]) /\ mailbox'[p][i] = outgoing[s]
      BY <2>1, <3>1, <3>2, AppendProperties
    <3> QED
      BY <2>1, <2>3, <3>1, <3>3 DEF InMail, InSend
  <2> QED
    BY <2>2, <2>3
<1>7. \A x \in Procs \ {p} : \A i \in DOMAIN mailbox'[x] :
         InMail(x, i, r)' => i \in DOMAIN mailbox[x] /\ InMail(x, i, r)
  BY <1>1 DEF InMail
<1>8. OnePlace(r)
  BY DEF DownInv, InOnePlace
<1>9. senders[p] # <<>> /\ InSend(s, r) => \A x \in Procs : ~InSend(x, r)'
  <2>1. \A x \in Procs : InSend(x, r) => target[r] = x
    BY DownsAddressed
  <2> QED
    BY <1>2, <1>4, <2>1
<1> SUFFICES ASSUME NEW x \in Procs, NEW q \in Procs
             PROVE  /\ InSend(x, r)' => sent[r] = 1 /\ seen[r] = 0 /\ ~InHand(q, r)'
                    /\ InHand(q, r)' => sent[r] = 1 /\ seen[r] = 0
                    /\ \A i \in DOMAIN mailbox'[q] : InMail(q, i, r)' =>
                          /\ sent[r] = 1 /\ seen[r] = 0
                          /\ ~InHand(q, r)' /\ ~InSend(x, r)'
                          /\ \A j \in DOMAIN mailbox'[q] : InMail(q, j, r)' => i = j
  BY <1>1 DEF OnePlace
<1>10. InSend(x, r)' => sent[r] = 1 /\ seen[r] = 0 /\ ~InHand(q, r)'
  BY <1>1, <1>4, <1>5, <1>8 DEF OnePlace
<1>11. InHand(q, r)' => sent[r] = 1 /\ seen[r] = 0
  BY <1>1, <1>5, <1>8 DEF OnePlace
<1>12. ASSUME NEW i \in DOMAIN mailbox'[q], InMail(q, i, r)'
       PROVE  /\ sent[r] = 1 /\ seen[r] = 0
              /\ ~InHand(q, r)' /\ ~InSend(x, r)'
              /\ \A j \in DOMAIN mailbox'[q] : InMail(q, j, r)' => i = j
  <2>1. CASE q # p
    <3>1. i \in DOMAIN mailbox[q] /\ InMail(q, i, r)
      BY <1>7, <1>12, <2>1
    <3>2. /\ sent[r] = 1 /\ seen[r] = 0
          /\ ~InHand(q, r) /\ ~InSend(x, r)
          /\ \A j \in DOMAIN mailbox[q] : InMail(q, j, r) => i = j
      BY <1>8, <3>1 DEF OnePlace
    <3> QED
      BY <1>4, <1>5, <1>7, <2>1, <3>2
  <2>2. CASE q = p /\ i + 1 \in DOMAIN mailbox[p] /\ InMail(p, i + 1, r)
    <3>1. /\ sent[r] = 1 /\ seen[r] = 0 /\ i \in Nat \ {0}
          /\ \A y \in Procs : ~InSend(y, r)
          /\ \A j \in DOMAIN mailbox[p] : InMail(p, j, r) => i + 1 = j
      BY <1>6, <1>8, <1>12, <2>2 DEF OnePlace
    <3>2. ~InHand(p, r)'
      BY <1>1, <1>5, <3>1
    <3>3. ASSUME NEW j \in DOMAIN mailbox'[p], InMail(p, j, r)' PROVE i = j
      <4>1. /\ j \in Nat
            /\ \/ j + 1 \in DOMAIN mailbox[p] /\ InMail(p, j + 1, r)
               \/ InSend(s, r) /\ s \in Procs
        BY <1>2, <1>6, <3>3
      <4>2. i + 1 = j + 1
        BY <3>1, <4>1
      <4> QED
        BY <3>1, <4>1, <4>2
    <3> QED
      BY <1>4, <2>2, <3>1, <3>2, <3>3
  <2>3. CASE q = p /\ senders[p] # <<>> /\ InSend(s, r) /\ i = Len(mailbox[p])
    <3>1. s \in Procs
      BY <1>2, <2>3
    <3>2. /\ sent[r] = 1 /\ seen[r] = 0 /\ ~InSend(x, r)'
          /\ \A j \in DOMAIN mailbox[p] : ~InMail(p, j, r)
      BY <1>8, <1>9, <2>3, <3>1 DEF OnePlace
    <3>3. ~InHand(p, r)'
      BY <1>1, <1>5, <3>2
    <3>4. \A j \in DOMAIN mailbox'[p] : InMail(p, j, r)' => i = j
      BY <1>6, <2>3, <3>2
    <3> QED
      BY <2>3, <3>2, <3>3, <3>4
  <2> QED
    BY <1>6, <1>12, <2>1, <2>2, <2>3
<1> QED
  BY <1>10, <1>11, <1>12

(* Receiving a message neither makes nor counts a Down. *)
LEMMA ReceiveDowns ==
  ASSUME IInv, DownInv, NEW p \in Procs, Receive(p)
  PROVE  DownInv'
<1>0. PICK s : s = Head(senders[p])
  OBVIOUS
<1>1. /\ pc[p] = "idle" /\ pc'[p] = "handling" /\ 1 \in DOMAIN mailbox[p]
      /\ current'[p] = mailbox[p][1]
      /\ UNCHANGED <<inboxOpen, reason, owner, target, nextRef, monitoredBy, downTodo,
                     peer, outgoing, sent, seen, late>>
      /\ \A x \in Procs \ {p} : mailbox'[x] = mailbox[x] /\ current'[x] = current[x]
  BY <1>0, ReceiveEffect
<1>2. \A x \in Procs \ {p} :
         \/ pc'[x] = pc[x]
         \/ Sending(x) /\ pc'[x] = Resume(x) /\ pc'[x] \in {"downs", "exits"}
  BY <1>0, ReceiveEffect DEF Sending
<1>3. SnapshotDone' /\ UnsentInTables' /\ DownAtMostOnce'
  <2>1. \A x \in Procs :
           \/ pc'[x] = pc[x] /\ outgoing'[x] = outgoing[x]
           \/ pc'[x] \notin InTeardown /\ pc'[x] # "stopped"
           \/ Sending(x) /\ pc'[x] \in {Resume(x), "send_wait"} /\ outgoing'[x] = outgoing[x]
    BY <1>1, <1>2 DEF InTeardown
  <2> QED
    BY <1>1, <2>1, SnapshotStays, UnsentStays DEF DownInv, DownAtMostOnce
<1>4. AllTruthful'
  <2>1. \A x \in Procs : Stopped(x) => pc'[x] = "stopped"
    BY <1>1, <1>2 DEF Stopped, Sending
  <2>2. ASSUME NEW x \in Procs, NEW i \in DOMAIN mailbox'[x] PROVE Truthful(mailbox'[x][i], x)
    <3>1. CASE x # p
      BY <1>1, <3>1 DEF DownInv, AllTruthful
    <3>2. CASE x = p
      <4>1. mailbox[p] \in Seq(Message) /\ mailbox[p] # <<>>
        BY <1>1, EmptySeq DEF IInv, TypeOK, StreamTypes
      <4>2. /\ Tail(mailbox[p]) \in Seq(Message)
            /\ \A j \in DOMAIN Tail(mailbox[p]) :
                 j + 1 \in DOMAIN mailbox[p] /\ Tail(mailbox[p])[j] = mailbox[p][j + 1]
        BY <4>1, HeadTailProperties
      <4>3. CASE senders[p] = <<>>
        <5>1. mailbox'[p] = Tail(mailbox[p])
          BY <1>0, <4>3, ReceiveEffect
        <5> QED
          BY <2>2, <3>2, <4>2, <5>1 DEF DownInv, AllTruthful
      <4>4. CASE senders[p] # <<>>
        <5>1. /\ mailbox'[p] = Append(Tail(mailbox[p]), outgoing[s])
              /\ Sending(s) /\ s \in Procs /\ peer[s] = p
          BY <1>0, <4>4, ReceiveEffect DEF Sending
        <5>2. outgoing[s] \in Message
          BY <5>1 DEF Sending, IInv, TypeOK, TaskTypes, TasksReady
        <5>3. \/ i \in DOMAIN Tail(mailbox[p]) /\ mailbox'[p][i] = Tail(mailbox[p])[i]
              \/ mailbox'[p][i] = outgoing[s]
          BY <2>2, <3>2, <4>2, <5>1, <5>2, AppendProperties
        <5> QED
          BY <3>2, <4>2, <5>1, <5>3 DEF DownInv, AllTruthful
      <4> QED
        BY <4>3, <4>4
    <3> QED
      BY <3>1, <3>2
  <2>3. \A x \in Procs : current'[x] # None => Truthful(current'[x], x)
    BY <1>1 DEF DownInv, AllTruthful
  <2>4. \A x \in Procs : Sending(x)' => Sending(x)
    BY <1>1, <1>2 DEF Sending
  <2>5. \A x \in Procs : Sending(x)' =>
            /\ Truthful(outgoing'[x], peer'[x])
            /\ outgoing'[x].type = "Down" => outgoing'[x].pid = x
    BY <1>1, <2>4 DEF DownInv, AllTruthful
  <2> QED
    BY <1>1, <2>1, <2>2, <2>3, <2>5, TruthsStay DEF DownInv, IInv, TypeOK, TableTypes
<1> QED
  BY <1>3, <1>4, ReceiveQueues, ReceivePlaces DEF DownInv

(* A message that is no Down changes nothing about the Downs. *)
LEMMA DeliveringOther ==
  ASSUME IInv, DownInv, NEW p \in Procs, NEW q \in Procs, NEW m \in Message, Delivering(p, q, m),
         m.type # "Down", UNCHANGED <<sent, seen, owner, target, nextRef>>
  PROVE  /\ LoopIsOpen' /\ NoLostSender' /\ QueuedOnce'
         /\ AllTruthful' /\ DownAtMostOnce' /\ InOnePlace'
<1>1. AllTruthful'
  BY DeliveringTruths DEF Truthful, IInv, TypeOK, TableTypes
<1>2. InOnePlace'
  BY DeliveringPlaces DEF Tells
<1> QED
  BY <1>1, <1>2, DeliveringQueues DEF DownInv, DownAtMostOnce

(* p queues behind the full mailbox of a process in its loop. *)
LEMMA QueueingDowns ==
  ASSUME IInv, DownInv, NEW p \in Procs, NEW q \in Procs, q = peer[p],
         pc[p] = "send", Full(q),
         senders' = [senders EXCEPT ![q] = Append(@, p)],
         pc' = [pc EXCEPT ![p] = "send_wait"],
         UNCHANGED <<inboxOpen, mailbox, current, life, tables, work, history>>
  PROVE  DownInv'
<1>1. /\ \A x \in Procs : pc'[x] = IF x = p THEN "send_wait" ELSE pc[x]
      /\ \A x \in Procs : Sending(x)' <=> Sending(x)
      /\ UNCHANGED <<reason, owner, target, nextRef, monitoredBy, downTodo, peer, outgoing,
                     sent, seen, late>>
  BY DEF Sending, IInv, TypeOK, TaskTypes, life, tables, work, history
<1>2. senders[q] \in Seq(Procs) /\ mailbox[q] \in Seq(Message)
  BY DEF IInv, TypeOK, StreamTypes
<1>3. /\ \A x \in Procs : senders'[x] = IF x = q THEN Append(senders[q], p) ELSE senders[x]
      /\ Len(senders[q]) + 1 \in DOMAIN Append(senders[q], p)
      /\ Append(senders[q], p)[Len(senders[q]) + 1] = p
      /\ \A i \in DOMAIN Append(senders[q], p) :
            \/ i \in DOMAIN senders[q] /\ Append(senders[q], p)[i] = senders[q][i]
            \/ i = Len(senders[q]) + 1 /\ Append(senders[q], p)[i] = p
      /\ \A i \in DOMAIN senders[q] :
            i \in DOMAIN Append(senders[q], p) /\ Append(senders[q], p)[i] = senders[q][i]
  <2>1. PICK r, a : r = senders[q] /\ a = Append(r, p)
    OBVIOUS
  <2>2. r \in Seq(Procs)
    BY <1>2, <2>1
  <2>3. /\ Len(r) + 1 \in DOMAIN a /\ a[Len(r) + 1] = p
        /\ \A i \in DOMAIN a : \/ i \in DOMAIN r /\ a[i] = r[i]
                               \/ i = Len(r) + 1 /\ a[i] = p
        /\ \A i \in DOMAIN r : i \in DOMAIN a /\ a[i] = r[i]
    BY <2>1, <2>2, AppendProperties
  <2>4. \A x \in Procs : senders'[x] = IF x = q THEN Append(senders[q], p) ELSE senders[x]
    BY DEF IInv, TypeOK, StreamTypes
  <2> QED
    BY <2>1, <2>3, <2>4
<1>4. Live(q) /\ Len(mailbox[q]) = MailboxSize
  <2>1. Live(q)
    BY DEF Full, DownInv, LoopIsOpen
  <2>2. Len(mailbox[q]) <= MailboxSize /\ ~(Len(mailbox[q]) < MailboxSize)
    BY DEF Full, Accepts, IInv, TypeOK, StreamTypes
  <2> QED
    BY <1>2, <2>1, <2>2, ProcessAssumption
<1>5. \A x \in Procs : \A i \in DOMAIN senders[x] : senders[x][i] \in Procs \ {p}
  BY DEF DownInv, NoLostSender, IInv, TypeOK, StreamTypes
<1>6. LoopIsOpen'
  BY <1>1 DEF DownInv, LoopIsOpen, Live, InLoop
<1>7. QueuedOnce'
  <2>1. ASSUME NEW i \in DOMAIN senders'[q], NEW j \in DOMAIN senders'[q],
               senders'[q][i] = senders'[q][j]
        PROVE  i = j
    BY <1>3, <1>5, <2>1 DEF DownInv, QueuedOnce
  <2> QED
    BY <1>3, <2>1 DEF DownInv, QueuedOnce
<1>8. ASSUME NEW x \in Procs, NEW i \in DOMAIN senders'[x]
      PROVE  /\ pc'[senders'[x][i]] = "send_wait" /\ peer'[senders'[x][i]] = x
             /\ Live(x)' /\ Len(mailbox'[x]) = MailboxSize
  <2>1. \/ i \in DOMAIN senders[x] /\ senders'[x][i] = senders[x][i]
        \/ x = q /\ senders'[x][i] = p
    BY <1>3, <1>8
  <2>2. CASE i \in DOMAIN senders[x] /\ senders'[x][i] = senders[x][i]
    <3>1. /\ pc[senders[x][i]] = "send_wait" /\ peer[senders[x][i]] = x
          /\ Live(x) /\ Len(mailbox[x]) = MailboxSize
      BY <2>2 DEF DownInv, NoLostSender
    <3> QED
      BY <1>1, <1>5, <2>2, <3>1 DEF Live, InLoop
  <2>3. CASE x = q /\ senders'[x][i] = p
    BY <1>1, <1>4, <2>3 DEF Live, InLoop
  <2> QED
    BY <2>1, <2>2, <2>3
<1>9. ASSUME NEW x \in Procs, pc'[x] = "send_wait"
      PROVE  \E i \in DOMAIN senders'[peer'[x]] : senders'[peer'[x]][i] = x
  <2>1. CASE x = p
    <3>1. peer'[x] = q /\ senders'[q] = Append(senders[q], p)
      BY <1>1, <1>3, <2>1
    <3> QED
      BY <1>3, <2>1, <3>1
  <2>2. CASE x # p
    <3>1. pc[x] = "send_wait"
      BY <1>1, <1>9, <2>2
    <3>2. PICK i \in DOMAIN senders[peer[x]] : senders[peer[x]][i] = x
      BY <3>1 DEF DownInv, NoLostSender
    <3>3. peer[x] \in Procs
      BY <3>1 DEF IInv, TypeOK, TaskTypes, TasksReady
    <3> QED
      BY <1>1, <1>3, <3>2, <3>3
  <2> QED
    BY <2>1, <2>2
<1>10. AllTruthful'
  <2>1. \A x \in Procs : Stopped(x) => pc'[x] = "stopped"
    BY <1>1 DEF Stopped
  <2>2. \A x \in Procs : Sending(x)' =>
            /\ Truthful(outgoing'[x], peer'[x])
            /\ outgoing'[x].type = "Down" => outgoing'[x].pid = x
    BY <1>1 DEF DownInv, AllTruthful
  <2>3. /\ \A x \in Procs : \A i \in DOMAIN mailbox'[x] : Truthful(mailbox'[x][i], x)
        /\ \A x \in Procs : current'[x] # None => Truthful(current'[x], x)
    BY DEF DownInv, AllTruthful
  <2> QED
    BY <1>1, <2>1, <2>2, <2>3, TruthsStay DEF DownInv, IInv, TypeOK, TableTypes
<1>11. InOnePlace'
  <2>1. \A x \in Procs, r \in Refs : InSend(x, r)' => InSend(x, r)
    BY <1>1 DEF InSend
  <2>2. \A x \in Procs, r \in Refs : InHand(x, r)' => InHand(x, r)
    BY <1>1 DEF InHand
  <2>3. \A x \in Procs : \A i \in DOMAIN mailbox'[x] : \A r \in Refs :
            InMail(x, i, r)' => i \in DOMAIN mailbox[x] /\ InMail(x, i, r)
    BY DEF InMail
  <2> QED
    BY <1>1, <2>1, <2>2, <2>3, PlacesShrink DEF DownInv, InOnePlace
<1>12. SnapshotDone' /\ UnsentInTables' /\ DownAtMostOnce'
  <2>1. \A x \in Procs :
           \/ pc'[x] = pc[x] /\ outgoing'[x] = outgoing[x]
           \/ Sending(x) /\ pc'[x] \in {Resume(x), "send_wait"} /\ outgoing'[x] = outgoing[x]
    BY <1>1 DEF Sending
  <2> QED
    BY <1>1, <2>1, SnapshotStays, UnsentStays DEF DownInv, DownAtMostOnce
<1> QED
  BY <1>6, <1>7, <1>8, <1>9, <1>10, <1>11, <1>12 DEF DownInv, NoLostSender

(* await process.send(): the Down moves to the mailbox, waits, or is lost.   *)
LEMMA SendDowns ==
  ASSUME IInv, DownInv, NEW p \in Procs, Send(p)
  PROVE  DownInv'
<1>0. PICK q, m : q = peer[p] /\ m = outgoing[p]
  OBVIOUS
<1>1. /\ pc[p] = "send" /\ q \in Procs /\ m \in Message /\ Resume(p) \in {"downs", "exits"}
      /\ UNCHANGED <<life, tables, work, history>>
      /\ UNCHANGED <<reason, owner, target, nextRef, monitoredBy, downTodo, peer, outgoing,
                     sent, seen, late>>
  BY <1>0, ResumeTypes
     DEF Send, At, IInv, TypeOK, TaskTypes, TasksReady, life, tables, work, history
<1>2. CASE Deliver(q, m) /\ pc' = [Woken(q) EXCEPT ![p] = Resume(p)]
  <2>1. \A x \in Procs : pc'[x] = IF x = p THEN Resume(p)
                                  ELSE IF x = q /\ Parked(q) THEN "handling" ELSE pc[x]
    BY <1>1, <1>2, WokenTypes DEF IInv
  <2>2. Delivering(p, q, m)
    <3>1. ~(p = q /\ Parked(q))
      BY <1>1 DEF Parked
    <3>2. ~Live(p)
      BY <1>1 DEF Live, InLoop
    <3>3. Resume(p) \in Pcs \ {"send", "send_wait"} /\ Resume(p) \notin InLoop
          /\ Resume(p) # "handling"
      BY <1>1 DEF Pcs, InLoop, InTeardown
    <3> QED
      BY <1>1, <1>2, <2>1, <3>1, <3>2, <3>3 DEF Delivering
  <2>3. Truthful(m, q)
    BY <1>0, <1>1 DEF DownInv, AllTruthful, Sending
  <2>4. AllTruthful'
    BY <1>1, <2>2, <2>3, DeliveringTruths DEF IInv, TypeOK, TableTypes
  <2>5. ASSUME NEW r \in Refs, Tells(m, r)
        PROVE  /\ sent'[r] = 1 /\ seen[r] = 0
               /\ \A x \in Procs : ~InHand(x, r) /\ (InSend(x, r) => x = p)
               /\ \A x \in Procs : \A i \in DOMAIN mailbox[x] : ~InMail(x, i, r)
    <3>1. InSend(p, r)
      BY <1>0, <1>1, <2>5 DEF InSend, Sending
    <3>2. \A x \in Procs : InSend(x, r) => x = p
      BY <3>1, DownsAddressed
    <3>3. OnePlace(r)
      BY DEF DownInv, InOnePlace
    <3>4. \A x \in Procs : \A i \in DOMAIN mailbox[x] : ~InMail(x, i, r)
      BY <3>1, <3>3 DEF OnePlace
    <3> QED
      BY <1>1, <3>1, <3>2, <3>3, <3>4 DEF OnePlace
  <2>6. InOnePlace'
    BY <1>1, <2>2, <2>5, DeliveringPlaces
  <2>7. SnapshotDone' /\ UnsentInTables' /\ DownAtMostOnce'
    <3>1. \A x \in Procs :
           \/ pc'[x] = pc[x] /\ outgoing'[x] = outgoing[x]
           \/ pc'[x] \notin InTeardown /\ pc'[x] # "stopped"
           \/ Sending(x) /\ pc'[x] \in {Resume(x), "send_wait"} /\ outgoing'[x] = outgoing[x]
      BY <1>1, <2>1 DEF Sending, InTeardown
    <3> QED
      BY <1>1, <3>1, SnapshotStays, UnsentStays DEF DownInv, DownAtMostOnce
  <2> QED
    BY <1>1, <2>2, <2>4, <2>6, <2>7, DeliveringQueues DEF DownInv
<1>3. CASE /\ Full(q)
           /\ senders' = [senders EXCEPT ![q] = Append(@, p)]
           /\ pc' = [pc EXCEPT ![p] = "send_wait"]
           /\ UNCHANGED <<inboxOpen, mailbox, current>>
  BY <1>0, <1>1, <1>3, QueueingDowns
<1>4. CASE pc' = [pc EXCEPT ![p] = Resume(p)] /\ UNCHANGED mail
  <2>1. /\ \A x \in Procs : pc'[x] = IF x = p THEN Resume(p) ELSE pc[x]
        /\ UNCHANGED <<inboxOpen, mailbox, senders, current>>
    BY <1>4 DEF IInv, TypeOK, TaskTypes, mail
  <2>2. MovingOn(p)
    <3>1. Resume(p) \in Pcs \ {"send_wait", "handling"} /\ Resume(p) \notin InLoop
      BY <1>1 DEF Pcs, InLoop, InTeardown
    <3>2. ~Live(p) /\ pc[p] \notin {"send_wait", "stopped"} /\ ~Sending(p)'
      BY <1>1, <2>1 DEF Live, InLoop, Sending
    <3> QED
      BY <1>1, <1>4, <2>1, <3>1, <3>2 DEF MovingOn, Moving
  <2>3. SnapshotDone' /\ UnsentInTables'
    <3>1. \A x \in Procs :
           \/ pc'[x] = pc[x] /\ outgoing'[x] = outgoing[x]
           \/ Sending(x) /\ pc'[x] \in {Resume(x), "send_wait"} /\ outgoing'[x] = outgoing[x]
      BY <1>1, <2>1 DEF Sending
    <3> QED
      BY <1>1, <3>1, SnapshotStays, UnsentStays DEF DownInv
  <2> QED
    BY <2>2, <2>3, MovingOnDowns DEF DownInv
<1> QED
  BY <1>0, <1>2, <1>3, <1>4 DEF Send

-----------------------------------------------------------------------------
(* DownInv is inductive relative to IInv. *)

(* The streams, the stop of a callback and all that ends the loop.           *)
LEMMA LoopDowns ==
  ASSUME IInv, DownInv, NEW p \in Procs,
         \/ Receive(p) \/ EndOfStream(p)
         \/ HandleStop(p) \/ HandleExit(p) \/ HandleDown(p) \/ HandleInfo(p)
         \/ CallbackReturns(p) \/ CallbackRaises(p) \/ CallbackReturnsStop(p)
         \/ CallbackStops(p) \/ CallbackSendFails(p) \/ StopReturns(p) \/ StopTimesOut(p)
  PROVE  DownInv'
<1>1. ASSUME MovingOn(p), UNCHANGED <<monitoredBy, downTodo, late>>, pc'[p] \in InLoop
      PROVE  DownInv'
  <2>1. \A x \in Procs :
           \/ pc'[x] = pc[x] /\ outgoing'[x] = outgoing[x]
           \/ pc'[x] \notin InTeardown /\ pc'[x] # "stopped"
    BY <1>1 DEF MovingOn, Moving, InLoop, InTeardown, IInv, TypeOK, TaskTypes
  <2>2. UNCHANGED <<sent, nextRef>>
    BY <1>1 DEF MovingOn, Moving
  <2>3. SnapshotDone' /\ UnsentInTables'
    BY <1>1, <2>1, <2>2, SnapshotStays, UnsentStays DEF DownInv
  <2> QED
    BY <1>1, <2>3, MovingOnDowns DEF DownInv
<1>2. ASSUME NEW r \in Reasons, LeaveLoop(p, r), pc[p] \in InLoop,
             peer' = peer \/ peer' = [peer EXCEPT ![p] = None],
             UNCHANGED <<monitoredBy, owner, target, nextRef, downTodo, outgoing, sent, seen, late>>
      PROVE  DownInv'
  <2>1. \A q \in Procs \ {p} : peer'[q] = peer[q]
    BY <1>2 DEF IInv, TypeOK, TaskTypes
  <2>2. Leaving(p)
    BY <1>2, <2>1 DEF Leaving, Live
  <2> QED
    BY <2>2, LeavingDowns
<1>3. CASE Receive(p)
  BY <1>3, ReceiveDowns
<1>4. CASE EndOfStream(p)
  BY <1>2, <1>4 DEF EndOfStream, At, InLoop, Reasons, tables, work, history
<1>5. CASE HandleStop(p)
  BY <1>2, <1>5, CurrentTypes DEF HandleStop, At, InLoop, IInv, tables, work, history
<1>6. CASE HandleExit(p)
  <2>1. CASE p \notin Trapping /\ Abnormal(current[p].reason)
    BY <1>2, <1>6, <2>1, CurrentTypes DEF HandleExit, At, InLoop, IInv, work, history
  <2>2. CASE ~(p \notin Trapping /\ Abnormal(current[p].reason))
    <3>1. /\ pc' = [pc EXCEPT ![p] = "callback"] /\ pc[p] = "handling"
          /\ UNCHANGED <<mail, reason, owner, target, nextRef, monitoredBy, work, history>>
      BY <1>6, <2>2 DEF HandleExit, At, life
    <3>2. MovingOn(p) /\ pc'[p] \in InLoop
      BY <3>1 DEF MovingOn, Moving, Live, InLoop, Pcs, Sending, mail, work, history,
                  IInv, TypeOK, TaskTypes
    <3> QED
      BY <1>1, <3>1, <3>2 DEF work, history
  <2> QED
    BY <2>1, <2>2
<1>7. CASE HandleDown(p)
  BY <1>7, HandleDownDowns
<1>8. CASE HandleInfo(p)
  <2>1. MovingOn(p) /\ pc'[p] \in InLoop
    BY <1>8 DEF HandleInfo, At, MovingOn, Moving, Live, InLoop, Pcs, Sending,
                mail, life, tables, work, history, IInv, TypeOK, TaskTypes
  <2> QED
    BY <1>1, <1>8, <2>1 DEF HandleInfo, tables, work, history
<1>9. CASE CallbackReturns(p)
  <2>1. /\ pc' = [pc EXCEPT ![p] = "idle"] /\ current' = [current EXCEPT ![p] = None]
        /\ pc[p] = "callback"
        /\ UNCHANGED <<inboxOpen, mailbox, senders, life, tables, work, history>>
    BY <1>9 DEF CallbackReturns, At
  <2>2. MovingOn(p) /\ pc'[p] \in InLoop
    BY <2>1 DEF MovingOn, Moving, Live, InLoop, Pcs, Sending, life, tables, work, history,
                IInv, TypeOK, TaskTypes, StreamTypes
  <2> QED
    BY <1>1, <2>1, <2>2 DEF tables, work, history
<1>10. CASE CallbackRaises(p)
  BY <1>2, <1>10 DEF CallbackRaises, At, InLoop, Reasons, tables, work, history
<1>11. CASE CallbackReturnsStop(p)
  <2>1. PICK r \in Reasons : LeaveLoop(p, r)
    BY <1>11, ProcessAssumption DEF CallbackReturnsStop
  <2> QED
    BY <1>2, <1>11, <2>1 DEF CallbackReturnsStop, At, InLoop, tables, work, history
<1>12. CASE CallbackStops(p)
  <2>1. PICK q \in Procs, r \in Reasons :
          /\ Deliver(q, Stop(p, r))
          /\ pc' = [Woken(q) EXCEPT ![p] = "awaiting_stop"]
          /\ peer' = [peer EXCEPT ![p] = q]
    BY <1>12, ProcessAssumption DEF CallbackStops
  <2>2. pc[p] = "callback" /\ UNCHANGED <<life, tables, downTodo, exitTodo, outgoing, history>>
    BY <1>12 DEF CallbackStops, At
  <2>3. PICK m \in Message : m = Stop(p, r) /\ m.type # "Down"
    <3>1. Stop(p, r) \in Message
      BY MessageTypes
    <3>2. Stop(p, r).type # "Down"
      BY DEF Stop
    <3> QED
      BY <3>1, <3>2
  <2>4. \A x \in Procs : pc'[x] = IF x = p THEN "awaiting_stop"
                                  ELSE IF x = q /\ Parked(q) THEN "handling" ELSE pc[x]
    BY <2>1, WokenTypes DEF IInv
  <2>5. Delivering(p, q, m)
    <3>1. ~(p = q /\ Parked(q))
      BY <2>2 DEF Parked
    <3>2. \A x \in Procs \ {p} : peer'[x] = peer[x]
      BY <2>1 DEF IInv, TypeOK, TaskTypes
    <3>3. Live(p) /\ "awaiting_stop" \in InLoop \cap Pcs
      BY <2>2 DEF Live, InLoop, Pcs
    <3> QED
      BY <2>1, <2>2, <2>3, <2>4, <3>1, <3>2, <3>3 DEF Delivering, life
  <2>6. SnapshotDone' /\ UnsentInTables'
    <3>1. \A x \in Procs :
           \/ pc'[x] = pc[x] /\ outgoing'[x] = outgoing[x]
           \/ pc'[x] \notin InTeardown /\ pc'[x] # "stopped"
      BY <2>2, <2>4 DEF InTeardown
    <3> QED
      BY <2>2, <3>1, SnapshotStays, UnsentStays DEF DownInv, tables, history
  <2> QED
    BY <2>2, <2>3, <2>5, <2>6, DeliveringOther DEF DownInv, tables, history
<1>13. CASE CallbackSendFails(p)
  <2>1. PICK r \in Reasons : LeaveLoop(p, r)
    BY <1>13 DEF CallbackSendFails, Reasons
  <2> QED
    BY <1>2, <1>13, <2>1 DEF CallbackSendFails, At, InLoop, tables, work, history
<1>14. CASE StopReturns(p)
  <2>1. /\ pc' = [pc EXCEPT ![p] = "callback"] /\ peer' = [peer EXCEPT ![p] = None]
        /\ pc[p] = "awaiting_stop"
        /\ UNCHANGED <<mail, life, tables, downTodo, exitTodo, outgoing, history>>
    BY <1>14 DEF StopReturns, At
  <2>2. MovingOn(p) /\ pc'[p] \in InLoop
    BY <2>1 DEF MovingOn, Moving, Live, InLoop, Pcs, Sending, mail, life, tables, history,
                IInv, TypeOK, TaskTypes, StreamTypes
  <2> QED
    BY <1>1, <2>1, <2>2 DEF tables, history
<1>15. CASE StopTimesOut(p)
  BY <1>2, <1>15 DEF StopTimesOut, At, InLoop, Reasons, tables, history
<1> QED
  BY <1>3, <1>4, <1>5, <1>6, <1>7, <1>8, <1>9, <1>10, <1>11, <1>12, <1>13, <1>14, <1>15

(* A round of the second loop sends an Exit, a Stop or nothing. *)
LEMMA NextExitDowns ==
  ASSUME IInv, DownInv, NEW p \in Procs, NextExit(p)
  PROVE  DownInv'
<1>1. /\ pc[p] = "exits" /\ UNCHANGED <<life, monitors, monitoredBy, owner, target, nextRef,
                                        downTodo, history>>
      /\ UNCHANGED <<reason, sent, seen, late>>
  BY DEF NextExit, At, life, history
<1>2. PICK q \in Procs : NotifyTrapping(p, q) \/ StopPeer(p, q) \/ SkipPeer(p, q)
  BY DEF NextExit, IInv, TypeOK, TaskTypes
<1>3. ~Live(p) /\ ~Parked(p)
  BY <1>1 DEF Live, InLoop, Parked
<1>4. CASE NotifyTrapping(p, q)
  <2>1. /\ pc' = [pc EXCEPT ![p] = "send"] /\ peer' = [peer EXCEPT ![p] = q]
        /\ outgoing' = [outgoing EXCEPT ![p] = Exit(p, reason[p])] /\ UNCHANGED mail
    BY <1>4 DEF NotifyTrapping
  <2>2. /\ \A x \in Procs : pc'[x] = IF x = p THEN "send" ELSE pc[x]
        /\ \A x \in Procs \ {p} : peer'[x] = peer[x] /\ outgoing'[x] = outgoing[x]
        /\ outgoing'[p] = Exit(p, reason[p])
    BY <2>1 DEF IInv, TypeOK, TaskTypes
  <2>3. MovingOn(p)
    <3>1. outgoing'[p].type = "Exit"
      BY <2>2 DEF Exit
    <3>2. Moving(p)
      BY <1>1, <1>3, <2>1, <2>2 DEF Moving, InLoop, Pcs, InTeardown, mail
    <3> QED
      BY <1>1, <2>2, <3>1, <3>2 DEF MovingOn
  <2>4. SnapshotDone' /\ UnsentInTables'
    <3>1. \A x \in Procs :
           \/ pc'[x] = pc[x] /\ outgoing'[x] = outgoing[x]
           \/ pc[x] \in {"exits", "peer_stop", "unregister"} /\ pc'[x] \in Pcs
      BY <1>1, <2>2 DEF Pcs, InTeardown
    <3> QED
      BY <1>1, <3>1, SnapshotStays, UnsentStays DEF DownInv
  <2> QED
    BY <2>3, <2>4, MovingOnDowns DEF DownInv
<1>5. CASE StopPeer(p, q)
  <2>1. /\ Deliver(q, Stop(p, reason[p])) /\ pc' = [Woken(q) EXCEPT ![p] = "peer_stop"]
        /\ peer' = [peer EXCEPT ![p] = q] /\ UNCHANGED outgoing
    BY <1>5 DEF StopPeer
  <2>2. PICK m \in Message : m = Stop(p, reason[p]) /\ m.type # "Down"
    <3>1. reason[p] \in Reasons
      BY <1>1 DEF IInv, TypeOK, TaskTypes, TasksReady, InLoop
    <3>2. Stop(p, reason[p]) \in Message
      BY <3>1, MessageTypes
    <3>3. Stop(p, reason[p]).type # "Down"
      BY DEF Stop
    <3> QED
      BY <3>2, <3>3
  <2>3. \A x \in Procs : pc'[x] = IF x = p THEN "peer_stop"
                                  ELSE IF x = q /\ Parked(q) THEN "handling" ELSE pc[x]
    BY <2>1, WokenTypes DEF IInv
  <2>4. Delivering(p, q, m)
    <3>1. \A x \in Procs \ {p} : peer'[x] = peer[x]
      BY <2>1 DEF IInv, TypeOK, TaskTypes
    <3>2. "peer_stop" \in Pcs \ InLoop
      BY DEF Pcs, InLoop, InTeardown
    <3> QED
      BY <1>1, <1>3, <2>1, <2>2, <2>3, <3>1, <3>2 DEF Delivering
  <2>5. SnapshotDone' /\ UnsentInTables'
    <3>1. \A x \in Procs :
           \/ pc'[x] = pc[x] /\ outgoing'[x] = outgoing[x]
           \/ pc'[x] \notin InTeardown /\ pc'[x] # "stopped"
           \/ pc[x] \in {"exits", "peer_stop", "unregister"} /\ pc'[x] \in Pcs
      BY <1>1, <2>1, <2>3 DEF Pcs, InTeardown
    <3> QED
      BY <1>1, <3>1, SnapshotStays, UnsentStays DEF DownInv
  <2> QED
    BY <1>1, <2>2, <2>4, <2>5, DeliveringOther DEF DownInv
<1>6. CASE SkipPeer(p, q)
  <2>1. UNCHANGED <<pc, mail, peer, outgoing>>
    BY <1>6 DEF SkipPeer
  <2>2. MovingOn(p)
    <3>1. pc' = [pc EXCEPT ![p] = "exits"] /\ pc'[p] = "exits"
      BY <1>1, <2>1 DEF IInv, TypeOK, TaskTypes
    <3> QED
      BY <1>1, <1>3, <2>1, <3>1 DEF MovingOn, Moving, InLoop, Pcs, InTeardown, Sending, mail
  <2>3. SnapshotDone' /\ UnsentInTables'
    BY <1>1, <2>1, SnapshotStays, UnsentStays DEF DownInv
  <2> QED
    BY <2>2, <2>3, MovingOnDowns DEF DownInv
<1> QED
  BY <1>2, <1>4, <1>5, <1>6

(* The teardown: the snapshot is taken, used up, and the process stops.      *)
LEMMA TeardownDowns ==
  ASSUME IInv, DownInv, NEW p \in Procs,
         \/ Terminate(p) \/ BeginTeardown(p) \/ NextDown(p) \/ Send(p) \/ BeginExits(p)
         \/ NextExit(p) \/ PeerStopEnds(p) \/ DropMonitors(p) \/ Finish(p)
  PROVE  DownInv'
<1>1. ASSUME NEW place \in {"terminating", "downs", "exits", "unregister", "stopped"},
             pc' = [pc EXCEPT ![p] = place],
             pc[p] \in {"terminating", "closing", "downs", "exits", "peer_stop", "unregister"},
             UNCHANGED <<mail, reason, owner, target, nextRef, peer, outgoing, sent, seen>>
      PROVE  /\ \A x \in Procs : pc'[x] = IF x = p THEN place ELSE pc[x]
             /\ LoopIsOpen' /\ NoLostSender' /\ QueuedOnce'
             /\ AllTruthful' /\ DownAtMostOnce' /\ InOnePlace'
  <2>1. \A x \in Procs : pc'[x] = IF x = p THEN place ELSE pc[x]
    BY <1>1 DEF IInv, TypeOK, TaskTypes
  <2>2. MovingOn(p)
    BY <1>1, <2>1 DEF MovingOn, Moving, Live, InLoop, Pcs, InTeardown, Sending, mail
  <2> QED
    BY <2>1, <2>2, MovingOnDowns
<1>2. CASE Terminate(p) \/ PeerStopEnds(p) \/ Finish(p)
  <2>1. PICK place \in {"terminating", "exits", "stopped"} :
          /\ pc' = [pc EXCEPT ![p] = place]
          /\ UNCHANGED <<mail, life, tables, work, history>>
          /\ \/ pc[p] = "closing" /\ place = "terminating"
             \/ pc[p] \in {"peer_stop", "unregister"}
    BY <1>2 DEF Terminate, PeerStopEnds, Finish, At
  <2>2. /\ \A x \in Procs : pc'[x] = IF x = p THEN place ELSE pc[x]
        /\ LoopIsOpen' /\ NoLostSender' /\ QueuedOnce'
        /\ AllTruthful' /\ DownAtMostOnce' /\ InOnePlace'
    BY <1>1, <2>1 DEF life, tables, work, history
  <2>3. \A x \in Procs :
           \/ pc'[x] = pc[x] /\ outgoing'[x] = outgoing[x]
           \/ pc'[x] \notin InTeardown /\ pc'[x] # "stopped"
           \/ pc[x] \in {"exits", "peer_stop", "unregister"} /\ pc'[x] \in Pcs
    BY <2>1, <2>2 DEF Pcs, InTeardown, work
  <2> QED
    BY <2>1, <2>2, <2>3, SnapshotStays, UnsentStays DEF DownInv, tables, work, history
<1>3. CASE BeginTeardown(p)
  <2>1. /\ pc' = [pc EXCEPT ![p] = "downs"] /\ pc[p] \in {"terminating", "closing"}
        /\ downTodo' = [downTodo EXCEPT ![p] = monitoredBy[p]]
        /\ UNCHANGED <<mail, life, tables, exitTodo, peer, outgoing, history>>
    BY <1>3 DEF BeginTeardown, At
  <2>2. /\ \A x \in Procs : pc'[x] = IF x = p THEN "downs" ELSE pc[x]
        /\ LoopIsOpen' /\ NoLostSender' /\ QueuedOnce'
        /\ AllTruthful' /\ DownAtMostOnce' /\ InOnePlace'
    BY <1>1, <2>1 DEF life, tables, history
  <2>3. \A x \in Procs : downTodo'[x] = IF x = p THEN monitoredBy[p] ELSE downTodo[x]
    BY <2>1 DEF IInv, TypeOK, TaskTypes
  <2>4. SnapshotDone'
    BY <2>1, <2>2, <2>3 DEF DownInv, SnapshotDone, Dying, Stopped, Sending, tables, history
  <2> QED
    BY <2>1, <2>2, <2>3, <2>4, UnsentStays DEF DownInv, tables, history
<1>4. CASE BeginExits(p)
  <2>1. /\ pc' = [pc EXCEPT ![p] = "exits"] /\ pc[p] = "downs" /\ downTodo[p] = {}
        /\ UNCHANGED <<mail, life, tables, downTodo, peer, outgoing, history>>
    BY <1>4 DEF BeginExits, At, DownsDone
  <2>2. /\ \A x \in Procs : pc'[x] = IF x = p THEN "exits" ELSE pc[x]
        /\ LoopIsOpen' /\ NoLostSender' /\ QueuedOnce'
        /\ AllTruthful' /\ DownAtMostOnce' /\ InOnePlace'
    BY <1>1, <2>1 DEF life, tables, history
  <2>3. SnapshotDone'
    BY <2>1, <2>2
       DEF DownInv, SnapshotDone, Dying, Stopped, Sending, InTeardown, tables, history
  <2> QED
    BY <2>1, <2>2, <2>3, UnsentStays DEF DownInv, tables, history
<1>5. CASE DropMonitors(p)
  <2>1. /\ pc' = [pc EXCEPT ![p] = "unregister"] /\ pc[p] = "exits"
        /\ \A x \in Procs : monitoredBy'[x] \subseteq monitoredBy[x]
        /\ UNCHANGED <<mail, life, owner, target, nextRef, work, history>>
    BY <1>5 DEF DropMonitors, At, Released
  <2>2. /\ \A x \in Procs : pc'[x] = IF x = p THEN "unregister" ELSE pc[x]
        /\ LoopIsOpen' /\ NoLostSender' /\ QueuedOnce'
        /\ AllTruthful' /\ DownAtMostOnce' /\ InOnePlace'
    BY <1>1, <2>1 DEF life, work, history
  <2>3. \A x \in Procs :
           \/ pc'[x] = pc[x] /\ outgoing'[x] = outgoing[x]
           \/ pc[x] \in {"exits", "peer_stop", "unregister"} /\ pc'[x] \in Pcs
    BY <2>1, <2>2 DEF Pcs, InTeardown, work
  <2> QED
    BY <2>1, <2>2, <2>3, SnapshotStays, UnsentStays DEF DownInv, work, history
<1> QED
  BY <1>2, <1>3, <1>4, <1>5, NextDownDowns, SendDowns, NextExitDowns

(* link, unlink, kill and demonitor touch no mailbox and no task. *)
LEMMA TablesOnlyDowns ==
  ASSUME DownInv, \A p \in Procs : inboxOpen'[p] => inboxOpen[p],
         UNCHANGED <<pc, mailbox, senders, current, reason, peer, outgoing, owner, target, nextRef,
                     downTodo, sent, seen, late>>,
         \A q \in Procs : monitoredBy'[q] \subseteq monitoredBy[q]
  PROVE  DownInv'
<1>1. LoopIsOpen' /\ NoLostSender' /\ QueuedOnce'
  BY DEF DownInv, LoopIsOpen, NoLostSender, QueuedOnce, Live
<1>2. AllTruthful'
  BY DEF DownInv, AllTruthful, Truthful, Sending, Stopped
<1>3. UnsentInTables' /\ DownAtMostOnce'
  BY UnsentStays DEF DownInv, DownAtMostOnce
<1>4. InOnePlace'
  BY DEF DownInv, InOnePlace, OnePlace, InMail, InHand, InSend, Sending
<1>5. SnapshotDone'
  BY SnapshotStays DEF DownInv
<1> QED
  BY <1>1, <1>2, <1>3, <1>4, <1>5 DEF DownInv

(* monitor() of a live process enters a fresh ref, which is late if the      *)
(* target has taken its snapshot; of one that has stopped, it makes the only *)
(* Down of that ref.                                                         *)
LEMMA MonitorDowns ==
  ASSUME IInv, DownInv, NEW p \in Procs, NEW q \in Procs, Monitor(p, q)
  PROVE  DownInv'
<1>0. PICK n : n = nextRef
  OBVIOUS
<1>1. /\ n \in Refs /\ n = nextRef /\ nextRef' = n + 1 /\ Live(p) /\ p # q
      /\ owner' = [owner EXCEPT ![n] = p] /\ target' = [target EXCEPT ![n] = q]
      /\ UNCHANGED <<life, work, seen>>
      /\ UNCHANGED <<reason, downTodo, peer, outgoing>>
      /\ nextRef \in Nat /\ nextRef' \in Nat /\ nextRef' >= nextRef
  BY <1>0 DEF Monitor, IInv, TypeOK, TableTypes, Refs, life, work
<1>2. /\ \A r \in Refs : owner'[r] = IF r = n THEN p ELSE owner[r]
      /\ \A r \in Refs : target'[r] = IF r = n THEN q ELSE target[r]
      /\ \A r \in Refs : r < nextRef => r # n
      /\ \A r \in Refs : r >= nextRef' => r >= nextRef /\ r # n
  BY <1>1, ProcessAssumption DEF IInv, TypeOK, TableTypes, Refs
<1>3. sent[n] = 0 /\ seen[n] = 0
  BY <1>1 DEF DownInv, UnsentInTables, DownAtMostOnce, IInv, TypeOK, TableTypes, Refs
<1>4. \A x \in Procs : n \notin monitoredBy[x] /\ n \notin downTodo[x]
  <2>1. ~(n < nextRef)
    BY <1>1
  <2> QED
    BY <2>1, RefsInUse
<1>5. CASE Stopped(q)
  <2>1. /\ Deliver(p, Down(q, "noproc", nextRef)) /\ pc' = Woken(p)
        /\ sent' = [sent EXCEPT ![n] = @ + 1]
        /\ UNCHANGED <<monitoredBy, late>>
    BY <1>1, <1>5 DEF Monitor
  <2>2. PICK m \in Message : m = Down(q, "noproc", n)
    BY <1>1, MessageTypes DEF Reasons
  <2>3. m.type = "Down" /\ m.pid = q /\ m.ref = n /\ m.reason = "noproc"
    BY <2>2 DEF Down
  <2>4. \A x \in Procs : pc'[x] = IF x = p /\ Parked(p) THEN "handling" ELSE pc[x]
    BY <2>1, WokenTypes DEF IInv
  <2>5. \A r \in Refs : sent'[r] = IF r = n THEN 1 ELSE sent[r]
    BY <1>1, <1>3, <2>1 DEF IInv, TypeOK, TableTypes
  <2>6. Delivering(p, p, m)
    <3>1. pc[p] \in Pcs \ {"send", "send_wait"} /\ pc[p] # "stopped"
      BY <1>1 DEF Live, InLoop, IInv, TypeOK, TaskTypes
    <3>2. Live(p) <=> pc[p] \in InLoop
      BY DEF Live
    <3>3. \A x \in Procs : pc'[x] = IF x = p /\ Parked(p) THEN "handling"
                                    ELSE IF x = p THEN pc[p] ELSE pc[x]
      BY <2>4
    <3> QED
      BY <1>0, <1>1, <2>1, <2>2, <3>1, <3>2, <3>3 DEF Delivering
  <2>7. AllTruthful'
    <3>1. reason[q] # None /\ pc'[q] = "stopped"
      BY <1>5, <2>4, <1>1 DEF Stopped, IInv, TypeOK, TasksReady, InLoop
    <3>2. Truthful(m, p)'
      BY <1>1, <1>2, <2>3, <3>1 DEF Truthful, Stopped
    <3> QED
      BY <1>1, <1>2, <2>6, <3>2, DeliveringTruths
  <2>8. InOnePlace'
    <3>1. \A r \in Refs : ~Tells(m, r) => sent'[r] = sent[r]
      BY <2>3, <2>5 DEF Tells
    <3>2. ASSUME NEW r \in Refs, Tells(m, r)
          PROVE  /\ sent'[r] = 1 /\ seen[r] = 0
                 /\ \A x \in Procs : ~InHand(x, r) /\ (InSend(x, r) => x = p)
                 /\ \A x \in Procs : \A i \in DOMAIN mailbox[x] : ~InMail(x, i, r)
      <4>1. r = n /\ ~(r < nextRef)
        BY <1>1, <2>3, <3>2 DEF Tells
      <4> QED
        BY <1>3, <2>5, <4>1, DownsAddressed
    <3> QED
      BY <1>1, <2>6, <3>1, <3>2, DeliveringPlaces
  <2>9. UnsentInTables'
    <3>1. \A x \in Procs : \A r \in monitoredBy[x] \cup downTodo[x] :
            r \in Refs /\ r # n /\ sent[r] = 0
      BY <1>4, RefsInUse DEF DownInv, UnsentInTables
    <3> QED
      BY <1>1, <1>2, <2>1, <2>5, <3>1 DEF DownInv, UnsentInTables
  <2>10. DownAtMostOnce'
    BY <1>1, <1>3, <2>5 DEF DownInv, DownAtMostOnce
  <2>11. SnapshotDone'
    <3>1. \A x \in Procs :
           \/ pc'[x] = pc[x] /\ outgoing'[x] = outgoing[x]
           \/ pc'[x] \notin InTeardown /\ pc'[x] # "stopped"
      BY <1>1, <2>4 DEF InTeardown
    <3> QED
      BY <1>1, <2>1, <3>1, SnapshotStays DEF DownInv
  <2> QED
    BY <2>6, <2>7, <2>8, <2>9, <2>10, <2>11, DeliveringQueues DEF DownInv
<1>6. CASE ~Stopped(q)
  <2>1. /\ monitoredBy' = [monitoredBy EXCEPT ![q] = @ \cup {n}]
        /\ late' = IF Dying(q) THEN late \cup {n} ELSE late
        /\ UNCHANGED <<pc, mail, sent>>
        /\ UNCHANGED <<inboxOpen, mailbox, senders, current>>
    BY <1>1, <1>6 DEF Monitor, mail
  <2>2. \A x \in Procs : monitoredBy'[x] = IF x = q THEN monitoredBy[q] \cup {n} ELSE monitoredBy[x]
    BY <2>1 DEF IInv, TypeOK, TableTypes
  <2>3. LoopIsOpen' /\ NoLostSender' /\ QueuedOnce' /\ DownAtMostOnce'
    BY <1>1, <2>1 DEF DownInv, LoopIsOpen, NoLostSender, QueuedOnce, DownAtMostOnce, Live
  <2>4. AllTruthful'
    <3>1. \A x \in Procs : \A i \in DOMAIN mailbox'[x] : Truthful(mailbox'[x][i], x)
      BY <2>1 DEF DownInv, AllTruthful
    <3>2. \A x \in Procs : current'[x] # None => Truthful(current'[x], x)
      BY <2>1 DEF DownInv, AllTruthful
    <3>3. \A x \in Procs : Sending(x)' =>
            /\ Truthful(outgoing'[x], peer'[x])
            /\ outgoing'[x].type = "Down" => outgoing'[x].pid = x
      BY <1>1, <2>1 DEF DownInv, AllTruthful, Sending
    <3>4. \A x \in Procs : Stopped(x) => pc'[x] = "stopped"
      BY <2>1 DEF Stopped
    <3> QED
      BY <1>1, <1>2, <3>1, <3>2, <3>3, <3>4, TruthsStay DEF DownInv
  <2>5. InOnePlace'
    BY <1>1, <2>1 DEF DownInv, InOnePlace, OnePlace, InMail, InHand, InSend, Sending
  <2>6. UnsentInTables'
    BY <1>1, <1>2, <1>3, <2>1, <2>2 DEF DownInv, UnsentInTables
  <2>7. SnapshotDone'
    <3>1. late \subseteq late' /\ (Dying(q) => n \in late')
      BY <2>1
    <3> QED
      BY <1>1, <1>6, <2>1, <2>2, <3>1 DEF DownInv, SnapshotDone, Dying, Stopped, Sending
  <2> QED
    BY <2>3, <2>4, <2>5, <2>6, <2>7 DEF DownInv
<1> QED
  BY <1>5, <1>6

(* Every call of another task keeps DownInv. *)
LEMMA EnvironmentDowns == ASSUME IInv, DownInv, Environment PROVE DownInv'
<1>1. PICK p \in Procs :
        \/ SendInfo(p) \/ RequestStop(p) \/ Kill(p)
        \/ \E q \in Procs : Link(p, q) \/ Unlink(p, q) \/ Monitor(p, q)
        \/ \E r \in Refs, flush \in BOOLEAN : Demonitor(p, r, flush)
  BY DEF Environment
<1>2. ASSUME NEW m \in Message, m.type # "Down", Deliver(p, m), pc' = Woken(p),
             UNCHANGED <<life, tables, work, history>>
      PROVE  DownInv'
  <2>1. \A x \in Procs : pc'[x] = IF x = p /\ Parked(p) THEN "handling" ELSE pc[x]
    BY <1>2, WokenTypes DEF IInv
  <2>2. Delivering(p, p, m)
    <3>1. Live(p)
      BY <1>2 DEF Deliver, Accepts, DownInv, LoopIsOpen
    <3>2. pc[p] \in Pcs \ {"send", "send_wait"} /\ pc[p] # "stopped"
      BY <3>1 DEF Live, InLoop, IInv, TypeOK, TaskTypes
    <3>3. \A x \in Procs : pc'[x] = IF x = p /\ Parked(p) THEN "handling"
                                    ELSE IF x = p THEN pc[p] ELSE pc[x]
      BY <2>1
    <3> QED
      BY <1>2, <3>1, <3>2, <3>3 DEF Delivering, Live, life, work
  <2>3. SnapshotDone' /\ UnsentInTables'
    <3>1. \A x \in Procs :
           \/ pc'[x] = pc[x] /\ outgoing'[x] = outgoing[x]
           \/ pc'[x] \notin InTeardown /\ pc'[x] # "stopped"
      BY <1>2, <2>1 DEF InTeardown, work
    <3> QED
      BY <1>2, <3>1, SnapshotStays, UnsentStays DEF DownInv, tables, work, history
  <2> QED
    BY <1>2, <2>2, <2>3, DeliveringOther DEF DownInv, tables, history
<1>3. CASE SendInfo(p)
  <2>1. Info \in Message /\ Info.type # "Down"
    BY MessageTypes DEF Info
  <2> QED
    BY <1>2, <1>3, <2>1 DEF SendInfo
<1>4. CASE RequestStop(p)
  <2>1. PICK r \in Reasons : Deliver(p, Stop(None, r))
    BY <1>4, ProcessAssumption DEF RequestStop
  <2>2. Stop(None, r) \in Message /\ Stop(None, r).type # "Down"
    BY MessageTypes DEF Stop
  <2> QED
    BY <1>2, <1>4, <2>1, <2>2 DEF RequestStop
<1>5. CASE Kill(p)
  <2>1. \A x \in Procs : inboxOpen'[x] => inboxOpen[x]
    BY <1>5 DEF Kill, IInv, TypeOK, StreamTypes
  <2> QED
    BY <1>5, <2>1, TablesOnlyDowns DEF Kill, tables, work, history
<1>6. ASSUME NEW q \in Procs, Link(p, q) \/ Unlink(p, q) PROVE DownInv'
  BY <1>6, TablesOnlyDowns DEF Link, Unlink, mail, life, work, history
<1>7. ASSUME NEW r \in Refs, NEW flush \in BOOLEAN, Demonitor(p, r, flush) PROVE DownInv'
  <2>1. \A x \in Procs : monitoredBy'[x] \subseteq monitoredBy[x]
    BY <1>7 DEF Demonitor, IInv, TypeOK, TableTypes
  <2> QED
    BY <1>7, <2>1, TablesOnlyDowns DEF Demonitor, mail, life, work
<1> QED
  BY <1>1, <1>3, <1>4, <1>5, <1>6, <1>7, MonitorDowns

(* Before the first operation nobody sends and no monitor exists. *)
LEMMA InitDowns == Init => DownInv
  BY DEF Init, DownInv, LoopIsOpen, NoLostSender, QueuedOnce, AllTruthful, UnsentInTables,
         DownAtMostOnce, InOnePlace, OnePlace, InMail, InHand, InSend, Sending, SnapshotDone,
         Dying, Stopped, Live, InLoop, InTeardown

(* IInv and DownInv are inductive together. *)
LEMMA NextDowns == IInv /\ DownInv /\ [Next]_vars => DownInv'
<1>1. ASSUME DownInv, UNCHANGED vars PROVE DownInv'
  BY <1>1, TablesOnlyDowns DEF vars, mail, life, tables, work, history
<1> QED
  BY <1>1, LoopDowns, TeardownDowns, EnvironmentDowns DEF Next, Step, AllStopped

(* The Downs keep their invariant in every reachable state. *)
LEMMA DownInvariance == Spec => []DownInv
<1> QED
  BY InitDowns, NextDowns, Invariance, PTL DEF Spec

(* A monitor is one-shot: whatever the interleaving of monitor, demonitor    *)
(* and the teardown of the target, one Down at most is made under a ref and  *)
(* handle_down runs at most once for it.                                     *)
THEOREM DownsComeOnce == Spec => []DownAtMostOnce
<1>1. DownInv => DownAtMostOnce
  BY DEF DownInv
<1> QED
  BY <1>1, DownInvariance, PTL

(* The reason in a Down is the exit reason of the process it is about, or    *)
(* noproc if that had stopped before.                                        *)
THEOREM DownsTellTheTruth == Spec => []DownTellsReason
<1>1. DownInv => DownTellsReason
  <2> SUFFICES ASSUME DownInv, NEW m \in InTransit \ {None}, m.type = "Down"
               PROVE  /\ m.pid = target[m.ref]
                      /\ \/ m.reason = reason[m.pid]
                         \/ m.reason = "noproc" /\ Stopped(m.pid)
    BY DEF DownTellsReason
  <2>1. PICK p \in Procs : Truthful(m, p)
    BY DEF InTransit, DownInv, AllTruthful
  <2> QED
    BY <2>1 DEF Truthful
<1> QED
  BY <1>1, DownInvariance, PTL

(* A sender waits for a process that still reads, at a full mailbox, and is  *)
(* in its queue: no close or refill of a mailbox strands one.                *)
THEOREM NoSenderIsLost == Spec => []NoLostSender
<1>1. DownInv => NoLostSender
  BY DEF DownInv
<1> QED
  BY <1>1, DownInvariance, PTL

(* A stopped process is monitored only through refs made during its          *)
(* teardown: the owners of all others were told, or let go.                  *)
THEOREM SurvivorsAreLate == Spec => []OnlyLateMonitorsSurvive
<1>1. DownInv => OnlyLateMonitorsSurvive
  BY DEF DownInv, SnapshotDone, OnlyLateMonitorsSurvive, Stopped
<1> QED
  BY <1>1, DownInvariance, PTL

=============================================================================
