---------------------------- MODULE Timers_proofs ----------------------------
(***************************************************************************)
(* Proofs about Timers, for any processes, timers, names and mailbox size. *)
(* The tables alone are not inductive: what a call may take out of them    *)
(* depends on where the task of the timer is, so the invariant also says   *)
(* which entries a task in each phase can have.                            *)
(***************************************************************************)
EXTENDS Timers, TLAPS, FiniteSetTheorems, SequenceTheorems

USE TimersAssumption

(* Only a timer that was made is cancelled, a timer that is ready to send    *)
(* has no time to come, and only single timers have names.                   *)
TasksMatchTables ==
    /\ \A t \in cancelled : task[t] # "none"
    /\ \A t \in Timers : task[t] = "awake" => fire[t] # "future"
    /\ \A t \in Timers : made[t].name # None => made[t].kind = "once"

(* A silenced timer is cancelled and will not send any more.                 *)
SilencedAreOut ==
    \A t \in silenced : t \in cancelled /\ task[t] # "awake"

(* The message of an interval is in one place, and only while its task waits *)
(* for the ack or has ended.                                                 *)
At(t, i) == i \in DOMAIN mailbox[Target(t)] /\ mailbox[Target(t)][i] = t
OneMessage ==
    \A t \in Timers : AwaitsAck(t) =>
        /\ \A i, j : At(t, i) /\ At(t, j) => i = j
        /\ handling[Target(t)] = t => \A i : ~At(t, i)
        /\ task[t] \notin {"waiting", "ended"} =>
              handling[Target(t)] # t /\ \A i : ~At(t, i)

(* What a timer sends goes to its target.                                    *)
SentToTarget ==
    \A p \in Procs, t \in Timers :
        \/ handling[p] = t
        \/ \E i \in DOMAIN mailbox[p] : mailbox[p][i] = t
        => task[t] # "none" /\ Target(t) = p

TablesInv == TypeOK /\ TasksMatchTables /\ TablesTrackTimers
MessagesInv == SentToTarget /\ OneMessage
IInv == TablesInv /\ OnlyDueOnesLinger /\ SilencedAreOut /\ MessagesInv

(* Nothing is made, queued or cancelled at first.                            *)
LEMMA InitIInv == Init => IInv
<1> SUFFICES ASSUME Init PROVE IInv
  OBVIOUS
<1>1. \A t \in Timers : made[t] = Unmade /\ task[t] = "none" /\ fire[t] = "none"
  BY DEF Init
<1>2. TypeOK
  BY DEF Init, TypeOK, Phases, Kinds, Unmade
<1>3. TasksMatchTables /\ TablesTrackTimers
  BY <1>1 DEF Init, TasksMatchTables, TablesTrackTimers, Pending, Unmade
<1>4. OnlyDueOnesLinger /\ SilencedAreOut
  BY DEF Init, OnlyDueOnesLinger, SilencedAreOut
<1>5. MessagesInv
  BY <1>1 DEF Init, MessagesInv, OneMessage, SentToTarget, AwaitsAck, IsInterval, Unmade
<1> QED
  BY <1>2, <1>3, <1>4, <1>5 DEF IInv, TablesInv

-----------------------------------------------------------------------------
(* TypeOK *)

(* The end of a task keeps the types of the tables.                          *)
LEMMA FinishTypes ==
  ASSUME TypeOK, NEW t \in Timers, Finish(t) \/ Sleep(t)
  PROVE  /\ task' \in [Timers -> Phases]
         /\ timers' \subseteq Timers /\ intervals' \subseteq Timers
         /\ fire' \in [Timers -> {"none", "future", "past"}]
<1>1. CASE Finish(t)
  BY <1>1 DEF TypeOK, Finish, Popped, Phases
<1>2. CASE Sleep(t)
  <2>1. timers' \subseteq Timers /\ intervals' \subseteq Timers
    BY <1>2 DEF TypeOK, Sleep
  <2>2. task' \in [Timers -> Phases]
    BY <1>2 DEF TypeOK, Sleep, Phases
  <2>3. fire' \in [Timers -> {"none", "future", "past"}]
    BY <1>2 DEF TypeOK, Sleep
  <2> QED
    BY <2>1, <2>2, <2>3
<1> QED
  BY <1>1, <1>2

(* A step of a timer's task keeps the types.                                 *)
LEMMA TaskTypes ==
  ASSUME TypeOK, NEW t \in Timers, TaskStep(t)
  PROVE  TypeOK'
<1>1. Target(t) \in Procs
  BY DEF Target, TypeOK
<1>2. CASE Run(t) \/ Resume(t) \/ Interrupt(t) \/ FireClosed(t) \/ FireFull(t)
  BY <1>2, FinishTypes DEF Run, Resume, Interrupt, FireClosed, FireFull, TypeOK, procs
<1>3. CASE TimeComes(t) \/ Wake(t)
  BY <1>3 DEF TimeComes, Wake, TypeOK, Phases, procs, tables
<1>4. CASE FireSent(t)
  <2>1. /\ task' \in [Timers -> Phases]
        /\ timers' \subseteq Timers /\ intervals' \subseteq Timers
        /\ fire' \in [Timers -> {"none", "future", "past"}]
    BY <1>4, FinishTypes DEF FireSent, TypeOK, Phases, tables
  <2>2. /\ mailbox' \in [Procs -> Seq(Timers \cup {Other})]
        /\ \A p \in Procs : Len(mailbox'[p]) <= MailboxSize
    BY <1>1, <1>4 DEF FireSent, Room, TypeOK
  <2> QED
    BY <1>4, <2>1, <2>2 DEF FireSent, TypeOK
<1> QED
  BY <1>2, <1>3, <1>4 DEF TaskStep

(* A call keeps the types.                                                   *)
LEMMA CallTypes ==
  ASSUME TypeOK, NEW t \in Timers,
         \/ Cancel(t)
         \/ \E p \in Procs : SendAfter(t, p) \/ StartInterval(t, p)
         \/ \E n \in Names : Reschedule(n, t)
  PROVE  TypeOK'
<1>1. ASSUME NEW S \in SUBSET Timers, NEW N \in SUBSET Timers, NEW k, Replace(S, N, k)
      PROVE  /\ timers' \subseteq Timers /\ intervals' \subseteq Timers
             /\ cancelled' \subseteq Timers /\ silenced' \subseteq Timers
             /\ fire' \in [Timers -> {"none", "future", "past"}]
  BY <1>1 DEF Replace, ScopesCancelled, TypeOK
<1>2. ASSUME NEW k \in Kinds, NEW p \in Procs, NEW n \in Names \cup {None}, Make(t, k, p, n)
      PROVE  /\ made' \in [Timers -> [kind : Kinds, target : Procs, name : Names \cup {None}]]
             /\ task' \in [Timers -> Phases]
  BY <1>2 DEF Make, TypeOK, Phases
<1>3. \A n \in Names : Superseded(n) \subseteq Timers
  BY DEF Superseded, TypeOK
<1>4. CASE Cancel(t)
  BY <1>1, <1>4 DEF Cancel, TypeOK, procs
<1>5. ASSUME NEW p \in Procs, SendAfter(t, p) \/ StartInterval(t, p) PROVE TypeOK'
  <2>1. /\ timers' \subseteq Timers /\ intervals' \subseteq Timers
        /\ cancelled' \subseteq Timers /\ silenced' \subseteq Timers
        /\ fire' \in [Timers -> {"none", "future", "past"}]
    BY <1>1, <1>5 DEF SendAfter, StartInterval
  <2>2. /\ made' \in [Timers -> [kind : Kinds, target : Procs, name : Names \cup {None}]]
        /\ task' \in [Timers -> Phases]
    BY <1>2, <1>5 DEF SendAfter, StartInterval, Kinds
  <2> QED
    BY <1>5, <2>1, <2>2 DEF SendAfter, StartInterval, Make, TypeOK, procs
<1>6. ASSUME NEW n \in Names, Reschedule(n, t) PROVE TypeOK'
  <2>1. /\ timers' \subseteq Timers /\ intervals' \subseteq Timers
        /\ cancelled' \subseteq Timers /\ silenced' \subseteq Timers
        /\ fire' \in [Timers -> {"none", "future", "past"}]
    BY <1>1, <1>3, <1>6 DEF Reschedule
  <2>2. /\ made' \in [Timers -> [kind : Kinds, target : Procs, name : Names \cup {None}]]
        /\ task' \in [Timers -> Phases]
    BY <1>2, <1>6 DEF Reschedule, Kinds
  <2> QED
    BY <1>6, <2>1, <2>2 DEF Reschedule, Make, TypeOK, procs
<1> QED
  BY <1>4, <1>5, <1>6

(* A step of a process, and the teardown, keep the types.                    *)
LEMMA ProcessTypes ==
  ASSUME TypeOK,
         \/ \E p \in Procs : Post(p) \/ Take(p) \/ Handled(p) \/ Kill(p) \/ Close(p)
         \/ Teardown
  PROVE  TypeOK'
<1>1. ASSUME NEW p \in Procs, Post(p) PROVE TypeOK'
  BY <1>1 DEF Post, Room, TypeOK, tables
<1>2. ASSUME NEW p \in Procs, Take(p) PROVE TypeOK'
  <2>1. mailbox[p] \in Seq(Timers \cup {Other}) /\ mailbox[p] # <<>>
    BY <1>2 DEF Take, TypeOK
  <2>2. /\ Head(mailbox[p]) \in Timers \cup {Other}
        /\ Tail(mailbox[p]) \in Seq(Timers \cup {Other})
        /\ Len(Tail(mailbox[p])) <= Len(mailbox[p])
    BY <2>1, HeadTailProperties
  <2>3. Len(mailbox[p]) \in Nat /\ Len(Tail(mailbox[p])) \in Nat
    BY <2>1, <2>2
  <2> QED
    BY <1>2, <2>2, <2>3 DEF Take, TypeOK, tables
<1>3. ASSUME NEW p \in Procs, Handled(p) PROVE TypeOK'
  BY <1>3 DEF Handled, Acknowledged, TypeOK, tables, Phases
<1>4. ASSUME NEW p \in Procs, Close(p) PROVE TypeOK'
  BY <1>4 DEF Close, TypeOK, tables
<1>6. ASSUME NEW p \in Procs, Kill(p) PROVE TypeOK'
  BY <1>6 DEF Kill, TypeOK, tables
<1>5. CASE Teardown
  BY <1>5 DEF Teardown, TypeOK, procs
<1> QED
  BY <1>1, <1>2, <1>3, <1>4, <1>5, <1>6

(* Every step keeps the types.                                               *)
LEMMA TypeStep == TypeOK /\ [Next]_vars => TypeOK'
<1>1. TypeOK /\ UNCHANGED vars => TypeOK'
  BY DEF TypeOK, vars, tables, procs
<1> QED
  BY <1>1, TaskTypes, CallTypes, ProcessTypes DEF Next, Over

-----------------------------------------------------------------------------
(* The tables *)

Tables == TasksMatchTables /\ TablesTrackTimers

(* A call takes entries out with their scopes cancelled, and enters the new  *)
(* timer with its task.                                                      *)
LEMMA CallTables ==
  ASSUME TablesInv, NEW t \in Timers, NEW S \in SUBSET timers, NEW k \in Kinds,
         NEW p \in Procs, NEW n \in Names \cup {None}, n # None => k = "once",
         Make(t, k, p, n), Replace(S, {t}, k)
  PROVE  Tables'
<1> USE DEF TablesInv
<1>1. /\ t \notin timers /\ t \notin cancelled /\ task[t] = "none"
  BY DEF Make, TablesTrackTimers, TasksMatchTables, Pending
<1>2. \A u \in Timers :
        /\ u # t => task'[u] = task[u] /\ made'[u] = made[u]
        /\ u = t => task'[u] = "starting" /\ made'[u].kind = k /\ made'[u].name = n
  BY DEF Make, TypeOK
<1>3. \A u \in Timers :
        fire'[u] = IF u = t THEN "future" ELSE IF u \in S THEN "none" ELSE fire[u]
  BY DEF Replace
<1>4. cancelled' = cancelled \cup S /\ timers' = (timers \ S) \cup {t}
  BY DEF Replace, ScopesCancelled
<1>5. intervals' = (intervals \ S) \cup (IF k = "interval" THEN {t} ELSE {})
  BY DEF Replace
<1>6. TasksMatchTables'
  <2>1. \A u \in cancelled' : task'[u] # "none"
    BY <1>1, <1>2, <1>4 DEF TasksMatchTables, TablesTrackTimers, Pending, TypeOK
  <2> QED
    BY <2>1, <1>1, <1>2, <1>3 DEF TasksMatchTables
<1>7. timers' = {u \in Timers : Pending(u)' /\ u \notin cancelled'}
  BY <1>1, <1>2, <1>4 DEF TablesTrackTimers, Pending, TypeOK
<1>8. intervals' = {u \in timers' : IsInterval(u)'}
  BY <1>1, <1>2, <1>4, <1>5 DEF TablesTrackTimers, IsInterval, TypeOK, Kinds
<1>9. \A u \in Timers : IF u \in timers' THEN fire'[u] # "none"
                        ELSE fire'[u] # "none" => IsInterval(u)' /\ u \in cancelled'
  BY <1>1, <1>2, <1>3, <1>4 DEF TablesTrackTimers, IsInterval, TypeOK
<1> QED
  BY <1>6, <1>7, <1>8, <1>9 DEF Tables, TablesTrackTimers

(* A step that only moves the task of t from one pending phase to another,   *)
(* and may give it a new time.                                               *)
LEMMA PhaseTables ==
  ASSUME TablesInv, NEW t \in Timers, NEW phase \in Phases,
         Pending(t), phase \notin {"none", "ended"},
         phase = "awake" => fire'[t] # "future",
         task' = [task EXCEPT ![t] = phase],
         \/ UNCHANGED fire
         \/ fire' = [fire EXCEPT ![t] = "future"] /\ IsInterval(t)
         \/ fire' = [fire EXCEPT ![t] = "past"] /\ t \in timers,
         UNCHANGED <<made, timers, intervals, cancelled>>
  PROVE  Tables'
<1> USE DEF TablesInv
<1>1. \A u \in Timers :
        /\ u # t => task'[u] = task[u] /\ fire'[u] = fire[u]
        /\ made'[u] = made[u]
  BY DEF TypeOK
<1>2. task'[t] = phase /\ (fire[t] # "none" => fire'[t] # "none")
  BY DEF TypeOK
<1>3. fire'[t] # "none" => fire[t] # "none" \/ IsInterval(t)
  BY DEF TypeOK, TablesTrackTimers
<1>4. \A u \in Timers : Pending(u)' = Pending(u)
  BY <1>1, <1>2 DEF Pending
<1>5. \A u \in Timers : IsInterval(u)' = IsInterval(u)
  BY DEF IsInterval
<1>6. TasksMatchTables'
  BY <1>1, <1>2 DEF TasksMatchTables, TypeOK
<1>7. TablesTrackTimers'
  <2>1. timers' = {u \in Timers : Pending(u)' /\ u \notin cancelled'}
    BY <1>4 DEF TablesTrackTimers
  <2>2. intervals' = {u \in timers' : IsInterval(u)'}
    BY <1>5 DEF TablesTrackTimers, TypeOK
  <2>3. \A u \in Timers : IF u \in timers' THEN fire'[u] # "none"
                          ELSE fire'[u] # "none" => IsInterval(u)' /\ u \in cancelled'
    BY <1>1, <1>2, <1>3, <1>5 DEF TablesTrackTimers, Pending
  <2> QED
    BY <2>1, <2>2, <2>3 DEF TablesTrackTimers
<1> QED
  BY <1>6, <1>7 DEF Tables

(* A task that ends takes its own entries with it.                           *)
LEMMA FinishTables ==
  ASSUME TablesInv, NEW t \in Timers, Pending(t), Finish(t), UNCHANGED <<made, cancelled>>
  PROVE  Tables'
<1> USE DEF TablesInv
<1>1. \A u \in Timers :
        /\ task'[u] = IF u = t THEN "ended" ELSE task[u]
        /\ fire'[u] = IF u = t /\ t \in timers THEN "none" ELSE fire[u]
        /\ made'[u] = made[u]
  BY DEF Finish, TypeOK
<1>2. timers' = timers \ {t} /\ intervals' = intervals \ {t}
  BY DEF Finish, Popped
<1>3. \A u \in Timers : IsInterval(u)' = IsInterval(u)
  BY DEF IsInterval
<1>4. TasksMatchTables'
  BY <1>1 DEF TasksMatchTables, TypeOK
<1>5. timers' = {u \in Timers : Pending(u)' /\ u \notin cancelled'}
  BY <1>1, <1>2 DEF TablesTrackTimers, Pending
<1>6. intervals' = {u \in timers' : IsInterval(u)'}
  BY <1>2, <1>3 DEF TablesTrackTimers
<1>7. \A u \in Timers : IF u \in timers' THEN fire'[u] # "none"
                        ELSE fire'[u] # "none" => IsInterval(u)' /\ u \in cancelled'
  BY <1>1, <1>2, <1>3 DEF TablesTrackTimers, Pending
<1> QED
  BY <1>4, <1>5, <1>6, <1>7 DEF Tables, TablesTrackTimers

(* A task that sleeps again does so from a pending phase.                    *)
LEMMA SleepTables ==
  ASSUME TablesInv, NEW t \in Timers, Pending(t), Sleep(t), UNCHANGED <<made, cancelled>>
  PROVE  Tables'
<1>1. task' = [task EXCEPT ![t] = "sleeping"] /\ UNCHANGED <<timers, intervals>>
  BY DEF Sleep
<1>2. \/ UNCHANGED fire
      \/ fire' = [fire EXCEPT ![t] = "future"] /\ IsInterval(t)
  BY DEF Sleep
<1> QED
  BY <1>1, <1>2, PhaseTables DEF Phases

(* Nor does any step of a timer's task leave the tables wrong.               *)
LEMMA TaskTables ==
  ASSUME TablesInv, NEW t \in Timers, TaskStep(t)
  PROVE  Tables'
<1> USE DEF TablesInv
<1>1. CASE Run(t) \/ Resume(t)
  BY <1>1, SleepTables DEF Run, Resume, Pending
<1>2. CASE TimeComes(t)
  <2>1. task' = [task EXCEPT ![t] = task[t]]
    BY <1>2 DEF TimeComes, TypeOK
  <2>2. task[t] \in Phases /\ Pending(t) /\ task[t] # "awake"
    BY <1>2 DEF TimeComes, TypeOK, Pending
  <2>3. task[t] \notin {"none", "ended"}
    BY <2>2 DEF Pending
  <2> QED
    BY <1>2, <2>1, <2>2, <2>3, PhaseTables DEF TimeComes
<1>3. CASE Wake(t)
  <2>1. fire' = fire /\ fire'[t] # "future" /\ Pending(t)
    BY <1>3 DEF Wake, Pending, tables
  <2> QED
    BY <1>3, <2>1, PhaseTables DEF Wake, tables, Phases
<1>4. CASE FireSent(t)
  <2>1. Pending(t)
    BY <1>4 DEF FireSent, Pending
  <2>2. CASE AwaitsAck(t)
    BY <1>4, <2>1, <2>2, PhaseTables DEF FireSent, tables, Phases
  <2>3. CASE ~AwaitsAck(t)
    BY <1>4, <2>1, <2>3, SleepTables, FinishTables DEF FireSent
  <2> QED
    BY <2>2, <2>3
<1>5. CASE FireClosed(t)
  <2>1. Pending(t) /\ UNCHANGED <<made, cancelled>>
    BY <1>5 DEF FireClosed, Pending
  <2> QED
    BY <1>5, <2>1, SleepTables, FinishTables DEF FireClosed
<1>6. CASE FireFull(t) \/ Interrupt(t)
  BY <1>6, FinishTables DEF FireFull, Interrupt, Parked, Pending
<1> QED
  BY <1>1, <1>2, <1>3, <1>4, <1>5, <1>6 DEF TaskStep

(* _teardown_proc_timers cancels all that is pending and clears the tables.  *)
LEMMA TeardownTables == ASSUME TablesInv, Teardown PROVE Tables'
<1> USE DEF TablesInv
<1>1. cancelled' = cancelled \cup timers /\ task' = task /\ made' = made
  BY DEF Teardown
<1>2. /\ timers' = {} /\ intervals' = {}
      /\ \A t \in Timers : fire'[t] = "none"
  BY DEF Teardown
<1>3. timers' = {t \in Timers : Pending(t)' /\ t \notin cancelled'}
  BY <1>1, <1>2 DEF TablesTrackTimers, Pending
<1>4. \A t \in timers : task[t] # "none"
  BY DEF TablesTrackTimers, Pending
<1> QED
  BY <1>1, <1>2, <1>3, <1>4 DEF Tables, TasksMatchTables, TablesTrackTimers

(* The ack moves a waiting task, which stays pending.                        *)
LEMMA HandledTables ==
  ASSUME TablesInv, NEW p \in Procs, Handled(p)
  PROVE  Tables'
<1> USE DEF TablesInv
<1>1. \A t \in Timers : \/ task'[t] = task[t]
                        \/ task[t] = "waiting" /\ task'[t] = "acked"
  BY DEF Handled, Acknowledged
<1>2. UNCHANGED <<made, tables, cancelled>>
  BY DEF Handled
<1>3. \A t \in Timers : Pending(t)' = Pending(t) /\ IsInterval(t)' = IsInterval(t)
  BY <1>1, <1>2 DEF Pending, IsInterval
<1>4. TasksMatchTables'
  BY <1>1, <1>2 DEF TasksMatchTables, TypeOK, tables
<1>5. TablesTrackTimers'
  BY <1>2, <1>3 DEF TablesTrackTimers, tables
<1> QED
  BY <1>4, <1>5 DEF Tables

(* Every step keeps the tables.                                              *)
LEMMA TablesStep == TablesInv /\ [Next]_vars => Tables'
<1> SUFFICES ASSUME TablesInv, [Next]_vars PROVE Tables'
  OBVIOUS
<1> USE DEF TablesInv
<1>1. ASSUME NEW t \in Timers, Cancel(t) PROVE Tables'
  <2>1. \A u \in Timers :
          /\ fire'[u] = IF u = t THEN "none" ELSE fire[u]
          /\ task'[u] = task[u] /\ made'[u] = made[u]
    BY <1>1 DEF Cancel, Replace
  <2>2. /\ timers' = timers \ {t} /\ intervals' = intervals \ {t}
        /\ cancelled' = cancelled \cup {t} /\ t \in timers
    BY <1>1 DEF Cancel, Replace, ScopesCancelled, Stoppable
  <2>3. timers' = {u \in Timers : Pending(u)' /\ u \notin cancelled'}
    BY <2>1, <2>2 DEF TablesTrackTimers, Pending
  <2>4. \A u \in Timers : IsInterval(u)' = IsInterval(u)
    BY <2>1 DEF IsInterval
  <2>5. TasksMatchTables'
    <3>1. task[t] # "none"
      BY <2>2 DEF TablesTrackTimers, Pending
    <3> QED
      BY <2>1, <2>2, <3>1 DEF TasksMatchTables, TypeOK
  <2>6. intervals' = {u \in timers' : IsInterval(u)'}
    BY <2>2, <2>4 DEF TablesTrackTimers
  <2>7. \A u \in Timers : IF u \in timers' THEN fire'[u] # "none"
                          ELSE fire'[u] # "none" => IsInterval(u)' /\ u \in cancelled'
    BY <2>1, <2>2, <2>4 DEF TablesTrackTimers
  <2> QED
    BY <2>3, <2>5, <2>6, <2>7 DEF Tables, TablesTrackTimers
<1>2. ASSUME NEW t \in Timers, NEW p \in Procs, SendAfter(t, p) \/ StartInterval(t, p)
      PROVE  Tables'
  BY <1>2, CallTables DEF SendAfter, StartInterval, Kinds
<1>3. ASSUME NEW t \in Timers, NEW n \in Names, Reschedule(n, t) PROVE Tables'
  <2>1. Superseded(n) \subseteq timers
    BY DEF Superseded, Stoppable
  <2> QED
    BY <1>3, <2>1, CallTables DEF Reschedule, Kinds
<1>4. CASE UNCHANGED <<made, task, tables, cancelled>>
  BY <1>4 DEF Tables, TasksMatchTables, TablesTrackTimers, Pending, IsInterval, tables
<1>5. ASSUME NEW p \in Procs, Post(p) \/ Take(p) \/ Kill(p) \/ Close(p) PROVE Tables'
  BY <1>4, <1>5 DEF Post, Take, Kill, Close
<1> QED
  BY <1>1, <1>2, <1>3, <1>4, <1>5, TaskTables, TeardownTables, HandledTables
  DEF Next, Over, vars

-----------------------------------------------------------------------------
(* The timers that were replaced *)

(* A reschedule cancels the timer it replaces unless that one is due, and a  *)
(* timer that is due and has a name, being no interval, gets no new time.    *)
LEMMA LingerStep ==
  TablesInv /\ OnlyDueOnesLinger /\ [Next]_vars => OnlyDueOnesLinger'
<1> SUFFICES ASSUME TablesInv, OnlyDueOnesLinger, [Next]_vars PROVE OnlyDueOnesLinger'
  OBVIOUS
<1> USE DEF TablesInv
<1>1. ASSUME UNCHANGED <<made, named>>, timers' \subseteq timers,
             \A t \in timers' : fire'[t] = fire[t] \/ fire'[t] = "past"
                                \/ made[t].kind = "interval"
      PROVE  OnlyDueOnesLinger'
  BY <1>1 DEF OnlyDueOnesLinger, TypeOK, TasksMatchTables
<1>2. ASSUME NEW t \in Timers, Cancel(t) PROVE OnlyDueOnesLinger'
  BY <1>1, <1>2 DEF Cancel, Replace, TypeOK
<1>3. ASSUME NEW t \in Timers, NEW p \in Procs, SendAfter(t, p) \/ StartInterval(t, p)
      PROVE  OnlyDueOnesLinger'
  <2>1. \A u \in Timers : made'[u].name = IF u = t THEN None ELSE made[u].name
    BY <1>3 DEF SendAfter, StartInterval, Make, TypeOK
  <2>2. \A u \in timers' \ {t} : u \in timers /\ fire'[u] = fire[u]
    BY <1>3 DEF SendAfter, StartInterval, Replace, TypeOK
  <2>3. named' = named /\ timers' \subseteq Timers
    BY <1>3 DEF SendAfter, StartInterval, Replace, TypeOK
  <2> QED
    BY <2>1, <2>2, <2>3 DEF OnlyDueOnesLinger
<1>4. ASSUME NEW t \in Timers, NEW n \in Names, Reschedule(n, t) PROVE OnlyDueOnesLinger'
  <2>1. /\ t \notin timers /\ \A u \in Timers \ {t} : made'[u] = made[u]
        /\ made'[t].name = n
    BY <1>4 DEF Reschedule, Make, TypeOK, TablesTrackTimers, Pending
  <2>2. /\ timers' = (timers \ Superseded(n)) \cup {t}
        /\ \A u \in timers' \ {t} : fire'[u] = fire[u]
    BY <1>4 DEF Reschedule, Replace, TypeOK, Superseded
  <2>3. \A m \in Names : named'[m] = IF m = n THEN t ELSE named[m]
    BY <1>4 DEF Reschedule, TypeOK
  <2>4. SUFFICES ASSUME NEW u \in timers', made'[u].name # None, named'[made'[u].name] # u
                 PROVE  fire'[u] = "past"
    BY DEF OnlyDueOnesLinger
  <2>5. u # t /\ u \in timers /\ u \notin Superseded(n)
    BY <2>1, <2>2, <2>3, <2>4
  <2>6. made'[u] = made[u] /\ made[u].name \in Names
    BY <2>1, <2>4, <2>5 DEF TypeOK
  <2>7. CASE named[made[u].name] # u
    BY <2>2, <2>5, <2>6, <2>7, <2>4 DEF OnlyDueOnesLinger
  <2>8. CASE named[made[u].name] = u
    <3>1. made[u].name = n
      BY <2>3, <2>4, <2>6, <2>8
    <3>2. u \in {named[n]} \ {None}
      BY <2>5, <2>8, <3>1, TimersAssumption DEF TypeOK
    <3> QED
      BY <2>2, <2>5, <3>2 DEF Superseded, Stoppable
  <2> QED
    BY <2>7, <2>8
<1>5. ASSUME NEW t \in Timers, TaskStep(t) PROVE OnlyDueOnesLinger'
  <2>1. CASE Sleep(t)
    BY <1>1, <1>5, <2>1 DEF Sleep, IsInterval, TypeOK, TaskStep, Run, TimeComes, Wake,
         Resume, Interrupt, FireSent, FireClosed, FireFull
  <2>2. CASE Finish(t)
    BY <1>1, <1>5, <2>2 DEF Finish, Popped, TypeOK, TaskStep, Run, TimeComes, Wake,
         Resume, Interrupt, FireSent, FireClosed, FireFull
  <2>3. CASE TimeComes(t) \/ Wake(t) \/ (FireSent(t) /\ UNCHANGED tables)
    BY <1>1, <2>3 DEF TimeComes, Wake, FireSent, TypeOK, tables
  <2> QED
    BY <1>5, <2>1, <2>2, <2>3 DEF TaskStep, Run, TimeComes, Wake, Resume, Interrupt,
         FireSent, FireClosed, FireFull
<1>6. CASE Teardown
  BY <1>6 DEF Teardown, OnlyDueOnesLinger
<1>7. CASE UNCHANGED <<made, tables, named>>
  BY <1>1, <1>7 DEF tables
<1> QED
  BY <1>2, <1>3, <1>4, <1>5, <1>6, <1>7
  DEF Next, Over, Post, Take, Handled, Kill, Close, vars

-----------------------------------------------------------------------------
(* The timers that were silenced *)

(* A scope stays cancelled, and a cancelled task is not woken.               *)
LEMMA SilencedStep ==
  TablesInv /\ SilencedAreOut /\ [Next]_vars => SilencedAreOut'
<1> SUFFICES ASSUME TablesInv, SilencedAreOut, [Next]_vars PROVE SilencedAreOut'
  OBVIOUS
<1> USE DEF TablesInv
<1>1. ASSUME NEW S \in SUBSET timers, NEW N \in SUBSET Timers, NEW k, Replace(S, N, k),
             \A u \in Timers : task'[u] = "awake" => task[u] = "awake"
      PROVE  SilencedAreOut'
  BY <1>1 DEF Replace, ScopesCancelled, SilencedAreOut, TasksMatchTables, TypeOK
<1>2. ASSUME NEW t \in Timers, Cancel(t) PROVE SilencedAreOut'
  BY <1>1, <1>2 DEF Cancel, Stoppable
<1>3. ASSUME NEW t \in Timers, NEW p \in Procs, SendAfter(t, p) \/ StartInterval(t, p)
      PROVE  SilencedAreOut'
  <2>1. \A u \in Timers : task'[u] = "awake" => task[u] = "awake"
    BY <1>3 DEF SendAfter, StartInterval, Make, TypeOK
  <2>2. {} \in SUBSET timers /\ {t} \in SUBSET Timers
    OBVIOUS
  <2> QED
    BY <1>1, <1>3, <2>1, <2>2 DEF SendAfter, StartInterval
<1>4. ASSUME NEW t \in Timers, NEW n \in Names, Reschedule(n, t) PROVE SilencedAreOut'
  <2>1. Superseded(n) \subseteq timers
    BY DEF Superseded, Stoppable
  <2> QED
    BY <1>1, <1>4, <2>1 DEF Reschedule, Make, TypeOK
<1>5. ASSUME UNCHANGED <<cancelled, silenced>>,
             \A u \in cancelled : task'[u] = "awake" => task[u] = "awake"
      PROVE  SilencedAreOut'
  BY <1>5 DEF SilencedAreOut
<1>6. ASSUME NEW t \in Timers, TaskStep(t) PROVE SilencedAreOut'
  <2>1. UNCHANGED <<cancelled, silenced>>
    BY <1>6 DEF TaskStep, Run, TimeComes, Wake, Resume, Interrupt, FireSent, FireClosed,
         FireFull
  <2>2. \A u \in Timers \ {t} : task'[u] = task[u]
    BY <1>6 DEF TaskStep, Run, TimeComes, Wake, Resume, Interrupt, FireSent, FireClosed,
         FireFull, Sleep, Finish, TypeOK
  <2>3. t \in cancelled => task'[t] # "awake" \/ task'[t] = task[t]
    BY <1>6 DEF TaskStep, Run, TimeComes, Wake, Resume, Interrupt, FireSent, FireClosed,
         FireFull, Sleep, Finish, Doomed, TypeOK
  <2> QED
    BY <1>5, <2>1, <2>2, <2>3 DEF TypeOK
<1>7. ASSUME NEW p \in Procs, Handled(p) PROVE SilencedAreOut'
  BY <1>5, <1>7 DEF Handled, Acknowledged, TypeOK
<1>8. CASE Teardown
  BY <1>8 DEF Teardown, SilencedAreOut
<1>9. CASE UNCHANGED <<task, cancelled, silenced>>
  BY <1>5, <1>9
<1> QED
  BY <1>2, <1>3, <1>4, <1>6, <1>7, <1>8, <1>9 DEF Next, Over, Post, Take, Kill, Close, vars

-----------------------------------------------------------------------------
(* The messages of the timers *)

(* The places of a message after another is put behind it.                   *)
LEMMA AppendPlaces ==
  ASSUME NEW M, NEW s \in Seq(M), NEW e \in M
  PROVE  /\ DOMAIN Append(s, e) = DOMAIN s \cup {Len(s) + 1}
         /\ Len(s) + 1 \notin DOMAIN s
         /\ \A i \in DOMAIN s : Append(s, e)[i] = s[i]
         /\ Append(s, e)[Len(s) + 1] = e
  BY AppendProperties

(* And after the first is taken.                                             *)
LEMMA TailPlaces ==
  ASSUME NEW M, NEW s \in Seq(M), s # <<>>
  PROVE  /\ 1 \in DOMAIN s /\ Head(s) = s[1]
         /\ \A i \in DOMAIN Tail(s) : /\ i \in Nat \ {0} /\ i + 1 \in DOMAIN s
                                      /\ Tail(s)[i] = s[i + 1]
  BY HeadTailProperties

(* A timer is made once, and what it was made with stays.                    *)
LEMMA MadeOnce ==
  ASSUME TypeOK, [Next]_vars, NEW t \in Timers
  PROVE  IF task[t] = "none"
         THEN made'[t] = made[t] \/ (task'[t] = "starting" /\ UNCHANGED procs)
         ELSE made'[t] = made[t] /\ task'[t] # "none"
<1>1. ASSUME NEW u \in Timers, NEW k, NEW p, NEW n, Make(u, k, p, n)
      PROVE  IF task[t] = "none"
             THEN made'[t] = made[t] \/ (task'[t] = "starting" /\ UNCHANGED procs)
             ELSE made'[t] = made[t] /\ task'[t] # "none"
  BY <1>1 DEF Make, TypeOK
<1>2. ASSUME UNCHANGED made, task[t] # "none" => task'[t] # "none"
      PROVE  IF task[t] = "none"
             THEN made'[t] = made[t] \/ (task'[t] = "starting" /\ UNCHANGED procs)
             ELSE made'[t] = made[t] /\ task'[t] # "none"
  BY <1>2
<1>3. ASSUME NEW u \in Timers, TaskStep(u)
      PROVE  UNCHANGED made /\ (task[t] # "none" => task'[t] # "none")
  BY <1>3 DEF TaskStep, Run, TimeComes, Wake, Resume, Interrupt, FireSent, FireClosed,
     FireFull, Sleep, Finish, TypeOK
<1>4. ASSUME NEW p \in Procs, Handled(p)
      PROVE  UNCHANGED made /\ (task[t] # "none" => task'[t] # "none")
  BY <1>4 DEF Handled, Acknowledged
<1> QED
  BY <1>1, <1>2, <1>3, <1>4 DEF Next, Over, Cancel, SendAfter, StartInterval, Reschedule,
     Post, Take, Kill, Close, Teardown, vars

Mentioned(p, t) == handling[p] = t \/ \E i \in DOMAIN mailbox[p] : mailbox[p][i] = t

(* Only a timer that fires puts its message anywhere.                        *)
LEMMA SentStep ==
  TypeOK /\ SentToTarget /\ [Next]_vars => SentToTarget'
<1> SUFFICES ASSUME TypeOK, SentToTarget, [Next]_vars PROVE SentToTarget'
  OBVIOUS
<1>1. \A t \in Timers : task[t] # "none" => task'[t] # "none" /\ Target(t)' = Target(t)
  BY MadeOnce DEF Target
<1> DEFINE Kept == \A p \in Procs, t \in Timers :
              Mentioned(p, t)' => Mentioned(p, t) \/ (task[t] = "awake" /\ Target(t) = p)
<1>2. SUFFICES Kept
  BY <1>1 DEF SentToTarget, Mentioned
<1>3. CASE UNCHANGED procs
  BY <1>3 DEF Mentioned, procs
<1>4. ASSUME NEW p \in Procs, NEW e \in Timers \cup {Other},
             mailbox' = [mailbox EXCEPT ![p] = Append(@, e)],
             e \in Timers => task[e] = "awake" /\ Target(e) = p,
             UNCHANGED handling
      PROVE  Kept
  <2>1. mailbox[p] \in Seq(Timers \cup {Other})
    BY DEF TypeOK
  <2>2. \A t \in Timers, i \in DOMAIN mailbox'[p] :
          mailbox'[p][i] = t => Mentioned(p, t) \/ e = t
    BY <1>4, <2>1, AppendPlaces DEF Mentioned, TypeOK
  <2>3. \A q \in Procs \ {p} : mailbox'[q] = mailbox[q]
    BY <1>4 DEF TypeOK
  <2> QED
    BY <1>4, <2>2, <2>3 DEF Mentioned
<1>5. ASSUME NEW t \in Timers, FireSent(t) PROVE Kept
  BY <1>4, <1>5 DEF FireSent, Target, TypeOK
<1>6. ASSUME NEW p \in Procs, Post(p) PROVE Kept
  BY <1>4, <1>6, TimersAssumption DEF Post
<1>7. ASSUME NEW p \in Procs, Take(p) PROVE Kept
  <2>1. mailbox[p] \in Seq(Timers \cup {Other}) /\ mailbox[p] # <<>>
    BY <1>7 DEF Take, TypeOK
  <2>2. mailbox'[p] = Tail(mailbox[p]) /\ handling'[p] = Head(mailbox[p])
    BY <1>7 DEF Take, TypeOK
  <2>3. \A t \in Timers : Mentioned(p, t)' => Mentioned(p, t)
    BY <2>1, <2>2, TailPlaces DEF Mentioned
  <2>4. \A q \in Procs \ {p} : mailbox'[q] = mailbox[q] /\ handling'[q] = handling[q]
    BY <1>7 DEF Take, TypeOK
  <2> QED
    BY <2>3, <2>4 DEF Mentioned
<1>8. ASSUME NEW p \in Procs, Handled(p) PROVE Kept
  BY <1>8 DEF Handled, Mentioned, TypeOK
<1>9. ASSUME NEW p \in Procs, Close(p) PROVE Kept
  BY <1>9 DEF Close, Mentioned, TypeOK
<1>10. ASSUME NEW p \in Procs, Kill(p) PROVE Kept
  BY <1>10 DEF Kill, Mentioned, TypeOK
<1> QED
  BY <1>3, <1>5, <1>6, <1>7, <1>8, <1>9, <1>10
  DEF Next, Over, TaskStep, Cancel, SendAfter, StartInterval, Reschedule, Make, Run,
      TimeComes, Wake, Resume, Interrupt, FireClosed, FireFull, Teardown, vars

(* An interval sends again only after its message was handled: an ack comes  *)
(* only with the end of the handling, when the message is nowhere else.      *)
LEMMA OneMessageStep ==
  TypeOK /\ MessagesInv /\ [Next]_vars => OneMessage'
<1> SUFFICES ASSUME TypeOK, SentToTarget, OneMessage, [Next]_vars,
                    NEW t \in Timers, AwaitsAck(t)'
             PROVE  /\ \A i, j : At(t, i)' /\ At(t, j)' => i = j
                    /\ (handling[Target(t)] = t)' => \A i : ~At(t, i)'
                    /\ (task[t] \notin {"waiting", "ended"})' =>
                          (handling[Target(t)] # t)' /\ \A i : ~At(t, i)'
  BY DEF OneMessage, MessagesInv
<1> DEFINE Goal == /\ \A i, j : At(t, i)' /\ At(t, j)' => i = j
                   /\ (handling[Target(t)] = t)' => \A i : ~At(t, i)'
                   /\ (task[t] \notin {"waiting", "ended"})' =>
                          (handling[Target(t)] # t)' /\ \A i : ~At(t, i)'
           p == Target(t)
           Out(u) == task[u] \notin {"waiting", "ended"}
<1>1. CASE made'[t] # made[t]
  <2>1. task[t] = "none" /\ UNCHANGED procs
    BY <1>1, MadeOnce
  <2>2. \A q \in Procs : handling[q] # t /\ \A i \in DOMAIN mailbox[q] : mailbox[q][i] # t
    BY <2>1 DEF SentToTarget
  <2>3. Target(t)' \in Procs
    <3>1. TypeOK'
      BY TypeStep
    <3> QED
      BY <3>1 DEF Target, TypeOK
  <2> QED
    BY <2>1, <2>2, <2>3 DEF At, procs
<1>2. CASE made'[t] = made[t]
  <2>1. AwaitsAck(t) /\ p \in Procs /\ Target(t)' = p
    BY <1>2 DEF AwaitsAck, IsInterval, Target, TypeOK
  <2>2. /\ \A i, j : At(t, i) /\ At(t, j) => i = j
        /\ handling[p] = t => \A i : ~At(t, i)
        /\ Out(t) => handling[p] # t /\ \A i : ~At(t, i)
    BY <2>1 DEF OneMessage
  <2>3. mailbox[p] \in Seq(Timers \cup {Other})
    BY <2>1 DEF TypeOK
  <2>4. ASSUME mailbox'[p] = mailbox[p], handling'[p] = handling[p], Out(t)' => Out(t)
        PROVE  Goal
    BY <2>1, <2>2, <2>4 DEF At
  <2>5. ASSUME NEW e \in Timers \cup {Other}, e # t, mailbox'[p] = Append(mailbox[p], e),
               UNCHANGED handling, Out(t)' => Out(t)
        PROVE  Goal
    <3>1. \A i : At(t, i)' => At(t, i)
      BY <2>1, <2>3, <2>5, AppendPlaces DEF At
    <3> QED
      BY <2>1, <2>2, <2>5, <3>1
  <2>6. ASSUME NEW q \in Procs, Post(q) PROVE Goal
    <3>1. Out(t)' = Out(t) /\ UNCHANGED handling
      BY <2>6 DEF Post
    <3>2. CASE q = p
      BY <2>5, <2>6, <3>1, <3>2, TimersAssumption DEF Post, TypeOK
    <3>3. CASE q # p
      BY <2>1, <2>4, <2>6, <3>1, <3>3 DEF Post, TypeOK
    <3> QED
      BY <3>2, <3>3
  <2>7. ASSUME NEW u \in Timers, FireSent(u) PROVE Goal
    <3>1. Target(u) \in Procs /\ UNCHANGED handling
      BY <2>7 DEF FireSent, Target, TypeOK
    <3>2. mailbox' = [mailbox EXCEPT ![Target(u)] = Append(@, u)]
      BY <2>7 DEF FireSent
    <3>3. CASE u = t
      <4>1. task'[t] = "waiting" /\ Out(t)
        BY <2>1, <2>7, <3>3 DEF FireSent, TypeOK
      <4>2. mailbox'[p] = Append(mailbox[p], t)
        BY <2>1, <3>2, <3>3 DEF TypeOK
      <4>3. \A i : At(t, i)' => i = Len(mailbox[p]) + 1
        BY <2>1, <2>2, <2>3, <4>1, <4>2, AppendPlaces DEF At
      <4> QED
        BY <2>1, <2>2, <3>1, <4>1, <4>3
    <3>4. CASE u # t
      <4>1. Out(t)' = Out(t)
        BY <2>7, <3>4 DEF FireSent, Sleep, Finish, TypeOK
      <4>2. CASE Target(u) = p
        BY <2>1, <2>5, <3>1, <3>2, <3>4, <4>1, <4>2 DEF TypeOK
      <4>3. CASE Target(u) # p
        BY <2>1, <2>4, <3>1, <3>2, <4>1, <4>3 DEF TypeOK
      <4> QED
        BY <4>2, <4>3
    <3> QED
      BY <3>3, <3>4
  <2>8. ASSUME NEW q \in Procs, Take(q) PROVE Goal
    <3>1. UNCHANGED task
      BY <2>8 DEF Take
    <3>2. CASE q # p
      BY <2>1, <2>4, <2>8, <3>1, <3>2 DEF Take, TypeOK
    <3>3. CASE q = p
      <4>1. /\ mailbox[p] # <<>>
            /\ mailbox'[p] = Tail(mailbox[p]) /\ handling'[p] = Head(mailbox[p])
        BY <2>1, <2>8, <3>3 DEF Take, TypeOK
      <4>2. /\ Head(mailbox[p]) = t => At(t, 1)
            /\ \A i : At(t, i)' => i \in Nat \ {0} /\ At(t, i + 1)
        BY <2>1, <2>3, <4>1, TailPlaces DEF At
      <4>3. \A i, j : At(t, i)' /\ At(t, j)' => i = j
        BY <2>2, <4>2
      <4>4. handling'[p] = t => \A i : ~At(t, i)'
        BY <2>2, <4>1, <4>2
      <4>5. Out(t)' => handling'[p] # t /\ \A i : ~At(t, i)'
        BY <2>2, <3>1, <4>1, <4>2
      <4> QED
        BY <2>1, <4>3, <4>4, <4>5
    <3> QED
      BY <3>2, <3>3
  <2>9. ASSUME NEW q \in Procs, Handled(q) PROVE Goal
    <3>1. UNCHANGED mailbox /\ handling' = [handling EXCEPT ![q] = None]
      BY <2>9 DEF Handled
    <3>2. CASE handling[q] = t
      <4>1. q = p
        BY <3>2 DEF SentToTarget
      <4>2. handling'[p] # t /\ \A i : ~At(t, i)'
        BY <2>1, <2>2, <3>1, <3>2, <4>1, TimersAssumption DEF TypeOK, At
      <4> QED
        BY <2>1, <4>2
    <3>3. CASE handling[q] # t
      <4>1. Out(t)' = Out(t)
        BY <2>9, <3>3 DEF Handled, Acknowledged
      <4>2. handling'[p] = handling[p] \/ handling'[p] # t
        BY <2>1, <3>1, TimersAssumption DEF TypeOK
      <4>3. \A i : At(t, i)' = At(t, i)
        BY <2>1, <3>1 DEF At
      <4> QED
        BY <2>1, <2>2, <4>1, <4>2, <4>3
    <3> QED
      BY <3>2, <3>3
  <2>10. ASSUME NEW q \in Procs, Close(q) PROVE Goal
    <3>1. UNCHANGED <<task, handling>>
      BY <2>10 DEF Close
    <3>2. \A i : At(t, i)' => At(t, i)
      BY <2>1, <2>10 DEF Close, At, TypeOK
    <3> QED
      BY <2>1, <2>2, <3>1, <3>2
  <2>11. ASSUME NEW u \in Timers, TaskStep(u), ~FireSent(u) PROVE Goal
    <3>1. UNCHANGED procs
      BY <2>11 DEF TaskStep, Run, TimeComes, Wake, Resume, Interrupt, FireClosed, FireFull
    <3>2. Out(t)' => Out(t)
      BY <2>11 DEF TaskStep, Run, TimeComes, Wake, Resume, Interrupt, FireClosed, FireFull,
         Sleep, Finish, TypeOK
    <3> QED
      BY <2>4, <3>1, <3>2 DEF procs
  <2>12. ASSUME NEW u \in Timers, NEW k, NEW q, NEW n, Make(u, k, q, n) PROVE Goal
    <3>1. Out(t)' => Out(t)
      BY <2>12 DEF Make, TypeOK
    <3> QED
      BY <2>4, <2>12, <3>1 DEF Make, procs
  <2>13. CASE UNCHANGED <<mailbox, handling, task>>
    BY <2>4, <2>13
  <2> QED
    BY <2>6, <2>7, <2>8, <2>9, <2>10, <2>11, <2>12, <2>13
    DEF Next, Over, Cancel, SendAfter, StartInterval, Reschedule, Kill, Teardown, vars, procs
<1> QED
  BY <1>1, <1>2

-----------------------------------------------------------------------------
(* The number of messages of a timer *)

Places(s, m) == {i \in DOMAIN s : s[i] = m}

(* A sequence holds at most as many of a message as the one it is a part of. *)
LEMMA FewerPlaces ==
  ASSUME NEW M, NEW r \in Seq(M), NEW s \in Seq(M), NEW m, NEW k \in Nat,
         \A i \in DOMAIN r : r[i] = m => i + k \in DOMAIN s /\ s[i + k] = m
  PROVE  Cardinality(Places(r, m)) <= Cardinality(Places(s, m))
<1> DEFINE R == Places(r, m)
           S == Places(s, m)
           f == [i \in R |-> i + k]
<1>1. IsFiniteSet(S) /\ Cardinality(S) \in Nat
  <2>1. IsFiniteSet(1 .. Len(s)) /\ DOMAIN s = 1 .. Len(s)
    BY FS_Interval
  <2> QED
    BY <2>1, FS_Subset, FS_CardinalityType DEF Places
<1>2. R \subseteq Nat
  BY DEF Places
<1>3. f \in Injection(R, S)
  <2>1. f \in [R -> S]
    BY DEF Places
  <2>2. \A i, j \in R : f[i] = f[j] => i = j
    BY <1>2
  <2> QED
    BY <2>1, <2>2 DEF Injection, IsInjective
<1> HIDE DEF R, S, f
<1>4. Cardinality(R) <= Cardinality(S)
  BY <1>1, <1>3, FS_Injection
<1> QED
  BY <1>1, <1>4 DEF R, S

(* In particular a message that has at most one place is there at most once. *)
LEMMA OnePlace ==
  ASSUME NEW M, NEW s \in Seq(M), NEW m,
         \A i, j \in DOMAIN s : s[i] = m /\ s[j] = m => i = j
  PROVE  Cardinality({i \in DOMAIN s : s[i] = m}) \in {0, 1}
<1>1. CASE \A i \in DOMAIN s : s[i] # m
  <2>1. {i \in DOMAIN s : s[i] = m} = {}
    BY <1>1
  <2> QED
    BY <2>1, FS_EmptySet
<1>2. ASSUME NEW i \in DOMAIN s, s[i] = m
      PROVE  Cardinality({j \in DOMAIN s : s[j] = m}) \in {0, 1}
  <2>1. {j \in DOMAIN s : s[j] = m} = {i}
    BY <1>2
  <2> QED
    BY <2>1, FS_Singleton
<1> QED
  BY <1>1, <1>2

-----------------------------------------------------------------------------
(* Every step keeps all of it.                                               *)
LEMMA InductiveInvariant == Spec => []IInv
<1>1. IInv /\ [Next]_vars => IInv'
  BY TypeStep, TablesStep, LingerStep, SilencedStep, SentStep, OneMessageStep
  DEF IInv, TablesInv, Tables, MessagesInv
<1> QED
  BY InitIInv, <1>1, PTL DEF Spec

(* The tables keep their types, and no mailbox outgrows its size.            *)
THEOREM TimersTyped == Spec => []TypeOK
  BY InductiveInvariant, PTL DEF IInv, TablesInv

(* _proc_timers, _proc_interval_timers and _proc_timer_fire_times know the   *)
(* timers that are pending and not cancelled, whatever tasks and calls take  *)
(* out of them.                                                              *)
THEOREM TablesTracked == Spec => []TablesTrackTimers
  BY InductiveInvariant, PTL DEF IInv, TablesInv

(* A timer that a reschedule left behind was due at that time.               *)
THEOREM ReplacedAreDue == Spec => []OnlyDueOnesLinger
  BY InductiveInvariant, PTL DEF IInv

(* The ack keeps an interval from a second message while its first is queued *)
(* or handled.                                                               *)
THEOREM IntervalsDoNotPileUp == Spec => []NoPileUp
<1>1. IInv => NoPileUp
  <2> SUFFICES ASSUME IInv, NEW t \in Timers, IsInterval(t), Target(t) \in Plain
               PROVE  Queued(t) + (IF handling[Target(t)] = t THEN 1 ELSE 0) <= 1
    BY DEF NoPileUp
  <2>1. /\ \A i, j : At(t, i) /\ At(t, j) => i = j
        /\ handling[Target(t)] = t => \A i : ~At(t, i)
    BY DEF IInv, MessagesInv, OneMessage, AwaitsAck
  <2>2. mailbox[Target(t)] \in Seq(Timers \cup {Other})
    BY DEF IInv, TablesInv, TypeOK, Target
  <2>3. Queued(t) \in {0, 1}
    BY <2>1, <2>2, OnePlace DEF Queued, At
  <2>4. CASE handling[Target(t)] = t
    <3>1. {i \in DOMAIN mailbox[Target(t)] : mailbox[Target(t)][i] = t} = {}
      BY <2>1, <2>4 DEF At
    <3> QED
      BY <2>4, <3>1, FS_EmptySet DEF Queued
  <2>5. CASE handling[Target(t)] # t
    BY <2>3, <2>5
  <2> QED
    BY <2>4, <2>5
<1> QED
  BY InductiveInvariant, <1>1, PTL

(* A timer that was cancelled before its time, or that was not ready to run  *)
(* at the teardown, sends nothing more: its task can only end.               *)
THEOREM SilencedSendNothing == Spec => SilencedStaySilent
<1>1. IInv /\ [Next]_vars => [\A t \in silenced : Queued(t)' <= Queued(t)]_vars
  <2> SUFFICES ASSUME IInv, [Next]_vars, NEW t \in silenced
               PROVE  Queued(t)' <= Queued(t)
    OBVIOUS
  <2> DEFINE p == Target(t)
  <2>1. TypeOK /\ t \in Timers /\ task[t] \notin {"none", "awake"}
    BY DEF IInv, TablesInv, TypeOK, SilencedAreOut, TasksMatchTables
  <2>2. p \in Procs /\ Target(t)' = p
    BY <2>1, MadeOnce DEF Target, TypeOK
  <2>3. /\ mailbox[p] \in Seq(Timers \cup {Other})
        /\ mailbox'[p] \in Seq(Timers \cup {Other})
    <3>1. TypeOK'
      BY <2>1, TypeStep
    <3> QED
      BY <2>1, <2>2, <3>1 DEF TypeOK
  <2>4. ASSUME NEW k \in Nat, \A i \in DOMAIN mailbox'[p] :
                 mailbox'[p][i] = t => i + k \in DOMAIN mailbox[p] /\ mailbox[p][i + k] = t
        PROVE  Queued(t)' <= Queued(t)
    <3>1. /\ Queued(t)' = Cardinality(Places(mailbox'[p], t))
          /\ Queued(t) = Cardinality(Places(mailbox[p], t))
      BY <2>2 DEF Queued, Places
    <3> QED
      BY <2>3, <2>4, <3>1, FewerPlaces
  <2>5. CASE mailbox'[p] = mailbox[p]
    <3>1. \A i \in DOMAIN mailbox'[p] :
            mailbox'[p][i] = t => i + 0 \in DOMAIN mailbox[p] /\ mailbox[p][i + 0] = t
      BY <2>3, <2>5
    <3> QED
      BY <2>4, <3>1
  <2>6. ASSUME NEW e \in Timers \cup {Other}, e # t, mailbox'[p] = Append(mailbox[p], e)
        PROVE  Queued(t)' <= Queued(t)
    <3>1. \A i \in DOMAIN mailbox'[p] :
            mailbox'[p][i] = t => i + 0 \in DOMAIN mailbox[p] /\ mailbox[p][i + 0] = t
      BY <2>3, <2>6, AppendPlaces
    <3> QED
      BY <2>4, <3>1
  <2>7. ASSUME NEW q \in Procs, Post(q) PROVE Queued(t)' <= Queued(t)
    BY <2>1, <2>2, <2>5, <2>6, <2>7, TimersAssumption DEF Post, TypeOK
  <2>8. ASSUME NEW u \in Timers, FireSent(u) PROVE Queued(t)' <= Queued(t)
    BY <2>1, <2>2, <2>5, <2>6, <2>8 DEF FireSent, TypeOK
  <2>9. ASSUME NEW q \in Procs, Take(q) PROVE Queued(t)' <= Queued(t)
    <3>1. CASE q = p
      <4>1. \A i \in DOMAIN mailbox'[p] :
              mailbox'[p][i] = t => i + 1 \in DOMAIN mailbox[p] /\ mailbox[p][i + 1] = t
        BY <2>1, <2>2, <2>3, <2>9, <3>1, TailPlaces DEF Take, TypeOK
      <4> QED
        BY <2>4, <4>1
    <3>2. CASE q # p
      BY <2>1, <2>2, <2>5, <2>9, <3>2 DEF Take, TypeOK
    <3> QED
      BY <3>1, <3>2
  <2>10. ASSUME NEW q \in Procs, Close(q) PROVE Queued(t)' <= Queued(t)
    <3>1. CASE q = p
      <4>1. mailbox'[p] = <<>>
        BY <2>1, <2>2, <2>10, <3>1 DEF Close, TypeOK
      <4> QED
        BY <2>4, <4>1
    <3>2. CASE q # p
      BY <2>1, <2>2, <2>5, <2>10, <3>2 DEF Close, TypeOK
    <3> QED
      BY <3>1, <3>2
  <2> QED
    BY <2>5, <2>7, <2>8, <2>9, <2>10
    DEF Next, Over, TaskStep, Cancel, SendAfter, StartInterval, Reschedule, Make, Run,
        TimeComes, Wake, Resume, Interrupt, FireClosed, FireFull, Handled, Kill, Teardown, vars,
        procs
<1> QED
  BY InductiveInvariant, <1>1, PTL DEF Spec, SilencedStaySilent
=============================================================================
