----------------------- MODULE GenStateMachine_proofs -----------------------
(***************************************************************************)
(* Proofs about GenStateMachine, for any bounds, scopes and mailbox size,  *)
(* with and without enter callbacks: a state is entered before it handles  *)
(* anything, timers that sleep are in the tables, and the three lists of   *)
(* the machine with the item in hand are one queue (EventQueue).           *)
(***************************************************************************)
EXTENDS GenStateMachine, TLAPS, SequenceTheorems, WellFoundedInduction

USE GenStateMachineAssumption

Held == (Scopes \cup {"state"}) \ {"plain"}

TypeOK ==
    /\ at \in {"idle", "handed", "callback", "terminating", "stopped"}
    /\ mailbox \in Seq(Item) /\ next \in Seq(Item) /\ postponed \in Seq(Item)
    /\ current \in Item
    /\ visit \in Nat /\ entered \in Nat /\ events \in 0..MaxEvents
    /\ scope \in [Timers -> Scopes \cup {"none"}]
    /\ task \in [Timers -> {"none", "asleep", "due", "ended"}]
    /\ active \in [Held -> Timers \cup {NoTimer}]
    /\ setIn \in [Timers -> Nat]

(* A timer that runs has a scope.                                            *)
RunningAreScoped == \A t \in Timers : task[t] # "none" => scope[t] \in Scopes

(* The enter callback of the present state has run, or comes next.           *)
EnterNext ==
    EnterMode /\ Alive /\ entered # visit
        => at = "idle" /\ next # <<>> /\ Head(next) = Enter

IInv == TypeOK /\ RunningAreScoped /\ TimersInHand /\ EnterNext

-----------------------------------------------------------------------------
(* The machine starts in a state that it enters.                             *)
LEMMA InitIInv == Init => IInv
<1> SUFFICES ASSUME Init PROVE IInv
  OBVIOUS
<1>1. Enter \in Item /\ <<>> \in Seq(Item)
  BY DEF Enter, Item, NoTimer
<1>2. TypeOK
  BY <1>1 DEF Init, TypeOK, Held
<1>3. RunningAreScoped /\ TimersInHand /\ EnterNext
  BY DEF Init, RunningAreScoped, TimersInHand, EnterNext
<1> QED
  BY <1>2, <1>3 DEF IInv

-----------------------------------------------------------------------------
(* The timers *)

(* Everything about timers.                                                  *)
TimerTypes ==
    /\ scope \in [Timers -> Scopes \cup {"none"}]
    /\ task \in [Timers -> {"none", "asleep", "due", "ended"}]
    /\ active \in [Held -> Timers \cup {NoTimer}]
    /\ setIn \in [Timers -> Nat]
TimerInv == TimerTypes /\ RunningAreScoped /\ TimersInHand

(* The actions that a callback returns cancel the timers that are replaced,  *)
(* and that of the state when it changes.                                    *)
LEMMA AppliedInHand ==
  ASSUME TimerInv, visit \in Nat, NEW f \in Effects, NEW change \in BOOLEAN,
         ApplyTimers(f, change), visit' = IF change THEN visit + 1 ELSE visit
  PROVE  TimerInv'
<1> DEFINE gone == EndedBy(f, change)
           left == [s \in Held |-> IF s \in gone THEN NoTimer ELSE active[s]]
<1> USE DEF TimerInv, TimerTypes
<1>1. DOMAIN active = Held
  OBVIOUS
<1>2. \A t \in Timers :
        /\ Cancelled(gone)[t] \in {task[t], "ended"}
        /\ task[t] = "none" => Cancelled(gone)[t] = "none"
        /\ Cancelled(gone)[t] = "asleep" => task[t] = "asleep"
        /\ task[t] = "asleep" /\ scope[t] \in gone /\ scope[t] # "plain"
              => Cancelled(gone)[t] = "ended"
  BY <1>1 DEF Cancelled, TimersInHand, RunningAreScoped, Held
<1>3. \A t \in Timers : Cancelled(gone)[t] = "asleep" /\ scope[t] # "plain" =>
        /\ scope[t] \in Held /\ scope[t] \notin gone /\ active[scope[t]] = t
        /\ scope[t] = "state" => setIn[t] = visit /\ ~change
  BY <1>2 DEF TimersInHand, RunningAreScoped, Held, EndedBy
<1>4. Cancelled(gone) \in [Timers -> {"none", "asleep", "due", "ended"}]
  BY DEF Cancelled
<1>5. left \in [Held -> Timers \cup {NoTimer}]
  OBVIOUS
<1>6. left = [s \in DOMAIN active |-> IF s \in gone THEN NoTimer ELSE active[s]]
  BY <1>1
<1> HIDE DEF gone, left
<1>7. CASE /\ task' = Cancelled(gone) /\ active' = left
           /\ UNCHANGED <<scope, setIn>>
  <2>1. TimerTypes'
    BY <1>4, <1>5, <1>7
  <2>2. RunningAreScoped'
    BY <1>2, <1>7 DEF RunningAreScoped
  <2>3. TimersInHand'
    BY <1>3, <1>7 DEF TimersInHand, left
  <2> QED
    BY <2>1, <2>2, <2>3
<1>8. ASSUME NEW t \in Timers, f.op = "set", task[t] = "none",
             task' = [Cancelled(gone) EXCEPT ![t] = "asleep"],
             active' = [s \in DOMAIN left |-> IF s = f.scope THEN t ELSE left[s]],
             scope' = [scope EXCEPT ![t] = f.scope],
             setIn' = [setIn EXCEPT ![t] = IF change THEN visit + 1 ELSE visit]
      PROVE  TimerInv'
  <2>1. f.scope \in Scopes /\ f.scope \in gone
    BY <1>8 DEF Effects, gone, EndedBy
  <2>2. \A u \in Timers :
          /\ u # t => task'[u] = Cancelled(gone)[u] /\ scope'[u] = scope[u] /\ setIn'[u] = setIn[u]
          /\ u = t => task'[u] = "asleep" /\ scope'[u] = f.scope /\ setIn'[u] = visit'
    BY <1>4, <1>8
  <2>3. \A s \in Held : active'[s] = IF s = f.scope THEN t ELSE left[s]
    BY <1>5, <1>8
  <2>4. TimerTypes'
    <3>1. task' \in [Timers -> {"none", "asleep", "due", "ended"}]
      BY <1>4, <1>8
    <3>2. active' \in [Held -> Timers \cup {NoTimer}]
      BY <1>5, <1>8
    <3>3. scope' \in [Timers -> Scopes \cup {"none"}] /\ setIn' \in [Timers -> Nat]
      BY <1>8, <2>1
    <3> QED
      BY <3>1, <3>2, <3>3
  <2>5. RunningAreScoped'
    BY <1>2, <2>1, <2>2 DEF RunningAreScoped
  <2>6. TimersInHand'
    <3> SUFFICES ASSUME NEW u \in Timers, task'[u] = "asleep", scope'[u] # "plain"
                 PROVE  /\ active'[scope'[u]] = u
                        /\ scope'[u] = "state" => setIn'[u] = visit'
      BY DEF TimersInHand
    <3>1. CASE u = t
      BY <2>1, <2>2, <2>3, <3>1 DEF Held
    <3>2. CASE u # t
      <4>1. /\ scope'[u] \in Held /\ scope'[u] \notin gone /\ active[scope'[u]] = u
            /\ scope'[u] = "state" => setIn'[u] = visit /\ ~change
        BY <1>3, <2>2, <3>2
      <4>2. left[scope'[u]] = u
        BY <4>1 DEF left
      <4> QED
        BY <2>1, <2>3, <4>1, <4>2
    <3> QED
      BY <3>1, <3>2
  <2> QED
    BY <2>4, <2>5, <2>6
<1> QED
  BY <1>6, <1>7, <1>8 DEF ApplyTimers, gone

(* Every step leaves the timers that sleep in hand.                          *)
LEMMA TimerStep ==
  TypeOK /\ RunningAreScoped /\ TimersInHand /\ [Next]_vars => TimerInv'
<1> SUFFICES ASSUME TimerInv, visit \in Nat, [Next]_vars PROVE TimerInv'
  BY DEF TypeOK, TimerInv, TimerTypes
<1>1. CASE UNCHANGED <<timers, visit>>
  BY <1>1 DEF timers, TimerInv, TimerTypes, RunningAreScoped, TimersInHand
<1>2. ASSUME NEW f \in Effects, ApplyTimers(f, FALSE), UNCHANGED visit PROVE TimerInv'
  BY <1>2, AppliedInHand
<1>3. CASE EnterReturns \/ InitActions
  BY <1>2, <1>3 DEF EnterReturns, InitActions
<1>4. CASE CallbackReturns
  BY <1>4, AppliedInHand DEF CallbackReturns
<1>5. ASSUME NEW t \in Timers, TimerDue(t) PROVE TimerInv'
  BY <1>5 DEF TimerDue, TimerInv, TimerTypes, RunningAreScoped, TimersInHand
<1>6. ASSUME NEW t \in Timers, TimerFires(t) PROVE TimerInv'
  <2>1. /\ \A u \in Timers : task'[u] = IF u = t THEN "ended" ELSE task[u]
        /\ \A s \in Held : active'[s] = IF active[s] = t THEN NoTimer ELSE active[s]
        /\ UNCHANGED <<scope, setIn, visit>>
    BY <1>6 DEF TimerFires, TimerInv, TimerTypes
  <2>2. TimerTypes'
    BY <1>6, <2>1 DEF TimerFires, TimerInv, TimerTypes
  <2>3. RunningAreScoped'
    BY <1>6, <2>1 DEF TimerFires, TimerInv, RunningAreScoped
  <2>4. TimersInHand'
    BY <2>1 DEF TimerInv, RunningAreScoped, TimersInHand, Held
  <2> QED
    BY <2>2, <2>3, <2>4 DEF TimerInv
<1>7. CASE Ends
  <2>1. \A t \in Timers : task'[t] # "asleep" /\ (task'[t] # "none" => task[t] # "none")
    BY <1>7 DEF Ends
  <2>2. TimerTypes'
    BY <1>7 DEF Ends, TimerInv, TimerTypes
  <2> QED
    BY <1>7, <2>1, <2>2 DEF Ends, TimerInv, RunningAreScoped, TimersInHand
<1> QED
  BY <1>1, <1>3, <1>4, <1>5, <1>6, <1>7
  DEF Next, Step, AllOver, Arrives, StopArrives, Kill, TakeNext, TakeMessage, Resume,
      Begin, CallbackEnds, EndOfStream, Leaves, vars, queues

-----------------------------------------------------------------------------
(* The queues *)

QueueTypes ==
    /\ at \in {"idle", "handed", "callback", "terminating", "stopped"}
    /\ mailbox \in Seq(Item) /\ next \in Seq(Item) /\ postponed \in Seq(Item)
    /\ current \in Item
    /\ visit \in Nat /\ entered \in Nat /\ events \in 0..MaxEvents

(* Enter, Stop and the events that are still within the bound are items.     *)
LEMMA ItemsAreItems ==
  ASSUME events \in 0..MaxEvents
  PROVE  /\ Enter \in Item /\ Stop \in Item
         /\ \A t \in Timers \cup {NoTimer} : events < MaxEvents => Event(events + 1, t) \in Item
         /\ \A inject \in BOOLEAN :
              Counted(inject) => Injected(inject) \in Seq(Item) /\ events' \in 0..MaxEvents
<1>1. Enter \in Item /\ Stop \in Item
  BY DEF Enter, Stop, Item, NoTimer
<1>2. \A t \in Timers \cup {NoTimer} : events < MaxEvents => Event(events + 1, t) \in Item
  BY DEF Event, Item, NoTimer, Timers
<1>3. ASSUME NEW inject \in BOOLEAN, Counted(inject)
      PROVE  Injected(inject) \in Seq(Item) /\ events' \in 0..MaxEvents
  BY <1>2, <1>3 DEF Counted, Injected
<1> QED
  BY <1>1, <1>2, <1>3

(* Every step keeps the types of the queues.                                 *)
LEMMA QueueStep ==
  QueueTypes /\ [Next]_vars => QueueTypes'
<1> SUFFICES ASSUME QueueTypes, [Next]_vars PROVE QueueTypes'
  OBVIOUS
<1> USE DEF QueueTypes
<1>1. \A m \in Item : Put(m) =>
        /\ at' \in {at, "handed"} /\ mailbox' \in Seq(Item) /\ current' \in Item
        /\ UNCHANGED <<next, postponed>>
  <2> SUFFICES ASSUME NEW m \in Item, Put(m)
               PROVE  /\ at' \in {at, "handed"} /\ mailbox' \in Seq(Item) /\ current' \in Item
                      /\ UNCHANGED <<next, postponed>>
    OBVIOUS
  <2>1. Append(mailbox, m) \in Seq(Item)
    BY AppendProperties
  <2> HIDE DEF Item
  <2> QED
    BY <2>1 DEF Put
<1>2. CASE Arrives
  <2>1. Event(events + 1, NoTimer) \in Item /\ Put(Event(events + 1, NoTimer))
    BY <1>2, ItemsAreItems DEF Arrives
  <2> QED
    BY <1>1, <1>2, <2>1 DEF Arrives
<1>3. CASE StopArrives
  BY <1>1, <1>3, ItemsAreItems DEF StopArrives
<1>4. ASSUME NEW t \in Timers, TimerFires(t) PROVE QueueTypes'
  <2>1. CASE events < MaxEvents /\ Put(Event(events + 1, t)) /\ events' = events + 1
    <3>1. Event(events + 1, t) \in Item
      BY <2>1, ItemsAreItems
    <3> QED
      BY <1>1, <1>4, <2>1, <3>1 DEF TimerFires
  <2> QED
    BY <1>4, <2>1 DEF TimerFires, queues
<1>5. CASE TakeNext \/ TakeMessage \/ Resume
  <2>1. \A s \in Seq(Item) : s # <<>> => Head(s) \in Item /\ Tail(s) \in Seq(Item)
    BY HeadTailProperties
  <2> QED
    BY <1>5, <2>1 DEF TakeNext, TakeMessage, Resume, Begin
<1>6. ASSUME NEW inject \in BOOLEAN, Counted(inject), next' = next \o Injected(inject)
      PROVE  next' \in Seq(Item) /\ events' \in 0..MaxEvents
  BY <1>6, ItemsAreItems, ConcatProperties
<1>7. CASE EnterReturns \/ InitActions
  <2>1. /\ at' \in {"idle", at} /\ current' \in {Enter, current}
        /\ UNCHANGED <<mailbox, visit, entered>>
    BY <1>7 DEF EnterReturns, InitActions, HandledCurrent, status
  <2>2. next' \in Seq(Item) /\ events' \in 0..MaxEvents
    BY <1>6, <1>7 DEF EnterReturns, InitActions
  <2>3. postponed' \in Seq(Item)
    <3>1. postponed' = postponed \/ postponed' = Append(postponed, Enter)
      BY <1>7 DEF EnterReturns, InitActions
    <3>2. Append(postponed, Enter) \in Seq(Item)
      BY ItemsAreItems, AppendProperties
    <3> QED
      BY <3>1, <3>2
  <2> QED
    BY <2>1, <2>2, <2>3, ItemsAreItems
<1>8. CASE CallbackReturns
  <2>1. PICK change \in BOOLEAN, leave \in BOOLEAN, inject \in BOOLEAN :
          /\ Requeue(change, leave, inject) /\ Counted(inject)
          /\ visit' = IF change THEN visit + 1 ELSE visit
    BY <1>8 DEF CallbackReturns
  <2> DEFINE kept == IF leave THEN Append(postponed, current) ELSE postponed
  <2>2. kept \in Seq(Item)
    BY AppendProperties
  <2>3. /\ next' = (IF change THEN Replayed(kept) ELSE <<>>) \o next \o Injected(inject)
        /\ postponed' = IF change THEN <<>> ELSE kept
    BY <2>1 DEF Requeue
  <2> HIDE DEF kept
  <2>4. Replayed(kept) \in Seq(Item)
    BY <2>2, ItemsAreItems, ConcatProperties DEF Replayed
  <2>5. next' \in Seq(Item) /\ postponed' \in Seq(Item) /\ events' \in 0..MaxEvents
    BY <2>1, <2>2, <2>3, <2>4, ItemsAreItems, ConcatProperties
  <2> QED
    BY <1>8, <2>1, <2>5, ItemsAreItems DEF CallbackReturns, HandledCurrent
<1>9. CASE CallbackEnds \/ EndOfStream
  <2>1. Leaves
    BY <1>9 DEF CallbackEnds, EndOfStream
  <2>2. Enter \in Item /\ <<>> \in Seq(Item)
    BY ItemsAreItems
  <2> QED
    BY <2>1, <2>2 DEF Leaves
<1>10. CASE Ends
  BY <1>10 DEF Ends, queues
<1>11. ASSUME UNCHANGED <<at, queues, visit, entered>> PROVE QueueTypes'
  BY <1>11 DEF queues
<1> QED
  BY <1>2, <1>3, <1>4, <1>5, <1>7, <1>8, <1>9, <1>10, <1>11
  DEF Next, Step, AllOver, Kill, TimerDue, vars, status

-----------------------------------------------------------------------------
(* The entering of states                                                    *)

(* What is put behind a sequence does not change its first item.             *)
LEMMA SameFirst ==
  ASSUME NEW S, NEW s \in Seq(S), NEW r \in Seq(S), s # <<>>
  PROVE  s \o r # <<>> /\ Head(s \o r) = Head(s)
  BY ConcatProperties

(* A change puts the entering of the new state before all else there is to   *)
(* do, and nothing gets in between.                                          *)
LEMMA EnterStep ==
  QueueTypes /\ EnterNext /\ [Next]_vars => EnterNext'
<1> SUFFICES ASSUME QueueTypes, EnterNext, [Next]_vars, EnterMode, Alive', entered' # visit'
             PROVE  at' = "idle" /\ next' # <<>> /\ Head(next') = Enter
  BY DEF EnterNext
<1> USE DEF QueueTypes
<1>1. ASSUME UNCHANGED <<at, next, visit, entered>>
      PROVE  at' = "idle" /\ next' # <<>> /\ Head(next') = Enter
  BY <1>1 DEF EnterNext, Alive
<1>2. ASSUME NEW m, Put(m), UNCHANGED <<visit, entered>>
      PROVE  at' = "idle" /\ next' # <<>> /\ Head(next') = Enter
  BY <1>1, <1>2 DEF Put, Parked, EnterNext, Alive
<1>3. CASE Arrives \/ StopArrives
  BY <1>2, <1>3 DEF Arrives, StopArrives
<1>4. ASSUME NEW t \in Timers, TimerFires(t)
      PROVE  at' = "idle" /\ next' # <<>> /\ Head(next') = Enter
  BY <1>1, <1>2, <1>4 DEF TimerFires, queues
<1>5. CASE TakeNext \/ TakeMessage \/ Resume
  BY <1>5 DEF TakeNext, TakeMessage, Resume, Begin, Ready, EnterNext, Alive
<1>6. CASE EnterReturns
  BY <1>6 DEF EnterReturns, EnterNext, Alive
<1>7. CASE InitActions
  <2>1. entered # visit /\ Alive /\ UNCHANGED at
    BY <1>7 DEF InitActions, Alive, status
  <2>2. at = "idle" /\ next # <<>> /\ Head(next) = Enter
    BY <2>1 DEF EnterNext
  <2>3. PICK inject \in BOOLEAN : next' = next \o Injected(inject) /\ Counted(inject)
    BY <1>7 DEF InitActions
  <2>4. Injected(inject) \in Seq(Item)
    BY <2>3, ItemsAreItems
  <2> QED
    BY <2>1, <2>2, <2>3, <2>4, SameFirst
<1>8. CASE CallbackReturns
  <2>1. PICK change \in BOOLEAN, leave \in BOOLEAN, inject \in BOOLEAN :
          /\ Requeue(change, leave, inject) /\ Counted(inject)
          /\ visit' = IF change THEN visit + 1 ELSE visit
    BY <1>8 DEF CallbackReturns
  <2> DEFINE kept == IF leave THEN Append(postponed, current) ELSE postponed
  <2>2. at' = "idle" /\ entered' = entered /\ entered = visit
    BY <1>8 DEF CallbackReturns, HandledCurrent, EnterNext, Alive
  <2>3. change
    BY <2>1, <2>2
  <2>4. kept \in Seq(Item) /\ Injected(inject) \in Seq(Item) /\ Enter \in Item
    BY <2>1, AppendProperties, ItemsAreItems
  <2>5. next' = ((<<Enter>> \o kept) \o next) \o Injected(inject)
    BY <2>1, <2>3 DEF Requeue, Replayed
  <2> HIDE DEF kept
  <2>6. <<Enter>> \in Seq(Item) /\ <<Enter>> # <<>> /\ Head(<<Enter>>) = Enter
    BY <2>4
  <2> DEFINE a == <<Enter>> \o kept
             b == a \o next
  <2>7. a \in Seq(Item) /\ a # <<>> /\ Head(a) = Enter
    BY <2>4, <2>6, SameFirst, ConcatProperties
  <2> HIDE DEF a
  <2>8. b \in Seq(Item) /\ b # <<>> /\ Head(b) = Enter
    BY <2>7, SameFirst, ConcatProperties
  <2>9. next' = b \o Injected(inject)
    BY <2>5 DEF a
  <2> HIDE DEF b
  <2> QED
    BY <2>2, <2>4, <2>8, <2>9, SameFirst
<1>9. CASE CallbackEnds \/ EndOfStream \/ Ends
  BY <1>9 DEF CallbackEnds, EndOfStream, Leaves, Ends, Alive
<1> QED
  BY <1>1, <1>3, <1>4, <1>5, <1>6, <1>7, <1>8, <1>9
  DEF Next, Step, AllOver, Kill, TimerDue, vars, status, queues

-----------------------------------------------------------------------------
(* Every step keeps all of it.                                               *)
LEMMA InductiveInvariant == Spec => []IInv
<1>1. IInv /\ [Next]_vars => IInv'
  BY QueueStep, TimerStep, EnterStep
  DEF IInv, TypeOK, QueueTypes, TimerInv, TimerTypes
<1> QED
  BY InitIInv, <1>1, PTL DEF Spec

(* SPEC.md 5.1: no event is handled in a state before the enter callback of  *)
(* that state, whatever was postponed, injected or queued.                   *)
THEOREM EntersFirst == Spec => []EnterComesFirst
<1>1. IInv => EnterComesFirst
  BY DEF IInv, EnterNext, EnterComesFirst, Alive
<1> QED
  BY InductiveInvariant, <1>1, PTL

(* _state_timeout_scope and _named_timers hold the scope of every timer that *)
(* can still be cancelled, one for each name, and a state timeout that       *)
(* sleeps was set in the present state.                                      *)
THEOREM SleepersInHand == Spec => []TimersInHand
  BY InductiveInvariant, PTL DEF IInv

-----------------------------------------------------------------------------
(* Sequences, by induction on their length.                                  *)

(* A set of sequences that holds the empty one, and what becomes of each of  *)
(* its elements when an item is appended, holds all.                         *)
LEMMA AllSequences ==
  ASSUME NEW S, NEW P \in SUBSET Seq(S), <<>> \in P,
         \A s \in P, e \in S : Append(s, e) \in P
  PROVE  P = Seq(S)
<1> DEFINE Bad == {Len(s) : s \in Seq(S) \ P}
           R == OpToRel(<, Nat)
<1>1. SUFFICES ASSUME Seq(S) \ P # {} PROVE FALSE
  OBVIOUS
<1>2. Bad \in SUBSET Nat /\ Bad # {}
  <2>1. \A s \in Seq(S) : Len(s) \in Nat
    OBVIOUS
  <2>2. PICK s : s \in Seq(S) /\ s \notin P
    BY <1>1
  <2>3. Len(s) \in Bad
    BY <2>2
  <2> QED
    BY <2>1, <2>3
<1>3. \E n \in Bad : \A m \in Bad : ~ (<<m, n>> \in R)
  <2> HIDE DEF Bad, R
  <2> QED
    BY <1>2, NatLessThanWellFounded, WFMin DEF R
<1>4. \A m, n \in Nat : m < n => <<m, n>> \in R
  BY DEF OpToRel
<1>5. PICK s \in Seq(S) \ P : \A m \in Bad : ~ (<<m, Len(s)>> \in R)
  <2> HIDE DEF R
  <2> QED
    BY <1>3
<1>6. s # <<>>
  OBVIOUS
<1>7. PICK r \in Seq(S), e \in S : s = Append(r, e)
  BY <1>6, SequenceEmptyOrAppend
<1>8. r \notin P
  BY <1>7
<1>9. Len(r) \in Bad /\ Len(r) \in Nat /\ Len(s) \in Nat /\ Len(r) < Len(s)
  BY <1>7, <1>8, AppendProperties
<1> QED
  <2> HIDE DEF Bad, R
  <2> QED
    BY <1>4, <1>5, <1>9

(* g computes Nums for the first n of the items.                             *)
Numbers(g, items, n) ==
    g = [m \in 0..n |->
           IF m = 0 THEN <<>>
           ELSE IF items[m].type = "event" THEN Append(g[m - 1], items[m].num) ELSE g[m - 1]]

(* Such a function for a sequence is also one for a longer one, so far.      *)
LEMMA NumbersOfMore ==
  ASSUME NEW s \in Seq(Item), NEW e \in Item, NEW g, Numbers(g, s, Len(s))
  PROVE  LET top == IF e.type = "event" THEN Append(g[Len(s)], e.num) ELSE g[Len(s)]
         IN  Numbers([m \in 0 .. Len(s) + 1 |-> IF m = Len(s) + 1 THEN top ELSE g[m]],
                     Append(s, e), Len(s) + 1)
<1> DEFINE n == Len(s) + 1
           t == Append(s, e)
           top == IF e.type = "event" THEN Append(g[Len(s)], e.num) ELSE g[Len(s)]
           h == [m \in 0..n |-> IF m = n THEN top ELSE g[m]]
           hh == [m \in 0..n |->
                    IF m = 0 THEN <<>>
                    ELSE IF t[m].type = "event" THEN Append(h[m - 1], t[m].num) ELSE h[m - 1]]
<1>1. /\ Len(s) \in Nat /\ t[n] = e
      /\ \A m \in 1..Len(s) : t[m] = s[m]
  BY AppendProperties
<1>2. \A m \in 0..Len(s) :
        g[m] = IF m = 0 THEN <<>>
               ELSE IF s[m].type = "event" THEN Append(g[m - 1], s[m].num) ELSE g[m - 1]
  BY DEF Numbers
<1>3. ASSUME NEW m \in 0..n PROVE h[m] = hh[m]
  <2> HIDE DEF t
  <2>1. CASE m = n
    <3>1. m # 0 /\ m - 1 \in 0..n /\ m - 1 # n /\ m - 1 = Len(s)
      BY <1>1, <2>1
    <3>2. h[m - 1] = g[Len(s)]
      BY <3>1
    <3> QED
      BY <1>1, <2>1, <3>1, <3>2
  <2>2. CASE m # n
    <3>1. m \in 0..Len(s) /\ (m # 0 => m - 1 \in 0..n /\ m - 1 # n /\ m \in 1..Len(s))
      BY <1>1, <2>2
    <3>2. h[m] = g[m] /\ (m # 0 => h[m - 1] = g[m - 1])
      BY <2>2, <3>1
    <3> HIDE DEF h
    <3> QED
      BY <1>1, <1>2, <3>1, <3>2
  <2> QED
    BY <2>1, <2>2
<1>4. h = hh
  BY <1>3, Zenon
<1> QED
  BY <1>4 DEF Numbers

(* And one for a longer sequence is, so far, one for the shorter.            *)
LEMMA NumbersOfLess ==
  ASSUME NEW s \in Seq(Item), NEW e \in Item, NEW g, Numbers(g, Append(s, e), Len(s) + 1)
  PROVE  /\ Numbers([m \in 0..Len(s) |-> g[m]], s, Len(s))
         /\ g[Len(s) + 1] = IF e.type = "event" THEN Append(g[Len(s)], e.num) ELSE g[Len(s)]
<1> DEFINE n == Len(s) + 1
           t == Append(s, e)
           h == [m \in 0..Len(s) |-> g[m]]
           hh == [m \in 0..Len(s) |->
                    IF m = 0 THEN <<>>
                    ELSE IF s[m].type = "event" THEN Append(h[m - 1], s[m].num) ELSE h[m - 1]]
<1>1. /\ Len(s) \in Nat /\ t[n] = e
      /\ \A m \in 1..Len(s) : t[m] = s[m]
  BY AppendProperties
<1>2. \A m \in 0..n :
        g[m] = IF m = 0 THEN <<>>
               ELSE IF t[m].type = "event" THEN Append(g[m - 1], t[m].num) ELSE g[m - 1]
  BY DEF Numbers
<1> HIDE DEF t
<1>3. ASSUME NEW m \in 0..Len(s) PROVE h[m] = hh[m]
  <2>1. m \in 0..n /\ (m # 0 => m - 1 \in 0..Len(s) /\ m \in 1..Len(s))
    BY <1>1
  <2>2. h[m] = g[m] /\ (m # 0 => h[m - 1] = g[m - 1])
    BY <2>1
  <2> HIDE DEF h
  <2> QED
    BY <1>1, <1>2, <2>1, <2>2
<1>4. h = hh
  BY <1>3, Zenon
<1>5. n \in 0..n /\ n # 0 /\ n - 1 = Len(s)
  BY <1>1
<1>6. g[n] = IF e.type = "event" THEN Append(g[Len(s)], e.num) ELSE g[Len(s)]
  BY <1>1, <1>2, <1>5
<1> QED
  BY <1>4, <1>6 DEF Numbers

(* There is one for every sequence.                                          *)
LEMMA NumbersExist ==
  ASSUME NEW s \in Seq(Item) PROVE \E g : Numbers(g, s, Len(s))
<1> DEFINE P == {r \in Seq(Item) : \E g : Numbers(g, r, Len(r))}
<1>1. <<>> \in P
  <2> DEFINE g == [m \in 0..0 |-> <<>>]
  <2>1. g = [m \in 0..0 |->
              IF m = 0 THEN <<>>
              ELSE IF <<>>[m].type = "event" THEN Append(g[m - 1], <<>>[m].num) ELSE g[m - 1]]
    OBVIOUS
  <2>2. Len(<<>>) = 0 /\ <<>> \in Seq(Item)
    OBVIOUS
  <2>3. Numbers(g, <<>>, Len(<<>>))
    BY <2>1, <2>2 DEF Numbers
  <2> QED
    BY <2>2, <2>3
<1>2. ASSUME NEW r \in P, NEW e \in Item PROVE Append(r, e) \in P
  <2>1. PICK g : Numbers(g, r, Len(r))
    OBVIOUS
  <2>2. Append(r, e) \in Seq(Item) /\ Len(Append(r, e)) = Len(r) + 1
    BY AppendProperties
  <2>3. \E h : Numbers(h, Append(r, e), Len(r) + 1)
    BY <2>1, NumbersOfMore
  <2> QED
    BY <2>2, <2>3
<1>3. P = Seq(Item)
  <2> HIDE DEF P
  <2>1. P \in SUBSET Seq(Item)
    BY DEF P
  <2> QED
    BY <1>1, <1>2, <2>1, AllSequences
<1> QED
  BY <1>3

(* Two of them end in the same.                                              *)
LEMMA NumbersAgree ==
  ASSUME NEW s \in Seq(Item), NEW f, NEW g, Numbers(f, s, Len(s)), Numbers(g, s, Len(s))
  PROVE  f[Len(s)] = g[Len(s)]
<1> DEFINE Same(r) == \A d, h : Numbers(d, r, Len(r)) /\ Numbers(h, r, Len(r))
                                    => d[Len(r)] = h[Len(r)]
           P == {r \in Seq(Item) : Same(r)}
<1>1. <<>> \in P
  <2>1. Len(<<>>) = 0 /\ <<>> \in Seq(Item)
    OBVIOUS
  <2>2. ASSUME NEW d, Numbers(d, <<>>, 0) PROVE d[0] = <<>>
    BY <2>2 DEF Numbers
  <2> QED
    BY <2>1, <2>2
<1>2. ASSUME NEW r \in P, NEW e \in Item PROVE Append(r, e) \in P
  <2>1. Append(r, e) \in Seq(Item) /\ Len(Append(r, e)) = Len(r) + 1 /\ Len(r) \in Nat
    BY AppendProperties
  <2>2. ASSUME NEW d, NEW h, Numbers(d, Append(r, e), Len(r) + 1),
               Numbers(h, Append(r, e), Len(r) + 1)
        PROVE  d[Len(r) + 1] = h[Len(r) + 1]
    <3> DEFINE dd == [m \in 0..Len(r) |-> d[m]]
               hh == [m \in 0..Len(r) |-> h[m]]
    <3>1. /\ Numbers(dd, r, Len(r))
          /\ d[Len(r) + 1] = IF e.type = "event" THEN Append(d[Len(r)], e.num) ELSE d[Len(r)]
      BY <2>2, NumbersOfLess
    <3>2. /\ Numbers(hh, r, Len(r))
          /\ h[Len(r) + 1] = IF e.type = "event" THEN Append(h[Len(r)], e.num) ELSE h[Len(r)]
      BY <2>2, NumbersOfLess
    <3>3. dd[Len(r)] = d[Len(r)] /\ hh[Len(r)] = h[Len(r)]
      BY <2>1
    <3> HIDE DEF dd, hh
    <3>4. Same(r)
      OBVIOUS
    <3>5. dd[Len(r)] = hh[Len(r)]
      BY <3>1, <3>2, <3>4
    <3> QED
      BY <3>1, <3>2, <3>3, <3>5
  <2> QED
    BY <2>1, <2>2
<1>3. P = Seq(Item)
  <2> HIDE DEF P
  <2>1. P \in SUBSET Seq(Item)
    BY DEF P
  <2> QED
    BY <1>1, <1>2, <2>1, AllSequences
<1>4. s \in P
  BY <1>3
<1> QED
  BY <1>4

(* Nums is computed by one.                                                  *)
LEMMA NumsIs ==
  ASSUME NEW s \in Seq(Item)
  PROVE  \E g : Numbers(g, s, Len(s)) /\ Nums(s) = g[Len(s)]
<1> DEFINE g == CHOOSE f : Numbers(f, s, Len(s))
<1>1. Numbers(g, s, Len(s))
  BY NumbersExist
<1>2. Nums(s) = g[Len(s)]
  BY Zenon DEF Nums, Numbers
<1> QED
  BY <1>1, <1>2

(* An event adds its number, another item nothing.                           *)
LEMMA NumsOfMore ==
  /\ Nums(<<>>) = <<>>
  /\ \A s \in Seq(Item), e \in Item :
        Nums(Append(s, e)) = IF e.type = "event" THEN Append(Nums(s), e.num) ELSE Nums(s)
<1>1. Nums(<<>>) = <<>>
  <2>1. <<>> \in Seq(Item) /\ Len(<<>>) = 0
    OBVIOUS
  <2>2. PICK g : Numbers(g, <<>>, 0) /\ Nums(<<>>) = g[0]
    BY <2>1, NumsIs
  <2> QED
    BY <2>2 DEF Numbers
<1>2. ASSUME NEW s \in Seq(Item), NEW e \in Item
      PROVE  Nums(Append(s, e)) = IF e.type = "event" THEN Append(Nums(s), e.num) ELSE Nums(s)
  <2>1. Append(s, e) \in Seq(Item) /\ Len(Append(s, e)) = Len(s) + 1 /\ Len(s) \in Nat
    BY AppendProperties
  <2>2. PICK t : t = Append(s, e)
    OBVIOUS
  <2>3. PICK g : Numbers(g, t, Len(t)) /\ Nums(t) = g[Len(t)]
    BY <2>1, <2>2, NumsIs
  <2>4. PICK f : Numbers(f, s, Len(s)) /\ Nums(s) = f[Len(s)]
    BY NumsIs
  <2> DEFINE h == [m \in 0..Len(s) |-> g[m]]
  <2>5. /\ Numbers(h, s, Len(s))
        /\ g[Len(s) + 1] = IF e.type = "event" THEN Append(g[Len(s)], e.num) ELSE g[Len(s)]
    BY <2>1, <2>2, <2>3, NumbersOfLess
  <2>6. h[Len(s)] = g[Len(s)]
    BY <2>1
  <2> HIDE DEF h
  <2>7. f[Len(s)] = g[Len(s)]
    BY <2>4, <2>5, <2>6, NumbersAgree
  <2> QED
    BY <2>1, <2>2, <2>3, <2>4, <2>5, <2>7
<1> QED
  BY <1>1, <1>2

(* The numbers of items are numbers of events.                               *)
LEMMA NumsAreNums ==
  ASSUME NEW s \in Seq(Item) PROVE Nums(s) \in Seq(0..MaxEvents)
<1> DEFINE P == {r \in Seq(Item) : Nums(r) \in Seq(0..MaxEvents)}
<1>1. <<>> \in P
  <2>1. <<>> \in Seq(Item) /\ <<>> \in Seq(0..MaxEvents)
    BY EmptySeq
  <2> QED
    BY <2>1, NumsOfMore
<1>2. ASSUME NEW r \in P, NEW e \in Item PROVE Append(r, e) \in P
  <2>1. Append(r, e) \in Seq(Item)
    BY AppendProperties
  <2>2. PICK x, n : x = Nums(r) /\ n = e.num
    OBVIOUS
  <2>3. x \in Seq(0..MaxEvents) /\ n \in 0..MaxEvents
    BY <2>2 DEF Item
  <2>4. Append(x, n) \in Seq(0..MaxEvents)
    BY <2>3, AppendProperties
  <2>5. Nums(Append(r, e)) = Append(x, n) \/ Nums(Append(r, e)) = x
    BY <2>2, NumsOfMore
  <2>6. Nums(Append(r, e)) \in Seq(0..MaxEvents)
    BY <2>3, <2>4, <2>5
  <2> QED
    BY <2>1, <2>6
<1>3. P = Seq(Item)
  <2> HIDE DEF P
  <2>1. P \in SUBSET Seq(Item)
    BY DEF P
  <2> QED
    BY <1>1, <1>2, <2>1, AllSequences
<1> QED
  BY <1>3

(* A name for concatenation, and one for a sequence of one: the provers know *)
(* of them only what the next lemmas say.                                    *)
Cat(s, t) == s \o t
One(e) == <<e>>

(* They are sequences.                                                       *)
LEMMA CatTypes ==
  ASSUME NEW T
  PROVE  /\ \A s, t \in Seq(T) : Cat(s, t) \in Seq(T)
         /\ \A e \in T : One(e) \in Seq(T) /\ Len(One(e)) = 1
  BY ConcatProperties DEF Cat, One

(* The order of two concatenations does not matter.                          *)
LEMMA CatAssociative ==
  ASSUME NEW T, NEW s \in Seq(T), NEW t \in Seq(T), NEW u \in Seq(T)
  PROVE  Cat(Cat(s, t), u) = Cat(s, Cat(t, u))
<1>1. (s \o t) \o u = s \o (t \o u)
  BY ONLY ConcatAssociative
<1> QED
  BY <1>1 DEF Cat

(* The empty sequence adds nothing.                                          *)
LEMMA CatEmpty ==
  ASSUME NEW T, NEW s \in Seq(T) PROVE Cat(<<>>, s) = s /\ Cat(s, <<>>) = s
  BY ConcatEmptySeq DEF Cat

(* Lengths add up.                                                           *)
LEMMA CatLength ==
  ASSUME NEW T, NEW s \in Seq(T), NEW t \in Seq(T)
  PROVE  Len(Cat(s, t)) = Len(s) + Len(t) /\ Len(s) \in Nat /\ Len(t) \in Nat
  BY ConcatProperties DEF Cat

(* What is appended to the whole is appended to its last part.               *)
LEMMA PutLast ==
  ASSUME NEW T, NEW q \in Seq(T), NEW e \in T PROVE Append(q, e) = Cat(q, One(e))
  BY AppendIsConcat DEF Cat, One

(* Those of two sequences in a row are those of one, then those of the other.*)
LEMMA NumsOfBoth ==
  ASSUME NEW s \in Seq(Item), NEW t \in Seq(Item) PROVE Nums(Cat(s, t)) = Cat(Nums(s), Nums(t))
<1> DEFINE P == {r \in Seq(Item) : Nums(Cat(s, r)) = Cat(Nums(s), Nums(r))}
<1>0. PICK T : T = 0..MaxEvents
  OBVIOUS
<1>1. <<>> \in P
  <2>1. Nums(s) \in Seq(T) /\ <<>> \in Seq(Item)
    BY <1>0, NumsAreNums
  <2>2. Cat(Nums(s), <<>>) = Nums(s) /\ Cat(s, <<>>) = s
    BY <2>1, CatEmpty
  <2> QED
    BY <2>1, <2>2, NumsOfMore
<1>2. ASSUME NEW r \in P, NEW e \in Item PROVE Append(r, e) \in P
  <2>1. r \in Seq(Item) /\ Nums(Cat(s, r)) = Cat(Nums(s), Nums(r))
    OBVIOUS
  <2> HIDE DEF P
  <2>2. PICK q \in Seq(Item), o \in Seq(Item), z \in Seq(Item) :
          q = Cat(s, r) /\ o = One(e) /\ z = Append(r, e)
    BY <2>1, CatTypes, AppendProperties
  <2>3. PICK x \in Seq(T), y \in Seq(T), n \in T, i \in Seq(T) :
          x = Nums(s) /\ y = Nums(r) /\ n = e.num /\ i = One(e.num)
    <3>1. Nums(s) \in Seq(T) /\ Nums(r) \in Seq(T) /\ e.num \in T
      BY <1>0, <2>1, NumsAreNums DEF Item
    <3> QED
      BY <3>1, CatTypes
  <2>4. z = Cat(r, o) /\ Append(q, e) = Cat(q, o)
    BY <2>1, <2>2, PutLast
  <2>5. Cat(Cat(s, r), o) = Cat(s, Cat(r, o))
    BY ONLY <2>1, CatAssociative
  <2>6. Cat(s, z) = Append(q, e)
    BY <2>2, <2>4, <2>5
  <2>7. /\ Nums(Append(q, e)) = IF e.type = "event" THEN Append(Nums(q), n) ELSE Nums(q)
        /\ Nums(z) = IF e.type = "event" THEN Append(y, n) ELSE y
    BY <2>1, <2>2, <2>3, NumsOfMore
  <2>8. Append(Cat(x, y), n) = Cat(Cat(x, y), i) /\ Append(y, n) = Cat(y, i)
    <3>1. PICK w \in Seq(T) : w = Cat(x, y)
      BY CatTypes
    <3>2. Append(w, n) = Cat(w, One(n)) /\ Append(y, n) = Cat(y, One(n))
      BY PutLast
    <3> QED
      BY <2>3, <3>1, <3>2
  <2>9. Cat(Cat(x, y), i) = Cat(x, Cat(y, i))
    BY ONLY CatAssociative
  <2>10. Nums(q) = Cat(x, y)
    BY <2>1, <2>2, <2>3
  <2>11. Nums(Cat(s, z)) = Cat(Nums(s), Nums(z))
    <3>1. CASE e.type = "event"
      <4>1. Nums(Append(q, e)) = Append(Cat(x, y), n) /\ Nums(z) = Append(y, n)
        BY <2>7, <2>10, <3>1
      <4>2. Nums(Cat(s, z)) = Cat(Cat(x, y), i) /\ Nums(z) = Cat(y, i)
        BY <2>6, <2>8, <4>1
      <4> QED
        BY <2>3, <2>9, <4>2
    <3>2. CASE e.type # "event"
      BY <2>3, <2>6, <2>7, <2>10, <3>2
    <3> QED
      BY <3>1, <3>2
  <2> QED
    BY <2>2, <2>11 DEF P
<1>3. P = Seq(Item)
  <2> HIDE DEF P
  <2>1. P \in SUBSET Seq(Item)
    BY DEF P
  <2> QED
    BY <1>1, <1>2, <2>1, AllSequences
<1> QED
  BY <1>3

(* The number of an event on its own.                                        *)
LEMMA NumsOfOne ==
  ASSUME NEW e \in Item
  PROVE  /\ <<e>> \in Seq(Item) /\ <<e.num>> \in Seq(0..MaxEvents)
         /\ Nums(<<e>>) = IF e.type = "event" THEN <<e.num>> ELSE <<>>
<1>1. Append(<<>>, e) = <<e>> /\ Append(<<>>, e.num) = <<e.num>> /\ <<>> \in Seq(Item)
  OBVIOUS
<1>2. Nums(Append(<<>>, e)) = IF e.type = "event" THEN Append(Nums(<<>>), e.num) ELSE Nums(<<>>)
  BY <1>1, NumsOfMore
<1>3. e.num \in 0..MaxEvents
  BY DEF Item
<1> QED
  BY <1>1, <1>2, <1>3, NumsOfMore

(* A sequence in two parts can be cut between them.                          *)
LEMMA CutBetween ==
  ASSUME NEW S, NEW a \in Seq(S), NEW b \in Seq(S)
  PROVE  /\ SubSeq(a \o b, 1, Len(a)) = a
         /\ SubSeq(a \o b, Len(a) + 1, Len(a \o b)) = b
<1> DEFINE s == a \o b
<1>1. /\ s \in Seq(S) /\ Len(s) = Len(a) + Len(b) /\ Len(a) \in Nat /\ Len(b) \in Nat
      /\ \A i \in 1 .. Len(a) + Len(b) : s[i] = IF i <= Len(a) THEN a[i] ELSE b[i - Len(a)]
      /\ \A i \in 1..Len(s) : s[i] \in S
  BY ConcatProperties, ElementOfSeq
<1> HIDE DEF s
<1>2. /\ SubSeq(s, 1, Len(a)) \in Seq(S) /\ Len(SubSeq(s, 1, Len(a))) = Len(a)
      /\ \A i \in 1..Len(a) : SubSeq(s, 1, Len(a))[i] = a[i]
  <2>1. \A i \in 1..Len(a) : s[i] \in S
    BY <1>1
  <2>2. /\ SubSeq(s, 1, Len(a)) \in Seq(S)
        /\ Len(SubSeq(s, 1, Len(a))) = IF 1 <= Len(a) THEN Len(a) - 1 + 1 ELSE 0
        /\ \A i \in 1 .. Len(a) - 1 + 1 : SubSeq(s, 1, Len(a))[i] = s[1 + i - 1]
    BY <1>1, <2>1, SubSeqProperties
  <2> QED
    BY <1>1, <2>2
<1>3. SubSeq(s, 1, Len(a)) = a
  BY <1>2, SeqEqual
<1>4. /\ SubSeq(s, Len(a) + 1, Len(s)) \in Seq(S) /\ Len(SubSeq(s, Len(a) + 1, Len(s))) = Len(b)
      /\ \A i \in 1..Len(b) : SubSeq(s, Len(a) + 1, Len(s))[i] = b[i]
  <2>1. \A i \in Len(a) + 1 .. Len(s) : s[i] \in S
    BY <1>1
  <2>2. /\ SubSeq(s, Len(a) + 1, Len(s)) \in Seq(S)
        /\ Len(SubSeq(s, Len(a) + 1, Len(s)))
              = IF Len(a) + 1 <= Len(s) THEN Len(s) - (Len(a) + 1) + 1 ELSE 0
        /\ \A i \in 1 .. Len(s) - (Len(a) + 1) + 1 :
              SubSeq(s, Len(a) + 1, Len(s))[i] = s[Len(a) + 1 + i - 1]
    BY <1>1, <2>1, SubSeqProperties
  <2>3. Len(s) - (Len(a) + 1) + 1 = Len(b) /\ (Len(a) + 1 <= Len(s) <=> Len(b) # 0)
    BY <1>1
  <2>4. \A i \in 1..Len(b) : Len(a) + 1 + i - 1 = Len(a) + i /\ s[Len(a) + i] = b[i]
    BY <1>1
  <2>5. Len(SubSeq(s, Len(a) + 1, Len(s))) = Len(b)
    BY <2>2, <2>3
  <2>6. \A i \in 1..Len(b) : SubSeq(s, Len(a) + 1, Len(s))[i] = b[i]
    BY <2>2, <2>3, <2>4
  <2> QED
    BY <2>2, <2>5, <2>6
<1>5. SubSeq(s, Len(a) + 1, Len(s)) = b
  BY <1>4, SeqEqual
<1> QED
  BY <1>3, <1>5 DEF s

(* What is inserted between the two parts of a sequence.                     *)
LEMMA InsertBetween ==
  ASSUME NEW S, NEW a \in Seq(S), NEW b \in Seq(S), NEW e \in S
  PROVE  InsertAt(a \o b, Len(a) + 1, e) = (a \o <<e>>) \o b
<1>1. PICK s, i : s = a \o b /\ i = Len(a) + 1
  OBVIOUS
<1>2. InsertAt(s, i, e) = (SubSeq(s, 1, i - 1) \o <<e>>) \o SubSeq(s, i, Len(s))
  BY DEF InsertAt
<1>3. i - 1 = Len(a)
  BY <1>1
<1>4. SubSeq(s, 1, i - 1) = a /\ SubSeq(s, i, Len(s)) = b
  BY <1>1, <1>3, CutBetween
<1> QED
  BY <1>1, <1>2, <1>4

(* What is removed from between them.                                        *)
LEMMA RemoveBetween ==
  ASSUME NEW S, NEW a \in Seq(S), NEW b \in Seq(S), NEW x \in S
  PROVE  RemoveAt((a \o <<x>>) \o b, Len(a) + 1) = a \o b
<1> DEFINE s == (a \o <<x>>) \o b
<1>1. <<x>> \in Seq(S) /\ Len(<<x>>) = 1 /\ Len(a) \in Nat
  OBVIOUS
<1>2. PICK o \in Seq(S), c \in Seq(S), d \in Seq(S) : o = <<x>> /\ c = a \o o /\ d = o \o b
  BY <1>1, ConcatProperties
<1>3. Len(c) = Len(a) + 1 /\ s = c \o b /\ s = a \o d
  <2>1. Len(a \o o) = Len(a) + Len(o)
    BY ConcatProperties
  <2>2. Cat(Cat(a, o), b) = Cat(a, Cat(o, b))
    BY ONLY CatAssociative
  <2> QED
    BY <1>1, <1>2, <2>1, <2>2 DEF Cat
<1>4. SubSeq(s, 1, Len(a)) = a
  BY <1>3, CutBetween
<1>5. SubSeq(s, Len(c) + 1, Len(s)) = b
  BY <1>3, CutBetween
<1>6. PICK t, i : t = s /\ i = Len(a) + 1
  OBVIOUS
<1>7. i - 1 = Len(a) /\ i + 1 = Len(c) + 1
  BY <1>1, <1>3, <1>6
<1>8. RemoveAt(t, i) = SubSeq(t, 1, i - 1) \o SubSeq(t, i + 1, Len(t))
  BY DEF RemoveAt
<1>9. SubSeq(t, 1, i - 1) = a /\ SubSeq(t, i + 1, Len(t)) = b
  BY <1>4, <1>5, <1>6, <1>7
<1> QED
  BY <1>6, <1>8, <1>9

(* What is inserted before the last part.                                    *)
LEMMA PutBeforeLast ==
  ASSUME NEW T, NEW w \in Seq(T), NEW u \in Seq(T), NEW e \in T
  PROVE  InsertAt(Cat(w, u), Len(Cat(w, u)) - Len(u) + 1, e) = Cat(Cat(w, One(e)), u)
<1>1. PICK i, j : i = Len(Cat(w, u)) - Len(u) + 1 /\ j = Len(w) + 1
  OBVIOUS
<1>0. Len(Cat(w, u)) = Len(w) + Len(u) /\ Len(w) \in Nat /\ Len(u) \in Nat
  BY CatLength
<1>2. i = j
  BY <1>0, <1>1
<1>3. InsertAt(Cat(w, u), Len(w) + 1, e) = Cat(Cat(w, One(e)), u)
  BY InsertBetween DEF Cat, One
<1> QED
  BY <1>1, <1>2, <1>3

(* What is taken out between the first part and the last.                    *)
LEMMA TakeOut ==
  ASSUME NEW T, NEW l \in Seq(T), NEW r \in Seq(T), NEW x \in T
  PROVE  RemoveAt(Cat(Cat(l, One(x)), r), Len(l) + 1) = Cat(l, r)
  BY RemoveBetween DEF Cat, One

-----------------------------------------------------------------------------
(* The queues as one: what they are in EventQueue, by its four parts.        *)

Left   == Nums(postponed)
InHand == Nums(Taken)
Coming == Nums(next)
Unread == Nums(Unseen)

Whole == IF Alive THEN Nums(postponed \o Taken \o next \o Unseen) ELSE <<>>
Tried == IF Alive THEN Len(Nums(postponed)) ELSE 0
Fresh == IF Alive THEN Len(Unread) ELSE 0
Busy  == at = "callback" /\ current.type = "event"

(* A message is handed over when there is nothing else to do, and the mailbox*)
(* of a machine that has ended is closed.                                    *)
Fits ==
    /\ at = "handed" => next = <<>>
    /\ open => Alive

InParts ==
    /\ Left \in Seq(0..MaxEvents) /\ InHand \in Seq(0..MaxEvents)
    /\ Coming \in Seq(0..MaxEvents) /\ Unread \in Seq(0..MaxEvents)
    /\ Whole = IF Alive THEN Cat(Cat(Cat(Left, InHand), Coming), Unread) ELSE <<>>
    /\ Tried = IF Alive THEN Len(Left) ELSE 0
    /\ InHand = IF Busy THEN One(current.num) ELSE <<>>

(* The invariants of the machine, said of the four parts. *)
LEMMA QueueInParts == QueueTypes /\ Fits => InParts
<1> SUFFICES ASSUME QueueTypes, Fits PROVE InParts
  OBVIOUS
<1>1. /\ postponed \in Seq(Item) /\ next \in Seq(Item) /\ current \in Item
      /\ Taken \in Seq(Item) /\ Unseen \in Seq(Item)
  <2>1. <<current>> \in Seq(Item) /\ <<>> \in Seq(Item) /\ mailbox \in Seq(Item)
    BY DEF QueueTypes
  <2>2. <<current>> \o mailbox \in Seq(Item) /\ <<>> \o mailbox \in Seq(Item)
    BY <2>1, ConcatProperties
  <2> QED
    BY <2>1, <2>2 DEF QueueTypes, Taken, Unseen
<1>2. /\ Left \in Seq(0..MaxEvents) /\ InHand \in Seq(0..MaxEvents)
      /\ Coming \in Seq(0..MaxEvents) /\ Unread \in Seq(0..MaxEvents)
  BY <1>1, NumsAreNums DEF Left, InHand, Coming, Unread
<1>3. Whole = IF Alive THEN Cat(Cat(Cat(Left, InHand), Coming), Unread) ELSE <<>>
  <2>1. PICK a : a = postponed \o Taken
    OBVIOUS
  <2>2. PICK b : b = a \o next
    OBVIOUS
  <2>3. a \in Seq(Item) /\ b \in Seq(Item)
    BY <1>1, <2>1, <2>2, ConcatProperties
  <2>4. PICK c : c = b \o Unseen
    OBVIOUS
  <2>5. Nums(a) = Cat(Left, InHand)
    BY <1>1, <2>1, NumsOfBoth DEF Left, InHand, Cat
  <2>6. Nums(b) = Cat(Nums(a), Coming)
    BY <1>1, <2>2, <2>3, NumsOfBoth DEF Coming, Cat
  <2>7. Nums(c) = Cat(Nums(b), Unread)
    BY <1>1, <2>3, <2>4, NumsOfBoth DEF Unread, Cat
  <2>8. Whole = IF Alive THEN Nums(c) ELSE <<>>
    BY <2>1, <2>2, <2>4 DEF Whole
  <2> QED
    BY <2>5, <2>6, <2>7, <2>8
<1>4. Tried = IF Alive THEN Len(Left) ELSE 0
  BY DEF Tried, Left
<1>5. InHand = IF Busy THEN One(current.num) ELSE <<>>
  <2>1. CASE at = "callback"
    BY <1>1, <2>1, NumsOfOne DEF Taken, InHand, Busy, One
  <2>2. CASE at # "callback"
    BY <2>2, NumsOfMore DEF Taken, InHand, Busy
  <2> QED
    BY <2>1, <2>2
<1> QED
  BY <1>2, <1>3, <1>4, <1>5 DEF InParts

(* Every step keeps the queues in that shape.                                *)
LEMMA FitsStep == QueueTypes /\ Fits /\ [Next]_vars => Fits'
<1> SUFFICES ASSUME QueueTypes, Fits, [Next]_vars PROVE Fits'
  OBVIOUS
<1> USE DEF QueueTypes
<1>1. ASSUME UNCHANGED <<at, open, next, postponed>> PROVE Fits'
  BY <1>1 DEF Fits, Alive
<1>2. ASSUME NEW m, Put(m), UNCHANGED open PROVE Fits'
  BY <1>2 DEF Put, Parked, Fits, Alive
<1>3. CASE Arrives \/ StopArrives
  BY <1>2, <1>3 DEF Arrives, StopArrives
<1>4. ASSUME NEW t \in Timers, TimerFires(t) PROVE Fits'
  BY <1>1, <1>2, <1>4 DEF TimerFires, queues
<1>5. CASE Kill
  BY <1>5 DEF Kill, Fits, Alive, queues
<1>6. CASE TakeNext \/ TakeMessage \/ Resume
  BY <1>6 DEF TakeNext, TakeMessage, Resume, Begin, Ready, Fits, Alive
<1>7. CASE EnterReturns \/ InitActions
  BY <1>7 DEF EnterReturns, InitActions, HandledCurrent, status, Fits, Alive
<1>8. CASE CallbackReturns
  BY <1>8 DEF CallbackReturns, HandledCurrent, Fits, Alive
<1>9. CASE CallbackEnds \/ EndOfStream
  BY <1>9 DEF CallbackEnds, EndOfStream, Leaves, Fits, Alive
<1>10. CASE Ends
  BY <1>10 DEF Ends, queues, Fits, Alive
<1> QED
  BY <1>1, <1>3, <1>4, <1>5, <1>6, <1>7, <1>8, <1>9, <1>10
  DEF Next, Step, AllOver, TimerDue, vars, status, queues

-----------------------------------------------------------------------------
(* The steps of EventQueue, in these terms.                                  *)

(* What the abstract queue does not see. *)
LEMMA QueueStutters ==
  ASSUME UNCHANGED <<Whole, Tried, Fresh, Busy, Alive>> PROVE UNCHANGED Q!vars
  BY DEF Q!vars, Whole, Tried, Fresh, Busy, Unread

(* An event comes to the end of the mailbox. *)
LEMMA QueueArrives ==
  ASSUME NEW e \in 1..MaxEvents, Alive, Alive', UNCHANGED <<Tried, Busy>>,
         Whole' = Append(Whole, e), Fresh' = Fresh + 1
  PROVE  Q!Next
  BY DEF Q!Next, Q!Arrive, Whole, Tried, Fresh, Busy, Unread

(* The next untried event is taken in hand. *)
LEMMA QueueTakes ==
  ASSUME Alive, Alive', ~Busy, Busy', UNCHANGED <<Whole, Tried>>, Tried < Len(Whole),
         Fresh' = IF Tried = Len(Whole) - Fresh THEN Fresh - 1 ELSE Fresh
  PROVE  Q!Next
  BY DEF Q!Next, Q!Take, Q!Seen, Whole, Tried, Fresh, Busy, Unread

(* The abstract queue's copies of the library's operators are the library's. *)
LEMMA SameOperators ==
  \A s, i, e : Q!InsertAt(s, i, e) = InsertAt(s, i, e) /\ Q!RemoveAt(s, i) = RemoveAt(s, i)
  BY DEF Q!InsertAt, Q!RemoveAt, InsertAt, RemoveAt

(* Where an injected event goes, counted from the front. *)
LEMMA QueueWith ==
  ASSUME NEW e PROVE Q!With(e) = InsertAt(Whole, Len(Whole) - Fresh + 1, e)
  BY SameOperators DEF Q!With, Q!Seen, Whole, Fresh, Unread

(* An event is injected while none is in hand. *)
LEMMA QueueInjects ==
  ASSUME NEW e \in 1..MaxEvents, Alive, Alive', ~Busy, UNCHANGED <<Tried, Fresh, Busy>>,
         Whole' = Q!With(e)
  PROVE  Q!Next
  BY DEF Q!Next, Q!Inject, Whole, Tried, Fresh, Busy, Unread

(* The callback of the event in hand returns: its event goes or stays. *)
LEMMA QueueReturns ==
  ASSUME NEW leave \in BOOLEAN, NEW change \in BOOLEAN, NEW inject \in BOOLEAN,
         NEW e, inject => e \in 1..MaxEvents,
         Alive, Alive', Busy, ~Busy', UNCHANGED Fresh,
         LET with == IF inject THEN Q!With(e) ELSE Whole
         IN  Whole' = IF leave THEN with ELSE RemoveAt(with, Tried + 1),
         Tried' = IF change THEN 0 ELSE IF leave THEN Tried + 1 ELSE Tried
  PROVE  Q!Next
<1> DEFINE new == IF inject THEN <<e>> ELSE <<>>
<1>1. new \in {<<>>} \cup {<<d>> : d \in 1..MaxEvents}
  OBVIOUS
<1>2. (new = <<>> <=> ~inject) /\ (inject => new[1] = e)
  OBVIOUS
<1> HIDE DEF new
<1>3. Whole' = LET with == IF new = <<>> THEN Whole ELSE Q!With(new[1])
               IN  IF leave THEN with ELSE RemoveAt(with, Tried + 1)
  BY <1>2
<1>4. Q!Return
  BY <1>1, <1>3, SameOperators DEF Q!Return, Whole, Tried, Fresh, Busy, Unread
<1> QED
  BY <1>4 DEF Q!Next

(* The machine ends, and the queue with it. *)
LEMMA QueueEnds ==
  ASSUME Alive, ~Alive' PROVE Q!Next
<1>1. Whole' = <<>> /\ Tried' = 0 /\ Fresh' = 0 /\ ~Busy'
  BY DEF Whole, Tried, Fresh, Busy, Alive
<1> QED
  BY <1>1 DEF Q!Next, Q!End, Whole, Tried, Fresh, Busy, Unread

-----------------------------------------------------------------------------
(* What the steps do to the four parts.                                      *)

(* An item that is appended, or that is taken from the front.                *)
LEMMA NumsAppended ==
  ASSUME NEW s \in Seq(Item), NEW m \in Item
  PROVE  Nums(Append(s, m)) = IF m.type = "event" THEN Cat(Nums(s), One(m.num)) ELSE Nums(s)
<1>1. PICK T : T = 0..MaxEvents
  OBVIOUS
<1>2. Nums(s) \in Seq(T) /\ m.num \in T
  BY <1>1, NumsAreNums DEF Item
<1>3. Append(Nums(s), m.num) = Cat(Nums(s), One(m.num))
  BY <1>2, PutLast
<1> QED
  BY <1>3, NumsOfMore

(* The first item of a list, and the rest. *)
LEMMA NumsOfFirst ==
  ASSUME NEW s \in Seq(Item), s # <<>>
  PROVE  /\ Head(s) \in Item /\ Tail(s) \in Seq(Item)
         /\ Nums(s) = Cat(IF Head(s).type = "event" THEN One(Head(s).num) ELSE <<>>, Nums(Tail(s)))
<1>1. PICK h \in Item, t \in Seq(Item) : h = Head(s) /\ t = Tail(s)
  BY HeadTailProperties
<1>2. PICK o \in Seq(Item) : o = <<h>>
  BY NumsOfOne
<1>3. s = o \o t
  <2>1. Len(o) = 1 /\ o[1] = h
    BY <1>2
  <2>2. /\ o \o t \in Seq(Item) /\ Len(o \o t) = Len(o) + Len(t)
        /\ \A n \in 1 .. Len(o) + Len(t) :
             (o \o t)[n] = IF n <= Len(o) THEN o[n] ELSE t[n - Len(o)]
    BY ONLY ConcatProperties
  <2>3. Len(t) = Len(s) - 1 /\ Len(s) \in Nat /\ \A n \in 1..Len(t) : t[n] = s[n + 1]
    BY <1>1, HeadTailProperties
  <2>4. h = s[1]
    BY <1>1
  <2>5. \A n \in 1..Len(s) : s[n] = (o \o t)[n]
    BY <2>1, <2>2, <2>3, <2>4
  <2>6. Len(o \o t) = Len(s)
    BY <2>1, <2>2, <2>3
  <2>7. PICK r \in Seq(Item) : r = o \o t
    BY <2>2
  <2>8. Len(r) = Len(s) /\ \A n \in 1..Len(s) : s[n] = r[n]
    BY <2>5, <2>6, <2>7
  <2>9. s = r
    BY ONLY <2>8, SeqEqual
  <2> QED
    BY <2>7, <2>9
<1>4. Nums(s) = Cat(Nums(o), Nums(t))
  BY <1>3, NumsOfBoth DEF Cat
<1>5. Nums(o) = IF h.type = "event" THEN One(h.num) ELSE <<>>
  BY <1>2, NumsOfOne DEF One
<1> QED
  BY <1>1, <1>4, <1>5

(* A message that is put is the last of the unread ones.                     *)
LEMMA PutIsUnread ==
  ASSUME QueueTypes, Fits, NEW m \in Item, Put(m)
  PROVE  /\ Alive /\ Alive' /\ UNCHANGED <<Left, InHand, Coming, Busy>>
         /\ Unread' = IF m.type = "event" THEN Cat(Unread, One(m.num)) ELSE Unread
<1> USE DEF QueueTypes
<1>1. Alive /\ Alive'
  BY DEF Put, Fits, Alive, Parked
<1>2. UNCHANGED <<Left, InHand, Coming, Busy>>
  BY DEF Put, Parked, Left, InHand, Coming, Busy, Taken
<1>3. CASE Parked
  <2>1. Unseen = <<>> \o <<>> /\ Unseen' = <<m>> \o <<>>
    BY <1>3 DEF Put, Parked, Unseen
  <2>2. Unseen = <<>> /\ Unseen' = <<m>>
    BY <2>1
  <2>3. One(m.num) \in Seq(0..MaxEvents) /\ Cat(<<>>, One(m.num)) = One(m.num)
    BY NumsOfOne, CatEmpty DEF One
  <2>4. Unread = <<>> /\ Unread' = Nums(<<m>>)
    BY <2>2, NumsOfMore DEF Unread
  <2>5. Nums(<<m>>) = IF m.type = "event" THEN One(m.num) ELSE <<>>
    BY NumsOfOne DEF One
  <2> QED
    BY <1>1, <1>2, <2>3, <2>4, <2>5
<1>4. CASE ~Parked
  <2> DEFINE x == IF at = "handed" THEN <<current>> ELSE <<>>
  <2>0. mailbox' = Append(mailbox, m) /\ UNCHANGED <<current, at>>
    BY <1>4 DEF Put
  <2>1. x \in Seq(Item) /\ x' = x
    BY <2>0, NumsOfOne
  <2>8. Unseen = x \o mailbox /\ Unseen' = x' \o mailbox'
    BY DEF Unseen
  <2> HIDE DEF x
  <2>2. PICK r \in Seq(Item) : r = Append(mailbox, m)
    BY AppendProperties
  <2>3. Unread = Cat(Nums(x), Nums(mailbox)) /\ Unread' = Cat(Nums(x), Nums(r))
    <3>1. Unread = Nums(x \o mailbox) /\ Unread' = Nums(x \o r)
      BY <2>0, <2>1, <2>2, <2>8 DEF Unread
    <3> QED
      BY <2>1, <3>1, NumsOfBoth DEF Cat
  <2>4. Nums(r) = IF m.type = "event" THEN Cat(Nums(mailbox), One(m.num)) ELSE Nums(mailbox)
    BY <2>2, NumsAppended
  <2>5. PICK T : T = 0..MaxEvents
    OBVIOUS
  <2>6. Nums(x) \in Seq(T) /\ Nums(mailbox) \in Seq(T) /\ One(m.num) \in Seq(T)
    BY <2>1, <2>5, NumsAreNums, NumsOfOne DEF One
  <2>7. Cat(Cat(Nums(x), Nums(mailbox)), One(m.num)) = Cat(Nums(x), Cat(Nums(mailbox), One(m.num)))
    BY ONLY <2>6, CatAssociative
  <2> HIDE DEF Item
  <2>10. Unread' = IF m.type = "event" THEN Cat(Unread, One(m.num)) ELSE Unread
    <3>1. CASE m.type = "event"
      BY <2>3, <2>4, <2>7, <3>1
    <3>2. CASE m.type # "event"
      BY <2>3, <2>4, <3>2
    <3> QED
      BY <3>1, <3>2
  <2> QED
    BY <1>1, <1>2, <2>10
<1> QED
  BY <1>1, <1>2, <1>3, <1>4

-----------------------------------------------------------------------------
(* Each step in terms of the parts.                                          *)

(* The parts and what they are sequences of.                                 *)
LEMMA WholeParts ==
  ASSUME InParts, NEW T, T = 0..MaxEvents
  PROVE  /\ Left \in Seq(T) /\ InHand \in Seq(T) /\ Coming \in Seq(T) /\ Unread \in Seq(T)
         /\ Alive => Whole = Cat(Cat(Cat(Left, InHand), Coming), Unread)
         /\ Alive => Tried = Len(Left) /\ Fresh = Len(Unread)
         /\ ~Busy => InHand = <<>>
         /\ Busy => InHand = One(current.num)
  BY DEF InParts, Fresh

(* Nothing the abstract queue sees has changed. *)
LEMMA PartsStutter ==
  ASSUME InParts, InParts', UNCHANGED <<Left, InHand, Coming, Unread, Busy, Alive>>
  PROVE  UNCHANGED Q!vars
<1>1. UNCHANGED <<Whole, Tried, Fresh>>
  BY DEF InParts, Fresh
<1> QED
  BY <1>1, QueueStutters

(* An event more at the end of the unread part. *)
LEMMA PartsArrive ==
  ASSUME InParts, InParts', NEW e \in 1..MaxEvents, Alive, Alive',
         UNCHANGED <<Left, InHand, Coming, Busy>>, Unread' = Cat(Unread, One(e))
  PROVE  Q!Next
<1>1. PICK T : T = 0..MaxEvents
  OBVIOUS
<1>2. /\ Left \in Seq(T) /\ InHand \in Seq(T) /\ Coming \in Seq(T) /\ Unread \in Seq(T)
      /\ One(e) \in Seq(T) /\ e \in T /\ Len(One(e)) = 1
  BY <1>1, WholeParts, CatTypes
<1>3. PICK w \in Seq(T) : w = Cat(Cat(Left, InHand), Coming)
  BY <1>2, CatTypes
<1>4. Whole = Cat(w, Unread) /\ Whole' = Cat(w, Cat(Unread, One(e)))
  BY <1>3 DEF InParts
<1>5. PICK q \in Seq(T) : q = Whole
  BY <1>2, <1>4, CatTypes
<1>6. Append(q, e) = Cat(q, One(e))
  BY <1>2, PutLast
<1>7. Cat(Cat(w, Unread), One(e)) = Cat(w, Cat(Unread, One(e)))
  BY ONLY <1>2, CatAssociative
<1>8. Whole' = Append(Whole, e)
  BY <1>4, <1>5, <1>6, <1>7
<1>9. Len(Cat(Unread, One(e))) = Len(Unread) + 1
  BY <1>2, CatLength
<1>10. Fresh' = Fresh + 1 /\ UNCHANGED <<Tried, Busy>>
  BY <1>9 DEF Fresh, InParts
<1> QED
  BY <1>8, <1>10, QueueArrives

(* The first event that comes, or else the first unread one, is in hand. *)
LEMMA PartsTake ==
  ASSUME InParts, InParts', NEW e \in 0..MaxEvents, Alive, Alive', ~Busy, Busy',
         UNCHANGED Left, InHand' = One(e),
         \/ Coming = Cat(One(e), Coming') /\ UNCHANGED Unread
         \/ Coming = <<>> /\ Coming' = <<>> /\ Unread = Cat(One(e), Unread')
  PROVE  Q!Next
<1>1. PICK T : T = 0..MaxEvents
  OBVIOUS
<1>2. /\ Left \in Seq(T) /\ Coming \in Seq(T) /\ Unread \in Seq(T)
      /\ Coming' \in Seq(T) /\ Unread' \in Seq(T)
      /\ One(e) \in Seq(T) /\ Len(One(e)) = 1 /\ InHand = <<>>
  BY <1>1, CatTypes DEF InParts
<1>3. Cat(Left, InHand) = Left
  BY <1>2, CatEmpty
<1>4. Whole = Cat(Cat(Left, Coming), Unread)
      /\ Whole' = Cat(Cat(Cat(Left, One(e)), Coming'), Unread')
      /\ Tried = Len(Left) /\ Tried' = Len(Left) /\ Fresh = Len(Unread) /\ Fresh' = Len(Unread')
  BY <1>3 DEF InParts, Fresh
<1>5. PICK l \in Seq(T), o \in Seq(T), c \in Seq(T), d \in Seq(T), u \in Seq(T), v \in Seq(T) :
        l = Left /\ o = One(e) /\ c = Coming /\ d = Coming' /\ u = Unread /\ v = Unread'
  BY <1>2
<1>6. Len(Whole) = Len(l) + Len(c) + Len(u)
      /\ Len(l) \in Nat /\ Len(c) \in Nat /\ Len(u) \in Nat /\ Len(d) \in Nat /\ Len(v) \in Nat
  <2>1. PICK w \in Seq(T) : w = Cat(l, c)
    BY CatTypes
  <2>2. /\ Len(w) = Len(l) + Len(c) /\ Len(l) \in Nat /\ Len(c) \in Nat
        /\ Len(Cat(w, u)) = Len(w) + Len(u) /\ Len(u) \in Nat /\ Len(w) \in Nat
    BY <2>1, CatLength
  <2>3. Len(d) \in Nat /\ Len(v) \in Nat
    OBVIOUS
  <2>4. Whole = Cat(w, u)
    BY <1>4, <1>5, <2>1
  <2> QED
    BY <2>2, <2>3, <2>4
<1>9. /\ Len(Cat(o, d)) = Len(d) + 1
      /\ Len(Cat(o, v)) = Len(v) + 1
  <2>1. Len(Cat(o, d)) = Len(o) + Len(d) /\ Len(Cat(o, v)) = Len(o) + Len(v)
    BY CatLength
  <2> QED
    BY <1>2, <1>5, <1>6, <2>1
<1>7. CASE Coming = Cat(One(e), Coming') /\ UNCHANGED Unread
  <2>1. Cat(Cat(l, o), d) = Cat(l, Cat(o, d))
    BY ONLY CatAssociative
  <2>2. Whole' = Whole
    BY <1>4, <1>5, <1>7, <2>1
  <2>3. Len(c) = Len(d) + 1
    BY <1>5, <1>7, <1>9
  <2>4. Tried < Len(Whole) /\ Tried # Len(Whole) - Fresh /\ Fresh' = Fresh /\ Tried' = Tried
    BY <1>4, <1>5, <1>6, <1>7, <2>3
  <2> QED
    BY <2>2, <2>4, QueueTakes
<1>8. CASE Coming = <<>> /\ Coming' = <<>> /\ Unread = Cat(One(e), Unread')
  <2>1. Cat(l, c) = l /\ Cat(Cat(l, o), d) = Cat(l, o) /\ Len(c) = 0
    BY <1>5, <1>8, CatEmpty, CatTypes
  <2>2. Cat(Cat(l, o), v) = Cat(l, Cat(o, v))
    BY ONLY CatAssociative
  <2>3. Whole' = Whole
    BY <1>4, <1>5, <1>8, <2>1, <2>2
  <2>4. Len(u) = Len(v) + 1
    BY <1>5, <1>8, <1>9
  <2>5. Tried < Len(Whole) /\ Tried = Len(Whole) - Fresh /\ Fresh' = Fresh - 1 /\ Tried' = Tried
    BY <1>4, <1>5, <1>6, <2>1, <2>4
  <2> QED
    BY <2>3, <2>5, QueueTakes
<1> QED
  BY <1>7, <1>8

(* What is injected comes before the unread part.                            *)
LEMMA WithIs ==
  ASSUME InParts, Alive, NEW e \in 1..MaxEvents
  PROVE  Q!With(e) = Cat(Cat(Cat(Left, InHand), Cat(Coming, One(e))), Unread)
<1>1. PICK T : T = 0..MaxEvents
  OBVIOUS
<1>2. /\ Left \in Seq(T) /\ InHand \in Seq(T) /\ Coming \in Seq(T) /\ Unread \in Seq(T)
      /\ One(e) \in Seq(T) /\ e \in T
  BY <1>1, WholeParts, CatTypes
<1>3. PICK a \in Seq(T), c \in Seq(T), u \in Seq(T), o \in Seq(T) :
        a = Cat(Left, InHand) /\ c = Coming /\ u = Unread /\ o = One(e)
  BY <1>2, CatTypes
<1>4. PICK w \in Seq(T) : w = Cat(a, c)
  BY CatTypes
<1>5. Whole = Cat(w, u) /\ Fresh = Len(u)
  BY <1>3, <1>4 DEF InParts, Fresh
<1>6. InsertAt(Cat(w, u), Len(Cat(w, u)) - Len(u) + 1, e) = Cat(Cat(w, One(e)), u)
  BY <1>2, PutBeforeLast
<1>7. Q!With(e) = Cat(Cat(w, o), u)
  BY <1>3, <1>5, <1>6, QueueWith
<1>8. Cat(Cat(a, c), o) = Cat(a, Cat(c, o))
  BY ONLY CatAssociative
<1> QED
  BY <1>3, <1>4, <1>7, <1>8

(* An event more at the end of those that come next. *)
LEMMA PartsInject ==
  ASSUME InParts, InParts', NEW e \in 1..MaxEvents, Alive, Alive', ~Busy, ~Busy',
         UNCHANGED <<Left, InHand, Unread>>, Coming' = Cat(Coming, One(e))
  PROVE  Q!Next
<1>1. Whole' = Q!With(e)
  BY WithIs DEF InParts
<1>2. UNCHANGED <<Tried, Fresh>>
  BY DEF InParts, Fresh
<1>3. UNCHANGED Busy
  BY DEF Busy
<1> QED
  BY <1>1, <1>2, <1>3, QueueInjects

(* The event in hand goes or is left, and those left come again when the state changes. *)
LEMMA PartsReturn ==
  ASSUME InParts, InParts', NEW leave \in BOOLEAN, NEW change \in BOOLEAN, NEW inject \in BOOLEAN,
         NEW e, inject => e \in 1..MaxEvents, Alive, Alive', Busy, ~Busy', UNCHANGED Unread,
         LET kept == IF leave THEN Cat(Left, InHand) ELSE Left
             new  == IF inject THEN One(e) ELSE <<>>
         IN  /\ Left' = IF change THEN <<>> ELSE kept
             /\ Coming' = Cat(IF change THEN Cat(kept, Coming) ELSE Coming, new)
  PROVE  Q!Next
<1>1. PICK T : T = 0..MaxEvents
  OBVIOUS
<1>2. /\ Left \in Seq(T) /\ InHand \in Seq(T) /\ Coming \in Seq(T) /\ Unread \in Seq(T)
      /\ <<>> \in Seq(T) /\ InHand' = <<>> /\ Len(<<>>) = 0
      /\ inject => One(e) \in Seq(T)
  <2>1. <<>> \in Seq(T) /\ Len(<<>>) = 0 /\ (inject => e \in T)
    BY <1>1
  <2> QED
    BY <1>1, <2>1, CatTypes DEF InParts
<1>3. PICK l \in Seq(T), h \in Seq(T), c \in Seq(T), u \in Seq(T), i \in Seq(T) :
        /\ l = Left /\ h = InHand /\ c = Coming /\ u = Unread
        /\ i = IF inject THEN One(e) ELSE <<>>
  BY <1>2
<1>4. PICK k \in Seq(T), n \in Seq(T), lh \in Seq(T) :
        lh = Cat(l, h) /\ k = (IF leave THEN lh ELSE l) /\ n = Cat(c, i)
  BY CatTypes
<1>5. PICK with : with = IF inject THEN Q!With(e) ELSE Whole
  OBVIOUS
<1>6. with = Cat(Cat(lh, n), u)
  <2>1. CASE inject
    BY <1>3, <1>4, <1>5, <2>1, WithIs
  <2>2. CASE ~inject
    <3>1. n = c
      BY <1>3, <1>4, <2>2, CatEmpty
    <3> QED
      BY <1>3, <1>4, <1>5, <2>2, <3>1 DEF InParts
  <2> QED
    BY <2>1, <2>2
<1>7. Whole' = Cat(Cat(k, n), u)
  <2>1. Whole' = Cat(Cat(Cat(Left', <<>>), Coming'), u)
    BY <1>2, <1>3 DEF InParts
  <2>2. CASE change
    <3>1. Left' = <<>> /\ Coming' = Cat(Cat(k, c), i)
      BY <1>3, <1>4, <2>2
    <3>2. Cat(Cat(k, c), i) = Cat(k, Cat(c, i))
      BY ONLY CatAssociative
    <3>3. PICK m \in Seq(T) : m = Cat(k, n)
      BY CatTypes
    <3>4. Cat(<<>>, <<>>) = <<>> /\ Cat(<<>>, m) = m
      BY <1>2, CatEmpty
    <3> QED
      BY <1>4, <2>1, <3>1, <3>2, <3>3, <3>4
  <2>3. CASE ~change
    <3>1. Left' = k /\ Coming' = n
      BY <1>3, <1>4, <2>3
    <3>2. Cat(k, <<>>) = k
      BY CatEmpty
    <3> QED
      BY <2>1, <3>1, <3>2
  <2> QED
    BY <2>2, <2>3
<1>8. Whole' = IF leave THEN with ELSE RemoveAt(with, Tried + 1)
  <2>1. CASE leave
    BY <1>4, <1>6, <1>7, <2>1
  <2>2. CASE ~leave
    <3>1. PICK x \in T : h = One(x)
      BY <1>1, <1>3 DEF InParts, Busy, One
    <3>2. PICK r \in Seq(T) : r = Cat(n, u)
      BY CatTypes
    <3>3. RemoveAt(Cat(Cat(l, One(x)), r), Len(l) + 1) = Cat(l, r)
      BY TakeOut
    <3>4. Cat(Cat(lh, n), u) = Cat(lh, Cat(n, u)) /\ Cat(Cat(l, n), u) = Cat(l, Cat(n, u))
      BY ONLY CatAssociative
    <3>5. Tried = Len(l)
      BY <1>3 DEF InParts
    <3>6. with = Cat(Cat(l, One(x)), r)
      BY <1>4, <1>6, <3>1, <3>2, <3>4
    <3>7. Whole' = Cat(l, r)
      BY <1>4, <1>7, <2>2, <3>2, <3>4
    <3> QED
      BY <2>2, <3>3, <3>5, <3>6, <3>7
  <2> QED
    BY <2>1, <2>2
<1>9. Tried' = IF change THEN 0 ELSE IF leave THEN Tried + 1 ELSE Tried
  <2>1. Tried' = (IF change THEN 0 ELSE Len(k)) /\ Tried = Len(l)
    BY <1>2, <1>3, <1>4 DEF InParts
  <2>2. Len(lh) = Len(l) + Len(h)
    BY <1>4, CatLength
  <2>3. Len(h) = 1
    BY <1>3 DEF InParts, One
  <2> QED
    BY <1>4, <2>1, <2>2, <2>3
<1>10. UNCHANGED Fresh
  BY DEF Fresh
<1> QED
  BY <1>5, <1>8, <1>9, <1>10, QueueReturns

(* What init, or a callback that enters a state, injects.                    *)
LEMMA InjectedLast ==
  ASSUME next \in Seq(Item), events \in 0..MaxEvents, NEW inject \in BOOLEAN, Counted(inject),
         NEW s \in Seq(Item), next' = s \o Injected(inject)
  PROVE  /\ inject => events + 1 \in 1..MaxEvents
         /\ Coming' = Cat(Nums(s), IF inject THEN One(events + 1) ELSE <<>>)
<1>1. inject => events + 1 \in 1..MaxEvents
  BY DEF Counted
<1>2. PICK j \in Seq(Item) : j = Injected(inject)
  BY ItemsAreItems
<1>3. Coming' = Cat(Nums(s), Nums(j))
  BY <1>2, NumsOfBoth DEF Coming, Cat
<1>4. Nums(j) = IF inject THEN One(events + 1) ELSE <<>>
  <2>1. CASE inject
    <3>1. PICK m \in Item : m = Event(events + 1, NoTimer)
      BY <1>1, <2>1, ItemsAreItems
    <3>2. j = <<m>> /\ m.type = "event" /\ m.num = events + 1
      BY <1>2, <2>1, <3>1 DEF Injected, Event
    <3> QED
      BY <2>1, <3>2, NumsOfOne DEF One
  <2>2. CASE ~inject
    BY <1>2, <2>2, NumsOfMore DEF Injected
  <2> QED
    BY <2>1, <2>2
<1> QED
  BY <1>1, <1>3, <1>4

(* A callback that had no event in hand returns. *)
LEMMA InjectStep ==
  ASSUME QueueTypes, InParts, InParts', Alive, Alive', ~Busy, ~Busy', NEW inject \in BOOLEAN,
         Counted(inject), next' = next \o Injected(inject), UNCHANGED <<Left, Unread>>
  PROVE  [Q!Next]_(Q!vars)
<1>1. /\ inject => events + 1 \in 1..MaxEvents
      /\ Coming' = Cat(Coming, IF inject THEN One(events + 1) ELSE <<>>)
  BY InjectedLast DEF QueueTypes, Coming
<1>2. InHand = <<>> /\ InHand' = <<>>
  BY DEF InParts
<1>3. CASE inject
  BY <1>1, <1>2, <1>3, PartsInject
<1>4. CASE ~inject
  <2>1. Coming' = Coming
    BY <1>1, <1>4, CatEmpty DEF InParts
  <2>2. UNCHANGED <<Busy, Alive>>
    BY DEF Busy, Alive
  <2> QED
    BY <1>2, <2>1, <2>2, PartsStutter
<1> QED
  BY <1>3, <1>4

(* The machine begins with an item: an event is taken from the queue, the    *)
(* entering of a state or a Stop was never in it.                            *)
LEMMA TakeStep ==
  ASSUME QueueTypes, Fits, InParts, InParts', TakeNext \/ TakeMessage \/ Resume
  PROVE  [Q!Next]_(Q!vars)
<1> USE DEF QueueTypes
<1>1. Alive /\ Alive' /\ ~Busy /\ at' = "callback" /\ UNCHANGED Left
  BY DEF TakeNext, TakeMessage, Resume, Begin, Ready, Alive, Busy, Left
<1>2. InHand = <<>> /\ (Busy' => InHand' = One(current'.num)) /\ (~Busy' => InHand' = <<>>)
  BY <1>1 DEF InParts
<1>3. current' \in Item /\ (Busy' <=> current'.type = "event")
  <2>1. \A s \in Seq(Item) : s # <<>> => Head(s) \in Item
    BY HeadTailProperties
  <2> QED
    BY <1>1, <2>1 DEF TakeNext, TakeMessage, Resume, Begin, Busy
<1> DEFINE one == IF current'.type = "event" THEN One(current'.num) ELSE <<>>
<1>4. \/ Coming = Cat(one, Coming') /\ UNCHANGED Unread
      \/ Coming = <<>> /\ Coming' = <<>> /\ Unread = Cat(one, Unread')
  <2>1. CASE TakeNext
    <3>1. next # <<>> /\ next' = Tail(next) /\ current' = Head(next) /\ UNCHANGED mailbox
      BY <2>1 DEF TakeNext, Begin
    <3>2. Coming = Cat(one, Coming')
      BY <3>1, NumsOfFirst DEF Coming
    <3>3. UNCHANGED Unread
      BY <1>1, <2>1, <3>1 DEF Unread, Unseen, TakeNext, Ready
    <3> QED
      BY <3>2, <3>3
  <2>2. CASE TakeMessage
    <3>1. /\ at = "idle" /\ mailbox # <<>> /\ mailbox' = Tail(mailbox)
          /\ current' = Head(mailbox) /\ next = <<>> /\ next' = <<>>
      BY <2>2 DEF TakeMessage, Ready, Begin
    <3>2. Unseen = <<>> \o mailbox /\ Unseen' = <<>> \o mailbox'
      BY <1>1, <3>1 DEF Unseen
    <3>3. mailbox' \in Seq(Item) /\ Tail(mailbox) \in Seq(Item)
      BY <3>1, NumsOfFirst
    <3>4. Unseen = mailbox /\ Unseen' = mailbox'
      BY <3>2, <3>3, ConcatEmptySeq
    <3>5. Unread = Cat(one, Unread')
      BY <3>1, <3>4, NumsOfFirst DEF Unread
    <3> QED
      BY <3>1, <3>5, NumsOfMore DEF Coming
  <2>3. CASE Resume
    <3>1. at = "handed" /\ current' = current /\ UNCHANGED mailbox /\ next = <<>> /\ next' = <<>>
      BY <2>3 DEF Resume, Begin, Fits
    <3>2. Unseen = <<current>> \o mailbox /\ Unseen' = <<>> \o mailbox
      BY <1>1, <3>1 DEF Unseen
    <3>3. PICK o \in Seq(Item) : o = <<current>>
      BY NumsOfOne
    <3>4. Unread = Cat(Nums(o), Nums(mailbox)) /\ Unread' = Nums(mailbox)
      <4>1. Unseen = o \o mailbox /\ Unseen' = mailbox
        BY <3>2, <3>3, ConcatEmptySeq
      <4> QED
        BY <4>1, NumsOfBoth DEF Unread, Cat
    <3>5. Nums(o) = one
      BY <3>1, <3>3, NumsOfOne DEF One
    <3> QED
      BY <3>1, <3>4, <3>5, NumsOfMore DEF Coming
  <2> QED
    BY <2>1, <2>2, <2>3
<1>5. CASE current'.type = "event"
  <2>1. PICK e \in 0..MaxEvents : e = current'.num
    BY <1>3 DEF Item
  <2> QED
    BY <1>1, <1>2, <1>3, <1>4, <1>5, <2>1, PartsTake
<1>6. CASE current'.type # "event"
  <2>1. UNCHANGED <<Coming, Unread>>
    BY <1>4, <1>6, CatEmpty DEF InParts
  <2>2. UNCHANGED <<InHand, Busy, Alive>>
    BY <1>1, <1>2, <1>3, <1>6 DEF Busy, Alive
  <2> QED
    BY <1>1, <2>1, <2>2, PartsStutter
<1> QED
  BY <1>5, <1>6

(* A callback returns: its event is kept or goes, and a change puts what was *)
(* kept before what is coming.                                               *)
LEMMA ReturnStep ==
  ASSUME QueueTypes, Fits, InParts, InParts', CallbackReturns
  PROVE  [Q!Next]_(Q!vars)
<1> USE DEF QueueTypes
<1>1. PICK change \in BOOLEAN, leave \in BOOLEAN, inject \in BOOLEAN :
        Requeue(change, leave, inject) /\ Counted(inject)
  BY DEF CallbackReturns
<1>2. /\ Alive /\ Alive' /\ Busy /\ ~Busy' /\ current.type = "event"
      /\ at = "callback" /\ at' = "idle" /\ UNCHANGED mailbox
  BY DEF CallbackReturns, HandledCurrent, Alive, Busy
<1>3. UNCHANGED Unread
  BY <1>2 DEF Unread, Unseen
<1>4. PICK kept \in Seq(Item) : kept = IF leave THEN Append(postponed, current) ELSE postponed
  BY AppendProperties
<1>5. Nums(kept) = IF leave THEN Cat(Left, InHand) ELSE Left
  BY <1>2, <1>4, NumsAppended DEF Left, InParts
<1>6. /\ next' = (IF change THEN Replayed(kept) ELSE <<>>) \o next \o Injected(inject)
      /\ postponed' = IF change THEN <<>> ELSE kept
  BY <1>1, <1>4 DEF Requeue
<1>7. Left' = IF change THEN <<>> ELSE Nums(kept)
  BY <1>6, NumsOfMore DEF Left
<1>8. PICK r \in Seq(Item) : /\ r = (IF change THEN Replayed(kept) ELSE <<>>) \o next
                             /\ Nums(r) = IF change THEN Cat(Nums(kept), Coming) ELSE Coming
  <2>1. CASE change
    <3>1. PICK f \in Seq(Item) : f = (IF EnterMode THEN <<Enter>> ELSE <<>>) /\ Nums(f) = <<>>
      <4>1. PICK m \in Item : m = Enter /\ m.type # "event"
        BY ItemsAreItems DEF Enter
      <4>2. PICK o \in Seq(Item) : o = <<m>> /\ Nums(o) = <<>>
        BY <4>1, NumsOfOne
      <4>3. <<>> \in Seq(Item) /\ Nums(<<>>) = <<>>
        BY NumsOfMore
      <4> QED
        BY <4>1, <4>2, <4>3
    <3>2. PICK g \in Seq(Item) : g = f \o kept
      BY ConcatProperties
    <3>3. g = Replayed(kept)
      BY <3>1, <3>2 DEF Replayed
    <3>4. PICK r \in Seq(Item) : r = g \o next
      BY ConcatProperties
    <3>5. Nums(g) = Cat(<<>>, Nums(kept)) /\ Nums(r) = Cat(Nums(g), Coming)
      <4>1. Nums(g) = Cat(Nums(f), Nums(kept))
        BY <3>2, NumsOfBoth DEF Cat
      <4>2. Nums(r) = Cat(Nums(g), Coming)
        BY <3>4, NumsOfBoth DEF Cat, Coming
      <4> QED
        BY <3>1, <4>1, <4>2
    <3>6. Cat(<<>>, Nums(kept)) = Nums(kept)
      BY NumsAreNums, CatEmpty
    <3>7. Nums(r) = Cat(Nums(kept), Coming)
      BY <3>5, <3>6
    <3> QED
      BY <2>1, <3>3, <3>4, <3>7
  <2>2. CASE ~change
    <3>1. next = <<>> \o next
      BY ConcatEmptySeq
    <3> QED
      BY <2>2, <3>1 DEF Coming
  <2> QED
    BY <2>1, <2>2
<1>9. next' = r \o Injected(inject)
  BY <1>6, <1>8
<1>10. /\ inject => events + 1 \in 1..MaxEvents
       /\ Coming' = Cat(Nums(r), IF inject THEN One(events + 1) ELSE <<>>)
  BY <1>1, <1>9, InjectedLast
<1>11. PICK e : e = events + 1
  OBVIOUS
<1>12. LET k   == IF leave THEN Cat(Left, InHand) ELSE Left
           new == IF inject THEN One(e) ELSE <<>>
       IN  /\ Left' = IF change THEN <<>> ELSE k
           /\ Coming' = Cat(IF change THEN Cat(k, Coming) ELSE Coming, new)
  BY <1>5, <1>7, <1>8, <1>10, <1>11
<1>13. inject => e \in 1..MaxEvents
  BY <1>10, <1>11
<1> QED
  BY <1>2, <1>3, <1>12, <1>13, PartsReturn

(* Every step is one of EventQueue, or none there.                           *)
LEMMA Simulates == QueueTypes /\ Fits /\ [Next]_vars => [Q!Next]_(Q!vars)
<1> SUFFICES ASSUME QueueTypes, Fits, [Next]_vars PROVE [Q!Next]_(Q!vars)
  OBVIOUS
<1>1. QueueTypes' /\ Fits'
  BY QueueStep, FitsStep
<1>2. InParts /\ InParts'
  BY <1>1, QueueInParts, PTL
<1>3. ASSUME UNCHANGED <<at, mailbox, current, next, postponed>> PROVE [Q!Next]_(Q!vars)
  <2>1. UNCHANGED <<Left, InHand, Coming, Unread, Busy, Alive>>
    BY <1>3 DEF Left, InHand, Coming, Unread, Busy, Alive, Taken, Unseen
  <2> QED
    BY <1>2, <2>1, PartsStutter
<1>4. ASSUME NEW m \in Item, Put(m), m.type = "event" => m.num \in 1..MaxEvents
      PROVE  [Q!Next]_(Q!vars)
  <2>1. /\ Alive /\ Alive' /\ UNCHANGED <<Left, InHand, Coming, Busy>>
        /\ Unread' = IF m.type = "event" THEN Cat(Unread, One(m.num)) ELSE Unread
    BY <1>4, PutIsUnread
  <2>2. CASE m.type = "event" /\ m.num \in 1..MaxEvents
    BY <1>2, <2>1, <2>2, PartsArrive
  <2>3. CASE m.type # "event"
    <3>1. UNCHANGED <<Unread, Alive>>
      BY <2>1, <2>3 DEF Alive
    <3> QED
      BY <1>2, <2>1, <3>1, PartsStutter
  <2> QED
    BY <1>4, <2>2, <2>3
<1>5. ASSUME NEW t \in Timers \cup {NoTimer}, events < MaxEvents, Put(Event(events + 1, t))
      PROVE  [Q!Next]_(Q!vars)
  <2>1. PICK m \in Item : m = Event(events + 1, t)
    BY <1>5, ItemsAreItems DEF QueueTypes
  <2>2. m.type = "event" /\ m.num = events + 1 /\ events + 1 \in 1..MaxEvents
    BY <1>5, <2>1 DEF Event, QueueTypes
  <2> QED
    BY <1>4, <1>5, <2>1, <2>2
<1>6. CASE Arrives
  BY <1>5, <1>6 DEF Arrives
<1>7. CASE StopArrives
  <2>1. Stop \in Item /\ Stop.type # "event"
    BY ItemsAreItems DEF Stop, QueueTypes
  <2> QED
    BY <1>4, <1>7, <2>1 DEF StopArrives
<1>8. ASSUME NEW t \in Timers, TimerFires(t) PROVE [Q!Next]_(Q!vars)
  BY <1>3, <1>5, <1>8 DEF TimerFires, queues
<1>9. CASE TakeNext \/ TakeMessage \/ Resume
  BY <1>2, <1>9, TakeStep
<1>10. CASE EnterReturns \/ InitActions
  <2>1. PICK inject \in BOOLEAN : Counted(inject) /\ next' = next \o Injected(inject)
    BY <1>10 DEF EnterReturns, InitActions
  <2>2. /\ Alive /\ Alive' /\ ~Busy /\ ~Busy' /\ UNCHANGED mailbox
        /\ at # "handed" /\ at' # "handed"
    <3>1. CASE EnterReturns
      BY <3>1 DEF EnterReturns, HandledCurrent, Alive, Busy, Enter
    <3>2. CASE InitActions
      BY <3>2 DEF InitActions, status, Alive, Busy
    <3> QED
      BY <1>10, <3>1, <3>2
  <2>3. UNCHANGED Left
    <3>1. Enter \in Item /\ Enter.type # "event"
      BY ItemsAreItems DEF Enter, QueueTypes
    <3>2. postponed' = postponed \/ postponed' = Append(postponed, Enter)
      BY <1>10 DEF EnterReturns, InitActions
    <3> QED
      BY <3>1, <3>2, NumsAppended DEF Left, QueueTypes
  <2>4. UNCHANGED Unread
    BY <2>2 DEF Unread, Unseen
  <2> QED
    BY <1>2, <2>1, <2>2, <2>3, <2>4, InjectStep
<1>11. CASE CallbackReturns
  BY <1>2, <1>11, ReturnStep
<1>12. CASE CallbackEnds \/ EndOfStream
  <2>1. Alive /\ ~Alive'
    BY <1>12 DEF CallbackEnds, EndOfStream, Leaves, Ready, Alive
  <2> QED
    BY <2>1, QueueEnds
<1>13. CASE Ends
  <2>1. /\ ~Alive /\ ~Alive' /\ ~Busy /\ ~Busy'
    BY <1>13 DEF Ends, Alive, Busy
  <2>2. UNCHANGED <<Whole, Tried, Fresh, Busy, Alive>>
    BY <2>1 DEF Whole, Tried, Fresh, Busy, Alive
  <2> QED
    BY <2>2, QueueStutters
<1> QED
  BY <1>3, <1>6, <1>7, <1>8, <1>9, <1>10, <1>11, <1>12, <1>13
  DEF Next, Step, AllOver, Kill, TimerDue, vars, status, queues

(* SPEC.md 5.3, 5.4, 5.6: the mailbox, _next_events, _postponed and the      *)
(* event in hand implement one queue of events.                              *)
THEOREM QueuesAreOne == Spec => ImplementsQueue
<1>1. Init => QueueTypes /\ Fits
  <2>1. Init => QueueTypes
    BY InitIInv DEF IInv, TypeOK, QueueTypes
  <2>2. Init => Fits
    BY DEF Init, Fits, Alive
  <2> QED
    BY <2>1, <2>2
<1>2. QueueTypes /\ Fits /\ [Next]_vars => QueueTypes' /\ Fits'
  BY QueueStep, FitsStep
<1>3. Init => Q!Init
  <2> SUFFICES ASSUME Init PROVE Q!Init
    OBVIOUS
  <2>1. Alive /\ ~Busy
    BY DEF Init, Alive, Busy, Enter
  <2>2. Unseen = <<>> \o <<>>
    BY DEF Init, Unseen
  <2>3. Left = <<>> /\ Coming = <<>> /\ Unread = <<>>
    BY <2>2, NumsOfMore DEF Init, Left, Coming, Unread
  <2>4. Whole = Cat(Cat(Cat(<<>>, <<>>), <<>>), <<>>)
    BY <1>1, <2>1, <2>3, QueueInParts DEF InParts
  <2>5. Cat(<<>>, <<>>) = <<>>
    BY DEF Cat
  <2>6. Whole = <<>> /\ Fresh = 0 /\ Tried = 0
    BY <2>3, <2>4, <2>5 DEF Fresh, Tried, Left
  <2> QED
    BY <2>1, <2>6 DEF Q!Init, Whole, Tried, Fresh, Busy, Unread
<1> QED
  BY <1>1, <1>2, <1>3, Simulates, PTL DEF Spec, ImplementsQueue, Q!Spec
=============================================================================
