--------------------------- MODULE GenEvent_proofs ---------------------------
(***************************************************************************)
(* Proofs about GenEvent, for any handlers and any number of requests.     *)
(***************************************************************************)
EXTENDS GenEvent, TLAPS, SequenceTheorems

USE GenEventAssumption

-----------------------------------------------------------------------------
(* Sequences without repetitions                                             *)

(* A member is one that is found.                                            *)
LEMMA ContainsIsIn ==
  ASSUME NEW S, NEW s \in Seq(S), NEW e
  PROVE  Contains(s, e) <=> e \in ToSet(s)
  BY DEF Contains, ToSet

(* What Append adds.                                                         *)
LEMMA AppendAdds ==
  ASSUME NEW S, NEW s \in Seq(S), NEW e \in S
  PROVE  /\ Append(s, e) \in Seq(S)
         /\ ToSet(Append(s, e)) = ToSet(s) \cup {e}
         /\ IsInjective(s) /\ e \notin ToSet(s) => IsInjective(Append(s, e))
<1> DEFINE a == Append(s, e)
<1>1. /\ a \in Seq(S) /\ DOMAIN a = 1 .. Len(s) + 1 /\ DOMAIN s = 1 .. Len(s)
      /\ Len(s) \in Nat
      /\ \A i \in 1 .. Len(s) : a[i] = s[i]
      /\ a[Len(s) + 1] = e
  BY AppendProperties
<1> HIDE DEF a
<1>2. ToSet(a) = ToSet(s) \cup {e}
  BY <1>1 DEF ToSet
<1>3. ASSUME IsInjective(s), e \notin ToSet(s) PROVE IsInjective(a)
  BY <1>1, <1>3 DEF ToSet, IsInjective
<1> QED
  BY <1>1, <1>2, <1>3 DEF a

(* What Tail leaves.                                                         *)
LEMMA TailLeaves ==
  ASSUME NEW S, NEW s \in Seq(S), s # <<>>
  PROVE  /\ Tail(s) \in Seq(S) /\ Head(s) \in S
         /\ ToSet(s) = ToSet(Tail(s)) \cup {Head(s)}
         /\ IsInjective(s) => IsInjective(Tail(s)) /\ Head(s) \notin ToSet(Tail(s))
<1> DEFINE t == Tail(s)
<1>1. /\ t \in Seq(S) /\ Head(s) \in S /\ Head(s) = s[1] /\ Len(s) \in Nat \ {0}
      /\ DOMAIN t = 1 .. Len(s) - 1 /\ DOMAIN s = 1 .. Len(s)
      /\ \A i \in 1 .. Len(s) - 1 : t[i] = s[i + 1]
  BY HeadTailProperties
<1> HIDE DEF t
<1>2. ToSet(s) = ToSet(t) \cup {Head(s)}
  <2>1. \A i \in DOMAIN s : i = 1 \/ (i - 1 \in DOMAIN t /\ t[i - 1] = s[i])
    BY <1>1
  <2>2. \A i \in DOMAIN t : i + 1 \in DOMAIN s /\ t[i] = s[i + 1]
    BY <1>1
  <2>3. 1 \in DOMAIN s
    BY <1>1
  <2>4. ToSet(s) \subseteq ToSet(t) \cup {Head(s)}
    BY <1>1, <2>1 DEF ToSet
  <2>5. ToSet(t) \cup {Head(s)} \subseteq ToSet(s)
    BY <1>1, <2>2, <2>3 DEF ToSet
  <2> QED
    BY <2>4, <2>5
<1>3. ASSUME IsInjective(s) PROVE IsInjective(t) /\ Head(s) \notin ToSet(t)
  <2>1. \A i, j \in 1 .. Len(s) - 1 :
          /\ i + 1 \in DOMAIN s /\ j + 1 \in DOMAIN s /\ 1 \in DOMAIN s
          /\ (i + 1 = j + 1 => i = j) /\ i + 1 # 1
    BY <1>1
  <2>2. IsInjective(t)
    <3> SUFFICES ASSUME NEW i \in DOMAIN t, NEW j \in DOMAIN t, t[i] = t[j] PROVE i = j
      BY DEF IsInjective
    <3>1. s[i + 1] = s[j + 1] /\ i + 1 \in DOMAIN s /\ j + 1 \in DOMAIN s
      BY <1>1, <2>1
    <3>2. i + 1 = j + 1
      BY <1>3, <3>1 DEF IsInjective
    <3> QED
      BY <1>1, <2>1, <3>2
  <2>3. Head(s) \notin ToSet(t)
    BY <1>1, <1>3, <2>1 DEF ToSet, IsInjective
  <2> QED
    BY <2>2, <2>3
<1> QED
  BY <1>1, <1>2, <1>3 DEF t

(* What list.remove leaves of a sequence without repetitions.                *)
LEMMA RemoveFirstLeaves ==
  ASSUME NEW S, NEW s \in Seq(S), NEW e \in ToSet(s), IsInjective(s)
  PROVE  /\ RemoveFirst(s, e) \in Seq(S)
         /\ ToSet(RemoveFirst(s, e)) = ToSet(s) \ {e}
         /\ IsInjective(RemoveFirst(s, e))
<1>1. PICK k \in 1 .. Len(s) : s[k] = e
  BY DEF ToSet
<1>2. \A i \in 1 .. Len(s) : s[i] = e <=> i = k
  BY <1>1 DEF IsInjective
<1>3. SelectInSeq(s, LAMBDA v : v = e) = k
  <2>1. {i \in 1 .. Len(s) : s[i] = e} = {k}
    BY <1>2
  <2>2. Min({k}) = k
    BY DEF Min
  <2> QED
    BY <2>1, <2>2 DEF SelectInSeq
<1> DEFINE r == RemoveFirst(s, e)
<1>4. r = SubSeq(s, 1, k - 1) \o SubSeq(s, k + 1, Len(s))
  BY <1>1, <1>3 DEF RemoveFirst, RemoveAt
<1>5. /\ r \in Seq(S) /\ DOMAIN r = 1 .. Len(s) - 1 /\ DOMAIN s = 1 .. Len(s)
      /\ \A i \in 1 .. Len(s) - 1 : r[i] = IF i < k THEN s[i] ELSE s[i + 1]
  <2> DEFINE a == SubSeq(s, 1, k - 1)
             b == SubSeq(s, k + 1, Len(s))
  <2>1. /\ a \in Seq(S) /\ Len(a) = k - 1 /\ Len(s) \in Nat
        /\ \A i \in 1 .. k - 1 : a[i] = s[i]
    BY SubSeqProperties
  <2>2. /\ b \in Seq(S) /\ Len(b) = Len(s) - k
        /\ \A i \in 1 .. Len(s) - k : b[i] = s[k + i]
    BY SubSeqProperties
  <2> HIDE DEF a, b
  <2>3. /\ a \o b \in Seq(S) /\ Len(a \o b) = Len(s) - 1
        /\ \A i \in 1 .. Len(s) - 1 :
             (a \o b)[i] = IF i < k THEN a[i] ELSE b[i - (k - 1)]
    <3>1. /\ a \o b \in Seq(S) /\ Len(a \o b) = Len(a) + Len(b)
          /\ \A i \in 1 .. Len(a) + Len(b) :
               (a \o b)[i] = IF i <= Len(a) THEN a[i] ELSE b[i - Len(a)]
      BY <2>1, <2>2, ConcatProperties
    <3>2. k \in Nat /\ Len(a) = k - 1 /\ Len(b) = Len(s) - k
      BY <2>1, <2>2
    <3>3. Len(a) + Len(b) = Len(s) - 1
      BY <2>1, <3>2
    <3>4. \A i \in 1 .. Len(s) - 1 : i <= Len(a) <=> i < k
      BY <2>1, <3>2
    <3> QED
      BY <3>1, <3>2, <3>3, <3>4
  <2>4. \A i \in 1 .. Len(s) - 1 : (a \o b)[i] = IF i < k THEN s[i] ELSE s[i + 1]
    <3> TAKE i \in 1 .. Len(s) - 1
    <3>1. CASE i < k
      BY <2>1, <2>3, <3>1
    <3>2. CASE ~(i < k)
      <4>1. i - (k - 1) \in 1 .. Len(s) - k /\ k + (i - (k - 1)) = i + 1
        BY <2>1, <3>2
      <4> QED
        BY <2>2, <2>3, <3>2, <4>1
    <3> QED
      BY <3>1, <3>2
  <2>5. r = a \o b
    BY <1>4 DEF a, b
  <2> HIDE DEF r
  <2>6. DOMAIN r = 1 .. Len(s) - 1
    BY <2>3, <2>5
  <2>7. DOMAIN s = 1 .. Len(s)
    OBVIOUS
  <2> QED
    BY <2>3, <2>4, <2>5, <2>6, <2>7
<1> HIDE DEF r
<1>6. ToSet(r) = ToSet(s) \ {e}
  <2>1. \A i \in DOMAIN s : i # k => \E j \in DOMAIN r : r[j] = s[i]
    <3> TAKE i \in DOMAIN s
    <3>1. CASE i < k
      BY <1>5, <3>1
    <3>2. CASE i > k
      <4>1. i - 1 \in DOMAIN r /\ r[i - 1] = s[i]
        BY <1>5, <3>2
      <4> QED
        BY <4>1
    <3> QED
      BY <1>5, <3>1, <3>2
  <2>2. \A j \in DOMAIN r : \E i \in DOMAIN s : i # k /\ r[j] = s[i]
    BY <1>5
  <2>3. ToSet(s) \ {e} \subseteq ToSet(r)
    BY <1>1, <2>1 DEF ToSet
  <2>4. ToSet(r) \subseteq ToSet(s) \ {e}
    BY <1>2, <1>5, <2>2 DEF ToSet
  <2> QED
    BY <2>3, <2>4
<1>7. IsInjective(r)
  <2> SUFFICES ASSUME NEW i \in DOMAIN r, NEW j \in DOMAIN r, r[i] = r[j] PROVE i = j
    BY DEF IsInjective
  <2>1. \A h \in DOMAIN r : h \in DOMAIN s /\ h + 1 \in DOMAIN s /\ h \in Nat
    BY <1>5
  <2> QED
    BY <1>5, <2>1 DEF IsInjective
<1> QED
  BY <1>5, <1>6, <1>7 DEF r

-----------------------------------------------------------------------------
(* The inductive invariant *)

Points   == {"idle", "dispatch", "event", "call", "init", "terminate", "closing", "ended"}
Brings   == {"add", "swap"}
Requests == [type : {"add", "swap", "delete", "call", "notify", "stop", "shutdown"},
             handler : Handlers \cup {None}, new : Handlers \cup {None}]

TypeOK ==
    /\ at \in Points
    /\ who \in Handlers \cup {None} /\ new \in Handlers \cup {None}
    /\ event \in Nat /\ events \in Nat
    /\ left \in Seq(Handlers) /\ handlers \in Seq(Handlers)
    /\ queue \in Seq(Requests)
    /\ open \in BOOLEAN /\ polite \in BOOLEAN
    /\ requests \in Nat /\ used \subseteq Handlers
    /\ since \in [Handlers -> Nat]
    /\ seen \in [Handlers -> Seq(Nat)]
    /\ lives \in [Handlers -> Int]

(* What the manager has at each point: a handler at its callbacks, which is  *)
(* in the table at those for events and calls, an event while it dispatches  *)
(* one, and handlers left only then and while it closes.                     *)
InPlace ==
    /\ at \in {"init", "event", "call", "terminate"} => who \in Handlers
    /\ at \in {"event", "call"} => Installed(who)
    /\ at # "terminate" => new = None
    /\ event # 0 => event = events
    /\ at \in {"idle", "call", "closing", "ended"} => event = 0
    /\ at \in {"dispatch", "event"} => event # 0
    /\ polite => at \in {"closing", "terminate", "ended"} /\ event = 0 /\ new = None
    /\ at = "closing" => polite
    /\ event = 0 /\ (polite => at = "ended") => left = <<>>

(* No handler is twice in the table or in the loop over a copy of it.        *)
NoneTwice == IsInjective(handlers) /\ IsInjective(left)

(* The handler that comes next.                                              *)
Coming == IF at = "init" THEN who ELSE new

(* Every handler there is has been named by a request or a swap, and one     *)
(* that a request brings has been named.                                     *)
AllNamed ==
    /\ ToSet(handlers) \subseteq used /\ ToSet(left) \subseteq used
    /\ Coming \in used \cup {None}
    /\ \A i \in DOMAIN queue : queue[i].type \in Brings => queue[i].new \in used

(* The handler that comes, or that a queued swap brings, is nowhere else     *)
(* before: not in the table, and in no earlier request.                      *)
NewToAll(h) == h \notin ToSet(handlers) /\ h \notin ToSet(left)
ComesOnce ==
    /\ NewToAll(Coming)
    /\ \A i \in DOMAIN queue : queue[i].type = "swap" =>
         /\ NewToAll(queue[i].new) /\ queue[i].new # Coming
         /\ \A j \in 1 .. i - 1 : queue[j].type \in Brings => queue[j].new # queue[i].new

(* The handlers that live are those in the table, or once the manager closes *)
(* those that are left.                                                      *)
Living == IF polite THEN ToSet(left) ELSE ToSet(handlers)
OnlyTheseLive == \A h \in Handlers : lives[h] = IF h \in Living THEN 1 ELSE 0

(* A handler was installed before the event that it is still to get.         *)
SinceBefore ==
    \A h \in ToSet(handlers) : since[h] <= events /\ (Pending(h) => since[h] < events)

Shape == TypeOK /\ InPlace /\ NoneTwice /\ AllNamed /\ ComesOnce
IInv  == Shape /\ OnlyTheseLive /\ SinceBefore /\ EveryEventOnce

(* The manager starts idle, with an empty table and an empty mailbox.        *)
LEMMA InitIInv == Init => IInv
<1> SUFFICES ASSUME Init PROVE IInv
  OBVIOUS
<1>1. ToSet(<<>>) = {} /\ IsInjective(<<>>)
  BY DEF ToSet, IsInjective
<1>2. TypeOK /\ InPlace
  <2>1. <<>> \in Seq(Handlers) /\ <<>> \in Seq(Requests) /\ <<>> \in Seq(Nat)
    OBVIOUS
  <2>2. /\ [h \in Handlers |-> 0] \in [Handlers -> Nat]
        /\ [h \in Handlers |-> 0] \in [Handlers -> Int]
        /\ [h \in Handlers |-> <<>>] \in [Handlers -> Seq(Nat)]
    BY <2>1
  <2>4. TypeOK
    BY <2>1, <2>2 DEF Init, TypeOK, Points
  <2>3. InPlace
    BY DEF Init, InPlace
  <2> QED
    BY <2>3, <2>4
<1>3. NoneTwice /\ AllNamed /\ ComesOnce
  BY <1>1 DEF Init, NoneTwice, AllNamed, ComesOnce, NewToAll, Coming
<1>4. OnlyTheseLive /\ SinceBefore /\ EveryEventOnce
  BY <1>1 DEF Init, OnlyTheseLive, Living, SinceBefore, EveryEventOnce
<1> QED
  BY <1>2, <1>3, <1>4 DEF IInv, Shape

-----------------------------------------------------------------------------
(* The parts of the actions                                                  *)

(* Reading a request.                                                        *)
LEMMA HeadRequest ==
  ASSUME TypeOK, queue # <<>>
  PROVE  /\ Head(queue) = queue[1] /\ 1 \in DOMAIN queue /\ Head(queue) \in Requests
         /\ Tail(queue) \in Seq(Requests)
         /\ \A i \in DOMAIN Tail(queue) : /\ i \in Nat \ {0} /\ i + 1 \in DOMAIN queue
                                          /\ Tail(queue)[i] = queue[i + 1]
  BY HeadTailProperties DEF TypeOK

(* Where the manager goes back to after a callback.                          *)
LEMMA BackIs ==
  ASSUME InPlace
  PROVE  /\ Back \in {"closing", "dispatch", "idle"}
         /\ Back = "closing" <=> polite
         /\ Back = "dispatch" => event # 0
         /\ Back = "idle" => event = 0 /\ ~polite
  BY DEF Back, InPlace

(* A handler that is dropped leaves the table, and nothing else does.        *)
LEMMA DropsOne ==
  ASSUME TypeOK, IsInjective(handlers), NEW h, NEW g, Installed(h), Drops(h, g)
  PROVE  /\ h \in Handlers
         /\ handlers' \in Seq(Handlers) /\ IsInjective(handlers')
         /\ ToSet(handlers') = ToSet(handlers) \ {h}
         /\ left' = left /\ Goes("terminate", h, g)
         /\ lives' = [lives EXCEPT ![h] = @ - 1]
<1>1. h \in ToSet(handlers)
  BY ContainsIsIn DEF Installed, TypeOK
<1>2. h \in Handlers
  BY <1>1 DEF ToSet, TypeOK
<1> QED
  BY <1>1, <1>2, RemoveFirstLeaves DEF Drops, Removed, LeftBehind, TypeOK

-----------------------------------------------------------------------------
(* The types, and what the manager has at each point                         *)

(* A step that drops a handler.                                              *)
LEMMA DropsTyped ==
  ASSUME TypeOK, InPlace, NoneTwice, NEW h, NEW g \in Handlers \cup {None},
         Installed(h), Drops(h, g), ~polite, at # "closing",
         UNCHANGED <<event, polite, open, requests, events, since, seen>>,
         queue' \in Seq(Requests), used' \subseteq Handlers
  PROVE  TypeOK' /\ InPlace'
<1>1. /\ h \in Handlers /\ handlers' \in Seq(Handlers) /\ left' = left
      /\ Goes("terminate", h, g) /\ lives' = [lives EXCEPT ![h] = @ - 1]
  BY DropsOne DEF NoneTwice
<1>2. lives' \in [Handlers -> Int]
  <2>1. lives \in [Handlers -> Int] /\ h \in Handlers
    BY <1>1 DEF TypeOK
  <2>2. [lives EXCEPT ![h] = @ - 1] \in [Handlers -> Int]
    BY ONLY <2>1
  <2> QED
    BY <1>1, <2>2
<1>3. TypeOK'
  BY <1>1, <1>2 DEF TypeOK, Goes, Points
<1>4. InPlace'
  BY <1>1 DEF InPlace, Goes
<1> QED
  BY <1>3, <1>4

(* A step that neither drops nor terminates one.                             *)
LEMMA ClientsTyped ==
  ASSUME TypeOK, InPlace, Asks \/ Kill
  PROVE  TypeOK' /\ InPlace'
<1>1. CASE Asks
  <2>1. queue' \in Seq(Requests) /\ used' \subseteq Handlers
    <3>1. PICK r \in Requests : queue' = Append(queue, r)
      BY <1>1 DEF Asks, Request, Requests
    <3> QED
      BY <1>1, <3>1 DEF Asks, TypeOK
  <2>2. /\ UNCHANGED <<open, place, handlers, events, since, seen, lives>>
        /\ requests' = requests + 1
    BY <1>1 DEF Asks
  <2>3. TypeOK'
    BY <2>1, <2>2 DEF TypeOK, place
  <2>4. InPlace'
    BY <2>2 DEF InPlace, place, Installed
  <2> QED
    BY <2>3, <2>4
<1>2. CASE Kill
  BY <1>2 DEF Kill, place, history, TypeOK, InPlace, Installed
<1> QED
  BY <1>1, <1>2

(* A handler's callbacks return something of their types. *)
LEMMA CallbacksTyped ==
  ASSUME Shape, Terminated \/ Initialised \/ HandlerReturns
  PROVE  TypeOK' /\ InPlace'
<1> USE DEF Shape
<1>1. CASE Terminated
  <2>1. new \in Handlers \/ new = None
    BY DEF TypeOK
  <2>2. CASE new # None
    BY <1>1, <2>1, <2>2 DEF Terminated, Goes, mail, history, TypeOK, InPlace, Points
  <2>3. CASE new = None
    BY <1>1, <2>3, BackIs DEF Terminated, Goes, mail, history, TypeOK, InPlace, Points
  <2> QED
    BY <2>2, <2>3
<1>2. CASE Initialised
  <2>1. who \in Handlers
    BY <1>2 DEF Initialised, InPlace
  <2>2. /\ handlers' \in Seq(Handlers) /\ since' \in [Handlers -> Nat]
        /\ seen' \in [Handlers -> Seq(Nat)] /\ lives' \in [Handlers -> Int]
    <3>1. Append(handlers, who) \in Seq(Handlers)
      BY <2>1, AppendProperties DEF TypeOK
    <3>2. [since EXCEPT ![who] = events] \in [Handlers -> Nat]
      BY <2>1 DEF TypeOK
    <3>3. [seen EXCEPT ![who] = <<>>] \in [Handlers -> Seq(Nat)]
      BY <2>1 DEF TypeOK
    <3>4. [lives EXCEPT ![who] = @ + 1] \in [Handlers -> Int]
      BY <2>1 DEF TypeOK
    <3> QED
      BY <1>2, <3>1, <3>2, <3>3, <3>4 DEF Initialised, TypeOK
  <2>3. UNCHANGED <<event, left, polite, queue, open, requests, used, events>>
    BY <1>2 DEF Initialised, mail
  <2>4. Goes(Back, None, None)
    BY <1>2 DEF Initialised
  <2>5. TypeOK'
    BY <2>2, <2>3, <2>4, BackIs DEF TypeOK, Goes, Points
  <2>6. InPlace'
    BY <1>2, <2>3, <2>4, BackIs DEF Initialised, InPlace, Goes
  <2> QED
    BY <2>5, <2>6
<1>3. CASE HandlerReturns
  <2>1. Installed(who) /\ ~polite /\ at # "closing"
    BY <1>3 DEF HandlerReturns, InPlace
  <2>2. ASSUME NEW g \in Handlers \cup {None}, Drops(who, g), used' \subseteq Handlers
        PROVE  TypeOK' /\ InPlace'
    <3>1. queue' \in Seq(Requests)
          /\ UNCHANGED <<event, polite, open, requests, events, since, seen>>
      BY <1>3 DEF HandlerReturns, mail, TypeOK
    <3> QED
      BY <2>1, <2>2, <3>1, DropsTyped
  <2>3. CASE Goes(Back, None, None) /\ UNCHANGED <<handlers, left, lives, used>>
    BY <1>3, <2>3, BackIs DEF HandlerReturns, Goes, mail, TypeOK, InPlace, Points
  <2>4. CASE Drops(who, None) /\ UNCHANGED used
    BY <2>2, <2>4 DEF TypeOK
  <2>5. ASSUME NEW g \in Fresh, Drops(who, g), used' = used \cup {g}
        PROVE  TypeOK' /\ InPlace'
    BY <2>2, <2>5 DEF TypeOK, Fresh
  <2> QED
    BY <1>3, <2>3, <2>4, <2>5 DEF HandlerReturns
<1> QED
  BY <1>1, <1>2, <1>3

(* A request is taken.                                                       *)
LEMMA TakesTyped ==
  ASSUME Shape, \/ TakeAdd \/ TakeDelete \/ TakeSwap \/ TakeCall \/ TakeNotify \/ TakeStop
  PROVE  TypeOK' /\ InPlace'
<1> USE DEF Shape
<1>1. /\ at = "idle" /\ event = 0 /\ ~polite /\ left = <<>> /\ new = None
      /\ queue # <<>> /\ queue' = Tail(queue)
  BY DEF TakeAdd, TakeDelete, TakeSwap, TakeCall, TakeNotify, TakeStop, Takes, InPlace
<1>2. queue' \in Seq(Requests) /\ Head(queue) \in Requests
  BY <1>1, HeadRequest
<1>3. Head(queue).type \in Brings => Head(queue).new \in Handlers
  BY <1>1, HeadRequest DEF AllNamed, TypeOK
<1>4. Asked \in Handlers \cup {None}
  BY <1>2 DEF Asked, Requests
<1>5. ASSUME NEW pc \in {"init", "call"}, NEW h \in Handlers, pc = "call" => Installed(h),
             Goes(pc, h, None),
             UNCHANGED <<event, left, polite, open, requests, handlers, history>>
      PROVE  TypeOK' /\ InPlace'
  <2>1. TypeOK'
    BY <1>2, <1>5 DEF TypeOK, Goes, Points, history
  <2>2. InPlace'
    BY <1>1, <1>5 DEF InPlace, Goes, Installed, history
  <2> QED
    BY <2>1, <2>2
<1>6. CASE UNCHANGED <<place, open, requests, handlers, history>>
  BY <1>1, <1>2, <1>6 DEF TypeOK, InPlace, Installed, place, history
<1>7. ASSUME Installed(Asked), NEW g \in Handlers \cup {None}, Drops(Asked, g),
             UNCHANGED <<event, polite, open, requests, used, events, since, seen>>
      PROVE  TypeOK' /\ InPlace'
  <2>1. used' \subseteq Handlers /\ at # "closing"
    BY <1>1, <1>7 DEF TypeOK
  <2> QED
    BY <1>1, <1>2, <1>7, <2>1, DropsTyped
<1>8. CASE TakeAdd
  <2>1. Head(queue).new \in Handlers
    BY <1>3, <1>8 DEF TakeAdd, Takes, Brings
  <2> QED
    BY <1>5, <1>6, <1>8, <2>1 DEF TakeAdd, place
<1>9. CASE TakeDelete
  BY <1>6, <1>7, <1>9 DEF TakeDelete, place, history
<1>10. CASE TakeSwap
  <2>1. Head(queue).new \in Handlers
    BY <1>3, <1>10 DEF TakeSwap, Takes, Brings
  <2> QED
    BY <1>5, <1>7, <1>10, <2>1 DEF TakeSwap, history
<1>11. CASE TakeCall
  <2>1. Installed(Asked) => Asked \in Handlers
    BY ContainsIsIn DEF Installed, ToSet, TypeOK
  <2> QED
    BY <1>5, <1>6, <1>11, <2>1 DEF TakeCall, place
<1>12. CASE TakeNotify
  <2>1. TypeOK'
    BY <1>2, <1>12 DEF TakeNotify, Goes, TypeOK, Points
  <2>2. InPlace'
    BY <1>1, <1>12 DEF TakeNotify, Goes, TypeOK, InPlace
  <2> QED
    BY <2>1, <2>2
<1>13. CASE TakeStop
  <2>1. TypeOK'
    BY <1>2, <1>13 DEF TakeStop, Ends, Goes, TypeOK, Points, history
  <2>2. InPlace'
    BY <1>1, <1>13 DEF TakeStop, Ends, Goes, TypeOK, InPlace, history
  <2> QED
    BY <2>1, <2>2
<1> QED
  BY <1>8, <1>9, <1>10, <1>11, <1>12, <1>13

(* The loops over handlers, and the ends.                                    *)
LEMMA LoopsTyped ==
  ASSUME Shape, NextHandler \/ Dispatched \/ EndOfStream \/ CloseNext \/ Closed
  PROVE  TypeOK' /\ InPlace'
<1> USE DEF Shape
<1>1. left # <<>> => Tail(left) \in Seq(Handlers) /\ Head(left) \in Handlers
  BY TailLeaves DEF TypeOK
<1>2. CASE NextHandler
  <2>1. seen' \in [Handlers -> Seq(Nat)]
    <3>1. [seen EXCEPT ![Head(left)] = Append(@, event)] \in [Handlers -> Seq(Nat)]
      BY <1>1, <1>2 DEF NextHandler, TypeOK
    <3> QED
      BY <1>2, <3>1 DEF NextHandler, TypeOK
  <2>2. TypeOK'
    BY <1>1, <1>2, <2>1 DEF NextHandler, Goes, TypeOK, Points, mail
  <2>3. InPlace'
    BY <1>1, <1>2 DEF NextHandler, Goes, InPlace, Installed, mail
  <2> QED
    BY <2>2, <2>3
<1>3. CASE Dispatched
  BY <1>3 DEF Dispatched, Goes, TypeOK, InPlace, Points, mail, history
<1>4. CASE EndOfStream
  BY <1>4 DEF EndOfStream, Ends, Goes, TypeOK, InPlace, Points, history
<1>5. CASE CloseNext
  <2>1. lives' \in [Handlers -> Int]
    BY <1>1, <1>5 DEF CloseNext, TypeOK
  <2>2. TypeOK'
    BY <1>1, <1>5, <2>1 DEF CloseNext, Goes, TypeOK, Points, mail
  <2>3. InPlace'
    BY <1>1, <1>5 DEF CloseNext, Goes, InPlace, mail
  <2> QED
    BY <2>2, <2>3
<1>6. CASE Closed
  <2>1. TypeOK'
    BY <1>6 DEF Closed, Goes, TypeOK, Points, mail, history
  <2>2. InPlace'
    BY <1>6 DEF Closed, Goes, InPlace, mail, history
  <2> QED
    BY <2>1, <2>2
<1> QED
  BY <1>2, <1>3, <1>4, <1>5, <1>6

(* Every step keeps the types, and what the manager has at each point.       *)
LEMMA TypeStep == Shape /\ [Next]_vars => TypeOK' /\ InPlace'
<1>1. Shape /\ UNCHANGED vars => TypeOK' /\ InPlace'
  BY DEF Shape, vars, place, mail, history, TypeOK, InPlace, Installed
<1> QED
  BY <1>1, ClientsTyped, CallbacksTyped, TakesTyped, LoopsTyped
  DEF Next, Step, AllOver, Shape

-----------------------------------------------------------------------------
(* No handler comes twice                                                    *)

Known    == ToSet(handlers) \cup ToSet(left)
Newness  == AllNamed /\ ComesOnce

(* A step that reads no request: the one that came may have been installed,  *)
(* and a handler that nobody has named may come.                             *)
LEMMA SameQueue ==
  ASSUME Shape, TypeOK', UNCHANGED queue, used \subseteq used',
         Known' \subseteq Known \cup ({Coming} \ {None}),
         \/ Coming' = None
         \/ Coming' = Coming /\ Known' \subseteq Known
         \/ Coming' \in Fresh /\ Reused = FALSE /\ Coming' \in used' /\ Known' \subseteq Known
  PROVE  Newness'
<1> USE DEF Shape
<1>1. Known \subseteq used /\ Coming \in used \cup {None} /\ Coming \notin Known
  BY DEF AllNamed, ComesOnce, NewToAll, Known
<1>2. \A i \in DOMAIN queue : queue[i].type \in Brings =>
        queue[i].new \in used /\ queue[i].new # None
  BY DEF AllNamed, TypeOK
<1>3. \A i \in DOMAIN queue : queue[i].type = "swap" =>
        queue[i].new \notin Known /\ queue[i].new # Coming
  BY DEF ComesOnce, NewToAll, Known
<1>4. Known' \subseteq used' /\ None \notin Known'
  BY <1>1 DEF TypeOK
<1>5. Coming' \in used' \cup {None} /\ Coming' \notin Known'
  BY <1>1, <1>4 DEF Fresh
<1>6. \A i \in DOMAIN queue : queue[i].type = "swap" =>
        queue[i].new \notin Known' /\ queue[i].new # Coming'
  BY <1>1, <1>2, <1>3 DEF Fresh, Brings
<1>7. AllNamed'
  BY <1>2, <1>4, <1>5 DEF AllNamed, Known
<1>8. ComesOnce'
  BY <1>5, <1>6 DEF ComesOnce, NewToAll, Known
<1> QED
  BY <1>7, <1>8 DEF Newness

(* A step that reads one, and lets the handler come that it brings.          *)
LEMMA TookOne ==
  ASSUME Shape, TypeOK', queue # <<>>, queue' = Tail(queue), UNCHANGED used,
         Known' \subseteq Known,
         \/ Coming' = None
         \/ /\ Head(queue).type \in Brings /\ Head(queue).new \notin Known
            /\ Coming' = Head(queue).new
  PROVE  Newness'
<1> USE DEF Shape
<1> DEFINE q == Tail(queue)
<1>1. \A i \in DOMAIN q : i \in Nat \ {0} /\ i + 1 \in DOMAIN queue /\ q[i] = queue[i + 1]
  BY HeadRequest
<1>2. Head(queue) = queue[1] /\ 1 \in DOMAIN queue
  BY HeadRequest
<1> HIDE DEF q
<1>3. Known \subseteq used
  BY DEF AllNamed, Known
<1>4. \A i \in DOMAIN q : q[i].type \in Brings => q[i].new \in used
  BY <1>1 DEF AllNamed
<1>5. Coming' \in used \cup {None} /\ Coming' \notin Known'
  <2>1. Coming' # None => Coming' \in used
    BY <1>2 DEF AllNamed
  <2>2. None \notin Known
    BY <1>3 DEF TypeOK
  <2> QED
    BY <2>1, <2>2
<1>6. \A i \in DOMAIN q : q[i].type = "swap" =>
        /\ q[i].new \notin Known /\ q[i].new # Coming'
        /\ \A j \in 1 .. i - 1 : q[j].type \in Brings => q[j].new # q[i].new
  <2> SUFFICES ASSUME NEW i \in DOMAIN q, q[i].type = "swap"
               PROVE  /\ q[i].new \notin Known /\ q[i].new # Coming'
                      /\ \A j \in 1 .. i - 1 : q[j].type \in Brings => q[j].new # q[i].new
    OBVIOUS
  <2>1. /\ queue[i + 1].new \notin Known
        /\ \A j \in 1 .. i : queue[j].type \in Brings => queue[j].new # queue[i + 1].new
    BY <1>1 DEF ComesOnce, NewToAll, Known
  <2>2. q[i].new # None
    BY <1>4 DEF Brings, TypeOK
  <2>3. q[i].new # Coming'
    BY <1>1, <1>2, <2>1, <2>2
  <2>4. ASSUME NEW j \in 1 .. i - 1, q[j].type \in Brings PROVE q[j].new # q[i].new
    <3>1. j \in DOMAIN q /\ j + 1 \in 1 .. i
      <4>1. q \in Seq(Requests)
        BY HeadRequest DEF q
      <4> QED
        BY <1>1, <4>1
    <3> QED
      BY <1>1, <2>1, <2>4, <3>1
  <2> QED
    BY <1>1, <2>1, <2>3, <2>4
<1>7. queue' = q
  BY DEF q
<1>8. AllNamed'
  BY <1>3, <1>4, <1>5, <1>7 DEF AllNamed, Known
<1>9. ComesOnce'
  BY <1>5, <1>6, <1>7 DEF ComesOnce, NewToAll, Known
<1> QED
  BY <1>8, <1>9 DEF Newness

(* A client's swap brings a handler that nobody has named.                   *)
LEMMA AskedNew ==
  ASSUME Shape, TypeOK', Reused = FALSE, Asks
  PROVE  Newness'
<1> USE DEF Shape
<1>1. PICK r \in Requests :
        /\ queue' = Append(queue, r)
        /\ r.type \in Brings => r.new \in used' \ {None}
        /\ r.type = "swap" => r.new \notin used
        /\ used \subseteq used'
  BY DEF Asks, Request, Requests, Brings, Fresh
<1>2. UNCHANGED <<handlers, left, at, who, new>>
  BY DEF Asks, place
<1>3. /\ DOMAIN queue' = 1 .. Len(queue) + 1 /\ DOMAIN queue = 1 .. Len(queue)
      /\ Len(queue) \in Nat
      /\ \A i \in 1 .. Len(queue) : queue'[i] = queue[i]
      /\ queue'[Len(queue) + 1] = r
  <2>1. queue \in Seq(Requests) /\ queue' \in Seq(Requests)
    BY DEF TypeOK
  <2> QED
    BY <1>1, <2>1, AppendProperties
<1>4. AllNamed'
  BY <1>1, <1>2, <1>3 DEF AllNamed, Coming
<1>5. r.type = "swap" =>
        /\ NewToAll(r.new) /\ r.new # Coming
        /\ \A j \in DOMAIN queue : queue[j].type \in Brings => queue[j].new # r.new
  BY <1>1 DEF AllNamed, NewToAll, Brings
<1>6. ComesOnce'
  <2>1. NewToAll(Coming)' /\ Coming' = Coming
    BY <1>2 DEF ComesOnce, NewToAll, Coming
  <2>2. ASSUME NEW i \in DOMAIN queue', queue'[i].type = "swap"
        PROVE  /\ NewToAll(queue[i].new)' /\ (queue[i].new # Coming)'
               /\ \A j \in 1 .. i - 1 : queue'[j].type \in Brings => queue'[j].new # queue'[i].new
    <3>1. CASE i \in DOMAIN queue
      <4>1. \A j \in 1 .. i - 1 : j \in DOMAIN queue
        BY <1>3, <3>1
      <4> QED
        BY <1>2, <1>3, <2>1, <2>2, <3>1, <4>1 DEF ComesOnce, NewToAll
    <3>2. CASE i = Len(queue) + 1
      <4>1. \A j \in 1 .. i - 1 : j \in DOMAIN queue
        BY <1>3, <3>2
      <4> QED
        BY <1>2, <1>3, <1>5, <2>1, <2>2, <3>2, <4>1 DEF NewToAll
    <3> QED
      BY <1>3, <3>1, <3>2
  <2> QED
    BY <2>1, <2>2 DEF ComesOnce
<1> QED
  BY <1>4, <1>6 DEF Newness

(* Every step keeps the handlers apart, if a swap brings an object that was  *)
(* not used before.                                                          *)
LEMMA NewStep ==
  Shape /\ Reused = FALSE /\ [Next]_vars => NoneTwice' /\ Newness'
<1> SUFFICES ASSUME Shape, Reused = FALSE, [Next]_vars PROVE NoneTwice' /\ Newness'
  OBVIOUS
<1>1. TypeOK' /\ InPlace'
  BY TypeStep
<1> USE DEF Shape
<1>2. IsInjective(handlers) /\ IsInjective(left) /\ IsInjective(<<>>) /\ ToSet(<<>>) = {}
  BY DEF NoneTwice, IsInjective, ToSet
<1>3. left # <<>> => IsInjective(Tail(left)) /\ ToSet(Tail(left)) \subseteq ToSet(left)
  BY <1>2, TailLeaves DEF TypeOK
<1>4. ASSUME NEW h, NEW g, Installed(h), Drops(h, g)
      PROVE  /\ IsInjective(handlers') /\ IsInjective(left') /\ Known' \subseteq Known
             /\ Coming' = g
  BY <1>2, <1>4, DropsOne DEF Known, Goes, Coming
<1>5. ASSUME UNCHANGED <<handlers, left>>
      PROVE  NoneTwice' /\ Known' \subseteq Known
  BY <1>5 DEF NoneTwice, Known
<1>6. CASE Asks
  <2>1. Newness'
    BY <1>1, <1>6, AskedNew
  <2> QED
    BY <1>5, <1>6, <2>1 DEF Asks, place
<1>7. CASE Kill \/ UNCHANGED vars
  <2>1. UNCHANGED <<handlers, left, queue, used>> /\ Coming' = Coming
    BY <1>7 DEF Kill, vars, place, mail, history, Coming
  <2> QED
    BY <1>1, <1>5, <2>1, SameQueue
<1>8. CASE Terminated
  <2>1. UNCHANGED <<handlers, left, queue, used>>
    BY <1>8 DEF Terminated, mail, history
  <2>2. Coming' = Coming
    BY <1>8, BackIs DEF Terminated, Goes, Coming
  <2> QED
    BY <1>1, <1>5, <2>1, <2>2, SameQueue
<1>9. CASE Initialised
  <2>1. UNCHANGED <<left, queue, used>> /\ Coming = who /\ who \in Handlers
    BY <1>9 DEF Initialised, mail, Coming, InPlace
  <2>2. Coming' = None
    BY <1>9, BackIs DEF Initialised, Goes, Coming
  <2>3. /\ ToSet(handlers') \subseteq ToSet(handlers) \cup {who}
        /\ IsInjective(handlers')
    <3>1. who \notin ToSet(handlers) /\ handlers \in Seq(Handlers)
      BY <2>1 DEF ComesOnce, NewToAll, TypeOK
    <3>2. handlers' = handlers \/ handlers' = Append(handlers, who)
      BY <1>9 DEF Initialised
    <3>3. /\ ToSet(Append(handlers, who)) = ToSet(handlers) \cup {who}
          /\ IsInjective(Append(handlers, who))
      BY <1>2, <2>1, <3>1, AppendAdds
    <3> QED
      BY <1>2, <3>2, <3>3
  <2>4. Known' \subseteq Known \cup ({Coming} \ {None})
    BY <2>1, <2>3, GenEventAssumption DEF Known
  <2> QED
    BY <1>1, <1>2, <2>1, <2>2, <2>3, <2>4, SameQueue DEF NoneTwice
<1>10. CASE HandlerReturns
  <2>1. Installed(who) /\ UNCHANGED queue /\ None \notin Handlers
    BY <1>10, GenEventAssumption DEF HandlerReturns, InPlace, mail
  <2>2. CASE Goes(Back, None, None) /\ UNCHANGED <<handlers, left, lives, used>>
    <3>1. Coming' = None
      BY <2>2, BackIs DEF Goes, Coming
    <3> QED
      BY <1>1, <1>5, <2>1, <2>2, <3>1, SameQueue
  <2>3. CASE Drops(who, None) /\ UNCHANGED used
    BY <1>1, <1>4, <2>1, <2>3, SameQueue DEF NoneTwice
  <2>4. ASSUME NEW g \in Fresh, Drops(who, g), used' = used \cup {g}
        PROVE  NoneTwice' /\ Newness'
    <3>1. /\ IsInjective(handlers') /\ IsInjective(left') /\ Known' \subseteq Known
          /\ Coming' = g
      BY <1>4, <2>1, <2>4
    <3>2. used \subseteq used' /\ g \in used'
      BY <2>4
    <3>3. Known' \subseteq Known \cup ({Coming} \ {None})
      BY <3>1
    <3>4. Coming' \in Fresh /\ Coming' \in used'
      BY <2>4, <3>1, <3>2
    <3>5. Newness'
      BY <1>1, <2>1, <3>1, <3>2, <3>3, <3>4, SameQueue
    <3> QED
      BY <3>1, <3>5 DEF NoneTwice
  <2> QED
    BY <1>10, <2>2, <2>3, <2>4 DEF HandlerReturns
<1>11. ASSUME \/ TakeAdd \/ TakeDelete \/ TakeSwap \/ TakeCall \/ TakeNotify \/ TakeStop
       PROVE  NoneTwice' /\ Newness'
  <2>1. /\ queue # <<>> /\ queue' = Tail(queue) /\ UNCHANGED used
        /\ at = "idle" /\ left = <<>> /\ Coming = None
    BY <1>11 DEF TakeAdd, TakeDelete, TakeSwap, TakeCall, TakeNotify, TakeStop, Takes,
       history, InPlace, Coming
  <2>2. Known = ToSet(handlers) /\ Head(queue) = queue[1] /\ 1 \in DOMAIN queue
    BY <1>2, <2>1, HeadRequest DEF Known
  <2>3. ASSUME NoneTwice', Known' \subseteq Known, Coming' = None
        PROVE  NoneTwice' /\ Newness'
    BY <1>1, <2>1, <2>3, TookOne
  <2>4. CASE TakeCall \/ (TakeAdd /\ UNCHANGED <<at, who, new>>)
    <3>1. Coming' = None
      BY <2>1, <2>4 DEF TakeCall, TakeAdd, Goes, Coming
    <3> QED
      BY <1>5, <2>3, <2>4, <3>1 DEF TakeCall, TakeAdd
  <2>5. CASE TakeAdd /\ ~Installed(Head(queue).new)
    <3>1. Head(queue).type \in Brings /\ Coming' = Head(queue).new
      BY <2>5 DEF TakeAdd, Takes, Brings, Goes, Coming
    <3>2. Head(queue).new \notin Known
      BY <2>2, <2>5, ContainsIsIn DEF Installed, TypeOK
    <3> QED
      BY <1>1, <1>5, <2>1, <2>5, <3>1, <3>2, TookOne DEF TakeAdd
  <2>6. CASE TakeDelete
    <3>1. CASE Installed(Asked)
      BY <1>4, <2>3, <2>6, <3>1 DEF TakeDelete, NoneTwice
    <3>2. CASE ~Installed(Asked)
      <4>1. UNCHANGED <<handlers, left>> /\ Coming' = None
        BY <2>1, <2>6, <3>2 DEF TakeDelete, Coming
      <4> QED
        BY <1>5, <2>3, <4>1
    <3> QED
      BY <3>1, <3>2
  <2>7. CASE TakeSwap
    <3>1. Head(queue).type \in Brings /\ Head(queue).new \notin Known
      BY <2>2, <2>7 DEF TakeSwap, Takes, Brings, ComesOnce, NewToAll
    <3>2. CASE Installed(Asked)
      BY <1>1, <1>4, <2>1, <2>7, <3>1, <3>2, TookOne DEF TakeSwap, NoneTwice
    <3>3. CASE ~Installed(Asked)
      <4>1. UNCHANGED <<handlers, left>> /\ Coming' = Head(queue).new
        BY <2>7, <3>3 DEF TakeSwap, Goes, Coming
      <4> QED
        BY <1>1, <1>5, <2>1, <3>1, <4>1, TookOne
    <3> QED
      BY <3>2, <3>3
  <2>8. CASE TakeNotify \/ TakeStop
    <3>1. /\ UNCHANGED handlers /\ left' \in {handlers, left} /\ Coming' = None
      BY <2>8 DEF TakeNotify, TakeStop, Ends, Goes, Coming
    <3>2. Known' \subseteq Known /\ NoneTwice'
      BY <1>2, <3>1 DEF Known, NoneTwice
    <3> QED
      BY <2>3, <3>1, <3>2
  <2> QED
    BY <1>11, <2>4, <2>5, <2>6, <2>7, <2>8 DEF TakeAdd
<1>12. CASE NextHandler \/ CloseNext
  <2>1. UNCHANGED <<handlers, queue, used>> /\ left # <<>> /\ left' = Tail(left)
    BY <1>12 DEF NextHandler, CloseNext, mail
  <2>2. Coming' = None
    BY <1>12 DEF NextHandler, CloseNext, Goes, Coming, InPlace
  <2> QED
    BY <1>1, <1>2, <1>3, <2>1, <2>2, SameQueue DEF Known, NoneTwice
<1>13. CASE Dispatched \/ EndOfStream \/ Closed
  <2>1. UNCHANGED <<left, queue, used>> /\ handlers' \in {handlers, <<>>} /\ Coming' = None
    BY <1>13 DEF Dispatched, EndOfStream, Closed, Ends, Goes, Coming, mail, history
  <2> QED
    BY <1>1, <1>2, <2>1, SameQueue DEF Known, NoneTwice
<1> QED
  BY <1>6, <1>7, <1>8, <1>9, <1>10, <1>11, <1>12, <1>13 DEF Next, Step, AllOver

-----------------------------------------------------------------------------
(* The handlers that live                                                    *)

(* A step that leaves the living and their counts alone.                     *)
LEMMA SameLiving ==
  ASSUME OnlyTheseLive, UNCHANGED lives, Living' = Living
  PROVE  OnlyTheseLive'
  BY DEF OnlyTheseLive

(* init() is called only for one that does not live, and terminate() for one *)
(* that does.                                                                *)
LEMMA LiveStep ==
  Shape /\ OnlyTheseLive /\ [Next]_vars => OnlyTheseLive'
<1> SUFFICES ASSUME Shape, OnlyTheseLive, [Next]_vars PROVE OnlyTheseLive'
  OBVIOUS
<1> USE DEF Shape
<1>1. ASSUME NEW h, NEW g, Installed(h), Drops(h, g), ~polite, UNCHANGED polite
      PROVE  OnlyTheseLive'
  <2>1. /\ h \in Handlers /\ h \in ToSet(handlers)
        /\ ToSet(handlers') = ToSet(handlers) \ {h} /\ lives' = [lives EXCEPT ![h] = @ - 1]
    BY <1>1, DropsOne, ContainsIsIn DEF NoneTwice, Installed, TypeOK
  <2> QED
    BY <1>1, <2>1 DEF OnlyTheseLive, Living, TypeOK
<1>2. CASE UNCHANGED <<handlers, left, polite, lives>>
  BY <1>2, SameLiving DEF Living
<1>3. ASSUME UNCHANGED <<handlers, polite, lives>>, ~polite PROVE OnlyTheseLive'
  BY <1>3, SameLiving DEF Living
<1>4. CASE Initialised
  <2>1. who \in Handlers /\ who \notin ToSet(handlers) /\ ~polite /\ UNCHANGED polite
    BY <1>4 DEF Initialised, InPlace, ComesOnce, NewToAll, Coming
  <2>2. CASE handlers' = Append(handlers, who) /\ lives' = [lives EXCEPT ![who] = @ + 1]
    <3>1. ToSet(handlers') = ToSet(handlers) \cup {who}
      BY <2>1, <2>2, AppendAdds DEF TypeOK
    <3> QED
      BY <2>1, <2>2, <3>1 DEF OnlyTheseLive, Living, TypeOK
  <2>3. CASE UNCHANGED <<handlers, lives>>
    BY <1>3, <2>1, <2>3
  <2> QED
    BY <1>4, <2>2, <2>3 DEF Initialised
<1>5. CASE HandlerReturns
  <2>1. Installed(who) /\ ~polite /\ UNCHANGED polite
    BY <1>5 DEF HandlerReturns, InPlace
  <2> QED
    BY <1>1, <1>3, <1>5, <2>1 DEF HandlerReturns
<1>6. CASE TakeDelete \/ TakeSwap
  <2>1. ~polite /\ UNCHANGED polite
    BY <1>6 DEF TakeDelete, TakeSwap, Takes, InPlace
  <2> QED
    BY <1>1, <1>3, <1>6, <2>1 DEF TakeDelete, TakeSwap
<1>7. CASE TakeNotify \/ NextHandler
  BY <1>3, <1>7 DEF TakeNotify, NextHandler, Takes, InPlace
<1>8. CASE TakeStop
  <2>1. Living' = Living
    BY <1>8 DEF TakeStop, Takes, Ends, Goes, InPlace, Living
  <2> QED
    BY <1>8, <2>1, SameLiving DEF TakeStop, history
<1>9. CASE EndOfStream
  <2>1. ~polite /\ UNCHANGED <<handlers, polite, lives>>
    BY <1>9 DEF EndOfStream, Ends, InPlace, TypeOK, history
  <2> QED
    BY <1>3, <2>1
<1>10. CASE CloseNext
  <2>1. /\ polite /\ polite' /\ left # <<>> /\ left' = Tail(left)
        /\ lives' = [lives EXCEPT ![Head(left)] = @ - 1]
    BY <1>10 DEF CloseNext, InPlace
  <2>2. /\ Head(left) \in Handlers /\ Head(left) \notin ToSet(left')
        /\ ToSet(left) = ToSet(left') \cup {Head(left)}
    BY <2>1, TailLeaves DEF NoneTwice, TypeOK
  <2>3. \A h \in Handlers : lives'[h] = IF h = Head(left) THEN lives[h] - 1 ELSE lives[h]
    BY <2>1, <2>2 DEF TypeOK
  <2>4. \A h \in Handlers : lives[h] = IF h \in ToSet(left) THEN 1 ELSE 0
    BY <2>1 DEF OnlyTheseLive, Living
  <2>5. Living' = ToSet(left')
    BY <2>1 DEF Living
  <2> QED
    BY <2>2, <2>3, <2>4, <2>5 DEF OnlyTheseLive
<1>11. CASE Closed
  <2>1. polite /\ UNCHANGED <<polite, left, lives>>
    BY <1>11 DEF Closed, InPlace, history
  <2> QED
    BY <2>1, SameLiving DEF Living
<1> QED
  BY <1>2, <1>4, <1>5, <1>6, <1>7, <1>8, <1>9, <1>10, <1>11
  DEF Next, Step, AllOver, Asks, Kill, Terminated, TakeAdd, TakeCall, Dispatched,
      vars, place, history

-----------------------------------------------------------------------------
(* The events                                                                *)

(* The events of a handler that has got all of them from one on.             *)
Run(n, k) == [i \in 1 .. k |-> n + i]

(* The next event continues such a run.                                      *)
LEMMA RunGoesOn ==
  ASSUME NEW n \in Nat, NEW k \in Nat
  PROVE  Append(Run(n, k), n + k + 1) = Run(n, k + 1)
<1>1. Run(n, k) \in Seq(Nat) /\ Len(Run(n, k)) = k
  BY DEF Run
<1>2. Run(n, k + 1) \in Seq(Nat) /\ Len(Run(n, k + 1)) = k + 1
  BY DEF Run
<1>3. /\ Append(Run(n, k), n + k + 1) \in Seq(Nat)
      /\ Len(Append(Run(n, k), n + k + 1)) = k + 1
      /\ \A i \in 1 .. k : Append(Run(n, k), n + k + 1)[i] = Run(n, k)[i]
      /\ Append(Run(n, k), n + k + 1)[k + 1] = n + k + 1
  <2>1. n + k + 1 \in Nat
    OBVIOUS
  <2> QED
    BY <1>1, <2>1, AppendProperties
<1>4. \A i \in 1 .. k + 1 : Append(Run(n, k), n + k + 1)[i] = Run(n, k + 1)[i]
  <2> SUFFICES ASSUME NEW i \in 1 .. k + 1
               PROVE  Append(Run(n, k), n + k + 1)[i] = Run(n, k + 1)[i]
    OBVIOUS
  <2>1. CASE i \in 1 .. k
    BY <1>3, <2>1 DEF Run
  <2>2. CASE i = k + 1
    BY <1>3, <2>2 DEF Run
  <2>3. i \in 1 .. k \/ i = k + 1
    OBVIOUS
  <2> QED
    BY <2>1, <2>2, <2>3
<1> QED
  BY <1>2, <1>3, <1>4, SeqEqual

Given(h) == seen[h] = Run(since[h], events - since[h] - IF Pending(h) THEN 1 ELSE 0)
UpToDate(h) == /\ since[h] <= events /\ (Pending(h) => since[h] < events)
               /\ Given(h)

(* A handler stays up to date if it stays and neither it nor an event moves. *)
LEMMA SameEvents ==
  ASSUME TypeOK, TypeOK', \A h \in ToSet(handlers) : UpToDate(h),
         UNCHANGED <<event, events, since, seen>>,
         ToSet(handlers') \subseteq ToSet(handlers),
         event = 0 \/ left' = left
  PROVE  \A h \in ToSet(handlers') : UpToDate(h)'
<1> SUFFICES ASSUME NEW h \in ToSet(handlers') PROVE UpToDate(h)'
  OBVIOUS
<1>1. h \in Handlers
  BY DEF ToSet, TypeOK
<1>2. Pending(h)' = Pending(h)
  BY DEF Pending
<1> QED
  BY <1>1, <1>2 DEF UpToDate, Given

(* A dispatch gives the event to each handler that is there at its turn, and *)
(* a handler is only in the loop over the copy if it was there before.       *)
LEMMA EventStep ==
  ASSUME Shape, TypeOK', [Next]_vars, \A h \in ToSet(handlers) : UpToDate(h)
  PROVE  \A h \in ToSet(handlers') : UpToDate(h)'
<1> USE DEF Shape
<1>1. ASSUME NEW h, NEW g, Installed(h), Drops(h, g)
      PROVE  left' = left /\ ToSet(handlers') \subseteq ToSet(handlers)
  BY <1>1, DropsOne DEF NoneTwice
<1>2. ToSet(<<>>) = {} /\ ToSet(handlers) \subseteq Handlers
  BY DEF ToSet, TypeOK
<1>3. CASE UNCHANGED <<handlers, left, event, events, since, seen>>
  BY <1>3, SameEvents
<1>4. CASE Initialised
  <2>1. CASE handlers' = Append(handlers, who)
    <3> PICK w : w = who
      OBVIOUS
    <3>1. /\ w \in Handlers /\ NewToAll(w) /\ w # None
          /\ ToSet(handlers') = ToSet(handlers) \cup {w}
      <4>1. w \in Handlers /\ handlers \in Seq(Handlers)
        BY <1>4 DEF Initialised, InPlace, TypeOK
      <4>2. NewToAll(w)
        BY <1>4 DEF Initialised, ComesOnce, Coming
      <4> QED
        BY <2>1, <4>1, <4>2, AppendAdds, GenEventAssumption
    <3>2. /\ UNCHANGED <<event, left, events>>
          /\ since' = [since EXCEPT ![w] = events] /\ seen' = [seen EXCEPT ![w] = <<>>]
      <4>1. handlers' # handlers
        BY <2>1, <3>1 DEF NewToAll
      <4> QED
        BY <1>4, <4>1 DEF Initialised
    <3>3. UpToDate(w)'
      <4>1. ~Pending(w)'
        <5>1. left \in Seq(Handlers)
          BY DEF TypeOK
        <5>2. ~Contains(left, w)
          BY <3>1, <5>1, ContainsIsIn DEF NewToAll
        <5> QED
          BY <3>2, <5>2 DEF Pending
      <4>2. since'[w] = events /\ seen'[w] = <<>>
        BY <3>1, <3>2 DEF TypeOK
      <4>3. Run(events, 0) = <<>>
        BY DEF Run
      <4>4. events \in Nat /\ events - events - 0 = 0
        BY DEF TypeOK
      <4>5. events' - since'[w] - (IF Pending(w)' THEN 1 ELSE 0) = 0
        BY <3>2, <4>1, <4>2, <4>4
      <4>6. Given(w)'
        BY <4>2, <4>3, <4>5 DEF Given
      <4> QED
        BY <3>2, <4>1, <4>2, <4>4, <4>6 DEF UpToDate
    <3>4. ASSUME NEW h \in ToSet(handlers), h # w PROVE UpToDate(h)'
      <4>1. since'[h] = since[h] /\ seen'[h] = seen[h] /\ Pending(h)' = Pending(h)
        BY <1>2, <3>2, <3>4 DEF Pending, TypeOK
      <4> QED
        BY <3>2, <4>1 DEF UpToDate, Given
    <3> QED
      BY <3>1, <3>3, <3>4
  <2>2. CASE UNCHANGED <<handlers, since, seen, lives>>
    BY <1>3, <1>4, <2>2 DEF Initialised
  <2> QED
    BY <1>4, <2>1, <2>2 DEF Initialised
<1>5. CASE HandlerReturns
  <2>1. Installed(who) /\ UNCHANGED <<event, events, since, seen>>
    BY <1>5 DEF HandlerReturns, InPlace
  <2> QED
    BY <1>1, <1>3, <1>5, <2>1, SameEvents DEF HandlerReturns
<1>6. CASE TakeDelete \/ TakeSwap
  BY <1>1, <1>3, <1>6, SameEvents DEF TakeDelete, TakeSwap
<1>7. CASE TakeNotify
  <2>1. /\ event = 0 /\ event' = events + 1 /\ events' = events + 1
        /\ left' = handlers /\ UNCHANGED <<handlers, since, seen>>
    BY <1>7 DEF TakeNotify, Takes, InPlace
  <2>2. SUFFICES ASSUME NEW h \in ToSet(handlers) PROVE UpToDate(h)'
    BY <2>1
  <2>3. Pending(h)' /\ ~Pending(h)
    BY <2>1, ContainsIsIn DEF Pending, TypeOK
  <2>4. /\ since[h] \in Nat /\ events \in Nat
        /\ since[h] <= events /\ seen[h] = Run(since[h], events - since[h] - 0)
    BY <1>2, <2>3 DEF UpToDate, Given, TypeOK
  <2>5. events - since[h] - 0 = (events + 1) - since[h] - 1
    BY <2>4
  <2> QED
    BY <2>1, <2>3, <2>4, <2>5 DEF UpToDate, Given
<1>8. CASE NextHandler
  <2> PICK f : f = Head(left)
    OBVIOUS
  <2>1. /\ left # <<>> /\ left' = Tail(left) /\ event # 0 /\ event = events
        /\ UNCHANGED <<handlers, event, events, since>>
    BY <1>8 DEF NextHandler, InPlace
  <2>2. /\ f \in Handlers /\ f \notin ToSet(left')
        /\ ToSet(left) = ToSet(left') \cup {f}
    BY <2>1, TailLeaves DEF NoneTwice, TypeOK
  <2>3. \A h : (Pending(h) <=> h \in ToSet(left)) /\ (Pending(h)' <=> h \in ToSet(left'))
    BY <2>1, ContainsIsIn DEF Pending, TypeOK
  <2>4. SUFFICES ASSUME NEW h \in ToSet(handlers) PROVE UpToDate(h)'
    BY <2>1
  <2>5. h \in Handlers /\ UpToDate(h)
    BY <1>2
  <2>6. CASE h # f
    <3>1. seen'[h] = seen[h] /\ Pending(h)' = Pending(h)
      BY <1>8, <2>2, <2>3, <2>5, <2>6 DEF NextHandler, TypeOK, Pending
    <3> QED
      BY <2>1, <2>5, <3>1 DEF UpToDate, Given
  <2>7. CASE h = f
    <3>1. Installed(f) /\ Pending(f) /\ ~Pending(f)'
      <4>1. f \in ToSet(handlers) /\ handlers \in Seq(Handlers)
        BY <2>7 DEF TypeOK
      <4>2. Installed(f)
        BY <4>1, ContainsIsIn DEF Installed
      <4> QED
        BY <2>2, <2>3, <4>2
    <3>2. seen'[f] = Append(seen[f], event)
      BY <1>8, <2>2, <3>1 DEF NextHandler, TypeOK
    <3>3. /\ since[f] \in Nat /\ events \in Nat /\ since[f] < events
          /\ seen[f] = Run(since[f], events - since[f] - 1)
      BY <2>2, <2>5, <2>7, <3>1 DEF UpToDate, Given, TypeOK
    <3>4. Append(seen[f], event) = Run(since[f], events - since[f])
      <4>1. /\ events - since[f] - 1 \in Nat
            /\ since[f] + (events - since[f] - 1) + 1 = events
            /\ (events - since[f] - 1) + 1 = events - since[f]
        BY <3>3
      <4> QED
        BY <2>1, <3>3, <4>1, RunGoesOn
    <3>5. events - since[f] - 0 = events - since[f]
      BY <3>3
    <3>6. events' - since'[f] - (IF Pending(f)' THEN 1 ELSE 0) = events - since[f]
      BY <2>1, <3>1, <3>5
    <3>7. Given(f)'
      BY <2>1, <3>2, <3>4, <3>6 DEF Given
    <3> QED
      BY <2>1, <2>7, <3>1, <3>3, <3>7 DEF UpToDate
  <2> QED
    BY <2>6, <2>7
<1>9. CASE Dispatched
  <2>1. left = <<>> /\ event' = 0 /\ UNCHANGED <<left, events, since, seen, handlers>>
    BY <1>9 DEF Dispatched, history
  <2>2. \A h : Pending(h)' = FALSE /\ Pending(h) = FALSE
    BY <2>1 DEF Pending, Contains
  <2> QED
    BY <2>1, <2>2 DEF UpToDate, Given
<1>10. CASE TakeStop \/ EndOfStream \/ CloseNext \/ Closed
  <2>1. /\ event = 0 /\ UNCHANGED <<event, events, since, seen>>
        /\ handlers' \in {handlers, <<>>}
    BY <1>10 DEF TakeStop, EndOfStream, CloseNext, Closed, Takes, InPlace, history
  <2> QED
    BY <1>2, <2>1, SameEvents
<1> QED
  BY <1>3, <1>4, <1>5, <1>6, <1>7, <1>8, <1>9, <1>10
  DEF Next, Step, AllOver, Asks, Kill, Terminated, TakeAdd, TakeCall, vars, place, history

-----------------------------------------------------------------------------
(* Every step keeps all of it.                                               *)
LEMMA InductiveInvariant ==
  ASSUME Reused = FALSE
  PROVE  Spec => []IInv
<1>1. IInv <=> /\ Shape /\ OnlyTheseLive
               /\ \A h \in ToSet(handlers) : UpToDate(h)
  BY DEF IInv, SinceBefore, EveryEventOnce, UpToDate, Given, Run
<1>2. IInv /\ [Next]_vars => IInv'
  <2> SUFFICES ASSUME IInv, [Next]_vars PROVE IInv'
    OBVIOUS
  <2>1. Shape'
    BY <1>1, TypeStep, NewStep DEF Shape, Newness
  <2>2. OnlyTheseLive'
    BY <1>1, LiveStep
  <2>3. \A h \in ToSet(handlers') : UpToDate(h)'
    BY <1>1, <2>1, EventStep DEF Shape
  <2> QED
    BY <2>1, <2>2, <2>3 DEF IInv, SinceBefore, EveryEventOnce, UpToDate, Given, Run
<1> QED
  BY InitIInv, <1>2, PTL DEF Spec

(* Where every swap brings an object of its own, a handler lives from its    *)
(* init() to its terminate(), neither of which is repeated; only a living    *)
(* one gets events and calls, and a stop() leaves none behind.               *)
THEOREM HandlersLiveOnce ==
  ASSUME Reused = FALSE
  PROVE  Spec => []OneLifeAtATime
<1>1. IInv => OneLifeAtATime
  <2> SUFFICES ASSUME IInv PROVE OneLifeAtATime
    OBVIOUS
  <2>1. \A h \in Handlers : lives[h] = IF h \in Living THEN 1 ELSE 0
    BY DEF IInv, OnlyTheseLive
  <2>2. ASSUME at \in {"event", "call"} PROVE lives[who] = 1
    <3>1. who \in Handlers /\ who \in ToSet(handlers) /\ ~polite
      BY <2>2, ContainsIsIn DEF IInv, Shape, InPlace, Installed, TypeOK
    <3> QED
      BY <2>1, <3>1 DEF Living
  <2>3. ASSUME at = "ended", polite PROVE Living = {}
    BY <2>3 DEF IInv, Shape, InPlace, Living, ToSet
  <2> QED
    BY <2>1, <2>2, <2>3 DEF OneLifeAtATime
<1> QED
  BY InductiveInvariant, <1>1, PTL

(* Where every swap brings an object of its own, a handler gets every event  *)
(* that is dispatched while it is in the table, once and in order, whatever  *)
(* the callbacks of the others add, remove or swap during the dispatch.      *)
THEOREM HandlersGetEveryEvent ==
  ASSUME Reused = FALSE
  PROVE  Spec => []EveryEventOnce
<1>1. IInv => EveryEventOnce
  BY DEF IInv
<1> QED
  BY InductiveInvariant, <1>1, PTL
=============================================================================
