-------------------------- MODULE Supervisor_proofs --------------------------
(***************************************************************************)
(* Proofs about Supervisor, DynamicSupervisor and SupervisorGroup, for any *)
(* ids, children, restart types, strategies, tasks, clients and calls: a   *)
(* child has one process at a time, a DynamicSupervisor returns after its  *)
(* children, and a group is started again only when the old one, as far as *)
(* the manager still has it, has come and gone, and is stopped in reverse  *)
(* order.                                                                  *)
(***************************************************************************)
EXTENDS DynamicSupervisor, SupervisorGroup, TLAPS, SequenceTheorems, WellFoundedInduction,
        FiniteSetTheorems, FunctionTheorems

Runs == {"live", "stopping", "killed", "dying"}
Active(t) == at[t] \in {"starting", "watching"}

(* What the proofs need of the types. *)
Types ==
    /\ specs \in Seq(Ids) /\ todo \in Seq(Ids) /\ snapshot \in Seq(Ids)
    /\ children \in [Ids -> Tasks \cup {None}]
    /\ id \in [Tasks -> Ids \cup {None}]
    /\ at \in [Tasks -> {"none", "starting", "watching", "done"}]
    /\ gen \in [Tasks -> Nat]
    /\ child \in [Tasks -> Runs \cup {"none", "stopped"}]
    /\ redone \subseteq Ids

(* A task that is new has had no process, one that is not has an id; the     *)
(* entry of an id is a task that runs it.                                    *)
Started ==
    /\ \A t \in Tasks : /\ at[t] # "none" => id[t] \in Ids
                        /\ at[t] = "none" => gen[t] = 0
                        /\ child[t] = "none" <=> gen[t] = 0
    /\ \A i \in Ids : children[i] # None => id[children[i]] = i /\ gen[children[i]] > 0

(* The id of a task that goes on is in use, so that start_child refuses it,  *)
(* and it has no other task.                                                 *)
Hosted ==
    /\ \A t \in Tasks : Active(t) /\ id[t] \notin redone => InSpecs(id[t])
    /\ \A t, u \in Tasks :
          Active(t) /\ Active(u) /\ id[t] = id[u] /\ id[t] \notin redone => t = u

Core == Types /\ Started /\ Hosted /\ OneProcessPerId

(* When the group was cancelled, or is gone: nothing is started any more.    *)
Closed == sup \in {"seed_failed", "aborting", "aborted", "stopped"} \/ stop = "seed_failed"

(* Until then a process runs only under a task that watches it.              *)
AnyActive == \E t \in Tasks : Active(t)
Uncovered == \E t \in Tasks : Running(t) /\ at[t] # "watching"
Sealed    == (Closed => ~AnyActive) /\ (Uncovered => Closed)

IInv == Core /\ Sealed

(* What the order of a shutdown rests on.  An id has one spec, and while the *)
(* group is open an entry is that of a process somebody watches.             *)
NoTwice == \A m, n \in DOMAIN specs : specs[m] = specs[n] => m = n
Watched ==
    ~Closed => \A i \in Ids : children[i] # None /\ i \notin redone => at[children[i]] = "watching"

(* terminate() has come to the child at this place of its snapshot. *)
Passed == Len(snapshot) - Len(todo)

(* What it has left is the end of the snapshot; that goes down the specs as  *)
(* they are by now; the ids in it keep their specs and are not started;      *)
(* those it has passed have stopped; and it waits for the last of them.      *)
Suffix   == /\ Len(todo) <= Len(snapshot)
            /\ \A n \in DOMAIN todo : todo[n] = snapshot[Passed + n]
Reversed == \A p, q \in DOMAIN snapshot : \A m, n \in DOMAIN specs :
               p < q /\ m < n /\ specs[m] = snapshot[p] /\ specs[n] = snapshot[q]
                   => specs[n] \in redone
Staying  == \A p \in DOMAIN snapshot :
               snapshot[p] \notin redone =>
                   /\ InSpecs(snapshot[p])
                   /\ \A t \in Tasks : at[t] = "starting" => id[t] # snapshot[p]
Gone     == \A p \in DOMAIN snapshot :
               /\ snapshot[p] \notin redone
               /\ p < Passed \/ (p = Passed /\ sup = "terminate")
               /\ children[snapshot[p]] # None
               => ~Running(children[snapshot[p]])
Waiting  == sup = "wait" =>
               /\ wait.task \in Tasks /\ at[wait.task] # "none"
               /\ Passed > 0 /\ id[wait.task] = snapshot[Passed]
               /\ id[wait.task] \in redone
                  \/ (wait.gen = gen[wait.task] /\ children[id[wait.task]] \in {wait.task, None})
Descent  == sup \in {"terminate", "wait"} =>
               terminating /\ Suffix /\ Reversed /\ Staying /\ Gone /\ Waiting

OInv == IInv /\ NoTwice /\ Watched /\ Descent

(* Until terminate() is over a running process has its entry, or             *)
(* terminate_child has dropped it.  That call drops the entry of an id it    *)
(* has marked, or that has no task any more; it cannot be under way before   *)
(* the seeds are up, nor after they have failed.                             *)
Early   == sup \in {"seeding", "seed_failed"} \/ stop = "seed_failed"
Entered == sup \in {"seeding", "seed_failed", "loop", "closing", "terminate", "wait"} =>
               \A t \in Tasks : Running(t) /\ id[t] \notin redone =>
                   children[id[t]] = t \/ DroppedEntry(id[t])
Marked(i)  == InSpecs(i) /\ (i \in preserve \/ \A t \in Tasks : id[t] = i => ~Active(t))
DropsMarked == \A c \in Clients : client[c].op = "terminate" =>
                  ~Early /\ (client[c].id \in redone \/ Marked(client[c].id))
IsFunction == client = [c \in Clients |-> client[c]]

EInv == Entered /\ DropsMarked /\ IsFunction

(* Of the two classes: a DynamicSupervisor does not seed, and its tasks go   *)
(* on until it was cancelled or an exception has left its loop.              *)
DClosed == IF class = "Supervisor" THEN Closed
                                   ELSE loop = "raised" \/ sup \in {"aborting", "aborted"}
Unseeded ==
    /\ class \in {"Supervisor", "DynamicSupervisor"}
    /\ class = "Supervisor" => loop = "in"
    /\ class = "DynamicSupervisor" =>
          sup \notin {"seeding", "seed_failed"} /\ stop # "seed_failed"
    /\ loop = "returned" => sup = "stopped" /\ ~AnyActive
DSealed == (DClosed => ~AnyActive) /\ (Uncovered => DClosed)

DInv == Core /\ Unseeded /\ DSealed

-----------------------------------------------------------------------------
(* Keep, by induction on the length of its argument. *)

(* A set of numbers that is not empty has a least one. *)
LEMMA LeastNumber ==
  ASSUME NEW N \in SUBSET Nat, N # {}
  PROVE  \E n \in N : \A m \in N : n <= m
<1> DEFINE R == OpToRel(<, Nat)
<1>1. \E n \in N : \A m \in N : ~ (<<m, n>> \in R)
  BY NatLessThanWellFounded, WFMin
<1>2. \A m, n \in Nat : m < n => <<m, n>> \in R
  BY DEF OpToRel
<1> HIDE DEF R
<1>3. PICK n \in N : \A m \in N : ~ (<<m, n>> \in R)
  BY <1>1
<1>4. \A m \in N : ~ (m < n)
  BY <1>2, <1>3, Zenon
<1>5. \A m \in N : n <= m
  BY <1>4
<1> QED
  BY <1>5

(* g computes Keep for the first n elements of s. *)
Keeps(g, s, S, n) ==
    g = [m \in 0..n |-> IF m = 0 THEN <<>>
                        ELSE IF s[m] \in S THEN Append(g[m - 1], s[m]) ELSE g[m - 1]]

(* Keep is well defined. *)
LEMMA KeepExists ==
  ASSUME NEW s, NEW S, NEW len \in Nat PROVE \E g : Keeps(g, s, S, len)
<1> DEFINE Bad == {n \in Nat : ~ \E g : Keeps(g, s, S, n)}
<1> SUFFICES ASSUME Bad # {} PROVE FALSE
  OBVIOUS
<1>1. PICK n \in Bad : \A m \in Bad : n <= m
  BY LeastNumber
<1>2. CASE n = 0
  <2> DEFINE g == [m \in 0..0 |-> <<>>]
  <2>1. g = [m \in 0..0 |-> IF m = 0 THEN <<>>
                        ELSE IF s[m] \in S THEN Append(g[m - 1], s[m]) ELSE g[m - 1]]
    OBVIOUS
  <2> QED
    BY <1>2, <2>1 DEF Keeps
<1>3. CASE n # 0
  <2>1. n - 1 \in Nat /\ n - 1 \notin Bad
    BY <1>1, <1>3
  <2>2. PICK g : Keeps(g, s, S, n - 1)
    BY <2>1
  <2> DEFINE top == IF s[n] \in S THEN Append(g[n - 1], s[n]) ELSE g[n - 1]
             h == [m \in 0..n |-> IF m = n THEN top ELSE g[m]]
             hh == [m \in 0..n |-> IF m = 0 THEN <<>>
                        ELSE IF s[m] \in S THEN Append(h[m - 1], s[m]) ELSE h[m - 1]]
  <2>3. ASSUME NEW m \in 0..n PROVE h[m] = hh[m]
    <3>1. CASE m = n
      BY <1>3, <2>1, <3>1
    <3>2. CASE m # n
      <4>1. m \in 0 .. n - 1 /\ (m # 0 => m - 1 \in 0 .. n /\ m - 1 # n)
        BY <3>2, <2>1
      <4>2. g[m] = IF m = 0 THEN <<>>
                        ELSE IF s[m] \in S THEN Append(g[m - 1], s[m]) ELSE g[m - 1]
        BY <2>2, <4>1 DEF Keeps
      <4> QED BY <3>2, <4>1, <4>2
    <3> QED BY <3>1, <3>2
  <2>4. h = hh
    BY <2>3, Zenon
  <2>5. Keeps(h, s, S, n)
    BY <2>4 DEF Keeps
  <2> QED BY <2>5
<1> QED BY <1>2, <1>3

(* It is what its recursion says. *)
LEMMA KeepIs ==
  ASSUME NEW s, NEW S, Len(s) \in Nat PROVE \E g : Keeps(g, s, S, Len(s)) /\ Keep(s, S) = g[Len(s)]
<1> DEFINE g == CHOOSE f : Keeps(f, s, S, Len(s))
<1>1. Keeps(g, s, S, Len(s))
  BY KeepExists
<1>2. Keep(s, S) = g[Len(s)]
  BY Zenon DEF Keep, Keeps
<1> QED
  BY <1>1, <1>2

(* It keeps the elements that are in S, and no others. *)
LEMMA KeepProperties ==
  ASSUME NEW T, NEW s \in Seq(T), NEW S
  PROVE  /\ Keep(s, S) \in Seq(T)
         /\ \A i \in DOMAIN Keep(s, S) : Keep(s, S)[i] \in S
         /\ \A e : (\E i \in DOMAIN Keep(s, S) : Keep(s, S)[i] = e)
                       <=> e \in S /\ \E i \in DOMAIN s : s[i] = e
<1>1. PICK g : Keeps(g, s, S, Len(s)) /\ Keep(s, S) = g[Len(s)]
  BY KeepIs
<1> DEFINE Good(n) == /\ g[n] \in Seq(T)
                      /\ \A e : (\E i \in DOMAIN g[n] : g[n][i] = e)
                                    <=> e \in S /\ \E i \in 1..n : s[i] = e
           Bad == {n \in 0..Len(s) : ~Good(n)}
<1>2. Bad = {}
  <2> SUFFICES ASSUME Bad # {} PROVE FALSE
    OBVIOUS
  <2>0. Bad \in SUBSET Nat
    OBVIOUS
  <2> HIDE DEF Bad
  <2>1. PICK n \in Bad : \A m \in Bad : n <= m
    BY <2>0, LeastNumber
  <2> USE DEF Bad
  <2>2. n \in 0..Len(s) /\ Len(s) \in Nat
    OBVIOUS
  <2>3. g[n] = IF n = 0 THEN <<>> ELSE IF s[n] \in S THEN Append(g[n - 1], s[n]) ELSE g[n - 1]
    BY <1>1, <2>2 DEF Keeps
  <2>4. CASE n = 0
    <3>1. Good(n)
      BY <2>3, <2>4, EmptySeq
    <3> QED BY <3>1
  <2>5. CASE n # 0
    <3>0. n - 1 \in 0..Len(s) /\ n - 1 \notin Bad
      <4> HIDE DEF Bad
      <4> QED
        BY <2>1, <2>2, <2>5
    <3>1. n - 1 \in 0..Len(s) /\ Good(n - 1)
      <4> HIDE DEF Good
      <4> QED
        BY <3>0
    <3>2. n \in 1..Len(s) /\ s[n] \in T /\ 1..n = (1..n-1) \cup {n}
      BY <2>2, <2>5
    <3>3. CASE s[n] \notin S
      <4>1. g[n] = g[n - 1]
        BY <2>3, <2>5, <3>3
      <4>2. Good(n)
        BY <3>1, <3>2, <3>3, <4>1
      <4> QED BY <4>2
    <3>4. CASE s[n] \in S
      <4> DEFINE q == g[n - 1]
      <4>1. g[n] = Append(q, s[n]) /\ q \in Seq(T)
        BY <2>3, <2>5, <3>1, <3>4
      <4> HIDE DEF q
      <4>2. /\ Append(q, s[n]) \in Seq(T)
            /\ Len(Append(q, s[n])) = Len(q) + 1 /\ Len(q) \in Nat
            /\ DOMAIN Append(q, s[n]) = 1..Len(q)+1 /\ DOMAIN q = 1..Len(q)
            /\ \A i \in 1..Len(q) : Append(q, s[n])[i] = q[i]
            /\ Append(q, s[n])[Len(q) + 1] = s[n]
        BY <3>2, <4>1, AppendProperties
      <4>3. ASSUME NEW e
            PROVE  (\E i \in DOMAIN g[n] : g[n][i] = e) <=> (\E i \in DOMAIN q : q[i] = e) \/ e = s[n]
        BY <4>1, <4>2
      <4>4. ASSUME NEW e
            PROVE  (\E i \in DOMAIN q : q[i] = e) <=> e \in S /\ \E i \in 1..n-1 : s[i] = e
        BY <3>1 DEF q
      <4>5. Good(n)
        BY <4>1, <4>2, <4>3, <4>4, <3>2, <3>4
      <4> QED BY <4>5
    <3> QED BY <3>3, <3>4
  <2> QED BY <2>4, <2>5
<1>3. Len(s) \in 0..Len(s) /\ DOMAIN s = 1..Len(s)
  OBVIOUS
<1>4. Good(Len(s))
  BY <1>2, <1>3
<1> QED
  BY <1>1, <1>3, <1>4

(* It keeps their order. *)
LEMMA KeepOrder ==
  ASSUME NEW T, NEW s \in Seq(T), NEW S
  PROVE  \A a, b \in DOMAIN Keep(s, S) :
             a < b => \E m, n \in DOMAIN s : m < n /\ s[m] = Keep(s, S)[a] /\ s[n] = Keep(s, S)[b]
<1>1. PICK g : Keeps(g, s, S, Len(s)) /\ Keep(s, S) = g[Len(s)]
  BY KeepIs
<1> DEFINE Good(n) == /\ g[n] \in Seq(T)
                      /\ \A a \in DOMAIN g[n] : \E l \in 1..n : s[l] = g[n][a]
                      /\ \A a, b \in DOMAIN g[n] :
                            a < b => \E l, m \in 1..n : l < m /\ s[l] = g[n][a] /\ s[m] = g[n][b]
           Bad == {n \in 0..Len(s) : ~Good(n)}
<1>2. Bad = {}
  <2> SUFFICES ASSUME Bad # {} PROVE FALSE
    OBVIOUS
  <2>0. Bad \in SUBSET Nat
    OBVIOUS
  <2> HIDE DEF Bad
  <2>1. PICK n \in Bad : \A m \in Bad : n <= m
    BY <2>0, LeastNumber
  <2> USE DEF Bad
  <2>2. n \in 0..Len(s) /\ Len(s) \in Nat
    OBVIOUS
  <2>3. g[n] = IF n = 0 THEN <<>> ELSE IF s[n] \in S THEN Append(g[n - 1], s[n]) ELSE g[n - 1]
    BY <1>1, <2>2 DEF Keeps
  <2>4. CASE n = 0
    <3>1. Good(n)
      BY <2>3, <2>4, EmptySeq
    <3> QED BY <3>1
  <2>5. CASE n # 0
    <3>0. n - 1 \in 0..Len(s) /\ n - 1 \notin Bad
      <4> HIDE DEF Bad
      <4> QED
        BY <2>1, <2>2, <2>5
    <3>1. n - 1 \in 0..Len(s) /\ Good(n - 1)
      <4> HIDE DEF Good
      <4> QED
        BY <3>0
    <3>2. n \in 1..Len(s) /\ s[n] \in T /\ 1..n = (1..n-1) \cup {n} /\ \A l \in 1..n-1 : l < n
      BY <2>2, <2>5
    <3> DEFINE q == g[n - 1]
    <3>3. /\ q \in Seq(T) /\ \A a \in DOMAIN q : \E l \in 1..n-1 : s[l] = q[a]
          /\ \A a, b \in DOMAIN q : a < b => \E l, m \in 1..n-1 : l < m /\ s[l] = q[a] /\ s[m] = q[b]
      BY <3>1
    <3>4. g[n] = IF s[n] \in S THEN Append(q, s[n]) ELSE q
      BY <2>3, <2>5
    <3> HIDE DEF q
    <3>5. CASE s[n] \notin S
      <4>1. g[n] = q /\ \A l \in 1..n-1 : l \in 1..n
        BY <3>2, <3>4, <3>5
      <4>2. \A a \in DOMAIN q : \E l \in 1..n : s[l] = q[a]
        BY <3>3, <4>1
      <4>4. ASSUME NEW a \in DOMAIN q, NEW b \in DOMAIN q, a < b
            PROVE  \E l, m \in 1..n : l < m /\ s[l] = q[a] /\ s[m] = q[b]
        <5>1. PICK l \in 1..n-1, m \in 1..n-1 : l < m /\ s[l] = q[a] /\ s[m] = q[b]
          BY <3>3, <4>4
        <5> QED BY <4>1, <5>1
      <4>3. Good(n)
        BY <3>3, <4>1, <4>2, <4>4
      <4> QED BY <4>3
    <3>6. CASE s[n] \in S
      <4>1. /\ Append(q, s[n]) \in Seq(T) /\ Len(q) \in Nat
            /\ DOMAIN Append(q, s[n]) = 1..Len(q)+1 /\ DOMAIN q = 1..Len(q)
            /\ \A i \in 1..Len(q) : Append(q, s[n])[i] = q[i]
            /\ Append(q, s[n])[Len(q) + 1] = s[n]
        BY <3>2, <3>3, AppendProperties
      <4>2. PICK h : h = g[n] /\ h = Append(q, s[n])
        BY <3>4, <3>6
      <4>3. \A a \in DOMAIN h : \E l \in 1..n : s[l] = h[a]
        BY <3>2, <3>3, <4>1, <4>2
      <4>4. ASSUME NEW a \in DOMAIN h, NEW b \in DOMAIN h, a < b
            PROVE  \E l, m \in 1..n : l < m /\ s[l] = h[a] /\ s[m] = h[b]
        <5>1. a \in 1..Len(q) /\ h[a] = q[a]
          BY <4>1, <4>2, <4>4
        <5>2. CASE b \in 1..Len(q)
          BY <3>2, <3>3, <4>1, <4>2, <4>4, <5>1, <5>2
        <5>3. CASE b = Len(q) + 1
          BY <3>2, <3>3, <4>1, <4>2, <5>1, <5>3
        <5> QED BY <4>1, <4>2, <5>2, <5>3
      <4>5. Good(n)
        BY <4>1, <4>2, <4>3, <4>4
      <4> QED BY <4>5
    <3> QED BY <3>5, <3>6
  <2> QED BY <2>4, <2>5
<1>3. Len(s) \in 0..Len(s) /\ DOMAIN s = 1..Len(s)
  OBVIOUS
<1>4. Good(Len(s))
  BY <1>2, <1>3
<1>5. PICK k : k = g[Len(s)]
  OBVIOUS
<1>6. \A a, b \in DOMAIN k :
          a < b => \E l, m \in 1..Len(s) : l < m /\ s[l] = k[a] /\ s[m] = k[b]
  BY <1>4, <1>5
<1>7. \A a, b \in DOMAIN k : a < b => \E l, m \in DOMAIN s : l < m /\ s[l] = k[a] /\ s[m] = k[b]
  BY <1>3, <1>6
<1>8. k = Keep(s, S)
  BY <1>1, <1>5
<1> HIDE DEF Good, Bad
<1> QED
  BY <1>7, <1>8

-----------------------------------------------------------------------------
(* The order of the specs. *)

(* A spec is taken out, the others stay. *)
LEMMA WithoutOne ==
  ASSUME specs \in Seq(Ids), NEW i
  PROVE  /\ Without(i) \in Seq(Ids)
         /\ \A j : (\E n \in DOMAIN Without(i) : Without(i)[n] = j) <=> j # i /\ InSpecs(j)
<1>0. PICK S : S = Ids \ {i}
  OBVIOUS
<1> DEFINE k == Keep(specs, S)
<1>1. k \in Seq(Ids)
  BY KeepProperties
<1>2. \A j : (\E n \in DOMAIN k : k[n] = j) <=> j \in S /\ \E n \in DOMAIN specs : specs[n] = j
  BY KeepProperties
<1>3. \A n \in DOMAIN specs : specs[n] \in Ids
  BY ElementOfSeq
<1>4. \A j : (\E n \in DOMAIN k : k[n] = j) <=> j # i /\ \E n \in DOMAIN specs : specs[n] = j
  <2> HIDE DEF k
  <2> QED
    BY <1>0, <1>2, <1>3
<1> QED
  BY <1>0, <1>1, <1>4 DEF Without, InSpecs

(* A new spec is the last. *)
LEMMA WithOneMore ==
  ASSUME specs \in Seq(Ids), NEW i \in Ids
  PROVE  /\ Append(Without(i), i) \in Seq(Ids)
         /\ \A j : (\E n \in DOMAIN Append(Without(i), i) : Append(Without(i), i)[n] = j)
                       <=> j = i \/ InSpecs(j)
<1> DEFINE w == Without(i)
<1>1. /\ w \in Seq(Ids)
      /\ \A j : (\E n \in DOMAIN w : w[n] = j) <=> j # i /\ InSpecs(j)
  BY WithoutOne
<1> HIDE DEF w
<1>2. /\ Append(w, i) \in Seq(Ids)
      /\ DOMAIN w = 1..Len(w) /\ Len(w) \in Nat
      /\ DOMAIN Append(w, i) = 1..(Len(w) + 1)
      /\ Append(w, i)[Len(w) + 1] = i
      /\ \A n \in 1..Len(w) : Append(w, i)[n] = w[n]
  BY <1>1, AppendProperties
<1>3. \A j : (\E n \in DOMAIN Append(w, i) : Append(w, i)[n] = j)
                 <=> j = i \/ \E n \in DOMAIN w : w[n] = j
  BY <1>2
<1>4. \A j : (\E n \in DOMAIN Append(w, i) : Append(w, i)[n] = j) <=> j = i \/ InSpecs(j)
  BY <1>1, <1>3, Zenon
<1> QED
  BY <1>2, <1>4 DEF w

(* What terminate() goes through are ids that have an entry. *)
LEMMA ShutdownOrderType ==
  ASSUME specs \in Seq(Ids)
  PROVE  /\ ShutdownOrder \in Seq(Ids)
         /\ \A n \in DOMAIN ShutdownOrder : children[ShutdownOrder[n]] # None
<1> DEFINE S == {i \in Ids : children[i] # None}
           r == RunningIds
<1>1. r \in Seq(Ids) /\ \A n \in DOMAIN r : r[n] \in S
  BY KeepProperties DEF RunningIds
<1>2. r = RunningIds
  OBVIOUS
<1> HIDE DEF S, r
<1>3. Len(r) \in Nat /\ DOMAIN r = 1..Len(r)
  BY <1>1
<1>4. \A n \in 1..Len(r) : Len(r) + 1 - n \in 1..Len(r)
  BY <1>3
<1>5. ShutdownOrder = [n \in 1..Len(r) |-> r[Len(r) + 1 - n]]
  BY <1>2, <1>3 DEF ShutdownOrder
<1>6. \A n \in 1..Len(r) : r[Len(r) + 1 - n] \in S
  BY <1>1, <1>3, <1>4
<1>7. ShutdownOrder \in [1..Len(r) -> Ids]
  BY <1>5, <1>6 DEF S
<1>8. ShutdownOrder \in Seq(Ids)
  BY <1>3, <1>7, IsASeq
<1>9. \A n \in DOMAIN ShutdownOrder : children[ShutdownOrder[n]] # None
  BY <1>5, <1>6 DEF S
<1> QED
  BY <1>8, <1>9

-----------------------------------------------------------------------------
(* Steps that start nothing.  Tasks go on, wait to start again or end;       *)
(* entries go; a process does not come to life; the spec of an id goes only  *)
(* with its last task, or by delete_child.                                   *)

Quietly ==
    /\ id' = id /\ gen' = gen
    /\ redone' \subseteq Ids /\ redone \subseteq redone'
    /\ at' \in [Tasks -> {"none", "starting", "watching", "done"}]
    /\ \A t \in Tasks : \/ at'[t] = at[t]
                        \/ at[t] # "none" /\ at'[t] = "done"
                        \/ at[t] = "watching" /\ at'[t] = "starting"
    /\ children' \in [Ids -> Tasks \cup {None}]
    /\ \A i \in Ids : children'[i] \in {children[i], None}
    /\ child' \in [Tasks -> Runs \cup {"none", "stopped"}]
    /\ \A t \in Tasks : child'[t] = child[t] \/ (child[t] \in Runs /\ child'[t] # "none")
    /\ specs' \in Seq(Ids)
    /\ \A i \in Ids : InSpecs(i) => \/ InSpecs(i)' \/ i \in redone'
                                    \/ /\ ~terminating
                                       /\ \A t \in Tasks : Active(t)' => id[t] # i
    /\ todo' \in Seq(Ids) /\ snapshot' \in Seq(Ids)

(* A running process is in one of the states of Runs. *)
LEMMA RunningIn == \A t : Running(t) <=> child[t] \in Runs
  BY DEF Running, Runs

(* They keep one process for each id. *)
LEMMA QuietlyKeepsCore ==
  ASSUME Core, Quietly PROVE Core'
<1>1. Types'
  BY DEF Core, Types, Quietly
<1>2. \A t \in Tasks : (at'[t] = "none" <=> at[t] = "none") /\ (Active(t)' => Active(t))
  BY DEF Core, Types, Quietly, Active
<1>3. \A t \in Tasks : child'[t] = "none" <=> child[t] = "none"
  BY DEF Quietly, Runs
<1>4. \A t \in Tasks : Running(t)' => Running(t)
  BY DEF Quietly, Running, Runs
<1>5. Started'
  <2>1. \A t \in Tasks : /\ at'[t] # "none" => id'[t] \in Ids
                         /\ at'[t] = "none" => gen'[t] = 0
                         /\ child'[t] = "none" <=> gen'[t] = 0
    BY <1>2, <1>3 DEF Core, Started, Quietly
  <2>2. \A i \in Ids : children'[i] # None => id'[children'[i]] = i /\ gen'[children'[i]] > 0
    BY DEF Core, Started, Quietly
  <2> QED
    BY <2>1, <2>2 DEF Started
<1>6. Hosted'
  <2>1. ASSUME NEW t \in Tasks, Active(t)', id'[t] \notin redone'
        PROVE  InSpecs(id[t])'
    <3>1. PICK i : i = id[t]
      OBVIOUS
    <3>2. id'[t] = i /\ i \notin redone /\ i \notin redone' /\ Active(t)
      BY <1>2, <2>1, <3>1 DEF Quietly
    <3>3. at[t] # "none"
      BY <3>2 DEF Active
    <3>4. i \in Ids /\ InSpecs(i)
      BY <3>1, <3>2, <3>3 DEF Core, Started, Hosted
    <3>5. InSpecs(i)'
      BY <2>1, <3>1, <3>2, <3>4 DEF Quietly
    <3> QED
      BY <3>2, <3>5 DEF InSpecs
  <2>2. ASSUME NEW t \in Tasks, NEW u \in Tasks, Active(t)', Active(u)',
               id'[t] = id'[u], id'[t] \notin redone'
        PROVE  t = u
    <3>1. Active(t) /\ Active(u) /\ id[t] = id[u] /\ id[t] \notin redone
      BY <1>2, <2>2 DEF Quietly
    <3> QED
      BY <3>1 DEF Core, Hosted
  <2> QED
    BY <2>1, <2>2 DEF Hosted
<1>7. OneProcessPerId'
  BY <1>4 DEF Core, OneProcessPerId, Quietly
<1> QED
  BY <1>1, <1>5, <1>6, <1>7 DEF Core

(* Who is told to stop is told while it runs; a task ends only when the      *)
(* process is gone, and its entry with it, or all tasks do; it does not go   *)
(* on when the supervisor terminates.                                        *)
Calmly  == \A t \in Tasks :
              \/ at'[t] = at[t]
              \/ /\ ~Running(t) /\ children'[id[t]] = None
                 /\ terminating => at'[t] = "done"
Cancels == \A t \in Tasks : ~Active(t)'

(* Steps that leave the tasks and the specs alone. *)
LEMMA QuietAtTasks ==
  ASSUME Core, UNCHANGED <<id, gen, redone, at, specs>>,
         children' \in [Ids -> Tasks \cup {None}],
         \A i \in Ids : children'[i] \in {children[i], None},
         child' \in [Tasks -> Runs \cup {"none", "stopped"}],
         \A t \in Tasks : child'[t] = child[t] \/ (child[t] \in Runs /\ child'[t] # "none"),
         todo' \in Seq(Ids), snapshot' \in Seq(Ids)
  PROVE  Quietly /\ Calmly
<1>1. \A i \in Ids : InSpecs(i) => InSpecs(i)'
  BY DEF InSpecs
<1> QED
  BY <1>1 DEF Quietly, Calmly, Core, Types

(* What _shutdown_child does to a process that has not stopped. *)
LEMMA TellsToStop ==
  ASSUME Core, NEW i \in Ids, NEW t, t = children[i], t # None, child[t] # "stopped",
         BrutalKill(t) \/ StopSent(t)
  PROVE  /\ child' \in [Tasks -> Runs \cup {"none", "stopped"}]
         /\ \A u \in Tasks : child'[u] = child[u] \/ (child[u] \in Runs /\ child'[u] # "none")
<1>1. t \in Tasks /\ child[t] # "none"
  BY DEF Core, Types, Started
<1>2. child[t] \in Runs
  BY <1>1 DEF Core, Types
<1>3. \E x \in Runs : child' = [child EXCEPT ![t] = x]
  <2>1. CASE BrutalKill(t)
    BY <2>1 DEF BrutalKill, Runs
  <2>2. CASE StopSent(t)
    BY <2>2 DEF StopSent, Runs
  <2> QED
    BY <2>1, <2>2
<1> QED
  BY <1>1, <1>2, <1>3 DEF Core, Types, Runs

(* The steps of the processes and of those who stop them. *)
LEMMA ProcessStepsAreQuiet ==
  ASSUME Core, NEW t \in Tasks,
         ChildLeaves(t) \/ ChildStops(t) \/ ChildKilled(t) \/ KillAfterTimeout(t)
  PROVE  Quietly /\ Calmly
<1>1. UNCHANGED <<id, gen, redone, at, specs, children, todo, snapshot>>
  BY DEF ChildLeaves, ChildStops, ChildKilled, KillAfterTimeout, supvars, dicts, tasks
<1>2. /\ child' \in [Tasks -> Runs \cup {"none", "stopped"}]
      /\ \A u \in Tasks : child'[u] = child[u] \/ (child[u] \in Runs /\ child'[u] # "none")
  BY DEF ChildLeaves, ChildStops, ChildKilled, KillAfterTimeout, Core, Types, Runs
<1> QED
  BY <1>1, <1>2, QuietAtTasks DEF Core, Types

(* The steps of the supervisor's own task, but for its end. *)
LEMMA SupervisorStepsAreQuiet ==
  ASSUME Core,
         \/ SeedsReady \/ LeaveLoop \/ BeginTerminate \/ NextChild \/ ChildGone
         \/ EndTerminate \/ TerminateRaises \/ SkipTerminate \/ NextKid \/ KidEnds
         \/ Abort \/ StopSupervisor \/ KillSupervisor
  PROVE  Quietly /\ Calmly
<1>1. /\ todo \in Seq(Ids) /\ snapshot \in Seq(Ids) /\ specs \in Seq(Ids)
      /\ children \in [Ids -> Tasks \cup {None}]
      /\ child \in [Tasks -> Runs \cup {"none", "stopped"}]
      /\ <<>> \in Seq(Ids)
  BY DEF Core, Types
<1>2. CASE \/ SeedsReady \/ LeaveLoop \/ ChildGone \/ KidEnds \/ StopSupervisor \/ KillSupervisor
  <2>1. UNCHANGED <<id, gen, redone, at, specs, children, child, todo, snapshot>>
    BY <1>2 DEF SeedsReady, LeaveLoop, ChildGone, KidEnds, StopSupervisor, KillSupervisor,
         dicts, tasks, procs
  <2> QED
    BY <1>1, <2>1, QuietAtTasks
<1>3. CASE BeginTerminate
  <2>1. /\ UNCHANGED <<id, gen, redone, at, specs, children, child>>
        /\ todo' = ShutdownOrder /\ snapshot' = ShutdownOrder
    BY <1>3 DEF BeginTerminate, dicts, tasks, procs
  <2> QED
    BY <1>1, <2>1, QuietAtTasks, ShutdownOrderType
<1>4. CASE NextChild
  <2>1. /\ todo # <<>> /\ todo' = Tail(todo)
        /\ UNCHANGED <<id, gen, redone, at, specs, children, snapshot>>
    BY <1>4 DEF NextChild, dicts, tasks
  <2>2. Head(todo) \in Ids /\ Tail(todo) \in Seq(Ids)
    BY <1>1, <2>1, HeadTailProperties
  <2>3. /\ child' \in [Tasks -> Runs \cup {"none", "stopped"}]
        /\ \A u \in Tasks : child'[u] = child[u] \/ (child[u] \in Runs /\ child'[u] # "none")
    <3>1. PICK t : t = children[Head(todo)]
      OBVIOUS
    <3>2. \/ child' = child
          \/ t # None /\ child[t] # "stopped" /\ (BrutalKill(t) \/ StopSent(t))
      BY <1>4, <3>1, Zenon DEF NextChild
    <3>3. CASE child' = child
      BY <1>1, <3>3
    <3>4. CASE t # None /\ child[t] # "stopped" /\ (BrutalKill(t) \/ StopSent(t))
      BY <2>2, <3>1, <3>4, TellsToStop
    <3> QED
      BY <3>2, <3>3, <3>4
  <2> QED
    BY <1>1, <2>1, <2>2, <2>3, QuietAtTasks
<1>5. CASE EndTerminate
  <2>1. /\ UNCHANGED <<id, gen, redone, at, specs, child, snapshot>>
        /\ todo' = <<>> /\ children' = [i \in Ids |-> None]
    BY <1>5 DEF EndTerminate, Teardown, tasks, procs
  <2> QED
    BY <1>1, <2>1, QuietAtTasks
<1>6. CASE TerminateRaises \/ SkipTerminate
  <2>1. /\ UNCHANGED <<id, gen, redone, at, specs, children, child, snapshot>>
        /\ todo' = <<>>
    BY <1>6 DEF TerminateRaises, SkipTerminate, StopRaises, Teardown, dicts, tasks, procs
  <2> QED
    BY <1>1, <2>1, QuietAtTasks
<1>7. CASE NextKid
  <2>1. UNCHANGED <<id, gen, redone, at, specs, children, todo, snapshot>>
    BY <1>7 DEF NextKid, dicts, tasks
  <2>2. PICK k : \/ child' = child
                 \/ child[k.task] \in Runs /\ child' = [child EXCEPT ![k.task] = "stopping"]
    BY <1>7 DEF NextKid, Runs
  <2>3. /\ child' \in [Tasks -> Runs \cup {"none", "stopped"}]
        /\ \A u \in Tasks : child'[u] = child[u] \/ (child[u] \in Runs /\ child'[u] # "none")
    BY <1>1, <2>2 DEF Runs
  <2> QED
    BY <1>1, <2>1, <2>3, QuietAtTasks
<1>8. CASE Abort
  <2>1. UNCHANGED <<id, gen, redone, at, specs, children, todo, snapshot>>
    BY <1>8 DEF Abort, dicts, tasks
  <2>2. PICK S : S = {i \in Ids : children[i] # None /\ Running(children[i])}
    OBVIOUS
  <2>3. PICK told : told = Keep(ShutdownOrder, S)
    OBVIOUS
  <2>4. \/ child' = child
        \/ /\ told # <<>>
           /\ LET t == children[told[1]] IN BrutalKill(t) \/ StopSent(t) \/ StopRaises(t)
    BY <1>8, <2>2, <2>3 DEF Abort
  <2>5. CASE child' = child
    BY <1>1, <2>1, <2>5, QuietAtTasks
  <2>6. CASE told # <<>> /\ LET t == children[told[1]]
                             IN  BrutalKill(t) \/ StopSent(t) \/ StopRaises(t)
    <3>1. told \in Seq(Ids) /\ \A n \in DOMAIN told : told[n] \in S
      BY <1>1, <2>3, ShutdownOrderType, KeepProperties
    <3>2. told[1] \in S
      BY <2>6, <3>1, EmptySeq
    <3>3. PICK t : t = children[told[1]]
      OBVIOUS
    <3>4. told[1] \in Ids /\ t # None /\ child[t] # "stopped"
      BY <2>2, <3>2, <3>3 DEF Running
    <3>5. child' = child \/ BrutalKill(t) \/ StopSent(t)
      BY <2>6, <3>3 DEF StopRaises
    <3>6. /\ child' \in [Tasks -> Runs \cup {"none", "stopped"}]
          /\ \A u \in Tasks : child'[u] = child[u] \/ (child[u] \in Runs /\ child'[u] # "none")
      BY <1>1, <3>3, <3>4, <3>5, TellsToStop
    <3> QED
      BY <1>1, <2>1, <3>6, QuietAtTasks
  <2> QED
    BY <2>4, <2>5, <2>6
<1> QED
  BY <1>2, <1>3, <1>4, <1>5, <1>6, <1>7, <1>8

(* The operations of clients that start nothing. *)
LEMMA ClientStepsAreQuiet ==
  ASSUME Core, NEW c, NEW i,
         \/ StartReturns(c) \/ TerminateReturns(c)
         \/ i \in Ids /\ (TerminateChild(c, i) \/ DeleteChild(i))
  PROVE  Quietly /\ Calmly
<1>1. /\ todo \in Seq(Ids) /\ snapshot \in Seq(Ids) /\ specs \in Seq(Ids)
      /\ children \in [Ids -> Tasks \cup {None}]
      /\ child \in [Tasks -> Runs \cup {"none", "stopped"}]
  BY DEF Core, Types
<1>2. CASE StartReturns(c)
  <2>1. UNCHANGED <<id, gen, redone, at, specs, children, child, todo, snapshot>>
    BY <1>2 DEF StartReturns, supvars, dicts, tasks, procs
  <2> QED
    BY <1>1, <2>1, QuietAtTasks
<1>3. CASE TerminateReturns(c)
  <2>1. /\ UNCHANGED <<id, gen, redone, at, specs, child, todo, snapshot>>
        /\ children' = [children EXCEPT ![client[c].id] = None]
    BY <1>3 DEF TerminateReturns, supvars, tasks, procs
  <2> QED
    BY <1>1, <2>1, QuietAtTasks
<1>4. CASE i \in Ids /\ TerminateChild(c, i)
  <2>1. /\ UNCHANGED <<id, gen, redone, at, specs, todo, snapshot>>
        /\ children' \in {children, [children EXCEPT ![i] = None]}
    BY <1>4 DEF TerminateChild, supvars, tasks
  <2>2. PICK t : t = children[i]
    OBVIOUS
  <2>3. t # None /\ \/ child' = child
                    \/ child[t] # "stopped" /\ (BrutalKill(t) \/ StopSent(t))
    BY <1>4, <2>2 DEF TerminateChild, StopRaises
  <2>4. /\ child' \in [Tasks -> Runs \cup {"none", "stopped"}]
        /\ \A u \in Tasks : child'[u] = child[u] \/ (child[u] \in Runs /\ child'[u] # "none")
    BY <1>1, <1>4, <2>2, <2>3, TellsToStop
  <2> QED
    BY <1>1, <2>1, <2>4, QuietAtTasks
<1>5. CASE i \in Ids /\ DeleteChild(i)
  <2>1. /\ UNCHANGED <<id, gen, at, children, child, todo, snapshot>>
        /\ specs' = Without(i) /\ redone' = redone \cup {i}
    BY <1>5 DEF DeleteChild, supvars, procs
  <2>2. specs' \in Seq(Ids) /\ \A j \in Ids : InSpecs(j) => InSpecs(j)' \/ j = i
    <3>1. /\ Without(i) \in Seq(Ids)
          /\ \A j : (\E n \in DOMAIN Without(i) : Without(i)[n] = j) <=> j # i /\ InSpecs(j)
      BY <1>1, WithoutOne
    <3> QED
      BY <2>1, <3>1 DEF InSpecs
  <2> QED
    BY <1>1, <1>5, <2>1, <2>2 DEF Quietly, Calmly, Core, Types
<1> QED
  BY <1>2, <1>3, <1>4, <1>5

(* What a task does once its process has stopped. *)
LEMMA TaskStepsAreQuiet ==
  ASSUME Core, NEW t \in Tasks, ChildEnds(t) \/ ChildRestarts(t)
  PROVE  Quietly /\ Calmly
<1>1. /\ todo \in Seq(Ids) /\ snapshot \in Seq(Ids) /\ specs \in Seq(Ids)
      /\ children \in [Ids -> Tasks \cup {None}]
      /\ child \in [Tasks -> Runs \cup {"none", "stopped"}]
      /\ at \in [Tasks -> {"none", "starting", "watching", "done"}]
  BY DEF Core, Types
<1>2. /\ at[t] = "watching" /\ ~Running(t)
      /\ children' = [children EXCEPT ![id[t]] = None]
      /\ UNCHANGED <<id, gen, redone, child, todo, snapshot>>
  BY DEF ChildEnds, ChildRestarts, Stopped, Forget, Running, supvars, procs
<1>3. at' \in {[at EXCEPT ![t] = "done"], [at EXCEPT ![t] = "starting"]}
  BY DEF ChildEnds, ChildRestarts
<1>4. /\ \/ specs' = specs
         \/ ~terminating /\ specs' = Without(id[t]) /\ at' = [at EXCEPT ![t] = "done"]
      /\ terminating => at' = [at EXCEPT ![t] = "done"]
  BY DEF ChildEnds, ChildRestarts
<1>5. specs' \in Seq(Ids)
  BY <1>1, <1>4, WithoutOne
<1>6. ASSUME NEW i \in Ids, InSpecs(i)
      PROVE  InSpecs(i)' \/ i \in redone'
                         \/ (~terminating /\ \A u \in Tasks : Active(u)' => id[u] # i)
  <2>1. CASE specs' = specs
    BY <1>6, <2>1 DEF InSpecs
  <2>2. CASE ~terminating /\ specs' = Without(id[t]) /\ at' = [at EXCEPT ![t] = "done"]
    <3>1. CASE i # id[t]
      <4>1. PICK k : k = id[t]
        OBVIOUS
      <4>2. \E n \in DOMAIN Without(k) : Without(k)[n] = i
        BY <1>1, <1>6, <3>1, <4>1, WithoutOne
      <4>3. specs' = Without(k)
        BY <2>2, <4>1
      <4> QED
        BY <4>2, <4>3 DEF InSpecs
    <3>2. CASE i = id[t] /\ i \notin redone
      <4>1. ASSUME NEW u \in Tasks, Active(u)' PROVE id[u] # i
        <5>1. u # t /\ Active(u)
          BY <1>1, <2>2, <4>1 DEF Active
        <5>2. Active(t)
          BY <1>2 DEF Active
        <5> QED
          BY <3>2, <5>1, <5>2 DEF Core, Hosted
      <4> QED
        BY <2>2, <4>1
    <3>3. CASE i \in redone
      BY <1>2, <3>3
    <3> QED
      BY <3>1, <3>2, <3>3
  <2> QED
    BY <1>4, <2>1, <2>2
<1>7. id[t] \in Ids
  BY <1>2 DEF Core, Started
<1>8. Quietly
  BY <1>1, <1>2, <1>3, <1>5, <1>6 DEF Quietly, Core, Types
<1>9. Calmly
  BY <1>1, <1>2, <1>3, <1>4, <1>7 DEF Calmly, Core, Types
<1> QED
  BY <1>8, <1>9

(* The ends of the group: nothing goes on. *)
LEMMA CancelledIsQuiet ==
  ASSUME Core, at' = [t \in Tasks |-> IF at[t] = "none" THEN "none" ELSE "done"],
         UNCHANGED <<id, gen, redone, specs, child, todo, snapshot>>,
         children' \in [Ids -> Tasks \cup {None}],
         \A i \in Ids : children'[i] \in {children[i], None}
  PROVE  Quietly /\ Cancels
<1>1. at' \in [Tasks -> {"none", "starting", "watching", "done"}]
  BY DEF Core, Types
<1>2. \A i \in Ids : InSpecs(i) => InSpecs(i)'
  BY DEF InSpecs
<1>3. Cancels
  BY DEF Cancels, Active
<1> QED
  BY <1>1, <1>2, <1>3 DEF Quietly, Core, Types

(* The limit of restarts is passed: the task ends, or the group is cancelled. *)
LEMMA ExceededIsQuiet ==
  ASSUME Core, NEW t \in Tasks, Stopped(t),
         UNCHANGED <<id, gen, redone, specs, child, todo, snapshot>>,
         at' = [at EXCEPT ![t] = "done"]
  PROVE  Quietly /\ Calmly
<1>1. /\ at[t] = "watching" /\ ~Running(t) /\ children' = [children EXCEPT ![id[t]] = None]
  BY DEF Stopped, Forget, Running
<1>2. /\ at' \in [Tasks -> {"none", "starting", "watching", "done"}]
      /\ children' \in [Ids -> Tasks \cup {None}]
  BY <1>1 DEF Core, Types
<1>3. \A i \in Ids : InSpecs(i) => InSpecs(i)'
  BY DEF InSpecs
<1>4. id[t] \in Ids
  BY <1>1 DEF Core, Started
<1> QED
  BY <1>1, <1>2, <1>3, <1>4 DEF Quietly, Calmly, Core, Types

-----------------------------------------------------------------------------
(* Steps that start something. *)

(* The process of a task is up: as long as the group is not cancelled, its   *)
(* id has no other.                                                          *)
LEMMA StartedKeepsCore ==
  ASSUME Core, NEW t \in Tasks, ChildStarted(t),
         \A u \in Tasks : Running(u) => at[u] = "watching"
  PROVE  Core' /\ \A u \in Tasks : Running(u)' => at'[u] = "watching"
<1>1. /\ at[t] = "starting" /\ at' = [at EXCEPT ![t] = "watching"]
      /\ gen' = [gen EXCEPT ![t] = gen[t] + 1] /\ child' = [child EXCEPT ![t] = "live"]
      /\ children' = [children EXCEPT ![id[t]] = t]
      /\ UNCHANGED <<specs, todo, snapshot, id, redone>>
  BY DEF ChildStarted, supvars
<1>2. /\ id[t] \in Ids /\ Active(t)
  BY <1>1 DEF Core, Started, Active
<1>3. Types'
  BY <1>1, <1>2 DEF Core, Types, Runs
<1>4. \A u \in Tasks : /\ Active(u)' <=> Active(u)
                       /\ u # t => at'[u] = at[u] /\ gen'[u] = gen[u] /\ child'[u] = child[u]
                       /\ (at'[u] = "none" <=> at[u] = "none")
  BY <1>1 DEF Core, Types, Active
<1>5. /\ gen'[t] > 0 /\ child'[t] = "live" /\ at'[t] = "watching"
      /\ \A u \in Tasks : gen[u] > 0 => gen'[u] > 0
  BY <1>1 DEF Core, Types
<1>6. Started'
  <2>1. \A u \in Tasks : /\ at'[u] # "none" => id'[u] \in Ids
                         /\ at'[u] = "none" => gen'[u] = 0
                         /\ child'[u] = "none" <=> gen'[u] = 0
    BY <1>1, <1>4, <1>5 DEF Core, Started
  <2>2. \A i \in Ids : children'[i] # None => id'[children'[i]] = i /\ gen'[children'[i]] > 0
    BY <1>1, <1>2, <1>5 DEF Core, Types, Started
  <2> QED
    BY <2>1, <2>2 DEF Started
<1>7. Hosted'
  <2>1. \A i : InSpecs(i)' <=> InSpecs(i)
    BY <1>1 DEF InSpecs
  <2> QED
    BY <1>1, <1>4, <2>1 DEF Core, Hosted
<1>8. \A u \in Tasks : Running(u)' => at'[u] = "watching"
  BY <1>4, <1>5 DEF Running
<1>9. OneProcessPerId'
  <2>1. \A u \in Tasks : Running(u)' => Active(u)
    BY <1>4, <1>8 DEF Active
  <2> QED
    BY <1>1, <2>1 DEF OneProcessPerId, Core, Hosted
<1> QED
  BY <1>3, <1>6, <1>7, <1>8, <1>9 DEF Core

(* A task is made for an id: by start_child for one that is not in use, or   *)
(* by restart_child.                                                         *)
LEMMA NewTaskKeepsCore ==
  ASSUME Core, NEW t \in Tasks, NEW i \in Ids, NewTask(t, i),
         UNCHANGED <<gen, child, children, todo, snapshot>>,
         specs' \in Seq(Ids), \A j \in Ids : InSpecs(j) => InSpecs(j)',
         InSpecs(i)', redone \subseteq redone', redone' \subseteq Ids,
         ~InSpecs(i) \/ i \in redone'
  PROVE  Core' /\ (Uncovered' => Uncovered)
<1>1. /\ at[t] = "none" /\ at' = [at EXCEPT ![t] = "starting"] /\ id' = [id EXCEPT ![t] = i]
      /\ gen[t] = 0 /\ child[t] = "none"
  BY DEF NewTask, Free, Core, Started
<1>2. Types'
  BY <1>1 DEF Core, Types
<1>3. /\ \A u \in Tasks : u # t => at'[u] = at[u] /\ id'[u] = id[u]
      /\ at'[t] = "starting" /\ id'[t] = i
      /\ \A u \in Tasks : Running(u)' <=> Running(u)
      /\ ~Running(t)
  BY <1>1 DEF Core, Types, Running
<1>4. Started'
  <2>1. \A u \in Tasks : /\ at'[u] # "none" => id'[u] \in Ids
                         /\ at'[u] = "none" => gen'[u] = 0
                         /\ child'[u] = "none" <=> gen'[u] = 0
    BY <1>3 DEF Core, Started
  <2>2. \A j \in Ids : children'[j] # None => children[j] \in Tasks /\ children[j] # t
    BY <1>1 DEF Core, Types, Started
  <2>3. \A j \in Ids : children'[j] # None => id'[children'[j]] = j /\ gen'[children'[j]] > 0
    BY <1>3, <2>2 DEF Core, Started
  <2> QED
    BY <2>1, <2>3 DEF Started
<1>5. \A u \in Tasks : Active(u) /\ id[u] \notin redone => id[u] \in Ids /\ InSpecs(id[u])
  BY DEF Core, Started, Hosted, Active
<1>6. Hosted'
  <2>1. ASSUME NEW u \in Tasks, Active(u)', id'[u] \notin redone'
        PROVE  InSpecs(id[u])'
    <3>1. CASE u = t
      BY <1>3, <3>1 DEF InSpecs
    <3>2. CASE u # t
      <4>1. Active(u) /\ id'[u] = id[u] /\ id[u] \notin redone
        BY <1>3, <2>1, <3>2 DEF Active
      <4>2. PICK j \in Ids : j = id[u] /\ InSpecs(j)
        BY <1>5, <4>1
      <4>3. InSpecs(j)'
        BY <4>2
      <4> QED
        BY <4>1, <4>2, <4>3 DEF InSpecs
    <3> QED
      BY <3>1, <3>2
  <2>2. ASSUME NEW u \in Tasks, NEW v \in Tasks, Active(u)', Active(v)', u # v,
               id'[u] = id'[v], id'[u] \notin redone'
        PROVE  FALSE
    <3>1. CASE u # t /\ v # t
      BY <1>3, <2>2, <3>1 DEF Active, Core, Hosted
    <3>2. ASSUME NEW w \in Tasks, w # t, Active(w)', id'[w] = i, i \notin redone'
          PROVE  FALSE
      <4>1. Active(w) /\ id[w] = i /\ i \notin redone
        BY <1>3, <3>2 DEF Active
      <4> QED
        BY <1>5, <3>2, <4>1
    <3> QED
      BY <1>3, <2>2, <3>1, <3>2
  <2> QED
    BY <2>1, <2>2 DEF Hosted
<1>7. OneProcessPerId'
  BY <1>3 DEF Core, OneProcessPerId
<1>8. Uncovered' => Uncovered
  BY <1>3 DEF Uncovered
<1> QED
  BY <1>2, <1>4, <1>6, <1>7, <1>8 DEF Core

-----------------------------------------------------------------------------
(* The steps of Supervisor. *)

(* A group that was cancelled has no task that goes on. *)
LEMMA QuietlySealed ==
  ASSUME Core, Quietly
  PROVE  /\ AnyActive' => AnyActive
         /\ Calmly => (Uncovered' => Uncovered)
         /\ Cancels => ~AnyActive'
<1>1. AnyActive' => AnyActive
  BY DEF Quietly, Core, Types, AnyActive, Active
<1>2. ASSUME Calmly, Uncovered' PROVE Uncovered
  <2>1. PICK t \in Tasks : Running(t)' /\ at'[t] # "watching"
    BY <1>2 DEF Uncovered
  <2>2. Running(t)
    BY <2>1 DEF Quietly, Running, Runs
  <2> QED
    BY <1>2, <2>1, <2>2 DEF Calmly, Uncovered
<1>3. Cancels => ~AnyActive'
  BY DEF Cancels, AnyActive
<1> QED
  BY <1>1, <1>2, <1>3

(* start_child and restart_child. *)
LEMMA AddedKeepsCore ==
  ASSUME Core, NEW c, NEW i \in Ids, AddChild(c, i) \/ AddAgain(c, i)
  PROVE  Core' /\ (Uncovered' => Uncovered)
<1>1. specs \in Seq(Ids) /\ redone \subseteq Ids
  BY DEF Core, Types
<1>2. CASE AddChild(c, i)
  <2>1. PICK t \in Tasks : NewTask(t, i)
    BY <1>2 DEF AddChild
  <2>2. /\ UNCHANGED <<gen, child, children, todo, snapshot, redone>>
        /\ ~InSpecs(i) /\ specs' = Append(Without(i), i)
    BY <1>2 DEF AddChild, IdInUse, supvars, procs
  <2>3. specs' \in Seq(Ids) /\ (\A j \in Ids : InSpecs(j) => InSpecs(j)') /\ InSpecs(i)'
    BY <1>1, <2>2, WithOneMore DEF InSpecs
  <2> QED
    BY <1>1, <2>1, <2>2, <2>3, NewTaskKeepsCore
<1>3. CASE AddAgain(c, i)
  <2>1. PICK t \in Tasks : NewTask(t, i)
    BY <1>3 DEF AddAgain
  <2>2. /\ UNCHANGED <<gen, child, children, todo, snapshot, specs>>
        /\ redone' = redone \cup {i} /\ InSpecs(i)
    BY <1>3 DEF AddAgain, supvars, dicts, procs
  <2>3. specs' \in Seq(Ids) /\ (\A j \in Ids : InSpecs(j) => InSpecs(j)') /\ InSpecs(i)'
    BY <1>1, <2>2 DEF InSpecs
  <2> QED
    BY <1>1, <2>1, <2>2, <2>3, NewTaskKeepsCore
<1> QED
  BY <1>2, <1>3

(* An exception in the group. *)
LEMMA CancelledCloses ==
  ASSUME GroupCancelled
  PROVE  /\ at' = [t \in Tasks |-> IF at[t] = "none" THEN "none" ELSE "done"]
         /\ Closed' /\ sup' \in {"seed_failed", "aborting", "aborted"}
         /\ sup # "seeding" => sup' \in {"aborting", "aborted"}
  BY DEF GroupCancelled, Closed

(* The limit of restarts. *)
LEMMA RestartsExceededIsQuiet ==
  ASSUME Core, NEW t \in Tasks, RestartsExceeded(t)
  PROVE  /\ Quietly
         /\ \/ Calmly /\ sup' = sup /\ sup \in {"seeding", "loop"} /\ ~supKilled
               /\ (stop' = "seed_failed" <=> stop = "seed_failed")
            \/ Cancels /\ GroupCancelled /\ ~(sup \in {"seeding", "loop"} /\ ~supKilled)
               /\ stop' = stop
<1>1. UNCHANGED <<id, gen, redone, specs, child, todo, snapshot>> /\ Stopped(t)
  BY DEF RestartsExceeded, procs
<1>2. CASE sup \in {"seeding", "loop"} /\ ~supKilled
  <2>1. at' = [at EXCEPT ![t] = "done"] /\ sup' = sup
    BY <1>2 DEF RestartsExceeded
  <2>2. stop' = "seed_failed" <=> stop = "seed_failed"
    BY <1>2, SupervisorAssumption DEF RestartsExceeded
  <2> QED
    BY <1>1, <1>2, <2>1, <2>2, ExceededIsQuiet
<1>3. CASE ~(sup \in {"seeding", "loop"} /\ ~supKilled)
  <2>1. GroupCancelled /\ stop' = stop
    BY <1>3 DEF RestartsExceeded
  <2>2. /\ children' \in [Ids -> Tasks \cup {None}]
        /\ \A i \in Ids : children'[i] \in {children[i], None}
    BY <1>1 DEF Stopped, Forget, Core, Types
  <2> QED
    BY <1>1, <1>3, <2>1, <2>2, CancelledIsQuiet DEF GroupCancelled
<1> QED
  BY <1>2, <1>3

(* A start that fails. *)
LEMMA StartFailsIsQuiet ==
  ASSUME Core, NEW t \in Tasks, StartFails(t)
  PROVE  Quietly /\ Cancels /\ GroupCancelled /\ stop' = stop
<1>1. /\ UNCHANGED <<id, gen, redone, specs, child, children, todo, snapshot, stop>>
      /\ GroupCancelled
  BY DEF StartFails, dicts, procs
<1> QED
  BY <1>1, CancelledIsQuiet DEF GroupCancelled, Core, Types

(* The end of the group. *)
LEMMA FinishIsQuiet ==
  ASSUME Core, Finish
  PROVE  Quietly /\ Cancels /\ sup' = "stopped" /\ stop' = stop
<1>1. /\ UNCHANGED <<id, gen, redone, specs, child, children, todo, snapshot, stop>>
      /\ at' = [t \in Tasks |-> IF at[t] = "none" THEN "none" ELSE "done"]
      /\ sup' = "stopped"
  BY DEF Finish, dicts, procs
<1> QED
  BY <1>1, CancelledIsQuiet DEF Core, Types

(* The steps that leave the group open, or cancelled. *)
LEMMA ClosedStays ==
  ASSUME \/ SeedsReady \/ LeaveLoop \/ BeginTerminate \/ NextChild \/ ChildGone
         \/ EndTerminate \/ TerminateRaises \/ SkipTerminate \/ NextKid \/ KidEnds
         \/ Abort \/ StopSupervisor \/ KillSupervisor
  PROVE  Closed' <=> Closed
<1>1. CASE SeedsReady \/ LeaveLoop \/ BeginTerminate \/ NextChild \/ ChildGone
  BY <1>1 DEF SeedsReady, LeaveLoop, BeginTerminate, NextChild, ChildGone, Closed
<1>2. CASE EndTerminate \/ TerminateRaises \/ SkipTerminate
  BY <1>2 DEF EndTerminate, TerminateRaises, SkipTerminate, Teardown, Closed
<1>3. CASE NextKid \/ KidEnds \/ Abort \/ StopSupervisor \/ KillSupervisor
  BY <1>3, SupervisorAssumption DEF NextKid, KidEnds, Abort, StopSupervisor, KillSupervisor, Closed
<1> QED
  BY <1>1, <1>2, <1>3

(* The invariant of Supervisor is inductive. *)
LEMMA StepsKeepIInv ==
  ASSUME IInv, [Next]_vars PROVE IInv'
<1>1. Core /\ Sealed
  BY DEF IInv
<1>2. ASSUME Quietly, Calmly, Closed' <=> Closed PROVE IInv'
  BY <1>1, <1>2, QuietlyKeepsCore, QuietlySealed DEF IInv, Sealed
<1>3. ASSUME Quietly, Cancels, Closed' PROVE IInv'
  BY <1>1, <1>3, QuietlyKeepsCore, QuietlySealed DEF IInv, Sealed
<1>4. UNCHANGED supvars => (Closed' <=> Closed)
  BY DEF supvars, Closed
<1>5. CASE SupStep
  <2>1. CASE Finish
    BY <1>1, <1>3, <2>1, FinishIsQuiet DEF Closed
  <2>2. CASE ~Finish
    BY <1>1, <1>2, <1>5, <2>2, SupervisorStepsAreQuiet, ClosedStays DEF SupStep
  <2> QED
    BY <2>1, <2>2
<1>6. CASE StopSupervisor \/ KillSupervisor
  BY <1>1, <1>2, <1>6, SupervisorStepsAreQuiet, ClosedStays
<1>7. ASSUME NEW t \in Tasks,
             TaskStep(t) \/ ChildStep(t) \/ ChildKilled(t) \/ KillAfterTimeout(t)
      PROVE  IInv'
  <2>1. CASE ChildStep(t) \/ ChildKilled(t) \/ KillAfterTimeout(t)
    <3>1. UNCHANGED supvars
      BY <2>1 DEF ChildStep, ChildLeaves, ChildStops, ChildKilled, KillAfterTimeout
    <3> QED
      BY <1>1, <1>2, <1>4, <2>1, <3>1, ProcessStepsAreQuiet DEF ChildStep
  <2>2. CASE ChildEnds(t) \/ ChildRestarts(t)
    <3>1. UNCHANGED supvars
      BY <2>2 DEF ChildEnds, ChildRestarts
    <3> QED
      BY <1>1, <1>2, <1>4, <2>2, <3>1, TaskStepsAreQuiet
  <2>3. CASE StartFails(t)
    BY <1>1, <1>3, <2>3, StartFailsIsQuiet, CancelledCloses
  <2>4. CASE RestartsExceeded(t)
    <3>1. \/ Quietly /\ Calmly /\ (Closed' <=> Closed)
          \/ Quietly /\ Cancels /\ Closed'
      BY <1>1, <2>4, RestartsExceededIsQuiet, CancelledCloses DEF Closed
    <3> QED
      BY <1>2, <1>3, <3>1
  <2>5. CASE ChildStarted(t)
    <3>1. Active(t) /\ ~Closed /\ ~Closed'
      <4>1. AnyActive /\ UNCHANGED supvars /\ Active(t)
        BY <2>5 DEF ChildStarted, AnyActive, Active
      <4> QED
        BY <1>1, <1>4, <4>1 DEF Sealed
    <3>2. \A u \in Tasks : Running(u) => at[u] = "watching"
      BY <1>1, <3>1 DEF Sealed, Uncovered
    <3>3. Core' /\ \A u \in Tasks : Running(u)' => at'[u] = "watching"
      BY <1>1, <2>5, <3>2, StartedKeepsCore
    <3> QED
      BY <3>1, <3>3 DEF IInv, Sealed, Uncovered
  <2> QED
    BY <1>7, <2>1, <2>2, <2>3, <2>4, <2>5 DEF TaskStep
<1>8. ASSUME NEW c, NEW i,
             Returns(c) \/ (i \in Ids /\ (TerminateChild(c, i) \/ DeleteChild(i)))
      PROVE  IInv'
  <2>1. UNCHANGED supvars
    BY <1>8 DEF Returns, StartReturns, TerminateReturns, TerminateChild, DeleteChild
  <2> QED
    BY <1>1, <1>2, <1>4, <1>8, <2>1, ClientStepsAreQuiet DEF Returns
<1>9. ASSUME NEW c \in Clients, NEW i \in Ids, StartChild(c, i) \/ RestartChild(c, i)
      PROVE  IInv'
  <2>1. /\ Open /\ (AddChild(c, i) \/ AddAgain(c, i)) /\ UNCHANGED supvars
    BY <1>9 DEF StartChild, RestartChild, AddChild, AddAgain
  <2>2. ~Closed /\ ~Closed'
    BY <1>4, <2>1 DEF Open, Closed
  <2> QED
    BY <1>1, <2>1, <2>2, AddedKeepsCore DEF IInv, Sealed
<1>10. CASE UNCHANGED vars
  <2>1. Quietly /\ Calmly /\ UNCHANGED supvars
    BY <1>1, <1>10, QuietAtTasks DEF vars, supvars, dicts, tasks, procs, Core, Types
  <2> QED
    BY <1>2, <1>4, <2>1
<1> QED
  BY <1>5, <1>6, <1>7, <1>8, <1>9, <1>10 DEF Next, AllOver

(* A supervisor that has run init. *)
LEMMA InitIsCore ==
  ASSUME NEW place, NEW S \in SUBSET Tasks, \A t \in S : SeededBy(t), InitAt(place, S)
  PROVE  /\ Core /\ ~Uncovered
         /\ sup = place /\ stop # "seed_failed"
<1>1. /\ Seeds \in Seq(Ids) /\ Len(Seeds) \in Nat /\ Len(Seeds) <= MaxTasks /\ MaxTasks \in Nat
      /\ DOMAIN Seeds = 1..Len(Seeds)
      /\ \A m, n \in DOMAIN Seeds : Seeds[m] = Seeds[n] => m = n
  BY SupervisorAssumption
<1>2. S \subseteq DOMAIN Seeds
  BY <1>1 DEF SeededBy, Tasks
<1>3. \A t \in S : id[t] = Seeds[t] /\ Seeds[t] \in Ids /\ at[t] = "starting"
  BY <1>1, <1>2 DEF InitAt
<1>4. \A t \in Tasks \ S : at[t] = "none"
  BY DEF InitAt
<1>5. \A t \in Tasks : child[t] = "none" /\ gen[t] = 0
  BY DEF InitAt
<1>6. Types
  <2>1. /\ specs \in Seq(Ids) /\ todo \in Seq(Ids) /\ snapshot \in Seq(Ids)
        /\ children \in [Ids -> Tasks \cup {None}]
        /\ at \in [Tasks -> {"none", "starting", "watching", "done"}]
        /\ gen \in [Tasks -> Nat]
        /\ child \in [Tasks -> Runs \cup {"none", "stopped"}]
        /\ redone \subseteq Ids
    BY <1>1 DEF InitAt
  <2>2. id \in [Tasks -> Ids \cup {None}]
    BY <1>1, <1>2 DEF InitAt
  <2> QED
    BY <2>1, <2>2 DEF Types
<1>7. Started
  <2>1. \A i \in Ids : children[i] = None
    BY DEF InitAt
  <2> QED
    BY <1>3, <1>4, <1>5, <2>1 DEF Started
<1>8. Hosted
  <2>1. \A t \in Tasks : Active(t) => t \in S
    BY <1>4 DEF Active
  <2>2. specs = Seeds
    BY DEF InitAt
  <2> QED
    BY <1>1, <1>2, <1>3, <2>1, <2>2 DEF Hosted, InSpecs
<1>9. \A t \in Tasks : ~Running(t)
  BY <1>5 DEF Running
<1>10. sup = place /\ stop # "seed_failed"
  BY SupervisorAssumption DEF InitAt
<1> QED
  BY <1>6, <1>7, <1>8, <1>9, <1>10 DEF Core, OneProcessPerId, Uncovered

(* An id never has two processes, whatever restarts, starts, terminations,   *)
(* failures and shutdowns come together, for any supervisor: but for the ids *)
(* given to restart_child and delete_child.                                  *)
THEOREM OneProcess == Spec => []OneProcessPerId
<1>1. Init => IInv
  <2> SUFFICES ASSUME Init PROVE IInv
    OBVIOUS
  <2>1. /\ Core /\ ~Uncovered /\ sup = "seeding" /\ stop # "seed_failed"
    BY InitIsCore DEF Init
  <2> QED
    BY <2>1 DEF IInv, Sealed, Closed
<1>2. IInv /\ [Next]_vars => IInv'
  BY StepsKeepIInv
<1>3. IInv => OneProcessPerId
  BY DEF IInv, Core
<1> QED
  BY <1>1, <1>2, <1>3, PTL DEF Spec

-----------------------------------------------------------------------------
(* The order of a shutdown. *)

(* Specs may go, and one that is new comes last. *)
InTheirOrder ==
    \A a, b \in DOMAIN specs' :
        a < b => \/ \E m, n \in DOMAIN specs :
                        m < n /\ specs[m] = specs'[a] /\ specs[n] = specs'[b]
                 \/ specs'[a] # specs'[b] /\ ~InSpecs(specs'[b])

(* Leaving an id out keeps the order of the others. *)
LEMMA RemovedInOrder ==
  ASSUME specs \in Seq(Ids), NEW i, specs' = Without(i) PROVE InTheirOrder
<1>1. PICK S : S = Ids \ {i}
  OBVIOUS
<1>2. specs' = Keep(specs, S)
  BY <1>1 DEF Without
<1> QED
  BY <1>2, KeepOrder DEF InTheirOrder

(* So does a new id at the end. *)
LEMMA AddedInOrder ==
  ASSUME specs \in Seq(Ids), NEW i \in Ids, ~InSpecs(i), specs' = Append(Without(i), i)
  PROVE  InTheirOrder
<1>1. PICK w : w = Without(i)
  OBVIOUS
<1>2. w \in Seq(Ids) /\ \A j : (\E n \in DOMAIN w : w[n] = j) <=> j # i /\ InSpecs(j)
  BY <1>1, WithoutOne, Zenon
<1>3. PICK S : S = Ids \ {i}
  OBVIOUS
<1>4. \A a, b \in DOMAIN w : a < b => \E m, n \in DOMAIN specs : m < n /\ specs[m] = w[a] /\ specs[n] = w[b]
  <2>1. w = Keep(specs, S)
    BY <1>1, <1>3 DEF Without
  <2> QED
    BY <2>1, KeepOrder
<1>5. /\ DOMAIN w = 1..Len(w) /\ Len(w) \in Nat
      /\ DOMAIN specs' = 1..(Len(w) + 1)
      /\ specs'[Len(w) + 1] = i
      /\ \A n \in 1..Len(w) : specs'[n] = w[n]
  BY <1>1, <1>2, AppendProperties
<1>6. ASSUME NEW a \in DOMAIN specs', NEW b \in DOMAIN specs', a < b
      PROVE  \/ \E m, n \in DOMAIN specs :
                    m < n /\ specs[m] = specs'[a] /\ specs[n] = specs'[b]
             \/ specs'[a] # specs'[b] /\ ~InSpecs(specs'[b])
  <2>1. a \in DOMAIN w /\ specs'[a] = w[a]
    BY <1>5, <1>6
  <2>2. CASE b \in DOMAIN w
    BY <1>4, <1>5, <1>6, <2>1, <2>2
  <2>3. CASE b = Len(w) + 1
    <3>1. specs'[b] = i /\ w[a] # i
      BY <1>2, <1>5, <2>1, <2>3
    <3> QED
      BY <2>1, <3>1
  <2> QED
    BY <1>5, <1>6, <2>2, <2>3
<1> QED
  BY <1>6 DEF InTheirOrder

(* And so does no change. *)
LEMMA KeptInOrder ==
  ASSUME specs \in Seq(Ids), specs' = specs PROVE InTheirOrder
BY DEF InTheirOrder

(* No step changes the order of the specs. *)
LEMMA SpecsStayInOrder ==
  ASSUME Core, [Next]_vars PROVE InTheirOrder
<1>0. specs \in Seq(Ids)
  BY DEF Core, Types
<1>1. CASE SupStep \/ StopSupervisor \/ KillSupervisor \/ AllOver \/ UNCHANGED vars
  <2>1. specs' = specs
    BY <1>1 DEF SupStep, SeedsReady, LeaveLoop, BeginTerminate, NextChild, ChildGone,
       EndTerminate, TerminateRaises, SkipTerminate, NextKid, KidEnds, Abort, Finish,
       StopSupervisor, KillSupervisor, AllOver, vars, dicts
  <2> QED
    BY <1>0, <2>1, KeptInOrder
<1>2. ASSUME NEW t \in Tasks,
             TaskStep(t) \/ ChildStep(t) \/ ChildKilled(t) \/ KillAfterTimeout(t)
      PROVE  InTheirOrder
  <2>1. specs' = specs \/ specs' = Without(id[t])
    BY <1>2 DEF TaskStep, ChildStarted, StartFails, ChildEnds, ChildRestarts, RestartsExceeded,
       ChildStep, ChildLeaves, ChildStops, ChildKilled, KillAfterTimeout, dicts
  <2>2. PICK i : i = id[t]
    OBVIOUS
  <2> QED
    BY <1>0, <2>1, <2>2, KeptInOrder, RemovedInOrder
<1>3. ASSUME NEW c \in Clients, Returns(c) PROVE InTheirOrder
  <2>1. specs' = specs
    BY <1>3 DEF Returns, StartReturns, TerminateReturns, dicts
  <2> QED
    BY <1>0, <2>1, KeptInOrder
<1>4. ASSUME NEW c \in Clients, NEW i \in Ids, StartChild(c, i) PROVE InTheirOrder
  <2>1. ~InSpecs(i) /\ specs' = Append(Without(i), i)
    BY <1>4 DEF StartChild, AddChild, IdInUse
  <2> QED
    BY <1>0, <2>1, AddedInOrder
<1>5. ASSUME NEW c \in Clients, NEW i \in Ids, RestartChild(c, i) \/ TerminateChild(c, i)
      PROVE  InTheirOrder
  <2>1. specs' = specs
    BY <1>5 DEF RestartChild, AddAgain, TerminateChild, dicts
  <2> QED
    BY <1>0, <2>1, KeptInOrder
<1>6. ASSUME NEW i \in Ids, DeleteChild(i) PROVE InTheirOrder
  <2>1. specs' = Without(i)
    BY <1>6 DEF DeleteChild
  <2> QED
    BY <1>0, <2>1, RemovedInOrder
<1> QED
  BY <1>1, <1>2, <1>3, <1>4, <1>5, <1>6 DEF Next

(* No id gets a second spec. *)
LEMMA NoTwiceStays ==
  ASSUME Core, Core', NoTwice, InTheirOrder PROVE NoTwice'
<1>0. DOMAIN specs = 1..Len(specs) /\ Len(specs) \in Nat
  BY DEF Core, Types
<1>1. DOMAIN specs' = 1..Len(specs') /\ Len(specs') \in Nat
  BY DEF Core, Types
<1>2. ASSUME NEW a \in DOMAIN specs', NEW b \in DOMAIN specs', a < b, specs'[a] = specs'[b]
      PROVE  FALSE
  <2>1. PICK m \in DOMAIN specs, n \in DOMAIN specs :
            m < n /\ specs[m] = specs'[a] /\ specs[n] = specs'[b]
    BY <1>2 DEF InTheirOrder
  <2>2. m = n
    BY <1>2, <2>1 DEF NoTwice
  <2> QED
    BY <1>0, <2>1, <2>2
<1>3. \A a, b \in DOMAIN specs' : specs'[a] = specs'[b] => a = b
  BY <1>1, <1>2
<1> QED
  BY <1>3 DEF NoTwice
(* A task that is watched goes on, ends with its entry, or ends with the     *)
(* group.                                                                    *)
LEMMA QuietlyWatched ==
  ASSUME Core, Core', Watched, Quietly, Calmly \/ Closed', Closed => Closed' PROVE Watched'
<1>1. ASSUME ~Closed', NEW i \in Ids, children'[i] # None, i \notin redone'
      PROVE  at'[children'[i]] = "watching"
  <2>1. /\ Calmly /\ ~Closed /\ children'[i] = children[i] /\ i \notin redone
        /\ children[i] \in Tasks
    BY <1>1 DEF Quietly, Core, Types
  <2>2. id[children[i]] = i /\ at[children[i]] = "watching"
    BY <1>1, <2>1 DEF Watched, Core, Started
  <2> QED
    BY <1>1, <2>1, <2>2 DEF Calmly
<1> QED
  BY <1>1 DEF Watched

(* A shutdown is as it was when a task ends, or a process goes on to its end. *)
LEMMA QuietlyDescends ==
  ASSUME Core, Descent, Quietly, Calmly, InTheirOrder,
         UNCHANGED <<sup, terminating, todo, snapshot, wait>>
  PROVE  Descent'
<1> SUFFICES ASSUME sup \in {"terminate", "wait"}
             PROVE  terminating' /\ Suffix' /\ Reversed' /\ Staying' /\ Gone' /\ Waiting'
  BY DEF Descent
<1>1. terminating /\ Suffix /\ Reversed /\ Staying /\ Gone /\ Waiting /\ Passed' = Passed
  BY DEF Descent, Passed
<1>2. terminating' /\ Suffix'
  BY <1>1 DEF Suffix, Passed
<1>3. \A p \in DOMAIN snapshot : snapshot[p] \in Ids
  BY DEF Core, Types
<1>4. redone \subseteq redone'
  BY DEF Quietly
<1>5. Reversed'
  <2>1. ASSUME NEW p \in DOMAIN snapshot, NEW q \in DOMAIN snapshot,
               NEW a \in DOMAIN specs', NEW b \in DOMAIN specs',
               p < q, a < b, specs'[a] = snapshot[p], specs'[b] = snapshot[q]
        PROVE  specs'[b] \in redone'
    <3>1. CASE \E m, n \in DOMAIN specs : m < n /\ specs[m] = specs'[a] /\ specs[n] = specs'[b]
      BY <1>1, <1>4, <2>1, <3>1 DEF Reversed
    <3>2. CASE ~InSpecs(specs'[b])
      <4>1. ~InSpecs(snapshot[q])
        BY <2>1, <3>2
      <4> QED
        BY <1>1, <1>4, <2>1, <4>1 DEF Staying
    <3> QED
      BY <2>1, <3>1, <3>2 DEF InTheirOrder
  <2> QED
    BY <2>1 DEF Reversed
<1>6. Staying'
  <2>1. ASSUME NEW p \in DOMAIN snapshot, snapshot[p] \notin redone'
        PROVE  InSpecs(snapshot[p])' /\ \A t \in Tasks : at'[t] = "starting" => id'[t] # snapshot[p]
    <3>1. PICK i \in Ids : i = snapshot[p]
      BY <1>3
    <3>2. i \notin redone /\ InSpecs(i) /\ \A t \in Tasks : at[t] = "starting" => id[t] # i
      BY <1>1, <1>4, <2>1, <3>1 DEF Staying
    <3>3. InSpecs(i)'
      BY <1>1, <2>1, <3>1, <3>2 DEF Quietly
    <3>4. \A t \in Tasks : at'[t] = "starting" => at[t] = "starting" /\ id'[t] = id[t]
      BY <1>1 DEF Calmly, Quietly
    <3> QED
      BY <3>1, <3>2, <3>3, <3>4 DEF InSpecs
  <2> QED
    BY <2>1 DEF Staying
<1>7. Gone'
  <2>1. ASSUME NEW p \in DOMAIN snapshot, snapshot[p] \notin redone',
               p < Passed \/ (p = Passed /\ sup = "terminate"),
               children'[snapshot[p]] # None
        PROVE  ~Running(children[snapshot[p]])' /\ children'[snapshot[p]] = children[snapshot[p]]
    <3>1. PICK i \in Ids : i = snapshot[p]
      BY <1>3
    <3>2. PICK u \in Tasks : u = children[i] /\ u = children'[i]
      BY <2>1, <3>1 DEF Quietly, Core, Types
    <3>3. ~Running(u)
      BY <1>1, <1>4, <2>1, <3>1, <3>2 DEF Gone
    <3>4. ~Running(u)'
      BY <3>3 DEF Quietly, Running, Runs
    <3> QED
      BY <3>1, <3>2, <3>4 DEF Running
  <2> QED
    BY <1>1, <2>1 DEF Gone, Running
<1>8. Waiting'
  <2>1. ASSUME sup = "wait"
        PROVE  /\ wait.task \in Tasks /\ at'[wait.task] # "none"
               /\ Passed > 0 /\ id'[wait.task] = snapshot[Passed]
               /\ id'[wait.task] \in redone'
                  \/ (wait.gen = gen'[wait.task] /\ children'[id'[wait.task]] \in {wait.task, None})
    <3>1. PICK u \in Tasks : u = wait.task /\ at[u] # "none" /\ Passed > 0 /\ id[u] = snapshot[Passed]
                             /\ (id[u] \in redone
                                 \/ (wait.gen = gen[u] /\ children[id[u]] \in {u, None}))
      BY <1>1, <2>1 DEF Waiting
    <3>2. id[u] \in Ids
      BY <3>1 DEF Core, Started
    <3>3. at'[u] # "none" /\ id'[u] = id[u] /\ gen'[u] = gen[u] /\ children'[id[u]] \in {children[id[u]], None}
      BY <3>1, <3>2 DEF Quietly
    <3> QED
      BY <1>4, <3>1, <3>3
  <2> QED
    BY <1>1, <2>1 DEF Waiting
<1> QED
  BY <1>2, <1>5, <1>6, <1>7, <1>8

(* A process that starts is not one of those that are to stop. *)
LEMMA StartedDescends ==
  ASSUME Core, Descent, NEW t \in Tasks, ChildStarted(t) PROVE Descent'
<1> SUFFICES ASSUME sup \in {"terminate", "wait"}
             PROVE  terminating' /\ Suffix' /\ Reversed' /\ Staying' /\ Gone' /\ Waiting'
  BY DEF Descent, ChildStarted, supvars
<1>1. /\ terminating /\ Suffix /\ Reversed /\ Staying /\ Gone /\ Waiting /\ Passed' = Passed
      /\ UNCHANGED <<sup, terminating, todo, snapshot, wait, specs, redone, id>>
  BY DEF Descent, Passed, ChildStarted, supvars
<1>2. /\ at[t] = "starting" /\ at' = [at EXCEPT ![t] = "watching"]
      /\ gen' = [gen EXCEPT ![t] = gen[t] + 1] /\ child' = [child EXCEPT ![t] = "live"]
      /\ children' = [children EXCEPT ![id[t]] = t]
  BY DEF ChildStarted
<1>3. \A u \in Tasks : u # t => at'[u] = at[u] /\ gen'[u] = gen[u] /\ child'[u] = child[u]
  BY <1>2 DEF Core, Types
<1>4. at'[t] = "watching" /\ \A i \in Ids : i # id[t] => children'[i] = children[i]
  BY <1>2 DEF Core, Types
<1>5. \A p \in DOMAIN snapshot : snapshot[p] \in Ids
  BY DEF Core, Types
<1>6. \A p \in DOMAIN snapshot : snapshot[p] \notin redone => id[t] # snapshot[p]
  BY <1>1, <1>2 DEF Staying
<1>7. Suffix' /\ Reversed'
  BY <1>1 DEF Suffix, Passed, Reversed
<1>8. Staying'
  <2>1. \A u \in Tasks : at'[u] = "starting" => at[u] = "starting"
    BY <1>3, <1>4
  <2> QED
    BY <1>1, <2>1 DEF Staying, InSpecs
<1>9. Gone'
  <2>1. ASSUME NEW p \in DOMAIN snapshot, snapshot[p] \notin redone,
               p < Passed \/ (p = Passed /\ sup = "terminate"),
               children'[snapshot[p]] # None
        PROVE  child'[children'[snapshot[p]]] \notin Runs
    <3>1. PICK i \in Ids : i = snapshot[p] /\ i # id[t]
      BY <1>5, <1>6, <2>1
    <3>2. PICK u \in Tasks : u = children[i] /\ u = children'[i] /\ id[u] = i
      BY <1>4, <2>1, <3>1 DEF Core, Types, Started
    <3>3. child[u] \notin Runs /\ u # t
      BY <1>1, <2>1, <3>1, <3>2, RunningIn DEF Gone
    <3> QED
      BY <1>3, <3>1, <3>2, <3>3
  <2> QED
    BY <1>1, <2>1 DEF Gone, Running, Runs
<1>10. Waiting'
  <2>1. ASSUME sup = "wait"
        PROVE  /\ wait.task \in Tasks /\ at'[wait.task] # "none"
               /\ Passed > 0 /\ id[wait.task] = snapshot[Passed]
               /\ id[wait.task] \in redone
                  \/ (wait.gen = gen'[wait.task] /\ children'[id[wait.task]] \in {wait.task, None})
    <3>1. PICK u \in Tasks : u = wait.task /\ at[u] # "none" /\ Passed > 0 /\ id[u] = snapshot[Passed]
                             /\ (id[u] \in redone
                                 \/ (wait.gen = gen[u] /\ children[id[u]] \in {u, None}))
      BY <1>1, <2>1 DEF Waiting
    <3>2. Passed \in DOMAIN snapshot
      BY <1>1, <3>1 DEF Passed, Suffix, Core, Types
    <3>3. at'[u] # "none"
      BY <1>3, <1>4, <3>1
    <3>4. CASE id[u] \notin redone
      <4>1. id[u] \in Ids /\ id[u] # id[t]
        BY <1>5, <1>6, <3>1, <3>2, <3>4
      <4> QED
        BY <1>3, <1>4, <3>1, <3>3, <3>4, <4>1
    <3> QED
      BY <3>1, <3>3, <3>4
  <2> QED
    BY <1>1, <2>1 DEF Waiting
<1> QED
  BY <1>1, <1>7, <1>8, <1>9, <1>10

(* Nor is a task that a client starts. *)
LEMMA AddedDescends ==
  ASSUME Core, Descent, NEW t \in Tasks, NEW i \in Ids, NewTask(t, i), InTheirOrder,
         UNCHANGED <<supvars, gen, child, children>>,
         redone \subseteq redone', \A j \in Ids : InSpecs(j) => InSpecs(j)',
         ~InSpecs(i) \/ i \in redone'
  PROVE  Descent'
<1> SUFFICES ASSUME sup \in {"terminate", "wait"}
             PROVE  terminating' /\ Suffix' /\ Reversed' /\ Staying' /\ Gone' /\ Waiting'
  BY DEF Descent, supvars
<1>1. /\ terminating /\ Suffix /\ Reversed /\ Staying /\ Gone /\ Waiting /\ Passed' = Passed
      /\ UNCHANGED <<sup, terminating, todo, snapshot, wait>>
  BY DEF Descent, Passed, supvars
<1>2. at[t] = "none" /\ at' = [at EXCEPT ![t] = "starting"] /\ id' = [id EXCEPT ![t] = i]
  BY DEF NewTask, Free
<1>3. id'[t] = i /\ \A u \in Tasks : u # t => at'[u] = at[u] /\ id'[u] = id[u]
  BY <1>2 DEF Core, Types
<1>4. \A p \in DOMAIN snapshot : snapshot[p] \in Ids
  BY DEF Core, Types
<1>5. Suffix'
  BY <1>1 DEF Suffix, Passed
<1>6. Reversed'
  <2>1. ASSUME NEW p \in DOMAIN snapshot, NEW q \in DOMAIN snapshot,
               NEW a \in DOMAIN specs', NEW b \in DOMAIN specs',
               p < q, a < b, specs'[a] = snapshot[p], specs'[b] = snapshot[q]
        PROVE  specs'[b] \in redone'
    <3>1. CASE \E m, n \in DOMAIN specs : m < n /\ specs[m] = specs'[a] /\ specs[n] = specs'[b]
      BY <1>1, <2>1, <3>1 DEF Reversed
    <3>2. CASE ~InSpecs(specs'[b])
      <4>1. ~InSpecs(snapshot[q])
        BY <2>1, <3>2
      <4> QED
        BY <1>1, <2>1, <4>1 DEF Staying
    <3> QED
      BY <2>1, <3>1, <3>2 DEF InTheirOrder
  <2> QED
    BY <1>1, <2>1 DEF Reversed
<1>7. Staying'
  <2>1. ASSUME NEW p \in DOMAIN snapshot, snapshot[p] \notin redone'
        PROVE  InSpecs(snapshot[p])' /\ \A u \in Tasks : at'[u] = "starting" => id'[u] # snapshot[p]
    <3>1. PICK j \in Ids : j = snapshot[p]
      BY <1>4
    <3>2. j \notin redone /\ InSpecs(j) /\ \A u \in Tasks : at[u] = "starting" => id[u] # j
      BY <1>1, <2>1, <3>1 DEF Staying
    <3>3. InSpecs(j)' /\ j # i
      BY <2>1, <3>1, <3>2
    <3> QED
      BY <1>1, <1>3, <3>1, <3>2, <3>3 DEF InSpecs
  <2> QED
    BY <1>1, <2>1 DEF Staying
<1>8. Gone'
  BY <1>1 DEF Gone, Running
<1>9. Waiting'
  BY <1>1, <1>2, <1>3 DEF Waiting
<1> QED
  BY <1>1, <1>5, <1>6, <1>7, <1>8, <1>9

(* The snapshot goes down the specs, and its children are watched.           *)
LEMMA BeginsDescent ==
  ASSUME IInv, NoTwice, Watched, BeginTerminate PROVE Descent'
<1>1. /\ Core /\ Sealed /\ specs \in Seq(Ids)
      /\ sup' = "terminate" /\ terminating' = TRUE /\ todo' = ShutdownOrder /\ snapshot' = ShutdownOrder
      /\ UNCHANGED <<wait, specs, children, redone, id, at, gen, child>>
  BY DEF IInv, Core, Types, BeginTerminate, dicts, tasks, procs
<1> DEFINE S == {i \in Ids : children[i] # None}
<1>2. PICK s : s = S
  OBVIOUS
<1>3. PICK r : r = RunningIds
  OBVIOUS
<1>4. r = Keep(specs, s)
  BY <1>2, <1>3 DEF RunningIds
<1>5. /\ r \in Seq(Ids) /\ DOMAIN r = 1..Len(r) /\ Len(r) \in Nat
      /\ \A n \in DOMAIN r : r[n] \in s
      /\ \A e : (\E n \in DOMAIN r : r[n] = e) <=> e \in s /\ \E n \in DOMAIN specs : specs[n] = e
      /\ \A a, b \in DOMAIN r : a < b => \E m, n \in DOMAIN specs : m < n /\ specs[m] = r[a] /\ specs[n] = r[b]
  <2>1. r \in Seq(Ids) /\ \A n \in DOMAIN r : r[n] \in s
    BY <1>1, <1>4, KeepProperties
  <2>2. \A e : (\E n \in DOMAIN r : r[n] = e) <=> e \in s /\ \E n \in DOMAIN specs : specs[n] = e
    BY <1>1, <1>4, KeepProperties
  <2>3. \A a, b \in DOMAIN r : a < b => \E m, n \in DOMAIN specs : m < n /\ specs[m] = r[a] /\ specs[n] = r[b]
    BY <1>1, <1>4, KeepOrder
  <2> QED
    BY <2>1, <2>2, <2>3
<1>6. /\ snapshot' = [n \in 1..Len(r) |-> r[Len(r) + 1 - n]] /\ snapshot' \in Seq(Ids)
      /\ todo' = snapshot'
  BY <1>1, <1>3, <1>5, ShutdownOrderType DEF ShutdownOrder
<1>7. /\ DOMAIN snapshot' = 1..Len(r)
      /\ \A n \in 1..Len(r) : Len(r) + 1 - n \in DOMAIN r /\ snapshot'[n] = r[Len(r) + 1 - n]
  BY <1>5, <1>6
<1>8. Len(snapshot') \in Nat /\ Passed' = 0
  BY <1>6 DEF Passed
<1>9. Suffix'
  BY <1>6, <1>8 DEF Suffix
<1>10. Reversed'
  <2>1. ASSUME NEW p \in DOMAIN snapshot', NEW q \in DOMAIN snapshot', p < q,
               NEW m \in DOMAIN specs, NEW n \in DOMAIN specs, m < n,
               specs[m] = snapshot'[p], specs[n] = snapshot'[q]
        PROVE  FALSE
    <3>1. /\ Len(r) + 1 - q \in DOMAIN r /\ Len(r) + 1 - p \in DOMAIN r
          /\ Len(r) + 1 - q < Len(r) + 1 - p
          /\ snapshot'[p] = r[Len(r) + 1 - p] /\ snapshot'[q] = r[Len(r) + 1 - q]
      BY <1>5, <1>7, <2>1
    <3>2. PICK k \in DOMAIN specs, l \in DOMAIN specs :
              k < l /\ specs[k] = snapshot'[q] /\ specs[l] = snapshot'[p]
      BY <1>5, <3>1
    <3>3. k = n /\ l = m
      BY <2>1, <3>2 DEF NoTwice
    <3> QED
      BY <1>1, <2>1, <3>2, <3>3
  <2> QED
    BY <1>1, <2>1 DEF Reversed
<1>11. Staying'
  <2>1. ASSUME NEW p \in DOMAIN snapshot', snapshot'[p] \notin redone
        PROVE  /\ \E n \in DOMAIN specs : specs[n] = snapshot'[p]
               /\ \A t \in Tasks : at[t] = "starting" => id[t] # snapshot'[p]
    <3>1. PICK i : i = snapshot'[p] /\ i \in s /\ \E n \in DOMAIN specs : specs[n] = i
      BY <1>5, <1>7
    <3>2. i \in Ids /\ children[i] # None
      BY <1>2, <3>1
    <3>3. ASSUME NEW t \in Tasks, at[t] = "starting", id[t] = i PROVE FALSE
      <4>1. ~Closed
        BY <1>1, <3>3 DEF Sealed, AnyActive, Active
      <4>2. PICK u \in Tasks : u = children[i] /\ at[u] = "watching" /\ id[u] = i
        BY <1>1, <2>1, <3>1, <3>2, <4>1 DEF Watched, Core, Types, Started
      <4>3. t = u
        BY <1>1, <2>1, <3>1, <3>3, <4>2 DEF Core, Hosted, Active
      <4> QED
        BY <3>3, <4>2, <4>3
    <3> QED
      BY <3>1, <3>3
  <2> QED
    BY <1>1, <2>1 DEF Staying, InSpecs
<1>12. Gone'
  BY <1>7, <1>8 DEF Gone
<1>13. Waiting'
  BY <1>1 DEF Waiting
<1> QED
  BY <1>1, <1>9, <1>10, <1>11, <1>12, <1>13 DEF Descent

(* It comes to the next child, which has stopped or is told to stop.         *)
LEMMA NextDescends ==
  ASSUME Core, Descent, NextChild PROVE Descent'
<1>1. /\ sup = "terminate" /\ todo # <<>> /\ todo' = Tail(todo) /\ sup' \in {"terminate", "wait"}
      /\ todo \in Seq(Ids) /\ snapshot \in Seq(Ids)
      /\ UNCHANGED <<terminating, snapshot, specs, children, redone, id, at, gen>>
  BY DEF NextChild, dicts, tasks, Core, Types
<1>2. terminating /\ Suffix /\ Reversed /\ Staying /\ Gone
  BY <1>1 DEF Descent
<1>3. /\ Len(todo) \in Nat /\ Len(todo) > 0 /\ Len(todo') = Len(todo) - 1 /\ todo' \in Seq(Ids)
      /\ DOMAIN todo = 1..Len(todo) /\ DOMAIN todo' = 1..Len(todo) - 1
      /\ Head(todo) = todo[1] /\ Head(todo) \in Ids
      /\ \A n \in 1..Len(todo) - 1 : todo'[n] = todo[n + 1]
      /\ Len(snapshot) \in Nat /\ DOMAIN snapshot = 1..Len(snapshot)
  BY <1>1, HeadTailProperties, EmptySeq
<1>4. /\ Passed \in Nat /\ Passed' = Passed + 1 /\ Passed' \in DOMAIN snapshot
      /\ snapshot[Passed'] = Head(todo)
  BY <1>1, <1>2, <1>3 DEF Passed, Suffix
<1>5. Suffix'
  <2>1. ASSUME NEW n \in 1..Len(todo) - 1 PROVE todo'[n] = snapshot[Passed' + n]
    <3>1. n + 1 \in DOMAIN todo /\ Passed + (n + 1) = Passed' + n
      BY <1>3, <1>4
    <3>2. todo[n + 1] = snapshot[Passed + (n + 1)]
      BY <1>2, <3>1 DEF Suffix
    <3> QED
      BY <1>3, <3>1, <3>2
  <2> QED
    BY <1>1, <1>2, <1>3, <2>1 DEF Suffix
<1>6. Reversed' /\ Staying'
  BY <1>1, <1>2 DEF Reversed, Staying, InSpecs
<1>7. \A u \in Tasks : child[u] \notin Runs => child'[u] \notin Runs
  <2>1. Quietly
    BY SupervisorStepsAreQuiet
  <2> QED
    BY <2>1 DEF Quietly
<1>8. PICK h, t : h = Head(todo) /\ t = children[h]
  OBVIOUS
<1>9. \/ sup' = sup /\ (t = None \/ child[t] = "stopped")
      \/ t # None /\ sup' = "wait" /\ wait' = Proc(t)
  BY <1>8 DEF NextChild
<1>10. Gone'
  <2>1. ASSUME NEW p \in DOMAIN snapshot, snapshot[p] \notin redone,
               p < Passed' \/ (p = Passed' /\ sup' = "terminate"),
               children[snapshot[p]] # None
        PROVE  child'[children[snapshot[p]]] \notin Runs
    <3>1. PICK i \in Ids : i = snapshot[p]
      BY <1>3, <1>1
    <3>2. PICK u \in Tasks : u = children[i]
      BY <2>1, <3>1 DEF Core, Types
    <3>3. child[u] \notin Runs
      <4>1. CASE p < Passed'
        <5>1. p <= Passed
          BY <1>3, <1>4, <4>1
        <5>2. p < Passed \/ (p = Passed /\ sup = "terminate")
          BY <1>1, <1>3, <1>4, <5>1
        <5> QED
          BY <1>2, <2>1, <3>1, <3>2, <5>2, RunningIn DEF Gone
      <4>2. CASE p = Passed' /\ sup' = "terminate"
        <5>1. u = t /\ child[t] = "stopped"
          BY <1>1, <1>4, <1>8, <1>9, <2>1, <3>1, <3>2, <4>2
        <5> QED
          BY <5>1 DEF Runs
      <4> QED
        BY <2>1, <4>1, <4>2
    <3> QED
      BY <1>7, <3>1, <3>2, <3>3
  <2> QED
    BY <1>1, <2>1 DEF Gone, Running, Runs
<1>11. Waiting'
  <2>1. CASE sup' = "wait"
    <3>1. t \in Tasks /\ id[t] = h /\ at[t] # "none" /\ wait' = Proc(t)
      BY <1>1, <1>3, <1>8, <1>9, <2>1 DEF Core, Types, Started
    <3>2. wait'.task = t /\ wait'.gen = gen[t]
      BY <3>1 DEF Proc
    <3> QED
      BY <1>1, <1>4, <1>8, <3>1, <3>2 DEF Waiting
  <2> QED
    BY <2>1 DEF Waiting
<1> QED
  BY <1>1, <1>2, <1>5, <1>6, <1>10, <1>11 DEF Descent

(* The child it waited for has stopped, and its id was not started again.    *)
LEMMA GoneDescends ==
  ASSUME Core, Descent, ChildGone PROVE Descent'
<1>1. /\ sup = "wait" /\ HasStopped(wait) /\ sup' = "terminate"
      /\ UNCHANGED <<terminating, todo, snapshot, specs, children, redone, id, at, gen, child>>
  BY DEF ChildGone, dicts, tasks, procs
<1>2. /\ terminating /\ Suffix /\ Reversed /\ Staying /\ Gone /\ Waiting /\ Passed' = Passed
      /\ Passed \in Int /\ \A p \in DOMAIN snapshot : p \in Nat
  BY <1>1 DEF Descent, Passed, Core, Types
<1>3. Suffix' /\ Reversed' /\ Staying' /\ Waiting'
  BY <1>1, <1>2 DEF Suffix, Passed, Reversed, Staying, InSpecs, Waiting
<1>4. Gone'
  <2>1. ASSUME NEW p \in DOMAIN snapshot, snapshot[p] \notin redone,
               p < Passed \/ p = Passed,
               children[snapshot[p]] # None
        PROVE  ~Running(children[snapshot[p]])
    <3>1. CASE p < Passed
      BY <1>2, <2>1, <3>1 DEF Gone
    <3>2. CASE p = Passed
      <4>1. PICK u : u = wait.task /\ u \in Tasks /\ id[u] = snapshot[p]
                     /\ wait.gen = gen[u] /\ children[id[u]] \in {u, None}
        BY <1>1, <1>2, <2>1, <3>2 DEF Waiting
      <4>2. gen[u] \in Nat
        BY <4>1 DEF Core, Types
      <4>3. child[u] = "stopped"
        BY <1>1, <4>1, <4>2 DEF HasStopped
      <4> QED
        BY <2>1, <4>1, <4>3 DEF Running
    <3> QED
      BY <2>1, <3>1, <3>2
  <2> QED
    BY <1>1, <1>2, <2>1 DEF Gone, Running
<1> QED
  BY <1>1, <1>2, <1>3, <1>4 DEF Descent

(* The other steps of the supervisor's own task are not in its shutdown.     *)
LEMMA OtherwiseNoDescent ==
  ASSUME \/ SeedsReady \/ LeaveLoop \/ EndTerminate \/ TerminateRaises \/ SkipTerminate
         \/ NextKid \/ KidEnds \/ Abort \/ Finish \/ StopSupervisor \/ KillSupervisor
         \/ GroupCancelled
  PROVE  sup' \notin {"terminate", "wait"}
<1>1. CASE SeedsReady \/ LeaveLoop \/ StopSupervisor \/ KillSupervisor
  BY <1>1 DEF SeedsReady, LeaveLoop, StopSupervisor, KillSupervisor
<1>2. CASE EndTerminate \/ TerminateRaises \/ SkipTerminate
  BY <1>2 DEF EndTerminate, TerminateRaises, SkipTerminate, Teardown
<1>3. CASE NextKid \/ KidEnds \/ Abort \/ Finish
  BY <1>3 DEF NextKid, KidEnds, Abort, Finish
<1>4. CASE GroupCancelled
  BY <1>4, CancelledCloses
<1> QED
  BY <1>1, <1>2, <1>3, <1>4

(* The invariant behind the order is inductive. *)
LEMMA StepsKeepOrder ==
  ASSUME OInv, [Next]_vars PROVE OInv'
<1>1. /\ Core /\ Watched /\ Descent /\ IInv /\ IInv' /\ Core' /\ InTheirOrder
      /\ NoTwice /\ NoTwice'
  BY StepsKeepIInv, SpecsStayInOrder, NoTwiceStays DEF OInv, IInv
<1> SUFFICES Watched' /\ Descent'
  BY <1>1 DEF OInv
<1>2. ASSUME Quietly, Calmly, UNCHANGED supvars PROVE Watched' /\ Descent'
  <2>1. Closed' <=> Closed
    BY <1>2 DEF supvars, Closed
  <2> QED
    BY <1>1, <1>2, <2>1, QuietlyWatched, QuietlyDescends DEF supvars
<1>3. CASE SupStep \/ StopSupervisor \/ KillSupervisor
  <2>1. CASE Finish
    <3>1. Watched' /\ sup' = "stopped"
      BY <2>1 DEF Finish, Watched, Closed
    <3> QED
      BY <3>1 DEF Descent
  <2>2. CASE ~Finish
    <3>1. Watched'
      BY <1>1, <1>3, <2>2, SupervisorStepsAreQuiet, ClosedStays, QuietlyWatched DEF SupStep
    <3>2. CASE BeginTerminate \/ NextChild \/ ChildGone
      BY <1>1, <3>1, <3>2, BeginsDescent, NextDescends, GoneDescends
    <3>3. CASE ~(BeginTerminate \/ NextChild \/ ChildGone)
      BY <1>3, <2>2, <3>1, <3>3, OtherwiseNoDescent DEF SupStep, Descent
    <3> QED
      BY <3>2, <3>3
  <2> QED
    BY <2>1, <2>2
<1>4. ASSUME NEW t \in Tasks,
             TaskStep(t) \/ ChildStep(t) \/ ChildKilled(t) \/ KillAfterTimeout(t)
      PROVE  Watched' /\ Descent'
  <2>1. CASE ChildStep(t) \/ ChildKilled(t) \/ KillAfterTimeout(t)
    <3>1. UNCHANGED supvars
      BY <2>1 DEF ChildStep, ChildLeaves, ChildStops, ChildKilled, KillAfterTimeout
    <3> QED
      BY <1>1, <1>2, <2>1, <3>1, ProcessStepsAreQuiet DEF ChildStep
  <2>2. CASE ChildEnds(t) \/ ChildRestarts(t)
    <3>1. UNCHANGED supvars
      BY <2>2 DEF ChildEnds, ChildRestarts
    <3> QED
      BY <1>1, <1>2, <2>2, <3>1, TaskStepsAreQuiet
  <2>3. ASSUME GroupCancelled PROVE Watched' /\ Descent'
    <3>1. Closed' /\ sup' \notin {"terminate", "wait"}
      BY <2>3, CancelledCloses, OtherwiseNoDescent
    <3> QED
      BY <3>1 DEF Watched, Descent
  <2>4. CASE StartFails(t)
    BY <2>3, <2>4 DEF StartFails
  <2>5. CASE RestartsExceeded(t)
    <3>1. CASE GroupCancelled
      BY <2>3, <3>1
    <3>2. CASE ~GroupCancelled
      <4>1. /\ Quietly /\ Calmly /\ sup' = sup /\ sup \in {"seeding", "loop"}
            /\ stop' = "seed_failed" <=> stop = "seed_failed"
        BY <1>1, <2>5, <3>2, RestartsExceededIsQuiet
      <4>2. Watched'
        BY <1>1, <4>1, QuietlyWatched DEF Closed
      <4> QED
        BY <4>1, <4>2 DEF Descent
    <3> QED
      BY <3>1, <3>2
  <2>6. CASE ChildStarted(t)
    <3>1. Descent' /\ UNCHANGED supvars
      BY <1>1, <2>6, StartedDescends DEF ChildStarted
    <3>2. ASSUME ~Closed', NEW i \in Ids, children'[i] # None, i \notin redone'
          PROVE  at'[children'[i]] = "watching"
      <4>1. /\ at' = [at EXCEPT ![t] = "watching"] /\ children' = [children EXCEPT ![id[t]] = t]
            /\ redone' = redone /\ ~Closed
        BY <2>6, <3>1, <3>2 DEF ChildStarted, Closed, supvars
      <4>2. CASE i = id[t]
        BY <1>1, <4>1, <4>2 DEF Core, Types
      <4>3. CASE i # id[t]
        BY <1>1, <3>2, <4>1, <4>3 DEF Watched, Core, Types
      <4> QED
        BY <4>2, <4>3
    <3> QED
      BY <3>1, <3>2 DEF Watched
  <2> QED
    BY <1>4, <2>1, <2>2, <2>4, <2>5, <2>6 DEF TaskStep
<1>5. ASSUME NEW c, NEW i,
             Returns(c) \/ (i \in Ids /\ (TerminateChild(c, i) \/ DeleteChild(i)))
      PROVE  Watched' /\ Descent'
  <2>1. UNCHANGED supvars
    BY <1>5 DEF Returns, StartReturns, TerminateReturns, TerminateChild, DeleteChild
  <2> QED
    BY <1>1, <1>2, <1>5, <2>1, ClientStepsAreQuiet DEF Returns
<1>6. ASSUME NEW c \in Clients, NEW i \in Ids, StartChild(c, i) \/ RestartChild(c, i)
      PROVE  Watched' /\ Descent'
  <2>1. AddChild(c, i) \/ AddAgain(c, i)
    BY <1>6 DEF StartChild, RestartChild
  <2>2. PICK t \in Tasks : NewTask(t, i)
    BY <2>1 DEF AddChild, AddAgain
  <2>3. /\ UNCHANGED <<supvars, gen, child, children>>
        /\ redone \subseteq redone' /\ (~InSpecs(i) \/ i \in redone')
    BY <2>1 DEF AddChild, AddAgain, IdInUse, dicts, procs
  <2>4. \A j \in Ids : InSpecs(j) => InSpecs(j)'
    <3>1. specs' = specs \/ specs' = Append(Without(i), i)
      BY <2>1 DEF AddChild, AddAgain, dicts
    <3>2. \A j : (\E n \in DOMAIN Append(Without(i), i) : Append(Without(i), i)[n] = j)
                     <=> j = i \/ InSpecs(j)
      BY <1>1, WithOneMore DEF Core, Types
    <3> QED
      BY <3>1, <3>2 DEF InSpecs
  <2>5. Descent'
    BY <1>1, <2>2, <2>3, <2>4, AddedDescends
  <2>6. ASSUME ~Closed', NEW j \in Ids, children'[j] # None, j \notin redone'
        PROVE  at'[children'[j]] = "watching"
    <3>1. /\ at[t] = "none" /\ at' = [at EXCEPT ![t] = "starting"] /\ ~Closed
          /\ children' = children /\ j \notin redone
      BY <2>2, <2>3, <2>6 DEF NewTask, Free, Closed, supvars
    <3>2. children[j] \in Tasks /\ at[children[j]] = "watching"
      BY <1>1, <2>6, <3>1 DEF Watched, Core, Types
    <3> QED
      BY <1>1, <3>1, <3>2 DEF Core, Types
  <2> QED
    BY <2>5, <2>6 DEF Watched
<1>7. CASE UNCHANGED vars
  <2>1. Quietly /\ Calmly /\ UNCHANGED supvars
    BY <1>1, <1>7, QuietAtTasks DEF vars, supvars, dicts, tasks, procs, Core, Types
  <2> QED
    BY <1>2, <2>1
<1> QED
  BY <1>3, <1>4, <1>5, <1>6, <1>7 DEF Next, AllOver

-----------------------------------------------------------------------------
(* The entries of the running processes. *)

(* A call of terminate_child goes on while nothing is taken from its id but  *)
(* its tasks.                                                                *)
LEMMA StillDropsMarked ==
  ASSUME DropsMarked, client' = client, Early' => Early, redone \subseteq redone',
         \A i : Marked(i) => Marked(i)' \/ i \in redone'
  PROVE  DropsMarked'
BY DEF DropsMarked

(* Steps that leave the entries, the marks and the calls alone. *)
LEMMA QuietlyEntered ==
  ASSUME Core, EInv, Quietly, UNCHANGED <<children, preserve, client, specs>>,
         sup' = sup \/ sup' \notin {"seeding", "seed_failed"} \/ sup = "seeding",
         sup' \in {"seeding", "seed_failed", "loop", "closing", "terminate", "wait"} =>
             sup \in {"seeding", "seed_failed", "loop", "closing", "terminate", "wait"},
         stop' = "seed_failed" => stop = "seed_failed" \/ sup = "seed_failed"
  PROVE  EInv'
<1>1. /\ \A t \in Tasks : /\ Running(t)' => Running(t)
                          /\ Active(t)' => Active(t)
      /\ id' = id /\ redone \subseteq redone'
  BY DEF Quietly, Running, Runs, Active
<1>2. Entered'
  BY <1>1 DEF EInv, Entered, DroppedEntry
<1>3. Early' => Early
  BY DEF Early
<1>4. \A i : Marked(i) => Marked(i)'
  BY <1>1 DEF Marked, InSpecs
<1>5. DropsMarked'
  BY <1>1, <1>3, <1>4, StillDropsMarked DEF EInv
<1> QED
  BY <1>2, <1>5 DEF EInv, IsFunction

(* A task whose process has stopped takes the entry of its id, and ends or   *)
(* goes on.                                                                  *)
LEMMA StoppedEntered ==
  ASSUME IInv, EInv, NEW t \in Tasks, Stopped(t), Quietly, client' = client,
         Entered', Early' => Early,
         \/ UNCHANGED <<preserve, specs>>
         \/ /\ id[t] \in preserve /\ preserve' = preserve \ {id[t]} /\ specs' = specs
            /\ at' = [at EXCEPT ![t] = "done"]
         \/ id[t] \notin preserve /\ specs' = Without(id[t]) /\ preserve' = preserve
  PROVE  EInv'
<1>1. /\ \A u \in Tasks : Active(u)' => Active(u)
      /\ id' = id /\ redone \subseteq redone' /\ specs \in Seq(Ids) /\ Active(t)
  BY DEF Quietly, Active, IInv, Core, Types, Stopped
<1>2. ASSUME NEW i, Marked(i) PROVE Marked(i)' \/ i \in redone'
  <2>1. CASE UNCHANGED <<preserve, specs>>
    BY <1>1, <1>2, <2>1 DEF Marked, InSpecs
  <2>2. CASE /\ id[t] \in preserve /\ preserve' = preserve \ {id[t]} /\ specs' = specs
             /\ at' = [at EXCEPT ![t] = "done"]
    <3>1. InSpecs(i)'
      BY <1>2, <2>2 DEF Marked, InSpecs
    <3>2. CASE i # id[t]
      BY <1>1, <1>2, <2>2, <3>1, <3>2 DEF Marked
    <3>3. CASE i = id[t] /\ i \notin redone
      <4>1. ASSUME NEW u \in Tasks, id'[u] = i, Active(u)' PROVE FALSE
        <5>1. u # t
          BY <2>2, <4>1 DEF Active, IInv, Core, Types
        <5> QED
          BY <1>1, <3>3, <4>1, <5>1 DEF IInv, Core, Hosted
      <4> QED
        BY <3>1, <4>1 DEF Marked
    <3> QED
      BY <1>1, <3>2, <3>3
  <2>3. CASE id[t] \notin preserve /\ specs' = Without(id[t]) /\ preserve' = preserve
    <3>1. i # id[t]
      BY <1>1, <1>2, <2>3 DEF Marked
    <3>2. InSpecs(i)
      BY <1>2 DEF Marked
    <3>3. InSpecs(i)'
      <4>1. PICK k : k = id[t]
        OBVIOUS
      <4>2. \E n \in DOMAIN Without(k) : Without(k)[n] = i
        BY <1>1, <3>1, <3>2, <4>1, WithoutOne
      <4> QED
        BY <2>3, <4>1, <4>2 DEF InSpecs
    <3> QED
      BY <1>1, <1>2, <2>3, <3>3 DEF Marked
  <2> QED
    BY <2>1, <2>2, <2>3
<1>3. DropsMarked'
  BY <1>1, <1>2, StillDropsMarked DEF EInv
<1> QED
  BY <1>3 DEF EInv, IsFunction

(* While the group is open an id that is not done again has one process, so  *)
(* the entry that a stopped one takes is no other's.                         *)
LEMMA NoOtherRuns ==
  ASSUME IInv, NEW t \in Tasks, Active(t), id[t] \notin redone,
         NEW u \in Tasks, Running(u), id[u] = id[t]
  PROVE  u = t
<1>1. ~Closed
  BY DEF IInv, Sealed, AnyActive
<1>2. Active(u)
  BY <1>1 DEF IInv, Sealed, Uncovered, Active
<1> QED
  BY <1>2 DEF IInv, Core, Hosted

LEMMA TaskEndsEntered ==
  ASSUME IInv, EInv, NEW t \in Tasks, Stopped(t), Quietly,
         preserve' \in {preserve, preserve \ {id[t]}},
         sup' = sup \/ sup' \notin {"seeding", "seed_failed", "loop", "closing", "terminate", "wait"}
                    \/ sup = "seeding"
  PROVE  Entered'
<1> SUFFICES ASSUME sup' \in {"seeding", "seed_failed", "loop", "closing", "terminate", "wait"},
                    NEW u \in Tasks, Running(u)', id'[u] \notin redone'
             PROVE  children'[id'[u]] = u \/ DroppedEntry(id[u])'
  BY DEF Entered, DroppedEntry
<1>1. Running(u) /\ id'[u] = id[u] /\ id[u] \notin redone
  BY DEF Quietly, Running, Runs
<1>2. children[id[u]] = u \/ DroppedEntry(id[u])
  BY <1>1 DEF EInv, Entered
<1>3. at[t] = "watching" /\ ~Running(t) /\ children' = [children EXCEPT ![id[t]] = None]
  BY DEF Stopped, Forget, Running
<1>4. id[u] # id[t]
  <2>1. u # t /\ Active(t)
    BY <1>1, <1>3 DEF Active
  <2> QED
    BY <1>1, <2>1, NoOtherRuns
<1>5. children'[id[u]] = children[id[u]]
  BY <1>3, <1>4 DEF IInv, Core, Types
<1> QED
  BY <1>1, <1>2, <1>4, <1>5 DEF DroppedEntry

(* The steps of the tasks and of their processes. *)
LEMMA TaskStepsKeepEntries ==
  ASSUME IInv, EInv, NEW t \in Tasks,
         TaskStep(t) \/ ChildStep(t) \/ ChildKilled(t) \/ KillAfterTimeout(t)
  PROVE  EInv'
<1>0. Core
  BY DEF IInv
<1>1. CASE ChildStep(t) \/ ChildKilled(t) \/ KillAfterTimeout(t)
  <2>1. UNCHANGED <<supvars, dicts, client>>
    BY <1>1 DEF ChildStep, ChildLeaves, ChildStops, ChildKilled, KillAfterTimeout
  <2>2. Quietly
    BY <1>0, <1>1, ProcessStepsAreQuiet DEF ChildStep
  <2> QED
    BY <1>0, <2>1, <2>2, QuietlyEntered DEF supvars, dicts
<1>2. CASE ChildEnds(t)
  <2>1. Quietly
    BY <1>0, <1>2, TaskStepsAreQuiet
  <2>2. /\ Stopped(t) /\ UNCHANGED supvars /\ client' = client
        /\ \/ UNCHANGED <<preserve, specs>>
           \/ /\ id[t] \in preserve /\ preserve' = preserve \ {id[t]} /\ specs' = specs
              /\ at' = [at EXCEPT ![t] = "done"]
           \/ id[t] \notin preserve /\ specs' = Without(id[t]) /\ preserve' = preserve
    BY <1>2 DEF ChildEnds
  <2>3. Entered' /\ (Early' => Early)
    BY <2>1, <2>2, TaskEndsEntered DEF supvars, Early
  <2> QED
    BY <2>1, <2>2, <2>3, StoppedEntered
<1>3. CASE ChildRestarts(t)
  <2>1. Quietly
    BY <1>0, <1>3, TaskStepsAreQuiet
  <2>2. Stopped(t) /\ UNCHANGED supvars /\ UNCHANGED <<client, preserve, specs>>
    BY <1>3, Zenon DEF ChildRestarts
  <2>3. preserve' \in {preserve, preserve \ {id[t]}}
    BY <2>2
  <2>4. Entered' /\ (Early' => Early)
    BY <2>1, <2>2, <2>3, TaskEndsEntered DEF supvars, Early
  <2> QED
    BY <2>1, <2>2, <2>4, StoppedEntered
<1>4. CASE RestartsExceeded(t)
  <2>1. Quietly
    BY <1>0, <1>4, RestartsExceededIsQuiet
  <2>2. Stopped(t) /\ UNCHANGED <<client, preserve, specs>>
    BY <1>4 DEF RestartsExceeded
  <2>3. \/ sup' = sup /\ (stop' = "seed_failed" <=> stop = "seed_failed")
        \/ GroupCancelled /\ stop' = stop
    BY <1>0, <1>4, RestartsExceededIsQuiet
  <2>4. preserve' \in {preserve, preserve \ {id[t]}}
    BY <2>2
  <2>5. \/ sup' = sup
        \/ sup' \notin {"seeding", "seed_failed", "loop", "closing", "terminate", "wait"}
        \/ sup = "seeding"
    BY <2>3, CancelledCloses
  <2>6. Early' => Early
    BY <2>3, <2>5 DEF Early
  <2>7. Entered'
    BY <2>1, <2>2, <2>4, <2>5, TaskEndsEntered
  <2> QED
    BY <2>1, <2>2, <2>6, <2>7, StoppedEntered
<1>5. CASE StartFails(t)
  <2>1. Quietly /\ GroupCancelled /\ stop' = stop
    BY <1>0, <1>5, StartFailsIsQuiet
  <2>2. UNCHANGED <<children, preserve, client, specs>>
    BY <1>5 DEF StartFails, dicts
  <2>3. sup' \in {"aborting", "aborted"} \/ sup = "seeding"
    BY <2>1, CancelledCloses
  <2> QED
    BY <1>0, <2>1, <2>2, <2>3, QuietlyEntered
<1>6. CASE ChildStarted(t)
  <2>1. /\ at[t] = "starting" /\ at' = [at EXCEPT ![t] = "watching"]
        /\ child' = [child EXCEPT ![t] = "live"]
        /\ children' = [children EXCEPT ![id[t]] = t]
        /\ UNCHANGED <<sup, stop, specs, preserve, id, redone, client>>
    BY <1>6 DEF ChildStarted, supvars
  <2>2. Active(t) /\ id[t] \in Ids /\ \A u \in Tasks : Active(u)' => Active(u)
    BY <1>0, <2>1 DEF Active, Core, Types, Started
  <2>3. ASSUME NEW u \in Tasks, Running(u)', id'[u] \notin redone',
               sup \in {"seeding", "seed_failed", "loop", "closing", "terminate", "wait"}
        PROVE  children'[id'[u]] = u \/ DroppedEntry(id[u])'
    <3>1. CASE u = t
      BY <1>0, <2>1, <2>2, <3>1 DEF Core, Types
    <3>2. CASE u # t
      <4>1. Running(u)
        BY <1>0, <2>1, <2>3, <3>2 DEF Running, Core, Types
      <4>2. id[u] # id[t]
        BY <2>1, <2>2, <2>3, <3>2, <4>1, NoOtherRuns
      <4>3. children'[id[u]] = children[id[u]]
        BY <1>0, <2>1, <4>2 DEF Core, Types
      <4> QED
        BY <2>1, <2>3, <4>1, <4>3 DEF EInv, Entered, DroppedEntry
    <3> QED
      BY <3>1, <3>2
  <2>4. Entered'
    BY <2>1, <2>3 DEF Entered, DroppedEntry
  <2>5. \A i : Marked(i) => Marked(i)'
    BY <2>1, <2>2 DEF Marked, InSpecs
  <2>6. DropsMarked'
    BY <2>1, <2>5, StillDropsMarked DEF EInv, Early
  <2> QED
    BY <2>1, <2>4, <2>6 DEF EInv, IsFunction
<1> QED
  BY <1>1, <1>2, <1>3, <1>4, <1>5, <1>6 DEF TaskStep

(* The steps of the supervisor's own task. *)
LEMMA OwnStepsKeepEntries ==
  ASSUME IInv, EInv, SupStep \/ StopSupervisor \/ KillSupervisor PROVE EInv'
<1>0. Core
  BY DEF IInv
<1>1. CASE EndTerminate
  <2>1. /\ UNCHANGED <<preserve, client, specs, id, redone, stop, at>>
        /\ sup' \in {"aborted", "teardown"}
    BY <1>1 DEF EndTerminate, Teardown, tasks
  <2>2. DropsMarked'
    BY <2>1, StillDropsMarked DEF EInv, Early, Marked, InSpecs, Active
  <2> QED
    BY <2>1, <2>2 DEF EInv, Entered, IsFunction
<1>2. CASE Finish
  <2>1. Quietly /\ sup' = "stopped" /\ stop' = stop
    BY <1>0, <1>2, FinishIsQuiet
  <2>2. UNCHANGED <<children, preserve, client, specs>>
    BY <1>2 DEF Finish, dicts
  <2> QED
    BY <1>0, <2>1, <2>2, QuietlyEntered
<1>3. CASE \/ SeedsReady \/ LeaveLoop \/ BeginTerminate \/ NextChild \/ ChildGone
           \/ TerminateRaises \/ SkipTerminate \/ NextKid \/ KidEnds
           \/ Abort \/ StopSupervisor \/ KillSupervisor
  <2>1. Quietly
    BY <1>0, <1>3, SupervisorStepsAreQuiet
  <2>2. UNCHANGED <<children, preserve, client, specs>>
    BY <1>3 DEF SeedsReady, LeaveLoop, BeginTerminate, NextChild, ChildGone,
       TerminateRaises, SkipTerminate, NextKid, KidEnds, Abort, StopSupervisor,
       KillSupervisor, dicts
  <2>3. /\ sup' = sup \/ sup' \notin {"seeding", "seed_failed"} \/ sup = "seeding"
        /\ sup' \in {"seeding", "seed_failed", "loop", "closing", "terminate", "wait"} =>
              sup \in {"seeding", "seed_failed", "loop", "closing", "terminate", "wait"}
        /\ stop' = "seed_failed" => stop = "seed_failed" \/ sup = "seed_failed"
    <3>1. CASE SeedsReady \/ LeaveLoop \/ BeginTerminate \/ NextChild \/ ChildGone
      BY <3>1 DEF SeedsReady, LeaveLoop, BeginTerminate, NextChild, ChildGone
    <3>2. CASE TerminateRaises \/ SkipTerminate
      BY <3>2 DEF TerminateRaises, SkipTerminate, Teardown
    <3>3. CASE NextKid \/ KidEnds \/ Abort \/ StopSupervisor \/ KillSupervisor
      BY <3>3 DEF NextKid, KidEnds, Abort, StopSupervisor, KillSupervisor
    <3> QED
      BY <1>3, <3>1, <3>2, <3>3
  <2> QED
    BY <1>0, <2>1, <2>2, <2>3, QuietlyEntered
<1> QED
  BY <1>1, <1>2, <1>3 DEF SupStep

(* terminate_child: it marks its id, and drops no entry yet but that of a    *)
(* process that has stopped.                                                 *)
LEMMA TerminateKeepsEntries ==
  ASSUME IInv, EInv, NEW c \in Clients, NEW i \in Ids, TerminateChild(c, i) PROVE EInv'
<1>0. Core /\ Quietly /\ ~Early
  BY ClientStepsAreQuiet DEF IInv, TerminateChild, Open, Early
<1>1. /\ UNCHANGED <<sup, stop, specs, id, redone, at, gen>> /\ InSpecs(i)
      /\ preserve' = preserve \cup {i}
      /\ \/ children' = children
         \/ /\ children[i] # None /\ child[children[i]] = "stopped" /\ child' = child
            /\ children' = [children EXCEPT ![i] = None]
  BY DEF TerminateChild, supvars, tasks
<1>2. client' = client \/ \E w : client' = [client EXCEPT ![c] = [op |-> "terminate", id |-> i, proc |-> w]]
  BY DEF TerminateChild, Waits
<1>3. ASSUME NEW t \in Tasks, Running(t)', id[t] \notin redone,
             sup \in {"seeding", "seed_failed", "loop", "closing", "terminate", "wait"}
      PROVE  children'[id[t]] = t \/ (id[t] \in preserve' /\ children'[id[t]] = None)
  <2>1. Running(t)
    BY <1>0, <1>3 DEF Quietly, Running, Runs
  <2>2. children[id[t]] = t \/ (id[t] \in preserve /\ children[id[t]] = None)
    BY <1>3, <2>1 DEF EInv, Entered, DroppedEntry
  <2>3. CASE children' = children
    BY <1>1, <2>2, <2>3
  <2>4. CASE child[children[i]] = "stopped" /\ children' = [children EXCEPT ![i] = None]
    <3>1. id[t] \in Ids /\ (id[t] = i => children[i] = None \/ t # children[i])
      BY <1>0, <2>1, <2>4 DEF Running, Core, Types, Started
    <3>2. children \in [Ids -> Tasks \cup {None}]
      BY <1>0 DEF Core, Types
    <3> QED
      BY <1>1, <2>2, <2>4, <3>1, <3>2
  <2> QED
    BY <1>1, <2>3, <2>4
<1>4. Entered'
  BY <1>1, <1>3 DEF Entered, DroppedEntry
<1>5. Marked(i)' /\ ~Early' /\ \A j : Marked(j) => Marked(j)'
  BY <1>0, <1>1 DEF Marked, InSpecs, Early, Active
<1>6. DropsMarked' /\ IsFunction'
  <2>1. CASE client' = client
    BY <1>0, <1>1, <1>5, <2>1 DEF EInv, DropsMarked, IsFunction
  <2>2. ASSUME NEW w, client' = [client EXCEPT ![c] = [op |-> "terminate", id |-> i, proc |-> w]]
        PROVE  DropsMarked' /\ IsFunction'
    <3>1. /\ client'[c].id = i
          /\ \A d \in Clients \ {c} : client'[d] = client[d]
      BY <2>2 DEF EInv, IsFunction
    <3>2. DropsMarked'
      BY <1>0, <1>1, <1>5, <3>1 DEF EInv, DropsMarked
    <3>3. IsFunction'
      BY <2>2 DEF EInv, IsFunction
    <3> QED
      BY <3>2, <3>3
  <2> QED
    BY <1>2, <2>1, <2>2
<1> QED
  BY <1>4, <1>6 DEF EInv

(* Its return: what still runs under that id is watched, so the id is        *)
(* marked.                                                                   *)
LEMMA TerminateReturnEntered ==
  ASSUME IInv, EInv, NEW c \in Clients, TerminateReturns(c) PROVE EInv'
<1>1. /\ UNCHANGED <<sup, stop, specs, preserve, id, redone, at, child>>
      /\ client[c].op = "terminate"
      /\ children' = [children EXCEPT ![client[c].id] = None]
      /\ client' = [client EXCEPT ![c] = Idle]
  BY DEF TerminateReturns, supvars, tasks, procs
<1>2. PICK i : i = client[c].id
  OBVIOUS
<1>3. ~Early /\ (i \in redone \/ Marked(i))
  BY <1>1, <1>2 DEF EInv, DropsMarked
<1>4. ASSUME NEW t \in Tasks, Running(t), id[t] \notin redone,
             sup \in {"seeding", "seed_failed", "loop", "closing", "terminate", "wait"}
      PROVE  children'[id[t]] = t \/ (id[t] \in preserve /\ children'[id[t]] = None)
  <2>1. children[id[t]] = t \/ (id[t] \in preserve /\ children[id[t]] = None)
    BY <1>4 DEF EInv, Entered, DroppedEntry
  <2>2. ~Closed
    BY <1>3, <1>4 DEF Early, Closed
  <2>3. Active(t) /\ id[t] \in Ids /\ children \in [Ids -> Tasks \cup {None}]
    BY <1>4, <2>2 DEF IInv, Sealed, Uncovered, Active, Core, Started, Types
  <2>4. CASE id[t] = i
    BY <1>1, <1>2, <1>3, <1>4, <2>3, <2>4 DEF Marked
  <2>5. CASE id[t] # i
    BY <1>1, <1>2, <2>1, <2>3, <2>5
  <2> QED
    BY <2>4, <2>5
<1>5. Entered'
  BY <1>1, <1>4 DEF Entered, DroppedEntry, Running
<1>6. \A j : Marked(j) => Marked(j)'
  BY <1>1 DEF Marked, InSpecs, Active
<1>7. /\ client'[c].op = "idle" /\ IsFunction'
      /\ \A d \in Clients \ {c} : client'[d] = client[d]
  BY <1>1 DEF EInv, IsFunction, Idle
<1>8. DropsMarked'
  BY <1>1, <1>6, <1>7 DEF EInv, DropsMarked, Early
<1> QED
  BY <1>5, <1>7, <1>8 DEF EInv

(* start_child and restart_child. *)
LEMMA AddsKeepEntries ==
  ASSUME IInv, EInv, NEW c \in Clients, NEW i \in Ids, StartChild(c, i) \/ RestartChild(c, i)
  PROVE  EInv'
<1>0. Core
  BY DEF IInv
<1>1. /\ UNCHANGED <<sup, stop, children, child>> /\ redone \subseteq redone'
      /\ \/ /\ ~InSpecs(i) /\ preserve' = preserve \ {i}
            /\ specs' = Append(Without(i), i)
         \/ i \in redone' /\ UNCHANGED <<specs, preserve>>
  BY DEF StartChild, RestartChild, AddChild, AddAgain, IdInUse, supvars, dicts, procs
<1>2. PICK t \in Tasks : NewTask(t, i) /\ \E w : Waits(c, "start", i, w)
  BY DEF StartChild, RestartChild, AddChild, AddAgain
<1>3. /\ at[t] = "none" /\ at'[t] = "starting" /\ id'[t] = i
      /\ \A u \in Tasks \ {t} : at'[u] = at[u] /\ id'[u] = id[u]
  BY <1>0, <1>2 DEF NewTask, Free, Core, Types
<1>4. ~Closed
  BY DEF StartChild, RestartChild, Open, Closed
<1>5. ASSUME NEW u \in Tasks, Running(u), id'[u] \notin redone',
             sup \in {"seeding", "seed_failed", "loop", "closing", "terminate", "wait"}
      PROVE  children[id'[u]] = u \/ (id'[u] \in preserve' /\ children[id'[u]] = None)
  <2>1. Active(u) /\ u # t
    BY <1>3, <1>4, <1>5 DEF IInv, Sealed, Uncovered, Active
  <2>2. id'[u] = id[u] /\ id[u] \notin redone
    BY <1>1, <1>3, <1>5, <2>1
  <2>3. InSpecs(id[u])
    BY <1>0, <2>1, <2>2 DEF Core, Hosted
  <2>4. children[id[u]] = u \/ (id[u] \in preserve /\ children[id[u]] = None)
    BY <1>5, <2>2 DEF EInv, Entered, DroppedEntry
  <2> QED
    BY <1>1, <1>5, <2>2, <2>3, <2>4
<1>6. Entered'
  BY <1>1, <1>5 DEF Entered, DroppedEntry, Running
<1>7. \A j : InSpecs(j) => InSpecs(j)'
  <2>1. specs' = specs \/ specs' = Append(Without(i), i)
    BY <1>1
  <2>2. \A j : (\E n \in DOMAIN Append(Without(i), i) : Append(Without(i), i)[n] = j)
                   <=> j = i \/ InSpecs(j)
    BY <1>0, WithOneMore DEF Core, Types
  <2> QED
    BY <2>1, <2>2 DEF InSpecs
<1>8. ASSUME NEW j, Marked(j) PROVE j \in redone' \/ Marked(j)'
  <2>1. InSpecs(j) /\ (j \in preserve \/ \A u \in Tasks : id[u] = j => ~Active(u))
    BY <1>8 DEF Marked
  <2>2. CASE j = i
    BY <1>1, <2>1, <2>2
  <2>3. CASE j # i
    <3>1. InSpecs(j)'
      BY <1>7, <2>1
    <3>2. j \in preserve => j \in preserve'
      BY <1>1, <2>3
    <3>3. ASSUME NEW u \in Tasks, id'[u] = j, Active(u)'
          PROVE  id[u] = j /\ Active(u)
      BY <1>3, <2>3, <3>3 DEF Active
    <3> QED
      BY <2>1, <3>1, <3>2, <3>3 DEF Marked
  <2> QED
    BY <2>2, <2>3
<1>9. /\ client'[c].op = "start" /\ IsFunction'
      /\ \A d \in Clients \ {c} : client'[d] = client[d]
  BY <1>2 DEF EInv, IsFunction, Waits
<1>10. DropsMarked'
  BY <1>1, <1>8, <1>9 DEF EInv, DropsMarked, Early
<1> QED
  BY <1>6, <1>9, <1>10 DEF EInv

(* The return of start_child, and delete_child. *)
LEMMA OtherCallsKeepEntries ==
  ASSUME IInv, EInv, (\E c \in Clients : StartReturns(c)) \/ (\E i \in Ids : DeleteChild(i))
  PROVE  EInv'
<1>0. Core
  BY DEF IInv
<1>1. ASSUME NEW c \in Clients, StartReturns(c) PROVE EInv'
  <2>1. /\ UNCHANGED <<sup, stop, specs, preserve, children, id, redone, at, child>>
        /\ client' = [client EXCEPT ![c] = Idle]
    BY <1>1 DEF StartReturns, supvars, dicts, tasks, procs
  <2>2. Entered'
    BY <2>1 DEF EInv, Entered, DroppedEntry, Running
  <2>3. /\ client'[c].op = "idle" /\ IsFunction'
        /\ \A d \in Clients \ {c} : client'[d] = client[d]
    BY <2>1 DEF EInv, IsFunction, Idle
  <2>4. \A j : Marked(j) => Marked(j)'
    BY <2>1 DEF Marked, InSpecs, Active
  <2>5. DropsMarked'
    BY <2>1, <2>3, <2>4 DEF EInv, DropsMarked, Early
  <2> QED
    BY <2>2, <2>3, <2>5 DEF EInv
<1>2. ASSUME NEW i \in Ids, DeleteChild(i) PROVE EInv'
  <2>1. /\ UNCHANGED <<sup, stop, preserve, children, id, at, child, client>>
        /\ specs' = Without(i) /\ redone' = redone \cup {i}
    BY <1>2 DEF DeleteChild, supvars, procs
  <2>2. Entered'
    BY <2>1 DEF EInv, Entered, DroppedEntry, Running
  <2>3. \A j : (\E n \in DOMAIN Without(i) : Without(i)[n] = j) <=> j # i /\ InSpecs(j)
    BY <1>0, WithoutOne DEF Core, Types
  <2>4. \A j : InSpecs(j) => InSpecs(j)' \/ j = i
    BY <2>1, <2>3 DEF InSpecs
  <2>5. \A j : Marked(j) => Marked(j)' \/ j \in redone'
    BY <2>1, <2>4 DEF Marked, Active
  <2>6. DropsMarked'
    BY <2>1, <2>5, StillDropsMarked DEF EInv, Early
  <2> QED
    BY <2>1, <2>2, <2>6 DEF EInv, IsFunction
<1> QED
  BY <1>1, <1>2

(* The invariant of the entries is inductive. *)
LEMMA StepsKeepEntries ==
  ASSUME IInv, EInv, [Next]_vars PROVE EInv'
<1>1. CASE UNCHANGED vars
  BY <1>1 DEF EInv, Entered, DropsMarked, IsFunction, Early, Marked, DroppedEntry, InSpecs,
     Active, Running, vars, supvars, dicts, tasks, procs
<1> QED
  BY <1>1, TaskStepsKeepEntries, OwnStepsKeepEntries, TerminateKeepsEntries,
     TerminateReturnEntered, AddsKeepEntries, OtherCallsKeepEntries
     DEF Next, AllOver, Returns

(* terminate() stops the children in the reverse order of their specs: when  *)
(* it waits for one, no process of those behind it runs, whatever clients    *)
(* start, terminate or delete meanwhile, for any number of children; but for *)
(* a child whose entry terminate_child has dropped.                          *)
THEOREM StopsInOrder == Spec => []ShutdownInOrder
<1>1. Init => OInv /\ EInv
  <2> SUFFICES ASSUME Init PROVE OInv /\ EInv
    OBVIOUS
  <2>1. /\ Core /\ ~Uncovered /\ sup = "seeding" /\ stop # "seed_failed"
    BY InitIsCore DEF Init
  <2>2. IInv
    BY <2>1 DEF IInv, Sealed, Closed
  <2>3. NoTwice /\ \A i \in Ids : children[i] = None
    BY SupervisorAssumption DEF Init, InitAt, NoTwice
  <2>4. OInv
    BY <2>1, <2>2, <2>3 DEF OInv, Watched, Descent
  <2>5. (\A t \in Tasks : ~Running(t)) /\ client = [c \in Clients |-> Idle]
    BY DEF Init, InitAt, Running
  <2> QED
    BY <2>4, <2>5 DEF EInv, Entered, DropsMarked, IsFunction, Idle
<1>2. OInv /\ EInv /\ [Next]_vars => OInv' /\ EInv'
  BY StepsKeepOrder, StepsKeepEntries DEF OInv
<1>3. OInv /\ EInv => ShutdownInOrder
  <2> SUFFICES ASSUME OInv, EInv, sup = "wait",
                      NEW m \in DOMAIN specs, NEW n \in DOMAIN specs, m < n, specs[n] \notin redone,
                      id[wait.task] = specs[m],
                      NEW k \in DOMAIN snapshot, snapshot[k] = specs[n],
                      NEW t \in Tasks, id[t] = specs[n], Running(t), ~DroppedEntry(specs[n])
               PROVE  FALSE
    BY DEF ShutdownInOrder
  <2>1. /\ Core /\ NoTwice /\ Suffix /\ Reversed /\ Gone /\ Waiting
    BY DEF OInv, IInv, Descent
  <2>2. Passed > 0 /\ Passed \in Int /\ Passed \in DOMAIN snapshot /\ k \in Nat
        /\ m \in Nat /\ n \in Nat /\ specs[m] = snapshot[Passed]
    BY <2>1 DEF Waiting, Passed, Suffix, Core, Types
  <2>3. k # Passed
    BY <2>1, <2>2 DEF NoTwice
  <2>4. ~(Passed < k)
    BY <2>1, <2>2 DEF Reversed
  <2>5. k < Passed
    BY <2>2, <2>3, <2>4
  <2>6. children[specs[n]] = t
    BY DEF EInv, Entered
  <2>7. t # None
    BY SupervisorAssumption DEF Tasks
  <2> QED
    BY <2>1, <2>5, <2>6, <2>7 DEF Gone
<1> QED
  BY <1>1, <1>2, <1>3, PTL DEF Spec

-----------------------------------------------------------------------------
(* The steps of DynamicSupervisor. *)

(* A step of either class that starts nothing. *)
LEMMA QuietlyKeepsDInv ==
  ASSUME DInv, Quietly, Unseeded',
         \/ Calmly /\ (DClosed' <=> DClosed)
         \/ Cancels /\ DClosed'
  PROVE  DInv'
  BY QuietlyKeepsCore, QuietlySealed DEF DInv, DSealed

(* What Supervisor does, for an object of that class. *)
LEMMA InheritedKeepsDInv ==
  ASSUME DInv, class = "Supervisor", UNCHANGED <<class, loop>>, [Next]_vars
  PROVE  DInv'
<1>1. IInv
  BY DEF DInv, IInv, DSealed, Sealed, DClosed
<1>2. IInv'
  BY <1>1, StepsKeepIInv
<1>3. Unseeded'
  BY DEF DInv, Unseeded
<1> QED
  BY <1>2, <1>3 DEF IInv, DInv, DSealed, Sealed, DClosed

(* What the processes and the clients that wait do, in either class. *)
LEMMA SharedKeepsDInv ==
  ASSUME DInv, UNCHANGED <<class, loop>>,
         \/ \E t \in Tasks : ChildStep(t) \/ ChildKilled(t) \/ KillAfterTimeout(t)
         \/ \E c \in Clients : Returns(c) \/ \E i \in Ids : TerminateChild(c, i)
         \/ \E i \in Ids : DeleteChild(i)
  PROVE  DInv'
<1>1. Core
  BY DEF DInv
<1>2. UNCHANGED supvars
  BY DEF ChildStep, ChildLeaves, ChildStops, ChildKilled, KillAfterTimeout, Returns,
     StartReturns, TerminateReturns, TerminateChild, DeleteChild
<1>3. Quietly /\ Calmly
  BY <1>1, ProcessStepsAreQuiet, ClientStepsAreQuiet DEF ChildStep, Returns
<1>4. Unseeded' /\ (DClosed' <=> DClosed)
  BY <1>1, <1>2, <1>3, QuietlySealed DEF DInv, Unseeded, DClosed, Closed, supvars
<1> QED
  BY <1>3, <1>4, QuietlyKeepsDInv

(* The tasks of a DynamicSupervisor. *)
LEMMA DynamicTasksKeepDInv ==
  ASSUME DInv, NEW t \in Tasks, DTaskStep(t) PROVE DInv'
<1>1. /\ Core /\ Unseeded /\ DSealed /\ class = "DynamicSupervisor" /\ class' = class
      /\ loop # "raised" /\ sup \notin {"seeding", "seed_failed"} /\ stop # "seed_failed"
  BY DEF DInv, DTaskStep, Dynamic, Unseeded
<1>2. ASSUME sup # "stopped", Quietly, Cancels, GroupCancelled, stop' = stop, Raises
      PROVE  DInv'
  <2>1. sup' \in {"aborting", "aborted"} /\ loop' = "raising"
    BY <1>1, <1>2, CancelledCloses DEF Raises
  <2>2. Unseeded' /\ DClosed'
    BY <1>1, <1>2, <2>1 DEF Unseeded, DClosed
  <2> QED
    BY <1>2, <2>2, QuietlyKeepsDInv
<1>3. ASSUME Quietly, Calmly, sup' = sup, stop' = "seed_failed" <=> stop = "seed_failed", loop' = loop
      PROVE  DInv'
  <2>1. Unseeded' /\ (DClosed' <=> DClosed)
    BY <1>1, <1>3, QuietlySealed DEF Unseeded, DClosed
  <2> QED
    BY <1>3, <2>1, QuietlyKeepsDInv
<1>4. CASE DStartFails(t)
  <2>1. CASE sup # "stopped" /\ StartFails(t) /\ Raises
    BY <1>1, <1>2, <2>1, StartFailsIsQuiet
  <2>2. CASE /\ sup = "stopped" /\ Raises
             /\ at' = [u \in Tasks |-> IF at[u] = "none" THEN "none" ELSE "done"]
             /\ UNCHANGED <<supvars, dicts, id, gen, recorded, slid, redone, procs, client>>
    <3>1. Quietly /\ Cancels
      BY <1>1, <2>2, CancelledIsQuiet DEF supvars, dicts, procs, Core, Types
    <3>2. sup' = sup /\ stop' = stop /\ loop' = "raised"
      BY <2>2 DEF supvars, Raises
    <3>3. Unseeded' /\ DClosed'
      BY <1>1, <3>2 DEF Unseeded, DClosed
    <3> QED
      BY <3>1, <3>3, QuietlyKeepsDInv
  <2> QED
    BY <1>4, <2>1, <2>2 DEF DStartFails
<1>5. CASE DRestartsExceeded(t)
  <2>1. CASE /\ sup # "stopped" /\ RestartsExceeded(t)
             /\ IF sup = "loop" /\ ~supKilled THEN UNCHANGED loop ELSE Raises
    <3>1. \/ Quietly /\ Calmly /\ sup' = sup /\ sup \in {"seeding", "loop"} /\ ~supKilled
             /\ (stop' = "seed_failed" <=> stop = "seed_failed")
          \/ Quietly /\ Cancels /\ GroupCancelled /\ ~(sup \in {"seeding", "loop"} /\ ~supKilled)
             /\ stop' = stop
      BY <1>1, <2>1, RestartsExceededIsQuiet
    <3> QED
      BY <1>1, <1>2, <1>3, <2>1, <3>1
  <2>2. CASE /\ sup = "stopped" /\ Stopped(t)
             /\ at' = [at EXCEPT ![t] = "done"]
             /\ UNCHANGED <<supvars, specs, preserve, id, gen, recorded, slid, redone, procs,
                            client, loop>>
    <3>1. Quietly /\ Calmly
      BY <1>1, <2>2, ExceededIsQuiet DEF supvars, procs
    <3> QED
      BY <1>3, <2>2, <3>1 DEF supvars
  <2> QED
    BY <1>5, <2>1, <2>2 DEF DRestartsExceeded
<1>6. CASE (ChildEnds(t) \/ ChildRestarts(t)) /\ UNCHANGED loop
  <2>1. UNCHANGED supvars
    BY <1>6 DEF ChildEnds, ChildRestarts
  <2> QED
    BY <1>1, <1>3, <1>6, <2>1, TaskStepsAreQuiet DEF supvars
<1>7. CASE ChildStarted(t) /\ UNCHANGED loop
  <2>1. AnyActive /\ UNCHANGED supvars
    BY <1>7 DEF ChildStarted, AnyActive, Active
  <2>2. ~DClosed /\ ~DClosed' /\ loop # "returned"
    BY <1>1, <1>7, <2>1 DEF DSealed, DClosed, Unseeded, supvars
  <2>3. \A u \in Tasks : Running(u) => at[u] = "watching"
    BY <1>1, <2>2 DEF DSealed, Uncovered
  <2>4. Core' /\ \A u \in Tasks : Running(u)' => at'[u] = "watching"
    BY <1>1, <1>7, <2>3, StartedKeepsCore
  <2>5. Unseeded'
    BY <1>1, <1>7, <2>1, <2>2 DEF Unseeded, supvars
  <2> QED
    BY <2>2, <2>4, <2>5 DEF DInv, DSealed, Uncovered
<1> QED
  BY <1>4, <1>5, <1>6, <1>7 DEF DTaskStep

(* Its own task. *)
LEMMA DynamicLoopKeepsDInv ==
  ASSUME DInv, DSupStep PROVE DInv'
<1>1. /\ Core /\ Unseeded /\ DSealed /\ class = "DynamicSupervisor" /\ class' = class
      /\ loop # "raised" /\ sup \notin {"seeding", "seed_failed"} /\ stop # "seed_failed"
      /\ loop = "returned" => sup = "stopped"
  BY DEF DInv, DSupStep, Dynamic, Unseeded
<1>2. CASE DTerminateRaises
  <2>1. Quietly /\ Calmly
    BY <1>1, <1>2, SupervisorStepsAreQuiet DEF DTerminateRaises
  <2>2. sup = "terminate" /\ sup' = "teardown" /\ stop' = stop /\ loop' = "raising"
    BY <1>1, <1>2 DEF DTerminateRaises, TerminateRaises, Teardown
  <2>3. Unseeded' /\ (DClosed' <=> DClosed)
    BY <1>1, <2>2 DEF Unseeded, DClosed
  <2> QED
    BY <2>1, <2>3, QuietlyKeepsDInv
<1>3. CASE DFinish
  <2>1. CASE Finish /\ loop' = "raised"
    <3>1. Quietly /\ Cancels /\ sup' = "stopped" /\ stop' = stop
      BY <1>1, <2>1, FinishIsQuiet
    <3>2. Unseeded' /\ DClosed'
      BY <1>1, <2>1, <3>1 DEF Unseeded, DClosed
    <3> QED
      BY <3>1, <3>2, QuietlyKeepsDInv
  <2>2. CASE /\ loop = "in" /\ sup = "teardown" /\ kids = {} /\ sup' = "stopped" /\ KeepTasks
             /\ UNCHANGED <<stop, supKilled, terminating, todo, wait, kids, snapshot, dicts, id,
                            gen, recorded, slid, redone, procs, client, loop>>
    <3>1. Quietly /\ Calmly
      BY <1>1, <2>2, QuietAtTasks DEF KeepTasks, dicts, procs, Core, Types
    <3>2. Unseeded' /\ (DClosed' <=> DClosed)
      BY <1>1, <2>2 DEF Unseeded, DClosed
    <3> QED
      BY <3>1, <3>2, QuietlyKeepsDInv
  <2> QED
    BY <1>3, <2>1, <2>2 DEF DFinish
<1>4. CASE Returned
  <2>1. Quietly /\ Calmly
    BY <1>1, <1>4, QuietAtTasks DEF Returned, vars, supvars, dicts, tasks, procs, Core, Types
  <2>2. ~AnyActive /\ sup' = sup /\ stop' = stop /\ sup = "stopped" /\ loop' = "returned"
    BY <1>4 DEF Returned, AnyActive, Active, vars, supvars
  <2>3. Unseeded' /\ (DClosed' <=> DClosed)
    BY <1>1, <1>4, <2>1, <2>2, QuietlySealed DEF Unseeded, DClosed, Returned
  <2> QED
    BY <2>1, <2>3, QuietlyKeepsDInv
<1>5. CASE /\ \/ LeaveLoop \/ BeginTerminate \/ NextChild \/ ChildGone \/ EndTerminate
              \/ SkipTerminate \/ NextKid \/ KidEnds \/ Abort
           /\ UNCHANGED loop
  <2>1. Quietly /\ Calmly
    BY <1>1, <1>5, SupervisorStepsAreQuiet
  <2>2. /\ sup # "stopped" /\ sup' \notin {"seeding", "seed_failed"} /\ stop' # "seed_failed"
        /\ sup' \in {"aborting", "aborted"} <=> sup \in {"aborting", "aborted"}
    <3>1. CASE LeaveLoop \/ BeginTerminate \/ NextChild \/ ChildGone
      BY <1>1, <3>1 DEF LeaveLoop, BeginTerminate, NextChild, ChildGone
    <3>2. CASE EndTerminate \/ SkipTerminate
      BY <1>1, <3>2 DEF EndTerminate, SkipTerminate, Teardown
    <3>3. CASE NextKid \/ KidEnds \/ Abort
      BY <1>1, <3>3 DEF NextKid, KidEnds, Abort
    <3> QED
      BY <1>5, <3>1, <3>2, <3>3
  <2>3. Unseeded' /\ (DClosed' <=> DClosed)
    BY <1>1, <1>5, <2>2 DEF Unseeded, DClosed
  <2> QED
    BY <2>1, <2>3, QuietlyKeepsDInv
<1> QED
  BY <1>2, <1>3, <1>4, <1>5 DEF DSupStep

(* The calls of its clients. *)
LEMMA DynamicUsersKeepDInv ==
  ASSUME DInv, DUsers PROVE DInv'
<1>1. /\ Core /\ Unseeded /\ DSealed /\ class = "DynamicSupervisor"
      /\ UNCHANGED <<class, loop>>
      /\ loop # "raised" /\ sup \notin {"seeding", "seed_failed"} /\ stop # "seed_failed"
  BY DEF DInv, DUsers, Dynamic, Unseeded
<1>2. CASE StopSupervisor \/ KillSupervisor
  <2>1. Quietly /\ Calmly
    BY <1>1, <1>2, SupervisorStepsAreQuiet
  <2>2. sup = "loop" /\ sup' = "loop" /\ stop' # "seed_failed"
    BY <1>1, <1>2 DEF StopSupervisor, KillSupervisor
  <2>3. Unseeded' /\ (DClosed' <=> DClosed)
    BY <1>1, <2>2 DEF Unseeded, DClosed
  <2> QED
    BY <2>1, <2>3, QuietlyKeepsDInv
<1>3. ASSUME NEW c \in Clients, NEW i \in Ids, DStartChild(c, i) \/ DRestartChild(c, i)
      PROVE  DInv'
  <2>1. /\ DOpen /\ (AddChild(c, i) \/ AddAgain(c, i)) /\ UNCHANGED supvars
    BY <1>3 DEF DStartChild, DRestartChild, AddChild, AddAgain
  <2>2. ~DClosed /\ ~DClosed' /\ Unseeded'
    BY <1>1, <2>1 DEF DOpen, DClosed, Unseeded, supvars
  <2> QED
    BY <1>1, <2>1, <2>2, AddedKeepsCore DEF DInv, DSealed
<1> QED
  BY <1>1, <1>2, <1>3, SharedKeepsDInv DEF DUsers

(* The invariant of both classes is inductive. *)
LEMMA DStepsKeepDInv ==
  ASSUME DInv, [DNext]_dvars PROVE DInv'
<1>1. CASE ClassSupStep
  <2>1. CASE Inherited /\ SupStep
    BY <2>1, InheritedKeepsDInv DEF Inherited, Next
  <2> QED
    BY <1>1, <2>1, DynamicLoopKeepsDInv DEF ClassSupStep
<1>2. CASE ClassUsers
  <2>1. CASE Inherited /\ ~DUsers
    BY <1>2, <2>1, InheritedKeepsDInv DEF ClassUsers, Inherited, Next
  <2> QED
    BY <1>2, <2>1, DynamicUsersKeepDInv DEF ClassUsers
<1>3. ASSUME NEW t \in Tasks, ClassTaskStep(t) \/ EitherChildStep(t) PROVE DInv'
  <2>1. CASE Inherited /\ TaskStep(t)
    BY <2>1, InheritedKeepsDInv DEF Inherited, Next
  <2>2. CASE EitherChildStep(t)
    BY <2>2, SharedKeepsDInv DEF EitherChildStep
  <2> QED
    BY <1>3, <2>1, <2>2, DynamicTasksKeepDInv DEF ClassTaskStep
<1>4. ASSUME NEW c \in Clients, EitherReturns(c) PROVE DInv'
  BY <1>4, SharedKeepsDInv DEF EitherReturns
<1>5. CASE UNCHANGED dvars
  <2>1. Quietly /\ Calmly
    BY <1>5, QuietAtTasks DEF DInv, dvars, vars, supvars, dicts, tasks, procs, Core, Types
  <2>2. Unseeded' /\ (DClosed' <=> DClosed)
    BY <1>5, <2>1, QuietlySealed DEF DInv, dvars, vars, supvars, Unseeded, DClosed, Closed
  <2> QED
    BY <2>1, <2>2, QuietlyKeepsDInv
<1> QED
  BY <1>1, <1>2, <1>3, <1>4, <1>5 DEF DNext, DOver

(* The invariant holds of every reachable state. *)
LEMMA DInvariant == DSpec => []DInv
<1>1. DInit => DInv
  <2> SUFFICES ASSUME DInit PROVE DInv
    OBVIOUS
  <2>1. CASE class = "Supervisor"
    <3>1. Core /\ ~Uncovered /\ sup = "seeding" /\ stop # "seed_failed" /\ loop = "in"
      BY <2>1, InitIsCore DEF DInit, Init
    <3> QED
      BY <2>1, <3>1 DEF DInv, Unseeded, DSealed, DClosed, Closed
  <2>2. CASE class = "DynamicSupervisor"
    <3>1. Core /\ ~Uncovered /\ sup = "loop" /\ stop # "seed_failed" /\ loop = "in"
      BY <2>2, InitIsCore DEF DInit
    <3> QED
      BY <2>2, <3>1 DEF DInv, Unseeded, DSealed, DClosed
  <2> QED
    BY <2>1, <2>2, DynamicAssumption DEF DInit
<1> QED
  BY <1>1, DStepsKeepDInv, PTL DEF DSpec

(* A DynamicSupervisor whose loop has returned has no process left, so that  *)
(* the runtime, which waits for the loop, waits for the children: however    *)
(* they were started, stopped, killed or restarted.                          *)
THEOREM ChildrenComeFirst == DSpec => []ReturnsLast
<1>1. DInv => ReturnsLast
  BY DEF DInv, Unseeded, DSealed, DClosed, ReturnsLast, Uncovered, AnyActive, Active
<1> QED
  BY DInvariant, <1>1, PTL

(* In a DynamicSupervisor, too, an id never has two processes.               *)
THEOREM OneProcessOfEither == DSpec => []OneProcessPerId
<1>1. DInv => OneProcessPerId
  BY DEF DInv, Core
<1> QED
  BY DInvariant, <1>1, PTL
-----------------------------------------------------------------------------
(* SupervisorGroup.                                                          *)

USE GroupAssumption DEF Old, Joining

(* A process that was started has a generation; it has come and gone.        *)
Real     == [task: Tasks, gen: Nat \ {0}]
Ended(w) == gen[w.task] >= w.gen /\ HasStopped(w)
Underway(w) == at[w.task] = "starting" /\ w.gen = gen[w.task] + 1

ManagerRuns == mgr.at # "gone"
Stopping    == mgr.at \in {"stopping", "awaiting"}
Busy        == mgr.at \in {"stopping", "awaiting", "draining"}
InBatch(i)  == \E n \in DOMAIN mgr.batch : mgr.batch[n] = i

(* A batch that is not started again: the entry of the child that stopped    *)
(* first is still there, though its spec is not.                             *)
Dropping(i) == Busy /\ ~mgr.again /\ InBatch(i)

GroupTypes ==
    /\ events \in [Ids -> Real \cup {NoProcess}]
    /\ mgr \in [at: {"none", "watching", "stopping", "awaiting", "draining", "starting", "gone"},
                watch: [Ids -> Real \cup {NoProcess}], batch: Seq(Ids), left: Seq(Ids),
                again: BOOLEAN, wait: Real \cup {NoProcess}, ran: SUBSET Real,
                joining: SUBSET Real, taken: SUBSET Real]

Phases ==
    /\ sup = "seeding" => mgr.at = "none"
    /\ sup \in {"terminate", "wait"} => terminating
    /\ mgr.at = "awaiting" => mgr.wait \in Real /\ gen[mgr.wait.task] >= mgr.wait.gen

Base == Types /\ Started /\ NoTwice /\ GroupTypes /\ Phases

(* The event of an id belongs to a process of that id, which has begun or    *)
(* will, and what runs is watched by a task that sets its event.             *)
EventsKnown ==
    ManagerRuns => \A i \in Ids : events[i] # NoProcess =>
        /\ gen[events[i].task] >= events[i].gen \/ Underway(events[i])
        /\ Ended(events[i]) \/ id[events[i].task] = i
OnlyWatchedRun == ManagerRuns => \A t \in Tasks : Running(t) => at[t] = "watching"

(* Until its batch is started again, the manager will come to the event of   *)
(* each process of the batch that is not over.                               *)
BatchIsAwaited ==
    /\ Stopping => \A w \in Old \cup Joining :
           Ended(w) \/ \E n \in DOMAIN mgr.batch : events[mgr.batch[n]] = w
    /\ mgr.at = "draining" => \A w \in Old \cup Joining :
           Ended(w) \/ \E n \in DOMAIN mgr.left : /\ events[mgr.left[n]] = w
                                                  /\ n = 1 => mgr.wait = w
    /\ mgr.at = "starting" => \A w \in Old \cup Joining : Ended(w)

(* The rest is about the ids that no client has started twice.  A start that *)
(* is under way is the only one of its id,                                   *)
StartsKnown ==
    ManagerRuns => \A t \in Tasks : at[t] = "starting" /\ id[t] \notin redone =>
        /\ InSpecs(id[t])
        /\ events[id[t]] \in {NoProcess, [task |-> t, gen |-> gen[t] + 1]}
        /\ children[id[t]] = None \/ Dropping(id[t])
        /\ \A u \in Tasks : at[u] = "starting" /\ id[u] = id[t] => u = t
(* an entry has a spec,                                                      *)
EntriesHaveSpecs ==
    ManagerRuns => \A i \in Ids \ redone : children[i] # None => InSpecs(i) \/ Dropping(i)
(* what the manager watches is what its id runs, if anything,                *)
WatchKnown ==
    mgr.at = "watching" => \A i \in Ids \ redone : mgr.watch[i] # NoProcess =>
        InSpecs(i) /\ events[i] \in {NoProcess, mgr.watch[i]}
(* and starts in a batch are known to the manager.                           *)
JoiningKnown ==
    Busy /\ mgr.again => \A i \in Ids \ redone : InBatch(i) =>
        /\ InSpecs(i)
        /\ \A t \in Tasks : at[t] = "starting" /\ id[t] = i =>
               [task |-> t, gen |-> gen[t] + 1] \in Joining

(* A process of the batch that is not over is found in children,             *)
Tidy(w) == w \in Old /\ id[w.task] \notin redone /\ ~Ended(w)
RunInTable ==
    Stopping => \A w \in Old : Tidy(w) =>
        /\ w = Proc(w.task) /\ id[w.task] \in Ids
        /\ children[id[w.task]] = w.task /\ events[id[w.task]] = w /\ InSpecs(id[w.task])
(* so that terminate() does not miss it,                                     *)
TerminateFinds ==
    Stopping /\ sup \in {"terminate", "wait"} => \A w \in Old : Tidy(w) =>
        \/ \E n \in DOMAIN todo : todo[n] = id[w.task]
        \/ sup = "wait" /\ wait = w
(* and the manager neither, which stops it before those of earlier specs.    *)
DealtWith(i) == \A w \in Old : Tidy(w) /\ id[w.task] = i => mgr.at = "awaiting" /\ mgr.wait = w
LeftInOrder ==
    Stopping => \A k \in DOMAIN mgr.left : \A m, n \in DOMAIN mgr.batch :
        m < n /\ mgr.left[k] = mgr.batch[m] =>
            (\E l \in 1..(k - 1) : mgr.left[l] = mgr.batch[n]) \/ DealtWith(mgr.batch[n])
OneAfterAnother ==
    mgr.at = "awaiting" /\ ~Ended(mgr.wait) =>
        \A m, n \in DOMAIN mgr.batch :
            m < n /\ mgr.batch[m] = id[mgr.wait.task] =>
                \A w \in Old : ~(Tidy(w) /\ id[w.task] = mgr.batch[n])

EventInv == EventsKnown /\ OnlyWatchedRun /\ BatchIsAwaited
StartInv == StartsKnown /\ EntriesHaveSpecs /\ WatchKnown /\ JoiningKnown
OrderInv == RunInTable /\ TerminateFinds /\ LeftInOrder /\ OneAfterAnother
GroupInv == Base /\ EventInv /\ StartInv /\ OrderInv

-----------------------------------------------------------------------------
(* Processes come and go. *)

(* What is over stays so. *)
LEMMA EndedStays ==
  ASSUME Types, Types', NEW w \in Real, Ended(w),
         \A t \in Tasks : \/ gen'[t] > gen[t]
                          \/ gen'[t] = gen[t] /\ (child[t] = "stopped" => child'[t] = "stopped")
  PROVE  Ended(w)'
<1>1. w.task \in Tasks /\ w.gen \in Nat /\ gen[w.task] \in Nat /\ gen'[w.task] \in Nat
  BY DEF Real, Types
<1> QED
  BY <1>1 DEF Ended, HasStopped

(* Who is not started, nor runs, when its event is set is over. *)
LEMMA SetIsEnded ==
  ASSUME Base, OnlyWatchedRun, ManagerRuns, NEW w \in Real, IsSet(w) PROVE Ended(w)
<1>1. w.task \in Tasks /\ w.gen \in Nat \ {0} /\ gen[w.task] \in Nat
  BY DEF Real, Base, Types
<1>2. CASE gen[w.task] > w.gen
  BY <1>1, <1>2 DEF Ended, HasStopped
<1>3. CASE gen[w.task] = w.gen /\ at[w.task] # "watching"
  <2>1. child[w.task] # "none" /\ ~Running(w.task)
    BY <1>1, <1>3 DEF Base, Started, OnlyWatchedRun
  <2>2. child[w.task] = "stopped"
    BY <1>1, <2>1 DEF Base, Types, Running, Runs
  <2> QED
    BY <1>1, <1>3, <2>2 DEF Ended, HasStopped
<1> QED
  BY <1>2, <1>3 DEF IsSet

(* A process that is not over, of the present generation, runs. *)
LEMMA NotEndedRuns ==
  ASSUME Base, OnlyWatchedRun, ManagerRuns, NEW w \in Real, gen[w.task] >= w.gen, ~Ended(w)
  PROVE  Running(w.task) /\ at[w.task] = "watching" /\ w = Proc(w.task)
<1>1. /\ w.task \in Tasks /\ w.gen \in Nat \ {0} /\ gen[w.task] \in Nat
      /\ w = [task |-> w.task, gen |-> w.gen]
  BY DEF Real, Base, Types
<1>2. gen[w.task] = w.gen /\ child[w.task] # "stopped"
  BY <1>1 DEF Ended, HasStopped
<1>3. child[w.task] # "none"
  BY <1>1, <1>2 DEF Base, Started
<1>4. Running(w.task)
  BY <1>1, <1>2, <1>3 DEF Base, Types, Running, Runs
<1> QED
  BY <1>1, <1>2, <1>4 DEF OnlyWatchedRun, Proc

-----------------------------------------------------------------------------
(* Steps that leave the tables alone. *)

Calm == /\ UNCHANGED <<specs, children, id, at, gen, redone, events, mgr>>
        /\ child' \in [Tasks -> Runs \cup {"none", "stopped"}]
        /\ \A t \in Tasks : child'[t] = child[t] \/ (child[t] \in Runs /\ child'[t] # "none")
        /\ todo' \in Seq(Ids) /\ snapshot' \in Seq(Ids)

(* They end processes only. *)
LEMMA CalmNotEnded ==
  ASSUME Types, Calm, NEW w \in Real PROVE Ended(w) => Ended(w)'
<1>1. Types'
  BY DEF Types, Calm
<1>2. \A t \in Tasks : gen'[t] = gen[t] /\ (child[t] = "stopped" => child'[t] = "stopped")
  BY DEF Calm, Runs
<1> QED
  BY <1>1, <1>2, EndedStays

(* They keep what the events and the manager rest on. *)
LEMMA CalmKeepsInv ==
  ASSUME GroupInv, Calm, Phases', TerminateFinds' PROVE GroupInv'
<1>1. /\ Types /\ Started /\ NoTwice /\ GroupTypes /\ EventInv /\ StartInv /\ OrderInv
      /\ UNCHANGED <<specs, children, id, at, gen, redone, events, mgr>>
  BY DEF GroupInv, Base, Calm
<1>2. Types'
  BY <1>1 DEF Types, Calm
<1>3. Started' /\ NoTwice' /\ GroupTypes'
  BY <1>1 DEF Started, NoTwice, GroupTypes, Calm, InSpecs, Runs
<1>4. \A w \in Real : Ended(w) => Ended(w)'
  BY <1>1, CalmNotEnded
<1>5. EventsKnown' /\ OnlyWatchedRun'
  <2>1. \A t \in Tasks : Running(t)' => Running(t)
    BY <1>1 DEF Calm, Running, Runs, Types
  <2> QED
    BY <1>1, <1>4, <2>1 DEF EventInv, EventsKnown, OnlyWatchedRun, ManagerRuns, Underway, GroupTypes
<1>6. \A w \in Old \cup Joining : w \in Real
  BY <1>1 DEF GroupTypes
<1>7. BatchIsAwaited'
  BY <1>1, <1>4, <1>6 DEF EventInv, BatchIsAwaited, Stopping
<1>8. StartInv'
  BY <1>1 DEF StartInv, StartsKnown, EntriesHaveSpecs, WatchKnown, JoiningKnown, ManagerRuns,
     Dropping, Busy, InBatch, InSpecs
<1>9. \A w \in Old : Tidy(w)' => Tidy(w)
  BY <1>1, <1>4, <1>6 DEF Tidy
<1>10. RunInTable'
  BY <1>1, <1>9 DEF OrderInv, RunInTable, Stopping, Proc, InSpecs
<1>11. LeftInOrder'
  <2>1. \A i : DealtWith(i) => DealtWith(i)'
    BY <1>1, <1>9 DEF DealtWith
  <2> QED
    BY <1>1, <2>1 DEF OrderInv, LeftInOrder, Stopping
<1>12. OneAfterAnother'
  <2>1. mgr.at = "awaiting" /\ ~Ended(mgr.wait)' => ~Ended(mgr.wait)
    BY <1>1, <1>4 DEF GroupInv, Base, Phases
  <2> QED
    BY <1>1, <1>9, <2>1 DEF OrderInv, OneAfterAnother
<1> QED
  BY <1>1, <1>2, <1>3, <1>5, <1>7, <1>8, <1>10, <1>11, <1>12
     DEF GroupInv, Base, EventInv, OrderInv

(* terminate() still finds what it found. *)
LEMMA CalmFinds ==
  ASSUME GroupInv, Calm,
         \/ UNCHANGED <<sup, todo, wait>>
         \/ sup' \notin {"terminate", "wait"}
  PROVE  TerminateFinds'
<1>1. /\ Types /\ GroupTypes /\ TerminateFinds
      /\ UNCHANGED <<id, gen, redone, mgr>>
  BY DEF GroupInv, Base, Calm, OrderInv
<1>2. \A w \in Old : Tidy(w)' => Tidy(w)
  BY <1>1, CalmNotEnded DEF Tidy, GroupTypes
<1> QED
  BY <1>1, <1>2 DEF TerminateFinds, Stopping

(* Telling a process to stop. *)
LEMMA Told ==
  ASSUME Base, NEW t \in Tasks, child[t] \in Runs, BrutalKill(t) \/ StopSent(t)
  PROVE  /\ child' \in [Tasks -> Runs \cup {"none", "stopped"}]
         /\ \A u \in Tasks : child'[u] = child[u] \/ (child[u] \in Runs /\ child'[u] # "none")
  BY DEF Base, Types, BrutalKill, StopSent, Runs

(* The entry of an id has a process, which has not stopped if it runs. *)
LEMMA EntryRuns ==
  ASSUME Base, NEW i \in Ids, children[i] # None
  PROVE  /\ children[i] \in Tasks /\ id[children[i]] = i /\ gen[children[i]] \in Nat \ {0}
         /\ child[children[i]] # "stopped" => child[children[i]] \in Runs
  BY DEF Base, Types, Started

(* What the children do, and what is done to them. *)
LEMMA ProcessStepsKeepInv ==
  ASSUME GroupInv, NEW t \in Tasks,
         ChildStep(t) \/ ChildKilled(t) \/ KillAfterTimeout(t), UNCHANGED group
  PROVE  GroupInv'
<1>1. UNCHANGED <<sup, terminating, wait, specs, children, id, at, gen, redone, events, mgr,
                  todo, snapshot>>
  BY DEF ChildStep, ChildLeaves, ChildStops, ChildKilled, KillAfterTimeout, supvars, dicts, tasks,
     group, manager
<1>2. /\ child' \in [Tasks -> Runs \cup {"none", "stopped"}]
      /\ \A u \in Tasks : child'[u] = child[u] \/ (child[u] \in Runs /\ child'[u] # "none")
  BY DEF GroupInv, Base, Types, ChildStep, ChildLeaves, ChildStops, ChildKilled, KillAfterTimeout, Runs
<1>3. Calm
  BY <1>1, <1>2 DEF Calm, GroupInv, Base, Types
<1>4. Phases'
  BY <1>1 DEF GroupInv, Base, Phases
<1>5. TerminateFinds'
  BY <1>1, <1>3, CalmFinds
<1> QED
  BY <1>3, <1>4, <1>5, CalmKeepsInv

(* The stop timeout of the manager. *)
LEMMA KillsKeepInv ==
  ASSUME GroupInv, ManagerKills PROVE GroupInv'
<1>1. UNCHANGED <<sup, terminating, wait, specs, children, id, at, gen, redone, events, mgr,
                  todo, snapshot>>
  BY DEF ManagerKills, supvars, dicts, tasks, group, manager
<1>2. mgr.at = "awaiting" /\ mgr.wait \in Real
  BY DEF ManagerKills, GroupInv, Base, Phases
<1>3. mgr.wait.task \in Tasks
  BY <1>2 DEF Real
<1>4. /\ child' \in [Tasks -> Runs \cup {"none", "stopped"}]
      /\ \A u \in Tasks : child'[u] = child[u] \/ (child[u] \in Runs /\ child'[u] # "none")
  BY <1>3 DEF GroupInv, Base, Types, ManagerKills, Runs
<1>5. Calm
  BY <1>1, <1>4 DEF Calm, GroupInv, Base, Types
<1>6. Phases'
  BY <1>1 DEF GroupInv, Base, Phases
<1> QED
  BY <1>1, <1>5, <1>6, CalmFinds, CalmKeepsInv

(* Clients whose wait is over, and steps that change nothing. *)
LEMMA ReturnsKeepInv ==
  ASSUME GroupInv, (\E c \in Clients : GroupReturns(c)) \/ UNCHANGED <<vars, manager>>
  PROVE  GroupInv'
<1>1. UNCHANGED <<sup, terminating, wait, specs, children, id, at, gen, redone, events, mgr,
                  todo, snapshot, child>>
  BY DEF GroupReturns, GroupStartReturns, GroupTerminateReturns, supvars, dicts, tasks, procs,
     group, manager, vars
<1>2. Calm
  BY <1>1 DEF Calm, GroupInv, Base, Types
<1>3. Phases'
  BY <1>1 DEF GroupInv, Base, Phases
<1> QED
  BY <1>1, <1>2, <1>3, CalmFinds, CalmKeepsInv

(* The supervisor's own task: steps that do not tell a child. *)
LEMMA OwnStepsAreCalm ==
  ASSUME GroupInv, UNCHANGED group,
         LeaveLoop \/ BeginTerminate \/ ChildGone \/ SkipTerminate \/ KidEnds
            \/ StopSupervisor \/ KillSupervisor
  PROVE  Calm
<1>1. UNCHANGED <<specs, children, id, at, gen, redone, child, events, mgr>>
  BY DEF LeaveLoop, BeginTerminate, ChildGone, SkipTerminate, KidEnds, StopSupervisor,
     KillSupervisor, dicts, tasks, procs, group, manager
<1>2. /\ todo \in Seq(Ids) /\ snapshot \in Seq(Ids) /\ specs \in Seq(Ids)
      /\ child \in [Tasks -> Runs \cup {"none", "stopped"}]
  BY DEF GroupInv, Base, Types
<1>3. todo' \in Seq(Ids) /\ snapshot' \in Seq(Ids)
  <2>1. CASE BeginTerminate
    BY <1>2, <2>1, ShutdownOrderType DEF BeginTerminate
  <2>2. CASE SkipTerminate
    BY <1>2, <2>2 DEF SkipTerminate, Teardown
  <2> QED
    BY <1>2, <2>1, <2>2 DEF LeaveLoop, ChildGone, KidEnds, StopSupervisor, KillSupervisor
<1> QED
  BY <1>1, <1>2, <1>3 DEF Calm

(* Those that may tell one. *)
LEMMA TellingStepsAreCalm ==
  ASSUME GroupInv, UNCHANGED group, NextChild \/ TerminateRaises \/ NextKid \/ Abort
  PROVE  Calm
<1>1. UNCHANGED <<specs, children, id, at, gen, redone, events, mgr, snapshot>>
  BY DEF NextChild, TerminateRaises, NextKid, Abort, dicts, tasks, group, manager
<1>2. /\ Base /\ todo \in Seq(Ids) /\ snapshot \in Seq(Ids) /\ specs \in Seq(Ids)
      /\ child \in [Tasks -> Runs \cup {"none", "stopped"}]
      /\ \A i \in Ids : children[i] \in Tasks \cup {None}
  BY DEF GroupInv, Base, Types
<1>3. CASE NextChild
  <2>1. todo # <<>> /\ todo' = Tail(todo)
    BY <1>3 DEF NextChild
  <2>2. Head(todo) \in Ids /\ todo' \in Seq(Ids)
    BY <1>2, <2>1
  <2> DEFINE t == children[Head(todo)]
  <2>3. CASE child' = child
    BY <1>1, <1>2, <2>2, <2>3 DEF Calm
  <2>4. CASE t # None /\ child[t] # "stopped" /\ (BrutalKill(t) \/ StopSent(t))
    <3>1. t \in Tasks /\ child[t] \in Runs
      BY <1>2, <2>2, <2>4, EntryRuns
    <3> QED
      BY <1>1, <1>2, <2>2, <2>4, <3>1, Told DEF Calm
  <2> QED
    BY <1>3, <2>3, <2>4 DEF NextChild
<1>4. CASE TerminateRaises
  <2>1. todo' = <<>> /\ child' = child
    BY <1>4 DEF TerminateRaises, Teardown, StopRaises
  <2> QED
    BY <1>1, <1>2, <2>1 DEF Calm
<1>5. CASE NextKid
  <2>1. /\ child' \in [Tasks -> Runs \cup {"none", "stopped"}]
        /\ \A u \in Tasks : child'[u] = child[u] \/ (child[u] \in Runs /\ child'[u] # "none")
    BY <1>2, <1>5 DEF NextKid, Runs
  <2> QED
    BY <1>1, <1>2, <1>5, <2>1 DEF NextKid, Calm
<1>6. CASE Abort
  <2> DEFINE S == {i \in Ids : children[i] # None /\ Running(children[i])}
             told == Keep(ShutdownOrder, S)
  <2>1. told \in Seq(Ids) /\ \A n \in DOMAIN told : told[n] \in S
    BY <1>2, ShutdownOrderType, KeepProperties
  <2>2. CASE child' = child
    BY <1>1, <1>2, <1>6, <2>2 DEF Calm, Abort
  <2>3. CASE told # <<>> /\ \E t : t = children[told[1]] /\ (BrutalKill(t) \/ StopSent(t))
    <3>1. told[1] \in S
      BY <2>1, <2>3
    <3>2. children[told[1]] \in Tasks /\ child[children[told[1]]] \in Runs
      BY <1>2, <3>1 DEF Running, Runs
    <3> QED
      BY <1>1, <1>2, <1>6, <2>3, <3>2, Told DEF Calm, Abort
  <2> QED
    BY <1>6, <2>2, <2>3 DEF Abort, StopRaises
<1> QED
  BY <1>3, <1>4, <1>5, <1>6

(* terminate() begins with all that run, *)
LEMMA BeginFinds ==
  ASSUME GroupInv, BeginTerminate, Calm PROVE TerminateFinds'
<1> DEFINE S == {i \in Ids : children[i] # None}
<1>1. /\ GroupTypes /\ RunInTable /\ Types /\ todo' = ShutdownOrder
      /\ UNCHANGED <<id, gen, redone, mgr, specs, children>>
  BY DEF GroupInv, Base, OrderInv, Calm, BeginTerminate
<1>2. PICK X : X = S
  OBVIOUS
<1>3. PICK k : k = Keep(specs, X)
  OBVIOUS
<1>4. /\ k \in Seq(Ids)
      /\ \A i \in S : InSpecs(i) => \E n \in DOMAIN k : k[n] = i
  <2>1. specs \in Seq(Ids)
    BY <1>1 DEF Types
  <2>2. /\ k \in Seq(Ids)
        /\ \A i : (\E n \in DOMAIN k : k[n] = i) <=> i \in X /\ \E n \in DOMAIN specs : specs[n] = i
    BY <1>3, <2>1, KeepProperties
  <2> QED
    BY <1>2, <2>2 DEF InSpecs
<1>5. todo' = [n \in DOMAIN k |-> k[Len(k) + 1 - n]]
  BY <1>1, <1>2, <1>3 DEF ShutdownOrder, RunningIds
<1>6. \A i \in S : InSpecs(i) => \E n \in DOMAIN todo' : todo'[n] = i
  <2> SUFFICES ASSUME NEW i \in S, InSpecs(i) PROVE \E n \in DOMAIN todo' : todo'[n] = i
    OBVIOUS
  <2>1. PICK n \in DOMAIN k : k[n] = i
    BY <1>4
  <2>2. DOMAIN k = 1..Len(k) /\ Len(k) \in Nat
    BY <1>4
  <2>3. Len(k) + 1 - n \in DOMAIN k /\ todo'[Len(k) + 1 - n] = i
    BY <1>5, <2>1, <2>2
  <2> QED
    BY <1>5, <2>3
<1>7. \A w \in Old : Tidy(w)' => Tidy(w)
  BY <1>1, CalmNotEnded DEF Tidy, GroupTypes
<1>8. \A w \in Old : Stopping /\ Tidy(w) => id[w.task] \in S /\ InSpecs(id[w.task])
  BY <1>1, SupervisorAssumption DEF RunInTable, GroupTypes, Real, Tasks
<1> QED
  BY <1>1, <1>6, <1>7, <1>8 DEF TerminateFinds, Stopping

(* passes a child by that has stopped, *)
LEMMA NextFinds ==
  ASSUME GroupInv, NextChild, Calm PROVE TerminateFinds'
<1>1. /\ GroupTypes /\ Types /\ RunInTable /\ TerminateFinds /\ sup = "terminate"
      /\ todo # <<>> /\ todo' = Tail(todo) /\ todo \in Seq(Ids)
      /\ UNCHANGED <<id, gen, redone, mgr, children>>
  BY DEF GroupInv, Base, OrderInv, Calm, NextChild, Types
<1>2. \A w \in Old : Tidy(w)' => Tidy(w)
  BY <1>1, CalmNotEnded DEF Tidy, GroupTypes
<1> SUFFICES ASSUME Stopping, NEW w \in Old, Tidy(w),
                    \A n \in DOMAIN todo' : todo'[n] # id[w.task]
             PROVE  sup' = "wait" /\ wait' = w
  BY <1>1, <1>2 DEF TerminateFinds, Stopping
<1>3. PICK n \in DOMAIN todo : todo[n] = id[w.task]
  BY <1>1 DEF TerminateFinds
<1>4. n = 1 /\ Head(todo) = id[w.task]
  <2>1. n \in 1..Len(todo) /\ Len(todo) \in Nat
    BY <1>1, <1>3
  <2>2. n # 1 => n - 1 \in DOMAIN Tail(todo) /\ Tail(todo)[n - 1] = todo[n]
    BY <1>1, <2>1
  <2> QED
    BY <1>1, <1>3, <2>1, <2>2
<1>5. /\ children[Head(todo)] = w.task /\ w = Proc(w.task)
  BY <1>1, <1>4 DEF RunInTable
<1>6. w.task # None /\ child[w.task] # "stopped"
  <2>1. w.task \in Tasks /\ gen[w.task] \in Nat /\ gen[w.task] = w.gen
    BY <1>1, <1>5 DEF GroupTypes, Real, Types, Proc
  <2> QED
    BY <2>1, SupervisorAssumption DEF Tidy, Ended, HasStopped, Tasks
<1> QED
  BY <1>5, <1>6 DEF NextChild

(* and waits for a child until that has stopped. *)
LEMMA GoneFinds ==
  ASSUME GroupInv, ChildGone, Calm PROVE TerminateFinds'
<1>1. /\ GroupTypes /\ Types /\ RunInTable /\ TerminateFinds
      /\ sup = "wait" /\ HasStopped(wait)
      /\ UNCHANGED <<id, gen, redone, mgr, children, todo>>
  BY DEF GroupInv, Base, OrderInv, Calm, ChildGone
<1>2. \A w \in Old : Tidy(w)' => Tidy(w)
  BY <1>1, CalmNotEnded DEF Tidy, GroupTypes
<1>3. ASSUME Stopping, NEW w \in Old, Tidy(w) PROVE wait # w
  <2>1. w = Proc(w.task)
    BY <1>1, <1>3 DEF RunInTable
  <2>2. w.task \in Tasks /\ gen[w.task] \in Nat /\ gen[w.task] = w.gen
    BY <1>1, <1>3, <2>1 DEF GroupTypes, Real, Types, Proc
  <2> QED
    BY <1>1, <1>3, <2>2 DEF Tidy, Ended
<1> QED
  BY <1>1, <1>2, <1>3 DEF TerminateFinds, Stopping

(* So these steps of the supervisor's own task keep the invariant. *)
LEMMA OwnStepsKeepInv ==
  ASSUME GroupInv, UNCHANGED group,
         LeaveLoop \/ BeginTerminate \/ NextChild \/ ChildGone \/ TerminateRaises
            \/ SkipTerminate \/ NextKid \/ KidEnds \/ Abort \/ StopSupervisor \/ KillSupervisor
  PROVE  GroupInv'
<1>1. Calm
  BY OwnStepsAreCalm, TellingStepsAreCalm
<1>2. UNCHANGED mgr /\ Phases
  BY DEF group, manager, GroupInv, Base
<1>3. Phases'
  <2>1. sup' = "seeding" => sup = "seeding"
    BY DEF LeaveLoop, BeginTerminate, NextChild, ChildGone, TerminateRaises, SkipTerminate,
       NextKid, KidEnds, Abort, StopSupervisor, KillSupervisor, Teardown
  <2>2. sup' \in {"terminate", "wait"} => terminating'
    BY <1>2 DEF Phases, LeaveLoop, BeginTerminate, NextChild, ChildGone, TerminateRaises,
       SkipTerminate, NextKid, KidEnds, Abort, StopSupervisor, KillSupervisor, Teardown
  <2> QED
    BY <1>1, <1>2, <2>1, <2>2 DEF Phases, Calm
<1>4. TerminateFinds'
  <2>1. CASE BeginTerminate
    BY <1>1, <2>1, BeginFinds
  <2>2. CASE NextChild
    BY <1>1, <2>2, NextFinds
  <2>3. CASE ChildGone
    BY <1>1, <2>3, GoneFinds
  <2>4. CASE ~(BeginTerminate \/ NextChild \/ ChildGone)
    <3>1. sup' \notin {"terminate", "wait"}
      BY <2>4 DEF LeaveLoop, TerminateRaises, SkipTerminate, NextKid, KidEnds, Abort,
         StopSupervisor, KillSupervisor, Teardown
    <3> QED
      BY <1>1, <3>1, CalmFinds
  <2> QED
    BY <2>1, <2>2, <2>3, <2>4
<1> QED
  BY <1>1, <1>3, <1>4, CalmKeepsInv

-----------------------------------------------------------------------------
(* Steps that change the tables. *)

(* A process of the batch, or the one the manager waits for, that is not     *)
(* over holds its task.                                                      *)
LEMMA HeldTasks ==
  ASSUME GroupInv, Stopping
  PROVE  /\ \A w \in Old \cup Joining : ~Ended(w) => at[w.task] \in {"starting", "watching"}
         /\ mgr.at = "awaiting" /\ ~Ended(mgr.wait) => at[mgr.wait.task] = "watching"
<1>1. Base /\ EventsKnown /\ OnlyWatchedRun /\ BatchIsAwaited /\ ManagerRuns
  BY DEF GroupInv, EventInv, Stopping, ManagerRuns
<1>2. ASSUME NEW w \in Old \cup Joining, ~Ended(w)
      PROVE  at[w.task] \in {"starting", "watching"}
  <2>1. PICK n \in DOMAIN mgr.batch : events[mgr.batch[n]] = w
    BY <1>1, <1>2 DEF BatchIsAwaited
  <2>2. mgr.batch[n] \in Ids /\ w \in Real /\ w # NoProcess
    BY <1>1, <1>2 DEF Base, GroupTypes, Real, NoProcess, Tasks
  <2>3. gen[w.task] >= w.gen \/ Underway(w)
    BY <1>1, <2>1, <2>2 DEF EventsKnown
  <2> QED
    BY <1>1, <1>2, <2>2, <2>3, NotEndedRuns DEF Underway
<1>3. mgr.at = "awaiting" /\ ~Ended(mgr.wait) => at[mgr.wait.task] = "watching"
  BY <1>1, NotEndedRuns DEF Base, Phases
<1> QED
  BY <1>2, <1>3

(* The order of a batch is kept while no process begins again. *)
KeepsBatch ==
         /\ mgr'.at = mgr.at /\ mgr'.batch = mgr.batch /\ mgr'.left = mgr.left
         /\ mgr'.wait = mgr.wait /\ Old' \subseteq Old
         /\ redone \subseteq redone'
         /\ \A w \in Real : Ended(w) => Ended(w)'
         /\ \A t \in Tasks : at[t] \in {"starting", "watching"} => id'[t] = id[t]

LEMMA OrderIsKept ==
  ASSUME GroupInv, KeepsBatch
  PROVE  /\ Stopping => \A w \in Old' : Tidy(w)' => Tidy(w) /\ id'[w.task] = id[w.task]
         /\ LeftInOrder' /\ OneAfterAnother'
<1>1. /\ GroupTypes /\ Phases /\ LeftInOrder /\ OneAfterAnother
      /\ \A w \in Old : w \in Real
  BY DEF GroupInv, Base, OrderInv, GroupTypes
<1>2. ASSUME Stopping, NEW w \in Old', Tidy(w)' PROVE Tidy(w) /\ id'[w.task] = id[w.task]
  <2>1. w \in Old /\ w \in Real /\ ~Ended(w)
    BY <1>1, <1>2 DEF Tidy, KeepsBatch
  <2>2. id'[w.task] = id[w.task]
    BY <1>2, <2>1, HeldTasks DEF KeepsBatch, Real
  <2> QED
    BY <1>2, <2>1, <2>2 DEF Tidy, KeepsBatch
<1>3. LeftInOrder'
  <2>1. ASSUME Stopping, NEW i, DealtWith(i) PROVE DealtWith(i)'
    BY <1>2, <2>1 DEF DealtWith, KeepsBatch
  <2> QED
    BY <1>1, <2>1 DEF LeftInOrder, Stopping, KeepsBatch
<1>4. OneAfterAnother'
  <2> SUFFICES ASSUME mgr.at = "awaiting", ~Ended(mgr.wait)' PROVE
         \A m, n \in DOMAIN mgr.batch :
            m < n /\ mgr.batch[m] = id'[mgr.wait.task] =>
                \A w \in Old' : ~(Tidy(w)' /\ id'[w.task] = mgr.batch[n])
    BY DEF OneAfterAnother, KeepsBatch
  <2>1. mgr.wait \in Real /\ ~Ended(mgr.wait) /\ Stopping
    <3>1. mgr.wait \in Real
      BY <1>1 DEF Phases
    <3>2. mgr'.wait = mgr.wait /\ (Ended(mgr.wait) => Ended(mgr.wait)')
      BY <3>1 DEF KeepsBatch
    <3> QED
      BY <3>1, <3>2 DEF Stopping
  <2>2. id'[mgr.wait.task] = id[mgr.wait.task]
    BY <2>1, HeldTasks DEF KeepsBatch, Real
  <2> QED
    BY <1>1, <1>2, <2>1, <2>2 DEF OneAfterAnother, KeepsBatch
<1> QED
  BY <1>2, <1>3, <1>4

(* When the manager is gone, nothing is claimed of it. *)
LEMMA ManagerGone ==
  ASSUME Types', Started', NoTwice', GroupTypes', Phases', mgr'.at = "gone"
  PROVE  GroupInv'
  BY DEF GroupInv, Base, EventInv, StartInv, OrderInv, EventsKnown, OnlyWatchedRun, BatchIsAwaited,
     StartsKnown, EntriesHaveSpecs, WatchKnown, JoiningKnown, RunInTable, TerminateFinds,
     LeftInOrder, OneAfterAnother, ManagerRuns, Stopping, Busy

(* Its end: an exception, too many restarts, or that of the supervisor. *)
LEMMA EndsKeepInv ==
  ASSUME GroupInv,
         \/ \E t \in Tasks : GroupStartFails(t)
         \/ \E i \in Ids : GroupRestartsExceeded(i)
         \/ GroupFinish \/ ManagerRaises
  PROVE  GroupInv'
<1>1. Base /\ Types /\ Started /\ NoTwice /\ GroupTypes /\ Phases
  BY DEF GroupInv, Base
<1>2. /\ mgr' = [mgr EXCEPT !.at = "gone"]
      /\ UNCHANGED <<events, specs, children, id, gen, redone, child, todo, snapshot, terminating>>
  BY DEF GroupStartFails, GroupRestartsExceeded, GroupFinish, ManagerRaises, ManagerEnds, Finish,
     dicts, procs, StopRaises
<1>3. \/ at' = [t \in Tasks |-> IF at[t] = "none" THEN "none" ELSE "done"]
      \/ at' = at
  BY DEF GroupStartFails, GroupRestartsExceeded, GroupFinish, ManagerRaises, Finish, GroupCancelled
<1>4. sup' # "seeding" /\ (sup' \in {"terminate", "wait"} => sup' = sup)
  BY DEF GroupStartFails, GroupRestartsExceeded, GroupFinish, ManagerRaises, Finish, GroupCancelled
<1>5. mgr'.at = "gone" /\ GroupTypes'
  BY <1>1, <1>2 DEF GroupTypes
<1>6. Types' /\ NoTwice'
  BY <1>1, <1>2, <1>3 DEF Types, NoTwice
<1>7. Started'
  BY <1>1, <1>2, <1>3 DEF Started, Types
<1>8. Phases'
  BY <1>1, <1>2, <1>4, <1>5 DEF Phases
<1> QED
  BY <1>5, <1>6, <1>7, <1>8, ManagerGone

(* terminate() has ended: nothing that the manager stops is left. *)
LEMMA EndTerminateKeepsInv ==
  ASSUME GroupInv, EndTerminate, UNCHANGED group PROVE GroupInv'
<1>1. /\ Base /\ Types /\ Started /\ NoTwice /\ GroupTypes /\ Phases /\ EventInv /\ StartInv /\ OrderInv
      /\ sup = "terminate" /\ todo = <<>> /\ todo' = <<>>
      /\ sup' \in {"aborted", "teardown"}
      /\ children' = [i \in Ids |-> None]
      /\ UNCHANGED <<specs, id, at, gen, redone, child, events, mgr, terminating, snapshot>>
  BY DEF GroupInv, Base, EndTerminate, Teardown, tasks, procs, group, manager
<1>2. Types' /\ Started' /\ NoTwice' /\ GroupTypes' /\ Phases'
  BY <1>1 DEF Types, Started, NoTwice, GroupTypes, Phases, InSpecs
<1>3. \A w : Ended(w)' <=> Ended(w)
  BY <1>1 DEF Ended, HasStopped
<1>4. EventInv'
  BY <1>1, <1>3 DEF EventInv, EventsKnown, OnlyWatchedRun, BatchIsAwaited, ManagerRuns, Running,
     Underway, Stopping
<1>5. StartInv'
  <2>1. \A t \in Tasks : at[t] = "starting" => id[t] \in Ids
    BY <1>1 DEF Started
  <2>2. StartsKnown'
    BY <1>1, <2>1 DEF StartInv, StartsKnown, ManagerRuns, InSpecs
  <2>3. EntriesHaveSpecs'
    BY <1>1 DEF EntriesHaveSpecs
  <2>4. WatchKnown' /\ JoiningKnown'
    BY <1>1 DEF StartInv, WatchKnown, JoiningKnown, Busy, InBatch, InSpecs
  <2> QED
    BY <2>2, <2>3, <2>4 DEF StartInv
<1>6. KeepsBatch
  BY <1>1, <1>3 DEF KeepsBatch
<1>7. RunInTable'
  <2>1. ASSUME Stopping, NEW w \in Old PROVE ~Tidy(w)
    BY <1>1, <2>1 DEF OrderInv, TerminateFinds
  <2> QED
    BY <1>1, <1>6, <2>1, OrderIsKept DEF RunInTable, Stopping
<1>8. TerminateFinds'
  BY <1>1 DEF TerminateFinds
<1> QED
  BY <1>1, <1>2, <1>4, <1>5, <1>6, <1>7, <1>8, OrderIsKept DEF GroupInv, Base, OrderInv

(* The task that watches a process sets its event. *)
LEMMA SuperviseEndsKeepsInv ==
  ASSUME GroupInv, NEW t \in Tasks, SuperviseEnds(t) PROVE GroupInv'
<1>1. /\ Base /\ Types /\ Started /\ NoTwice /\ GroupTypes /\ Phases /\ EventInv /\ StartInv /\ OrderInv
      /\ at[t] = "watching" /\ child[t] = "stopped" /\ at' = [at EXCEPT ![t] = "done"]
      /\ UNCHANGED <<sup, wait, specs, children, id, gen, redone, child, events, mgr, terminating,
                     todo, snapshot>>
  BY DEF GroupInv, Base, SuperviseEnds, supvars, dicts, procs, group, manager
<1>2. Types' /\ Started' /\ NoTwice' /\ GroupTypes' /\ Phases'
  BY <1>1 DEF Types, Started, NoTwice, GroupTypes, Phases, InSpecs
<1>3. \A w : Ended(w)' <=> Ended(w)
  BY <1>1 DEF Ended, HasStopped
<1>4. \A u \in Tasks : at'[u] = "starting" <=> at[u] = "starting"
  BY <1>1 DEF Types
<1>5. EventsKnown'
  <2>1. ASSUME NEW i \in Ids, events[i] # NoProcess PROVE events[i].task \in Tasks
    BY <1>1, <2>1 DEF GroupTypes, Real
  <2> QED
    BY <1>1, <1>3, <1>4, <2>1 DEF EventInv, EventsKnown, ManagerRuns, Underway
<1>6. OnlyWatchedRun' /\ BatchIsAwaited'
  <2>1. OnlyWatchedRun'
    BY <1>1, <1>3 DEF EventInv, OnlyWatchedRun, ManagerRuns, Running, Types
  <2>2. \A w \in Old \cup Joining : w \in Real
    BY <1>1 DEF GroupTypes
  <2>3. BatchIsAwaited'
    BY <1>1, <1>3, <2>2 DEF EventInv, BatchIsAwaited, Stopping
  <2> QED
    BY <2>1, <2>3
<1>7. StartInv'
  BY <1>1, <1>4 DEF StartInv, StartsKnown, EntriesHaveSpecs, WatchKnown, JoiningKnown, ManagerRuns,
     Dropping, Busy, InBatch, InSpecs
<1>8. KeepsBatch
  BY <1>1, <1>3 DEF KeepsBatch
<1>9. RunInTable' /\ TerminateFinds'
  BY <1>1, <1>8, OrderIsKept DEF OrderInv, RunInTable, TerminateFinds, Stopping, Proc, InSpecs
<1> QED
  BY <1>1, <1>2, <1>5, <1>6, <1>7, <1>8, <1>9, OrderIsKept DEF GroupInv, Base, EventInv, OrderInv

(* A child is up. *)
LEMMA StartedKeepsInv ==
  ASSUME GroupInv, NEW t \in Tasks, GroupChildStarted(t) PROVE GroupInv'
<1>1. /\ Base /\ Types /\ Started /\ NoTwice /\ GroupTypes /\ Phases /\ EventInv /\ StartInv /\ OrderInv
      /\ at[t] = "starting" /\ at' = [at EXCEPT ![t] = "watching"]
      /\ gen' = [gen EXCEPT ![t] = gen[t] + 1] /\ child' = [child EXCEPT ![t] = "live"]
      /\ children' = [children EXCEPT ![id[t]] = t]
      /\ UNCHANGED <<sup, wait, specs, id, redone, events, mgr, terminating, todo, snapshot>>
  BY DEF GroupInv, Base, GroupChildStarted, ChildStarted, supvars, group, manager
<1>2. /\ id[t] \in Ids /\ gen[t] \in Nat /\ gen'[t] = gen[t] + 1 /\ t \in Nat
      /\ children'[id[t]] = t /\ \A i \in Ids : i # id[t] => children'[i] = children[i]
      /\ \A u \in Tasks : u # t => gen'[u] = gen[u] /\ child'[u] = child[u] /\ at'[u] = at[u]
  BY <1>1 DEF Types, Started, Tasks
<1>3. Types'
  BY <1>1, <1>2 DEF Types, Runs
<1>4. Started'
  <2>1. \A i \in Ids : children'[i] # None => id[children'[i]] = i /\ gen'[children'[i]] > 0
    BY <1>1, <1>2 DEF Types, Started
  <2> QED
    BY <1>1, <1>2, <2>1 DEF Types, Started
<1>5. NoTwice' /\ GroupTypes'
  BY <1>1 DEF NoTwice, GroupTypes
<1>6. Phases'
  <2>1. mgr.at = "awaiting" => mgr.wait.task \in Tasks /\ mgr.wait.gen \in Nat
    BY <1>1 DEF Phases, Real
  <2> QED
    BY <1>1, <1>2, <2>1 DEF Phases, Types
<1>7. \A w \in Real : Ended(w) => Ended(w)'
  <2>1. \A u \in Tasks : gen'[u] > gen[u] \/ (gen'[u] = gen[u] /\ child'[u] = child[u])
    BY <1>2
  <2> QED
    BY <1>1, <1>3, <2>1, EndedStays
<1>8. EventsKnown'
  <2> SUFFICES ASSUME ManagerRuns, NEW i \in Ids, NEW w \in Real, w = events[i], w # NoProcess
               PROVE  /\ gen'[w.task] >= w.gen \/ Underway(w)'
                      /\ Ended(w)' \/ id[w.task] = i
    BY <1>1 DEF EventsKnown, ManagerRuns, GroupTypes
  <2>1. w.task \in Tasks /\ w.gen \in Nat /\ gen[w.task] \in Nat
    BY <1>1 DEF Real, Types
  <2>2. /\ gen[w.task] >= w.gen \/ Underway(w)
        /\ Ended(w) \/ id[w.task] = i
    BY <1>1 DEF EventInv, EventsKnown
  <2>3. CASE w.task = t
    BY <1>2, <1>7, <2>1, <2>2, <2>3 DEF Underway
  <2>4. CASE w.task # t
    BY <1>2, <1>7, <2>1, <2>2, <2>4 DEF Underway
  <2> QED
    BY <2>3, <2>4
<1>9. OnlyWatchedRun'
  BY <1>1, <1>2 DEF EventInv, OnlyWatchedRun, ManagerRuns, Running, Types
<1>10. BatchIsAwaited'
  <2>1. \A w \in Old \cup Joining : w \in Real
    BY <1>1 DEF GroupTypes
  <2> QED
    BY <1>1, <1>7, <2>1 DEF EventInv, BatchIsAwaited, Stopping
<1>11. ManagerRuns /\ id[t] \notin redone =>
          /\ InSpecs(id[t]) /\ events[id[t]] \in {NoProcess, [task |-> t, gen |-> gen[t] + 1]}
          /\ \A u \in Tasks : at[u] = "starting" /\ id[u] = id[t] => u = t
  BY <1>1 DEF StartInv, StartsKnown
<1>12. \A u \in Tasks : at'[u] = "starting" => at[u] = "starting" /\ u # t /\ gen'[u] = gen[u]
  BY <1>1, <1>2 DEF Types
<1>13. StartsKnown'
  <2> SUFFICES ASSUME ManagerRuns, NEW u \in Tasks, at'[u] = "starting", id[u] \notin redone
               PROVE  /\ InSpecs(id[u])
                      /\ events[id[u]] \in {NoProcess, [task |-> u, gen |-> gen'[u] + 1]}
                      /\ children'[id[u]] = None \/ Dropping(id[u])
                      /\ \A v \in Tasks : at'[v] = "starting" /\ id[v] = id[u] => v = u
    BY <1>1 DEF StartsKnown, ManagerRuns, InSpecs, Dropping, Busy, InBatch
  <2>1. /\ at[u] = "starting" /\ u # t /\ gen'[u] = gen[u] /\ id[u] \in Ids
    BY <1>1, <1>12 DEF Started
  <2>2. id[u] # id[t]
    BY <1>11, <2>1
  <2> QED
    BY <1>1, <1>2, <1>12, <2>1, <2>2 DEF StartInv, StartsKnown
<1>14. EntriesHaveSpecs' /\ WatchKnown'
  BY <1>1, <1>2, <1>11 DEF StartInv, EntriesHaveSpecs, WatchKnown, ManagerRuns, InSpecs, Dropping,
     Busy, InBatch
<1>15. JoiningKnown'
  BY <1>1, <1>12 DEF StartInv, JoiningKnown, Busy, InBatch, InSpecs
<1>16. KeepsBatch
  BY <1>1, <1>7 DEF KeepsBatch
<1>17. RunInTable'
  <2> SUFFICES ASSUME Stopping, NEW w \in Old, Tidy(w)
               PROVE  /\ w = Proc(w.task)' /\ id[w.task] \in Ids
                      /\ children'[id[w.task]] = w.task
                      /\ events[id[w.task]] = w /\ InSpecs(id[w.task])
    BY <1>1, <1>16, OrderIsKept DEF RunInTable, Stopping, InSpecs
  <2>1. /\ w = Proc(w.task) /\ children[id[w.task]] = w.task /\ events[id[w.task]] = w
        /\ id[w.task] \in Ids /\ InSpecs(id[w.task]) /\ id[w.task] \notin redone
        /\ w \in Real /\ ManagerRuns
    BY <1>1 DEF OrderInv, RunInTable, Tidy, GroupTypes, Stopping, ManagerRuns
  <2>2. w.task \in Tasks /\ gen[w.task] = w.gen /\ w.gen \in Nat
    BY <2>1 DEF Proc, Real
  <2>3. w.task # t
    BY <1>1, <2>1, <2>2, NotEndedRuns DEF Tidy, EventInv
  <2>4. id[w.task] # id[t]
    BY <1>2, <1>11, <2>1, <2>2, <2>3 DEF Proc, NoProcess, Tasks
  <2> QED
    BY <1>2, <2>1, <2>2, <2>3, <2>4 DEF Proc
<1>18. TerminateFinds'
  BY <1>1, <1>16, OrderIsKept DEF OrderInv, TerminateFinds, Stopping
<1> QED
  BY <1>1, <1>3, <1>4, <1>5, <1>6, <1>8, <1>9, <1>10, <1>13, <1>14, <1>15, <1>16, <1>17, <1>18,
     OrderIsKept DEF GroupInv, Base, EventInv, StartInv, OrderInv

-----------------------------------------------------------------------------
(* Starts. *)

(* There are enough tasks to give each of the ids one. *)
LEMMA OwnTasks ==
  ASSUME NEW S, NEW T, IsFiniteSet(S), IsFiniteSet(T), Cardinality(T) >= Cardinality(S)
  PROVE  \E f \in [S -> T] : \A i, j \in S : f[i] = f[j] => i = j
<1> DEFINE m == Cardinality(S)
           n == Cardinality(T)
<1>1. m \in Nat /\ n \in Nat /\ ExistsBijection(1..m, S) /\ ExistsBijection(1..n, T)
  BY FS_CardinalityType
<1>2. PICK a : a \in Bijection(1..m, S)
  BY <1>1 DEF ExistsBijection
<1>3. PICK c : c \in Bijection(S, 1..m)
  BY <1>2, Fun_BijInverse
<1>4. PICK b : b \in Bijection(1..n, T)
  BY <1>1 DEF ExistsBijection
<1>5. c \in [S -> 1..m] /\ \A i, j \in S : c[i] = c[j] => i = j
  BY <1>3, Fun_BijectionProperties
<1>6. b \in [1..n -> T] /\ \A k, l \in 1..n : b[k] = b[l] => k = l
  BY <1>4, Fun_BijectionProperties
<1> HIDE DEF m, n
<1>7. m <= n
  BY DEF m, n
<1>8. \A i \in S : c[i] \in 1..n
  BY <1>1, <1>5, <1>7
<1> DEFINE f == [i \in S |-> b[c[i]]]
<1>9. f \in [S -> T] /\ \A i, j \in S : f[i] = f[j] => i = j
  BY <1>5, <1>6, <1>8
<1> QED
  BY <1>9

(* What a schedule does: each id has a task that was free, which starts it. *)
New(t) == [task |-> t, gen |-> gen[t] + 1]
Scheduled(starts, popped) ==
    /\ id' \in [Tasks -> Ids \cup {None}]
    /\ at' \in [Tasks -> {"none", "starting", "watching", "done"}]
    /\ events' \in [Ids -> Real \cup {NoProcess}]
    /\ \A t \in Tasks :
          \/ id'[t] = id[t] /\ at'[t] = at[t]
          \/ t \in FreeFor(popped) /\ at'[t] = "starting" /\ id'[t] \in starts /\ events'[id'[t]] = New(t)
    /\ \A i \in starts : \E t \in FreeFor(popped) :
          at'[t] = "starting" /\ id'[t] = i /\ events'[i] = New(t)
    /\ \A i \in Ids \ starts : events'[i] = IF i \in popped THEN NoProcess ELSE events[i]

LEMMA ScheduleWorks ==
  ASSUME Types, GroupTypes, NEW starts \in SUBSET Ids, NEW popped, IsFiniteSet(starts),
         Schedule(starts, popped)
  PROVE  Scheduled(starts, popped)
<1> DEFINE free == FreeFor(popped)
           Own(f) == \A i, j \in starts : f[i] = f[j] => i = j
           own == CHOOSE f \in [starts -> free] : Own(f)
           for(t) == {i \in starts : own[i] = t}
<1>1. free \subseteq Tasks /\ IsFiniteSet(free) /\ Cardinality(free) >= Cardinality(starts)
  <2>1. IsFiniteSet(Tasks)
    BY FS_Interval, SupervisorAssumption DEF Tasks
  <2>2. free \in SUBSET Tasks
    BY DEF FreeFor
  <2> QED
    BY <2>1, <2>2, FS_Subset DEF Schedule
<1>2. \E f \in [starts -> free] : Own(f)
  BY <1>1, OwnTasks
<1>3. own \in [starts -> free] /\ Own(own)
  BY <1>2, Zenon
<1>4. /\ id' = [t \in Tasks |-> IF for(t) = {} THEN id[t] ELSE CHOOSE i \in for(t) : TRUE]
      /\ at' = [t \in Tasks |-> IF for(t) = {} THEN at[t] ELSE "starting"]
      /\ events' = [i \in Ids |->
                CASE i \in starts -> [task |-> own[i], gen |-> gen[own[i]] + 1]
                  [] i \in popped \ starts -> NoProcess
                  [] OTHER -> events[i]]
  BY DEF Schedule
<1> HIDE DEF own
<1>5. \A t \in Tasks : for(t) # {} => (CHOOSE i \in for(t) : TRUE) \in for(t)
  OBVIOUS
<1>6. \A i \in starts : for(own[i]) = {i} /\ own[i] \in free /\ own[i] \in Tasks
  BY <1>1, <1>3
<1>7. \A t \in Tasks : for(t) # {} => id'[t] \in starts /\ own[id'[t]] = t /\ at'[t] = "starting"
  BY <1>4, <1>5
<1>8. \A t \in Tasks : for(t) = {} => id'[t] = id[t] /\ at'[t] = at[t]
  BY <1>4
<1>9. \A i \in starts : events'[i] = New(own[i])
  BY <1>4 DEF New
<1>10. \A i \in Ids \ starts : events'[i] = IF i \in popped THEN NoProcess ELSE events[i]
  BY <1>4
<1>11. \A i \in starts : New(own[i]) \in Real
  BY <1>6 DEF New, Real, Types
<1>12. \A i \in starts : id'[own[i]] = i /\ at'[own[i]] = "starting"
  BY <1>6, <1>7
<1>13. \A t \in Tasks : id'[t] \in Ids \cup {None} /\ at'[t] \in {"none", "starting", "watching", "done"}
  BY <1>7, <1>8 DEF Types
<1>14. \A i \in Ids : events'[i] \in Real \cup {NoProcess}
  BY <1>9, <1>10, <1>11 DEF GroupTypes
<1>15. /\ id' \in [Tasks -> Ids \cup {None}]
       /\ at' \in [Tasks -> {"none", "starting", "watching", "done"}]
       /\ events' \in [Ids -> Real \cup {NoProcess}]
  <2>1. DOMAIN id' = Tasks /\ DOMAIN at' = Tasks /\ DOMAIN events' = Ids
    BY <1>4
  <2>2. /\ id' = [t \in Tasks |-> id'[t]] /\ at' = [t \in Tasks |-> at'[t]]
        /\ events' = [i \in Ids |-> events'[i]]
    BY <1>4
  <2> QED
    BY <1>13, <1>14, <2>2
<1>16. \A t \in Tasks : for(t) # {} => t \in free
  BY <1>6
<1> HIDE DEF for
<1> QED
  BY <1>6, <1>7, <1>8, <1>9, <1>10, <1>12, <1>15, <1>16 DEF Scheduled

(* Who is free neither runs nor is about to, and no other entry names it. *)
LEMMA StartsKeepBase ==
  ASSUME GroupInv, ManagerRuns' => ManagerRuns, NEW starts \in SUBSET Ids, NEW popped,
         Scheduled(starts, popped), UNCHANGED <<gen, child>>, children' = Popped(popped)
  PROVE  /\ \A t \in FreeFor(popped) : at[t] \in {"none", "done"} /\ t \in Tasks
         /\ \A t \in Tasks : at[t] \in {"starting", "watching"} => id'[t] = id[t] /\ at'[t] = at[t]
         /\ children' \in [Ids -> Tasks \cup {None}]
         /\ Started' /\ (EventsKnown /\ OnlyWatchedRun)'
<1>1. /\ Base /\ Types /\ Started /\ GroupTypes /\ EventsKnown /\ OnlyWatchedRun
      /\ gen' = gen /\ child' = child
  BY DEF GroupInv, Base, EventInv
<1>2. \A t \in FreeFor(popped) : /\ at[t] \in {"none", "done"} /\ t \in Tasks
                                 /\ \A i \in Ids \ popped : children[i] # t
  BY DEF FreeFor
<1>3. /\ id' \in [Tasks -> Ids \cup {None}]
      /\ at' \in [Tasks -> {"none", "starting", "watching", "done"}]
      /\ \A t \in Tasks :
          \/ id'[t] = id[t] /\ at'[t] = at[t]
          \/ t \in FreeFor(popped) /\ at'[t] = "starting" /\ id'[t] \in starts
  BY DEF Scheduled
<1>4. \A t \in Tasks : at[t] \in {"starting", "watching"} => id'[t] = id[t] /\ at'[t] = at[t]
  BY <1>2, <1>3
<1>5. \A i \in Ids : children'[i] = IF i \in popped THEN None ELSE children[i]
  BY DEF Popped
<1>6. children' \in [Ids -> Tasks \cup {None}]
  BY <1>1, <1>5 DEF Popped, Types
<1>7. Started'
  <2>1. ASSUME NEW t \in Tasks
        PROVE  /\ at'[t] # "none" => id'[t] \in Ids
               /\ at'[t] = "none" => gen[t] = 0
               /\ child[t] = "none" <=> gen[t] = 0
    BY <1>1, <1>3 DEF Started
  <2>2. ASSUME NEW i \in Ids, children'[i] # None
        PROVE  id'[children'[i]] = i /\ gen[children'[i]] > 0
    <3>1. i \notin popped /\ children'[i] = children[i] /\ children[i] \in Tasks
      BY <1>1, <1>5, <2>2 DEF Types
    <3>2. children[i] \notin FreeFor(popped)
      BY <1>2, <3>1
    <3> QED
      BY <1>1, <1>3, <2>2, <3>1, <3>2 DEF Started
  <2> QED
    BY <1>1, <2>1, <2>2 DEF Started
<1>8. OnlyWatchedRun'
  <2> SUFFICES ASSUME ManagerRuns, NEW t \in Tasks, Running(t) PROVE at'[t] = "watching"
    BY <1>1 DEF OnlyWatchedRun, Running
  <2> QED
    BY <1>1, <1>4 DEF OnlyWatchedRun
<1>9. \A w : Ended(w)' <=> Ended(w)
  BY <1>1 DEF Ended, HasStopped
<1>10. EventsKnown'
  <2> SUFFICES ASSUME ManagerRuns, NEW i \in Ids, NEW w, w = events'[i], w # NoProcess
               PROVE  /\ gen[w.task] >= w.gen \/ Underway(w)'
                      /\ Ended(w) \/ id'[w.task] = i
    BY <1>1, <1>9 DEF EventsKnown
  <2>1. CASE i \in starts
    <3>1. PICK t \in FreeFor(popped) : at'[t] = "starting" /\ id'[t] = i /\ w = New(t)
      BY <2>1 DEF Scheduled
    <3> QED
      BY <1>1, <3>1 DEF New, Underway
  <2>2. CASE i \notin starts
    <3>1. w = events[i] /\ w \in Real
      BY <1>1, <2>2 DEF Scheduled, GroupTypes
    <3>2. /\ gen[w.task] >= w.gen \/ Underway(w)
          /\ Ended(w) \/ id[w.task] = i
      BY <1>1, <3>1 DEF EventsKnown
    <3>3. w.task \in Tasks
      BY <3>1 DEF Real
    <3>4. CASE gen[w.task] >= w.gen
      <4>1. ~Ended(w) => at[w.task] = "watching"
        BY <1>1, <3>1, <3>4, NotEndedRuns
      <4> QED
        BY <1>4, <3>2, <3>3, <3>4, <4>1
    <3>5. CASE Underway(w)
      <4>1. at[w.task] = "starting"
        BY <3>5 DEF Underway
      <4> QED
        BY <1>1, <1>4, <3>2, <3>3, <3>5, <4>1 DEF Underway
    <3> QED
      BY <3>2, <3>4, <3>5
  <2> QED
    BY <2>1, <2>2
<1> QED
  BY <1>2, <1>4, <1>6, <1>7, <1>8, <1>10

(* What a client does to one id leaves the batch to the manager. *)
LEMMA ForgettingKeepsInv ==
  ASSUME GroupInv, NEW i \in Ids, Forgets(i),
         Types', Started', NoTwice', GroupTypes', Phases', EventsKnown', OnlyWatchedRun', StartInv',
         KeepsBatch, UNCHANGED <<sup, todo, wait, gen>>,
         \A j \in Ids : j # i => /\ events'[j] = events[j] /\ children'[j] = children[j]
                                 /\ InSpecs(j) => InSpecs(j)'
  PROVE  GroupInv'
<1>1. /\ Base /\ GroupTypes /\ BatchIsAwaited /\ RunInTable /\ TerminateFinds
      /\ \A w \in Old \cup Joining : w \in Real
      /\ \A n \in DOMAIN mgr.batch : mgr.batch[n] \in Ids
      /\ \A n \in DOMAIN mgr.left : mgr.left[n] \in Ids
  BY DEF GroupInv, Base, EventInv, OrderInv, GroupTypes
<1>2. /\ mgr'.at = mgr.at /\ mgr'.batch = mgr.batch /\ mgr'.left = mgr.left /\ mgr'.wait = mgr.wait
      /\ Old' = Old \ {events[i]} /\ Joining' = Joining \ {events[i]}
  BY <1>1 DEF Forgets, GroupTypes
<1>3. \A j \in Ids : events[j] # events[i] => j # i /\ events'[j] = events[j]
  OBVIOUS
<1>4. \A w \in Real : Ended(w) => Ended(w)'
  BY DEF KeepsBatch
<1>5. BatchIsAwaited'
  <2>1. \A w \in Old' \cup Joining' : /\ w \in Old \cup Joining /\ w \in Real
                                              /\ w # events[i]
    BY <1>1, <1>2
  <2> QED
    BY <1>1, <1>2, <1>3, <1>4, <2>1 DEF BatchIsAwaited, Stopping
<1>6. Stopping => \A w \in Old' : Tidy(w)' => Tidy(w) /\ id'[w.task] = id[w.task] /\ w # events[i]
  BY <1>2, OrderIsKept
<1>7. RunInTable'
  <2> SUFFICES ASSUME Stopping, NEW w \in Old', Tidy(w)', NEW k, k = id[w.task]
               PROVE  /\ w = Proc(w.task) /\ k \in Ids
                      /\ children'[k] = w.task /\ events'[k] = w /\ InSpecs(k)'
    BY <1>2, <1>6 DEF RunInTable, Stopping, Proc
  <2>1. w \in Old /\ Tidy(w) /\ w # events[i]
    BY <1>2, <1>6
  <2>2. w = Proc(w.task) /\ k \in Ids /\ children[k] = w.task /\ events[k] = w /\ InSpecs(k)
    BY <1>1, <2>1 DEF RunInTable
  <2> QED
    BY <2>1, <2>2
<1>8. TerminateFinds'
  BY <1>1, <1>2, <1>6 DEF TerminateFinds, Stopping
<1> QED
  BY <1>5, <1>7, <1>8, OrderIsKept DEF GroupInv, Base, EventInv, OrderInv

(* The specs that are kept are no more than they were. *)
LEMMA KeepNoTwice ==
  ASSUME NoTwice, specs \in Seq(Ids), NEW S, NEW k, k = Keep(specs, S)
  PROVE  \A m, n \in DOMAIN k : k[m] = k[n] => m = n
<1>1. k \in Seq(Ids) /\ DOMAIN k = 1..Len(k) /\ Len(k) \in Nat
  BY KeepProperties
<1>2. \A a, b \in DOMAIN k : a < b =>
          \E m, n \in DOMAIN specs : m < n /\ specs[m] = k[a] /\ specs[n] = k[b]
  BY KeepOrder
<1>3. DOMAIN specs \subseteq Int
  OBVIOUS
<1>4. \A a, b \in DOMAIN k : a < b => k[a] # k[b]
  BY <1>2, <1>3 DEF NoTwice
<1> QED
  BY <1>1, <1>4

(* One less, and one more at the end. *)
LEMMA SpecsLessOne ==
  ASSUME NoTwice, specs \in Seq(Ids), NEW i \in Ids, specs' = Without(i)
  PROVE  specs' \in Seq(Ids) /\ NoTwice' /\ \A j : InSpecs(j)' <=> j # i /\ InSpecs(j)
<1>1. PICK S : S = Ids \ {i}
  OBVIOUS
<1>2. PICK k : k = Keep(specs, S)
  OBVIOUS
<1>3. specs' = k
  BY <1>1, <1>2 DEF Without
<1>4. \A m, n \in DOMAIN k : k[m] = k[n] => m = n
  BY <1>2, KeepNoTwice
<1>5. NoTwice'
  BY <1>3, <1>4 DEF NoTwice
<1>6. /\ Without(i) \in Seq(Ids)
      /\ \A j : (\E n \in DOMAIN Without(i) : Without(i)[n] = j) <=> j # i /\ InSpecs(j)
  BY WithoutOne
<1>7. \A j : InSpecs(j)' <=> j # i /\ InSpecs(j)
  BY <1>6, Zenon DEF InSpecs
<1> QED
  BY <1>5, <1>6, <1>7

LEMMA SpecsOneMore ==
  ASSUME NoTwice, specs \in Seq(Ids), NEW i \in Ids, ~InSpecs(i), specs' = Append(Without(i), i)
  PROVE  specs' \in Seq(Ids) /\ NoTwice' /\ \A j : InSpecs(j)' <=> j = i \/ InSpecs(j)
<1>1. PICK S : S = Ids \ {i}
  OBVIOUS
<1>2. PICK k : k = Keep(specs, S)
  OBVIOUS
<1>3. specs' = Append(k, i)
  BY <1>1, <1>2 DEF Without
<1>4. /\ k \in Seq(Ids) /\ \A m, n \in DOMAIN k : k[m] = k[n] => m = n
      /\ \A n \in DOMAIN k : k[n] \in S
  BY <1>2, KeepNoTwice, KeepProperties
<1>5. NoTwice'
  <2>1. /\ DOMAIN k = 1..Len(k) /\ Len(k) \in Nat /\ DOMAIN specs' = 1..(Len(k) + 1)
        /\ specs'[Len(k) + 1] = i /\ \A n \in 1..Len(k) : specs'[n] = k[n] /\ k[n] # i
    BY <1>1, <1>3, <1>4, AppendProperties
  <2> QED
    BY <1>4, <2>1 DEF NoTwice
<1>6. /\ Append(Without(i), i) \in Seq(Ids)
      /\ \A j : (\E n \in DOMAIN Append(Without(i), i) : Append(Without(i), i)[n] = j)
                       <=> j = i \/ InSpecs(j)
  BY WithOneMore
<1>7. \A j : InSpecs(j)' <=> j = i \/ InSpecs(j)
  BY <1>6, Zenon DEF InSpecs
<1> QED
  BY <1>5, <1>6, <1>7

(* start_child. *)
LEMMA StartChildKeepsInv ==
  ASSUME GroupInv, NEW c \in Clients, NEW i \in Ids, GroupStartChild(c, i) PROVE GroupInv'
<1>1. /\ Base /\ Types /\ Started /\ NoTwice /\ GroupTypes /\ Phases /\ StartInv
      /\ ~InSpecs(i) /\ specs' = Append(Without(i), i)
      /\ Schedule({i}, {}) /\ Forgets(i)
      /\ UNCHANGED <<sup, todo, wait, terminating, snapshot, children, gen, child, redone>>
  BY DEF GroupInv, Base, GroupStartChild, IdInUse, supvars, procs
<1>2. Scheduled({i}, {})
  BY <1>1, FS_Singleton, ScheduleWorks
<1>3. specs' \in Seq(Ids) /\ NoTwice' /\ \A j : InSpecs(j)' <=> j = i \/ InSpecs(j)
  BY <1>1, SpecsOneMore DEF Types
<1>4. children' = Popped({}) /\ \A j \in Ids : j # i => events'[j] = events[j]
  BY <1>1, <1>2 DEF Types, Popped, Scheduled
<1>5. /\ id' \in [Tasks -> Ids \cup {None}]
      /\ at' \in [Tasks -> {"none", "starting", "watching", "done"}]
      /\ events' \in [Ids -> Real \cup {NoProcess}]
  BY <1>2 DEF Scheduled
<1>6. /\ mgr'.at = mgr.at /\ mgr'.batch = mgr.batch /\ mgr'.left = mgr.left /\ mgr'.wait = mgr.wait
      /\ mgr'.again = mgr.again /\ mgr'.watch = mgr.watch
      /\ Old' \subseteq Old /\ Joining' = Joining \ {events[i]}
  BY <1>1 DEF Forgets, GroupTypes
<1>7. Types' /\ Phases'
  BY <1>1, <1>3, <1>5, <1>6 DEF Types, Phases
<1>8. GroupTypes'
  BY <1>1, <1>5 DEF GroupTypes, Forgets
<1>9. ManagerRuns' <=> ManagerRuns
  BY <1>6 DEF ManagerRuns
<1>10. /\ \A t \in Tasks : at[t] \in {"starting", "watching"} => id'[t] = id[t] /\ at'[t] = at[t]
       /\ Started' /\ EventsKnown' /\ OnlyWatchedRun'
  BY <1>1, <1>2, <1>4, <1>9, StartsKeepBase
<1>11. CASE ~ManagerRuns
  BY <1>3, <1>6, <1>7, <1>8, <1>10, <1>11, ManagerGone DEF ManagerRuns
<1>12. CASE ManagerRuns
  <2>1. KeepsBatch
    <3>1. \A w : Ended(w)' <=> Ended(w)
      BY <1>1 DEF Ended, HasStopped
    <3> QED
      BY <1>1, <1>6, <1>10, <3>1 DEF KeepsBatch
  <2>2. \A j : (Dropping(j)' <=> Dropping(j)) /\ (InBatch(j)' <=> InBatch(j)) /\ (Busy' <=> Busy)
    BY <1>6 DEF Dropping, InBatch, Busy
  <2>3. \A t \in Tasks : at'[t] = "starting" =>
             \/ at[t] = "starting" /\ id'[t] = id[t] /\ id[t] \in Ids
             \/ id'[t] = i /\ events'[i] = New(t)
    BY <1>1, <1>2 DEF Scheduled, Started
  <2>4. \A t \in Tasks : at[t] = "starting" /\ id[t] \notin redone => id[t] # i
    BY <1>1, <1>12 DEF StartInv, StartsKnown
  <2>5. StartsKnown'
    <3> SUFFICES ASSUME NEW t \in Tasks, at'[t] = "starting", NEW k, k = id'[t], k \notin redone
                 PROVE  /\ InSpecs(k)'
                        /\ events'[k] \in {NoProcess, New(t)}
                        /\ children[k] = None \/ Dropping(k)
                        /\ \A u \in Tasks : at'[u] = "starting" /\ id'[u] = k => u = t
      BY <1>1, <2>2 DEF StartsKnown, New
    <3>1. CASE k = i
      <4>1. events'[i] = New(t)
        BY <2>3, <2>4, <3>1
      <4>2. children[i] = None \/ Dropping(i)
        BY <1>1, <1>12, <3>1 DEF StartInv, EntriesHaveSpecs
      <4>3. \A u \in Tasks : at'[u] = "starting" /\ id'[u] = k => u = t
        <5> SUFFICES ASSUME NEW u \in Tasks, at'[u] = "starting", id'[u] = k PROVE u = t
          OBVIOUS
        <5>1. New(u) = New(t)
          BY <2>3, <2>4, <3>1, <4>1
        <5> QED
          BY <5>1 DEF New
      <4> QED
        BY <1>3, <3>1, <4>1, <4>2, <4>3
    <3>2. CASE k # i
      <4>1. at[t] = "starting" /\ id[t] = k /\ k \in Ids
        BY <2>3, <3>2
      <4>2. /\ InSpecs(k) /\ events[k] \in {NoProcess, New(t)} /\ (children[k] = None \/ Dropping(k))
            /\ \A u \in Tasks : at[u] = "starting" /\ id[u] = k => u = t
        BY <1>1, <1>12, <4>1 DEF StartInv, StartsKnown, New
      <4> QED
        BY <1>3, <1>4, <2>3, <3>2, <4>1, <4>2
    <3> QED
      BY <3>1, <3>2
  <2>6. EntriesHaveSpecs' /\ WatchKnown'
    BY <1>1, <1>3, <1>4, <1>6, <1>12, <2>2 DEF StartInv, EntriesHaveSpecs, WatchKnown, ManagerRuns
  <2>7. JoiningKnown'
    <3> SUFFICES ASSUME Busy, mgr.again, NEW k \in Ids \ redone, InBatch(k)
                 PROVE  /\ InSpecs(k)'
                        /\ \A t \in Tasks : at'[t] = "starting" /\ id'[t] = k => New(t) \in Joining'
      BY <1>1, <1>6, <2>2 DEF JoiningKnown, New
    <3>1. InSpecs(k) /\ k # i
      BY <1>1 DEF StartInv, JoiningKnown
    <3>2. ASSUME NEW t \in Tasks, at'[t] = "starting", id'[t] = k PROVE New(t) \in Joining'
      <4>1. at[t] = "starting" /\ id[t] = k
        BY <2>3, <3>1, <3>2
      <4>2. New(t) \in Joining
        BY <1>1, <4>1 DEF StartInv, JoiningKnown, New
      <4>3. events[i] # New(t)
        <5>1. gen[t] \in Nat /\ New(t).task = t /\ New(t).gen = gen[t] + 1 /\ New(t) # NoProcess
          BY <1>1 DEF Types, New, NoProcess
        <5>2. ~Ended(New(t))
          BY <5>1 DEF Ended
        <5> QED
          BY <1>12, <3>1, <4>1, <5>1, <5>2 DEF GroupInv, EventInv, EventsKnown
      <4> QED
        BY <1>6, <4>2, <4>3
    <3> QED
      BY <1>3, <3>1, <3>2
  <2>8. StartInv'
    BY <2>5, <2>6, <2>7 DEF StartInv
  <2> QED
    BY <1>1, <1>3, <1>4, <1>7, <1>8, <1>10, <2>1, <2>8, ForgettingKeepsInv
<1> QED
  BY <1>11, <1>12

(* restart_child. *)
LEMMA RestartChildKeepsInv ==
  ASSUME GroupInv, NEW c \in Clients, NEW i \in Ids, GroupRestartChild(c, i) PROVE GroupInv'
<1>1. /\ Base /\ Types /\ Started /\ NoTwice /\ GroupTypes /\ Phases /\ StartInv
      /\ children' = Popped({i}) /\ Schedule({i}, {i}) /\ redone' = redone \cup {i} /\ Forgets(i)
      /\ UNCHANGED <<sup, todo, wait, terminating, snapshot, specs, gen, child>>
  BY DEF GroupInv, Base, GroupRestartChild, supvars, procs
<1>2. Scheduled({i}, {i})
  BY <1>1, FS_Singleton, ScheduleWorks
<1>3. \A j \in Ids : j # i => events'[j] = events[j] /\ children'[j] = children[j]
  BY <1>1, <1>2 DEF Popped, Scheduled
<1>4. /\ id' \in [Tasks -> Ids \cup {None}]
      /\ at' \in [Tasks -> {"none", "starting", "watching", "done"}]
      /\ events' \in [Ids -> Real \cup {NoProcess}]
  BY <1>2 DEF Scheduled
<1>5. /\ mgr'.at = mgr.at /\ mgr'.batch = mgr.batch /\ mgr'.left = mgr.left /\ mgr'.wait = mgr.wait
      /\ mgr'.again = mgr.again /\ mgr'.watch = mgr.watch
      /\ Old' \subseteq Old /\ Joining' = Joining \ {events[i]}
  BY <1>1 DEF Forgets, GroupTypes
<1>6. (ManagerRuns' <=> ManagerRuns) /\ \A j : InSpecs(j)' <=> InSpecs(j)
  BY <1>1, <1>5 DEF ManagerRuns, InSpecs
<1>7. /\ \A t \in Tasks : at[t] \in {"starting", "watching"} => id'[t] = id[t] /\ at'[t] = at[t]
      /\ children' \in [Ids -> Tasks \cup {None}]
      /\ Started' /\ EventsKnown' /\ OnlyWatchedRun'
  BY <1>1, <1>2, <1>6, StartsKeepBase
<1>8. Types' /\ Phases' /\ NoTwice'
  BY <1>1, <1>4, <1>5, <1>7 DEF Types, Phases, NoTwice
<1>9. GroupTypes'
  BY <1>1, <1>4 DEF GroupTypes, Forgets
<1>10. CASE ~ManagerRuns
  BY <1>6, <1>7, <1>8, <1>9, <1>10, ManagerGone DEF ManagerRuns
<1>11. CASE ManagerRuns
  <2>1. KeepsBatch
    <3>1. \A w : Ended(w)' <=> Ended(w)
      BY <1>1 DEF Ended, HasStopped
    <3> QED
      BY <1>1, <1>5, <1>7, <3>1 DEF KeepsBatch
  <2>2. \A j : (Dropping(j)' <=> Dropping(j)) /\ (InBatch(j)' <=> InBatch(j)) /\ (Busy' <=> Busy)
    BY <1>5 DEF Dropping, InBatch, Busy
  <2>3. \A t \in Tasks : at'[t] = "starting" /\ id'[t] # i =>
             at[t] = "starting" /\ id'[t] = id[t] /\ id[t] \in Ids
    BY <1>1, <1>2 DEF Scheduled, Started
  <2>4. StartsKnown'
    <3> SUFFICES ASSUME NEW t \in Tasks, at'[t] = "starting", NEW k, k = id'[t], k \notin redone, k # i
                 PROVE  /\ InSpecs(k)'
                        /\ events'[k] \in {NoProcess, New(t)}
                        /\ children'[k] = None \/ Dropping(k)
                        /\ \A u \in Tasks : at'[u] = "starting" /\ id'[u] = k => u = t
      BY <1>1, <2>2 DEF StartsKnown, New
    <3>1. at[t] = "starting" /\ id[t] = k /\ k \in Ids
      BY <2>3
    <3>2. /\ InSpecs(k) /\ events[k] \in {NoProcess, New(t)} /\ (children[k] = None \/ Dropping(k))
          /\ \A u \in Tasks : at[u] = "starting" /\ id[u] = k => u = t
      BY <1>1, <1>11, <3>1 DEF StartInv, StartsKnown, New
    <3> QED
      BY <1>3, <1>6, <2>3, <3>1, <3>2
  <2>5. EntriesHaveSpecs' /\ WatchKnown'
    BY <1>1, <1>3, <1>5, <1>6, <1>11, <2>2 DEF StartInv, EntriesHaveSpecs, WatchKnown
  <2>6. JoiningKnown'
    <3> SUFFICES ASSUME Busy, mgr.again, NEW k \in Ids \ redone, k # i, InBatch(k)
                 PROVE  /\ InSpecs(k)'
                        /\ \A t \in Tasks : at'[t] = "starting" /\ id'[t] = k => New(t) \in Joining'
      BY <1>1, <1>5, <2>2 DEF JoiningKnown, New
    <3>1. ASSUME NEW t \in Tasks, at'[t] = "starting", id'[t] = k PROVE New(t) \in Joining'
      <4>1. at[t] = "starting" /\ id[t] = k
        BY <2>3, <3>1
      <4>2. New(t) \in Joining
        BY <1>1, <4>1 DEF StartInv, JoiningKnown, New
      <4>3. events[i] # New(t)
        <5>1. gen[t] \in Nat /\ New(t).task = t /\ New(t).gen = gen[t] + 1 /\ New(t) # NoProcess
          BY <1>1 DEF Types, New, NoProcess
        <5>2. ~Ended(New(t))
          BY <5>1 DEF Ended
        <5> QED
          BY <1>11, <4>1, <5>1, <5>2 DEF GroupInv, EventInv, EventsKnown
      <4> QED
        BY <1>5, <4>2, <4>3
    <3> QED
      BY <1>1, <1>6, <3>1 DEF StartInv, JoiningKnown
  <2>7. StartInv'
    BY <2>4, <2>5, <2>6 DEF StartInv
  <2> QED
    BY <1>1, <1>3, <1>6, <1>7, <1>8, <1>9, <2>1, <2>7, ForgettingKeepsInv
<1> QED
  BY <1>10, <1>11

(* terminate_child. *)
LEMMA TerminateChildKeepsInv ==
  ASSUME GroupInv, NEW c \in Clients, NEW i \in Ids, GroupTerminateChild(c, i) PROVE GroupInv'
<1>1. /\ Base /\ Types /\ Started /\ NoTwice /\ GroupTypes /\ Phases /\ EventInv /\ StartInv
      /\ InSpecs(i) /\ children[i] # None
      /\ children' = Popped({i}) /\ events' = EventsWithout({i}) /\ Forgets(i)
      /\ UNCHANGED <<sup, todo, wait, terminating, snapshot, specs, id, at, gen, redone>>
  BY DEF GroupInv, Base, GroupTerminateChild, supvars, tasks
<1>2. /\ child' \in [Tasks -> Runs \cup {"none", "stopped"}]
      /\ \A u \in Tasks : child'[u] = child[u] \/ (child[u] \in Runs /\ child'[u] # "none")
  <2>1. CASE child' = child
    BY <1>1, <2>1 DEF Types
  <2>2. CASE /\ child[children[i]] # "stopped"
             /\ BrutalKill(children[i]) \/ StopSent(children[i])
    <3>1. children[i] \in Tasks /\ child[children[i]] \in Runs
      BY <1>1, <2>2, EntryRuns
    <3> QED
      BY <1>1, <2>2, <3>1, Told
  <2> QED
    BY <2>1, <2>2 DEF GroupTerminateChild
<1>3. /\ \A j \in Ids : j # i => events'[j] = events[j] /\ children'[j] = children[j]
      /\ events'[i] = NoProcess /\ children'[i] = None
  BY <1>1 DEF Popped, EventsWithout
<1>4. /\ mgr'.at = mgr.at /\ mgr'.batch = mgr.batch /\ mgr'.left = mgr.left /\ mgr'.wait = mgr.wait
      /\ mgr'.again = mgr.again /\ mgr'.watch = mgr.watch
      /\ Old' \subseteq Old /\ Joining' = Joining \ {events[i]}
  BY <1>1 DEF Forgets, GroupTypes
<1>5. children' \in [Ids -> Tasks \cup {None}] /\ events' \in [Ids -> Real \cup {NoProcess}]
  BY <1>1 DEF Types, GroupTypes, Popped, EventsWithout
<1>6. Types' /\ NoTwice' /\ Phases'
  BY <1>1, <1>2, <1>4, <1>5 DEF Types, NoTwice, Phases
<1>7. GroupTypes'
  BY <1>1, <1>5 DEF GroupTypes, Forgets
<1>8. Started'
  <2>1. \A t \in Tasks : child'[t] = "none" <=> child[t] = "none"
    BY <1>2 DEF Runs
  <2>2. \A j \in Ids : children'[j] \in {children[j], None}
    BY <1>1 DEF Popped
  <2> QED
    BY <1>1, <2>1, <2>2 DEF Started
<1>9. (ManagerRuns' <=> ManagerRuns) /\ \A j : InSpecs(j)' <=> InSpecs(j)
  BY <1>1, <1>4 DEF ManagerRuns, InSpecs
<1>10. CASE ~ManagerRuns
  BY <1>6, <1>7, <1>8, <1>9, <1>10, ManagerGone DEF ManagerRuns
<1>11. CASE ManagerRuns
  <2>1. \A w \in Real : Ended(w) => Ended(w)'
    <3>1. \A t \in Tasks : gen'[t] = gen[t] /\ (child[t] = "stopped" => child'[t] = "stopped")
      BY <1>1, <1>2 DEF Runs
    <3> QED
      BY <1>1, <1>6, <3>1, EndedStays
  <2>2. EventsKnown' /\ OnlyWatchedRun'
    <3>1. \A t \in Tasks : Running(t)' => Running(t)
      BY <1>2 DEF Running, Runs
    <3>2. \A j \in Ids : events'[j] # NoProcess => events'[j] = events[j] /\ events[j] \in Real
      BY <1>1, <1>3 DEF GroupTypes
    <3> QED
      BY <1>1, <1>11, <2>1, <3>1, <3>2 DEF EventInv, EventsKnown, OnlyWatchedRun, Underway
  <2>3. KeepsBatch
    BY <1>1, <1>4, <2>1 DEF KeepsBatch
  <2>4. \A j : (Dropping(j)' <=> Dropping(j)) /\ (InBatch(j)' <=> InBatch(j)) /\ (Busy' <=> Busy)
    BY <1>4 DEF Dropping, InBatch, Busy
  <2>5. StartsKnown'
    <3> SUFFICES ASSUME NEW t \in Tasks, at[t] = "starting", NEW k, k = id[t], k \notin redone
                 PROVE  /\ InSpecs(k)
                        /\ events'[k] \in {NoProcess, New(t)}
                        /\ children'[k] = None \/ Dropping(k)
                        /\ \A u \in Tasks : at[u] = "starting" /\ id[u] = k => u = t
      BY <1>1, <1>9, <2>4 DEF StartsKnown, New
    <3>1. k \in Ids
      BY <1>1 DEF Started
    <3>2. /\ InSpecs(k) /\ events[k] \in {NoProcess, New(t)} /\ (children[k] = None \/ Dropping(k))
          /\ \A u \in Tasks : at[u] = "starting" /\ id[u] = k => u = t
      BY <1>1, <1>11 DEF StartInv, StartsKnown, New
    <3> QED
      BY <1>3, <3>1, <3>2
  <2>6. EntriesHaveSpecs' /\ WatchKnown'
    BY <1>1, <1>3, <1>4, <1>9, <1>11, <2>4 DEF StartInv, EntriesHaveSpecs, WatchKnown
  <2>7. JoiningKnown'
    <3> SUFFICES ASSUME Busy, mgr.again, NEW k \in Ids \ redone, InBatch(k)
                 PROVE  /\ InSpecs(k)
                        /\ \A t \in Tasks : at[t] = "starting" /\ id[t] = k => New(t) \in Joining'
      BY <1>1, <1>4, <1>9, <2>4 DEF JoiningKnown, New
    <3>1. ASSUME NEW t \in Tasks, at[t] = "starting", id[t] = k PROVE New(t) \in Joining'
      <4>1. New(t) \in Joining
        BY <1>1, <3>1 DEF StartInv, JoiningKnown, New
      <4>2. k # i
        BY <1>1, <1>11, <3>1 DEF StartInv, StartsKnown, Dropping
      <4>3. events[i] # New(t)
        <5>1. gen[t] \in Nat /\ New(t).task = t /\ New(t).gen = gen[t] + 1 /\ New(t) # NoProcess
          BY <1>1 DEF Types, New, NoProcess
        <5>2. ~Ended(New(t))
          BY <5>1 DEF Ended
        <5> QED
          BY <1>1, <1>11, <3>1, <4>2, <5>1, <5>2 DEF EventInv, EventsKnown
      <4> QED
        BY <1>4, <4>1, <4>3
    <3> QED
      BY <1>1, <3>1 DEF StartInv, JoiningKnown
  <2>8. StartInv'
    BY <2>5, <2>6, <2>7 DEF StartInv
  <2> QED
    BY <1>1, <1>3, <1>6, <1>7, <1>8, <1>9, <2>2, <2>3, <2>8, ForgettingKeepsInv
<1> QED
  BY <1>10, <1>11

(* delete_child. *)
LEMMA DeleteChildKeepsInv ==
  ASSUME GroupInv, NEW i \in Ids, GroupDeleteChild(i) PROVE GroupInv'
<1>1. /\ Base /\ Types /\ Started /\ NoTwice /\ GroupTypes /\ Phases /\ EventInv /\ StartInv /\ OrderInv
      /\ specs' = Without(i) /\ redone' = redone \cup {i}
      /\ UNCHANGED <<sup, todo, wait, terminating, snapshot, children, id, at, gen, child, events, mgr>>
  BY DEF GroupInv, Base, GroupDeleteChild, DeleteChild, supvars, procs, manager
<1>2. specs' \in Seq(Ids) /\ NoTwice' /\ \A j : InSpecs(j)' <=> j # i /\ InSpecs(j)
  BY <1>1, SpecsLessOne DEF Types
<1>3. Types' /\ Started' /\ GroupTypes' /\ Phases'
  BY <1>1, <1>2 DEF Types, Started, GroupTypes, Phases
<1>4. \A w : Ended(w)' <=> Ended(w)
  BY <1>1 DEF Ended, HasStopped
<1>5. EventInv'
  BY <1>1, <1>4 DEF EventInv, EventsKnown, OnlyWatchedRun, BatchIsAwaited, ManagerRuns, Running,
     Underway, Stopping
<1>6. StartInv'
  <2>1. StartsKnown'
    BY <1>1, <1>2 DEF StartInv, StartsKnown, ManagerRuns, Dropping, Busy, InBatch
  <2>2. EntriesHaveSpecs' /\ WatchKnown' /\ JoiningKnown'
    BY <1>1, <1>2 DEF StartInv, EntriesHaveSpecs, WatchKnown, JoiningKnown, ManagerRuns,
       Dropping, Busy, InBatch
  <2> QED
    BY <2>1, <2>2 DEF StartInv
<1>7. KeepsBatch
  BY <1>1, <1>4 DEF KeepsBatch
<1>8. \A w : Tidy(w)' => Tidy(w) /\ id[w.task] # i
  BY <1>1, <1>4 DEF Tidy
<1>9. RunInTable'
  <2> SUFFICES ASSUME Stopping, NEW w \in Old, Tidy(w)', NEW k, k = id[w.task]
               PROVE  /\ w = Proc(w.task) /\ k \in Ids
                      /\ children[k] = w.task /\ events[k] = w /\ InSpecs(k)'
    BY <1>1 DEF RunInTable, Stopping, Proc
  <2>1. w = Proc(w.task) /\ k \in Ids /\ children[k] = w.task /\ events[k] = w /\ InSpecs(k)
    BY <1>1, <1>8 DEF OrderInv, RunInTable
  <2> QED
    BY <1>2, <1>8, <2>1
<1>10. TerminateFinds'
  BY <1>1, <1>8 DEF OrderInv, TerminateFinds, Stopping
<1> QED
  BY <1>1, <1>2, <1>3, <1>5, <1>6, <1>7, <1>9, <1>10, OrderIsKept DEF GroupInv, Base, OrderInv

-----------------------------------------------------------------------------
(* The manager. *)

(* It watches again what there is by now. *)
LEMMA WatchesKeepsInv ==
  ASSUME GroupTypes, events' \in [Ids -> Real \cup {NoProcess}], mgr' = Watches,
         Types', Started', NoTwice', EventsKnown', OnlyWatchedRun', StartsKnown', EntriesHaveSpecs',
         sup' # "seeding", sup' \in {"terminate", "wait"} => terminating'
  PROVE  GroupInv'
<1>1. /\ mgr'.at = "watching"
      /\ mgr'.watch = [i \in Ids |-> IF \E n \in DOMAIN specs' : specs'[n] = i
                                     THEN events'[i] ELSE NoProcess]
  BY DEF GroupTypes, Watches
<1>2. GroupTypes'
  <2>1. PICK w : w = [i \in Ids |-> IF \E n \in DOMAIN specs' : specs'[n] = i
                                   THEN events'[i] ELSE NoProcess]
    OBVIOUS
  <2>2. w \in [Ids -> Real \cup {NoProcess}]
    BY <2>1
  <2>3. mgr' = [mgr EXCEPT !.at = "watching", !.left = <<>>, !.wait = NoProcess, !.watch = w]
    BY <2>1 DEF Watches
  <2>4. <<>> \in Seq(Ids) /\ "watching" \in {"none", "watching", "stopping", "awaiting", "draining",
                                             "starting", "gone"}
    BY EmptySeq
  <2>5. mgr' \in [at: {"none", "watching", "stopping", "awaiting", "draining", "starting", "gone"},
                  watch: [Ids -> Real \cup {NoProcess}], batch: Seq(Ids), left: Seq(Ids),
                  again: BOOLEAN, wait: Real \cup {NoProcess}, ran: SUBSET Real,
                  joining: SUBSET Real, taken: SUBSET Real]
    BY <2>2, <2>3, <2>4 DEF GroupTypes
  <2> QED
    BY <2>5 DEF GroupTypes
<1>3. Phases'
  BY <1>1 DEF Phases
<1>4. WatchKnown'
  BY <1>1 DEF WatchKnown, InSpecs
<1>5. ~Stopping' /\ ~Busy'
  BY <1>1 DEF Stopping, Busy
<1> QED
  BY <1>1, <1>2, <1>3, <1>4, <1>5
     DEF GroupInv, Base, EventInv, StartInv, OrderInv, BatchIsAwaited, JoiningKnown, RunInTable,
         TerminateFinds, LeftInOrder, OneAfterAnother, Stopping

(* The seeds are up, an update has come, the batch is up, or it knows *)
(* nothing of the one that stopped.                                   *)
LEMMA RoundKeepsInv ==
  ASSUME GroupInv,
         \/ GroupSeedsReady \/ Updated \/ ManagerReady
         \/ \E i \in Ids : Ignored(i) /\ UNCHANGED <<events, children>>
  PROVE  GroupInv'
<1>1. /\ Base /\ Types /\ Started /\ NoTwice /\ GroupTypes /\ Phases /\ EventInv /\ StartInv
      /\ mgr' = Watches /\ mgr.at \in {"none", "watching", "starting"}
      /\ UNCHANGED <<terminating, todo, snapshot, specs, children, id, at, gen, child, redone, events>>
      /\ sup' # "seeding" /\ (sup' \in {"terminate", "wait"} => sup' = sup)
  BY DEF GroupInv, Base, Phases, GroupSeedsReady, SeedsReady, Updated, ManagerReady, Ignored,
     FirstStop, supvars, dicts, tasks, procs
<1>2. Types' /\ Started' /\ NoTwice' /\ events' \in [Ids -> Real \cup {NoProcess}]
  BY <1>1 DEF Types, Started, NoTwice, GroupTypes
<1>3. ManagerRuns /\ \A i : ~Dropping(i)
  BY <1>1 DEF ManagerRuns, Dropping, Busy
<1>4. EventsKnown' /\ OnlyWatchedRun'
  BY <1>1, <1>3 DEF EventInv, EventsKnown, OnlyWatchedRun, Ended, HasStopped, Underway, Running
<1>5. StartsKnown' /\ EntriesHaveSpecs'
  BY <1>1, <1>3 DEF StartInv, StartsKnown, EntriesHaveSpecs, InSpecs
<1> QED
  BY <1>1, <1>2, <1>4, <1>5, WatchesKeepsInv DEF Phases

(* What it goes by: the ids whose events it has, in the order of the specs.  *)
LEMMA OrderedIs ==
  ASSUME Base
  PROVE  /\ Ordered \in Seq(Ids)
         /\ \A n \in DOMAIN Ordered : events[Ordered[n]] # NoProcess /\ InSpecs(Ordered[n])
         /\ \A m, n \in DOMAIN Ordered : Ordered[m] = Ordered[n] => m = n
         /\ \A i \in Ids : events[i] # NoProcess /\ InSpecs(i) => IsIn(i, Ordered)
<1>1. specs \in Seq(Ids) /\ NoTwice
  BY DEF Base, Types
<1>2. PICK S : S = {i \in Ids : events[i] # NoProcess}
  OBVIOUS
<1>3. PICK k : k = Keep(specs, S)
  OBVIOUS
<1>4. Ordered = k
  BY <1>2, <1>3 DEF Ordered
<1>5. /\ k \in Seq(Ids) /\ \A n \in DOMAIN k : k[n] \in S
      /\ \A e : (\E n \in DOMAIN k : k[n] = e) <=> e \in S /\ \E n \in DOMAIN specs : specs[n] = e
  BY <1>1, <1>3, KeepProperties
<1>6. \A m, n \in DOMAIN k : k[m] = k[n] => m = n
  BY <1>1, <1>3, KeepNoTwice
<1> QED
  BY <1>2, <1>4, <1>5, <1>6 DEF InSpecs, IsIn

(* The process whose end it has seen is over, and no start of its id is      *)
(* under way.                                                                *)
LEMMA FirstStopIsOver ==
  ASSUME GroupInv, NEW i \in Ids, FirstStop(i), events[i] # NoProcess, i \notin redone
  PROVE  Ended(events[i]) /\ \A t \in Tasks : at[t] = "starting" => id[t] # i
<1>1. /\ Base /\ Types /\ GroupTypes /\ OnlyWatchedRun /\ WatchKnown /\ StartsKnown
      /\ mgr.at = "watching" /\ ManagerRuns
  BY DEF GroupInv, Base, EventInv, StartInv, FirstStop, ManagerRuns
<1>2. mgr.watch[i] \in Real
  BY <1>1 DEF GroupTypes, FirstStop
<1>3. events[i] = mgr.watch[i]
  BY <1>1 DEF WatchKnown, FirstStop
<1>4. Ended(events[i])
  BY <1>1, <1>2, <1>3, SetIsEnded DEF FirstStop
<1>5. ASSUME NEW t \in Tasks, at[t] = "starting", id[t] = i PROVE FALSE
  <2>1. events[i] = New(t)
    BY <1>1, <1>5 DEF StartsKnown, New
  <2>2. gen[t] \in Nat /\ New(t).task = t /\ New(t).gen = gen[t] + 1
    BY <1>1 DEF Types, New
  <2> QED
    BY <1>4, <2>1, <2>2 DEF Ended
<1> QED
  BY <1>4, <1>5

(* It lets go of a process that stays away. *)
LEMMA LetGoKeepsInv ==
  ASSUME GroupInv, NEW i \in Ids, mgr.at = "watching", mgr' = Watches,
         UNCHANGED <<sup, terminating, todo, snapshot, id, at, gen, child, redone>>,
         events' = EventsWithout({i}), children' = Popped({i}),
         specs' = specs \/ (specs' = Without(i) /\ FirstStop(i) /\ events[i] # NoProcess)
  PROVE  GroupInv'
<1>1. /\ Base /\ Types /\ Started /\ NoTwice /\ GroupTypes /\ Phases /\ EventInv /\ StartInv
      /\ UNCHANGED <<sup, terminating, todo, snapshot, id, at, gen, child, redone>>
  BY DEF GroupInv, Base
<1>2. /\ \A j \in Ids : events'[j] = (IF j = i THEN NoProcess ELSE events[j])
      /\ \A j \in Ids : children'[j] = (IF j = i THEN None ELSE children[j])
  BY DEF EventsWithout, Popped
<1>3. children' \in [Ids -> Tasks \cup {None}] /\ events' \in [Ids -> Real \cup {NoProcess}]
  BY <1>1 DEF Types, GroupTypes, Popped, EventsWithout
<1>4. /\ specs' \in Seq(Ids) /\ NoTwice'
      /\ \A j \in Ids : j # i => (InSpecs(j)' <=> InSpecs(j))
  <2>1. CASE specs' = specs
    BY <1>1, <2>1 DEF Types, NoTwice, InSpecs
  <2>2. CASE specs' = Without(i)
    BY <1>1, <2>2, SpecsLessOne DEF Types
  <2> QED
    BY <2>1, <2>2
<1>5. Types' /\ Started'
  <2>1. Types'
    BY <1>1, <1>3, <1>4 DEF Types
  <2>2. Started'
    BY <1>1, <1>2 DEF Started
  <2> QED
    BY <2>1, <2>2
<1>6. ManagerRuns /\ \A j : ~Dropping(j)
  BY DEF ManagerRuns, Dropping, Busy
<1>7. EventsKnown' /\ OnlyWatchedRun'
  BY <1>1, <1>2, <1>6 DEF EventInv, EventsKnown, OnlyWatchedRun, Ended, HasStopped, Underway, Running
<1>8. StartsKnown'
  <2> SUFFICES ASSUME NEW t \in Tasks, at[t] = "starting", NEW k, k = id[t], k \notin redone
               PROVE  /\ InSpecs(k)'
                      /\ events'[k] \in {NoProcess, New(t)}
                      /\ children'[k] = None
                      /\ \A u \in Tasks : at[u] = "starting" /\ id[u] = k => u = t
    BY <1>1 DEF StartsKnown, New
  <2>1. k \in Ids
    BY <1>1 DEF Started
  <2>2. /\ InSpecs(k) /\ events[k] \in {NoProcess, New(t)} /\ children[k] = None
        /\ \A u \in Tasks : at[u] = "starting" /\ id[u] = k => u = t
    BY <1>1, <1>6 DEF StartInv, StartsKnown, New
  <2>3. specs' = specs \/ k # i
    BY FirstStopIsOver
  <2>4. InSpecs(k)'
    BY <1>4, <2>1, <2>2, <2>3 DEF InSpecs
  <2> QED
    BY <1>2, <2>1, <2>2, <2>4
<1>9. EntriesHaveSpecs'
  BY <1>1, <1>2, <1>4, <1>6 DEF StartInv, EntriesHaveSpecs
<1>10. sup' # "seeding" /\ (sup' \in {"terminate", "wait"} => terminating')
  BY <1>1 DEF Phases
<1> QED
  BY <1>1, <1>3, <1>4, <1>5, <1>7, <1>8, <1>9, <1>10, WatchesKeepsInv

LEMMA IgnoredKeepsInv ==
  ASSUME GroupInv, NEW i \in Ids, Ignored(i) PROVE GroupInv'
<1>1. /\ mgr.at = "watching" /\ mgr' = Watches
      /\ UNCHANGED <<specs, sup, terminating, todo, snapshot, id, at, gen, child, redone>>
  BY DEF Ignored, FirstStop, supvars, tasks, procs
<1>2. CASE events' = EventsWithout({i}) /\ children' = Popped({i})
  BY <1>1, <1>2, LetGoKeepsInv
<1>3. CASE UNCHANGED <<events, children>>
  BY <1>3, RoundKeepsInv
<1> QED
  BY <1>2, <1>3 DEF Ignored

(* r comes to an element of s after those that stand behind it in s.         *)
GoesDown(r, s) ==
    \A k \in DOMAIN r : \A m, n \in DOMAIN s :
        m < n /\ r[k] = s[m] => \E l \in 1..(k - 1) : r[l] = s[n]
Distinct(s) == \A m, n \in DOMAIN s : s[m] = s[n] => m = n

(* It chooses a batch. *)
LEMMA BatchKeepsInv ==
  ASSUME GroupInv, mgr.at = "watching", ~terminating,
         NEW ids \in Seq(Ids), NEW left \in Seq(Ids), NEW again \in BOOLEAN, Batch(ids, left, again),
         UNCHANGED <<sup, terminating, todo, snapshot, children, id, at, gen, child, redone, events>>,
         specs' \in Seq(Ids), NoTwice',
         \A n \in DOMAIN ids : events[ids[n]] # NoProcess,
         GoesDown(left, ids),
         \A t \in Tasks : at[t] = "starting" /\ id[t] \notin redone /\ InSpecs(id[t])
             => \E n \in DOMAIN specs' : specs'[n] = id[t],
         \A j \in Ids \ redone : InSpecs(j) /\ children[j] # None =>
             InSpecs(j)' \/ (~again /\ \E n \in DOMAIN ids : ids[n] = j),
         \A n \in DOMAIN ids : again => InSpecs(ids[n])',
         \A n \in DOMAIN ids : ids[n] \notin redone /\ ~Ended(events[ids[n]]) => InSpecs(ids[n])'
  PROVE  GroupInv'
<1>1. /\ Base /\ Types /\ Started /\ NoTwice /\ GroupTypes /\ Phases /\ EventInv /\ StartInv
      /\ UNCHANGED <<sup, terminating, todo, snapshot, children, id, at, gen, child, redone, events>>
  BY DEF GroupInv, Base
<1> DEFINE known == {events[i] : i \in ToSet(ids)}
           up    == {Proc(children[i]) : i \in {j \in Ids : children[j] # None}}
<1>2. /\ known \subseteq Real /\ known \cap up \subseteq Real /\ known \ up \subseteq Real
      /\ \A w \in known : \E n \in DOMAIN ids : w = events[ids[n]]
      /\ \A n \in DOMAIN ids : ids[n] \in Ids /\ events[ids[n]] \in known
      /\ \A w \in up : \E j \in Ids : children[j] # None /\ w = Proc(children[j])
      /\ \A j \in Ids : children[j] # None => Proc(children[j]) \in up
  BY <1>1 DEF ToSet, GroupTypes
<1> HIDE DEF known, up
<1>3. mgr' = [mgr EXCEPT !.at = "stopping", !.batch = ids, !.left = left, !.again = again,
                         !.watch = NoEvents, !.ran = known \cap up, !.joining = known \ up,
                         !.taken = {}]
  BY DEF Batch, known, up
<1>4. /\ mgr'.at = "stopping" /\ mgr'.batch = ids /\ mgr'.left = left /\ mgr'.again = again
      /\ Old' = known \cap up /\ Joining' = known \ up
  BY <1>1, <1>3 DEF GroupTypes
<1>5. GroupTypes'
  <2>1. NoEvents \in [Ids -> Real \cup {NoProcess}]
    BY DEF NoEvents
  <2> QED
    BY <1>1, <1>2, <1>3, <2>1 DEF GroupTypes
<1>6. Types' /\ Started' /\ Phases'
  BY <1>1, <1>4 DEF Types, Started, Phases
<1>7. /\ ManagerRuns /\ ManagerRuns' /\ Stopping' /\ Busy'
      /\ \A j : ~Dropping(j) /\ (InBatch(j)' <=> \E n \in DOMAIN ids : ids[n] = j)
      /\ \A j : Dropping(j)' <=> ~again /\ \E n \in DOMAIN ids : ids[n] = j
  BY <1>4 DEF ManagerRuns, Stopping, Busy, Dropping, InBatch
<1>8. \A w : Ended(w)' <=> Ended(w)
  BY <1>1 DEF Ended, HasStopped
<1>9. EventsKnown' /\ OnlyWatchedRun'
  BY <1>1, <1>7, <1>8 DEF EventInv, EventsKnown, OnlyWatchedRun, Underway, Running
<1>10. BatchIsAwaited'
  BY <1>1, <1>2, <1>4, <1>8 DEF BatchIsAwaited
<1>11. StartsKnown'
  <2> SUFFICES ASSUME NEW t \in Tasks, at[t] = "starting", NEW k, k = id[t], k \notin redone
               PROVE  /\ InSpecs(k)'
                      /\ events[k] \in {NoProcess, New(t)}
                      /\ children[k] = None
                      /\ \A u \in Tasks : at[u] = "starting" /\ id[u] = k => u = t
    BY <1>1 DEF StartsKnown, New
  <2>1. /\ InSpecs(k) /\ events[k] \in {NoProcess, New(t)} /\ children[k] = None
        /\ \A u \in Tasks : at[u] = "starting" /\ id[u] = k => u = t
    BY <1>1, <1>7 DEF StartInv, StartsKnown, New
  <2>2. InSpecs(k)'
    BY <2>1 DEF InSpecs
  <2> QED
    BY <2>1, <2>2
<1>12. EntriesHaveSpecs'
  BY <1>1, <1>7 DEF StartInv, EntriesHaveSpecs
<1>13. WatchKnown'
  BY <1>4 DEF WatchKnown
<1>14. JoiningKnown'
  <2> SUFFICES ASSUME again, NEW n \in DOMAIN ids, NEW k, k = ids[n], k \notin redone
               PROVE  /\ InSpecs(k)'
                      /\ \A t \in Tasks : at[t] = "starting" /\ id[t] = k => New(t) \in known \ up
    BY <1>1, <1>4, <1>7 DEF JoiningKnown, New
  <2>1. ASSUME NEW t \in Tasks, at[t] = "starting", id[t] = k PROVE New(t) \in known \ up
    <3>1. events[k] = New(t)
      BY <1>1, <1>7, <2>1 DEF StartInv, StartsKnown, New
    <3>2. New(t) \in known
      BY <1>2, <3>1
    <3>3. \A j \in Ids : Proc(children[j]) # New(t)
      <4>1. gen[t] \in Nat
        BY <1>1 DEF Types
      <4> QED
        BY <4>1 DEF Proc, New
    <3> QED
      BY <1>2, <3>2, <3>3
  <2> QED
    BY <2>1
<1>15. RunInTable'
  <2> SUFFICES ASSUME NEW w \in known \cap up, Tidy(w)', NEW k, k = id[w.task]
               PROVE  /\ w = Proc(w.task) /\ k \in Ids
                      /\ children[k] = w.task /\ events[k] = w /\ InSpecs(k)'
    BY <1>1, <1>4 DEF RunInTable, Proc
  <2>1. k \notin redone /\ ~Ended(w)
    BY <1>1, <1>8 DEF Tidy
  <2>2. PICK j \in Ids : children[j] # None /\ w = Proc(children[j])
    BY <1>2
  <2>3. w.task = children[j] /\ w = Proc(w.task) /\ id[w.task] = j
    BY <1>1, <2>2 DEF Proc, Started
  <2>4. PICK n \in DOMAIN ids : w = events[ids[n]]
    BY <1>2
  <2>5. id[w.task] = ids[n] /\ ids[n] \in Ids
    BY <1>1, <1>2, <1>7, <2>1, <2>4 DEF EventInv, EventsKnown
  <2> QED
    BY <2>1, <2>2, <2>3, <2>4, <2>5
<1>16. TerminateFinds'
  BY <1>1 DEF TerminateFinds, Phases
<1>17. LeftInOrder' /\ OneAfterAnother'
  BY <1>4 DEF GoesDown, LeftInOrder, OneAfterAnother
<1> QED
  BY <1>5, <1>6, <1>9, <1>10, <1>11, <1>12, <1>13, <1>14, <1>15, <1>16, <1>17
     DEF GroupInv, Base, EventInv, StartInv, OrderInv

(* A list is gone down by its reverse, *)
LEMMA ReverseGoesDown ==
  ASSUME NEW s \in Seq(Ids), Distinct(s), NEW r, r = StopOrder(s)
  PROVE  r \in Seq(Ids) /\ GoesDown(r, s) /\ \A k \in DOMAIN r : \E x \in DOMAIN s : r[k] = s[x]
<1>1. PICK L \in Nat : Len(s) = L /\ DOMAIN s = 1..L /\ \A n \in 1..L : s[n] \in Ids
  OBVIOUS
<1>2. r = [k \in 1..L |-> s[L - k + 1]]
  BY <1>1 DEF StopOrder, Reverse
<1>3. \A k \in 1..L : L - k + 1 \in 1..L
  OBVIOUS
<1>4. r \in [1..L -> Ids]
  BY <1>1, <1>2, <1>3
<1>5. r \in Seq(Ids) /\ DOMAIN r = 1..L
  BY <1>4, IsASeq
<1>6. ASSUME NEW k \in 1..L, NEW m \in 1..L, NEW n \in 1..L, m < n, r[k] = s[m]
      PROVE  \E l \in 1..(k - 1) : r[l] = s[n]
  <2>1. m = L - k + 1
    BY <1>1, <1>2, <1>3, <1>6 DEF Distinct
  <2>2. PICK l : l = L + 1 - n
    OBVIOUS
  <2>3. l \in 1..(k - 1) /\ l \in 1..L /\ L - l + 1 = n
    BY <1>6, <2>1, <2>2
  <2> QED
    BY <1>2, <2>3
<1>7. GoesDown(r, s)
  BY <1>1, <1>5, <1>6 DEF GoesDown
<1> QED
  BY <1>1, <1>2, <1>3, <1>5, <1>7

(* by that of its tail, *)
LEMMA TailGoesDown ==
  ASSUME NEW s \in Seq(Ids), Distinct(s), s # <<>>, NEW r, r = StopOrder(Tail(s))
  PROVE  r \in Seq(Ids) /\ GoesDown(r, s)
<1>1. PICK b : b = Tail(s)
  OBVIOUS
<1>2. PICK L \in Nat : Len(s) = L + 1 /\ DOMAIN s = 1..(L + 1)
  <2>1. Len(s) \in Nat \ {0} /\ DOMAIN s = 1..Len(s)
    BY EmptySeq
  <2>2. Len(s) - 1 \in Nat /\ Len(s) = (Len(s) - 1) + 1
    BY <2>1
  <2> QED
    BY <2>1, <2>2
<1>3. b \in Seq(Ids) /\ Len(b) = L /\ \A n \in 1..L : b[n] = s[n + 1]
  <2>1. /\ Tail(s) \in Seq(Ids) /\ Len(Tail(s)) = Len(s) - 1
        /\ \A n \in 1..Len(Tail(s)) : Tail(s)[n] = s[n + 1]
    BY HeadTailProperties
  <2> QED
    BY <1>1, <1>2, <2>1
<1>4. DOMAIN b = 1..L
  BY <1>3
<1>5. Distinct(b)
  <2> SUFFICES ASSUME NEW m \in 1..L, NEW n \in 1..L, b[m] = b[n] PROVE m = n
    BY <1>4 DEF Distinct
  <2>1. m + 1 \in DOMAIN s /\ n + 1 \in DOMAIN s /\ s[m + 1] = s[n + 1]
    BY <1>2, <1>3
  <2>2. m + 1 = n + 1
    BY <2>1 DEF Distinct
  <2> QED
    BY <2>2
<1>6. r \in Seq(Ids) /\ GoesDown(r, b) /\ \A k \in DOMAIN r : \E x \in DOMAIN b : r[k] = b[x]
  <2>1. r = StopOrder(b)
    BY <1>1
  <2>2. b \in Seq(Ids)
    BY <1>3
  <2> QED
    BY <1>5, <2>1, <2>2, ReverseGoesDown
<1>7. ASSUME NEW k \in DOMAIN r, NEW m \in DOMAIN s, NEW n \in DOMAIN s, m < n, r[k] = s[m]
      PROVE  \E l \in 1..(k - 1) : r[l] = s[n]
  <2>1. PICK x \in 1..L : r[k] = b[x]
    BY <1>4, <1>6
  <2>2. x + 1 \in DOMAIN s /\ s[x + 1] = s[m]
    BY <1>2, <1>3, <1>7, <2>1
  <2>3. x + 1 = m
    BY <2>2 DEF Distinct
  <2>4. PICK y : y = n - 1
    OBVIOUS
  <2>5. y \in 1..L /\ x < y /\ y + 1 = n
    BY <1>2, <1>7, <2>3, <2>4
  <2>6. b[y] = s[n]
    BY <1>3, <2>5
  <2>7. \A j, h \in DOMAIN b : j < h /\ r[k] = b[j] => \E l \in 1..(k - 1) : r[l] = b[h]
    BY <1>6, <1>7 DEF GoesDown
  <2>8. \E l \in 1..(k - 1) : r[l] = b[y]
    BY <1>4, <2>1, <2>5, <2>7
  <2> QED
    BY <2>6, <2>8
<1> QED
  BY <1>6, <1>7 DEF GoesDown

(* and by both, one behind the other. *)
LEMMA BothGoDown ==
  ASSUME NEW s \in Seq(Ids), NEW p \in Seq(Ids), NEW r \in Seq(Ids), GoesDown(p, s), GoesDown(r, s),
         NEW left, left = p \o r
  PROVE  left \in Seq(Ids) /\ GoesDown(left, s)
<1>1. PICK P \in Nat : Len(p) = P /\ DOMAIN p = 1..P
  OBVIOUS
<1>2. PICK R \in Nat : Len(r) = R /\ DOMAIN r = 1..R
  OBVIOUS
<1>3. /\ left \in Seq(Ids) /\ Len(left) = P + R
      /\ \A k \in 1..(P + R) : left[k] = IF k <= P THEN p[k] ELSE r[k - P]
  BY <1>1, <1>2, ConcatProperties
<1>4. DOMAIN left = 1..(P + R)
  BY <1>3
<1>5. ASSUME NEW k \in 1..(P + R), NEW m \in DOMAIN s, NEW n \in DOMAIN s, m < n, left[k] = s[m]
      PROVE  \E l \in 1..(k - 1) : left[l] = s[n]
  <2>1. CASE k <= P
    <3>1. k \in 1..P /\ p[k] = s[m]
      BY <1>3, <1>5, <2>1
    <3>2. PICK l \in 1..(k - 1) : p[l] = s[n]
      BY <1>1, <1>5, <3>1 DEF GoesDown
    <3>3. left[l] = p[l]
      BY <1>3, <3>1, <3>2
    <3> QED
      BY <3>2, <3>3
  <2>2. CASE k > P
    <3>1. PICK h : h = k - P
      OBVIOUS
    <3>2. h \in 1..R /\ r[h] = s[m] /\ k = P + h
      BY <1>3, <1>5, <2>2, <3>1
    <3>3. PICK l \in 1..(h - 1) : r[l] = s[n]
      BY <1>2, <1>5, <3>2 DEF GoesDown
    <3>4. PICK q : q = P + l
      OBVIOUS
    <3>5. q \in 1..(P + R) /\ q > P /\ q - P = l /\ q \in 1..(k - 1)
      <4>1. h \in Int /\ l \in Int /\ 1 <= l /\ l <= h - 1 /\ h <= R /\ k = P + h
        BY <3>2, <3>3
      <4> QED
        BY <3>4, <4>1
    <3>6. left[q] = r[l]
      BY <1>3, <3>5
    <3> QED
      BY <3>3, <3>5, <3>6
  <2>3. k <= P \/ k > P
    OBVIOUS
  <2> QED
    BY <2>1, <2>2, <2>3
<1>6. GoesDown(left, s)
  <2> SUFFICES ASSUME NEW k \in DOMAIN left, NEW m \in DOMAIN s, NEW n \in DOMAIN s, m < n,
                      left[k] = s[m]
               PROVE  \E l \in 1..(k - 1) : left[l] = s[n]
    BY Zenon DEF GoesDown
  <2>1. k \in 1..(P + R)
    BY <1>4
  <2> QED
    BY <1>5, <2>1
<1> QED
  BY <1>3, <1>6

(* The one that stopped is not restarted. *)
LEMMA DroppedKeepsInv ==
  ASSUME GroupInv, NEW i \in Ids, Dropped(i) PROVE GroupInv'
<1>1. /\ Base /\ Types /\ NoTwice /\ mgr.at = "watching" /\ ~terminating
      /\ FirstStop(i) /\ IsIn(i, Ordered) /\ specs' = Without(i)
      /\ UNCHANGED <<sup, terminating, todo, snapshot, id, at, gen, child, redone>>
  BY DEF GroupInv, Base, Dropped, Matters, FirstStop, supvars, tasks, procs
<1>2. PICK k : k = Ordered
  OBVIOUS
<1>3. /\ k \in Seq(Ids) /\ Distinct(k)
      /\ \A n \in DOMAIN k : events[k[n]] # NoProcess /\ InSpecs(k[n])
      /\ \E n \in DOMAIN k : k[n] = i
  BY <1>1, <1>2, OrderedIs DEF Distinct, IsIn
<1>4. events[i] # NoProcess
  BY <1>3
<1>5. specs' \in Seq(Ids) /\ NoTwice' /\ \A j : InSpecs(j)' <=> j # i /\ InSpecs(j)
  BY <1>1, SpecsLessOne DEF Types
<1>6. CASE strategy = "one_for_all"
  <2>1. PICK r : r = StopOrder(k)
    OBVIOUS
  <2>2. Batch(k, r, FALSE) /\ UNCHANGED <<events, children>>
    BY <1>2, <1>6, <2>1 DEF Dropped
  <2>3. r \in Seq(Ids) /\ GoesDown(r, k)
    BY <1>3, <2>1, ReverseGoesDown
  <2>4. i \notin redone => Ended(events[i]) /\ \A t \in Tasks : at[t] = "starting" => id[t] # i
    BY <1>1, <1>4, FirstStopIsOver
  <2>5. \A t \in Tasks : at[t] = "starting" /\ id[t] \notin redone /\ InSpecs(id[t])
            => \E n \in DOMAIN specs' : specs'[n] = id[t]
    <3> SUFFICES ASSUME NEW t \in Tasks, at[t] = "starting", NEW j, j = id[t], j \notin redone, InSpecs(j)
                 PROVE  \E n \in DOMAIN specs' : specs'[n] = j
      OBVIOUS
    <3>1. InSpecs(j)'
      BY <1>5, <2>4
    <3> QED
      BY <3>1 DEF InSpecs
  <2>6. \A j \in Ids \ redone : InSpecs(j) /\ children[j] # None =>
            InSpecs(j)' \/ (~FALSE /\ \E n \in DOMAIN k : k[n] = j)
    BY <1>3, <1>5
  <2>7. \A n \in DOMAIN k : k[n] \notin redone /\ ~Ended(events[k[n]]) => InSpecs(k[n])'
    <3> SUFFICES ASSUME NEW n \in DOMAIN k, NEW j, j = k[n], j \notin redone, ~Ended(events[j])
                 PROVE  InSpecs(j)'
      OBVIOUS
    <3> QED
      BY <1>3, <1>5, <2>4
  <2>8. \A n \in DOMAIN k : FALSE => InSpecs(k[n])'
    OBVIOUS
  <2> QED
    BY <1>1, <1>3, <1>5, <2>2, <2>3, <2>5, <2>6, <2>7, <2>8, BatchKeepsInv
<1>7. CASE strategy # "one_for_all"
  <2>1. events' = EventsWithout({i}) /\ children' = Popped({i}) /\ mgr' = Watches
    BY <1>7 DEF Dropped
  <2> QED
    BY <1>1, <1>4, <2>1, LetGoKeepsInv
<1> QED
  BY <1>6, <1>7

(* What is restarted with it. *)
LEMMA AffectedIs ==
  ASSUME Base, NEW i \in Ids, IsIn(i, Ordered), NEW a, a = Affected(i), NEW b, b = Behind(i)
  PROVE  /\ a \in Seq(Ids) /\ Distinct(a)
         /\ \A n \in DOMAIN a : events[a[n]] # NoProcess /\ InSpecs(a[n])
         /\ b = <<>> \/ (a # <<>> /\ b = Tail(a))
<1>1. PICK k : k = Ordered
  OBVIOUS
<1>2. /\ k \in Seq(Ids) /\ Distinct(k)
      /\ \A n \in DOMAIN k : events[k[n]] # NoProcess /\ InSpecs(k[n])
      /\ \E n \in DOMAIN k : k[n] = i
  BY <1>1, OrderedIs DEF Distinct, IsIn
<1>3. CASE strategy = "one_for_all"
  BY <1>1, <1>2, <1>3 DEF Affected, Behind
<1>4. CASE strategy # "one_for_all"
  <2>1. PICK p \in DOMAIN k : p = CHOOSE n \in DOMAIN k : k[n] = i
    BY <1>2
  <2>2. PICK L \in Nat : Len(k) = L /\ DOMAIN k = 1..L
    BY <1>2
  <2>3. a = SubSeq(k, p, L)
    BY <1>1, <1>4, <2>1, <2>2 DEF Affected
  <2>4. /\ a \in Seq(Ids) /\ Len(a) = L - p + 1
        /\ \A n \in 1..(L - p + 1) : a[n] = k[p + n - 1]
    <3>1. p \in 1..L /\ \A n \in p..L : k[n] \in Ids
      BY <1>2, <2>2
    <3> QED
      BY <2>3, <3>1, SubSeqProperties
  <2>5. DOMAIN a = 1..(L - p + 1) /\ a # <<>>
    BY <2>2, <2>4
  <2>6. \A n \in DOMAIN a : p + n - 1 \in DOMAIN k /\ a[n] = k[p + n - 1]
    <3> SUFFICES ASSUME NEW n \in DOMAIN a PROVE p + n - 1 \in DOMAIN k /\ a[n] = k[p + n - 1]
      OBVIOUS
    <3>1. p \in 1..L /\ n \in 1..(L - p + 1)
      BY <2>2, <2>5
    <3>2. p + n - 1 \in 1..L
      BY <3>1
    <3> QED
      BY <2>2, <2>4, <3>1, <3>2
  <2>7. Distinct(a)
    <3> SUFFICES ASSUME NEW m \in DOMAIN a, NEW n \in DOMAIN a, a[m] = a[n] PROVE m = n
      BY DEF Distinct
    <3>1. p + m - 1 = p + n - 1
      BY <1>2, <2>6 DEF Distinct
    <3> QED
      BY <2>2, <2>5, <3>1
  <2>8. \A n \in DOMAIN a : events[a[n]] # NoProcess /\ InSpecs(a[n])
    <3> SUFFICES ASSUME NEW n \in DOMAIN a, NEW j, j = a[n] PROVE events[j] # NoProcess /\ InSpecs(j)
      OBVIOUS
    <3>1. PICK q \in DOMAIN k : j = k[q]
      BY <2>6
    <3> QED
      BY <1>2, <3>1
  <2> QED
    BY <1>4, <2>4, <2>5, <2>7, <2>8 DEF Behind
<1> QED
  BY <1>3, <1>4

LEMMA RestartedKeepsInv ==
  ASSUME GroupInv, NEW i \in Ids, Restarted(i) PROVE GroupInv'
<1>1. /\ Base /\ Types /\ NoTwice /\ mgr.at = "watching" /\ ~terminating /\ IsIn(i, Ordered)
      /\ UNCHANGED <<sup, terminating, todo, snapshot, children, specs, id, at, gen, child, redone, events>>
  BY DEF GroupInv, Base, Restarted, Matters, FirstStop, supvars, dicts, tasks, procs
<1>2. PICK a : a = Affected(i)
  OBVIOUS
<1>3. PICK b : b = Behind(i)
  OBVIOUS
<1>4. PICK p : p = StopOrder(b)
  OBVIOUS
<1>5. PICK r : r = StopOrder(a)
  OBVIOUS
<1>6. PICK left : left = p \o r
  OBVIOUS
<1>7. Batch(a, left, TRUE)
  BY <1>2, <1>3, <1>4, <1>5, <1>6 DEF Restarted
<1>8. /\ a \in Seq(Ids) /\ Distinct(a)
      /\ \A n \in DOMAIN a : events[a[n]] # NoProcess /\ InSpecs(a[n])
      /\ b = <<>> \/ (a # <<>> /\ b = Tail(a))
  BY <1>1, <1>2, <1>3, AffectedIs
<1>9. r \in Seq(Ids) /\ GoesDown(r, a)
  BY <1>5, <1>8, ReverseGoesDown
<1>10. p \in Seq(Ids) /\ GoesDown(p, a)
  <2>1. CASE b = <<>>
    <3>1. b \in Seq(Ids) /\ Distinct(b) /\ DOMAIN b = {}
      BY <2>1, EmptySeq DEF Distinct
    <3>2. p \in Seq(Ids) /\ DOMAIN p = {}
      BY <1>4, <3>1, ReverseGoesDown
    <3> QED
      BY <3>2 DEF GoesDown
  <2>2. CASE a # <<>> /\ b = Tail(a)
    BY <1>4, <1>8, <2>2, TailGoesDown
  <2> QED
    BY <1>8, <2>1, <2>2
<1>11. left \in Seq(Ids) /\ GoesDown(left, a)
  BY <1>6, <1>8, <1>9, <1>10, BothGoDown
<1>12. specs' \in Seq(Ids) /\ NoTwice' /\ \A j : InSpecs(j)' <=> InSpecs(j)
  BY <1>1 DEF Types, NoTwice, InSpecs
<1>13. \A t \in Tasks : at[t] = "starting" /\ id[t] \notin redone /\ InSpecs(id[t])
           => \E n \in DOMAIN specs' : specs'[n] = id[t]
  BY <1>1 DEF InSpecs
<1>14. \A j \in Ids \ redone : InSpecs(j) /\ children[j] # None =>
           InSpecs(j)' \/ (~TRUE /\ \E n \in DOMAIN a : a[n] = j)
  BY <1>12
<1>15. \A n \in DOMAIN a : TRUE => InSpecs(a[n])'
  BY <1>1, <1>8 DEF InSpecs
<1>16. \A n \in DOMAIN a : a[n] \notin redone /\ ~Ended(events[a[n]]) => InSpecs(a[n])'
  BY <1>15
<1> QED
  BY <1>1, <1>7, <1>8, <1>11, <1>12, <1>13, <1>14, <1>15, <1>16, BatchKeepsInv

(* It stops the next child. *)
LEMMA StopsKeepsInv ==
  ASSUME GroupInv, ManagerStops PROVE GroupInv'
<1>1. /\ Base /\ Types /\ Started /\ NoTwice /\ GroupTypes /\ Phases /\ EventInv /\ StartInv /\ OrderInv
      /\ mgr.at = "stopping" /\ DOMAIN mgr.left = 1..Len(mgr.left) /\ Len(mgr.left) \in Nat
      /\ UNCHANGED <<sup, wait, terminating, todo, snapshot, specs, children, id, at, gen, redone, events>>
  BY DEF GroupInv, Base, ManagerStops, GroupTypes, supvars, dicts, tasks
<1>2. PICK n \in DOMAIN mgr.left :
         /\ NextToStop(n)
         /\ BrutalKill(children[mgr.left[n]]) \/ StopSent(children[mgr.left[n]])
         /\ mgr' = [mgr EXCEPT !.left = SubSeq(@, n + 1, Len(@)),
                               !.at = "awaiting", !.wait = Proc(children[mgr.left[n]])]
  BY DEF ManagerStops
<1>3. PICK t : t = children[mgr.left[n]]
  OBVIOUS
<1>4. PICK rest : rest = SubSeq(mgr.left, n + 1, Len(mgr.left))
  OBVIOUS
<1>5. mgr' = [mgr EXCEPT !.left = rest, !.at = "awaiting", !.wait = Proc(t)]
  BY <1>1, <1>2, <1>3, <1>4 DEF GroupTypes
<1>6. mgr.left[n] \in Ids /\ NeedsStop(mgr.left[n]) /\ (BrutalKill(t) \/ StopSent(t))
  BY <1>1, <1>2, <1>3 DEF NextToStop, GroupTypes
<1>7. t \in Tasks /\ id[t] = mgr.left[n] /\ gen[t] \in Nat \ {0} /\ child[t] \in Runs
  BY <1>1, <1>3, <1>6, EntryRuns DEF NeedsStop
<1>8. Proc(t) \in Real /\ Proc(t).task = t /\ Proc(t).gen = gen[t]
  BY <1>7 DEF Proc, Real
<1>9. /\ child' \in [Tasks -> Runs \cup {"none", "stopped"}]
      /\ \A u \in Tasks : child'[u] = child[u] \/ (child[u] \in Runs /\ child'[u] # "none")
  BY <1>1, <1>6, <1>7, Told
<1>10. /\ rest \in Seq(Ids) /\ Len(rest) = Len(mgr.left) - n
       /\ \A k \in DOMAIN rest : n + k \in DOMAIN mgr.left /\ rest[k] = mgr.left[n + k] /\ k > 0
  <2>1. PICK L \in Nat : Len(mgr.left) = L /\ DOMAIN mgr.left = 1..L
    BY <1>1
  <2>2. n \in 1..L /\ \A k \in 1..L : mgr.left[k] \in Ids
    BY <1>1, <2>1 DEF GroupTypes
  <2>3. /\ rest \in Seq(Ids) /\ Len(rest) = L - n
        /\ \A k \in 1..(L - n) : rest[k] = mgr.left[n + k]
    <3>1. rest = SubSeq(mgr.left, n + 1, L)
      BY <1>4, <2>1
    <3>2. \A k \in (n + 1)..L : mgr.left[k] \in Ids
      BY <2>2
    <3>3. /\ rest \in Seq(Ids) /\ Len(rest) = IF n + 1 <= L THEN L - (n + 1) + 1 ELSE 0
          /\ \A k \in 1..(L - (n + 1) + 1) : rest[k] = mgr.left[(n + 1) + k - 1]
      BY <2>2, <3>1, <3>2, SubSeqProperties
    <3>4. L - (n + 1) + 1 = L - n /\ \A k \in 1..(L - n) : (n + 1) + k - 1 = n + k
      BY <2>2
    <3> QED
      BY <2>2, <3>3, <3>4
  <2>4. DOMAIN rest = 1..(L - n)
    BY <2>3
  <2>5. \A k \in 1..(L - n) : n + k \in 1..L /\ k > 0
    BY <2>2
  <2> QED
    BY <2>1, <2>3, <2>4, <2>5
<1>11. /\ mgr'.at = "awaiting" /\ mgr'.left = rest /\ mgr'.wait = Proc(t) /\ mgr'.batch = mgr.batch
       /\ mgr'.again = mgr.again /\ Old' = Old /\ Joining' = Joining
  BY <1>1, <1>5 DEF GroupTypes
<1>12. Types' /\ NoTwice' /\ GroupTypes' /\ Phases'
  <2>1. Types'
    BY <1>1, <1>9 DEF Types
  <2>2. NoTwice'
    BY <1>1 DEF NoTwice
  <2>3. GroupTypes'
    BY <1>1, <1>5, <1>8, <1>10 DEF GroupTypes
  <2>4. Phases'
    BY <1>1, <1>7, <1>8, <1>11 DEF Phases
  <2> QED
    BY <2>1, <2>2, <2>3, <2>4
<1>13. Started'
  BY <1>1, <1>9 DEF Started, Runs
<1>14. \A w \in Real : Ended(w) => Ended(w)'
  <2>1. \A u \in Tasks : gen'[u] = gen[u] /\ (child[u] = "stopped" => child'[u] = "stopped")
    BY <1>1, <1>9 DEF Runs
  <2> QED
    BY <1>1, <1>12, <2>1, EndedStays
<1>15. \A w \in Old \cup Joining : w \in Real
  BY <1>1 DEF GroupTypes
<1>16. EventsKnown' /\ OnlyWatchedRun'
  <2>1. \A u \in Tasks : Running(u)' => Running(u)
    BY <1>9 DEF Running, Runs
  <2>2. ManagerRuns
    BY <1>1 DEF ManagerRuns
  <2> QED
    BY <1>1, <1>14, <2>1, <2>2 DEF EventInv, EventsKnown, OnlyWatchedRun, Underway, GroupTypes
<1>17. BatchIsAwaited'
  BY <1>1, <1>11, <1>14, <1>15 DEF EventInv, BatchIsAwaited, Stopping
<1>18. StartInv'
  <2>1. \A j : (Dropping(j)' <=> Dropping(j)) /\ (InBatch(j)' <=> InBatch(j)) /\ Busy /\ ManagerRuns
    BY <1>1, <1>11 DEF Dropping, InBatch, Busy, ManagerRuns
  <2> QED
    BY <1>1, <1>11, <2>1 DEF StartInv, StartsKnown, EntriesHaveSpecs, WatchKnown, JoiningKnown, InSpecs
<1>19. \A w \in Old : Tidy(w)' => Tidy(w)
  BY <1>1, <1>11, <1>14, <1>15 DEF Tidy
<1>20. RunInTable' /\ TerminateFinds'
  BY <1>1, <1>11, <1>19 DEF OrderInv, RunInTable, TerminateFinds, Stopping, Proc, InSpecs
(* Who is in the table and has not stopped would be the next, *)
<1>21. ASSUME NEW w \in Old, Tidy(w)
       PROVE  /\ w = Proc(w.task) /\ children[id[w.task]] = w.task /\ NeedsStop(id[w.task])
              /\ \A l \in 1..(n - 1) : mgr.left[l] # id[w.task]
              /\ mgr.left[n] = id[w.task] => w = Proc(t)
  <2>1. w = Proc(w.task) /\ id[w.task] \in Ids /\ children[id[w.task]] = w.task /\ w.task \in Tasks
    BY <1>1, <1>15, <1>21 DEF OrderInv, RunInTable, Stopping, Real
  <2>2. child[w.task] # "stopped"
    <3>1. w.gen = gen[w.task] /\ gen[w.task] \in Nat
      BY <1>1, <2>1 DEF Proc, Types
    <3> QED
      BY <1>21, <3>1 DEF Tidy, Ended, HasStopped
  <2>3. w.task # None
    BY <2>1, SupervisorAssumption DEF Tasks
  <2>4. NeedsStop(id[w.task])
    BY <2>1, <2>2, <2>3 DEF NeedsStop
  <2>5. \A l \in 1..(n - 1) : ~NeedsStop(mgr.left[l])
    BY <1>2 DEF NextToStop
  <2>6. \A l \in 1..(n - 1) : mgr.left[l] # id[w.task]
    BY <2>4, <2>5
  <2> QED
    BY <1>3, <2>1, <2>4, <2>6
(* and whose spec is later comes before. *)
<1>22. ASSUME NEW k \in DOMAIN mgr.left, NEW m \in DOMAIN mgr.batch, NEW p \in DOMAIN mgr.batch, m < p,
              mgr.left[k] = mgr.batch[m], NEW w \in Old, Tidy(w), id[w.task] = mgr.batch[p]
       PROVE  \E l \in n..(k - 1) : mgr.left[l] = mgr.batch[p]
  <2>1. (\E l \in 1..(k - 1) : mgr.left[l] = mgr.batch[p]) \/ DealtWith(mgr.batch[p])
    BY <1>1, <1>22 DEF OrderInv, LeftInOrder, Stopping
  <2>2. ~DealtWith(mgr.batch[p])
    BY <1>1, <1>22 DEF DealtWith
  <2>3. PICK l \in 1..(k - 1) : mgr.left[l] = mgr.batch[p]
    BY <2>1, <2>2
  <2>4. l \notin 1..(n - 1)
    BY <1>21, <1>22, <2>3
  <2>5. n \in Nat /\ l \in Nat /\ k \in Nat
    BY <1>1, <2>3
  <2>6. l \in n..(k - 1)
    BY <2>3, <2>4, <2>5
  <2> QED
    BY <2>3, <2>6
<1>23. LeftInOrder'
  <2> SUFFICES ASSUME NEW k \in DOMAIN rest, NEW m \in DOMAIN mgr.batch, NEW p \in DOMAIN mgr.batch,
                      m < p, rest[k] = mgr.batch[m],
                      NEW w \in Old, Tidy(w)', id[w.task] = mgr.batch[p], w # Proc(t)
               PROVE  \E l \in 1..(k - 1) : rest[l] = mgr.batch[p]
    BY <1>1, <1>11 DEF LeftInOrder, DealtWith
  <2>1. Tidy(w)
    BY <1>19
  <2>2. PICK q \in DOMAIN mgr.left : q = n + k /\ mgr.left[q] = mgr.batch[m]
    BY <1>10
  <2>3. PICK l \in n..(q - 1) : mgr.left[l] = mgr.batch[p]
    BY <1>22, <2>1, <2>2
  <2>4. l # n
    BY <1>21, <2>1, <2>3
  <2>5. PICK h : h = l - n
    OBVIOUS
  <2>6. n \in Nat /\ k \in Nat
    BY <1>1, <1>10
  <2>7. h \in 1..(k - 1) /\ n + h = l
    BY <2>2, <2>3, <2>4, <2>5, <2>6
  <2>8. h \in DOMAIN rest
    BY <1>10, <2>6, <2>7
  <2> QED
    BY <1>10, <2>3, <2>7, <2>8
<1>24. OneAfterAnother'
  <2> SUFFICES ASSUME NEW m \in DOMAIN mgr.batch, NEW p \in DOMAIN mgr.batch, m < p,
                      mgr.batch[m] = mgr.left[n],
                      NEW w \in Old, Tidy(w)', id[w.task] = mgr.batch[p]
               PROVE  FALSE
    BY <1>1, <1>7, <1>8, <1>11 DEF OneAfterAnother
  <2>1. \E l \in n..(n - 1) : mgr.left[l] = mgr.batch[p]
    BY <1>19, <1>22
  <2>2. n \in Nat
    BY <1>1
  <2> QED
    BY <2>1, <2>2
<1> QED
  BY <1>12, <1>13, <1>16, <1>17, <1>18, <1>20, <1>23, <1>24 DEF GroupInv, Base, EventInv, OrderInv

(* The one it waited for has stopped. *)
LEMMA StoppedKeepsInv ==
  ASSUME GroupInv, ManagerStopped PROVE GroupInv'
<1>1. /\ Base /\ Types /\ Started /\ NoTwice /\ GroupTypes /\ Phases /\ EventInv /\ StartInv /\ OrderInv
      /\ mgr.at = "awaiting" /\ mgr.wait \in Real /\ gen[mgr.wait.task] >= mgr.wait.gen
      /\ HasStopped(mgr.wait)
      /\ mgr' = [mgr EXCEPT !.at = "stopping", !.wait = NoProcess]
      /\ UNCHANGED <<sup, wait, terminating, todo, snapshot, specs, children, id, at, gen, child,
                     redone, events>>
  BY DEF GroupInv, Base, Phases, ManagerStopped, vars, supvars, dicts, tasks, procs
<1>2. /\ mgr'.at = "stopping" /\ mgr'.left = mgr.left /\ mgr'.batch = mgr.batch
      /\ mgr'.again = mgr.again /\ Old' = Old /\ Joining' = Joining
  BY <1>1 DEF GroupTypes
<1>3. Types' /\ Started' /\ NoTwice' /\ GroupTypes' /\ Phases'
  BY <1>1, <1>2 DEF Types, Started, NoTwice, GroupTypes, Phases
<1>4. \A w : (Ended(w)' <=> Ended(w)) /\ (Tidy(w)' <=> Tidy(w))
  BY <1>1, <1>2 DEF Ended, HasStopped, Tidy
<1>5. EventInv'
  BY <1>1, <1>2, <1>4 DEF EventInv, EventsKnown, OnlyWatchedRun, BatchIsAwaited, ManagerRuns,
     Running, Underway, Stopping
<1>6. StartInv'
  <2>1. \A j : (Dropping(j)' <=> Dropping(j)) /\ (InBatch(j)' <=> InBatch(j)) /\ Busy /\ ManagerRuns
    BY <1>1, <1>2 DEF Dropping, InBatch, Busy, ManagerRuns
  <2> QED
    BY <1>1, <1>2, <2>1 DEF StartInv, StartsKnown, EntriesHaveSpecs, WatchKnown, JoiningKnown, InSpecs
<1>7. RunInTable' /\ TerminateFinds'
  BY <1>1, <1>2, <1>4 DEF OrderInv, RunInTable, TerminateFinds, Stopping, Proc, InSpecs
<1>8. LeftInOrder'
  <2>1. Ended(mgr.wait)
    BY <1>1 DEF Ended
  <2>2. \A i : DealtWith(i) => DealtWith(i)'
    BY <1>1, <1>2, <1>4, <2>1 DEF DealtWith, Tidy
  <2> QED
    BY <1>1, <1>2, <2>2 DEF OrderInv, LeftInOrder, Stopping
<1>9. OneAfterAnother'
  BY <1>2 DEF OneAfterAnother
<1> QED
  BY <1>3, <1>5, <1>6, <1>7, <1>8, <1>9 DEF GroupInv, Base, OrderInv

(* It waits for the events of these ids. *)
LEMMA WaitKeepsInv ==
  ASSUME GroupInv, mgr.at \in {"stopping", "draining"}, UNCHANGED <<vars, events>>,
         NEW ids \in Seq(Ids), mgr' = Drains(ids),
         \A w \in Old \cup Joining : Ended(w) \/ \E n \in DOMAIN ids : events[ids[n]] = w
  PROVE  GroupInv'
<1>1. /\ Base /\ Types /\ Started /\ NoTwice /\ GroupTypes /\ Phases /\ EventInv /\ StartInv
      /\ UNCHANGED <<sup, wait, terminating, todo, snapshot, specs, children, id, at, gen, child,
                     redone, events>>
  BY DEF GroupInv, Base, vars, supvars, dicts, tasks, procs
<1>2. PICK w : w = IF ids = <<>> THEN NoProcess ELSE events[Head(ids)]
  OBVIOUS
<1>3. mgr' = [mgr EXCEPT !.at = "draining", !.left = ids, !.wait = w]
  BY <1>2 DEF Drains
<1>4. w \in Real \cup {NoProcess} /\ \A n \in DOMAIN ids : n = 1 => w = events[ids[n]]
  BY <1>1, <1>2 DEF GroupTypes
<1>5. /\ mgr'.at = "draining" /\ mgr'.left = ids /\ mgr'.wait = w /\ mgr'.batch = mgr.batch
      /\ mgr'.again = mgr.again /\ Old' = Old /\ Joining' = Joining
  BY <1>1, <1>3 DEF GroupTypes
<1>6. GroupTypes'
  BY <1>1, <1>3, <1>4, ZenonT(60) DEF GroupTypes
<1>7. Types' /\ Started' /\ NoTwice' /\ Phases'
  BY <1>1, <1>5 DEF Types, Started, NoTwice, Phases
<1>8. \A u : Ended(u)' <=> Ended(u)
  BY <1>1 DEF Ended, HasStopped
<1>9. EventsKnown' /\ OnlyWatchedRun'
  BY <1>1, <1>5, <1>8 DEF EventInv, EventsKnown, OnlyWatchedRun, ManagerRuns, Running, Underway
<1>10. BatchIsAwaited'
  BY <1>1, <1>4, <1>5, <1>8 DEF BatchIsAwaited, Stopping
<1>11. StartInv'
  <2>1. \A j : (Dropping(j)' <=> Dropping(j)) /\ (InBatch(j)' <=> InBatch(j)) /\ Busy /\ ManagerRuns
    BY <1>1, <1>5 DEF Dropping, InBatch, Busy, ManagerRuns
  <2> QED
    BY <1>1, <1>5, <2>1 DEF StartInv, StartsKnown, EntriesHaveSpecs, WatchKnown, JoiningKnown, InSpecs
<1>12. OrderInv'
  BY <1>5 DEF OrderInv, RunInTable, TerminateFinds, LeftInOrder, OneAfterAnother, Stopping
<1> QED
  BY <1>6, <1>7, <1>9, <1>10, <1>11, <1>12 DEF GroupInv, Base, EventInv

(* It has told all, or the event it waited for is set. *)
LEMMA DrainsKeepInv ==
  ASSUME GroupInv, ManagerDrains PROVE GroupInv'
<1>1. /\ Base /\ GroupTypes /\ EventInv /\ BatchIsAwaited /\ OnlyWatchedRun
      /\ UNCHANGED <<vars, events>> /\ Drain
  BY DEF GroupInv, Base, EventInv, ManagerDrains
<1>2. CASE AllTold /\ mgr' = Drains(mgr.batch)
  <2>1. mgr.batch \in Seq(Ids) /\ mgr.at = "stopping" /\ Stopping
    BY <1>1, <1>2 DEF GroupTypes, AllTold, Stopping
  <2>2. \A w \in Old \cup Joining :
            Ended(w) \/ \E n \in DOMAIN mgr.batch : events[mgr.batch[n]] = w
    BY <1>1, <2>1 DEF BatchIsAwaited
  <2> QED
    BY <1>1, <1>2, <2>1, <2>2, WaitKeepsInv
<1>3. CASE /\ mgr.at = "draining" /\ mgr.left # <<>>
           /\ mgr.wait # NoProcess => IsSet(mgr.wait)
           /\ mgr' = Drains(Tail(mgr.left))
  <2>1. PICK rest : rest = Tail(mgr.left)
    OBVIOUS
  <2>2. PICK L \in Nat : Len(mgr.left) = L /\ DOMAIN mgr.left = 1..L
    BY <1>1 DEF GroupTypes
  <2>3. /\ rest \in Seq(Ids) /\ DOMAIN rest = 1..(L - 1)
        /\ \A n \in 1..(L - 1) : rest[n] = mgr.left[n + 1]
    BY <1>1, <1>3, <2>1, <2>2, HeadTailProperties DEF GroupTypes
  <2>4. ASSUME NEW w \in Old \cup Joining, ~Ended(w)
        PROVE  \E n \in DOMAIN rest : events[rest[n]] = w
    <3>1. w \in Real /\ w # NoProcess
      BY <1>1 DEF GroupTypes, Real, NoProcess
    <3>2. PICK n \in DOMAIN mgr.left : events[mgr.left[n]] = w /\ (n = 1 => mgr.wait = w)
      BY <1>1, <1>3, <2>4 DEF BatchIsAwaited
    <3>3. ~IsSet(w)
      BY <1>1, <1>3, <2>4, <3>1, SetIsEnded DEF ManagerRuns
    <3>4. n # 1
      BY <1>3, <3>1, <3>2, <3>3
    <3>5. PICK k : k = n - 1
      OBVIOUS
    <3>6. k \in 1..(L - 1) /\ n = k + 1
      BY <2>2, <3>2, <3>4, <3>5
    <3> QED
      BY <2>3, <3>2, <3>6
  <2>5. mgr' = Drains(rest) /\ mgr.at \in {"stopping", "draining"}
    BY <1>3, <2>1
  <2>6. \A w \in Old \cup Joining : Ended(w) \/ \E n \in DOMAIN rest : events[rest[n]] = w
    BY <2>4
  <2>7. rest \in Seq(Ids) /\ UNCHANGED <<vars, events>>
    BY <1>1, <2>3
  <2> QED
    BY <2>5, <2>6, <2>7, WaitKeepsInv
<1> QED
  BY <1>1, <1>2, <1>3 DEF Drain

(* It starts the batch again. *)
LEMMA StartsKeepInv ==
  ASSUME GroupInv, ManagerStarts PROVE GroupInv'
<1> DEFINE S == ToSet(mgr.batch)
           starts == IF mgr.again THEN S \cap ToSet(specs) ELSE {}
<1>1. /\ Base /\ Types /\ Started /\ NoTwice /\ GroupTypes /\ Phases /\ EventInv /\ StartInv
      /\ mgr.at = "draining" /\ mgr.left = <<>>
      /\ children' = Popped(S) /\ Schedule(starts, S)
      /\ mgr' = [mgr EXCEPT !.at = "starting",
                            !.watch = [i \in Ids |-> IF i \in starts THEN events'[i] ELSE NoProcess]]
      /\ UNCHANGED <<sup, wait, terminating, todo, snapshot, specs, gen, child, redone>>
  BY DEF GroupInv, Base, ManagerStarts, supvars, procs
<1>2. \A i : (i \in S <=> InBatch(i)) /\ (i \in starts <=> mgr.again /\ InBatch(i) /\ InSpecs(i))
  BY DEF InBatch, InSpecs, ToSet
<1>3. starts \in SUBSET Ids /\ starts \subseteq S /\ IsFiniteSet(starts)
  <2>1. IsFiniteSet(S)
    <3>1. PICK L \in Nat : DOMAIN mgr.batch = 1..L
      BY <1>1 DEF GroupTypes
    <3>2. PICK f : f = [n \in 1..L |-> mgr.batch[n]]
      OBVIOUS
    <3>3. f \in Surjection(1..L, S)
      BY <3>1, <3>2 DEF Surjection, ToSet
    <3>4. IsFiniteSet(1..L)
      BY FS_Interval
    <3> QED
      BY <3>3, <3>4, FS_Surjection
  <2>2. starts \in SUBSET S
    OBVIOUS
  <2>3. S \subseteq Ids
    BY <1>1 DEF GroupTypes, ToSet
  <2> QED
    BY <2>1, <2>2, <2>3, FS_Subset
<1> HIDE DEF S, starts
<1>4. Scheduled(starts, S)
  BY <1>1, <1>3, ScheduleWorks
<1>5. /\ id' \in [Tasks -> Ids \cup {None}]
      /\ at' \in [Tasks -> {"none", "starting", "watching", "done"}]
      /\ events' \in [Ids -> Real \cup {NoProcess}]
  BY <1>4 DEF Scheduled
<1>6. /\ mgr'.at = "starting" /\ Old' = Old /\ Joining' = Joining
  BY <1>1 DEF GroupTypes
<1>7. ManagerRuns /\ Busy /\ ManagerRuns' /\ ~Busy' /\ ~Stopping' /\ \A j : ~Dropping(j)'
  BY <1>1, <1>6 DEF ManagerRuns, Busy, Stopping, Dropping
<1>8. /\ \A t \in Tasks : at[t] \in {"starting", "watching"} => id'[t] = id[t] /\ at'[t] = at[t]
      /\ children' \in [Ids -> Tasks \cup {None}]
      /\ Started' /\ EventsKnown' /\ OnlyWatchedRun'
  BY <1>1, <1>3, <1>4, <1>7, StartsKeepBase
<1>9. Types' /\ NoTwice' /\ Phases'
  BY <1>1, <1>5, <1>6, <1>8 DEF Types, NoTwice, Phases
<1>10. GroupTypes'
  <2>1. PICK w : w = [i \in Ids |-> IF i \in starts THEN events'[i] ELSE NoProcess]
    OBVIOUS
  <2>2. w \in [Ids -> Real \cup {NoProcess}] /\ mgr' = [mgr EXCEPT !.at = "starting", !.watch = w]
    BY <1>1, <1>5, <2>1
  <2> QED
    BY <1>1, <1>5, <2>2 DEF GroupTypes
<1>11. \A w \in Old \cup Joining : Ended(w)
  BY <1>1 DEF EventInv, BatchIsAwaited
<1>12. BatchIsAwaited'
  <2>1. \A w : Ended(w)' <=> Ended(w)
    BY <1>1 DEF Ended, HasStopped
  <2> QED
    BY <1>6, <1>7, <1>11, <2>1 DEF BatchIsAwaited
<1>13. \A j \in Ids : /\ j \in S => children'[j] = None
                      /\ j \notin S => children'[j] = children[j] /\ ~Dropping(j)
  BY <1>1, <1>2 DEF Popped, Dropping
(* No start of an id of the batch is under way. *)
<1>14. ASSUME NEW t \in Tasks, at[t] = "starting", NEW k, k = id[t], k \notin redone
       PROVE  k \in Ids /\ k \notin starts
  <2>1. k \in Ids
    BY <1>1, <1>14 DEF Started
  <2>2. ASSUME k \in starts PROVE FALSE
    <3>1. New(t) \in Joining
      BY <1>1, <1>2, <1>7, <1>14, <2>1, <2>2 DEF StartInv, JoiningKnown, New
    <3>2. gen[t] \in Nat /\ New(t).task = t /\ New(t).gen = gen[t] + 1
      BY <1>1 DEF Types, New
    <3>3. Ended(New(t))
      BY <1>11, <3>1
    <3> QED
      BY <3>2, <3>3 DEF Ended
  <2> QED
    BY <2>1, <2>2
<1>15. \A t \in Tasks : at'[t] = "starting" =>
          \/ at[t] = "starting" /\ id'[t] = id[t]
          \/ id'[t] \in starts /\ events'[id'[t]] = New(t)
  BY <1>4 DEF Scheduled
<1>16. StartsKnown'
  <2> SUFFICES ASSUME NEW t \in Tasks, at'[t] = "starting", NEW k, k = id'[t], k \notin redone
               PROVE  /\ InSpecs(k)
                      /\ events'[k] \in {NoProcess, New(t)}
                      /\ children'[k] = None
                      /\ \A u \in Tasks : at'[u] = "starting" /\ id'[u] = k => u = t
    BY <1>1 DEF StartsKnown, New, InSpecs
  <2>1. CASE k \in starts
    <3>1. \A u \in Tasks : at'[u] = "starting" /\ id'[u] = k => events'[k] = New(u)
      BY <1>14, <1>15, <2>1
    <3>2. events'[k] = New(t) /\ k \in Ids
      BY <1>3, <2>1, <3>1
    <3>3. \A u \in Tasks : New(u) = New(t) => u = t
      BY DEF New
    <3>4. InSpecs(k) /\ children'[k] = None
      BY <1>2, <1>3, <1>13, <2>1, <3>2
    <3> QED
      BY <3>1, <3>2, <3>3, <3>4
  <2>2. CASE k \notin starts
    <3>1. at[t] = "starting" /\ id[t] = k /\ k \in Ids
      BY <1>14, <1>15, <2>2
    <3>2. /\ InSpecs(k) /\ events[k] \in {NoProcess, New(t)} /\ (children[k] = None \/ Dropping(k))
          /\ \A u \in Tasks : at[u] = "starting" /\ id[u] = k => u = t
      BY <1>1, <1>7, <3>1 DEF StartInv, StartsKnown, New
    <3>3. events'[k] \in {NoProcess, events[k]}
      BY <1>4, <2>2, <3>1 DEF Scheduled
    <3>4. \A u \in Tasks : at'[u] = "starting" /\ id'[u] = k => u = t
      BY <1>15, <2>2, <3>2
    <3> QED
      BY <1>13, <3>1, <3>2, <3>3, <3>4
  <2> QED
    BY <2>1, <2>2
<1>17. EntriesHaveSpecs'
  BY <1>1, <1>7, <1>13 DEF StartInv, EntriesHaveSpecs, InSpecs
<1>18. WatchKnown' /\ JoiningKnown' /\ OrderInv'
  BY <1>6, <1>7 DEF WatchKnown, JoiningKnown, OrderInv, RunInTable, TerminateFinds, LeftInOrder,
     OneAfterAnother
<1> QED
  BY <1>8, <1>9, <1>10, <1>12, <1>16, <1>17, <1>18 DEF GroupInv, Base, EventInv, StartInv

-----------------------------------------------------------------------------
(* The theorems. *)

(* Each step keeps the invariant. *)
LEMMA GroupStepsKeepInv ==
  ASSUME GroupInv, [GNext]_gvars PROVE GroupInv'
<1>1. CASE ManagerStep
  <2>1. ASSUME NEW i \in Ids, Ignored(i) \/ Dropped(i) \/ Restarted(i) \/ GroupRestartsExceeded(i)
        PROVE  GroupInv'
    BY <2>1, IgnoredKeepsInv, DroppedKeepsInv, RestartedKeepsInv, EndsKeepInv
  <2> QED
    BY <1>1, <2>1, RoundKeepsInv, StopsKeepsInv, StoppedKeepsInv, EndsKeepInv, DrainsKeepInv,
       StartsKeepInv DEF ManagerStep
<1>2. CASE GroupSupStep
  BY <1>2, RoundKeepsInv, EndsKeepInv, OwnStepsKeepInv, EndTerminateKeepsInv DEF GroupSupStep
<1>3. CASE GroupUsers
  <2>1. ASSUME AllOver, UNCHANGED group PROVE GroupInv'
    BY <2>1, ReturnsKeepInv DEF AllOver, group
  <2>2. ASSUME NEW c \in Clients, NEW i \in Ids,
               GroupStartChild(c, i) \/ GroupRestartChild(c, i) \/ GroupTerminateChild(c, i)
        PROVE  GroupInv'
    BY <2>2, StartChildKeepsInv, RestartChildKeepsInv, TerminateChildKeepsInv
  <2> QED
    BY <1>3, <2>1, <2>2, OwnStepsKeepInv, ProcessStepsKeepInv, KillsKeepInv, DeleteChildKeepsInv
       DEF GroupUsers
<1>4. ASSUME NEW t \in Tasks, GroupTaskStep(t) \/ GroupChildStep(t) PROVE GroupInv'
  BY <1>4, StartedKeepsInv, EndsKeepInv, SuperviseEndsKeepsInv, ProcessStepsKeepInv
     DEF GroupTaskStep, GroupChildStep
<1>5. CASE (\E c \in Clients : GroupReturns(c)) \/ UNCHANGED gvars
  BY <1>5, ReturnsKeepInv DEF gvars, group
<1> QED
  BY <1>1, <1>2, <1>3, <1>4, <1>5 DEF GNext

(* It holds at first: each seed has a task, which is to start it. *)
LEMMA GroupInvAtFirst == GInit => GroupInv
<1> SUFFICES ASSUME GInit PROVE GroupInv
  OBVIOUS
<1>1. PICK S \in SUBSET Tasks : S = {t \in Tasks : SeededBy(t)}
  OBVIOUS
<1>2. InitAt("seeding", S) /\ \A t \in Tasks : t \in S <=> SeededBy(t)
  BY <1>1 DEF GInit, Init
<1>3. Types /\ Started
  BY <1>2, InitIsCore DEF Core
<1>4. PICK L \in Nat : /\ Len(Seeds) = L /\ DOMAIN Seeds = 1..L /\ L <= MaxTasks /\ MaxTasks \in Nat
                       /\ \A n \in 1..L : Seeds[n] \in Ids
                       /\ \A m, n \in 1..L : Seeds[m] = Seeds[n] => m = n
  BY SupervisorAssumption
<1>5. /\ sup = "seeding" /\ specs = Seeds
      /\ \A t \in Tasks : /\ t \in S => id[t] = Seeds[t] /\ at[t] = "starting"
                          /\ t \notin S => id[t] = None /\ at[t] = "none"
                          /\ gen[t] = 0 /\ child[t] = "none"
      /\ \A i \in Ids : children[i] = None
  BY <1>2 DEF InitAt
<1>6. NoTwice /\ \A i : InSpecs(i) <=> \E n \in 1..L : Seeds[n] = i
  BY <1>4, <1>5 DEF NoTwice, InSpecs
<1>7. \A t \in Tasks : t \in S <=> t \in 1..L
  BY <1>2, <1>4 DEF SeededBy, Tasks
<1>8. ASSUME NEW i \in Ids, NEW t \in Tasks, id[t] = i
      PROVE  t \in 1..L /\ Seeds[t] = i /\ at[t] = "starting"
  <2>1. i # None
    BY SupervisorAssumption
  <2> QED
    BY <1>5, <1>7, <1>8, <2>1
<1>9. ASSUME NEW t \in Tasks, at[t] = "starting"
      PROVE  /\ id[t] \in Ids /\ InSpecs(id[t])
             /\ \A u \in Tasks : id[u] = id[t] => u = t
  BY <1>4, <1>5, <1>6, <1>7, <1>8, <1>9
<1>10. ASSUME NEW i \in Ids, InSpecs(i)
       PROVE  \E t \in Tasks : id[t] = i /\ at[t] = "starting" /\ events[i] = [task |-> t, gen |-> 1]
  <2>1. PICK n \in 1..L : Seeds[n] = i
    BY <1>6, <1>10
  <2>2. n \in Tasks /\ id[n] = i
    BY <1>4, <1>5, <1>7, <2>1 DEF Tasks
  <2>3. PICK t : t = CHOOSE u \in Tasks : id[u] = i
    OBVIOUS
  <2>4. t \in Tasks /\ id[t] = i
    BY <2>2, <2>3
  <2>5. events[i] = [task |-> t, gen |-> 1]
    BY <1>10, <2>3 DEF GInit
  <2> QED
    BY <1>8, <2>4, <2>5
<1>11. \A i \in Ids : ~InSpecs(i) => events[i] = NoProcess
  BY DEF GInit
<1>12. GroupTypes
  <2>1. ASSUME NEW i \in Ids PROVE events[i] \in Real \cup {NoProcess}
    <3>1. CASE InSpecs(i)
      <4>1. PICK t \in Tasks : events[i] = [task |-> t, gen |-> 1]
        BY <1>10, <3>1
      <4> QED
        BY <4>1 DEF Real
    <3> QED
      BY <1>11, <3>1
  <2>2. events \in [Ids -> Real \cup {NoProcess}]
    <3>1. events = [i \in Ids |-> events[i]]
      BY DEF GInit
    <3> QED
      BY <2>1, <3>1
  <2>3. NoEvents \in [Ids -> Real \cup {NoProcess}] /\ <<>> \in Seq(Ids)
    BY EmptySeq DEF NoEvents
  <2> QED
    BY <2>2, <2>3 DEF GInit, GroupTypes
<1>13. mgr.at = "none"
  BY DEF GInit
<1>14. Phases
  BY <1>5, <1>13 DEF Phases
<1>15. EventsKnown /\ OnlyWatchedRun
  <2>1. OnlyWatchedRun
    BY <1>5 DEF OnlyWatchedRun, Running
  <2>2. ASSUME NEW i \in Ids, events[i] # NoProcess
        PROVE  Underway(events[i]) /\ id[events[i].task] = i
    <3>1. PICK t \in Tasks : id[t] = i /\ at[t] = "starting" /\ events[i] = [task |-> t, gen |-> 1]
      BY <1>10, <1>11, <2>2
    <3>2. gen[t] = 0
      BY <1>5
    <3> QED
      BY <3>1, <3>2 DEF Underway
  <2> QED
    BY <2>1, <2>2 DEF EventsKnown
<1>16. StartsKnown
  <2> SUFFICES ASSUME NEW t \in Tasks, at[t] = "starting"
               PROVE  /\ InSpecs(id[t])
                      /\ events[id[t]] = [task |-> t, gen |-> gen[t] + 1]
                      /\ children[id[t]] = None
                      /\ \A u \in Tasks : id[u] = id[t] => u = t
    BY DEF StartsKnown
  <2>1. id[t] \in Ids /\ InSpecs(id[t]) /\ \A u \in Tasks : id[u] = id[t] => u = t
    BY <1>9
  <2>2. PICK u \in Tasks : id[u] = id[t] /\ events[id[t]] = [task |-> u, gen |-> 1]
    BY <1>10, <2>1
  <2>3. u = t /\ gen[t] + 1 = 1
    BY <1>5, <2>1, <2>2
  <2> QED
    BY <1>5, <2>1, <2>2, <2>3
<1>17. EntriesHaveSpecs
  BY <1>5 DEF EntriesHaveSpecs
<1> QED
  BY <1>3, <1>6, <1>12, <1>13, <1>14, <1>15, <1>16, <1>17
     DEF GroupInv, Base, EventInv, StartInv, OrderInv, BatchIsAwaited, WatchKnown, JoiningKnown,
         RunInTable, TerminateFinds, LeftInOrder, OneAfterAnother, Stopping, Busy

(* A group is started again only when all processes of the old one that are  *)
(* in the hands of the manager have come and gone, whatever crashes, starts  *)
(* and shutdowns come between, for both strategies and any ids, tasks and    *)
(* calls.  What a client has taken out of those hands is exempt.             *)
THEOREM GroupRestartsTogether == GSpec => []RestartedTogether
<1>1. GInit => GroupInv
  BY GroupInvAtFirst
<1>2. GroupInv /\ [GNext]_gvars => GroupInv'
  BY GroupStepsKeepInv
<1>3. GroupInv => RestartedTogether
  BY DEF GroupInv, EventInv, BatchIsAwaited, Ended, RestartedTogether
<1> QED
  BY <1>1, <1>2, <1>3, PTL DEF GSpec

(* The manager waits for one child to stop when those of later specs in its  *)
(* batch have stopped, for any group: but for the ids given to restart_child *)
(* and delete_child and the processes that a client has taken out of the     *)
(* hands of the manager, by terminate_child above all.                       *)
THEOREM GroupStopsInReverse == GSpec => []StopsInReverse
<1>1. GInit => GroupInv
  BY GroupInvAtFirst
<1>2. GroupInv /\ [GNext]_gvars => GroupInv'
  BY GroupStepsKeepInv
<1>3. GroupInv => StopsInReverse
  <2> SUFFICES ASSUME GroupInv, mgr.at = "awaiting", ~HasStopped(mgr.wait),
                      NEW m \in DOMAIN mgr.batch, NEW n \in DOMAIN mgr.batch, m < n,
                      mgr.batch[m] = id[mgr.wait.task],
                      NEW w \in Old, id[w.task] = mgr.batch[n], mgr.batch[n] \notin redone
               PROVE  HasStopped(w)
    BY DEF StopsInReverse
  <2>1. ~Tidy(w)
    BY DEF GroupInv, OrderInv, OneAfterAnother, Ended
  <2> QED
    BY <2>1 DEF Tidy, Ended
<1> QED
  BY <1>1, <1>2, <1>3, PTL DEF GSpec

=============================================================================
