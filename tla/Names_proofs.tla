---------------------------- MODULE Names_proofs ----------------------------
(***************************************************************************)
(* Proofs about Names, for any processes, names, registries and keys.      *)
(* The inductive invariant is IInv: an exit finds what to free through     *)
(* `reverse` and `procKeys`, so what is freed is complete only because     *)
(* those maps mirror `registry` and `entries`.                             *)
(***************************************************************************)
EXTENDS Names, TLAPS

IInv == TypeOK /\ NamesInverse /\ EntriesTracked /\ OnlyLateNamesSurvive

USE NamesAssumption

(* A runtime starts with empty maps and empty registries.                    *)
LEMMA InitIInv == Init => IInv
  BY DEF Init, IInv, TypeOK, NamesInverse, EntriesTracked, OnlyLateNamesSurvive,
         Gone, Mentions

-----------------------------------------------------------------------------
(* TypeOK *)

(* Every step keeps the types of the maps and of the entries.                *)
LEMMA TypeStep == TypeOK /\ [Next]_vars => TypeOK'
<1> SUFFICES ASSUME TypeOK, [Next]_vars PROVE TypeOK'
  OBVIOUS
<1> USE DEF TypeOK
<1>1. ASSUME NEW p \in Procs, Spawn(p) PROVE TypeOK'
  BY <1>1 DEF Spawn, names, tables
<1>2. ASSUME NEW p \in Procs, Enroll(p) PROVE TypeOK'
  BY <1>2 DEF Enroll, Named, names, tables
<1>3. ASSUME NEW p \in Procs, EnrollVia(p) PROVE TypeOK'
  <2>1. PICK r \in Registries, k \in Keys : via[p] = <<r, k>>
    BY <1>3 DEF EnrollVia, Vias
  <2>2. CASE Enter(r, k, p) /\ spawn' = [spawn EXCEPT ![p] = "done"]
    <3>1. entries' \in [Registries -> [Keys -> SUBSET Procs]]
      BY <2>2 DEF Enter, Entered
    <3>2. procKeys' \in [Procs -> SUBSET Vias] /\ late' \subseteq Procs
      BY <2>2 DEF Enter, Late, Vias
    <3> QED
      BY <1>3, <2>2, <3>1, <3>2 DEF EnrollVia, names
  <2>3. CASE UNCHANGED <<entries, procKeys, late>> /\ spawn' = [spawn EXCEPT ![p] = "failed"]
    BY <1>3, <2>3 DEF EnrollVia, names
  <2> QED
    BY <1>3, <2>1, <2>2, <2>3 DEF EnrollVia
<1>4. ASSUME NEW p \in Procs, ProcessStep(p) PROVE TypeOK'
  <2>1. CASE Started(p) \/ Exits(p) \/ InitFails(p)
    BY <2>1 DEF Started, Exits, InitFails, names, tables
  <2>2. CASE Unregister(p)
    <3>1. registry' \in [Names -> Procs \cup {None}] /\ reverse' \in [Procs -> Names \cup {None}]
      BY <2>2 DEF Unregister, Unnamed, names
    <3>2. entries' \in [Registries -> [Keys -> SUBSET Procs]]
      BY <2>2 DEF Unregister, Scrubbed
    <3> QED
      BY <2>2, <3>1, <3>2 DEF Unregister
  <2> QED
    BY <1>4, <2>1, <2>2 DEF ProcessStep
<1>5. ASSUME NEW n \in Names, NEW p \in Procs, RegisterName(n, p) PROVE TypeOK'
  BY <1>5 DEF RegisterName, Named, Late, lives, tables
<1>6. ASSUME NEW r \in Registries, NEW k \in Keys, NEW p \in Procs, Register(r, k, p)
      PROVE TypeOK'
  BY <1>6 DEF Register, Enter, Entered, Late, Vias, lives, names
<1>7. ASSUME NEW r \in Registries, NEW k \in Keys, NEW p \in Procs, Deregister(r, k, p)
      PROVE TypeOK'
  BY <1>7 DEF Deregister, Forgotten, lives, names
<1>8. ASSUME NEW n \in Names, UnregisterName(n) PROVE TypeOK'
  BY <1>8 DEF UnregisterName, Unnamed, lives, tables
<1>9. ASSUME NEW r \in Registries, NewRegistry(r) PROVE TypeOK'
  BY <1>9 DEF NewRegistry, lives, names
<1>10. ASSUME NEW r \in Registries, DropRegistry(r) PROVE TypeOK'
  BY <1>10 DEF DropRegistry, lives, names
<1>11. CASE UNCHANGED vars
  BY <1>11 DEF vars, lives, names, tables
<1> QED
  BY <1>1, <1>2, <1>3, <1>4, <1>5, <1>6, <1>7, <1>8, <1>9, <1>10, <1>11 DEF Next, AllGone

-----------------------------------------------------------------------------
(* The two maps *)

(* register_name and unregister_name keep the maps inverse to each other.    *)
LEMMA NamedKeepsInverse ==
  ASSUME TypeOK, NamesInverse, NEW n \in Names, NEW p \in Procs,
         Named(n, p)
  PROVE  NamesInverse'
  BY DEF TypeOK, NamesInverse, Named

(* unregister_name takes the pair out of both maps.                          *)
LEMMA UnnamedKeepsInverse ==
  ASSUME TypeOK, NamesInverse, NEW n \in Names, registry[n] # None, Unnamed(n)
  PROVE  NamesInverse'
  BY DEF TypeOK, NamesInverse, Unnamed

(* Every step keeps the two maps of the runtime inverse to each other.       *)
LEMMA InverseStep == TypeOK /\ NamesInverse /\ [Next]_vars => NamesInverse'
<1> SUFFICES ASSUME TypeOK, NamesInverse, [Next]_vars PROVE NamesInverse'
  OBVIOUS
<1>1. CASE UNCHANGED names
  BY <1>1 DEF names, NamesInverse
<1>2. ASSUME NEW p \in Procs, Enroll(p) PROVE NamesInverse'
  <2>1. CASE name[p] = None
    BY <1>1, <1>2, <2>1 DEF Enroll
  <2>2. CASE name[p] # None
    BY <1>2, <2>2, NamedKeepsInverse DEF Enroll, TypeOK
  <2> QED
    BY <2>1, <2>2
<1>3. ASSUME NEW p \in Procs, Unregister(p) PROVE NamesInverse'
  <2>1. CASE reverse[p] = None
    BY <1>1, <1>3, <2>1 DEF Unregister
  <2>2. CASE reverse[p] # None
    <3>1. reverse[p] \in Names /\ registry[reverse[p]] = p
      BY <2>2 DEF TypeOK, NamesInverse
    <3> QED
      BY <1>3, <2>2, <3>1, UnnamedKeepsInverse DEF Unregister
  <2> QED
    BY <2>1, <2>2
<1>4. ASSUME NEW n \in Names, NEW p \in Procs, RegisterName(n, p) PROVE NamesInverse'
  BY <1>4, NamedKeepsInverse DEF RegisterName
<1>5. ASSUME NEW n \in Names, UnregisterName(n) PROVE NamesInverse'
  BY <1>5, UnnamedKeepsInverse DEF UnregisterName
<1> QED
  BY <1>1, <1>2, <1>3, <1>4, <1>5
  DEF Next, AllGone, ProcessStep, Spawn, EnrollVia, Started, Exits, InitFails,
      Register, Deregister, NewRegistry, DropRegistry, vars

-----------------------------------------------------------------------------
(* The entries of the registries *)

(* A registration enters the key in both tables of its registry.             *)
LEMMA EnterKeepsTracked ==
  ASSUME TypeOK, EntriesTracked, NEW r \in Registries, NEW k \in Keys, NEW p \in Procs,
         Enter(r, k, p), UNCHANGED registries
  PROVE  EntriesTracked'
<1>1. \A s \in Registries, j \in Keys :
        entries'[s][j] = IF s = r /\ j = k
                         THEN IF r \in Unique THEN {p} ELSE entries[r][k] \cup {p}
                         ELSE entries[s][j]
  BY DEF Enter, Entered, TypeOK
<1>2. /\ \A q \in Procs : procKeys[q] \subseteq procKeys'[q]
      /\ <<r, k>> \in procKeys'[p]
  BY DEF Enter, TypeOK
<1>3. \A s \in Registries, j \in Keys : entries[s][j] \subseteq Procs
  BY DEF TypeOK
<1> QED
  BY <1>1, <1>2, <1>3 DEF EntriesTracked, Enter

(* What is left of the entries after the exit of p: nothing of p. *)
LEMMA ScrubbedIsComplete ==
  ASSUME TypeOK, EntriesTracked, NEW p \in Procs
  PROVE  \A r \in Registries, k \in Keys : Scrubbed(p)[r][k] = entries[r][k] \ {p}
<1> TAKE r \in Registries, k \in Keys
<1>1. Scrubbed(p)[r][k] = IF <<r, k>> \in procKeys[p] /\ r \in registries
                          THEN entries[r][k] \ {p} ELSE entries[r][k]
  BY DEF Scrubbed
<1>2. p \in entries[r][k] => <<r, k>> \in procKeys[p] /\ r \in registries
  BY DEF EntriesTracked
<1> QED
  BY <1>1, <1>2

(* Every step keeps the entries tracked by _proc_keys.                       *)
LEMMA TrackedStep == TypeOK /\ EntriesTracked /\ [Next]_vars => EntriesTracked'
<1> SUFFICES ASSUME TypeOK, EntriesTracked, [Next]_vars PROVE EntriesTracked'
  OBVIOUS
<1>1. CASE UNCHANGED tables
  BY <1>1 DEF tables, EntriesTracked
<1>2. ASSUME NEW p \in Procs, EnrollVia(p) PROVE EntriesTracked'
  <2>1. PICK r \in Registries, k \in Keys : via[p] = <<r, k>>
    BY <1>2 DEF EnrollVia, Vias, TypeOK
  <2>2. CASE Enter(r, k, p)
    BY <1>2, <2>2, EnterKeepsTracked DEF EnrollVia
  <2>3. CASE UNCHANGED <<entries, procKeys>>
    BY <1>1, <1>2, <2>3 DEF EnrollVia, tables
  <2> QED
    BY <1>2, <2>1, <2>2, <2>3 DEF EnrollVia
<1>3. ASSUME NEW p \in Procs, Unregister(p) PROVE EntriesTracked'
  <2>1. \A r \in Registries, k \in Keys : entries'[r][k] = entries[r][k] \ {p}
    BY <1>3, ScrubbedIsComplete DEF Unregister
  <2>2. /\ \A q \in Procs \ {p} : procKeys'[q] = procKeys[q]
        /\ UNCHANGED registries
    BY <1>3 DEF Unregister, TypeOK
  <2>3. \A r \in Registries, k \in Keys : entries[r][k] \subseteq Procs
    BY DEF TypeOK
  <2> QED
    BY <2>1, <2>2, <2>3, NamesAssumption DEF EntriesTracked
<1>4. ASSUME NEW r \in Registries, NEW k \in Keys, NEW p \in Procs, Register(r, k, p)
      PROVE EntriesTracked'
  BY <1>4, EnterKeepsTracked DEF Register
<1>5. ASSUME NEW r \in Registries, NEW k \in Keys, NEW p \in Procs, Deregister(r, k, p)
      PROVE EntriesTracked'
  <2>1. \A s \in Registries, j \in Keys :
          entries'[s][j] = IF s = r /\ j = k THEN entries[s][j] \ {p} ELSE entries[s][j]
    BY <1>5 DEF Deregister, TypeOK
  <2>2. /\ \A q \in Procs : procKeys'[q] = IF q = p THEN procKeys[q] \ {<<r, k>>} ELSE procKeys[q]
        /\ UNCHANGED registries
    BY <1>5 DEF Deregister, Forgotten, TypeOK
  <2>3. \A s \in Registries, j \in Keys : entries[s][j] \subseteq Procs
    BY DEF TypeOK
  <2>4. ASSUME NEW s \in Registries, NEW j \in Keys, NEW q \in entries'[s][j]
        PROVE  s \in registries' /\ <<s, j>> \in procKeys'[q]
    <3>1. q \in entries[s][j] /\ q \in Procs /\ ~(s = r /\ j = k /\ q = p)
      BY <2>1, <2>3, <2>4
    <3>2. s \in registries /\ <<s, j>> \in procKeys[q]
      BY <3>1 DEF EntriesTracked
    <3> QED
      BY <2>2, <3>1, <3>2
  <2>5. \A s \in Registries, j \in Keys : entries'[s][j] \subseteq entries[s][j]
    BY <2>1
  <2> QED
    BY <2>4, <2>5, NamesAssumption DEF EntriesTracked
<1>6. ASSUME NEW r \in Registries, NewRegistry(r) PROVE EntriesTracked'
  BY <1>6 DEF NewRegistry, EntriesTracked
<1>7. ASSUME NEW r \in Registries, DropRegistry(r) PROVE EntriesTracked'
  <2>1. \A s \in Registries, k \in Keys : entries'[s][k] = IF s = r THEN {} ELSE entries[s][k]
    BY <1>7 DEF DropRegistry, TypeOK
  <2> QED
    BY <1>7, <2>1 DEF DropRegistry, EntriesTracked
<1> QED
  BY <1>1, <1>2, <1>3, <1>4, <1>5, <1>6, <1>7
  DEF Next, AllGone, ProcessStep, Spawn, Enroll, Started, Exits, InitFails,
      RegisterName, UnregisterName, vars

-----------------------------------------------------------------------------
(* Nothing points at who is gone *)

(* A process that has exited keeps only what was registered after its exit.  *)
LEMMA LateStep ==
  ASSUME TypeOK, NamesInverse, EntriesTracked, OnlyLateNamesSurvive, [Next]_vars
  PROVE  OnlyLateNamesSurvive'
<1>1. CASE UNCHANGED <<life, processes, names, entries, late>>
  BY <1>1 DEF OnlyLateNamesSurvive, Gone, Mentions, names
<1>2. ASSUME NEW p \in Procs, Enroll(p) PROVE OnlyLateNamesSurvive'
  <2>1. ~Gone(p) /\ UNCHANGED <<life, entries, late>> /\ processes' = processes \cup {p}
    BY <1>2 DEF Enroll, Gone, tables
  <2>2. \A q \in Procs \ {p}, n \in Names : registry'[n] = q => registry[n] = q
    BY <1>2 DEF Enroll, Named, names, TypeOK
  <2> QED
    BY <2>1, <2>2 DEF OnlyLateNamesSurvive, Gone, Mentions
<1>3. ASSUME NEW r \in Registries, NEW k \in Keys, NEW p \in Procs, Enter(r, k, p),
             UNCHANGED <<life, processes, names>>
      PROVE  OnlyLateNamesSurvive'
  <2>1. \A s \in Registries, j \in Keys : entries'[s][j] \subseteq entries[s][j] \cup {p}
    BY <1>3 DEF Enter, Entered, TypeOK
  <2>2. late \subseteq late' /\ (Gone(p) => p \in late')
    BY <1>3 DEF Enter, Late
  <2> QED
    BY <1>3, <2>1, <2>2 DEF OnlyLateNamesSurvive, Gone, Mentions, names
<1>4. ASSUME NEW p \in Procs, EnrollVia(p) PROVE OnlyLateNamesSurvive'
  <2>1. PICK r \in Registries, k \in Keys : via[p] = <<r, k>>
    BY <1>4 DEF EnrollVia, Vias, TypeOK
  <2>2. CASE Enter(r, k, p)
    BY <1>3, <1>4, <2>2 DEF EnrollVia
  <2>3. CASE UNCHANGED <<entries, late>>
    BY <1>1, <1>4, <2>3 DEF EnrollVia
  <2> QED
    BY <1>4, <2>1, <2>2, <2>3 DEF EnrollVia
<1>5. ASSUME NEW p \in Procs, Unregister(p) PROVE OnlyLateNamesSurvive'
  <2>1. \A n \in Names : registry'[n] # p /\ (registry'[n] # None => registry'[n] = registry[n])
    BY <1>5 DEF Unregister, Unnamed, names, NamesInverse, TypeOK
  <2>2. \A r \in Registries, k \in Keys : entries'[r][k] = entries[r][k] \ {p}
    BY <1>5, ScrubbedIsComplete DEF Unregister
  <2>3. /\ processes' = processes \ {p}
        /\ UNCHANGED late
        /\ \A q \in Procs \ {p} : life'[q] = life[q]
    BY <1>5 DEF Unregister, TypeOK
  <2> QED
    BY <2>1, <2>2, <2>3 DEF OnlyLateNamesSurvive, Gone, Mentions
<1>6. ASSUME NEW n \in Names, NEW p \in Procs, RegisterName(n, p)
      PROVE OnlyLateNamesSurvive'
  <2>1. \A q \in Procs \ {p}, m \in Names : registry'[m] = q => registry[m] = q
    BY <1>6 DEF RegisterName, Named, TypeOK
  <2>2. /\ UNCHANGED <<life, processes, entries>>
        /\ late \subseteq late' /\ (Gone(p) => p \in late')
    BY <1>6 DEF RegisterName, Late, lives, tables
  <2> QED
    BY <2>1, <2>2 DEF OnlyLateNamesSurvive, Gone, Mentions
<1>7. ASSUME NEW n \in Names, UnregisterName(n) PROVE OnlyLateNamesSurvive'
  <2>1. \A m \in Names : registry'[m] # None => registry'[m] = registry[m]
    BY <1>7 DEF UnregisterName, Unnamed, TypeOK
  <2> QED
    BY <1>7, <2>1 DEF UnregisterName, OnlyLateNamesSurvive, Gone, Mentions, lives, tables
<1>8. ASSUME NEW r \in Registries, NEW k \in Keys, NEW p \in Procs,
             Register(r, k, p) \/ Deregister(r, k, p)
      PROVE OnlyLateNamesSurvive'
  <2>1. CASE Register(r, k, p)
    BY <1>3, <2>1 DEF Register, lives
  <2>2. CASE Deregister(r, k, p)
    <3>1. \A s \in Registries, j \in Keys : entries'[s][j] \subseteq entries[s][j]
      BY <2>2 DEF Deregister, TypeOK
    <3> QED
      BY <2>2, <3>1 DEF Deregister, OnlyLateNamesSurvive, Gone, Mentions, lives, names
  <2> QED
    BY <1>8, <2>1, <2>2
<1>9. ASSUME NEW r \in Registries, NewRegistry(r) \/ DropRegistry(r)
      PROVE OnlyLateNamesSurvive'
  <2>1. \A s \in Registries, k \in Keys : entries'[s][k] \subseteq entries[s][k]
    <3>1. CASE NewRegistry(r)
      BY <3>1 DEF NewRegistry
    <3>2. CASE DropRegistry(r)
      BY <3>2 DEF DropRegistry, TypeOK
    <3> QED
      BY <1>9, <3>1, <3>2
  <2> QED
    BY <1>9, <2>1 DEF NewRegistry, DropRegistry, OnlyLateNamesSurvive, Gone, Mentions, lives, names
<1>10. ASSUME NEW p \in Procs, Spawn(p) \/ Started(p) \/ Exits(p) \/ InitFails(p)
       PROVE OnlyLateNamesSurvive'
  <2>1. /\ \A q \in Procs : Gone(q)' => Gone(q)
        /\ UNCHANGED <<processes, names, tables, late>>
    BY <1>10 DEF Spawn, Started, Exits, InitFails, Gone, TypeOK
  <2> QED
    BY <2>1 DEF OnlyLateNamesSurvive, Mentions, names, tables
<1> QED
  BY <1>1, <1>2, <1>4, <1>5, <1>6, <1>7, <1>8, <1>9, <1>10
  DEF Next, AllGone, ProcessStep, vars, lives, names, tables

-----------------------------------------------------------------------------
(* The theorems *)

(* The inductive invariant holds in every reachable state.                   *)
LEMMA InductiveInvariant == Spec => []IInv
<1>1. IInv /\ [Next]_vars => IInv'
  BY TypeStep, InverseStep, TrackedStep, LateStep DEF IInv
<1> QED
  BY InitIInv, <1>1, PTL DEF Spec

(* The tables of the runtime and of the registries keep their types. *)
THEOREM Typed == Spec => []TypeOK
  BY InductiveInvariant, PTL DEF IInv

(* Through any order of spawns, renames, takeovers and exits, `registry` and *)
(* `_reverse_registry` of runtime.py are inverse to each other.              *)
THEOREM NamesAreInverse == Spec => []NamesInverse
  BY InductiveInvariant, PTL DEF IInv

(* _proc_keys has every registration there is, so that Runtime.unregister,   *)
(* which only looks there, misses none; a unique key has one owner.          *)
THEOREM EntriesAreTracked == Spec => []EntriesTracked
  BY InductiveInvariant, PTL DEF IInv

(* After its exit a process is in no table, unless it was put there later.   *)
THEOREM ExitsLeaveNoNames == Spec => []OnlyLateNamesSurvive
  BY InductiveInvariant, PTL DEF IInv

(* Nobody takes the key of a unique registry from an owner in `processes`.   *)
THEOREM OwnersKeepKeys == Spec => OwnerKeepsKey
<1>1. IInv /\ [Next]_vars =>
        [\A r \in Unique, k \in Keys, p \in processes :
            p \in entries[r][k] => entries'[r][k] \subseteq {p}]_vars
  <2> SUFFICES ASSUME IInv, Next, NEW r \in Unique, NEW k \in Keys, NEW p \in processes,
                      p \in entries[r][k]
               PROVE  entries'[r][k] \subseteq {p}
    BY DEF IInv
  <2>1. entries[r][k] = {p} /\ r \in Registries
    BY NamesAssumption DEF IInv, EntriesTracked
  <2>2. ASSUME NEW s \in Registries, NEW j \in Keys, NEW q \in Procs, Enter(s, j, q)
        PROVE  entries'[r][k] \subseteq {p}
    <3>1. ~(s = r /\ j = k)
      BY <2>1, <2>2 DEF Enter, Taken
    <3> QED
      BY <2>1, <2>2, <3>1 DEF Enter, Entered, IInv, TypeOK
  <2>3. CASE UNCHANGED entries
    BY <2>1, <2>3
  <2>4. ASSUME NEW q \in Procs, EnrollVia(q) PROVE entries'[r][k] \subseteq {p}
    <3>1. PICK s \in Registries, j \in Keys : via[q] = <<s, j>>
      BY <2>4 DEF EnrollVia, Vias, IInv, TypeOK
    <3> QED
      BY <2>2, <2>3, <2>4, <3>1 DEF EnrollVia
  <2>5. ASSUME NEW q \in Procs, Unregister(q) PROVE entries'[r][k] \subseteq {p}
    BY <2>1, <2>5, ScrubbedIsComplete DEF Unregister, IInv
  <2>6. ASSUME NEW s \in Registries, NEW j \in Keys, NEW q \in Procs,
               Register(s, j, q) \/ Deregister(s, j, q)
        PROVE  entries'[r][k] \subseteq {p}
    <3>1. CASE Register(s, j, q)
      BY <2>2, <3>1 DEF Register
    <3>2. CASE Deregister(s, j, q)
      BY <2>1, <3>2 DEF Deregister, IInv, TypeOK
    <3> QED
      BY <2>6, <3>1, <3>2
  <2>7. ASSUME NEW s \in Registries, NewRegistry(s) PROVE entries'[r][k] \subseteq {p}
    BY <2>3, <2>7 DEF NewRegistry
  <2>8. ASSUME NEW s \in Registries, DropRegistry(s) PROVE entries'[r][k] \subseteq {p}
    BY <2>1, <2>8 DEF DropRegistry, IInv, TypeOK
  <2>9. ASSUME NEW q \in Procs, Spawn(q) \/ Enroll(q) \/ Started(q) \/ Exits(q) \/ InitFails(q)
        PROVE  UNCHANGED entries
    BY <2>9 DEF Spawn, Enroll, Started, Exits, InitFails, tables
  <2>10. ASSUME NEW n \in Names,
                UnregisterName(n) \/ \E q \in Procs : RegisterName(n, q)
         PROVE  UNCHANGED entries
    BY <2>10 DEF RegisterName, UnregisterName, tables
  <2>11. CASE AllGone
    BY <2>3, <2>11 DEF AllGone, vars, tables
  <2> QED
    BY <2>3, <2>4, <2>5, <2>6, <2>7, <2>8, <2>9, <2>10, <2>11 DEF Next, ProcessStep
<1> QED
  BY <1>1, InductiveInvariant, PTL DEF Spec, OwnerKeepsKey

=============================================================================
