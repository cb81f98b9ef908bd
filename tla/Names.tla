------------------------------- MODULE Names -------------------------------
(***************************************************************************)
(* How processes get and lose their names: Runtime.spawn, the tables of    *)
(* fastactor/otp/runtime.py (processes, registry and _reverse_registry,    *)
(* registries, _proc_keys) and fastactor/otp/registry.py.                  *)
(*                                                                         *)
(* Code between two awaits is one action.  The sections of registry.py     *)
(* under _registry_lock have no await inside, so each is one action too.   *)
(***************************************************************************)
EXTENDS Naturals, FiniteSets

CONSTANTS Procs, Names,
          Registries, Keys,
          Unique,       \* the registries in unique mode; the others: duplicate
          None,         \* no name, no process, no key
          Workload      \* the operations users perform in this instance

Operations == {"name", "via", "set_name", "drop_name", "add_key", "drop_key",
               "registries", "init_fails"}
Vias       == Registries \X Keys

ASSUME NamesAssumption ==
    /\ None \notin Procs \cup Names \cup Vias
    /\ Unique \subseteq Registries
    /\ Workload \subseteq Operations

VARIABLES
    life,         \* of each process: where its own task is
    spawn,        \* where the task that spawns it is
    name, via,    \* the arguments of its spawn(), or None
    processes,    \* Runtime.processes
    registry,     \* Runtime.registry: name -> process
    reverse,      \* Runtime._reverse_registry: process -> name
    registries,   \* the names in Runtime.registries
    entries,      \* the processes under each key of each registry
    procKeys,     \* Runtime._proc_keys
    late          \* history: the processes that were given a name or a key
                  \* after their unregister()

lives  == <<life, spawn, name, via>>
names  == <<registry, reverse>>
tables == <<registries, entries, procKeys>>
vars   == <<lives, processes, names, tables, late>>

Init ==
    /\ life = [p \in Procs |-> "none"]
    /\ spawn = [p \in Procs |-> "none"]
    /\ name = [p \in Procs |-> None]
    /\ via = [p \in Procs |-> None]
    /\ processes = {}
    /\ registry = [n \in Names |-> None]
    /\ reverse = [p \in Procs |-> None]
    /\ registries = {}
    /\ entries = [r \in Registries |-> [k \in Keys |-> {}]]
    /\ procKeys = [p \in Procs |-> {}]
    /\ late = {}

(* Who has a reference to a process: its own init, and later anybody.        *)
Known(p) == life[p] # "none"
Gone(p)  == life[p] = "gone"        \* past Runtime.unregister
Alive(p) == life[p] \in {"init", "live"}

Late(p) == IF Gone(p) THEN late \cup {p} ELSE late

-----------------------------------------------------------------------------
(* The maps of the runtime, as new values of <<registry, reverse>>.          *)

(* register_name: p loses the name it had, and n the process it had.         *)
(* Mutant: the process that had the name keeps it in the reverse map.        *)
NamedKeepingOld(n, p) ==
    /\ registry' = [m \in Names |-> IF m = n THEN p
                                    ELSE IF m = reverse[p] THEN None ELSE registry[m]]
    /\ reverse' = [q \in Procs |-> IF q = p THEN n ELSE reverse[q]]
Named(n, p) ==
    /\ registry' = [m \in Names |-> IF m = n THEN p
                                    ELSE IF m = reverse[p] THEN None ELSE registry[m]]
    /\ reverse' = [q \in Procs |-> IF q = p THEN n
                                   ELSE IF q = registry[n] THEN None ELSE reverse[q]]

(* Mutant: only the reverse map is cleared. *)
UnnamedReverse(n) ==
    /\ reverse' = [q \in Procs |-> IF q = registry[n] THEN None ELSE reverse[q]]
    /\ UNCHANGED registry
(* unregister_name. *)
Unnamed(n) ==
    /\ registry' = [registry EXCEPT ![n] = None]
    /\ reverse' = [q \in Procs |-> IF q = registry[n] THEN None ELSE reverse[q]]

-----------------------------------------------------------------------------
(* Registry.register, under the lock: AlreadyRegistered if the key of a      *)
(* unique registry has an owner that is in `processes`.                      *)

(* Mutant: the owner is not looked at. *)
TakenNever(r, k) == FALSE
Taken(r, k) == r \in Unique /\ entries[r][k] \cap processes # {}

Entered(r, k, p) ==
    [entries EXCEPT ![r][k] = IF r \in Unique THEN {p} ELSE @ \cup {p}]

Enter(r, k, p) ==
    /\ r \in registries /\ ~Taken(r, k)
    /\ entries' = Entered(r, k, p)
    /\ procKeys' = [procKeys EXCEPT ![p] = @ \cup {<<r, k>>}]
    /\ late' = Late(p)

(* Runtime.unregister: p is taken out of every entry that _proc_keys lists.  *)
(* Mutant: an entry that p shares is left alone. *)
ScrubbedIfAlone(p) ==
    [r \in Registries |-> [k \in Keys |->
        IF <<r, k>> \in procKeys[p] /\ entries[r][k] = {p} THEN {} ELSE entries[r][k]]]
Scrubbed(p) ==
    [r \in Registries |-> [k \in Keys |->
        IF <<r, k>> \in procKeys[p] /\ r \in registries
        THEN entries[r][k] \ {p} ELSE entries[r][k]]]

(* Registry.unregister forgets the key in _proc_keys as well. *)
(* Mutant: it forgets every key of the process. *)
ForgottenAll(r, k, p) == [procKeys EXCEPT ![p] = {}]
Forgotten(r, k, p) == [procKeys EXCEPT ![p] = @ \ {<<r, k>>}]

-----------------------------------------------------------------------------
(* _spawn_impl and the process it starts.                                    *)

(* The name is looked up, and the process starts; a name that is taken is    *)
(* Failed("already_started") and changes nothing.                            *)
Spawn(p) ==
    /\ life[p] = "none"
    /\ \/ UNCHANGED <<name, via>>
       \/ /\ "name" \in Workload
          /\ \E n \in Names : registry[n] = None /\ name' = [name EXCEPT ![p] = n]
          /\ UNCHANGED via
       \/ /\ "via" \in Workload
          /\ \E v \in Vias : via' = [via EXCEPT ![p] = v]
          /\ UNCHANGED name
    /\ life' = [life EXCEPT ![p] = "init"]
    /\ spawn' = [spawn EXCEPT ![p] = "starting"]
    /\ UNCHANGED <<processes, names, tables, late>>

(* _run_init_safe: neither terminate nor _system_teardown runs.              *)
InitFails(p) ==
    /\ life[p] = "init" /\ "init_fails" \in Workload
    /\ life' = [life EXCEPT ![p] = "failed"]
    /\ spawn' = [spawn EXCEPT ![p] = "failed"]
    /\ UNCHANGED <<name, via, processes, names, tables, late>>

Started(p) ==
    /\ life[p] = "init"
    /\ life' = [life EXCEPT ![p] = "live"]
    /\ UNCHANGED <<spawn, name, via, processes, names, tables, late>>

(* The process leaves its loop. *)
Exits(p) ==
    /\ life[p] = "live"
    /\ life' = [life EXCEPT ![p] = "ending"]
    /\ UNCHANGED <<spawn, name, via, processes, names, tables, late>>

(* started() returns.  The spawner is the first to wait for the event and    *)
(* the process yields before its teardown, so it is not gone yet.            *)
Enroll(p) ==
    /\ spawn[p] = "starting" /\ life[p] \in {"live", "ending"}
    /\ processes' = processes \cup {p}
    /\ IF name[p] = None THEN UNCHANGED names ELSE Named(name[p], p)
    /\ spawn' = [spawn EXCEPT ![p] = IF via[p] = None THEN "done" ELSE "via"]
    /\ UNCHANGED <<life, name, via, tables, late>>

(* The lock of the registry is there.  Whatever register() raises leaves     *)
(* spawn(); the process keeps running.                                       *)
EnrollVia(p) ==
    /\ spawn[p] = "via"
    /\ \/ Enter(via[p][1], via[p][2], p) /\ spawn' = [spawn EXCEPT ![p] = "done"]
       \/ /\ via[p][1] \notin registries \/ Taken(via[p][1], via[p][2])
          /\ spawn' = [spawn EXCEPT ![p] = "failed"]
          /\ UNCHANGED <<entries, procKeys, late>>
    /\ UNCHANGED <<life, name, via, processes, names, registries>>

Unregister(p) ==
    /\ life[p] = "ending" /\ spawn[p] # "starting"
    /\ life' = [life EXCEPT ![p] = "gone"]
    /\ processes' = processes \ {p}
    /\ IF reverse[p] = None THEN UNCHANGED names ELSE Unnamed(reverse[p])
    /\ entries' = Scrubbed(p)
    /\ procKeys' = [procKeys EXCEPT ![p] = {}]
    /\ UNCHANGED <<spawn, name, via, registries, late>>

-----------------------------------------------------------------------------
(* What users call. *)

RegisterName(n, p) ==
    /\ "set_name" \in Workload /\ Known(p)
    /\ Named(n, p)
    /\ late' = Late(p)
    /\ UNCHANGED <<lives, processes, tables>>

UnregisterName(n) ==
    /\ "drop_name" \in Workload /\ registry[n] # None
    /\ Unnamed(n)
    /\ UNCHANGED <<lives, processes, tables, late>>

Register(r, k, p) ==
    /\ "add_key" \in Workload /\ Known(p)
    /\ Enter(r, k, p)
    /\ UNCHANGED <<lives, processes, names, registries>>

Deregister(r, k, p) ==
    /\ "drop_key" \in Workload /\ Known(p) /\ r \in registries
    /\ entries' = [entries EXCEPT ![r][k] = @ \ {p}]
    /\ procKeys' = Forgotten(r, k, p)
    /\ UNCHANGED <<lives, processes, names, registries, late>>

(* RegistryServer.init and RegistryServer._system_teardown. *)
NewRegistry(r) ==
    /\ r \notin registries
    /\ registries' = registries \cup {r}
    /\ UNCHANGED <<lives, processes, names, entries, procKeys, late>>

DropRegistry(r) ==
    /\ "registries" \in Workload /\ r \in registries
    /\ registries' = registries \ {r}
    /\ entries' = [entries EXCEPT ![r] = [k \in Keys |-> {}]]
    /\ UNCHANGED <<lives, processes, names, procKeys, late>>

-----------------------------------------------------------------------------
ProcessStep(p) == Started(p) \/ Exits(p) \/ Unregister(p) \/ InitFails(p)

(* Every process there is has ended, and every spawn() has returned. *)
AllGone ==
    /\ \A p \in Procs : life[p] \in {"gone", "failed"} /\ spawn[p] # "via"
    /\ UNCHANGED vars

Next ==
    \/ AllGone
    \/ \E p \in Procs :
         \/ Spawn(p) \/ Enroll(p) \/ EnrollVia(p) \/ ProcessStep(p)
         \/ \E n \in Names : RegisterName(n, p)
         \/ \E r \in Registries, k \in Keys : Register(r, k, p) \/ Deregister(r, k, p)
    \/ \E n \in Names : UnregisterName(n)
    \/ \E r \in Registries : NewRegistry(r) \/ DropRegistry(r)

Spec == Init /\ [][Next]_vars

-----------------------------------------------------------------------------
(* Every variable has the type of the table it stands for, and only a spawn  *)
(* with via= waits for the lock of the registries.                           *)
TypeOK ==
    /\ life \in [Procs -> {"none", "init", "live", "ending", "gone", "failed"}]
    /\ spawn \in [Procs -> {"none", "starting", "via", "done", "failed"}]
    /\ name \in [Procs -> Names \cup {None}]
    /\ via \in [Procs -> Vias \cup {None}]
    /\ processes \subseteq Procs
    /\ registry \in [Names -> Procs \cup {None}]
    /\ reverse \in [Procs -> Names \cup {None}]
    /\ registries \subseteq Registries
    /\ entries \in [Registries -> [Keys -> SUBSET Procs]]
    /\ procKeys \in [Procs -> SUBSET Vias]
    /\ late \subseteq Procs
    /\ \A p \in Procs : spawn[p] = "via" => via[p] # None

(* The two maps of the runtime are inverse to each other, through renames,   *)
(* takeovers and exits: otherwise an exit would free somebody else's name.   *)
NamesInverse ==
    \A n \in Names, p \in Procs : registry[n] = p <=> reverse[p] = n

(* Every entry of a registry is in _proc_keys, which is all that unregister  *)
(* looks at when the process exits; a registry that has ended keeps none,    *)
(* and a key of a unique registry has one.                                   *)
EntriesTracked ==
    /\ \A r \in Registries, k \in Keys : \A p \in entries[r][k] :
         r \in registries /\ <<r, k>> \in procKeys[p]
    /\ \A r \in Unique, k \in Keys : \A p, q \in entries[r][k] : p = q

(* Nothing points at a process that is gone, unless it was given a name or a *)
(* key after it had been taken out of the tables.                            *)
Mentions(p) ==
    \/ p \in processes
    \/ \E n \in Names : registry[n] = p
    \/ \E r \in Registries, k \in Keys : p \in entries[r][k]
OnlyLateNamesSurvive == \A p \in Procs : Gone(p) /\ Mentions(p) => p \in late

(* The owner of a key of a unique registry that is in `processes` keeps it   *)
(* until it, or the registry, ends or it gives the key up; a race of several *)
(* spawns and register() calls for the key has one winner.                   *)
OwnerKeepsKey ==
    [][\A r \in Unique, k \in Keys, p \in processes :
         p \in entries[r][k] => entries'[r][k] \subseteq {p}]_vars

-----------------------------------------------------------------------------
(* Promises of the documentation that the code does not keep. *)

(* SPEC.md 8.1: the second process registered under a name fails; the first  *)
(* keeps the name while it lives.                                            *)
NameKept ==
    [][\A n \in Names, p \in Procs :
         registry[n] = p /\ Alive(p) => registry'[n] = p]_vars

(* The package's README: one process per key, re-registering raises.         *)
KeyKept ==
    [][\A r \in Unique, k \in Keys, p \in Procs :
         p \in entries[r][k] /\ Alive(p) => p \in entries'[r][k]]_vars

(* The OTP README: the entries of a process are scrubbed when it terminates. *)
EntriesScrubbed ==
    \A r \in Registries, k \in Keys : \A p \in entries[r][k] : ~Gone(p)

(* The package's README: via= registers inside init, so a process that has   *)
(* started and takes messages is under its key.                              *)
ViaInsideInit ==
    \A p \in Procs : life[p] = "live" /\ via[p] # None /\ spawn[p] # "failed"
                        => p \in entries[via[p][1]][via[p][2]]

=============================================================================
