------------------------------- MODULE Inventory -------------------------------
(***************************************************************************)
(* The files of a controller (src/src/inventory/store.rs): the inventory   *)
(* of enrolled hosts, the known_hosts file derived from it for ssh, one    *)
(* manifest cache per machine id, and the lock.  The processes are styrn   *)
(* commands; the workers they talk to are in Controller.                   *)
(***************************************************************************)
EXTENDS Naturals, FiniteSets

CONSTANTS None,       \* no value
          Procs,      \* controller processes
          Names,      \* names of workers, their aliases in the inventory
          MachineIds, \* identities of workers
          Addresses,  \* host names ssh connects to
          MaxKey,     \* host keys are numbered by generation
          MaxHosts    \* MAX_HOSTS

ASSUME LimitsAssumption == MaxKey \in Nat /\ MaxHosts \in Nat

VARIABLES inventory, \* inventory.toml: the set of its host records
          known,     \* known_hosts: the set of its lines
          cache,     \* manifests/<machine id>.toml: None or what it caches
          lock,      \* the flock on .inventory.toml.lock
          pc, job    \* where each command is, and what it has in hand

files == <<inventory, known, cache>>

Keys == 0..MaxKey
Hosts == [name : Names, mid : MachineIds, addr : Addresses, pin : Keys]
Lines == [addr : Addresses, pin : Keys]

\* A cached manifest.  `writer` stands for cached_at, which tells the cache a
\* command wrote from that of any command running beside it.
Caches == [name : Names, addr : Addresses, writer : Procs]

ASSUME NoneAssumption == None \notin Procs \cup Hosts \cup Lines \cup Caches

\* "refresh" stands for status, doctor and exec as well, which write no cache.
Commands == {"enroll", "trust", "refresh"}

Steps == {"idle", "open", "read", "scan", "select", "connect", "ssh", "commit",
          "write_cache", "check_cache", "write_inventory", "known_hosts"}

\* What a command has in hand: the host it looked up, the record it is making.
Jobs == [cmd : Commands \cup {None}, target : Names \cup Addresses \cup {None},
         snapshot : SUBSET Hosts, host : Hosts \cup {None},
         record : Hosts \cup Lines \cup {None}, disturbed : BOOLEAN]

(***************************************************************************)
(* InventoryDocument.                                                      *)
(***************************************************************************)
Distinct(hosts) ==
  \A h, other \in hosts : h.name = other.name \/ h.mid = other.mid => h = other

HostNamed(hosts, name) == {h \in hosts : h.name = name}

\* Seeded fault: only the alias is looked up, a machine id may come twice.
ClashesByName(hosts, host) == HostNamed(hosts, host.name)

Clashes(hosts, host) == {h \in hosts : h.name = host.name \/ h.mid = host.mid}

\* upsert_exact: an equal record is there already, or nothing is in its way.
Created(hosts, host) == Clashes(hosts, host) = {}
MayUpsert(hosts, host) ==
  IF Created(hosts, host) THEN Cardinality(hosts) < MaxHosts
                          ELSE Clashes(hosts, host) = {host}

\* replace_exact: the record the command read is still the one in the file.
\* Seeded fault: the record is found by its alias and not compared.
MayReplaceNamed(hosts, expected) == HostNamed(hosts, expected.name) # {}
MayReplace(hosts, expected) == expected \in hosts
Replaced(hosts, expected, host) == (hosts \ HostNamed(hosts, expected.name)) \cup {host}

KnownHosts(hosts) == {[addr |-> h.addr, pin |-> h.pin] : h \in hosts}

(***************************************************************************)
(* Steps of a command.                                                     *)
(***************************************************************************)
Idle == [cmd |-> None, target |-> None, snapshot |-> {}, host |-> None,
         record |-> None, disturbed |-> FALSE]

Goto(p, step, j) ==
  /\ pc' = [pc EXCEPT ![p] = step]
  /\ job' = [job EXCEPT ![p] = j]

\* A command ends, with an answer or with an error; its lock is dropped.
End(p) ==
  /\ Goto(p, "idle", Idle)
  /\ lock' = IF lock = p THEN None ELSE lock

(***************************************************************************)
(* write_verified: before its rename a write fails and leaves the file as  *)
(* it was; after it, it fails or succeeds and the file is replaced.        *)
(***************************************************************************)
Outcomes == {"done", "failed_before", "failed_after"}
Happened(outcome) == outcome # "failed_before"

(***************************************************************************)
(* read(), without the lock: read_verified takes the identity of the file, *)
(* opens and reads it and takes the identity again.  A replacement between *)
(* is an error, as is every replacement seen by a reader under way.        *)
(***************************************************************************)
OpenInventory(p) ==
  /\ pc[p] = "open"
  /\ Goto(p, "read", [job[p] EXCEPT !.disturbed = FALSE])
  /\ UNCHANGED <<files, lock>>

\* Every reader under way holds the identity of the file that was replaced.
DisturbReaders ==
  [q \in Procs |-> IF pc[q] = "read" THEN [job[q] EXCEPT !.disturbed = TRUE] ELSE job[q]]

\* replace_inventory, then known_hosts; an error of the first ends the command.
\* Seeded fault: the document is the one read before the lock was taken.
StaleInventory(p) ==
  IF job[p].cmd = "enroll" THEN job[p].snapshot \cup {job[p].record}
                           ELSE Replaced(job[p].snapshot, job[p].host, job[p].record)

NewInventory(p) ==
  IF job[p].cmd = "enroll" THEN inventory \cup {job[p].record}
                           ELSE Replaced(inventory, job[p].host, job[p].record)

ReplaceInventory(p) ==
  /\ pc[p] = "write_inventory"
  /\ \E outcome \in Outcomes :
       LET readers == IF Happened(outcome) THEN DisturbReaders ELSE job
       IN /\ inventory' = IF Happened(outcome) THEN NewInventory(p) ELSE inventory
          /\ IF outcome = "done"
             THEN /\ pc' = [pc EXCEPT ![p] = "known_hosts"] /\ job' = readers
                  /\ UNCHANGED lock
             ELSE /\ pc' = [pc EXCEPT ![p] = "idle"] /\ job' = [readers EXCEPT ![p] = Idle]
                  /\ lock' = None
  /\ UNCHANGED <<known, cache>>

(***************************************************************************)
(* rebuild_known_hosts, from the document in hand, which is that of the    *)
(* file.  To enroll and trust a failure is a warning; a command that is    *)
(* about to connect ends with it.  The lock is dropped in any case.        *)
(***************************************************************************)
Rebuilt(outcome) == IF Happened(outcome) THEN KnownHosts(inventory) ELSE known

\* Seeded fault: known_hosts that cannot be rebuilt are a warning here as well.
MayConnectAnyway(p, outcome) == job[p].cmd = "refresh"

MayConnect(p, outcome) == job[p].cmd = "refresh" /\ outcome = "done"

RebuildKnownHosts(p) ==
  /\ pc[p] = "known_hosts"
  /\ \E outcome \in IF known = KnownHosts(inventory) THEN {"done"} ELSE Outcomes :
       /\ known' = Rebuilt(outcome)
       /\ IF MayConnect(p, outcome)
          THEN Goto(p, "connect", job[p]) /\ lock' = None
          ELSE End(p)
  /\ UNCHANGED <<inventory, cache>>

(***************************************************************************)
(* write_cache.  Refreshes do it without the lock, so that another cache   *)
(* may have replaced this one before it is read back.                      *)
(***************************************************************************)
CacheOf(p) == [name |-> job[p].record.name, addr |-> job[p].record.addr, writer |-> p]

WriteCache(p) ==
  /\ pc[p] = "write_cache"
  /\ \E outcome \in Outcomes :
       /\ cache' = IF Happened(outcome) THEN [cache EXCEPT ![job[p].record.mid] = CacheOf(p)]
                   ELSE cache
       /\ IF outcome = "done" THEN Goto(p, "check_cache", job[p]) /\ UNCHANGED lock
          ELSE End(p)
  /\ UNCHANGED <<inventory, known>>

AfterCache(p) ==
  IF Created(inventory, job[p].record) THEN "write_inventory" ELSE "known_hosts"

CheckCache(p) ==
  /\ pc[p] = "check_cache"
  /\ IF cache[job[p].record.mid] = CacheOf(p) /\ job[p].cmd = "enroll"
     THEN Goto(p, AfterCache(p), job[p]) /\ UNCHANGED lock
     ELSE End(p)
  /\ UNCHANGED files
=============================================================================
