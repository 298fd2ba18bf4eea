------------------------------ MODULE Controller ------------------------------
(***************************************************************************)
(* `styrn host enroll`, `trust`, `refresh` and the commands that only      *)
(* connect (`exec`, `status`, `doctor`): any number of processes over the  *)
(* files of one controller and workers whose host key, machine id and name *)
(* change while they run (src/src/main.rs).                                *)
(***************************************************************************)
EXTENDS Inventory

VARIABLE world   \* what answers at each address, and the next machine id

vars == <<inventory, known, cache, lock, pc, job, world>>

Workers == [mid : MachineIds, name : Names, key : Keys]

Serves(addr) == world.at[addr]

(***************************************************************************)
(* host_enroll and host_trust look at the inventory without the lock.      *)
(* The host to enroll is looked up as an alias and as an address.          *)
(***************************************************************************)
Start(p, cmd, target) ==
  /\ pc[p] = "idle"
  /\ Goto(p, IF cmd \in {"enroll", "trust"} THEN "open" ELSE "select",
          [Idle EXCEPT !.cmd = cmd, !.target = target])
  /\ UNCHANGED <<files, lock, world>>

Matches(hosts, addr) == HostNamed(hosts, addr) \cup {h \in hosts : h.addr = addr}

LookedUp(p) ==
  IF job[p].cmd = "enroll" THEN Matches(inventory, job[p].target)
                           ELSE HostNamed(inventory, job[p].target)

\* An enrollment may match nothing; only a known host can be trusted.
MayGoOn(p) ==
  IF job[p].cmd = "enroll" THEN Cardinality(LookedUp(p)) <= 1 ELSE LookedUp(p) # {}

ReadInventory(p) ==
  /\ pc[p] = "read"
  /\ IF job[p].disturbed \/ ~MayGoOn(p) THEN End(p)
     ELSE /\ \E host \in IF LookedUp(p) = {} THEN {None} ELSE LookedUp(p) :
               Goto(p, "scan", [job[p] EXCEPT !.snapshot = inventory, !.host = host])
          /\ UNCHANGED lock
  /\ UNCHANGED <<files, world>>

(***************************************************************************)
(* scan_host_key: the key the address presents now is the one the operator *)
(* expects, by fingerprint or confirmation, or the command ends.  A known  *)
(* host must present the key it is enrolled with, unless it is `trust`.    *)
(***************************************************************************)
\* The host does not answer, the operator declines, ssh fails; and a command that
\* only connects is done after it.
GiveUp(p) ==
  /\ pc[p] \in {"scan", "connect", "ssh"}
  /\ End(p) /\ UNCHANGED <<files, world>>

Scan(p, addr) == [addr |-> addr, pin |-> Serves(addr).key]

ScanToEnroll(p) ==
  /\ pc[p] = "scan" /\ job[p].cmd = "enroll"
  /\ LET stored == Scan(p, job[p].target)
     IN IF job[p].host # None /\ [addr |-> job[p].host.addr, pin |-> job[p].host.pin] # stored
        THEN End(p)
        ELSE /\ Goto(p, "connect", [job[p] EXCEPT !.record = stored])
             /\ UNCHANGED lock
  /\ UNCHANGED <<files, world>>

ScanToTrust(p) ==
  /\ pc[p] = "scan" /\ job[p].cmd = "trust"
  /\ Goto(p, "commit", [job[p] EXCEPT !.record =
            [job[p].host EXCEPT !.pin = Scan(p, job[p].host.addr).pin]])
  /\ UNCHANGED <<files, lock, world>>

(***************************************************************************)
(* Commands for an enrolled host: select_host_for_network, under the lock, *)
(* picks the record and then rebuilds known_hosts.                         *)
(***************************************************************************)
SelectHost(p) ==
  /\ pc[p] = "select" /\ lock = None
  /\ IF HostNamed(inventory, job[p].target) = {} THEN End(p)
     ELSE /\ lock' = p
          /\ \E host \in HostNamed(inventory, job[p].target) :
               Goto(p, "known_hosts", [job[p] EXCEPT !.host = host])
  /\ UNCHANGED <<files, world>>

(***************************************************************************)
(* Before ssh is started the address is scanned once more: it must present *)
(* the key of the record in hand.                                          *)
(***************************************************************************)
VerifyHostKey(p) ==
  /\ pc[p] = "connect"
  /\ LET target == IF job[p].cmd = "enroll" THEN job[p].record ELSE job[p].host
     IN IF target.pin = Serves(target.addr).key
        THEN Goto(p, "ssh", job[p]) /\ UNCHANGED lock ELSE End(p)
  /\ UNCHANGED <<files, world>>

(***************************************************************************)
(* ssh, the hello and the manifest, all of the worker as it is when its    *)
(* server starts.  ssh takes the key if known_hosts has it: for an         *)
(* enrollment a file of its own with the pin just scanned.                 *)
(***************************************************************************)
Pins(p) ==
  IF job[p].cmd = "enroll" THEN {job[p].record} ELSE known

AcceptsKey(p, addr) == [addr |-> addr, pin |-> Serves(addr).key] \in Pins(p)

\* validate_hello_manifest_binding and validate_manifest_endpoint.
\* Seeded fault: only the machine id is compared.
BoundById(host, worker) == worker.mid = host.mid
Bound(host, worker) == worker.mid = host.mid /\ worker.name = host.name

\* The worker's identity is not enrolled under another name, as far as we know.
NotEnrolledElsewhere(p, worker) ==
  \A h \in job[p].snapshot : h.mid = worker.mid => h.name = worker.name

\* The host as the worker's manifest has it, under the pin in hand.
Served(addr, pin) ==
  [name |-> Serves(addr).name, mid |-> Serves(addr).mid, addr |-> addr, pin |-> pin]

ConnectToEnroll(p) ==
  /\ pc[p] = "ssh" /\ job[p].cmd = "enroll"
  /\ LET worker == Serves(job[p].target)
     IN IF /\ AcceptsKey(p, job[p].target)
           /\ job[p].host # None => Bound(job[p].host, worker)
           /\ NotEnrolledElsewhere(p, worker)
        THEN /\ Goto(p, "commit", [job[p] EXCEPT !.record =
                                     Served(job[p].target, job[p].record.pin)])
             /\ UNCHANGED lock
        ELSE End(p)
  /\ UNCHANGED <<files, world>>

ConnectToHost(p) ==
  /\ pc[p] = "ssh" /\ job[p].cmd = "refresh"
  /\ LET host == job[p].host
     IN IF AcceptsKey(p, host.addr) /\ Bound(host, Serves(host.addr))
        THEN /\ Goto(p, "write_cache", [job[p] EXCEPT !.record = Served(host.addr, host.pin)])
             /\ UNCHANGED lock
        ELSE End(p)
  /\ UNCHANGED <<files, world>>

(***************************************************************************)
(* The locked write of enroll and trust, against the inventory of now.     *)
(***************************************************************************)
CommitEnroll(p) ==
  /\ pc[p] = "commit" /\ job[p].cmd = "enroll" /\ lock = None
  /\ IF MayUpsert(inventory, job[p].record)
     THEN Goto(p, "write_cache", job[p]) /\ lock' = p ELSE End(p)
  /\ UNCHANGED <<files, world>>

CommitTrust(p) ==
  /\ pc[p] = "commit" /\ job[p].cmd = "trust" /\ lock = None
  /\ IF MayReplace(inventory, job[p].host)
     THEN Goto(p, "write_inventory", job[p]) /\ lock' = p ELSE End(p)
  /\ UNCHANGED <<files, world>>

\* A command is killed; the system drops its lock.
Crash(p) == pc[p] # "idle" /\ End(p) /\ UNCHANGED <<files, world>>

(***************************************************************************)
(* Workers: a new host key, a new machine id (the manifest was removed and *)
(* setup made another one), a new name.                                    *)
(***************************************************************************)
Rekey(addr) ==
  /\ Serves(addr).key < MaxKey
  /\ world' = [world EXCEPT !.at[addr].key = @ + 1]

Remint(addr) ==
  /\ world.fresh # {}
  /\ \E mid \in world.fresh :
       world' = [world EXCEPT !.at[addr].mid = mid, !.fresh = @ \ {mid}]

Rename(addr) ==
  \E name \in Names : world' = [world EXCEPT !.at[addr].name = name]

WorkerChanges ==
  /\ \E addr \in Addresses : Rekey(addr) \/ Remint(addr) \/ Rename(addr)
  /\ UNCHANGED <<inventory, known, cache, lock, pc, job>>

Step(p) ==
  \/ /\ \/ OpenInventory(p) \/ ReplaceInventory(p) \/ RebuildKnownHosts(p)
        \/ WriteCache(p) \/ CheckCache(p)
     /\ UNCHANGED world
  \/ ReadInventory(p) \/ ScanToEnroll(p) \/ ScanToTrust(p) \/ SelectHost(p)
  \/ VerifyHostKey(p) \/ ConnectToEnroll(p) \/ ConnectToHost(p) \/ CommitEnroll(p) \/ CommitTrust(p)
  \/ GiveUp(p)

Next ==
  \/ \E p \in Procs : Step(p) \/ Crash(p)
  \/ \E p \in Procs : \E addr \in Addresses : Start(p, "enroll", addr)
  \/ \E p \in Procs : \E name \in Names, cmd \in Commands \ {"enroll"} : Start(p, cmd, name)
  \/ WorkerChanges

Init ==
  /\ inventory = {} /\ known = {} /\ cache = [m \in MachineIds |-> None]
  /\ lock = None
  /\ pc = [p \in Procs |-> "idle"] /\ job = [p \in Procs |-> Idle]
  /\ \E at \in [Addresses -> Workers] :
       /\ \A a, b \in Addresses : a # b => at[a].mid # at[b].mid
       /\ \A a \in Addresses : at[a].key = 0
       /\ world = [at |-> at, fresh |-> MachineIds \ {at[a].mid : a \in Addresses}]

Spec == Init /\ [][Next]_vars

-----------------------------------------------------------------------------
TypeOK ==
  /\ inventory \subseteq Hosts /\ known \subseteq Lines
  /\ cache \in [MachineIds -> Caches \cup {None}]
  /\ lock \in Procs \cup {None}
  /\ pc \in [Procs -> Steps] /\ job \in [Procs -> Jobs]
  /\ world \in [at : [Addresses -> Workers], fresh : SUBSET MachineIds]

\* However enrollments interleave between their lock-free look at the inventory
\* and their locked write, an alias and a machine id are enrolled once: a file
\* without this is refused by every later read.
HostsDistinct == Distinct(inventory)

\* A host in the inventory has a manifest cache, and it is a manifest of that
\* host: whatever is left by a crash before the inventory was written, by an
\* enrollment that lost a race, or by a refresh that writes without the lock.
CachesBelong ==
  \A h \in inventory :
    cache[h.mid] # None /\ cache[h.mid].name = h.name /\ cache[h.mid].addr = h.addr

\* ssh reads known_hosts after the lock is dropped, and rebuilding that file may
\* fail with a mere warning.  A command still never connects under a pin older
\* than that of the record it selected, where one host is enrolled at the address.
NeverUnderOlderPin ==
  \A p \in Procs : pc[p] = "ssh" /\ job[p].cmd = "refresh" =>
    LET host == job[p].host
    IN (\A h \in inventory : h.addr = host.addr => h.name = host.name)
         => \A line \in known : line.addr = host.addr => line.pin >= host.pin

\* No step drops a host or gives it another machine or address, and a pin only
\* moves on: a `trust` that scanned an earlier key cannot undo a later one.
PinsMoveOn ==
  [][\A h \in inventory : \E new \in inventory' :
       new = [h EXCEPT !.pin = new.pin] /\ new.pin >= h.pin]_inventory

Table == INSTANCE HostTable WITH table <- inventory, view <- [p \in Procs |-> job[p].host]

\* Every step, failing ones and crashes included, is an enrollment of a new host,
\* a compare-and-swap of one pin against the record the command saw, or neither.
ImplementsTable == Table!Spec
=============================================================================
