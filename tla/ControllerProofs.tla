---------------------------- MODULE ControllerProofs ----------------------------
(***************************************************************************)
(* Proofs about Controller, for any number of commands, hosts and workers. *)
(* The inventory is only written under the lock, but caches are also       *)
(* written without it, and hosts are picked without it.  What makes that   *)
(* right is that a host once enrolled stays enrolled (StillIn), with its   *)
(* name, its machine and its address.                                      *)
(***************************************************************************)
EXTENDS Controller, TLAPS

\* A command at such a step holds the lock.
HoldsAt(step, j) ==
  \/ step \in {"write_inventory", "known_hosts"}
  \/ step \in {"write_cache", "check_cache"} /\ j.cmd = "enroll"

LockInv == \A p \in Procs : HoldsAt(pc[p], job[p]) <=> lock = p

\* The host is enrolled, perhaps under another pin by now.
StillIn(hosts, host) == \E h \in hosts : h = [host EXCEPT !.pin = h.pin]

HasCache(h, caches) ==
  caches[h.mid] # None /\ caches[h.mid].name = h.name /\ caches[h.mid].addr = h.addr

\* Which command may be at a step, and what it has in hand there.
EnrollAt(step, j, hosts) ==
  /\ j.target \in Addresses
  /\ step \in {"connect", "ssh"} => j.record \in Lines
  /\ step \in {"commit", "write_cache", "check_cache", "write_inventory"} => j.record \in Hosts
  /\ step \in {"write_cache", "check_cache"} => Clashes(hosts, j.record) \subseteq {j.record}
  /\ step = "write_inventory" => Clashes(hosts, j.record) = {}

TrustAt(step, j, hosts) ==
  /\ step \notin {"select", "connect", "ssh", "write_cache", "check_cache"}
  /\ step \in {"scan", "commit", "write_inventory"} => j.host \in Hosts
  /\ step \in {"commit", "write_inventory"} =>
       j.record \in Hosts /\ j.record = [j.host EXCEPT !.pin = j.record.pin]
  /\ step = "write_inventory" => j.host \in hosts

RefreshAt(step, j, hosts) ==
  /\ step \notin {"open", "read", "scan", "commit", "write_inventory"}
  /\ step \in {"known_hosts", "connect", "ssh", "write_cache", "check_cache"} =>
       j.host \in Hosts /\ StillIn(hosts, j.host)
  /\ step \in {"write_cache", "check_cache"} =>
       j.record \in Hosts /\ j.record = [j.host EXCEPT !.pin = j.record.pin]

InHand(step, j, hosts) ==
  /\ step # "idle" => j.cmd \in Commands
  /\ step # "idle" /\ j.cmd = "enroll" => EnrollAt(step, j, hosts)
  /\ step # "idle" /\ j.cmd = "trust" => TrustAt(step, j, hosts)
  /\ step # "idle" /\ j.cmd = "refresh" => RefreshAt(step, j, hosts)

CacheReady(step, j, caches) ==
  step = "write_inventory" /\ j.cmd = "enroll" => HasCache(j.record, caches)

IInv ==
  /\ TypeOK /\ LockInv /\ HostsDistinct
  /\ \A h \in inventory : HasCache(h, cache)
  /\ \A p \in Procs : InHand(pc[p], job[p], inventory) /\ CacheReady(pc[p], job[p], cache)

LEMMA InitIInv == Init => IInv
<1> SUFFICES ASSUME Init PROVE IInv
  OBVIOUS
<1> USE DEF Init
<1>1. Idle \in Jobs
  BY DEF Idle, Jobs
<1>2. PICK at \in [Addresses -> Workers] :
        world = [at |-> at, fresh |-> MachineIds \ {at[a].mid : a \in Addresses}]
  OBVIOUS
<1>3. TypeOK
  BY <1>1, <1>2 DEF TypeOK, Steps
<1>4. LockInv
  BY NoneAssumption DEF LockInv, HoldsAt
<1>5. HostsDistinct /\ \A h \in inventory : HasCache(h, cache)
  BY DEF HostsDistinct, Distinct
<1>6. \A p \in Procs : InHand(pc[p], job[p], inventory) /\ CacheReady(pc[p], job[p], cache)
  BY DEF InHand, CacheReady
<1>q. QED
  BY <1>3, <1>4, <1>5, <1>6 DEF IInv

(***************************************************************************)
(* A command moves, takes the lock or drops it, and writes neither         *)
(* inventory nor caches.                                                   *)
(***************************************************************************)
MayTake(p) == lock' = lock \/ (lock = None /\ lock' = p) \/ (lock = p /\ lock' = None)

LEMMA GotoKeeps ==
  ASSUME IInv, NEW p \in Procs, NEW step \in Steps, NEW j \in Jobs, Goto(p, step, j),
         MayTake(p), HoldsAt(step, j) <=> lock' = p
  PROVE  /\ pc' \in [Procs -> Steps] /\ job' \in [Procs -> Jobs]
         /\ lock' \in Procs \cup {None} /\ LockInv'
         /\ pc'[p] = step /\ job'[p] = j
         /\ \A q \in Procs : q # p => pc'[q] = pc[q] /\ job'[q] = job[q]
<1>1. /\ pc' \in [Procs -> Steps] /\ job' \in [Procs -> Jobs] /\ lock' \in Procs \cup {None}
      /\ pc'[p] = step /\ job'[p] = j
      /\ \A q \in Procs : q # p => pc'[q] = pc[q] /\ job'[q] = job[q]
  BY DEF IInv, TypeOK, Goto, MayTake
<1>2. \A q \in Procs : q # p => (lock' = q <=> lock = q)
  BY NoneAssumption DEF MayTake
<1>3. LockInv'
  <2> SUFFICES ASSUME NEW q \in Procs PROVE HoldsAt(pc'[q], job'[q]) <=> lock' = q
    BY DEF LockInv
  <2>1. CASE q = p
    BY <1>1, <2>1
  <2>2. CASE q # p
    BY <1>1, <1>2, <2>2 DEF IInv, LockInv
  <2>q. QED
    BY <2>1, <2>2
<1>q. QED
  BY <1>1, <1>3

LEMMA MoveKeeps ==
  ASSUME IInv, NEW p \in Procs, NEW step \in Steps, NEW j \in Jobs, Goto(p, step, j),
         MayTake(p), HoldsAt(step, j) <=> lock' = p,
         UNCHANGED <<inventory, cache, world>>, known' \subseteq Lines,
         InHand(step, j, inventory), CacheReady(step, j, cache)
  PROVE  IInv'
<1>1. /\ pc' \in [Procs -> Steps] /\ job' \in [Procs -> Jobs]
      /\ lock' \in Procs \cup {None} /\ LockInv'
      /\ pc'[p] = step /\ job'[p] = j
      /\ \A q \in Procs : q # p => pc'[q] = pc[q] /\ job'[q] = job[q]
  BY GotoKeeps
<1>2. TypeOK'
  BY <1>1 DEF IInv, TypeOK
<1>3. HostsDistinct' /\ \A h \in inventory' : HasCache(h, cache')
  BY DEF IInv, HostsDistinct
<1>4. \A q \in Procs : InHand(pc'[q], job'[q], inventory') /\ CacheReady(pc'[q], job'[q], cache')
  <2> SUFFICES ASSUME NEW q \in Procs
               PROVE  InHand(pc'[q], job'[q], inventory) /\ CacheReady(pc'[q], job'[q], cache)
    OBVIOUS
  <2>1. CASE q = p
    BY <1>1, <2>1
  <2>2. CASE q # p
    BY <1>1, <2>2 DEF IInv
  <2>q. QED
    BY <2>1, <2>2
<1>q. QED
  BY <1>1, <1>2, <1>3, <1>4 DEF IInv

\* An answer, an error or a crash.
LEMMA EndKeeps ==
  ASSUME IInv, NEW p \in Procs, End(p), UNCHANGED <<inventory, cache, world>>, known' \subseteq Lines
  PROVE  IInv'
<1>1. Goto(p, "idle", Idle) /\ MayTake(p) /\ lock' # p
  BY NoneAssumption DEF End, MayTake
<1>2. Idle \in Jobs /\ "idle" \in Steps
  BY DEF Idle, Jobs, Steps
<1>3. InHand("idle", Idle, inventory) /\ CacheReady("idle", Idle, cache) /\ ~HoldsAt("idle", Idle)
  BY DEF InHand, CacheReady, HoldsAt
<1>q. QED
  BY <1>1, <1>2, <1>3, MoveKeeps

(***************************************************************************)
(* One lemma per action.                                                   *)
(***************************************************************************)
LEMMA GiveUpKeeps == ASSUME IInv, NEW p \in Procs, GiveUp(p) \/ Crash(p) PROVE IInv'
<1>1. End(p) /\ UNCHANGED <<inventory, cache, world>> /\ known' \subseteq Lines
  BY DEF GiveUp, Crash, files, IInv, TypeOK
<1>q. QED
  BY <1>1, EndKeeps

LEMMA StartKeeps ==
  ASSUME IInv, NEW p \in Procs, NEW cmd \in Commands, NEW target \in Names \cup Addresses,
         cmd = "enroll" => target \in Addresses, Start(p, cmd, target)
  PROVE  IInv'
<1> DEFINE step == IF cmd \in {"enroll", "trust"} THEN "open" ELSE "select"
           j == [Idle EXCEPT !.cmd = cmd, !.target = target]
<1>1. Goto(p, step, j) /\ UNCHANGED <<inventory, cache, world, lock>> /\ known' \subseteq Lines /\ pc[p] = "idle"
  BY DEF Start, files, IInv, TypeOK
<1>2. j \in Jobs /\ step \in Steps /\ j.cmd = cmd /\ j.target = target
  BY DEF Idle, Jobs, Steps
<1>3. lock # p
  BY <1>1 DEF IInv, LockInv, HoldsAt
<1>4. ~HoldsAt(step, j) /\ CacheReady(step, j, cache)
  BY DEF HoldsAt, CacheReady
<1>5. InHand(step, j, inventory)
  BY <1>2 DEF InHand, EnrollAt, TrustAt, RefreshAt, Commands
<1> HIDE DEF step, j
<1>q. QED
  BY <1>1, <1>2, <1>3, <1>4, <1>5, MoveKeeps DEF MayTake

LEMMA OpenKeeps == ASSUME IInv, NEW p \in Procs, OpenInventory(p), UNCHANGED world PROVE IInv'
<1> DEFINE j == [job[p] EXCEPT !.disturbed = FALSE]
<1>1. Goto(p, "read", j) /\ UNCHANGED <<inventory, cache, world, lock>> /\ known' \subseteq Lines /\ pc[p] = "open"
  BY DEF OpenInventory, files, IInv, TypeOK
<1>2. job[p] \in Jobs /\ j \in Jobs /\ j.cmd = job[p].cmd /\ j.target = job[p].target /\ "read" \in Steps
  BY DEF Jobs, IInv, TypeOK, Steps
<1>3. lock # p /\ ~HoldsAt("read", j) /\ CacheReady("read", j, cache)
  BY <1>1 DEF IInv, LockInv, HoldsAt, CacheReady
<1>4. InHand("open", job[p], inventory)
  BY <1>1 DEF IInv
<1>5. InHand("read", j, inventory)
  BY <1>2, <1>4 DEF InHand, EnrollAt, TrustAt, RefreshAt
<1> HIDE DEF j
<1>q. QED
  BY <1>1, <1>2, <1>3, <1>5, MoveKeeps DEF MayTake

LEMMA ReadKeeps == ASSUME IInv, NEW p \in Procs, ReadInventory(p) PROVE IInv'
<1>1. UNCHANGED <<inventory, cache, world>> /\ known' \subseteq Lines /\ pc[p] = "read"
  BY DEF ReadInventory, files, IInv, TypeOK
<1>2. CASE job[p].disturbed \/ ~MayGoOn(p)
  BY <1>1, <1>2, EndKeeps DEF ReadInventory
<1>3. CASE ~(job[p].disturbed \/ ~MayGoOn(p))
  <2>1. PICK host \in IF LookedUp(p) = {} THEN {None} ELSE LookedUp(p) :
          Goto(p, "scan", [job[p] EXCEPT !.snapshot = inventory, !.host = host]) /\ lock' = lock
    BY <1>3 DEF ReadInventory
  <2> DEFINE j == [job[p] EXCEPT !.snapshot = inventory, !.host = host]
  <2>2. host \in Hosts \cup {None} /\ (job[p].cmd = "trust" => host \in Hosts)
    BY <1>3 DEF LookedUp, MayGoOn, Matches, HostNamed, IInv, TypeOK
  <2>3. job[p] \in Jobs /\ j \in Jobs /\ j.cmd = job[p].cmd /\ j.target = job[p].target /\ j.host = host
        /\ "scan" \in Steps
    BY <2>2 DEF Jobs, IInv, TypeOK, Steps
  <2>4. lock # p /\ ~HoldsAt("scan", j) /\ CacheReady("scan", j, cache)
    BY <1>1 DEF IInv, LockInv, HoldsAt, CacheReady
  <2>5. InHand("read", job[p], inventory)
    BY <1>1 DEF IInv
  <2>6. InHand("scan", j, inventory)
    BY <2>2, <2>3, <2>5 DEF InHand, EnrollAt, TrustAt, RefreshAt
  <2>7. Goto(p, "scan", j)
    BY <2>1
  <2> HIDE DEF j
  <2>q. QED
    BY <1>1, <2>1, <2>3, <2>4, <2>6, <2>7, MoveKeeps DEF MayTake
<1>q. QED
  BY <1>2, <1>3

LEMMA ScanEnrollKeeps == ASSUME IInv, NEW p \in Procs, ScanToEnroll(p) PROVE IInv'
<1> DEFINE stored == Scan(p, job[p].target)
           j == [job[p] EXCEPT !.record = stored]
<1>1. UNCHANGED <<inventory, cache, world>> /\ known' \subseteq Lines /\ pc[p] = "scan" /\ job[p].cmd = "enroll"
  BY DEF ScanToEnroll, files, IInv, TypeOK
<1>2. End(p) \/ (Goto(p, "connect", j) /\ lock' = lock)
  BY DEF ScanToEnroll
<1>3. InHand("scan", job[p], inventory) /\ job[p] \in Jobs
  BY <1>1 DEF IInv, TypeOK
<1>4. job[p].target \in Addresses
  BY <1>1, <1>3 DEF InHand, EnrollAt
<1>5. stored \in Lines
  BY <1>4 DEF Scan, Serves, IInv, TypeOK, Workers, Lines
<1>6. j \in Jobs /\ j.cmd = "enroll" /\ j.target = job[p].target /\ j.record = stored /\ "connect" \in Steps
  BY <1>1, <1>3, <1>5 DEF Jobs, Steps
<1>7. lock # p /\ ~HoldsAt("connect", j) /\ CacheReady("connect", j, cache)
  BY <1>1 DEF IInv, LockInv, HoldsAt, CacheReady
<1>8. InHand("connect", j, inventory)
  BY <1>4, <1>5, <1>6 DEF InHand, EnrollAt, Commands
<1> HIDE DEF j
<1>q. QED
  BY <1>1, <1>2, <1>6, <1>7, <1>8, MoveKeeps, EndKeeps DEF MayTake

LEMMA ScanTrustKeeps == ASSUME IInv, NEW p \in Procs, ScanToTrust(p) PROVE IInv'
<1> DEFINE record == [job[p].host EXCEPT !.pin = Scan(p, job[p].host.addr).pin]
           j == [job[p] EXCEPT !.record = record]
<1>1. UNCHANGED <<inventory, cache, world, lock>> /\ known' \subseteq Lines /\ pc[p] = "scan" /\ job[p].cmd = "trust"
      /\ Goto(p, "commit", j)
  BY DEF ScanToTrust, files, IInv, TypeOK
<1>2. InHand("scan", job[p], inventory) /\ job[p] \in Jobs
  BY <1>1 DEF IInv, TypeOK
<1>3. job[p].host \in Hosts
  BY <1>1, <1>2 DEF InHand, TrustAt
<1>4. Scan(p, job[p].host.addr).pin \in Keys
  BY <1>3 DEF Scan, Serves, IInv, TypeOK, Workers, Hosts
<1>5. record \in Hosts /\ record = [job[p].host EXCEPT !.pin = record.pin]
  BY <1>3, <1>4 DEF Hosts
<1> HIDE DEF record
<1>6. j \in Jobs /\ j.cmd = "trust" /\ j.host = job[p].host /\ j.record = record /\ "commit" \in Steps
  BY <1>1, <1>2, <1>5 DEF Jobs, Steps
<1>7. lock # p /\ ~HoldsAt("commit", j) /\ CacheReady("commit", j, cache)
  BY <1>1 DEF IInv, LockInv, HoldsAt, CacheReady
<1>8. InHand("commit", j, inventory)
  BY <1>3, <1>5, <1>6 DEF InHand, TrustAt, Commands
<1> HIDE DEF j
<1>q. QED
  BY <1>1, <1>6, <1>7, <1>8, MoveKeeps DEF MayTake

LEMMA SelectKeeps == ASSUME IInv, NEW p \in Procs, SelectHost(p) PROVE IInv'
<1>1. UNCHANGED <<inventory, cache, world>> /\ known' \subseteq Lines /\ pc[p] = "select" /\ lock = None
  BY DEF SelectHost, files, IInv, TypeOK
<1>2. CASE HostNamed(inventory, job[p].target) = {}
  BY <1>1, <1>2, EndKeeps DEF SelectHost
<1>3. CASE HostNamed(inventory, job[p].target) # {}
  <2>1. PICK host \in HostNamed(inventory, job[p].target) :
          Goto(p, "known_hosts", [job[p] EXCEPT !.host = host]) /\ lock' = p
    BY <1>3 DEF SelectHost
  <2> DEFINE j == [job[p] EXCEPT !.host = host]
  <2>2. host \in inventory /\ host \in Hosts
    BY DEF HostNamed, IInv, TypeOK
  <2>3. j \in Jobs /\ j.cmd = job[p].cmd /\ j.target = job[p].target /\ j.host = host /\ "known_hosts" \in Steps
    BY <2>2 DEF Jobs, IInv, TypeOK, Steps
  <2>4. StillIn(inventory, host)
    BY <2>2 DEF StillIn, Hosts
  <2>5. InHand("select", job[p], inventory)
    BY <1>1 DEF IInv
  <2>6. InHand("known_hosts", j, inventory)
    BY <2>2, <2>3, <2>4, <2>5 DEF InHand, EnrollAt, TrustAt, RefreshAt
  <2>7. HoldsAt("known_hosts", j) /\ CacheReady("known_hosts", j, cache)
    BY DEF HoldsAt, CacheReady
  <2>8. Goto(p, "known_hosts", j)
    BY <2>1
  <2> HIDE DEF j
  <2>q. QED
    BY <1>1, <2>1, <2>3, <2>6, <2>7, <2>8, MoveKeeps DEF MayTake
<1>q. QED
  BY <1>2, <1>3

LEMMA VerifyKeeps == ASSUME IInv, NEW p \in Procs, VerifyHostKey(p) PROVE IInv'
<1>1. UNCHANGED <<inventory, cache, world>> /\ known' \subseteq Lines /\ pc[p] = "connect"
  BY DEF VerifyHostKey, files, IInv, TypeOK
<1>2. End(p) \/ (Goto(p, "ssh", job[p]) /\ lock' = lock)
  BY DEF VerifyHostKey
<1>3. InHand("connect", job[p], inventory) /\ job[p] \in Jobs /\ "ssh" \in Steps
  BY <1>1 DEF IInv, TypeOK, Steps
<1>4. InHand("ssh", job[p], inventory)
  BY <1>3 DEF InHand, EnrollAt, TrustAt, RefreshAt
<1>5. lock # p /\ ~HoldsAt("ssh", job[p]) /\ CacheReady("ssh", job[p], cache)
  BY <1>1 DEF IInv, LockInv, HoldsAt, CacheReady
<1>q. QED
  BY <1>1, <1>2, <1>3, <1>4, <1>5, MoveKeeps, EndKeeps DEF MayTake

LEMMA ConnectEnrollKeeps == ASSUME IInv, NEW p \in Procs, ConnectToEnroll(p) PROVE IInv'
<1> DEFINE record == Served(job[p].target, job[p].record.pin)
           j == [job[p] EXCEPT !.record = record]
<1>1. UNCHANGED <<inventory, cache, world>> /\ known' \subseteq Lines /\ pc[p] = "ssh" /\ job[p].cmd = "enroll"
  BY DEF ConnectToEnroll, files, IInv, TypeOK
<1>2. End(p) \/ (Goto(p, "commit", j) /\ lock' = lock)
  BY DEF ConnectToEnroll
<1>3. InHand("ssh", job[p], inventory) /\ job[p] \in Jobs
  BY <1>1 DEF IInv, TypeOK
<1>4. job[p].target \in Addresses /\ job[p].record \in Lines
  BY <1>1, <1>3 DEF InHand, EnrollAt
<1>5. record \in Hosts
  BY <1>4 DEF Served, Serves, IInv, TypeOK, Workers, Lines, Hosts
<1> HIDE DEF record
<1>6. j \in Jobs /\ j.cmd = "enroll" /\ j.target = job[p].target /\ j.record = record /\ "commit" \in Steps
  BY <1>1, <1>3, <1>5 DEF Jobs, Steps
<1>7. lock # p /\ ~HoldsAt("commit", j) /\ CacheReady("commit", j, cache)
  BY <1>1 DEF IInv, LockInv, HoldsAt, CacheReady
<1>8. InHand("commit", j, inventory)
  BY <1>4, <1>5, <1>6 DEF InHand, EnrollAt, Commands
<1> HIDE DEF j
<1>q. QED
  BY <1>1, <1>2, <1>6, <1>7, <1>8, MoveKeeps, EndKeeps DEF MayTake

LEMMA ConnectHostKeeps == ASSUME IInv, NEW p \in Procs, ConnectToHost(p) PROVE IInv'
<1> DEFINE record == Served(job[p].host.addr, job[p].host.pin)
           j == [job[p] EXCEPT !.record = record]
<1>1. UNCHANGED <<inventory, cache, world>> /\ known' \subseteq Lines /\ pc[p] = "ssh" /\ job[p].cmd = "refresh"
  BY DEF ConnectToHost, files, IInv, TypeOK
<1>2. End(p) \/ (Bound(job[p].host, Serves(job[p].host.addr)) /\ Goto(p, "write_cache", j) /\ lock' = lock)
  BY DEF ConnectToHost
<1>3. InHand("ssh", job[p], inventory) /\ job[p] \in Jobs
  BY <1>1 DEF IInv, TypeOK
<1>4. job[p].host \in Hosts /\ StillIn(inventory, job[p].host)
  BY <1>1, <1>3 DEF InHand, RefreshAt
<1>5. CASE End(p)
  BY <1>1, <1>5, EndKeeps
<1>6. CASE Bound(job[p].host, Serves(job[p].host.addr)) /\ Goto(p, "write_cache", j) /\ lock' = lock
  <2>1. record = job[p].host
    BY <1>4, <1>6 DEF Served, Bound, Hosts
  <2>2. record \in Hosts /\ record = [job[p].host EXCEPT !.pin = record.pin]
    BY <1>4, <2>1 DEF Hosts
  <2> HIDE DEF record
  <2>3. j \in Jobs /\ j.cmd = "refresh" /\ j.host = job[p].host /\ j.record = record /\ "write_cache" \in Steps
    BY <1>1, <1>3, <2>2 DEF Jobs, Steps
  <2>4. lock # p /\ ~HoldsAt("write_cache", j) /\ CacheReady("write_cache", j, cache)
    BY <1>1, <2>3 DEF IInv, LockInv, HoldsAt, CacheReady
  <2>5. InHand("write_cache", j, inventory)
    BY <1>4, <2>2, <2>3 DEF InHand, RefreshAt, Commands
  <2> HIDE DEF j
  <2>q. QED
    BY <1>1, <1>6, <2>3, <2>4, <2>5, MoveKeeps DEF MayTake
<1>q. QED
  BY <1>2, <1>5, <1>6

LEMMA CommitEnrollKeeps == ASSUME IInv, NEW p \in Procs, CommitEnroll(p) PROVE IInv'
<1>1. UNCHANGED <<inventory, cache, world>> /\ known' \subseteq Lines /\ pc[p] = "commit" /\ job[p].cmd = "enroll"
      /\ lock = None
  BY DEF CommitEnroll, files, IInv, TypeOK
<1>2. End(p) \/ (MayUpsert(inventory, job[p].record) /\ Goto(p, "write_cache", job[p]) /\ lock' = p)
  BY DEF CommitEnroll
<1>3. InHand("commit", job[p], inventory) /\ job[p] \in Jobs /\ "write_cache" \in Steps
  BY <1>1 DEF IInv, TypeOK, Steps
<1>4. MayUpsert(inventory, job[p].record) => Clashes(inventory, job[p].record) \subseteq {job[p].record}
  BY DEF MayUpsert, Created
<1>5. MayUpsert(inventory, job[p].record) => InHand("write_cache", job[p], inventory)
  BY <1>1, <1>3, <1>4 DEF InHand, EnrollAt
<1>6. HoldsAt("write_cache", job[p]) /\ CacheReady("write_cache", job[p], cache)
  BY <1>1 DEF HoldsAt, CacheReady
<1>q. QED
  BY <1>1, <1>2, <1>3, <1>5, <1>6, MoveKeeps, EndKeeps DEF MayTake

LEMMA CommitTrustKeeps == ASSUME IInv, NEW p \in Procs, CommitTrust(p) PROVE IInv'
<1>1. UNCHANGED <<inventory, cache, world>> /\ known' \subseteq Lines /\ pc[p] = "commit" /\ job[p].cmd = "trust"
      /\ lock = None
  BY DEF CommitTrust, files, IInv, TypeOK
<1>2. End(p) \/ (job[p].host \in inventory /\ Goto(p, "write_inventory", job[p]) /\ lock' = p)
  BY DEF CommitTrust, MayReplace
<1>3. InHand("commit", job[p], inventory) /\ job[p] \in Jobs /\ "write_inventory" \in Steps
  BY <1>1 DEF IInv, TypeOK, Steps
<1>4. job[p].host \in inventory => InHand("write_inventory", job[p], inventory)
  BY <1>1, <1>3 DEF InHand, TrustAt
<1>5. HoldsAt("write_inventory", job[p]) /\ CacheReady("write_inventory", job[p], cache)
  BY <1>1 DEF HoldsAt, CacheReady
<1>q. QED
  BY <1>1, <1>2, <1>3, <1>4, <1>5, MoveKeeps, EndKeeps DEF MayTake

LEMMA RebuildKeeps == ASSUME IInv, NEW p \in Procs, RebuildKnownHosts(p), UNCHANGED world PROVE IInv'
<1>1. UNCHANGED <<inventory, cache, world>> /\ pc[p] = "known_hosts"
  BY DEF RebuildKnownHosts
<1>2. known' \subseteq Lines
  BY DEF RebuildKnownHosts, Rebuilt, KnownHosts, IInv, TypeOK, Hosts, Lines
<1>3. End(p) \/ (job[p].cmd = "refresh" /\ Goto(p, "connect", job[p]) /\ lock' = None)
  BY DEF RebuildKnownHosts, MayConnect
<1>4. lock = p
  BY <1>1 DEF IInv, LockInv, HoldsAt
<1>5. InHand("known_hosts", job[p], inventory) /\ job[p] \in Jobs /\ "connect" \in Steps
  BY <1>1 DEF IInv, TypeOK, Steps
<1>6. job[p].cmd = "refresh" => InHand("connect", job[p], inventory)
  BY <1>5 DEF InHand, RefreshAt
<1>7. ~HoldsAt("connect", job[p]) /\ CacheReady("connect", job[p], cache)
  BY DEF HoldsAt, CacheReady
<1>q. QED
  BY <1>1, <1>2, <1>3, <1>4, <1>5, <1>6, <1>7, NoneAssumption, MoveKeeps, EndKeeps DEF MayTake

LEMMA CheckCacheKeeps == ASSUME IInv, NEW p \in Procs, CheckCache(p), UNCHANGED world PROVE IInv'
<1>1. UNCHANGED <<inventory, cache, world>> /\ known' \subseteq Lines /\ pc[p] = "check_cache"
  BY DEF CheckCache, files, IInv, TypeOK
<1>2. CASE End(p)
  BY <1>1, <1>2, EndKeeps
<1>3. CASE cache[job[p].record.mid] = CacheOf(p) /\ job[p].cmd = "enroll" /\ Goto(p, AfterCache(p), job[p]) /\ lock' = lock
  <2>1. InHand("check_cache", job[p], inventory) /\ job[p] \in Jobs
    BY <1>1 DEF IInv, TypeOK
  <2>2. lock = p
    BY <1>1, <1>3 DEF IInv, LockInv, HoldsAt
  <2>3. AfterCache(p) \in {"write_inventory", "known_hosts"} /\ AfterCache(p) \in Steps
    BY DEF AfterCache, Steps
  <2>4. HoldsAt(AfterCache(p), job[p])
    BY <2>3 DEF HoldsAt
  <2>5. job[p].record \in Hosts
    BY <1>3, <2>1 DEF InHand, EnrollAt
  <2>6. CacheOf(p) # None
    BY <2>5, NoneAssumption DEF CacheOf, Caches, Hosts
  <2>7. CacheReady(AfterCache(p), job[p], cache)
    BY <1>3, <2>6 DEF CacheReady, HasCache, CacheOf
  <2>8. InHand(AfterCache(p), job[p], inventory)
    BY <1>3, <2>1, <2>3 DEF InHand, EnrollAt, AfterCache, Created
  <2>q. QED
    BY <1>1, <1>3, <2>1, <2>2, <2>3, <2>4, <2>7, <2>8, MoveKeeps DEF MayTake
<1>q. QED
  BY <1>2, <1>3 DEF CheckCache

(***************************************************************************)
(* The inventory is replaced.  The lock is held, so no other command is    *)
(* between its look under the lock and its write, and no host is lost.     *)
(***************************************************************************)
LEMMA NewInventoryFacts ==
  ASSUME IInv, NEW p \in Procs, pc[p] = "write_inventory"
  PROVE  /\ NewInventory(p) \subseteq Hosts /\ Distinct(NewInventory(p))
         /\ \A h \in NewInventory(p) : HasCache(h, cache)
         /\ \A h \in inventory : StillIn(NewInventory(p), h)
<1>1. InHand("write_inventory", job[p], inventory) /\ CacheReady("write_inventory", job[p], cache)
  BY DEF IInv
<1>2. inventory \subseteq Hosts /\ Distinct(inventory) /\ \A h \in inventory : HasCache(h, cache)
  BY DEF IInv, TypeOK, HostsDistinct
<1>3. CASE job[p].cmd = "enroll"
  <2>1. job[p].record \in Hosts /\ Clashes(inventory, job[p].record) = {} /\ HasCache(job[p].record, cache)
    BY <1>1, <1>3 DEF InHand, EnrollAt, CacheReady
  <2>2. NewInventory(p) = inventory \cup {job[p].record}
    BY <1>3 DEF NewInventory
  <2>3. Distinct(NewInventory(p))
    BY <1>2, <2>1, <2>2 DEF Distinct, Clashes
  <2>4. \A h \in inventory : StillIn(NewInventory(p), h)
    BY <1>2, <2>2 DEF StillIn, Hosts
  <2>q. QED
    BY <1>2, <2>1, <2>2, <2>3, <2>4
<1>4. CASE job[p].cmd = "trust"
  <2> DEFINE host == job[p].host
             record == job[p].record
  <2>1. /\ host \in inventory /\ host \in Hosts
        /\ record \in Hosts /\ record = [host EXCEPT !.pin = record.pin]
    BY <1>1, <1>4 DEF InHand, TrustAt
  <2>2. NewInventory(p) = Replaced(inventory, host, record)
    BY <1>4 DEF NewInventory
  <2>3. record.name = host.name /\ record.mid = host.mid /\ record.addr = host.addr
    BY <2>1 DEF Hosts
  <2>4. HostNamed(inventory, host.name) = {host}
    BY <1>2, <2>1 DEF HostNamed, Distinct
  <2> HIDE DEF host, record
  <2>5. NewInventory(p) = (inventory \ {host}) \cup {record}
    BY <2>2, <2>4 DEF Replaced
  <2>6. Distinct(NewInventory(p))
    BY <1>2, <2>1, <2>3, <2>5 DEF Distinct
  <2>7. ASSUME NEW h \in inventory PROVE StillIn(NewInventory(p), h)
    <3>1. CASE h = host
      BY <2>1, <2>5, <3>1 DEF StillIn
    <3>2. CASE h # host
      BY <1>2, <2>5, <3>2 DEF StillIn, Hosts
    <3>q. QED
      BY <3>1, <3>2
  <2>8. HasCache(record, cache)
    BY <1>2, <2>1, <2>3 DEF HasCache
  <2>q. QED
    BY <1>2, <2>1, <2>5, <2>6, <2>7, <2>8
<1>q. QED
  BY <1>1, <1>3, <1>4 DEF InHand, RefreshAt, Commands

\* Nothing was lost, so what a command found enrolled still is.
LEMMA StillInMoves ==
  ASSUME NEW old \in SUBSET Hosts, NEW new \in SUBSET Hosts, \A h \in old : StillIn(new, h),
         NEW host \in Hosts, StillIn(old, host)
  PROVE  StillIn(new, host)
<1>1. PICK h \in old : h = [host EXCEPT !.pin = h.pin]
  BY DEF StillIn
<1>2. PICK later \in new : later = [h EXCEPT !.pin = later.pin]
  BY DEF StillIn
<1>3. h \in Hosts /\ later \in Hosts
  OBVIOUS
<1>4. later = [host EXCEPT !.pin = later.pin]
  BY <1>1, <1>2, <1>3 DEF Hosts
<1>q. QED
  BY <1>4 DEF StillIn

\* A command without the lock does not mind that the inventory is replaced.
LEMMA OthersKeep ==
  ASSUME IInv, NEW new \in SUBSET Hosts, \A h \in inventory : StillIn(new, h),
         NEW q \in Procs, lock # q,
         NEW j \in Jobs, j.cmd = job[q].cmd, j.target = job[q].target, j.host = job[q].host,
         j.record = job[q].record
  PROVE  InHand(pc[q], j, new) /\ CacheReady(pc[q], j, cache)
<1>1. InHand(pc[q], job[q], inventory) /\ ~HoldsAt(pc[q], job[q]) /\ inventory \subseteq Hosts
  BY DEF IInv, LockInv, TypeOK
<1>2. pc[q] # "write_inventory"
  BY <1>1 DEF HoldsAt
<1>3. pc[q] # "idle" /\ j.cmd = "enroll" => EnrollAt(pc[q], j, new)
  BY <1>1, <1>2 DEF InHand, EnrollAt, HoldsAt
<1>4. pc[q] # "idle" /\ j.cmd = "trust" => TrustAt(pc[q], j, new)
  BY <1>1, <1>2 DEF InHand, TrustAt
<1>5. ASSUME pc[q] # "idle", j.cmd = "refresh" PROVE RefreshAt(pc[q], j, new)
  <2>1. RefreshAt(pc[q], job[q], inventory)
    BY <1>1, <1>5 DEF InHand
  <2>2. pc[q] \in {"known_hosts", "connect", "ssh", "write_cache", "check_cache"} => StillIn(new, j.host)
    BY <1>1, <2>1, StillInMoves DEF RefreshAt
  <2>q. QED
    BY <2>1, <2>2 DEF RefreshAt
<1>q. QED
  BY <1>1, <1>2, <1>3, <1>4, <1>5 DEF InHand, CacheReady

LEMMA ReplaceInventoryKeeps ==
  ASSUME IInv, NEW p \in Procs, ReplaceInventory(p), UNCHANGED world
  PROVE  IInv'
<1>1. pc[p] = "write_inventory" /\ UNCHANGED <<known, cache, world>> /\ job \in [Procs -> Jobs]
      /\ pc \in [Procs -> Steps]
  BY DEF ReplaceInventory, IInv, TypeOK
<1>2. lock = p
  BY <1>1 DEF IInv, LockInv, HoldsAt
<1>3. PICK outcome \in Outcomes :
        LET readers == IF Happened(outcome) THEN DisturbReaders ELSE job
        IN /\ inventory' = IF Happened(outcome) THEN NewInventory(p) ELSE inventory
           /\ IF outcome = "done"
              THEN /\ pc' = [pc EXCEPT ![p] = "known_hosts"] /\ job' = readers
                   /\ UNCHANGED lock
              ELSE /\ pc' = [pc EXCEPT ![p] = "idle"] /\ job' = [readers EXCEPT ![p] = Idle]
                   /\ lock' = None
  BY DEF ReplaceInventory
<1>4. CASE ~Happened(outcome)
  <2>1. End(p) /\ UNCHANGED inventory
    BY <1>2, <1>3, <1>4 DEF Happened, End, Goto
  <2>2. known' \subseteq Lines
    BY <1>1 DEF IInv, TypeOK
  <2>q. QED
    BY <1>1, <2>1, <2>2, EndKeeps
<1>5. CASE Happened(outcome)
  <2>1. inventory' = NewInventory(p)
    BY <1>3, <1>5
  <2>2. /\ inventory' \subseteq Hosts /\ Distinct(inventory')
        /\ \A h \in inventory' : HasCache(h, cache)
        /\ \A h \in inventory : StillIn(inventory', h)
    BY <1>1, <2>1, NewInventoryFacts
  <2>3. /\ DisturbReaders \in [Procs -> Jobs]
        /\ \A q \in Procs : /\ DisturbReaders[q].cmd = job[q].cmd /\ DisturbReaders[q].target = job[q].target
                            /\ DisturbReaders[q].host = job[q].host /\ DisturbReaders[q].record = job[q].record
    BY <1>1 DEF DisturbReaders, Jobs
  <2>4. Idle \in Jobs
    BY DEF Idle, Jobs
  <2>5. /\ pc' \in [Procs -> Steps] /\ job' \in [Procs -> Jobs]
        /\ \A q \in Procs : q # p => pc'[q] = pc[q] /\ job'[q] = DisturbReaders[q]
        /\ \/ pc'[p] = "known_hosts" /\ job'[p] = DisturbReaders[p] /\ lock' = p
           \/ pc'[p] = "idle" /\ job'[p] = Idle /\ lock' = None
    BY <1>1, <1>2, <1>3, <1>5, <2>3, <2>4 DEF Steps
  <2>6. TypeOK'
    BY <1>1, <2>2, <2>5 DEF IInv, TypeOK
  <2>7. \A q \in Procs : q # p => lock # q /\ lock' # q
    BY <1>2, <2>5, NoneAssumption
  <2>8. LockInv'
    <3> SUFFICES ASSUME NEW q \in Procs PROVE HoldsAt(pc'[q], job'[q]) <=> lock' = q
      BY DEF LockInv
    <3>1. CASE q = p
      BY <2>5, <3>1, NoneAssumption DEF HoldsAt
    <3>2. CASE q # p
      BY <2>3, <2>5, <2>7, <3>2 DEF IInv, LockInv, HoldsAt
    <3>q. QED
      BY <3>1, <3>2
  <2>9. ASSUME NEW q \in Procs
        PROVE  InHand(pc'[q], job'[q], inventory') /\ CacheReady(pc'[q], job'[q], cache')
    <3>1. CASE q = p
      <4>1. InHand("write_inventory", job[p], inventory)
        BY <1>1 DEF IInv
      <4>2. pc'[p] = "known_hosts" /\ job'[p] = DisturbReaders[p] => InHand(pc'[p], job'[p], inventory')
        BY <2>3, <4>1 DEF InHand, EnrollAt, TrustAt, RefreshAt
      <4>3. pc'[p] = "idle" => InHand(pc'[p], job'[p], inventory')
        BY DEF InHand
      <4>q. QED
        BY <2>5, <3>1, <4>2, <4>3 DEF CacheReady
    <3>2. CASE q # p
      BY <1>1, <2>2, <2>3, <2>5, <2>7, <3>2, OthersKeep
    <3>q. QED
      BY <3>1, <3>2
  <2>q. QED
    BY <1>1, <2>2, <2>6, <2>8, <2>9 DEF IInv, HostsDistinct
<1>q. QED
  BY <1>4, <1>5

(***************************************************************************)
(* A cache is written, by an enrollment under the lock or by a refresh     *)
(* without it.                                                             *)
(***************************************************************************)
LEMMA WriteCacheKeeps ==
  ASSUME IInv, NEW p \in Procs, WriteCache(p), UNCHANGED world
  PROVE  IInv'
<1> DEFINE record == job[p].record
           written == [cache EXCEPT ![record.mid] = CacheOf(p)]
<1>1. UNCHANGED <<inventory, known, world>> /\ pc[p] = "write_cache" /\ known \subseteq Lines
      /\ inventory \subseteq Hosts /\ cache \in [MachineIds -> Caches \cup {None}] /\ job[p] \in Jobs
  BY DEF WriteCache, IInv, TypeOK
<1>2. InHand("write_cache", job[p], inventory) /\ Distinct(inventory)
  BY <1>1 DEF IInv, HostsDistinct
<1>3. \/ job[p].cmd = "enroll" /\ lock = p
      \/ job[p].cmd = "refresh" /\ lock # p
  BY <1>1, <1>2 DEF InHand, TrustAt, Commands, IInv, LockInv, HoldsAt
<1>4. record \in Hosts
  BY <1>2, <1>3 DEF InHand, EnrollAt, RefreshAt
<1>5. \A h \in inventory : h.mid = record.mid => h.name = record.name /\ h.addr = record.addr
  <2>1. CASE job[p].cmd = "enroll"
    <3>1. Clashes(inventory, record) \subseteq {record}
      BY <1>2, <2>1 DEF InHand, EnrollAt
    <3>q. QED
      BY <3>1 DEF Clashes
  <2>2. CASE job[p].cmd = "refresh"
    <3>1. /\ job[p].host \in Hosts /\ StillIn(inventory, job[p].host)
          /\ record = [job[p].host EXCEPT !.pin = record.pin]
      BY <1>2, <2>2 DEF InHand, RefreshAt
    <3>2. PICK h \in inventory : h = [job[p].host EXCEPT !.pin = h.pin]
      BY <3>1 DEF StillIn
    <3>3. h.mid = record.mid /\ h.name = record.name /\ h.addr = record.addr
      BY <3>1, <3>2 DEF Hosts
    <3>q. QED
      BY <1>2, <3>3 DEF Distinct
  <2>q. QED
    BY <1>3, <2>1, <2>2
<1>6. ASSUME job[p].cmd = "refresh" PROVE \E h \in inventory : h.mid = record.mid
  <2>1. /\ job[p].host \in Hosts /\ StillIn(inventory, job[p].host)
        /\ record = [job[p].host EXCEPT !.pin = record.pin]
    BY <1>2, <1>6 DEF InHand, RefreshAt
  <2>2. PICK h \in inventory : h = [job[p].host EXCEPT !.pin = h.pin]
    BY <2>1 DEF StillIn
  <2>3. h.mid = record.mid
    BY <2>1, <2>2 DEF Hosts
  <2>q. QED
    BY <2>3
<1>7. /\ CacheOf(p) \in Caches /\ CacheOf(p) # None
      /\ CacheOf(p).name = record.name /\ CacheOf(p).addr = record.addr /\ record.mid \in MachineIds
  BY <1>4, NoneAssumption DEF CacheOf, Caches, Hosts
<1> HIDE DEF record
<1>8. cache' = cache \/ cache' = written
  BY DEF WriteCache, record
<1>9. cache' \in [MachineIds -> Caches \cup {None}]
  BY <1>1, <1>7, <1>8
<1>10. ASSUME NEW h \in inventory PROVE HasCache(h, cache')
  <2>1. h \in Hosts /\ HasCache(h, cache)
    BY <1>1 DEF IInv
  <2>2. CASE h.mid = record.mid
    BY <1>1, <1>5, <1>7, <1>8, <2>1, <2>2 DEF HasCache, Hosts
  <2>3. CASE h.mid # record.mid
    BY <1>1, <1>7, <1>8, <2>1, <2>3 DEF HasCache, Hosts
  <2>q. QED
    BY <2>2, <2>3
<1>11. ASSUME NEW q \in Procs, pc[q] = "write_inventory", job[q].cmd = "enroll"
       PROVE  HasCache(job[q].record, cache')
  <2>1. lock = q /\ q # p
    BY <1>1, <1>11 DEF IInv, LockInv, HoldsAt
  <2>2. job[p].cmd = "refresh"
    BY <1>3, <2>1
  <2>3. InHand("write_inventory", job[q], inventory) /\ HasCache(job[q].record, cache)
    BY <1>11 DEF IInv, CacheReady
  <2>4. job[q].record \in Hosts /\ Clashes(inventory, job[q].record) = {}
    BY <1>11, <2>3 DEF InHand, EnrollAt
  <2>5. job[q].record.mid # record.mid
    BY <1>6, <2>2, <2>4 DEF Clashes
  <2>q. QED
    BY <1>1, <1>7, <1>8, <2>3, <2>4, <2>5 DEF HasCache, Hosts
<1>12. PICK step \in Steps, j \in Jobs :
         /\ Goto(p, step, j) /\ MayTake(p) /\ (HoldsAt(step, j) <=> lock' = p)
         /\ InHand(step, j, inventory) /\ step # "write_inventory"
  <2>1. CASE End(p)
    <3>1. Goto(p, "idle", Idle) /\ MayTake(p) /\ lock' # p
      BY <2>1, NoneAssumption DEF End, MayTake
    <3>2. Idle \in Jobs /\ "idle" \in Steps /\ ~HoldsAt("idle", Idle) /\ InHand("idle", Idle, inventory)
      BY DEF Idle, Jobs, Steps, HoldsAt, InHand
    <3>q. QED
      BY <3>1, <3>2
  <2>2. CASE Goto(p, "check_cache", job[p]) /\ lock' = lock
    <3>1. "check_cache" \in Steps /\ (HoldsAt("check_cache", job[p]) <=> lock' = p)
      BY <1>3, <2>2 DEF Steps, HoldsAt
    <3>2. InHand("check_cache", job[p], inventory)
      BY <1>2, <1>3 DEF InHand, EnrollAt, RefreshAt
    <3>q. QED
      BY <1>1, <2>2, <3>1, <3>2 DEF MayTake
  <2>q. QED
    BY <2>1, <2>2 DEF WriteCache
<1>13. /\ pc' \in [Procs -> Steps] /\ job' \in [Procs -> Jobs]
       /\ lock' \in Procs \cup {None} /\ LockInv'
       /\ pc'[p] = step /\ job'[p] = j
       /\ \A q \in Procs : q # p => pc'[q] = pc[q] /\ job'[q] = job[q]
  BY <1>12, GotoKeeps
<1>14. TypeOK'
  BY <1>1, <1>9, <1>13 DEF IInv, TypeOK
<1>15. ASSUME NEW q \in Procs
       PROVE  InHand(pc'[q], job'[q], inventory) /\ CacheReady(pc'[q], job'[q], cache')
  <2>1. CASE q = p
    BY <1>12, <1>13, <2>1 DEF CacheReady
  <2>2. CASE q # p
    BY <1>11, <1>13, <2>2 DEF IInv, CacheReady
  <2>q. QED
    BY <2>1, <2>2
<1>q. QED
  BY <1>1, <1>2, <1>10, <1>13, <1>14, <1>15 DEF IInv, HostsDistinct

LEMMA WorkerChangesKeeps == ASSUME IInv, WorkerChanges PROVE IInv'
<1>1. world' \in [at : [Addresses -> Workers], fresh : SUBSET MachineIds]
  <2>1. PICK addr \in Addresses : Rekey(addr) \/ Remint(addr) \/ Rename(addr)
    BY DEF WorkerChanges
  <2>2. /\ world \in [at : [Addresses -> Workers], fresh : SUBSET MachineIds]
        /\ world.at[addr] \in Workers /\ world.at \in [Addresses -> Workers]
    BY DEF IInv, TypeOK
  <2>3. CASE Rekey(addr)
    <3>1. world.at[addr].key + 1 \in Keys
      BY <2>2, <2>3, LimitsAssumption DEF Rekey, Serves, Workers, Keys
    <3>q. QED
      BY <2>2, <2>3, <3>1 DEF Rekey, Workers
  <2>4. CASE Remint(addr)
    <3>1. PICK mid \in world.fresh :
            world' = [world EXCEPT !.at[addr].mid = mid, !.fresh = @ \ {mid}]
      BY <2>4 DEF Remint
    <3>2. mid \in MachineIds
      BY <2>2
    <3>q. QED
      BY <2>2, <3>1, <3>2 DEF Workers
  <2>5. CASE Rename(addr)
    BY <2>2, <2>5 DEF Rename, Workers
  <2>q. QED
    BY <2>1, <2>3, <2>4, <2>5
<1>2. UNCHANGED <<inventory, known, cache, lock, pc, job>>
  BY DEF WorkerChanges
<1>q. QED
  BY <1>1, <1>2 DEF IInv, TypeOK, LockInv, HostsDistinct

LEMMA StepIInv == IInv /\ [Next]_vars => IInv'
<1> SUFFICES ASSUME IInv, [Next]_vars PROVE IInv'
  OBVIOUS
<1>1. CASE UNCHANGED vars
  BY <1>1 DEF vars, IInv, TypeOK, LockInv, HostsDistinct
<1>2. ASSUME NEW p \in Procs, Step(p) PROVE IInv'
  BY <1>2, OpenKeeps, ReplaceInventoryKeeps, RebuildKeeps, WriteCacheKeeps, CheckCacheKeeps, ReadKeeps,
     ScanEnrollKeeps, ScanTrustKeeps, SelectKeeps, VerifyKeeps, ConnectEnrollKeeps, ConnectHostKeeps,
     CommitEnrollKeeps, CommitTrustKeeps, GiveUpKeeps
     DEF Step
<1>3. ASSUME NEW p \in Procs, Crash(p) PROVE IInv'
  BY <1>3, GiveUpKeeps
<1>4. ASSUME NEW p \in Procs, NEW addr \in Addresses, Start(p, "enroll", addr) PROVE IInv'
  BY <1>4, StartKeeps DEF Commands
<1>5. ASSUME NEW p \in Procs, NEW name \in Names, NEW cmd \in Commands \ {"enroll"}, Start(p, cmd, name)
      PROVE  IInv'
  BY <1>5, StartKeeps
<1>q. QED
  BY <1>1, <1>2, <1>3, <1>4, <1>5, WorkerChangesKeeps DEF Next

THEOREM Inductive == Spec => []IInv
<1>1. Init => IInv
  BY InitIInv
<1>2. IInv /\ [Next]_vars => IInv'
  BY StepIInv
<1>q. QED
  BY <1>1, <1>2, PTL DEF Spec

(***************************************************************************)
(* The properties.                                                         *)
(***************************************************************************)
\* Type correctness for every value of the constants.
THEOREM TypeCorrect == Spec => []TypeOK
<1>1. IInv => TypeOK
  BY DEF IInv
<1>q. QED
  BY <1>1, Inductive, PTL

\* However many enrollments race, no alias and no machine id is enrolled twice.
THEOREM Distinctness == Spec => []HostsDistinct
<1>1. IInv => HostsDistinct
  BY DEF IInv
<1>q. QED
  BY <1>1, Inductive, PTL

\* A host in the inventory has the cache of its own manifest, though refreshes write
\* caches without the lock and crashes leave caches of hosts never enrolled.
THEOREM CachesAreOfTheirHosts == Spec => []CachesBelong
<1>1. IInv => CachesBelong
  BY DEF IInv, HasCache, CachesBelong
<1>q. QED
  BY <1>1, Inductive, PTL

(***************************************************************************)
(* Refinement.  The view of a command is the record it looked at.          *)
(***************************************************************************)
view == [p \in Procs |-> job[p].host]

\* A step that leaves the inventory alone looks at a host, forgets it, or neither.
LEMMA LookOrStutter ==
  ASSUME IInv, NEW p \in Procs, NEW step, NEW j, Goto(p, step, j), inventory' = inventory,
         j.host \in inventory \cup {None} \/ j.host = job[p].host
  PROVE  [Table!Next]_<<inventory, view>>
<1>1. view' = [view EXCEPT ![p] = j.host]
  BY DEF view, Goto, IInv, TypeOK
<1>2. CASE j.host \in inventory \cup {None}
  <2>1. Table!Look(p)
    BY <1>1, <1>2 DEF Table!Look, view
  <2>q. QED
    BY <2>1 DEF Table!Next
<1>3. CASE j.host = job[p].host
  <2>1. view' = view
    BY <1>1, <1>3 DEF view
  <2>q. QED
    BY <2>1
<1>q. QED
  BY <1>2, <1>3

LEMMA EndRefines ==
  ASSUME IInv, NEW p \in Procs, End(p), inventory' = inventory
  PROVE  [Table!Next]_<<inventory, view>>
<1>1. Goto(p, "idle", Idle) /\ Idle.host = None
  BY DEF End, Idle
<1>q. QED
  BY <1>1, LookOrStutter

\* The one action that writes the inventory adds a host or swaps a pin.
LEMMA ReplaceRefines ==
  ASSUME IInv, NEW p \in Procs, ReplaceInventory(p)
  PROVE  [Table!Next]_<<inventory, view>>
<1>1. pc[p] = "write_inventory" /\ job \in [Procs -> Jobs]
  BY DEF ReplaceInventory, IInv, TypeOK
<1>2. PICK outcome \in Outcomes :
        LET readers == IF Happened(outcome) THEN DisturbReaders ELSE job
        IN /\ inventory' = IF Happened(outcome) THEN NewInventory(p) ELSE inventory
           /\ job' = IF outcome = "done" THEN readers ELSE [readers EXCEPT ![p] = Idle]
  BY DEF ReplaceInventory
<1>3. \A q \in Procs : DisturbReaders[q].host = job[q].host
  BY <1>1 DEF DisturbReaders, Jobs
<1>4. DisturbReaders \in [Procs -> Jobs]
  BY <1>1 DEF DisturbReaders, Jobs
<1>5. view' = view \/ view' = [view EXCEPT ![p] = None]
  BY <1>1, <1>2, <1>3, <1>4 DEF view, Idle
<1>6. Table!Done(p)
  BY <1>5 DEF Table!Done, view
<1>7. CASE ~Happened(outcome)
  <2>1. inventory' = inventory
    BY <1>2, <1>7
  <2>2. view' = view \/ Table!Look(p)
    BY <1>5, <2>1 DEF Table!Look, view
  <2>q. QED
    BY <2>1, <2>2 DEF Table!Next
<1>8. CASE Happened(outcome)
  <2>1. inventory' = NewInventory(p)
    BY <1>2, <1>8
  <2>2. InHand("write_inventory", job[p], inventory)
    BY <1>1 DEF IInv
  <2>3. CASE job[p].cmd = "enroll"
    <3>1. job[p].record \in Hosts /\ Clashes(inventory, job[p].record) = {}
      BY <2>2, <2>3 DEF InHand, EnrollAt
    <3>2. inventory' = inventory \cup {job[p].record}
      BY <2>1, <2>3 DEF NewInventory
    <3>3. \A other \in inventory : other.name # job[p].record.name /\ other.mid # job[p].record.mid
      BY <3>1 DEF Clashes
    <3>4. Table!Enroll(p)
      BY <1>6, <3>1, <3>2, <3>3 DEF Table!Enroll
    <3>q. QED
      BY <3>4 DEF Table!Next
  <2>4. CASE job[p].cmd = "trust"
    <3>1. /\ job[p].host \in inventory /\ job[p].record \in Hosts
          /\ job[p].record = [job[p].host EXCEPT !.pin = job[p].record.pin]
      BY <2>2, <2>4 DEF InHand, TrustAt
    <3>2. HostNamed(inventory, job[p].host.name) = {job[p].host}
      BY <3>1 DEF HostNamed, IInv, HostsDistinct, Distinct
    <3>3. inventory' = (inventory \ {job[p].host}) \cup {job[p].record}
      BY <2>1, <2>4, <3>2 DEF NewInventory, Replaced
    <3>4. view[p] = job[p].host
      BY DEF view
    <3>5. Table!Trust(p)
      BY <1>6, <3>1, <3>3, <3>4 DEF Table!Trust, view
    <3>q. QED
      BY <3>5 DEF Table!Next
  <2>q. QED
    BY <1>1, <2>2, <2>3, <2>4 DEF InHand, RefreshAt, Commands
<1>q. QED
  BY <1>7, <1>8

LEMMA StepRefines ==
  ASSUME IInv, [Next]_vars
  PROVE  [Table!Next]_<<inventory, view>>
<1>1. CASE UNCHANGED vars \/ WorkerChanges
  BY <1>1 DEF vars, WorkerChanges, view
<1>2. ASSUME NEW p \in Procs, NEW cmd \in Commands, NEW target, Start(p, cmd, target)
      PROVE  [Table!Next]_<<inventory, view>>
  <2>1. [Idle EXCEPT !.cmd = cmd, !.target = target].host = None
    BY DEF Idle
  <2>q. QED
    BY <1>2, <2>1, LookOrStutter DEF Start, files
<1>3. ASSUME NEW p \in Procs, Crash(p) \/ GiveUp(p) PROVE [Table!Next]_<<inventory, view>>
  BY <1>3, EndRefines DEF Crash, GiveUp, files
<1>4. ASSUME NEW p \in Procs,
             OpenInventory(p) \/ RebuildKnownHosts(p) \/ WriteCache(p) \/ CheckCache(p)
      PROVE  [Table!Next]_<<inventory, view>>
  <2>1. [job[p] EXCEPT !.disturbed = FALSE].host = job[p].host
    BY DEF IInv, TypeOK, Jobs
  <2>2. inventory' = inventory
    BY <1>4 DEF OpenInventory, RebuildKnownHosts, WriteCache, CheckCache, files
  <2>3. PICK step, j : End(p) \/ (Goto(p, step, j) /\ j.host = job[p].host)
    BY <1>4, <2>1 DEF OpenInventory, RebuildKnownHosts, WriteCache, CheckCache
  <2>q. QED
    BY <2>2, <2>3, EndRefines, LookOrStutter
<1>5. ASSUME NEW p \in Procs, ReadInventory(p) \/ SelectHost(p) PROVE [Table!Next]_<<inventory, view>>
  <2>1. inventory' = inventory
    BY <1>5 DEF ReadInventory, SelectHost, files
  <2>2. PICK step, j : End(p) \/ (Goto(p, step, j) /\ j.host \in inventory \cup {None})
    <3>1. \A host : [job[p] EXCEPT !.snapshot = inventory, !.host = host].host = host
      BY DEF IInv, TypeOK, Jobs
    <3>2. \A host : [job[p] EXCEPT !.host = host].host = host
      BY DEF IInv, TypeOK, Jobs
    <3>3. LookedUp(p) \subseteq inventory /\ HostNamed(inventory, job[p].target) \subseteq inventory
      BY DEF LookedUp, Matches, HostNamed
    <3>4. CASE ReadInventory(p)
      <4>1. CASE job[p].disturbed \/ ~MayGoOn(p)
        BY <3>4, <4>1 DEF ReadInventory
      <4>2. CASE ~(job[p].disturbed \/ ~MayGoOn(p))
        <5>1. PICK host \in IF LookedUp(p) = {} THEN {None} ELSE LookedUp(p) :
                Goto(p, "scan", [job[p] EXCEPT !.snapshot = inventory, !.host = host])
          BY <3>4, <4>2 DEF ReadInventory
        <5>2. host \in inventory \cup {None}
          BY <3>3
        <5>q. QED
          BY <3>1, <5>1, <5>2
      <4>q. QED
        BY <4>1, <4>2
    <3>5. CASE SelectHost(p)
      <4>1. CASE HostNamed(inventory, job[p].target) = {}
        BY <3>5, <4>1 DEF SelectHost
      <4>2. CASE HostNamed(inventory, job[p].target) # {}
        <5>1. PICK host \in HostNamed(inventory, job[p].target) :
                Goto(p, "known_hosts", [job[p] EXCEPT !.host = host])
          BY <3>5, <4>2 DEF SelectHost
        <5>q. QED
          BY <3>2, <3>3, <5>1
      <4>q. QED
        BY <4>1, <4>2
    <3>q. QED
      BY <1>5, <3>4, <3>5
  <2>q. QED
    BY <2>1, <2>2, EndRefines, LookOrStutter
<1>6. ASSUME NEW p \in Procs,
             \/ ScanToEnroll(p) \/ ScanToTrust(p) \/ VerifyHostKey(p) \/ ConnectToEnroll(p)
             \/ ConnectToHost(p) \/ CommitEnroll(p) \/ CommitTrust(p)
      PROVE  [Table!Next]_<<inventory, view>>
  <2>1. inventory' = inventory
    BY <1>6 DEF ScanToEnroll, ScanToTrust, VerifyHostKey, ConnectToEnroll, ConnectToHost, CommitEnroll,
                CommitTrust, files
  <2>2. \A record : [job[p] EXCEPT !.record = record].host = job[p].host
    BY DEF IInv, TypeOK, Jobs
  <2>3. PICK step, j : End(p) \/ (Goto(p, step, j) /\ j.host = job[p].host)
    BY <1>6, <2>2 DEF ScanToEnroll, ScanToTrust, VerifyHostKey, ConnectToEnroll, ConnectToHost,
                      CommitEnroll, CommitTrust
  <2>q. QED
    BY <2>1, <2>3, EndRefines, LookOrStutter
<1>q. QED
  BY <1>1, <1>2, <1>3, <1>4, <1>5, <1>6, ReplaceRefines DEF Next, Step, Commands

\* Every command, failing and crashing ones included, is to the inventory an
\* enrollment of a new host or a compare-and-swap of one pin.
THEOREM TableImplemented == Spec => ImplementsTable
<1>1. Init => Table!Init
  BY DEF Init, Table!Init, Idle
<1>2. IInv /\ [Next]_vars => [Table!Next]_<<inventory, view>>
  BY StepRefines
<1>3. view = [p \in Procs |-> job[p].host]
  BY DEF view
<1>q. QED
  BY <1>1, <1>2, <1>3, Inductive, PTL DEF Spec, ImplementsTable, Table!Spec, view

(***************************************************************************)
(* Pins.  The key of an address only moves on, so a pin in the inventory   *)
(* or in hand is at most the key that is served, and the pin `trust` has   *)
(* scanned is at least that of the record it saw.                          *)
(***************************************************************************)
AtMost(record, at) == record.pin <= at[record.addr].key

Seen(step, j, at) ==
  /\ j.cmd = "enroll" /\ step \in {"connect", "ssh"} =>
       j.record.addr = j.target /\ AtMost(j.record, at)
  /\ j.cmd = "enroll" /\ step \in {"commit", "write_cache", "check_cache", "write_inventory"} =>
       AtMost(j.record, at)
  /\ j.cmd = "trust" /\ step = "scan" => AtMost(j.host, at)
  /\ j.cmd = "trust" /\ step \in {"commit", "write_inventory"} =>
       j.host.pin <= j.record.pin /\ AtMost(j.record, at)

PinInv ==
  /\ \A h \in inventory : AtMost(h, world.at)
  /\ \A p \in Procs : Seen(pc[p], job[p], world.at)

LEMMA PinGoto ==
  ASSUME IInv, PinInv, NEW p \in Procs, NEW step, NEW j, Goto(p, step, j),
         inventory' = inventory, world' = world, Seen(step, j, world.at)
  PROVE  PinInv'
<1>1. \A q \in Procs : q # p => pc'[q] = pc[q] /\ job'[q] = job[q]
  BY DEF Goto, IInv, TypeOK
<1>2. pc'[p] = step /\ job'[p] = j
  BY DEF Goto, IInv, TypeOK
<1>q. QED
  BY <1>1, <1>2 DEF PinInv

LEMMA PinEnd ==
  ASSUME IInv, PinInv, NEW p \in Procs, End(p), inventory' = inventory, world' = world
  PROVE  PinInv'
<1>1. Goto(p, "idle", Idle) /\ Seen("idle", Idle, world.at)
  BY DEF End, Seen
<1>q. QED
  BY <1>1, PinGoto

\* A step to which what the command had in hand is enough.
LEMMA PinMove ==
  ASSUME IInv, PinInv, NEW p \in Procs, NEW step, Goto(p, step, job[p]),
         inventory' = inventory, world' = world,
         \/ pc[p] = "connect" /\ step = "ssh"
         \/ pc[p] = "commit" /\ job[p].cmd = "enroll" /\ step = "write_cache"
         \/ pc[p] = "commit" /\ job[p].cmd = "trust" /\ step = "write_inventory"
         \/ pc[p] = "write_cache" /\ step = "check_cache"
         \/ pc[p] = "check_cache" /\ step \in {"write_inventory", "known_hosts"} /\ job[p].cmd = "enroll"
         \/ pc[p] = "known_hosts" /\ step = "connect" /\ job[p].cmd = "refresh"
  PROVE  PinInv'
<1>1. Seen(step, job[p], world.at)
  BY DEF PinInv, Seen
<1>q. QED
  BY <1>1, PinGoto

LEMMA PinRead == ASSUME IInv, PinInv, NEW p \in Procs, ReadInventory(p) PROVE PinInv'
<1>1. UNCHANGED <<inventory, world>> /\ pc[p] = "read"
  BY DEF ReadInventory, files
<1>2. CASE End(p)
  BY <1>1, <1>2, PinEnd
<1>3. CASE ~End(p)
  <2>1. PICK host \in IF LookedUp(p) = {} THEN {None} ELSE LookedUp(p) :
          Goto(p, "scan", [job[p] EXCEPT !.snapshot = inventory, !.host = host]) /\ MayGoOn(p)
    BY <1>3 DEF ReadInventory
  <2> DEFINE j == [job[p] EXCEPT !.snapshot = inventory, !.host = host]
  <2>2. j.cmd = job[p].cmd /\ j.host = host
    BY DEF IInv, TypeOK, Jobs
  <2>3. j.cmd = "trust" => host \in inventory
    BY <2>1, <2>2 DEF MayGoOn, LookedUp, HostNamed
  <2>4. Seen("scan", j, world.at)
    BY <2>2, <2>3 DEF Seen, PinInv
  <2>5. Goto(p, "scan", j)
    BY <2>1
  <2> HIDE DEF j
  <2>q. QED
    BY <1>1, <2>4, <2>5, PinGoto
<1>q. QED
  BY <1>2, <1>3

LEMMA PinScan ==
  ASSUME IInv, PinInv, NEW p \in Procs, ScanToEnroll(p) \/ ScanToTrust(p)
  PROVE  PinInv'
<1>1. UNCHANGED <<inventory, world>> /\ pc[p] = "scan" /\ job[p] \in Jobs
  BY DEF ScanToEnroll, ScanToTrust, files, IInv, TypeOK
<1>2. InHand("scan", job[p], inventory) /\ Seen("scan", job[p], world.at)
  BY <1>1 DEF IInv, PinInv
<1>3. \A addr \in Addresses : world.at[addr].key \in Nat
  BY DEF IInv, TypeOK, Workers, Keys
<1>4. CASE ScanToEnroll(p)
  <2> DEFINE stored == Scan(p, job[p].target)
             j == [job[p] EXCEPT !.record = stored]
  <2>1. End(p) \/ Goto(p, "connect", j)
    BY <1>4 DEF ScanToEnroll
  <2>2. j.record = stored /\ j.target = job[p].target /\ j.cmd = "enroll"
    BY <1>1, <1>4 DEF Jobs, ScanToEnroll
  <2>3. job[p].target \in Addresses
    BY <1>2, <1>4 DEF InHand, EnrollAt, ScanToEnroll
  <2>4. AtMost(stored, world.at) /\ stored.addr = job[p].target
    BY <1>3, <2>3 DEF AtMost, Scan, Serves
  <2>5. Seen("connect", j, world.at)
    BY <2>2, <2>4 DEF Seen
  <2> HIDE DEF j
  <2>q. QED
    BY <1>1, <2>1, <2>5, PinGoto, PinEnd
<1>5. CASE ScanToTrust(p)
  <2> DEFINE pin == Scan(p, job[p].host.addr).pin
             record == [job[p].host EXCEPT !.pin = pin]
             j == [job[p] EXCEPT !.record = record]
  <2>1. Goto(p, "commit", j) /\ job[p].cmd = "trust"
    BY <1>5 DEF ScanToTrust
  <2>2. job[p].host \in Hosts /\ AtMost(job[p].host, world.at)
    BY <1>2, <2>1 DEF InHand, TrustAt, Seen
  <2>3. j.record = record /\ j.host = job[p].host /\ j.cmd = "trust"
    BY <1>1, <2>1 DEF Jobs
  <2>4. pin = world.at[job[p].host.addr].key
    BY DEF Scan, Serves
  <2>5. record.pin = pin /\ record.addr = job[p].host.addr /\ job[p].host.addr \in Addresses
    BY <2>2 DEF Hosts
  <2>6. job[p].host.pin <= record.pin /\ AtMost(record, world.at)
    BY <1>3, <2>2, <2>4, <2>5 DEF AtMost
  <2>7. Seen("commit", j, world.at)
    BY <2>3, <2>6 DEF Seen
  <2> HIDE DEF j
  <2>q. QED
    BY <1>1, <2>1, <2>7, PinGoto
<1>q. QED
  BY <1>4, <1>5

LEMMA PinConnect ==
  ASSUME IInv, PinInv, NEW p \in Procs, ConnectToEnroll(p) \/ ConnectToHost(p)
  PROVE  PinInv'
<1>1. UNCHANGED <<inventory, world>> /\ pc[p] = "ssh" /\ job[p] \in Jobs
  BY DEF ConnectToEnroll, ConnectToHost, files, IInv, TypeOK
<1>2. Seen("ssh", job[p], world.at)
  BY <1>1 DEF PinInv
<1>3. CASE ConnectToEnroll(p)
  <2> DEFINE record == Served(job[p].target, job[p].record.pin)
             j == [job[p] EXCEPT !.record = record]
  <2>1. (End(p) \/ Goto(p, "commit", j)) /\ job[p].cmd = "enroll"
    BY <1>3 DEF ConnectToEnroll
  <2>2. record.pin = job[p].record.pin /\ record.addr = job[p].target
    BY DEF Served
  <2>3. AtMost(record, world.at)
    BY <1>2, <2>1, <2>2 DEF Seen, AtMost
  <2>4. j.record = record /\ j.cmd = "enroll"
    BY <1>1, <2>1 DEF Jobs
  <2>5. Seen("commit", j, world.at)
    BY <2>3, <2>4 DEF Seen
  <2> HIDE DEF j
  <2>q. QED
    BY <1>1, <2>1, <2>5, PinGoto, PinEnd
<1>4. CASE ConnectToHost(p)
  <2> DEFINE j == [job[p] EXCEPT !.record = Served(job[p].host.addr, job[p].host.pin)]
  <2>1. (End(p) \/ Goto(p, "write_cache", j)) /\ job[p].cmd = "refresh"
    BY <1>4 DEF ConnectToHost
  <2>2. j.cmd = "refresh"
    BY <1>1, <2>1 DEF Jobs
  <2>3. Seen("write_cache", j, world.at)
    BY <2>2 DEF Seen
  <2> HIDE DEF j
  <2>q. QED
    BY <1>1, <2>1, <2>3, PinGoto, PinEnd
<1>q. QED
  BY <1>3, <1>4

LEMMA PinReplace ==
  ASSUME IInv, PinInv, NEW p \in Procs, ReplaceInventory(p), world' = world
  PROVE  PinInv'
<1>1. pc[p] = "write_inventory" /\ job \in [Procs -> Jobs] /\ pc \in [Procs -> Steps]
  BY DEF ReplaceInventory, IInv, TypeOK
<1>2. InHand("write_inventory", job[p], inventory) /\ Seen("write_inventory", job[p], world.at)
  BY <1>1 DEF IInv, PinInv
<1>3. AtMost(job[p].record, world.at)
  BY <1>2 DEF InHand, RefreshAt, Seen, Commands
<1>4. inventory' = inventory \/ inventory' = NewInventory(p)
  BY DEF ReplaceInventory
<1>5. \A h \in inventory' : h \in inventory \/ h = job[p].record
  BY <1>4 DEF NewInventory, Replaced
<1>6. \A h \in inventory' : AtMost(h, world'.at)
  BY <1>3, <1>5 DEF PinInv
<1>7. ASSUME NEW q \in Procs PROVE Seen(pc'[q], job'[q], world'.at)
  <2>1. /\ DisturbReaders \in [Procs -> Jobs]
        /\ DisturbReaders[q].cmd = job[q].cmd /\ DisturbReaders[q].target = job[q].target
        /\ DisturbReaders[q].host = job[q].host /\ DisturbReaders[q].record = job[q].record
    BY <1>1 DEF DisturbReaders, Jobs
  <2>2. \/ pc'[q] \in {"idle", "known_hosts"}
        \/ pc'[q] = pc[q] /\ (job'[q] = job[q] \/ job'[q] = DisturbReaders[q])
    BY <1>1, <2>1 DEF ReplaceInventory
  <2>3. Seen(pc[q], job[q], world.at)
    BY DEF PinInv
  <2>q. QED
    BY <2>1, <2>2, <2>3 DEF Seen
<1>q. QED
  BY <1>6, <1>7 DEF PinInv

LEMMA PinWorld == ASSUME IInv, PinInv, WorkerChanges PROVE PinInv'
<1>1. ASSUME NEW addr \in Addresses
      PROVE  /\ world.at[addr].key \in Nat /\ world'.at[addr].key \in Nat
             /\ world.at[addr].key <= world'.at[addr].key
  <2>1. PICK a \in Addresses : Rekey(a) \/ Remint(a) \/ Rename(a)
    BY DEF WorkerChanges
  <2>2. /\ world \in [at : [Addresses -> Workers], fresh : SUBSET MachineIds]
        /\ world.at \in [Addresses -> Workers] /\ world.at[addr] \in Workers /\ world.at[a] \in Workers
    BY DEF IInv, TypeOK
  <2>3. world'.at[addr].key = world.at[addr].key \/ world'.at[addr].key = world.at[addr].key + 1
    <3>1. CASE Rekey(a)
      BY <2>2, <3>1 DEF Rekey, Workers
    <3>2. CASE Remint(a)
      <4>1. PICK mid \in world.fresh :
              world' = [world EXCEPT !.at[a].mid = mid, !.fresh = @ \ {mid}]
        BY <3>2 DEF Remint
      <4>q. QED
        BY <2>2, <4>1 DEF Workers
    <3>3. CASE Rename(a)
      BY <2>2, <3>3 DEF Rename, Workers
    <3>q. QED
      BY <2>1, <3>1, <3>2, <3>3
  <2>q. QED
    BY <2>2, <2>3 DEF Workers, Keys
<1>2. UNCHANGED <<inventory, pc, job>>
  BY DEF WorkerChanges
<1>3. ASSUME NEW r, r.addr \in Addresses, r.pin \in Nat, AtMost(r, world.at) PROVE AtMost(r, world'.at)
  BY <1>1, <1>3 DEF AtMost
<1>4. \A h \in inventory : AtMost(h, world'.at)
  BY <1>3 DEF PinInv, IInv, TypeOK, Hosts, Keys
<1>5. ASSUME NEW q \in Procs PROVE Seen(pc[q], job[q], world'.at)
  <2>1. Seen(pc[q], job[q], world.at) /\ InHand(pc[q], job[q], inventory)
    BY DEF PinInv, IInv
  <2>2. ASSUME NEW r \in Hosts \cup Lines, AtMost(r, world.at) PROVE AtMost(r, world'.at)
    BY <1>3, <2>2 DEF Hosts, Lines, Keys
  <2>3. CASE job[q].cmd = "enroll"
    BY <2>1, <2>2, <2>3 DEF Seen, InHand, EnrollAt
  <2>4. CASE job[q].cmd = "trust"
    BY <2>1, <2>2, <2>4 DEF Seen, InHand, TrustAt
  <2>5. CASE job[q].cmd \notin {"enroll", "trust"}
    BY <2>5 DEF Seen
  <2>q. QED
    BY <2>3, <2>4, <2>5
<1>q. QED
  BY <1>2, <1>4, <1>5 DEF PinInv

LEMMA StepPinInv == ASSUME IInv, PinInv, [Next]_vars PROVE PinInv'
<1>1. CASE UNCHANGED vars
  BY <1>1 DEF vars, PinInv
<1>2. ASSUME NEW p \in Procs, NEW cmd, NEW target, Start(p, cmd, target) PROVE PinInv'
  <2> DEFINE step == IF cmd \in {"enroll", "trust"} THEN "open" ELSE "select"
             j == [Idle EXCEPT !.cmd = cmd, !.target = target]
  <2>1. Goto(p, step, j) /\ UNCHANGED <<inventory, world>>
    BY <1>2 DEF Start, files
  <2>2. Seen(step, j, world.at)
    BY DEF Seen
  <2> HIDE DEF step, j
  <2>q. QED
    BY <2>1, <2>2, PinGoto
<1>3. ASSUME NEW p \in Procs, Crash(p) \/ GiveUp(p) PROVE PinInv'
  BY <1>3, PinEnd DEF Crash, GiveUp, files
<1>4. ASSUME NEW p \in Procs, OpenInventory(p), world' = world PROVE PinInv'
  <2>1. Seen("read", [job[p] EXCEPT !.disturbed = FALSE], world.at)
    BY DEF Seen
  <2>q. QED
    BY <1>4, <2>1, PinGoto DEF OpenInventory, files
<1>5. ASSUME NEW p \in Procs, SelectHost(p) PROVE PinInv'
  <2>1. \A host : Seen("known_hosts", [job[p] EXCEPT !.host = host], world.at)
    BY DEF Seen
  <2>q. QED
    BY <1>5, <2>1, PinGoto, PinEnd DEF SelectHost, files
<1>6. ASSUME NEW p \in Procs, RebuildKnownHosts(p), world' = world PROVE PinInv'
  BY <1>6, PinMove, PinEnd DEF RebuildKnownHosts, MayConnect
<1>7. ASSUME NEW p \in Procs, WriteCache(p) \/ CheckCache(p), world' = world PROVE PinInv'
  BY <1>7, PinMove, PinEnd DEF WriteCache, CheckCache, AfterCache, files
<1>8. ASSUME NEW p \in Procs, VerifyHostKey(p) \/ CommitEnroll(p) \/ CommitTrust(p) PROVE PinInv'
  BY <1>8, PinMove, PinEnd DEF VerifyHostKey, CommitEnroll, CommitTrust, files
<1>q. QED
  BY <1>1, <1>2, <1>3, <1>4, <1>5, <1>6, <1>7, <1>8, PinRead, PinScan, PinConnect, PinReplace, PinWorld
     DEF Next, Step

\* The hosts of a step before it are hosts after it, under the same pin or a later one.
MovedOn(host, hosts) == \E new \in hosts : new = [host EXCEPT !.pin = new.pin] /\ new.pin >= host.pin

LEMMA PinsMove ==
  ASSUME IInv, PinInv, Next, inventory' # inventory
  PROVE  \A h \in inventory : MovedOn(h, inventory')
<1> USE DEF MovedOn
<1>1. PICK p \in Procs : ReplaceInventory(p)
  BY DEF Next, Step, Start, Crash, WorkerChanges, OpenInventory, RebuildKnownHosts, WriteCache, CheckCache,
         ReadInventory, ScanToEnroll, ScanToTrust, SelectHost, VerifyHostKey, ConnectToEnroll,
         ConnectToHost, CommitEnroll, CommitTrust, GiveUp, files
<1>2. pc[p] = "write_inventory" /\ inventory' = NewInventory(p)
  BY <1>1 DEF ReplaceInventory
<1>3. InHand("write_inventory", job[p], inventory) /\ Seen("write_inventory", job[p], world.at)
  BY <1>2 DEF IInv, PinInv
<1>4. \A h \in inventory : h \in Hosts /\ h = [h EXCEPT !.pin = h.pin] /\ h.pin >= h.pin
  BY DEF IInv, TypeOK, Hosts, Keys
<1>5. CASE job[p].cmd = "enroll"
  BY <1>2, <1>4, <1>5 DEF NewInventory
<1>6. CASE job[p].cmd = "trust"
  <2> DEFINE host == job[p].host
             record == job[p].record
  <2>1. /\ host \in inventory /\ host \in Hosts /\ record \in Hosts
        /\ record = [host EXCEPT !.pin = record.pin] /\ host.pin <= record.pin
    BY <1>3, <1>6 DEF InHand, TrustAt, Seen
  <2>2. HostNamed(inventory, host.name) = {host}
    BY <2>1 DEF HostNamed, IInv, HostsDistinct, Distinct
  <2> HIDE DEF host, record
  <2>3. inventory' = (inventory \ {host}) \cup {record}
    BY <1>2, <1>6, <2>2 DEF NewInventory, Replaced, host, record
  <2>4. host.pin \in Nat /\ record.pin \in Nat
    BY <2>1 DEF Hosts, Keys
  <2>5. ASSUME NEW h \in inventory
        PROVE  \E new \in inventory' : new = [h EXCEPT !.pin = new.pin] /\ new.pin >= h.pin
    <3>1. CASE h = host
      <4>1. record \in inventory' /\ record.pin >= host.pin
        BY <2>1, <2>3, <2>4
      <4>q. QED
        BY <2>1, <3>1, <4>1
    <3>2. CASE h # host
      <4>1. h \in inventory'
        BY <2>3, <3>2
      <4>q. QED
        BY <1>4, <4>1
    <3>q. QED
      BY <3>1, <3>2
  <2>q. QED
    BY <2>5
<1>q. QED
  BY <1>3, <1>5, <1>6 DEF InHand, RefreshAt, Commands

\* A pin never moves back: a `trust` that scanned an earlier key fails its compare.
THEOREM PinsOnlyMoveOn == Spec => PinsMoveOn
<1> DEFINE A == \A h \in inventory : \E new \in inventory' :
                  new = [h EXCEPT !.pin = new.pin] /\ new.pin >= h.pin
<1>1. Init => PinInv
  BY DEF Init, PinInv, Seen
<1>2. IInv /\ PinInv /\ [Next]_vars => PinInv'
  BY StepPinInv
<1>3. IInv /\ PinInv /\ [Next]_vars => [A]_inventory
  BY PinsMove DEF MovedOn, vars
<1>q. QED
  BY <1>1, <1>2, <1>3, Inductive, PTL DEF Spec, PinsMoveOn

(***************************************************************************)
(* known_hosts is read by ssh without the lock, perhaps after others have  *)
(* rebuilt it, or failed to.  From the step at which a command rebuilt it  *)
(* the file is that of an inventory which has the host in hand, under its  *)
(* pin or a later one (MovedOn); another host that has come to its address *)
(* since then is in the inventory for good.                                *)
(***************************************************************************)
Lone(host, hosts) == \A h \in hosts : h.addr = host.addr => h.name = host.name

NoneOlder(host, lines) == \A line \in lines : line.addr = host.addr => line.pin >= host.pin

Connecting(step, j, hosts, lines) ==
  /\ j.cmd = "refresh" /\ step \in {"known_hosts", "connect", "ssh"} => MovedOn(j.host, hosts)
  /\ j.cmd = "refresh" /\ step \in {"connect", "ssh"} /\ Lone(j.host, hosts) => NoneOlder(j.host, lines)

KnownInv == \A p \in Procs : Connecting(pc[p], job[p], inventory, known)

LEMMA RebuiltIsNoneOlder ==
  ASSUME IInv, NEW host \in Hosts, MovedOn(host, inventory), Lone(host, inventory)
  PROVE  NoneOlder(host, KnownHosts(inventory))
<1> SUFFICES ASSUME NEW line \in KnownHosts(inventory), line.addr = host.addr PROVE line.pin >= host.pin
  BY DEF NoneOlder
<1>1. PICK h \in inventory : line = [addr |-> h.addr, pin |-> h.pin]
  BY DEF KnownHosts
<1>2. PICK new \in inventory : new = [host EXCEPT !.pin = new.pin] /\ new.pin >= host.pin
  BY DEF MovedOn
<1>3. h.name = host.name /\ new.name = host.name
  BY <1>1, <1>2 DEF Lone, Hosts
<1>4. h = new
  BY <1>3 DEF IInv, HostsDistinct, Distinct
<1>q. QED
  BY <1>1, <1>2, <1>4

\* A lone host has been alone, and who is in the inventory does not leave it.
LEMMA LoneBefore ==
  ASSUME IInv, NEW host, \A h \in inventory : MovedOn(h, inventory'), Lone(host, inventory')
  PROVE  Lone(host, inventory)
<1> SUFFICES ASSUME NEW h \in inventory, h.addr = host.addr PROVE h.name = host.name
  BY DEF Lone
<1>1. PICK new \in inventory' : new = [h EXCEPT !.pin = new.pin]
  BY DEF MovedOn
<1>2. h \in Hosts
  BY DEF IInv, TypeOK
<1>3. new.addr = h.addr /\ new.name = h.name
  BY <1>1, <1>2 DEF Hosts
<1>q. QED
  BY <1>1, <1>3 DEF Lone

LEMMA MovedOnAgain ==
  ASSUME IInv, IInv', NEW host \in Hosts, MovedOn(host, inventory),
         \A h \in inventory : MovedOn(h, inventory')
  PROVE  MovedOn(host, inventory')
<1>1. PICK h \in inventory : h = [host EXCEPT !.pin = h.pin] /\ h.pin >= host.pin
  BY DEF MovedOn
<1>2. PICK new \in inventory' : new = [h EXCEPT !.pin = new.pin] /\ new.pin >= h.pin
  BY DEF MovedOn
<1>3. h \in Hosts /\ new \in Hosts
  BY DEF IInv, TypeOK
<1>4. host.pin \in Nat /\ h.pin \in Nat /\ new.pin \in Nat
  BY <1>3 DEF Hosts, Keys
<1>5. new = [host EXCEPT !.pin = new.pin]
  BY <1>1, <1>2, <1>3 DEF Hosts
<1>6. new.pin >= host.pin
  BY <1>1, <1>2, <1>4
<1>q. QED
  BY <1>5, <1>6 DEF MovedOn

\* The only steps on which a command that connects comes nearer to ssh.
LEMMA ConnectingSteps ==
  ASSUME IInv, IInv', Next, NEW q \in Procs, job'[q].cmd = "refresh",
         pc'[q] \in {"known_hosts", "connect", "ssh"}
  PROVE  \/ pc'[q] = "known_hosts" /\ job'[q].host \in inventory /\ inventory' = inventory
         \/ /\ job[q].cmd = "refresh" /\ job'[q].host = job[q].host
            /\ \/ pc'[q] = pc[q]
               \/ pc[q] = "connect" /\ pc'[q] = "ssh"
               \/ /\ pc[q] = "known_hosts" /\ pc'[q] = "connect"
                  /\ known' = KnownHosts(inventory) /\ inventory' = inventory
<1>1. /\ pc \in [Procs -> Steps] /\ pc' \in [Procs -> Steps] /\ job \in [Procs -> Jobs]
      /\ job' \in [Procs -> Jobs]
  BY DEF IInv, TypeOK
<1>2. InHand(pc[q], job[q], inventory)
  BY DEF IInv
<1>3. CASE pc'[q] = pc[q] /\ job'[q] = job[q]
  BY <1>3
<1>4. CASE ReplaceInventory(q)
  BY <1>1, <1>2, <1>4 DEF ReplaceInventory, DisturbReaders, InHand, RefreshAt, Idle, Jobs
<1>5. ASSUME NEW p \in Procs, ReplaceInventory(p), p # q
      PROVE  pc'[q] = pc[q] /\ job'[q].host = job[q].host /\ job'[q].cmd = job[q].cmd
  BY <1>1, <1>5 DEF ReplaceInventory, DisturbReaders, Jobs
<1>6. CASE SelectHost(q)
  <2>1. ~End(q)
    BY <1>1 DEF End, Goto
  <2>2. PICK host \in HostNamed(inventory, job[q].target) :
          Goto(q, "known_hosts", [job[q] EXCEPT !.host = host])
    BY <1>6, <2>1 DEF SelectHost
  <2>3. job'[q].host = host /\ pc'[q] = "known_hosts" /\ inventory' = inventory
    BY <1>1, <1>6, <2>2 DEF Goto, SelectHost, Jobs, files
  <2>q. QED
    BY <2>3 DEF HostNamed
<1>7. CASE RebuildKnownHosts(q)
  <2>1. ~End(q)
    BY <1>1 DEF End, Goto
  <2>2. PICK outcome \in Outcomes : /\ known' = Rebuilt(outcome) /\ MayConnect(q, outcome)
                                    /\ Goto(q, "connect", job[q])
    BY <1>7, <2>1 DEF RebuildKnownHosts, Outcomes
  <2>3. known' = KnownHosts(inventory) /\ job[q].cmd = "refresh"
    BY <2>2 DEF MayConnect, Rebuilt, Happened
  <2>4. pc'[q] = "connect" /\ job'[q] = job[q] /\ pc[q] = "known_hosts" /\ inventory' = inventory
    BY <1>1, <1>7, <2>2 DEF RebuildKnownHosts, Goto
  <2>q. QED
    BY <2>3, <2>4
<1>8. CASE VerifyHostKey(q)
  BY <1>1, <1>8 DEF VerifyHostKey, End, Goto
<1>9. ASSUME NEW p \in Procs, NEW step, NEW j, Goto(p, step, j), p # q
      PROVE  pc'[q] = pc[q] /\ job'[q] = job[q]
  BY <1>1, <1>9 DEF Goto
<1>10. CASE WriteCache(q) \/ CheckCache(q) \/ ConnectToHost(q)
  BY <1>1, <1>2, <1>10 DEF WriteCache, CheckCache, AfterCache, ConnectToHost, End, Goto
<1>11. ASSUME NEW cmd, NEW target, Start(q, cmd, target) PROVE FALSE
  BY <1>1, <1>11 DEF Start, Goto
<1>12. CASE \/ OpenInventory(q) \/ ReadInventory(q) \/ ScanToEnroll(q) \/ ScanToTrust(q)
            \/ ConnectToEnroll(q) \/ CommitEnroll(q) \/ CommitTrust(q) \/ GiveUp(q) \/ Crash(q)
  <2>1. ASSUME NEW step, NEW j, Goto(q, step, j) PROVE pc'[q] = step /\ job'[q] = j
    BY <1>1, <2>1 DEF Goto
  <2>2. CASE OpenInventory(q) \/ ReadInventory(q)
    <3>1. End(q) \/ (\E j : Goto(q, "read", j) \/ Goto(q, "scan", j))
      BY <2>2 DEF OpenInventory, ReadInventory
    <3>2. pc'[q] \in {"idle", "read", "scan"}
      BY <2>1, <3>1 DEF End
    <3>q. QED
      BY <3>2
  <2>3. CASE ScanToEnroll(q) \/ ScanToTrust(q)
    <3>1. pc'[q] \in {"idle", "commit"} \/ job'[q].cmd = "enroll"
      BY <1>1, <2>1, <2>3 DEF ScanToEnroll, ScanToTrust, End, Jobs
    <3>q. QED
      BY <3>1
  <2>4. CASE ConnectToEnroll(q) \/ CommitEnroll(q) \/ CommitTrust(q) \/ GiveUp(q) \/ Crash(q)
    <3>1. pc'[q] \in {"idle", "commit", "write_cache", "write_inventory"}
      BY <2>1, <2>4 DEF ConnectToEnroll, CommitEnroll, CommitTrust, GiveUp, Crash, End
    <3>q. QED
      BY <3>1
  <2>q. QED
    BY <1>12, <2>2, <2>3, <2>4
<1>13. ASSUME NEW p \in Procs, p # q, Step(p) \/ Crash(p), ~ReplaceInventory(p)
       PROVE  pc'[q] = pc[q] /\ job'[q] = job[q]
  <2>1. \E step, j : Goto(p, step, j)
    BY <1>13 DEF Step, Crash, OpenInventory, RebuildKnownHosts, WriteCache, CheckCache, ReadInventory,
       ScanToEnroll, ScanToTrust, SelectHost, VerifyHostKey, ConnectToEnroll, ConnectToHost, CommitEnroll,
       CommitTrust, GiveUp, End
  <2>q. QED
    BY <1>9, <1>13, <2>1
<1>14. ASSUME NEW p \in Procs, NEW cmd, NEW target, Start(p, cmd, target), p # q
       PROVE  pc'[q] = pc[q] /\ job'[q] = job[q]
  BY <1>9, <1>14 DEF Start
<1>15. CASE WorkerChanges
  BY <1>3, <1>15 DEF WorkerChanges
<1>q. QED
  BY <1>3, <1>4, <1>5, <1>6, <1>7, <1>8, <1>10, <1>11, <1>12, <1>13, <1>14, <1>15 DEF Next, Step

LEMMA KnownSteps ==
  ASSUME Next
  PROVE  known' = known \/ (known' = KnownHosts(inventory) /\ inventory' = inventory)
<1>1. ASSUME NEW p \in Procs, RebuildKnownHosts(p)
      PROVE  known' = known \/ (known' = KnownHosts(inventory) /\ inventory' = inventory)
  BY <1>1 DEF RebuildKnownHosts, Rebuilt
<1>q. QED
  BY <1>1 DEF Next, Step, Start, Crash, WorkerChanges, OpenInventory, ReplaceInventory, WriteCache,
     CheckCache, ReadInventory, ScanToEnroll, ScanToTrust, SelectHost, VerifyHostKey, ConnectToEnroll,
     ConnectToHost, CommitEnroll, CommitTrust, GiveUp, files

LEMMA StepKnownInv ==
  ASSUME IInv, IInv', PinInv, KnownInv, [Next]_vars PROVE KnownInv'
<1>1. CASE UNCHANGED vars
  BY <1>1 DEF vars, KnownInv
<1>2. CASE Next
  <2> SUFFICES ASSUME NEW q \in Procs, job'[q].cmd = "refresh",
                      pc'[q] \in {"known_hosts", "connect", "ssh"}
               PROVE  Connecting(pc'[q], job'[q], inventory', known')
    BY DEF KnownInv, Connecting
  <2> DEFINE host == job'[q].host
  <2>1. \A h \in inventory : MovedOn(h, inventory')
    <3>1. \A h \in inventory : h \in Hosts /\ h = [h EXCEPT !.pin = h.pin] /\ h.pin >= h.pin
      BY DEF IInv, TypeOK, Hosts, Keys
    <3>q. QED
      BY <1>2, <3>1, PinsMove DEF MovedOn
  <2>2. host \in Hosts
    BY DEF IInv, InHand, RefreshAt
  <2>3. CASE pc'[q] = "known_hosts" /\ host \in inventory
    BY <2>1, <2>3 DEF Connecting
  <2>4. CASE /\ job[q].cmd = "refresh" /\ host = job[q].host
             /\ pc[q] \in {"known_hosts", "connect", "ssh"}
             /\ pc[q] = pc'[q] \/ pc[q] = "connect" \/ (known' = KnownHosts(inventory) /\ inventory' = inventory)
    <3>1. MovedOn(host, inventory)
      BY <2>4 DEF KnownInv, Connecting
    <3> HIDE DEF host
    <3>2. MovedOn(host, inventory')
      BY <2>1, <2>2, <3>1, MovedOnAgain
    <3>3. ASSUME pc'[q] \in {"connect", "ssh"}, Lone(host, inventory') PROVE NoneOlder(host, known')
      <4>1. Lone(host, inventory)
        BY <2>1, <3>3, LoneBefore
      <4>2. CASE known' = known /\ pc[q] \in {"connect", "ssh"}
        BY <2>4, <4>1, <4>2 DEF KnownInv, Connecting
      <4>3. CASE known' = KnownHosts(inventory)
        BY <2>2, <3>1, <4>1, <4>3, RebuiltIsNoneOlder
      <4>q. QED
        BY <1>2, <2>4, <3>3, <4>2, <4>3, KnownSteps
    <3>q. QED
      BY <3>2, <3>3 DEF Connecting, host
  <2>q. QED
    BY <1>2, <2>3, <2>4, ConnectingSteps
<1>q. QED
  BY <1>1, <1>2

\* ssh never takes a key older than that of the record the command selected, whatever
\* others have written to known_hosts since, and whichever of their writes failed.
THEOREM NoOlderPin == Spec => []NeverUnderOlderPin
<1>1. Init => PinInv /\ KnownInv
  BY DEF Init, PinInv, Seen, KnownInv, Connecting
<1>2. IInv /\ PinInv /\ [Next]_vars => PinInv'
  BY StepPinInv
<1>3. IInv /\ IInv' /\ PinInv /\ KnownInv /\ [Next]_vars => KnownInv'
  BY StepKnownInv
<1>4. KnownInv => NeverUnderOlderPin
  BY DEF KnownInv, Connecting, NeverUnderOlderPin, Lone, NoneOlder
<1>q. QED
  BY <1>1, <1>2, <1>3, <1>4, Inductive, PTL DEF Spec
=============================================================================
