--------------------------- MODULE AuthorityProofs ---------------------------
(***************************************************************************)
(* Proofs about what decides who a setup is and what it may do: the        *)
(* machine manifest and its id, the requests that are run with privilege,  *)
(* the directories made under windows, and the identity a privileged       *)
(* child runs the user's phases with.                                      *)
(***************************************************************************)
EXTENDS ManifestStore, Authorization, WindowsNode, Elevation, TLAPS

(***************************************************************************)
(* ManifestStore, for any number of servers, `machine init` and setup      *)
(* processes and any number of edits. The machine id sessions are told is  *)
(* unique because what a writer has in hand under the lock agrees with     *)
(* the file (WriteInv), and what a session has been told, or is about to   *)
(* be told after the lock was dropped, agrees with the file until the      *)
(* operator drops the id (HelloInv).                                       *)
(***************************************************************************)

StoreLockInv == \A p \in Procs : pc[p] \in Locked <=> lock = p

\* What a process has in hand at each step.
JobInHand(p) ==
  /\ pc[p] = "begin" => job[p].m \in Manifests /\ p \in Setups
  /\ pc[p] \in {"lock", "reread"} => p \notin Setups
  /\ pc[p] = "serve" => job[p].m \in Manifests /\ HasId(job[p].m)

WriteInv(p) ==
  pc[p] = "write" =>
    /\ job[p].m \in Manifests /\ HasId(job[p].m) /\ job[p].drops = drops
    /\ HasId(manifest) => job[p].m.id = manifest.id
    /\ p \notin Setups => manifest # None /\ job[p].m = [manifest EXCEPT !.id = job[p].m.id]

Hello(p) == <<job[p].drops, job[p].m.id>>
Serving == {p \in Procs : pc[p] = "serve"}

\* The hellos that were sent and those that are about to be.
Told == heard \cup {Hello(p) : p \in Serving}

HelloInv ==
  /\ \A hello \in Told : hello[1] <= drops
  /\ \A hello, other \in Told : hello[1] = other[1] => hello = other
  /\ \A hello \in Told : hello[1] = drops => HasId(manifest) /\ manifest.id = hello[2]

EditsLeft == edits + drops <= MaxEdits

StoreIInv ==
  /\ TypeOK /\ EditsLeft /\ StoreLockInv /\ HelloInv
  /\ \A p \in Procs : JobInHand(p) /\ WriteInv(p)

LEMMA StoreInitIInv == Init => StoreIInv
<1> SUFFICES ASSUME Init PROVE StoreIInv
  OBVIOUS
<1> USE DEF Init
<1>1. TypeOK
  BY BoundsAssumption DEF TypeOK, Steps, Manifests
<1>2. EditsLeft /\ StoreLockInv
  BY NoneAssumption, BoundsAssumption DEF EditsLeft, StoreLockInv, Locked
<1>3. Told = {}
  BY DEF Told, Serving
<1>4. HelloInv
  BY <1>3 DEF HelloInv
<1>5. \A p \in Procs : JobInHand(p) /\ WriteInv(p)
  BY DEF JobInHand, WriteInv
<1>q. QED
  BY <1>1, <1>2, <1>4, <1>5 DEF StoreIInv

(***************************************************************************)
(* How a process moves.                                                    *)
(***************************************************************************)
LEMMA StoreGotoKeeps ==
  ASSUME StoreIInv, NEW p \in Procs, NEW step \in Steps, NEW m \in Manifests \cup {None},
         Goto(p, step, m), lock \in {None, p} \/ step \notin Locked
  PROVE  /\ pc' \in [Procs -> Steps]
         /\ job' \in [Procs -> [m : Manifests \cup {None}, drops : 0..MaxEdits]]
         /\ lock' \in Procs \cup {None}
         /\ StoreLockInv'
         /\ pc'[p] = step /\ job'[p].m = m /\ (m # None => job'[p].drops = drops)
         /\ \A q \in Procs : q # p => pc'[q] = pc[q] /\ job'[q] = job[q]
<1> USE DEF StoreIInv, Goto
<1>1. pc' \in [Procs -> Steps] /\ lock' \in Procs \cup {None}
  BY DEF TypeOK
<1>2. [m |-> m, drops |-> IF m = None THEN 0 ELSE drops] \in [m : Manifests \cup {None}, drops : 0..MaxEdits]
  BY BoundsAssumption DEF TypeOK
<1>3. job' \in [Procs -> [m : Manifests \cup {None}, drops : 0..MaxEdits]]
  BY <1>2 DEF TypeOK
<1>4. /\ pc'[p] = step /\ job'[p].m = m /\ (m # None => job'[p].drops = drops)
      /\ \A q \in Procs : q # p => pc'[q] = pc[q] /\ job'[q] = job[q]
  BY DEF TypeOK
<1>5. StoreLockInv'
  BY <1>4, NoneAssumption DEF StoreLockInv
<1>q. QED
  BY <1>1, <1>3, <1>4, <1>5

\* A move to a step before or after the lock, by a process that changes no file.
LEMMA HelloKeeps ==
  ASSUME StoreIInv, drops' = drops, NEW id,
         Told' \subseteq Told \/ (Told' \subseteq Told \cup {<<drops, id>>} /\ HasId(manifest') /\ manifest'.id = id),
         HasId(manifest) => HasId(manifest') /\ manifest'.id = manifest.id
  PROVE  HelloInv'
<1> USE DEF StoreIInv
<1>1. drops \in Nat
  BY BoundsAssumption DEF TypeOK
<1>2. CASE Told' \subseteq Told
  BY <1>2 DEF HelloInv
<1>3. CASE Told' \subseteq Told \cup {<<drops, id>>} /\ HasId(manifest') /\ manifest'.id = id
  <2>1. \A hello \in Told : hello[1] = drops => hello = <<drops, id>>
    <3> SUFFICES ASSUME NEW hello \in Told, hello[1] = drops PROVE hello = <<drops, id>>
      OBVIOUS
    <3>1. hello[2] = id
      BY <1>3 DEF HelloInv
    <3>2. \E a, b : hello = <<a, b>>
      BY DEF Told, Hello, TypeOK
    <3>q. QED
      BY <3>1, <3>2
  <2>q. QED
    BY <1>1, <1>3, <2>1 DEF HelloInv
<1>q. QED
  BY <1>2, <1>3

\* What a process must have in hand to move to a step.
MayMove(p, step, m) ==
  /\ step = "begin" => m \in Manifests /\ p \in Setups
  /\ step \in {"lock", "reread"} => p \notin Setups
  /\ step = "serve" => m = manifest /\ HasId(manifest)
  /\ step = "write" => /\ m \in Manifests /\ HasId(m)
                       /\ HasId(manifest) => m.id = manifest.id
                       /\ p \notin Setups => manifest # None /\ m = [manifest EXCEPT !.id = m.id]

LEMMA MoveKeeps ==
  ASSUME StoreIInv, NEW p \in Procs, NEW step \in Steps, NEW m \in Manifests \cup {None},
         Goto(p, step, m), lock \in {None, p} \/ step \notin Locked, MayMove(p, step, m),
         UNCHANGED <<manifest, edits, history>>, nextId' \in 1..MaxIds + 1
  PROVE  StoreIInv'
<1>1. /\ pc' \in [Procs -> Steps]
      /\ job' \in [Procs -> [m : Manifests \cup {None}, drops : 0..MaxEdits]]
      /\ lock' \in Procs \cup {None}
      /\ StoreLockInv'
      /\ pc'[p] = step /\ job'[p].m = m /\ (m # None => job'[p].drops = drops)
      /\ \A q \in Procs : q # p => pc'[q] = pc[q] /\ job'[q] = job[q]
  BY StoreGotoKeeps
<1>2. TypeOK' /\ EditsLeft'
  BY <1>1 DEF StoreIInv, TypeOK, EditsLeft, history
<1>3. \A q \in Procs : JobInHand(q)' /\ WriteInv(q)'
  <2>1. ASSUME NEW q \in Procs, q # p PROVE JobInHand(q)' /\ WriteInv(q)'
    BY <1>1, <2>1 DEF StoreIInv, JobInHand, WriteInv, HasId, history
  <2>2. JobInHand(p)' /\ WriteInv(p)'
    BY <1>1, NoneAssumption DEF StoreIInv, TypeOK, MayMove, JobInHand, WriteInv, HasId, history
  <2>q. QED
    BY <2>1, <2>2
<1>4. HelloInv'
  <2>1. CASE step # "serve"
    <3>1. Told' \subseteq Told
      BY <1>1, <2>1 DEF Told, Serving, Hello, history
    <3>q. QED
      BY <3>1, HelloKeeps DEF history
  <2>2. CASE step = "serve"
    <3>1. HasId(manifest) /\ m = manifest
      BY <2>2 DEF MayMove
    <3>2. Told' \subseteq Told \cup {<<drops, manifest.id>>}
      BY <1>1, <3>1 DEF Told, Serving, Hello, HasId, history
    <3>q. QED
      BY <3>1, <3>2, HelloKeeps DEF history, HasId
  <2>q. QED
    BY <2>1, <2>2
<1>q. QED
  BY <1>2, <1>3, <1>4, <1>1 DEF StoreIInv

(***************************************************************************)
(* One lemma per action.                                                   *)
(***************************************************************************)
LEMMA StartKeeps == ASSUME StoreIInv, NEW p \in Procs, Start(p) \/ Crash(p) PROVE StoreIInv'
<1>1. \E step \in {"read", "idle"} : Goto(p, step, None)
  BY DEF Start, Crash, End
<1>2. UNCHANGED <<manifest, edits, history>> /\ nextId' \in 1..MaxIds + 1
  BY DEF Start, Crash, StoreIInv, TypeOK
<1>q. QED
  BY <1>1, <1>2, MoveKeeps DEF MayMove, Steps, Locked

LEMMA ReadUnlockedKeeps == ASSUME StoreIInv, NEW p \in Procs, ReadUnlocked(p) PROVE StoreIInv'
<1>1. UNCHANGED <<manifest, edits, history>> /\ nextId' \in 1..MaxIds + 1
  BY DEF ReadUnlocked, StoreIInv, TypeOK
<1>2. CASE manifest = None
  BY <1>1, <1>2, MoveKeeps DEF ReadUnlocked, End, MayMove, Steps, Locked
<1>3. CASE manifest # None
  <2>1. manifest \in Manifests
    BY <1>3 DEF StoreIInv, TypeOK
  <2>2. CASE HasId(manifest) /\ p \in Servers
    BY <1>1, <1>3, <2>1, <2>2, MoveKeeps DEF ReadUnlocked, MayMove, Steps, Locked
  <2>3. CASE ~(HasId(manifest) /\ p \in Servers)
    BY <1>1, <1>3, <2>1, <2>3, MoveKeeps DEF ReadUnlocked, MayMove, Steps, Locked
  <2>q. QED
    BY <2>2, <2>3
<1>q. QED
  BY <1>2, <1>3

LEMMA LockManifestKeeps == ASSUME StoreIInv, NEW p \in Procs, LockManifest(p) PROVE StoreIInv'
<1>1. UNCHANGED <<manifest, edits, history>> /\ nextId' \in 1..MaxIds + 1
  BY DEF LockManifest, StoreIInv, TypeOK
<1>2. job[p].m \in Manifests \cup {None} /\ p \notin Setups
  BY DEF LockManifest, StoreIInv, TypeOK, JobInHand
<1>q. QED
  BY <1>1, <1>2, MoveKeeps DEF LockManifest, MayMove, Steps, Locked

\* An id is only added where none is.
LEMMA WithIdAdds ==
  ASSUME NEW m \in Manifests, HasId(m) \/ nextId <= MaxIds, nextId \in Nat \ {0}
  PROVE  /\ WithId(m) \in Manifests /\ HasId(WithId(m))
         /\ HasId(m) => WithId(m).id = m.id
         /\ WithId(m) = [m EXCEPT !.id = WithId(m).id]
<1>1. CASE HasId(m)
  BY <1>1 DEF WithId, Manifests
<1>2. CASE ~HasId(m)
  <2>1. nextId \in Ids
    BY <1>2, BoundsAssumption DEF Ids
  <2>2. WithId(m) = [m EXCEPT !.id = nextId] /\ WithId(m) \in Manifests /\ WithId(m).id = nextId
    BY <1>2, <2>1 DEF WithId, Manifests
  <2>q. QED
    BY <1>2, <2>1, <2>2, NoneAssumption DEF HasId, Manifests, Ids
<1>q. QED
  BY <1>1, <1>2

LEMMA RereadKeeps == ASSUME StoreIInv, NEW p \in Procs, RereadLocked(p) PROVE StoreIInv'
<1>1. UNCHANGED <<manifest, edits, history>> /\ nextId \in 1..MaxIds + 1
  BY DEF RereadLocked, StoreIInv, TypeOK
<1>2. p \notin Setups /\ lock = p
  BY DEF RereadLocked, StoreIInv, JobInHand, StoreLockInv, Locked
<1>3. CASE manifest = None
  BY <1>1, <1>2, <1>3, MoveKeeps DEF RereadLocked, SecondRead, End, MayMove, Steps, Locked
<1>4. CASE manifest # None /\ HasId(manifest) /\ p \in Servers
  <2>1. manifest \in Manifests
    BY <1>4 DEF StoreIInv, TypeOK
  <2>q. QED
    BY <1>1, <1>2, <1>4, <2>1, MoveKeeps DEF RereadLocked, SecondRead, MayMove, Steps, Locked
<1>5. CASE manifest # None /\ ~(HasId(manifest) /\ p \in Servers)
  <2>1. manifest \in Manifests
    BY <1>5 DEF StoreIInv, TypeOK
  <2>2. /\ HasId(manifest) \/ nextId <= MaxIds
        /\ Goto(p, "write", WithId(manifest))
        /\ nextId' = IF HasId(manifest) THEN nextId ELSE nextId + 1
    BY <1>5 DEF RereadLocked, SecondRead
  <2>3. nextId' \in 1..MaxIds + 1
    BY <1>1, <2>2, BoundsAssumption
  <2>4. /\ WithId(manifest) \in Manifests /\ HasId(WithId(manifest))
        /\ HasId(manifest) => WithId(manifest).id = manifest.id
        /\ WithId(manifest) = [manifest EXCEPT !.id = WithId(manifest).id]
    BY <1>1, <2>1, <2>2, WithIdAdds, BoundsAssumption
  <2>q. QED
    BY <1>1, <1>2, <1>5, <2>2, <2>3, <2>4, MoveKeeps DEF MayMove, Steps, Locked
<1>q. QED
  BY <1>3, <1>4, <1>5

LEMMA PlanKeeps == ASSUME StoreIInv, NEW p \in Procs, PlanSetup(p) PROVE StoreIInv'
<1>1. UNCHANGED <<manifest, edits, history>> /\ nextId' \in 1..MaxIds + 1 /\ p \in Setups
  BY DEF PlanSetup, StoreIInv, TypeOK
<1>2. CASE Goto(p, "idle", None)
  BY <1>1, <1>2, MoveKeeps DEF MayMove, Steps, Locked
<1>3. CASE \E facts \in Facts, default \in Policies : Goto(p, "begin", DraftOf(manifest, facts, default))
  <2>1. PICK facts \in Facts, default \in Policies : Goto(p, "begin", DraftOf(manifest, facts, default))
    BY <1>3
  <2>2. DraftOf(manifest, facts, default) \in Manifests
    BY DEF DraftOf, StoreIInv, TypeOK, Manifests
  <2>q. QED
    BY <1>1, <2>1, <2>2, MoveKeeps DEF MayMove, Steps, Locked
<1>q. QED
  BY <1>2, <1>3 DEF PlanSetup, End

LEMMA BeginKeeps == ASSUME StoreIInv, NEW p \in Procs, BeginPublication(p) PROVE StoreIInv'
<1>1. UNCHANGED <<manifest, edits, history>> /\ nextId \in 1..MaxIds + 1 /\ lock = None
  BY DEF BeginPublication, StoreIInv, TypeOK
<1>2. CASE manifest # None /\ ~HasId(manifest)
  BY <1>1, <1>2, MoveKeeps DEF BeginPublication, End, MayMove, Steps, Locked
<1>3. CASE ~(manifest # None /\ ~HasId(manifest))
  <2>1. /\ nextId <= MaxIds /\ Goto(p, "write", Candidate(p))
        /\ nextId' = IF Candidate(p).id = nextId THEN nextId + 1 ELSE nextId
    BY <1>3 DEF BeginPublication
  <2>2. job[p].m \in Manifests /\ p \in Setups
    BY DEF BeginPublication, StoreIInv, JobInHand
  <2>3. (IF manifest = None THEN nextId ELSE manifest.id) \in Ids
    BY <1>1, <1>3, <2>1, BoundsAssumption DEF HasId, StoreIInv, TypeOK, Manifests, Ids
  <2>4. Candidate(p) \in Manifests /\ Candidate(p).id = IF manifest = None THEN nextId ELSE manifest.id
    BY <2>2, <2>3 DEF Candidate, Manifests
  <2>5. Candidate(p).id # None /\ Candidate(p) # None
    BY <2>3, <2>4, NoneAssumption DEF Ids
  <2>6. nextId' \in 1..MaxIds + 1
    BY <1>1, <2>1, BoundsAssumption
  <2>7. MayMove(p, "write", Candidate(p))
    BY <2>2, <2>4, <2>5 DEF MayMove, HasId
  <2>q. QED
    BY <1>1, <2>1, <2>4, <2>6, <2>7, MoveKeeps DEF Steps, Locked
<1>q. QED
  BY <1>2, <1>3

\* The holder of the lock is the only writer, so the others' drafts still agree.
LEMMA OnlyWriter ==
  ASSUME StoreIInv, NEW p \in Procs, pc[p] = "write", NEW q \in Procs, q # p
  PROVE  pc[q] \notin Locked
BY DEF StoreIInv, StoreLockInv, Locked

LEMMA WriteKeeps == ASSUME StoreIInv, NEW p \in Procs, Write(p) PROVE StoreIInv'
<1>1. /\ job[p].m \in Manifests /\ HasId(job[p].m) /\ job[p].drops = drops
      /\ HasId(manifest) => job[p].m.id = manifest.id
      /\ UNCHANGED <<nextId, edits, drops, heard>> /\ lock = p
  BY DEF Write, StoreIInv, WriteInv, StoreLockInv, Locked, history
<1>2. manifest' \in {manifest, job[p].m}
  BY DEF Write
<1>3. PICK step \in {"idle", "serve"}, m \in {None, job[p].m} :
        Goto(p, step, m) /\ (step = "serve" => m = job[p].m /\ manifest' = m)
  BY DEF Write, End
<1>4. /\ pc' \in [Procs -> Steps]
      /\ job' \in [Procs -> [m : Manifests \cup {None}, drops : 0..MaxEdits]]
      /\ lock' \in Procs \cup {None}
      /\ StoreLockInv'
      /\ pc'[p] = step /\ job'[p].m = m /\ (m # None => job'[p].drops = drops)
      /\ \A q \in Procs : q # p => pc'[q] = pc[q] /\ job'[q] = job[q]
  <2>1. step \in Steps /\ m \in Manifests \cup {None}
    BY <1>1 DEF Steps
  <2>q. QED
    BY <1>1, <1>3, <2>1, StoreGotoKeeps
<1>5. TypeOK' /\ EditsLeft'
  BY <1>1, <1>2, <1>4 DEF StoreIInv, TypeOK, EditsLeft
<1>6. \A q \in Procs : JobInHand(q)' /\ WriteInv(q)'
  <2>1. ASSUME NEW q \in Procs, q # p PROVE JobInHand(q)' /\ WriteInv(q)'
    <3>1. pc[q] # "write"
      BY <2>1, OnlyWriter DEF Write, Locked
    <3>q. QED
      BY <1>4, <2>1, <3>1 DEF StoreIInv, JobInHand, WriteInv, HasId
  <2>2. JobInHand(p)' /\ WriteInv(p)'
    BY <1>1, <1>3, <1>4 DEF JobInHand, WriteInv, HasId
  <2>q. QED
    BY <2>1, <2>2
<1>7. HelloInv'
  <2>1. HasId(manifest) => HasId(manifest') /\ manifest'.id = manifest.id
    BY <1>1, <1>2
  <2>2. CASE step = "idle"
    <3>1. Told' \subseteq Told
      BY <1>1, <1>4, <2>2 DEF Told, Serving, Hello
    <3>q. QED
      BY <1>1, <2>1, <3>1, HelloKeeps
  <2>3. CASE step = "serve"
    <3>1. m = job[p].m /\ manifest' = job[p].m /\ m # None
      BY <1>1, <1>3, <2>3 DEF HasId
    <3>2. Told' \subseteq Told \cup {<<drops, job[p].m.id>>}
      BY <1>1, <1>4, <3>1 DEF Told, Serving, Hello
    <3>q. QED
      BY <1>1, <2>1, <3>1, <3>2, HelloKeeps
  <2>q. QED
    BY <1>3, <2>2, <2>3
<1>q. QED
  BY <1>4, <1>5, <1>6, <1>7 DEF StoreIInv

LEMMA ServeKeeps == ASSUME StoreIInv, NEW p \in Procs, Serve(p) PROVE StoreIInv'
<1>1. /\ Goto(p, "idle", None) /\ UNCHANGED <<manifest, nextId, edits, drops>>
      /\ heard' = heard \cup {Hello(p)} /\ pc[p] = "serve"
  BY DEF Serve, End, Hello
<1>2. /\ pc' \in [Procs -> Steps]
      /\ job' \in [Procs -> [m : Manifests \cup {None}, drops : 0..MaxEdits]]
      /\ lock' \in Procs \cup {None}
      /\ StoreLockInv'
      /\ pc'[p] = "idle"
      /\ \A q \in Procs : q # p => pc'[q] = pc[q] /\ job'[q] = job[q]
  BY <1>1, StoreGotoKeeps DEF Steps, Locked
<1>3. Hello(p) \in (0..MaxEdits) \X Ids
  <2>1. job[p].m \in Manifests /\ job[p].m.id # None /\ job[p].drops \in 0..MaxEdits
    BY <1>1 DEF StoreIInv, JobInHand, HasId, TypeOK
  <2>q. QED
    BY <2>1 DEF Hello, Manifests
<1>4. TypeOK' /\ EditsLeft'
  BY <1>1, <1>2, <1>3 DEF StoreIInv, TypeOK, EditsLeft
<1>5. \A q \in Procs : JobInHand(q)' /\ WriteInv(q)'
  BY <1>1, <1>2 DEF StoreIInv, JobInHand, WriteInv, HasId
<1>6. HelloInv'
  <2>1. Told' \subseteq Told
    BY <1>1, <1>2 DEF Told, Serving, Hello
  <2>q. QED
    BY <1>1, <2>1, HelloKeeps
<1>q. QED
  BY <1>2, <1>4, <1>5, <1>6 DEF StoreIInv

LEMMA EditKeeps == ASSUME StoreIInv, Edit PROVE StoreIInv'
<1>1. UNCHANGED <<lock, pc, job, nextId, heard>> /\ edits > 0 /\ edits' = edits - 1 /\ lock = None
  BY DEF Edit
<1>2. \/ manifest' \in {None, [manifest EXCEPT !.id = None]} /\ drops' = drops + 1
      \/ (\E policy \in Policies : manifest' = [manifest EXCEPT !.policy = policy]) /\ drops' = drops
  BY DEF Edit
<1>3. manifest' \in Manifests \cup {None}
  BY <1>2 DEF Edit, StoreIInv, TypeOK, Manifests
<1>4. drops' \in 0..MaxEdits /\ edits' \in 0..MaxEdits /\ EditsLeft'
  BY <1>1, <1>2, BoundsAssumption DEF StoreIInv, TypeOK, EditsLeft
<1>5. TypeOK' /\ StoreLockInv'
  BY <1>1, <1>3, <1>4 DEF StoreIInv, TypeOK, StoreLockInv
<1>6. \A q \in Procs : JobInHand(q)' /\ WriteInv(q)'
  <2>1. \A q \in Procs : pc[q] \notin Locked
    BY <1>1, NoneAssumption DEF StoreIInv, StoreLockInv
  <2>q. QED
    BY <1>1, <2>1 DEF StoreIInv, JobInHand, WriteInv, Locked, HasId
<1>7. HelloInv'
  <2>1. Told' = Told
    BY <1>1 DEF Told, Serving, Hello
  <2>2. CASE drops' = drops + 1
    <3>1. \A hello \in Told : hello[1] \in Nat
      BY BoundsAssumption DEF StoreIInv, TypeOK, Told, Hello, Serving
    <3>2. \A hello \in Told : hello[1] < drops + 1 /\ drops \in Nat
      BY <3>1, BoundsAssumption DEF StoreIInv, TypeOK, HelloInv
    <3>q. QED
      BY <2>1, <2>2, <3>1, <3>2 DEF StoreIInv, HelloInv
  <2>3. CASE (\E policy \in Policies : manifest' = [manifest EXCEPT !.policy = policy]) /\ drops' = drops
    <3>1. HasId(manifest) => HasId(manifest') /\ manifest'.id = manifest.id
      BY <1>3, <2>3, NoneAssumption DEF StoreIInv, TypeOK, Manifests, HasId
    <3>q. QED
      BY <2>1, <2>3, <3>1, HelloKeeps
  <2>q. QED
    BY <1>2, <2>2, <2>3
<1>q. QED
  BY <1>4, <1>5, <1>6, <1>7 DEF StoreIInv

LEMMA StoreStepIInv == StoreIInv /\ [Next]_vars => StoreIInv'
<1> SUFFICES ASSUME StoreIInv, [Next]_vars PROVE StoreIInv'
  OBVIOUS
<1>1. CASE UNCHANGED vars
  BY <1>1 DEF vars, history, StoreIInv, TypeOK, EditsLeft, StoreLockInv, HelloInv, Told, Serving, Hello, HasId, JobInHand, WriteInv
<1>2. CASE Edit
  BY <1>2, EditKeeps
<1>3. ASSUME NEW p \in Procs, Start(p) \/ Step(p) \/ Crash(p) PROVE StoreIInv'
  BY <1>3, StartKeeps, ReadUnlockedKeeps, LockManifestKeeps, RereadKeeps, WriteKeeps, ServeKeeps, PlanKeeps, BeginKeeps
     DEF Step
<1>q. QED
  BY <1>1, <1>2, <1>3 DEF Next

THEOREM StoreInductive == Spec => []StoreIInv
<1>1. Init => StoreIInv
  BY StoreInitIInv
<1>2. StoreIInv /\ [Next]_vars => StoreIInv'
  BY StoreStepIInv
<1>q. QED
  BY <1>1, <1>2, PTL DEF Spec

(***************************************************************************)
(* The properties.                                                         *)
(***************************************************************************)
\* Type correctness for every value of the constants.
THEOREM StoreTypeCorrect == Spec => []TypeOK
<1>1. StoreIInv => TypeOK
  BY DEF StoreIInv
<1>q. QED
  BY <1>1, StoreInductive, PTL

\* Any number of sessions that start together, beside setup and `machine init`, tell
\* their controllers one machine id, which is the one on disk.
THEOREM IdentityIsOne == Spec => []OneIdentity
<1>1. StoreIInv => OneIdentity
  BY DEF StoreIInv, HelloInv, Told, OneIdentity
<1>q. QED
  BY <1>1, StoreInductive, PTL

\* What setup publishes or the operator edits between the two reads of a server or
\* of `machine init` is not undone.
THEOREM RepairAddsId == Spec => RepairOnlyAddsId
<1> DEFINE A == \A p \in Servers \cup Inits :
       pc[p] = "write" /\ pc'[p] # "write" /\ manifest' # manifest =>
         /\ manifest # None /\ ~HasId(manifest)
         /\ manifest' = [manifest EXCEPT !.id = manifest'.id]
<1>1. StoreIInv /\ [Next]_vars => [A]_vars
  <2> SUFFICES ASSUME StoreIInv, Next, NEW p \in Servers \cup Inits,
                      pc[p] = "write", pc'[p] # "write", manifest' # manifest
               PROVE  /\ manifest # None /\ ~HasId(manifest)
                      /\ manifest' = [manifest EXCEPT !.id = manifest'.id]
    OBVIOUS
  <2>1. p \in Procs /\ p \notin Setups /\ lock = p
    BY KindsAssumption DEF Procs, StoreIInv, StoreLockInv, Locked
  <2>2. ~Edit
    BY <2>1, NoneAssumption DEF Edit, Procs
  <2>3. \A q \in Procs : q # p => ~Write(q)
    BY <2>1, OnlyWriter DEF Write, Locked
  <2>4. \A q \in Procs : Start(q) \/ Crash(q) \/ ReadUnlocked(q) \/ LockManifest(q) \/ RereadLocked(q)
                         \/ Serve(q) \/ PlanSetup(q) \/ BeginPublication(q) => manifest' = manifest
    BY DEF Start, Crash, ReadUnlocked, LockManifest, RereadLocked, Serve, PlanSetup, BeginPublication
  <2>5. Write(p)
    BY <2>2, <2>3, <2>4 DEF Next, Step
  <2>6. manifest' = job[p].m
    BY <2>5 DEF Write
  <2>7. /\ manifest # None /\ job[p].m = [manifest EXCEPT !.id = job[p].m.id]
        /\ HasId(manifest) => job[p].m.id = manifest.id
    BY <2>1 DEF StoreIInv, WriteInv
  <2>8. ~HasId(manifest)
    <3> SUFFICES ASSUME HasId(manifest) PROVE FALSE
      OBVIOUS
    <3>1. manifest \in Manifests /\ job[p].m = [manifest EXCEPT !.id = manifest.id]
      BY <2>7 DEF StoreIInv, TypeOK
    <3>2. [manifest EXCEPT !.id = manifest.id] = manifest
      BY <3>1 DEF Manifests
    <3>q. QED
      BY <2>6, <3>1, <3>2
  <2>q. QED
    BY <2>6, <2>7, <2>8
<1>q. QED
  BY <1>1, StoreInductive, PTL DEF Spec, RepairOnlyAddsId

(***************************************************************************)
(* Authorization, for any number of setups and privileged children, any    *)
(* plans, and however often processes are killed, requests are put back    *)
(* and the power fails. What makes a request run once is the record that   *)
(* is created exclusively: a child that got past it has its id, and the    *)
(* id is durable before the child does anything.                           *)
(***************************************************************************)

\* What the processes and files are made of.
SetupFields == {"at", "plan", "consent", "now", "rev", "ask", "todo", "human", "want", "of"}
ChildFields == {"at", "plan", "want", "now", "file", "run", "todo"}

SetupShape(s) == s = [f \in SetupFields |-> s[f]]
ChildShape(k) == k = [f \in ChildFields |-> k[f]]

RequestShapes ==
  /\ parent = [p \in Parents |-> parent[p]] /\ \A p \in Parents : SetupShape(parent[p])
  /\ child = [c \in Children |-> child[c]] /\ \A c \in Children : ChildShape(child[c])
  /\ records = [made |-> records.made, durable |-> records.durable]
  /\ records.durable \subseteq records.made

\* The steps of a child after it read the request, took it up, and made that durable.
Acting == {"check", "consume", "lock", "apply"}
HoldingRequest == {"sync"} \cup Acting
Reading == {"reserve"} \cup HoldingRequest
Begun == {"read"} \cup Reading

AskedInv ==
  /\ written \subseteq asked
  /\ \A p \in Parents : parent[p].at \in {"create", "write", "invoke"} => parent[p].want \in asked

\* What a child has in hand at its step.
ChildInHand(k, agreed, taken, done) ==
  /\ k.at \in Begun => k.want \in agreed
  /\ k.at \in Reading => InTime(k.want, k.now)
  /\ k.at \in {"lock", "apply"} => StepsOf(k.plan, k.todo) \subseteq k.want.steps
  /\ k.at = "sync" => k.want.id \in taken.made \ taken.durable
  /\ k.at \in Acting => k.want.id \in taken.durable
  /\ k.at \in Acting => \A r \in done : r.want.id = k.want.id => r.run = k.run

ChildInv == \A c \in Children : ChildInHand(child[c], asked, records, ran)

\* No two children hold the record of one request.
Apart ==
  \A c, d \in Children :
    c # d /\ child[c].at \in HoldingRequest /\ child[d].at \in HoldingRequest =>
      child[c].want.id # child[d].want.id

RanInv == (\A r \in ran : r.want.id \in records.durable) /\ AuthorizedOnce

RequestIInv == RequestShapes /\ AskedInv /\ ChildInv /\ Apart /\ RanInv

LEMMA RequestInitIInv == AuthInit => RequestIInv
<1> SUFFICES ASSUME AuthInit PROVE RequestIInv
  OBVIOUS
<1> USE DEF AuthInit
<1>1. SetupShape(NoSetup) /\ ChildShape(NoChild)
  BY DEF SetupShape, ChildShape, SetupFields, ChildFields, NoSetup, NoChild
<1>2. \A c \in Children : child[c] = NoChild
  OBVIOUS
<1>3. \A p \in Parents : parent[p] = NoSetup
  OBVIOUS
<1>4. RequestShapes
  BY <1>1, <1>2, <1>3 DEF RequestShapes
<1>5. NoSetup.at = "idle" /\ NoChild.at = "idle"
  BY DEF NoSetup, NoChild
<1>6. AskedInv
  BY <1>3, <1>5 DEF AskedInv
<1>7. ChildInv /\ Apart
  BY <1>2, <1>5 DEF ChildInv, ChildInHand, Apart, Begun, Reading, HoldingRequest, Acting
<1>8. RanInv
  BY DEF RanInv, AuthorizedOnce
<1>q. QED
  BY <1>4, <1>6, <1>7, <1>8 DEF RequestIInv

(***************************************************************************)
(* How a setup and a child go on.                                          *)
(***************************************************************************)
SetupsKept ==
  /\ parent' = [p \in Parents |-> parent'[p]] /\ \A p \in Parents : SetupShape(parent'[p])
  /\ AskedInv'

ChildrenKept ==
  /\ child' = [c \in Children |-> child'[c]] /\ \A c \in Children : ChildShape(child'[c])
  /\ ChildInv' /\ Apart' /\ RanInv'

LEMMA SetupMoves ==
  ASSUME RequestIInv, NEW p \in Parents, NEW s, SetupShape(s), parent' = [parent EXCEPT ![p] = s],
         s.at \in {"create", "write", "invoke"} => s.want \in asked',
         asked \subseteq asked', written' \subseteq asked'
  PROVE  SetupsKept
<1>1. parent' = [q \in Parents |-> IF q = p THEN s ELSE parent[q]]
  BY DEF RequestIInv, RequestShapes
<1>q. QED
  BY <1>1 DEF RequestIInv, RequestShapes, AskedInv, SetupsKept

\* Nothing of what the children rely on changes but the child itself.
LEMMA ChildMoves ==
  ASSUME RequestIInv, NEW c \in Children, NEW k, ChildShape(k), child' = [child EXCEPT ![c] = k],
         ChildInHand(k, asked, records, ran),
         k.at \in HoldingRequest => child[c].at \in HoldingRequest /\ child[c].want.id = k.want.id,
         UNCHANGED <<records, ran>>, asked \subseteq asked'
  PROVE  ChildrenKept
<1>1. child' = [d \in Children |-> IF d = c THEN k ELSE child[d]]
  BY DEF RequestIInv, RequestShapes
<1>2. \A d \in Children : ChildInHand(child'[d], asked, records, ran)
  BY <1>1 DEF RequestIInv, ChildInv
<1>3. ChildInv'
  BY <1>2 DEF ChildInv, ChildInHand
<1>4. Apart'
  BY <1>1 DEF RequestIInv, Apart
<1>5. RanInv'
  BY DEF RequestIInv, RanInv, AuthorizedOnce
<1>q. QED
  BY <1>1, <1>3, <1>4, <1>5 DEF RequestIInv, RequestShapes, ChildrenKept

LEMMA ChildrenStay ==
  ASSUME RequestIInv, UNCHANGED <<child, records, ran>>, asked \subseteq asked'
  PROVE  ChildrenKept
BY DEF RequestIInv, RequestShapes, ChildInv, ChildInHand, Apart, RanInv, AuthorizedOnce, ChildrenKept

(***************************************************************************)
(* The steps of a setup.                                                   *)
(***************************************************************************)
LEMMA GoesKeeps ==
  ASSUME RequestIInv, NEW p \in Parents, NEW step, SetupGoes(p, step),
         step \in {"create", "write", "invoke"} => parent[p].want \in asked',
         asked \subseteq asked', written' \subseteq asked'
  PROVE  SetupsKept
<1> DEFINE s == [parent[p] EXCEPT !.at = step]
<1>1. SetupShape(s) /\ s.at = step /\ s.want = parent[p].want
  BY DEF RequestIInv, RequestShapes, SetupShape, SetupFields
<1>2. parent' = [parent EXCEPT ![p] = s]
  BY DEF SetupGoes
<1> HIDE DEF s
<1>q. QED
  BY <1>1, <1>2, SetupMoves

LEMMA EndsKeeps ==
  ASSUME RequestIInv, NEW p \in Parents, SetupEnds(p), asked \subseteq asked', written' \subseteq asked'
  PROVE  SetupsKept
<1>1. parent' = [parent EXCEPT ![p] = NoSetup]
  BY DEF SetupEnds
<1>2. SetupShape(NoSetup) /\ NoSetup.at = "idle"
  BY DEF SetupShape, SetupFields, NoSetup
<1>q. QED
  BY <1>1, <1>2, SetupMoves

\* A step of a setup that leaves the request file and the children alone.
LEMMA BeforeKeeps ==
  ASSUME RequestIInv, NEW p \in Parents, Begin(p) \/ Check(p) \/ Complete(p)
  PROVE  RequestIInv'
<1>1. UNCHANGED <<child, records, ran, written>> /\ asked \subseteq asked'
  BY DEF Begin, Check, Complete, OnlySetups
<1>2. written' \subseteq asked'
  BY <1>1 DEF RequestIInv, AskedInv
<1>3. SetupShape(parent[p])
  BY DEF RequestIInv, RequestShapes
<1>4. CASE Begin(p)
  <2>1. PICK plan \in Plans, consent \in BOOLEAN, rev \in {receipt.rev + 0, receipt.rev + 1} :
          parent' = [parent EXCEPT ![p] = [NoSetup EXCEPT
                       !.at = "check", !.plan = plan, !.consent = consent, !.now = now,
                       !.rev = rev, !.ask = rest.asks]]
    BY <1>4 DEF Begin
  <2> DEFINE s == [NoSetup EXCEPT !.at = "check", !.plan = plan, !.consent = consent, !.now = now,
                                  !.rev = rev, !.ask = rest.asks]
  <2>2. SetupShape(s) /\ s.at = "check"
    BY DEF SetupShape, SetupFields, NoSetup
  <2> HIDE DEF s
  <2>3. parent' = [parent EXCEPT ![p] = s]
    BY <2>1 DEF s
  <2>4. SetupsKept
    BY <1>1, <1>2, <2>2, <2>3, SetupMoves
  <2>q. QED
    BY <1>1, <2>4, ChildrenStay DEF RequestIInv, RequestShapes, SetupsKept, ChildrenKept
<1>5. CASE Check(p)
  <2> DEFINE todo == {a \in DOMAIN parent[p].plan : host[a] = "todo"}
             human == {a \in DOMAIN parent[p].plan : host[a] = "human"}
             s == [parent[p] EXCEPT !.at = "complete", !.todo = todo, !.human = human]
  <2>1. parent' = [parent EXCEPT ![p] = s]
    BY <1>5 DEF Check, RequestIInv, RequestShapes
  <2> HIDE DEF todo, human
  <2>2. SetupShape(s) /\ s.at = "complete"
    BY <1>3 DEF SetupShape, SetupFields
  <2> HIDE DEF s
  <2>3. SetupsKept
    BY <1>1, <1>2, <2>1, <2>2, SetupMoves
  <2>q. QED
    BY <1>1, <2>3, ChildrenStay DEF RequestIInv, RequestShapes, SetupsKept, ChildrenKept
<1>6. CASE Complete(p)
  <2> DEFINE want == Displayed(p)
             s == [parent[p] EXCEPT !.at = "create", !.want = want]
  <2>1. \/ SetupEnds(p)
        \/ parent' = [parent EXCEPT ![p] = s] /\ want \in asked'
    BY <1>6 DEF Complete, MayAsk, SetupEnds
  <2> HIDE DEF want
  <2>2. SetupShape(s) /\ s.at = "create" /\ s.want = want
    BY <1>3 DEF SetupShape, SetupFields
  <2> HIDE DEF s
  <2>3. SetupsKept
    BY <1>1, <1>2, <2>1, <2>2, SetupMoves, EndsKeeps
  <2>q. QED
    BY <1>1, <2>3, ChildrenStay DEF RequestIInv, RequestShapes, SetupsKept, ChildrenKept
<1>q. QED
  BY <1>4, <1>5, <1>6

LEMMA RequestKeeps ==
  ASSUME RequestIInv, NEW p \in Parents, CreateRequest(p) \/ WriteRequest(p) \/ Withdraw(p)
  PROVE  RequestIInv'
<1>1. UNCHANGED <<child, records, ran, asked>> /\ parent[p].at \in {"create", "write", "withdraw"}
  BY DEF CreateRequest, WriteRequest, Withdraw, OnlySetups
<1>2. parent[p].at \in {"create", "write"} => parent[p].want \in asked
  BY DEF RequestIInv, AskedInv
<1>3. written' \subseteq asked'
  BY <1>1, <1>2 DEF CreateRequest, WriteRequest, Withdraw, RequestIInv, AskedInv
<1>4. \/ SetupEnds(p)
      \/ parent[p].at \in {"create", "write"} /\ \E step : SetupGoes(p, step)
  BY DEF CreateRequest, WriteRequest, Withdraw
<1>5. SetupsKept
  BY <1>1, <1>2, <1>3, <1>4, GoesKeeps, EndsKeeps
<1>q. QED
  BY <1>1, <1>5, ChildrenStay DEF RequestIInv, RequestShapes, SetupsKept, ChildrenKept

(***************************************************************************)
(* The launcher: a setup and a child.                                      *)
(***************************************************************************)
LEMMA StartedInHand ==
  ASSUME NEW plan, NEW want \in asked
  PROVE  ChildShape(Started(plan, want)) /\ ChildInHand(Started(plan, want), asked, records, ran)
         /\ Started(plan, want).at = "read"
<1> DEFINE k == Started(plan, want)
<1>1. ChildShape(k) /\ k.at = "read" /\ k.want = want
  BY DEF Started, ChildShape, ChildFields, NoChild
<1> HIDE DEF k
<1>2. ChildInHand(k, asked, records, ran)
  BY <1>1 DEF ChildInHand, Begun, Reading, HoldingRequest, Acting
<1>q. QED
  BY <1>1, <1>2 DEF k

LEMMA NoneInHand ==
  ASSUME NEW how \in {"idle", "succeeded", "failed"}
  PROVE  LET k == [NoChild EXCEPT !.at = how]
         IN ChildShape(k) /\ ChildInHand(k, asked, records, ran) /\ k.at = how
BY DEF ChildShape, ChildFields, NoChild, ChildInHand, Begun, Reading, HoldingRequest, Acting

LEMMA InvokeKeeps == ASSUME RequestIInv, NEW p \in Parents, Invoke(p) PROVE RequestIInv'
<1>1. UNCHANGED <<records, ran, asked, written>> /\ parent[p].at = "invoke"
  BY DEF Invoke, OnlySetups
<1>2. parent[p].want \in asked /\ written' \subseteq asked'
  BY <1>1 DEF RequestIInv, AskedInv
<1>3. CASE UNCHANGED child /\ SetupGoes(p, "withdraw")
  BY <1>1, <1>2, <1>3, GoesKeeps, ChildrenStay DEF RequestIInv, RequestShapes, SetupsKept, ChildrenKept
<1>4. CASE ~(UNCHANGED child /\ SetupGoes(p, "withdraw"))
  <2>1. PICK c \in Unused, plan \in Plans :
          /\ child' = [child EXCEPT ![c] = Started(plan, parent[p].want)]
          /\ parent' = [parent EXCEPT ![p].at = "await", ![p].of = c]
    BY <1>4 DEF Invoke
  <2>2. c \in Children
    BY DEF Unused, AnyOf
  <2> DEFINE s == [parent[p] EXCEPT !.at = "await", !.of = c]
             k == Started(plan, parent[p].want)
  <2>3. SetupShape(s) /\ s.at = "await"
    BY DEF RequestIInv, RequestShapes, SetupShape, SetupFields
  <2>4. parent' = [parent EXCEPT ![p] = s]
    BY <2>1 DEF RequestIInv, RequestShapes
  <2>5. ChildShape(k) /\ ChildInHand(k, asked, records, ran) /\ k.at \notin HoldingRequest
    BY <1>2, StartedInHand DEF HoldingRequest, Acting
  <2> HIDE DEF s, k
  <2>6. SetupsKept
    BY <1>1, <1>2, <2>3, <2>4, SetupMoves
  <2>7. ChildrenKept
    BY <1>1, <2>1, <2>2, <2>5, ChildMoves DEF k
  <2>q. QED
    BY <1>1, <2>6, <2>7 DEF RequestIInv, RequestShapes, SetupsKept, ChildrenKept
<1>q. QED
  BY <1>3, <1>4

LEMMA AwaitKeeps == ASSUME RequestIInv, NEW p \in Parents, Await(p) PROVE RequestIInv'
<1>1. UNCHANGED <<records, ran, asked, written>> /\ (SetupEnds(p) \/ SetupGoes(p, "withdraw"))
  BY DEF Await, OnlySetups
<1>2. SetupsKept
  BY <1>1, GoesKeeps, EndsKeeps DEF RequestIInv, AskedInv
<1> DEFINE c == parent[p].of
<1>3. child' = [child EXCEPT ![c] = NoChild]
  BY DEF Await
<1>4. CASE c \in Children
  <2>1. ChildShape(NoChild) /\ ChildInHand(NoChild, asked, records, ran) /\ NoChild.at \notin HoldingRequest
    BY DEF ChildShape, ChildFields, NoChild, ChildInHand, Begun, Reading, HoldingRequest, Acting
  <2>2. PICK d \in Children : d = c
    BY <1>4
  <2>3. ChildrenKept
    BY <1>1, <1>3, <2>1, <2>2, ChildMoves
  <2>q. QED
    BY <1>1, <1>2, <2>3 DEF RequestIInv, RequestShapes, SetupsKept, ChildrenKept
<1>5. CASE c \notin Children
  <2>1. child' = child
    BY <1>3, <1>5 DEF RequestIInv, RequestShapes
  <2>q. QED
    BY <1>1, <1>2, <2>1, ChildrenStay DEF RequestIInv, RequestShapes, SetupsKept, ChildrenKept
<1>q. QED
  BY <1>4, <1>5

(***************************************************************************)
(* The steps of a child.                                                   *)
(***************************************************************************)
LEMMA OnlyChildrenKeep ==
  ASSUME RequestIInv, OnlyChildren, records' = [made |-> records'.made, durable |-> records'.durable],
         records'.durable \subseteq records'.made, ChildrenKept
  PROVE  RequestIInv'
BY DEF RequestIInv, RequestShapes, OnlyChildren, ChildrenKept, AskedInv

LEMMA ChildEndKeeps ==
  ASSUME RequestIInv, NEW c \in Children, NEW how \in {"failed", "succeeded"}, ChildEnds(c, how),
         UNCHANGED <<records, ran, asked>>
  PROVE  ChildrenKept
<1> DEFINE said == IF \E p \in Parents : parent[p].of = c THEN how ELSE "idle"
           k == [NoChild EXCEPT !.at = said]
<1>1. said \in {"idle", "succeeded", "failed"}
  OBVIOUS
<1>2. child' = [child EXCEPT ![c] = k]
  BY DEF ChildEnds
<1> HIDE DEF said
<1>3. ChildShape(k) /\ ChildInHand(k, asked, records, ran) /\ k.at = said
  BY <1>1, NoneInHand
<1> HIDE DEF k
<1>4. k.at \notin HoldingRequest
  BY <1>1, <1>3 DEF HoldingRequest, Acting
<1>q. QED
  BY <1>2, <1>3, <1>4, ChildMoves

\* A child moves on to a step for which it has what it needs.
LEMMA ChildStepKeeps ==
  ASSUME RequestIInv, NEW c \in Children, NEW k, ChildShape(k), child' = [child EXCEPT ![c] = k],
         ChildInHand(k, asked, records, ran),
         k.at \in HoldingRequest => child[c].at \in HoldingRequest /\ child[c].want.id = k.want.id,
         UNCHANGED <<records, ran>>, OnlyChildren
  PROVE  RequestIInv'
<1>1. asked \subseteq asked'
  BY DEF OnlyChildren
<1>2. ChildrenKept
  BY <1>1, ChildMoves
<1>q. QED
  BY <1>2, OnlyChildrenKeep DEF RequestIInv, RequestShapes

LEMMA ReadingKeeps ==
  ASSUME RequestIInv, NEW c \in Children, RunByHand(c) \/ ReadRequest(c)
  PROVE  RequestIInv'
<1>1. UNCHANGED <<records, ran>> /\ OnlyChildren
  BY DEF RunByHand, ReadRequest
<1>2. CASE RunByHand(c)
  <2>1. PICK want \in written, plan \in Plans : child' = [child EXCEPT ![c] = Started(plan, want)]
    BY <1>2 DEF RunByHand
  <2> DEFINE k == Started(plan, want)
  <2>2. want \in asked
    BY DEF RequestIInv, AskedInv
  <2>3. ChildShape(k) /\ ChildInHand(k, asked, records, ran) /\ k.at = "read"
    BY <2>2, StartedInHand
  <2>4. child' = [child EXCEPT ![c] = k]
    BY <2>1
  <2> HIDE DEF k
  <2>q. QED
    BY <1>1, <2>3, <2>4, ChildStepKeeps DEF HoldingRequest, Acting
<1>3. CASE ReadRequest(c)
  <2>1. CASE ChildEnds(c, "failed")
    BY <1>1, <2>1, ChildEndKeeps, OnlyChildrenKeep DEF OnlyChildren, RequestIInv, RequestShapes
  <2>2. CASE ~ChildEnds(c, "failed")
    <3> DEFINE k == [child[c] EXCEPT !.at = "reserve", !.file = request.file]
    <3>1. child' = [child EXCEPT ![c].at = "reserve", ![c].file = request.file]
      BY <1>3, <2>2 DEF ReadRequest
    <3>2. child' = [child EXCEPT ![c] = k] /\ InTime(child[c].want, child[c].now) /\ child[c].at = "read"
      BY <1>3, <2>2, <3>1 DEF ReadRequest, RequestIInv, RequestShapes
    <3>3. ChildShape(k) /\ k.at = "reserve" /\ k.want = child[c].want /\ k.now = child[c].now
      BY DEF RequestIInv, RequestShapes, ChildShape, ChildFields
    <3> HIDE DEF k
    <3>4. ChildInHand(child[c], asked, records, ran)
      BY DEF RequestIInv, ChildInv
    <3>5. ChildInHand(k, asked, records, ran)
      BY <3>2, <3>3, <3>4 DEF ChildInHand, Begun, Reading, HoldingRequest, Acting
    <3>q. QED
      BY <1>1, <3>2, <3>3, <3>5, ChildStepKeeps DEF HoldingRequest, Acting
  <2>q. QED
    BY <2>1, <2>2
<1>q. QED
  BY <1>2, <1>3

\* From the check to the end the child has the record, and its request is not changed.
LEMMA ActingKeeps ==
  ASSUME RequestIInv, NEW c \in Children, CheckChild(c) \/ Consume(c) \/ LockSystem(c) \/ Succeed(c)
  PROVE  RequestIInv'
<1>1. UNCHANGED <<records, ran>> /\ OnlyChildren /\ child[c].at \in Acting
  BY DEF CheckChild, Consume, LockSystem, Succeed, Acting
<1>2. ChildInHand(child[c], asked, records, ran) /\ ChildShape(child[c])
  BY DEF RequestIInv, ChildInv, RequestShapes
<1>3. CASE ChildEnds(c, "failed") \/ ChildEnds(c, "succeeded")
  BY <1>1, <1>3, ChildEndKeeps, OnlyChildrenKeep DEF OnlyChildren, RequestIInv, RequestShapes
<1>4. CASE CheckChild(c)
  <2> DEFINE todo == {a \in DOMAIN child[c].plan : host[a] = "todo"}
             k == [child[c] EXCEPT !.at = "consume", !.todo = todo]
  <2>1. child' = [child EXCEPT ![c] = k]
    BY <1>4 DEF CheckChild, RequestIInv, RequestShapes
  <2> HIDE DEF todo
  <2>2. ChildShape(k) /\ k.at = "consume" /\ k.want = child[c].want /\ k.now = child[c].now /\ k.run = child[c].run
    BY <1>2 DEF ChildShape, ChildFields
  <2> HIDE DEF k
  <2>3. ChildInHand(k, asked, records, ran)
    BY <1>1, <1>2, <2>2 DEF ChildInHand, Begun, Reading, HoldingRequest, Acting
  <2>q. QED
    BY <1>1, <2>1, <2>2, <2>3, ChildStepKeeps DEF HoldingRequest
<1>5. ASSUME NEW step \in {"lock", "apply"}, ChildGoes(c, step),
             StepsOf(child[c].plan, child[c].todo) \subseteq child[c].want.steps
      PROVE  RequestIInv'
  <2> DEFINE k == [child[c] EXCEPT !.at = step]
  <2>1. child' = [child EXCEPT ![c] = k]
    BY <1>5 DEF ChildGoes, RequestIInv, RequestShapes
  <2>2. ChildShape(k) /\ k.at = step /\ k.want = child[c].want /\ k.now = child[c].now /\ k.run = child[c].run
        /\ k.plan = child[c].plan /\ k.todo = child[c].todo
    BY <1>2 DEF ChildShape, ChildFields
  <2> HIDE DEF k
  <2>3. ChildInHand(k, asked, records, ran)
    BY <1>1, <1>2, <1>5, <2>2 DEF ChildInHand, Begun, Reading, HoldingRequest, Acting
  <2>q. QED
    BY <1>1, <2>1, <2>2, <2>3, ChildStepKeeps DEF HoldingRequest
<1>6. CASE Consume(c) /\ ~ChildEnds(c, "failed")
  BY <1>5, <1>6 DEF Consume, WasDisplayed
<1>7. CASE LockSystem(c)
  BY <1>2, <1>5, <1>7 DEF LockSystem, ChildInHand
<1>8. CASE Succeed(c)
  BY <1>3, <1>8 DEF Succeed
<1>q. QED
  BY <1>3, <1>4, <1>6, <1>7, <1>8

LEMMA ReserveKeeps == ASSUME RequestIInv, NEW c \in Children, Reserve(c) PROVE RequestIInv'
<1> DEFINE id == child[c].want.id
           k == [child[c] EXCEPT !.at = "sync"]
<1>1. ran' = ran /\ OnlyChildren /\ child[c].at = "reserve" /\ asked' = asked
  BY DEF Reserve, OnlyChildren
<1>2. CASE ChildEnds(c, "failed") /\ records' = records
  BY <1>1, <1>2, ChildEndKeeps, OnlyChildrenKeep DEF RequestIInv, RequestShapes
<1>3. CASE Free(id) /\ records' = [records EXCEPT !.made = @ \cup {id}] /\ ChildGoes(c, "sync")
  <2>1. child' = [d \in Children |-> IF d = c THEN k ELSE child[d]]
    BY <1>3 DEF ChildGoes, RequestIInv, RequestShapes
  <2>2. ChildShape(k) /\ k.at = "sync" /\ k.want = child[c].want /\ k.now = child[c].now
    BY DEF RequestIInv, RequestShapes, ChildShape, ChildFields
  <2>3. records' = [made |-> records.made \cup {id}, durable |-> records.durable]
    BY <1>3 DEF RequestIInv, RequestShapes
  <2> HIDE DEF k
  <2>4. id \notin records.made /\ id \notin records.durable
    BY <1>3 DEF Free, RequestIInv, RequestShapes
  <2>5. \A d \in Children : ChildInHand(child[d], asked, records, ran)
    BY DEF RequestIInv, ChildInv
  <2>6. ChildInHand(k, asked, records', ran)
    <3>1. ChildInHand(child[c], asked, records, ran)
      BY <2>5
    <3>q. QED
      BY <1>1, <2>2, <2>3, <2>4, <3>1 DEF ChildInHand, Begun, Reading, HoldingRequest, Acting
  <2>7. ASSUME NEW d \in Children, d # c PROVE ChildInHand(child'[d], asked', records', ran')
    BY <1>1, <2>1, <2>3, <2>5, <2>7 DEF ChildInHand
  <2>8. ChildInv'
    BY <1>1, <2>1, <2>6, <2>7 DEF ChildInv
  <2>9. ASSUME NEW d \in Children, child[d].at \in HoldingRequest PROVE child[d].want.id \in records.made
    BY <2>5, <2>9 DEF ChildInHand, HoldingRequest, RequestIInv, RequestShapes
  <2>10. Apart'
    BY <2>1, <2>2, <2>4, <2>9 DEF RequestIInv, Apart
  <2>11. RanInv'
    BY <1>1, <2>3 DEF RequestIInv, RanInv, AuthorizedOnce
  <2>12. ChildrenKept
    BY <2>1, <2>2, <2>8, <2>10, <2>11 DEF ChildrenKept, RequestIInv, RequestShapes
  <2>q. QED
    BY <1>1, <2>3, <2>12, OnlyChildrenKeep DEF RequestIInv, RequestShapes
<1>q. QED
  BY <1>2, <1>3 DEF Reserve

LEMMA SyncKeeps == ASSUME RequestIInv, NEW c \in Children, SyncRecord(c) PROVE RequestIInv'
<1> DEFINE id == child[c].want.id
           k == [child[c] EXCEPT !.at = "check"]
<1>1. ran' = ran /\ OnlyChildren /\ child[c].at = "sync" /\ asked' = asked
  BY DEF SyncRecord, OnlyChildren
<1>2. \A d \in Children : ChildInHand(child[d], asked, records, ran)
  BY DEF RequestIInv, ChildInv
<1>3. id \in records.made /\ id \notin records.durable
  BY <1>1, <1>2 DEF ChildInHand
<1>4. ASSUME NEW d \in Children, d # c, child[d].at \in HoldingRequest PROVE child[d].want.id # id
  BY <1>1, <1>4 DEF RequestIInv, Apart, HoldingRequest
<1>5. CASE Synced(id) /\ ChildGoes(c, "check")
  <2>1. child' = [d \in Children |-> IF d = c THEN k ELSE child[d]]
    BY <1>5 DEF ChildGoes, RequestIInv, RequestShapes
  <2>2. ChildShape(k) /\ k.at = "check" /\ k.want = child[c].want /\ k.now = child[c].now
    BY DEF RequestIInv, RequestShapes, ChildShape, ChildFields
  <2>3. records' = [made |-> records.made, durable |-> records.durable \cup {id}]
    BY <1>5 DEF Synced, RequestIInv, RequestShapes
  <2> HIDE DEF k
  <2>4. ChildInHand(k, asked, records', ran)
    <3>1. \A r \in ran : r.want.id # id
      BY <1>3 DEF RequestIInv, RanInv
    <3>2. ChildInHand(child[c], asked, records, ran)
      BY <1>2
    <3>q. QED
      BY <1>1, <2>2, <2>3, <3>1, <3>2 DEF ChildInHand, Begun, Reading, HoldingRequest, Acting
  <2>5. ASSUME NEW d \in Children, d # c PROVE ChildInHand(child'[d], asked', records', ran')
    BY <1>1, <1>2, <1>4, <2>1, <2>3, <2>5 DEF ChildInHand, HoldingRequest
  <2>6. ChildInv'
    BY <1>1, <2>1, <2>4, <2>5 DEF ChildInv
  <2>7. Apart'
    BY <1>1, <2>1, <2>2 DEF RequestIInv, Apart, HoldingRequest, Acting
  <2>8. RanInv'
    BY <1>1, <2>3 DEF RequestIInv, RanInv, AuthorizedOnce
  <2>9. ChildrenKept
    BY <2>1, <2>2, <2>6, <2>7, <2>8 DEF ChildrenKept, RequestIInv, RequestShapes
  <2>q. QED
    BY <1>1, <1>3, <2>3, <2>9, OnlyChildrenKeep DEF RequestIInv, RequestShapes
<1>6. CASE records' = [records EXCEPT !.made = @ \ {id}] /\ ChildEnds(c, "failed")
  <2>1. records' = [made |-> records.made \ {id}, durable |-> records.durable]
    BY <1>6 DEF RequestIInv, RequestShapes
  <2> DEFINE said == IF \E p \in Parents : parent[p].of = c THEN "failed" ELSE "idle"
             none == [NoChild EXCEPT !.at = said]
  <2>2. child' = [child EXCEPT ![c] = none]
    BY <1>6 DEF ChildEnds
  <2>3. child' = [d \in Children |-> IF d = c THEN none ELSE child[d]]
    BY <2>2 DEF RequestIInv, RequestShapes
  <2>4. said \in {"idle", "succeeded", "failed"}
    OBVIOUS
  <2> HIDE DEF said
  <2>5. ChildShape(none) /\ none.at = said
    BY <2>4, NoneInHand
  <2> HIDE DEF none
  <2>6. ASSUME NEW d \in Children PROVE ChildInHand(child'[d], asked', records', ran')
    <3>1. CASE d = c
      BY <2>3, <2>4, <2>5, <3>1 DEF ChildInHand, Begun, Reading, HoldingRequest, Acting
    <3>2. CASE d # c
      BY <1>1, <1>2, <1>4, <2>1, <2>3, <3>2 DEF ChildInHand, HoldingRequest
    <3>q. QED
      BY <3>1, <3>2
  <2>7. ChildInv'
    BY <2>6 DEF ChildInv
  <2>8. Apart'
    BY <2>3, <2>4, <2>5 DEF RequestIInv, Apart, HoldingRequest, Acting
  <2>9. RanInv'
    BY <1>1, <2>1 DEF RequestIInv, RanInv, AuthorizedOnce
  <2>10. ChildrenKept
    BY <2>3, <2>5, <2>7, <2>8, <2>9 DEF ChildrenKept, RequestIInv, RequestShapes
  <2>q. QED
    BY <1>1, <1>3, <2>1, <2>10, OnlyChildrenKeep DEF RequestIInv, RequestShapes
<1>q. QED
  BY <1>5, <1>6 DEF SyncRecord

LEMMA ApplyKeeps == ASSUME RequestIInv, NEW c \in Children, ApplyAction(c) PROVE RequestIInv'
<1>1. /\ records' = records /\ OnlyChildren /\ asked' = asked
      /\ child[c].at = "apply" /\ child[c].todo # {}
  BY DEF ApplyAction, OnlyChildren
<1> DEFINE a == CHOOSE x \in child[c].todo : TRUE
           k == [child[c] EXCEPT !.todo = @ \ {a}]
           r == [want |-> child[c].want, step |-> <<a, child[c].plan[a]>>,
                 run |-> child[c].run, at |-> child[c].now]
<1>2. child' = [child EXCEPT ![c].todo = @ \ {a}] /\ (ran' = ran \/ ran' = ran \cup {r})
  BY DEF ApplyAction
<1>3. a \in child[c].todo
  BY <1>1
<1> HIDE DEF a
<1>4. child' = [d \in Children |-> IF d = c THEN k ELSE child[d]]
  BY <1>2 DEF RequestIInv, RequestShapes
<1>5. /\ ChildShape(k) /\ k.at = "apply" /\ k.want = child[c].want /\ k.now = child[c].now
      /\ k.plan = child[c].plan /\ k.run = child[c].run /\ k.todo \subseteq child[c].todo
  BY <1>1 DEF RequestIInv, RequestShapes, ChildShape, ChildFields
<1> HIDE DEF k
<1>6. \A d \in Children : ChildInHand(child[d], asked, records, ran)
  BY DEF RequestIInv, ChildInv
<1>7. /\ child[c].want \in asked /\ InTime(child[c].want, child[c].now)
      /\ StepsOf(child[c].plan, child[c].todo) \subseteq child[c].want.steps
      /\ child[c].want.id \in records.durable
      /\ \A s \in ran : s.want.id = child[c].want.id => s.run = child[c].run
  BY <1>1, <1>6 DEF ChildInHand, Begun, Reading, HoldingRequest, Acting
<1>8. /\ r.want = child[c].want /\ r.step \in child[c].want.steps /\ r.run = child[c].run
      /\ r.at = child[c].now
  BY <1>3, <1>7 DEF StepsOf
<1> HIDE DEF r
<1>9. ChildInHand(k, asked', records', ran')
  <2>1. StepsOf(k.plan, k.todo) \subseteq child[c].want.steps
    BY <1>5, <1>7 DEF StepsOf
  <2>2. \A s \in ran' : s.want.id = k.want.id => s.run = k.run
    BY <1>2, <1>5, <1>7, <1>8
  <2>q. QED
    BY <1>1, <1>5, <1>7, <2>1, <2>2 DEF ChildInHand
<1>10. ASSUME NEW d \in Children, d # c PROVE ChildInHand(child'[d], asked', records', ran')
  <2>1. child[d].at \in Acting => child[d].want.id # child[c].want.id
    BY <1>1, <1>10 DEF RequestIInv, Apart, HoldingRequest, Acting
  <2>2. ChildInHand(child[d], asked, records, ran) /\ child'[d] = child[d]
    BY <1>4, <1>6, <1>10
  <2>3. \A s \in ran' : s \in ran \/ s.want.id = child[c].want.id
    BY <1>2, <1>8
  <2>4. child[d].at \in Acting => \A s \in ran' : s.want.id = child[d].want.id => s.run = child[d].run
    BY <2>1, <2>2, <2>3 DEF ChildInHand
  <2>q. QED
    BY <1>1, <2>2, <2>4 DEF ChildInHand
<1>11. ChildInv'
  BY <1>4, <1>9, <1>10 DEF ChildInv
<1>12. Apart'
  BY <1>1, <1>4, <1>5 DEF RequestIInv, Apart, HoldingRequest, Acting
<1>13. RanInv'
  <2>1. \A s \in ran' : s.want.id \in records.durable
    BY <1>2, <1>7, <1>8 DEF RequestIInv, RanInv
  <2>2. \A s \in ran' : /\ s.want \in asked /\ s.step \in s.want.steps
                        /\ s.want.issued <= s.at /\ s.at < s.want.issued + Lifetime
    BY <1>2, <1>7, <1>8 DEF RequestIInv, RanInv, AuthorizedOnce, InTime
  <2>3. \A s, t \in ran' : t.want.id = s.want.id => t.run = s.run
    BY <1>2, <1>7, <1>8 DEF RequestIInv, RanInv, AuthorizedOnce
  <2>q. QED
    BY <1>1, <2>1, <2>2, <2>3 DEF RanInv, AuthorizedOnce
<1>14. ChildrenKept
  BY <1>4, <1>5, <1>11, <1>12, <1>13 DEF ChildrenKept, RequestIInv, RequestShapes
<1>q. QED
  BY <1>1, <1>14, OnlyChildrenKeep DEF RequestIInv, RequestShapes

(***************************************************************************)
(* Everything else.                                                        *)
(***************************************************************************)
LEMMA NoneMoves ==
  ASSUME RequestIInv, UNCHANGED <<records, parent, child, asked, written, ran>> PROVE RequestIInv'
BY DEF RequestIInv, RequestShapes, AskedInv, ChildInv, Apart, RanInv, AuthorizedOnce

LEMMA StopKeeps == ASSUME RequestIInv, Stop PROVE RequestIInv'
<1>1. UNCHANGED <<records, asked, written, ran>>
  BY DEF Stop
<1>2. ASSUME NEW p \in Parents, SetupEnds(p),
             child' = [c \in Children |->
               IF parent[p].of = c /\ child[c].at \in {"succeeded", "failed"} THEN NoChild ELSE child[c]]
      PROVE  RequestIInv'
  <2>1. SetupsKept
    BY <1>1, <1>2, EndsKeeps DEF RequestIInv, AskedInv
  <2>2. ChildShape(NoChild) /\ ChildInHand(NoChild, asked, records, ran) /\ NoChild.at \notin HoldingRequest
    BY DEF ChildShape, ChildFields, NoChild, ChildInHand, Begun, Reading, HoldingRequest, Acting
  <2>3. \A c \in Children : child'[c] = child[c] \/ child'[c] = NoChild
    BY <1>2
  <2>4. /\ child' = [c \in Children |-> child'[c]]
        /\ \A c \in Children : ChildShape(child'[c]) /\ ChildInHand(child'[c], asked, records, ran)
    BY <1>2, <2>2, <2>3 DEF RequestIInv, RequestShapes, ChildInv
  <2>5. ChildInv' /\ Apart'
    BY <1>1, <2>2, <2>3, <2>4 DEF ChildInv, RequestIInv, Apart
  <2>q. QED
    BY <1>1, <2>1, <2>4, <2>5 DEF SetupsKept, RequestIInv, RequestShapes, RanInv, AuthorizedOnce
<1>3. ASSUME NEW c \in Children, ChildEnds(c, "failed"), UNCHANGED parent PROVE RequestIInv'
  <2>1. ChildrenKept
    BY <1>1, <1>3, ChildEndKeeps
  <2>q. QED
    BY <1>1, <1>3, <2>1 DEF ChildrenKept, RequestIInv, RequestShapes, AskedInv
<1>q. QED
  BY <1>2, <1>3 DEF Stop

\* What is lost with the power is a record that nobody has acted on.
LEMMA PowerLossKeeps == ASSUME RequestIInv, PowerLoss PROVE RequestIInv'
<1>1. /\ UNCHANGED <<asked, written, ran>> /\ records' = [records EXCEPT !.made = records.durable]
      /\ parent' = [p \in Parents |-> NoSetup] /\ child' = [c \in Children |-> NoChild]
  BY DEF PowerLoss
<1>2. records' = [made |-> records.durable, durable |-> records.durable]
  BY <1>1 DEF RequestIInv, RequestShapes
<1>3. /\ ChildShape(NoChild) /\ NoChild.at = "idle"
      /\ SetupShape(NoSetup) /\ NoSetup.at = "idle"
  BY DEF ChildShape, ChildFields, NoChild, SetupShape, SetupFields, NoSetup
<1>4. \A c \in Children : child'[c] = NoChild
  BY <1>1
<1>5. \A p \in Parents : parent'[p] = NoSetup
  BY <1>1
<1>6. RequestShapes'
  BY <1>1, <1>2, <1>3, <1>4, <1>5 DEF RequestShapes
<1>7. AskedInv'
  BY <1>1, <1>3, <1>5 DEF RequestIInv, AskedInv
<1>8. ChildInv' /\ Apart'
  BY <1>3, <1>4 DEF ChildInv, ChildInHand, Apart, Begun, Reading, HoldingRequest, Acting
<1>9. RanInv'
  BY <1>1, <1>2 DEF RequestIInv, RanInv, AuthorizedOnce
<1>q. QED
  BY <1>6, <1>7, <1>8, <1>9 DEF RequestIInv

LEMMA RequestStepIInv == RequestIInv /\ [AuthNext]_authVars => RequestIInv'
<1> SUFFICES ASSUME RequestIInv, [AuthNext]_authVars PROVE RequestIInv'
  OBVIOUS
<1>1. CASE UNCHANGED authVars
  BY <1>1, NoneMoves DEF authVars
<1>2. CASE Tick \/ PutBack \/ Others
  BY <1>2, NoneMoves DEF Tick, PutBack, Others
<1>3. ASSUME NEW p \in Parents, SetupStep(p) PROVE RequestIInv'
  BY <1>3, BeforeKeeps, RequestKeeps, InvokeKeeps, AwaitKeeps DEF SetupStep
<1>4. ASSUME NEW c \in Children, ChildStep(c) PROVE RequestIInv'
  BY <1>4, ReadingKeeps, ActingKeeps, ReserveKeeps, SyncKeeps, ApplyKeeps DEF ChildStep
<1>q. QED
  BY <1>1, <1>2, <1>3, <1>4, StopKeeps, PowerLossKeeps DEF AuthNext

\* What ever ran with privilege was agreed to with its parameters and in time, and one
\* child at most acts on a request: for any number of setups, children run by hand,
\* requests put back, kills and losses of power.
THEOREM AuthorizedAtMostOnce == AuthSpec => []AuthorizedOnce
<1>1. RequestIInv => AuthorizedOnce
  BY DEF RequestIInv, RanInv
<1>q. QED
  BY <1>1, RequestInitIInv, RequestStepIInv, PTL DEF AuthSpec

(***************************************************************************)
(* WindowsNode, for any number of setups and of changes and failures. The  *)
(* directory above is opened before the layout lock is taken, and is       *)
(* asked once more under it, so that whoever is between the lock and its   *)
(* journal is alone with what it made: nobody else can have opened it      *)
(* (Alone), and where nobody interfered it is still in place.              *)
(***************************************************************************)

HandFields == {"anchor", "dir", "created", "failed", "dirty", "said"}
HandShape(h) == h = [f \in HandFields |-> h[f]]

NodeShape(node, last) ==
  node # None => node = [id |-> node.id, by |-> node.by, ok |-> node.ok] /\ node.id \in 1..last

NodeShapes ==
  /\ at = [s \in Scopes |-> at[s]] /\ hand = [s \in Scopes |-> hand[s]]
  /\ \A s \in Scopes : HandShape(hand[s])
  /\ nodes = [a \in Anchors |-> nodes[a]] /\ \A a \in Anchors : NodeShape(nodes[a], born)
  /\ mutex = [a \in Anchors |-> mutex[a]] /\ journal = [s \in Scopes |-> journal[s]]
  /\ anchor \in Anchors \cup {None} /\ born \in Nat

\* The steps with a directory in hand, and all that are made under the lock.
HoldingSteps == {"retain", "reopen", "clean", "finish", "bind", "record"}
OpeningSteps == {"enable", "look", "create", "again"}
MutexHeld == {"reverify"} \cup OpeningSteps \cup HoldingSteps

MutexInv == \A s \in Scopes : at[s] \in MutexHeld => mutex[hand[s].anchor] = s

\* What a setup made is in place.
InPlaceStill(h) ==
  /\ anchor = h.anchor
  /\ nodes[h.anchor] # None /\ nodes[h.anchor].id = h.dir /\ nodes[h.anchor].ok

\* What a setup has in hand at its step; out are those that somebody interfered with.
StepInHand(s, step, h, out) ==
  /\ step \in {"lock"} \cup MutexHeld => h.anchor \in Anchors
  /\ h.dir \in {None} \cup 1..born
  /\ h.created => h.dir # None /\ h.anchor \in Anchors /\ step \in HoldingSteps \cup {"done"}
  /\ step \in {"retain", "bind", "record"} => h.created
  /\ step = "done" /\ h.created /\ h.said # "killed" => s \in out \/ h.dir \in journal[s]
  /\ step = "done" /\ h.said = "applied" => ~h.dirty /\ ~h.failed
  /\ s \notin out /\ step \in OpeningSteps => anchor = h.anchor
  /\ s \notin out /\ step \in HoldingSteps /\ h.created => InPlaceStill(h)

HandInv == \A s \in Scopes : StepInHand(s, at[s], hand[s], excused)

\* A directory that a setup made is where it was made, or nowhere, and it is its.
MadeInv ==
  \A q \in Scopes, a \in Anchors :
    hand[q].created /\ nodes[a] # None /\ nodes[a].id = hand[q].dir =>
      a = hand[q].anchor /\ nodes[a].by = q

JournalInv ==
  \A s \in Scopes : \A id \in journal[s] :
    /\ id \in 1..born
    /\ \A a \in Anchors : nodes[a] # None /\ nodes[a].id = id => nodes[a].by = s

\* Whoever made a directory and has not let go of it yet is the only one to have it.
Alone ==
  \A s, q \in Scopes :
    s # q /\ hand[q].created /\ at[q] \in HoldingSteps => hand[s].dir # hand[q].dir

NodeIInv == NodeShapes /\ MutexInv /\ HandInv /\ MadeInv /\ JournalInv /\ Alone

LEMMA NodeInitIInv == ASSUME NodeInit PROVE NodeIInv
<1> USE DEF NodeInit
<1>1. /\ HandShape(NoHand) /\ NoHand.dir = None /\ NoHand.created = FALSE
  BY DEF HandShape, HandFields, NoHand
<1>2. /\ \A s \in Scopes : at[s] = "idle" /\ hand[s] = NoHand /\ journal[s] = {}
      /\ \A a \in Anchors : nodes[a] = None
  OBVIOUS
<1>3. NodeShapes
  BY <1>1, <1>2 DEF NodeShapes, NodeShape, Anchors
<1>4. MutexInv
  BY <1>2 DEF MutexInv, MutexHeld, OpeningSteps, HoldingSteps
<1>5. HandInv
  BY <1>1, <1>2 DEF HandInv, StepInHand, MutexHeld, OpeningSteps, HoldingSteps
<1>6. MadeInv /\ JournalInv /\ Alone
  BY <1>1, <1>2 DEF MadeInv, JournalInv, Alone
<1>q. QED
  BY <1>3, <1>4, <1>5, <1>6 DEF NodeIInv

LEMMA IInvIsEnough == ASSUME NodeIInv PROVE WindowsCreation
<1>1. MadeIsJournalled
  BY DEF MadeIsJournalled, NodeIInv, HandInv, StepInHand
<1>2. ExistingIsSettled
  BY DEF ExistingIsSettled, Done, Holding, HoldingSteps, NodeIInv, Alone
<1>3. JournalledIsMade
  BY DEF JournalledIsMade, NodeIInv, JournalInv
<1>4. AppliedIsClean
  BY DEF AppliedIsClean, Done, NodeIInv, HandInv, StepInHand
<1>q. QED
  BY <1>1, <1>2, <1>3, <1>4 DEF WindowsCreation

(***************************************************************************)
(* A setup that goes on and changes no directory and no journal.           *)
(***************************************************************************)
MayUnlock(s, step) == mutex' = mutex \/ (step = "done" /\ Unlocked(s))

LEMMA StepKeeps ==
  ASSUME NodeIInv, NEW s \in Scopes, NEW step, NEW h, HandShape(h),
         at' = [at EXCEPT ![s] = step], hand' = [hand EXCEPT ![s] = h],
         UNCHANGED <<anchor, nodes, born, journal>>, excused \subseteq excused',
         MayUnlock(s, step), StepInHand(s, step, h, excused'),
         step \in MutexHeld => at[s] \in MutexHeld /\ h.anchor = hand[s].anchor,
         h.created => hand[s].created /\ h.dir = hand[s].dir /\ h.anchor = hand[s].anchor,
         step \in HoldingSteps /\ h.created => at[s] \in HoldingSteps,
         h.dir \in {None, hand[s].dir}
           \/ \A q \in Scopes : q # s /\ hand[q].created /\ at[q] \in HoldingSteps => h.dir # hand[q].dir
  PROVE  NodeIInv'
<1>1. /\ at' = [q \in Scopes |-> IF q = s THEN step ELSE at[q]]
      /\ hand' = [q \in Scopes |-> IF q = s THEN h ELSE hand[q]]
  BY DEF NodeIInv, NodeShapes
<1>2. mutex' = [a \in Anchors |-> mutex'[a]]
      /\ \A a \in Anchors : mutex'[a] = mutex[a] \/ (mutex[a] = s /\ step = "done")
  BY DEF MayUnlock, Unlocked, NodeIInv, NodeShapes
<1>3. NodeShapes'
  BY <1>1, <1>2 DEF NodeIInv, NodeShapes, NodeShape
<1>4. MutexInv'
  <2> SUFFICES ASSUME NEW q \in Scopes, at'[q] \in MutexHeld PROVE mutex'[hand'[q].anchor] = q
    BY DEF MutexInv
  <2>1. at[q] \in MutexHeld /\ hand'[q].anchor = hand[q].anchor /\ (q = s => step # "done")
    BY <1>1 DEF MutexHeld, OpeningSteps, HoldingSteps
  <2>2. mutex[hand[q].anchor] = q /\ hand[q].anchor \in Anchors
    BY <2>1 DEF NodeIInv, MutexInv, HandInv, StepInHand
  <2>q. QED
    BY <1>2, <2>1, <2>2
<1>5. HandInv'
  <2>1. \A q \in Scopes : StepInHand(q, at[q], hand[q], excused)
    BY DEF NodeIInv, HandInv
  <2>2. ASSUME NEW q \in Scopes PROVE StepInHand(q, at'[q], hand'[q], excused')
    BY <1>1, <2>1 DEF StepInHand
  <2>q. QED
    BY <2>2 DEF HandInv, StepInHand, InPlaceStill
<1>6. MadeInv' /\ JournalInv'
  BY <1>1 DEF NodeIInv, MadeInv, JournalInv
<1>7. Alone'
  <2>1. hand[s].dir # None => \A q \in Scopes :
          q # s /\ hand[q].created /\ at[q] \in HoldingSteps => hand[s].dir # hand[q].dir
    BY DEF NodeIInv, Alone
  <2>2. \A q \in Scopes : hand[q].created => hand[q].dir # None
    BY DEF NodeIInv, HandInv, StepInHand
  <2>3. \A q \in Scopes : q # s /\ hand[q].created /\ at[q] \in HoldingSteps => h.dir # hand[q].dir
    BY <2>1, <2>2
  <2>q. QED
    BY <1>1, <2>3 DEF NodeIInv, Alone
<1>q. QED
  BY <1>3, <1>4, <1>5, <1>6, <1>7 DEF NodeIInv

\* It ends, with an answer or an error, or is killed.
LEMMA EndKeeps ==
  ASSUME NodeIInv, NEW s \in Scopes, NEW said, said # "applied", Leave(s, said),
         UNCHANGED <<anchor, nodes, born, journal>>, excused \subseteq excused',
         hand[s].created => said = "killed" \/ s \in excused'
  PROVE  NodeIInv'
<1> DEFINE h == [hand[s] EXCEPT !.said = said]
<1>1. /\ HandShape(h) /\ h.said = said /\ h.dir = hand[s].dir /\ h.created = hand[s].created
      /\ h.anchor = hand[s].anchor
  BY DEF NodeIInv, NodeShapes, HandShape, HandFields
<1>2. at' = [at EXCEPT ![s] = "done"] /\ hand' = [hand EXCEPT ![s] = h] /\ MayUnlock(s, "done")
  BY DEF Leave, Proceed, Hold, MayUnlock
<1> HIDE DEF h
<1>3. StepInHand(s, at[s], hand[s], excused)
  BY DEF NodeIInv, HandInv
<1>4. StepInHand(s, "done", h, excused')
  BY <1>1, <1>3 DEF StepInHand, MutexHeld, OpeningSteps, HoldingSteps
<1>q. QED
  BY <1>1, <1>2, <1>4, StepKeeps DEF MutexHeld, OpeningSteps, HoldingSteps

\* It goes on with what it has in hand.
LEMMA NodeGotoKeeps ==
  ASSUME NodeIInv, NEW s \in Scopes, NEW step, Proceed(s, step), Keep,
         UNCHANGED <<anchor, nodes, born, journal, mutex>>, excused \subseteq excused',
         StepInHand(s, step, hand[s], excused),
         step \in MutexHeld => at[s] \in MutexHeld,
         step \in HoldingSteps /\ hand[s].created => at[s] \in HoldingSteps
  PROVE  NodeIInv'
<1>1. PICK h : h = hand[s]
  OBVIOUS
<1>2. at' = [at EXCEPT ![s] = step] /\ hand' = [hand EXCEPT ![s] = h] /\ HandShape(h)
  BY <1>1 DEF Proceed, Keep, NodeIInv, NodeShapes
<1>3. StepInHand(s, step, h, excused') /\ MayUnlock(s, step)
  BY <1>1 DEF StepInHand, MayUnlock
<1>q. QED
  BY <1>1, <1>2, <1>3, StepKeeps

\* It failed on the way, but what it made stays in hand.
LEMMA FailsKeeps ==
  ASSUME NodeIInv, NEW s \in Scopes, Fails(s), at[s] \in OpeningSteps \cup {"retain", "reopen"},
         UNCHANGED <<anchor, nodes, born, journal, mutex, excused>>
  PROVE  NodeIInv'
<1> DEFINE h == [hand[s] EXCEPT !.failed = TRUE]
<1>1. /\ HandShape(h) /\ h.dir = hand[s].dir /\ h.created = hand[s].created
      /\ h.anchor = hand[s].anchor
  BY DEF NodeIInv, NodeShapes, HandShape, HandFields
<1>2. at' = [at EXCEPT ![s] = "clean"] /\ hand' = [hand EXCEPT ![s] = h] /\ MayUnlock(s, "clean")
  BY DEF Fails, Proceed, Hold, MayUnlock
<1> HIDE DEF h
<1>3. StepInHand(s, at[s], hand[s], excused)
  BY DEF NodeIInv, HandInv
<1>4. StepInHand(s, "clean", h, excused')
  BY <1>1, <1>3 DEF StepInHand, InPlaceStill, MutexHeld, OpeningSteps, HoldingSteps
<1>5. h.created => at[s] \in HoldingSteps
  BY <1>1, <1>3 DEF StepInHand, OpeningSteps, HoldingSteps
<1>q. QED
  BY <1>1, <1>2, <1>4, <1>5, StepKeeps DEF MutexHeld, OpeningSteps, HoldingSteps

(***************************************************************************)
(* To the lock.                                                            *)
(***************************************************************************)
LEMMA BeforeLockKeeps ==
  ASSUME NodeIInv, NEW s \in Scopes, Inspect(s) \/ OpenAnchor(s)
  PROVE  NodeIInv'
<1>1. /\ UNCHANGED <<anchor, nodes, born, journal, excused>> /\ at[s] \in {"idle", "open"}
  BY DEF Inspect, OpenAnchor, OnlySetup
<1>2. StepInHand(s, at[s], hand[s], excused)
  BY DEF NodeIInv, HandInv
<1>3. ~hand[s].created
  BY <1>1, <1>2 DEF StepInHand, HoldingSteps
<1>4. CASE Leave(s, "there") \/ Leave(s, "failed")
  BY <1>1, <1>3, <1>4, EndKeeps
<1>5. CASE Proceed(s, "open") /\ Keep /\ UNCHANGED mutex
  BY <1>1, <1>2, <1>3, <1>5, NodeGotoKeeps DEF StepInHand, MutexHeld, OpeningSteps, HoldingSteps
<1>6. CASE /\ anchor # None /\ Hold(s, [hand[s] EXCEPT !.anchor = anchor]) /\ Proceed(s, "lock")
           /\ UNCHANGED mutex
  <2> DEFINE h == [hand[s] EXCEPT !.anchor = anchor]
  <2>1. /\ HandShape(h) /\ h.dir = hand[s].dir /\ h.created = hand[s].created /\ h.anchor = anchor
    BY DEF NodeIInv, NodeShapes, HandShape, HandFields
  <2>2. at' = [at EXCEPT ![s] = "lock"] /\ hand' = [hand EXCEPT ![s] = h] /\ MayUnlock(s, "lock")
    BY <1>6 DEF Proceed, Hold, MayUnlock
  <2> HIDE DEF h
  <2>3. StepInHand(s, "lock", h, excused')
    BY <1>2, <1>3, <1>6, <2>1 DEF StepInHand, MutexHeld, OpeningSteps, HoldingSteps, NodeIInv, NodeShapes
  <2>q. QED
    BY <1>1, <1>3, <2>1, <2>2, <2>3, StepKeeps DEF MutexHeld, OpeningSteps, HoldingSteps
<1>q. QED
  BY <1>4, <1>5, <1>6 DEF Inspect, OpenAnchor

LEMMA AcquireKeeps == ASSUME NodeIInv, NEW s \in Scopes, AcquireLock(s) PROVE NodeIInv'
<1>1. /\ UNCHANGED <<anchor, nodes, born, journal, excused, hand>> /\ at[s] = "lock"
      /\ mutex[hand[s].anchor] = None /\ mutex' = [mutex EXCEPT ![hand[s].anchor] = s]
      /\ at' = [at EXCEPT ![s] = "reverify"]
  BY DEF AcquireLock, OnlySetup, Keep, Proceed
<1>2. StepInHand(s, at[s], hand[s], excused)
  BY DEF NodeIInv, HandInv
<1>3. hand[s].anchor \in Anchors /\ ~hand[s].created
  BY <1>1, <1>2 DEF StepInHand, HoldingSteps
<1>4. at' = [q \in Scopes |-> IF q = s THEN "reverify" ELSE at[q]]
  BY <1>1 DEF NodeIInv, NodeShapes
<1>5. mutex' = [a \in Anchors |-> IF a = hand[s].anchor THEN s ELSE mutex[a]]
  BY <1>1 DEF NodeIInv, NodeShapes
<1>6. NodeShapes'
  BY <1>1, <1>4, <1>5 DEF NodeIInv, NodeShapes, NodeShape
<1>7. MutexInv'
  BY <1>1, <1>3, <1>4, <1>5, AbsentAssumption DEF NodeIInv, MutexInv, HandInv, StepInHand
<1>8. HandInv'
  <2>1. ASSUME NEW q \in Scopes PROVE StepInHand(q, at'[q], hand[q], excused)
    BY <1>2, <1>3, <1>4, <2>1 DEF NodeIInv, HandInv, StepInHand, OpeningSteps, HoldingSteps
  <2>q. QED
    BY <1>1, <2>1 DEF HandInv, StepInHand, InPlaceStill
<1>9. MadeInv' /\ JournalInv' /\ Alone'
  BY <1>1, <1>4 DEF NodeIInv, MadeInv, JournalInv, Alone, HoldingSteps
<1>q. QED
  BY <1>6, <1>7, <1>8, <1>9 DEF NodeIInv

LEMMA ReverifyKeeps ==
  ASSUME NodeIInv, NEW s \in Scopes, ReverifyPathIdentity(s) \/ Enable(s)
  PROVE  NodeIInv'
<1>1. /\ UNCHANGED <<anchor, nodes, born, journal, excused>> /\ at[s] \in {"reverify", "enable"}
  BY DEF ReverifyPathIdentity, Enable, OnlySetup
<1>2. StepInHand(s, at[s], hand[s], excused)
  BY DEF NodeIInv, HandInv
<1>3. ~hand[s].created
  BY <1>1, <1>2 DEF StepInHand, HoldingSteps
<1>4. CASE Leave(s, "failed")
  BY <1>1, <1>3, <1>4, EndKeeps
<1>5. ASSUME NEW step \in {"look", "enable"}, Proceed(s, step), Keep, UNCHANGED mutex,
             s \notin excused => anchor = hand[s].anchor
      PROVE  NodeIInv'
  BY <1>1, <1>2, <1>3, <1>5, NodeGotoKeeps DEF StepInHand, MutexHeld, OpeningSteps, HoldingSteps
<1>6. CASE at[s] = "reverify" /\ anchor = hand[s].anchor /\ Keep /\ UNCHANGED mutex
           /\ Proceed(s, IF owner[s] = "self" THEN "look" ELSE "enable")
  BY <1>5, <1>6
<1>7. CASE Enable(s) /\ Proceed(s, "look") /\ Keep /\ UNCHANGED mutex
  BY <1>2, <1>5, <1>7 DEF Enable, StepInHand, OpeningSteps
<1>q. QED
  BY <1>4, <1>6, <1>7 DEF ReverifyPathIdentity, Enable

(***************************************************************************)
(* The worker directory, under the lock.                                   *)
(***************************************************************************)

\* What is there below the anchor is nobody's who still has a directory in hand.
LEMMA FoundIsFree ==
  ASSUME NodeIInv, NEW s \in Scopes, at[s] \in MutexHeld, Of(s) # None,
         NEW q \in Scopes, q # s, hand[q].created, at[q] \in HoldingSteps
  PROVE  Of(s).id # hand[q].dir
<1>1. mutex[hand[s].anchor] = s /\ hand[s].anchor \in Anchors /\ mutex[hand[q].anchor] = q
  BY DEF NodeIInv, MutexInv, HandInv, StepInHand, MutexHeld
<1>2. SUFFICES ASSUME Of(s).id = hand[q].dir PROVE FALSE
  OBVIOUS
<1>3. hand[s].anchor = hand[q].anchor
  BY <1>1, <1>2 DEF NodeIInv, MadeInv, Of
<1>q. QED
  BY <1>1, <1>3

LEMMA ExistingKeeps ==
  ASSUME NodeIInv, NEW s \in Scopes, at[s] \in {"look", "again"}, Of(s) # None,
         OpensExisting(s), UNCHANGED <<anchor, nodes, born, journal, mutex, excused>>
  PROVE  NodeIInv'
<1>1. CASE ~Of(s).ok
  BY <1>1, FailsKeeps DEF OpensExisting, OpeningSteps
<1>2. CASE Of(s).ok
  <2> DEFINE h == [hand[s] EXCEPT !.dir = Of(s).id]
  <2>1. /\ HandShape(h) /\ h.dir = Of(s).id /\ h.created = hand[s].created
        /\ h.anchor = hand[s].anchor
    BY DEF NodeIInv, NodeShapes, HandShape, HandFields
  <2>2. at' = [at EXCEPT ![s] = "reopen"] /\ hand' = [hand EXCEPT ![s] = h] /\ MayUnlock(s, "reopen")
    BY <1>2 DEF OpensExisting, Proceed, Hold, MayUnlock
  <2> HIDE DEF h
  <2>3. StepInHand(s, at[s], hand[s], excused)
    BY DEF NodeIInv, HandInv
  <2>4. ~hand[s].created /\ hand[s].anchor \in Anchors
    BY <2>3 DEF StepInHand, MutexHeld, OpeningSteps, HoldingSteps
  <2>5. Of(s).id \in 1..born
    BY <2>4 DEF NodeIInv, NodeShapes, NodeShape, Of
  <2>6. StepInHand(s, "reopen", h, excused')
    BY <2>1, <2>4, <2>5 DEF StepInHand, MutexHeld, OpeningSteps, HoldingSteps
  <2>7. \A q \in Scopes : q # s /\ hand[q].created /\ at[q] \in HoldingSteps => h.dir # hand[q].dir
    BY <2>1, FoundIsFree DEF MutexHeld, OpeningSteps
  <2>q. QED
    BY <2>1, <2>2, <2>4, <2>6, <2>7, StepKeeps DEF MutexHeld, OpeningSteps, HoldingSteps
<1>q. QED
  BY <1>1, <1>2

LEMMA OpenKeeps ==
  ASSUME NodeIInv, NEW s \in Scopes, OpenNode(s) \/ OpenAgain(s)
  PROVE  NodeIInv'
<1>1. /\ UNCHANGED <<anchor, nodes, born, journal, mutex, excused>> /\ at[s] \in {"look", "again"}
  BY DEF OpenNode, OpenAgain, OnlySetup
<1>2. CASE Fails(s)
  BY <1>1, <1>2, FailsKeeps DEF OpeningSteps
<1>3. CASE Of(s) # None /\ OpensExisting(s)
  BY <1>1, <1>3, ExistingKeeps
<1>4. CASE Proceed(s, "create") /\ Keep
  <2>1. StepInHand(s, at[s], hand[s], excused)
    BY DEF NodeIInv, HandInv
  <2>q. QED
    BY <1>1, <1>4, <2>1, NodeGotoKeeps DEF StepInHand, MutexHeld, OpeningSteps, HoldingSteps
<1>q. QED
  BY <1>2, <1>3, <1>4 DEF OpenNode, OpenAgain

LEMMA NodeShapeLater ==
  ASSUME NEW node, NEW n \in Nat, NodeShape(node, n)
  PROVE  NodeShape(node, n + 1)
<1>1. node.id \in 1..n => node.id \in 1..(n + 1)
  OBVIOUS
<1>q. QED
  BY <1>1 DEF NodeShape

\* The directory that is made is a new one, so nobody else has it in hand or in a
\* journal, and the lock is on the anchor it is made in.
LEMMA MadeKeeps ==
  ASSUME NodeIInv, NEW s \in Scopes, at[s] = "create", Of(s) = None, born' = born + 1,
         nodes' = [nodes EXCEPT ![hand[s].anchor] = [id |-> born + 1, by |-> s, ok |-> TRUE]],
         Proceed(s, "retain"), Hold(s, [hand[s] EXCEPT !.dir = born + 1, !.created = TRUE]),
         UNCHANGED <<anchor, journal, mutex, excused>>
  PROVE  NodeIInv'
<1>1. PICK h : /\ h = [hand[s] EXCEPT !.dir = born + 1, !.created = TRUE]
               /\ HandShape(h) /\ h.dir = born + 1 /\ h.created
               /\ h.anchor = hand[s].anchor /\ h.said = hand[s].said
  <2> DEFINE g == [hand[s] EXCEPT !.dir = born + 1, !.created = TRUE]
  <2>1. /\ HandShape(g) /\ g.dir = born + 1 /\ g.created
        /\ g.anchor = hand[s].anchor /\ g.said = hand[s].said
    BY DEF NodeIInv, NodeShapes, HandShape, HandFields
  <2> HIDE DEF g
  <2>q. QED
    BY <2>1 DEF g
<1>2. hand' = [hand EXCEPT ![s] = h] /\ at' = [at EXCEPT ![s] = "retain"]
  BY <1>1 DEF Proceed, Hold
<1>3. StepInHand(s, at[s], hand[s], excused) /\ \A q \in Scopes : StepInHand(q, at[q], hand[q], excused)
  BY DEF NodeIInv, HandInv
<1>4. PICK a \in Anchors : a = hand[s].anchor
  BY <1>3 DEF StepInHand, MutexHeld, OpeningSteps
<1>5. PICK made : /\ made = [id |-> born + 1, by |-> s, ok |-> TRUE]
                  /\ made.id = born + 1 /\ made.by = s /\ made.ok
                  /\ made = [id |-> made.id, by |-> made.by, ok |-> made.ok]
  OBVIOUS
<1>6. nodes' = [nodes EXCEPT ![a] = made]
  BY <1>4, <1>5
<1>7. /\ at' = [q \in Scopes |-> IF q = s THEN "retain" ELSE at[q]]
      /\ hand' = [q \in Scopes |-> IF q = s THEN h ELSE hand[q]]
      /\ nodes' = [b \in Anchors |-> IF b = a THEN made ELSE nodes[b]]
  BY <1>2, <1>6 DEF NodeIInv, NodeShapes
<1>8. born \in Nat /\ None \notin Nat /\ nodes[a] = None
  BY <1>4, AbsentAssumption DEF NodeIInv, NodeShapes, Of
<1>9. made # None
  <2>1. made \in [id : Nat, by : Scopes \cup {None}, ok : BOOLEAN]
    BY <1>5, <1>8
  <2>q. QED
    BY <2>1, AbsentAssumption
<1>10. NodeShapes'
  <2>1. \A b \in Anchors : NodeShape(nodes'[b], born')
    <3>1. ASSUME NEW b \in Anchors PROVE NodeShape(nodes'[b], born')
      <4>1. CASE b = a
        <5>1. born + 1 \in 1..(born + 1)
          BY <1>8
        <5>2. NodeShape(made, born + 1)
          BY <1>5, <5>1, Zenon DEF NodeShape
        <5>3. nodes'[b] = made
          BY <1>7, <4>1
        <5>q. QED
          BY <5>2, <5>3
      <4>2. CASE b # a
        <5>1. nodes'[b] = nodes[b] /\ NodeShape(nodes[b], born)
          BY <1>7, <4>2 DEF NodeIInv, NodeShapes
        <5>q. QED
          BY <1>8, <5>1, NodeShapeLater
      <4>q. QED
        BY <4>1, <4>2
    <3>q. QED
      BY <3>1
  <2>2. /\ at' = [q \in Scopes |-> at'[q]] /\ hand' = [q \in Scopes |-> hand'[q]]
        /\ nodes' = [b \in Anchors |-> nodes'[b]]
    BY <1>7
  <2>3. \A q \in Scopes : HandShape(hand'[q])
    BY <1>1, <1>7 DEF NodeIInv, NodeShapes
  <2>4. \A q \in Scopes : HandShape(hand[q])'
    BY <2>3 DEF HandShape
  <2>5. /\ born' \in Nat /\ anchor' \in Anchors \cup {None}
        /\ mutex' = [b \in Anchors |-> mutex'[b]] /\ journal' = [q \in Scopes |-> journal'[q]]
    BY <1>8 DEF NodeIInv, NodeShapes
  <2>q. QED
    BY <2>1, <2>2, <2>4, <2>5 DEF NodeShapes
<1>11. MutexInv'
  BY <1>1, <1>7 DEF NodeIInv, MutexInv, MutexHeld, OpeningSteps
<1>12. HandInv'
  <2>1. StepInHand(s, "retain", h, excused)'
    BY <1>1, <1>3, <1>4, <1>5, <1>7, <1>8, <1>9
    DEF StepInHand, InPlaceStill, MutexHeld, OpeningSteps, HoldingSteps
  <2>2. ASSUME NEW q \in Scopes, q # s PROVE StepInHand(q, at[q], hand[q], excused)'
    <3>1. StepInHand(q, at[q], hand[q], excused)
      BY <1>3
    <3>2. CASE at[q] \in HoldingSteps /\ hand[q].created /\ q \notin excused
      <4>1. nodes[hand[q].anchor] # None /\ hand[q].anchor \in Anchors
        BY <3>1, <3>2 DEF StepInHand, InPlaceStill, MutexHeld
      <4>2. hand[q].anchor # a
        BY <1>8, <4>1
      <4>3. nodes'[hand[q].anchor] = nodes[hand[q].anchor]
        BY <1>7, <4>1, <4>2
      <4>q. QED
        BY <1>7, <1>8, <2>2, <3>1, <4>3 DEF StepInHand, InPlaceStill
    <3>3. CASE ~(at[q] \in HoldingSteps /\ hand[q].created /\ q \notin excused)
      BY <1>7, <1>8, <2>2, <3>1, <3>3 DEF StepInHand
    <3>q. QED
      BY <3>2, <3>3
  <2>q. QED
    BY <1>7, <2>1, <2>2 DEF HandInv
<1>13. \A q \in Scopes : hand[q].dir # born + 1
  BY <1>3, <1>8 DEF StepInHand
<1>14. MadeInv'
  BY <1>1, <1>4, <1>5, <1>7, <1>8, <1>13 DEF NodeIInv, MadeInv, NodeShapes, NodeShape
<1>15. JournalInv'
  BY <1>5, <1>7, <1>8 DEF NodeIInv, JournalInv
<1>16. Alone'
  BY <1>1, <1>7, <1>13 DEF NodeIInv, Alone, HoldingSteps
<1>q. QED
  BY <1>10, <1>11, <1>12, <1>14, <1>15, <1>16 DEF NodeIInv

LEMMA CreateKeeps == ASSUME NodeIInv, NEW s \in Scopes, Create(s) PROVE NodeIInv'
<1>1. UNCHANGED <<anchor, journal, mutex, excused>> /\ at[s] = "create"
  BY DEF Create, OnlySetup
<1>2. StepInHand(s, at[s], hand[s], excused)
  BY DEF NodeIInv, HandInv
<1>3. CASE Fails(s) /\ UNCHANGED <<nodes, born>>
  BY <1>1, <1>3, FailsKeeps DEF OpeningSteps
<1>4. CASE Proceed(s, "again") /\ Keep /\ UNCHANGED <<nodes, born>>
  BY <1>1, <1>2, <1>4, NodeGotoKeeps DEF StepInHand, MutexHeld, OpeningSteps, HoldingSteps
<1>5. CASE /\ Of(s) = None /\ born' = born + 1
           /\ nodes' = [nodes EXCEPT ![hand[s].anchor] = [id |-> born + 1, by |-> s, ok |-> TRUE]]
           /\ Proceed(s, "retain") /\ Hold(s, [hand[s] EXCEPT !.dir = born + 1, !.created = TRUE])
  BY <1>1, <1>5, MadeKeeps
<1>q. QED
  BY <1>3, <1>4, <1>5 DEF Create

LEMMA LookedAtKeeps ==
  ASSUME NodeIInv, NEW s \in Scopes, Retain(s) \/ Reopen(s)
  PROVE  NodeIInv'
<1>1. /\ UNCHANGED <<anchor, nodes, born, journal, mutex, excused>> /\ at[s] \in {"retain", "reopen"}
  BY DEF Retain, Reopen, OnlySetup
<1>2. StepInHand(s, at[s], hand[s], excused)
  BY DEF NodeIInv, HandInv
<1>3. CASE Fails(s)
  BY <1>1, <1>3, FailsKeeps
<1>4. CASE (Proceed(s, "reopen") \/ Proceed(s, "clean")) /\ Keep
  BY <1>1, <1>2, <1>4, NodeGotoKeeps DEF StepInHand, MutexHeld, OpeningSteps, HoldingSteps
<1>q. QED
  BY <1>3, <1>4 DEF Retain, Reopen

(***************************************************************************)
(* The end of the thread, and the journal.                                 *)
(***************************************************************************)
LEMMA RestoreKeeps == ASSUME NodeIInv, NEW s \in Scopes, RestoreAndRevert(s) PROVE NodeIInv'
<1>1. /\ UNCHANGED <<anchor, nodes, born, journal, mutex, excused>>
      /\ at[s] = "clean" /\ Proceed(s, "finish")
  BY DEF RestoreAndRevert, OnlySetup
<1>2. StepInHand(s, at[s], hand[s], excused)
  BY DEF NodeIInv, HandInv
<1>3. CASE Keep
  BY <1>1, <1>2, <1>3, NodeGotoKeeps DEF StepInHand, MutexHeld, OpeningSteps, HoldingSteps
<1>4. CASE Hold(s, [hand[s] EXCEPT !.dirty = TRUE])
  <2> DEFINE h == [hand[s] EXCEPT !.dirty = TRUE]
  <2>1. /\ HandShape(h) /\ h.dir = hand[s].dir /\ h.created = hand[s].created
        /\ h.anchor = hand[s].anchor
    BY DEF NodeIInv, NodeShapes, HandShape, HandFields
  <2>2. at' = [at EXCEPT ![s] = "finish"] /\ hand' = [hand EXCEPT ![s] = h] /\ MayUnlock(s, "finish")
    BY <1>1, <1>4 DEF Proceed, Hold, MayUnlock
  <2> HIDE DEF h
  <2>3. StepInHand(s, "finish", h, excused')
    BY <1>1, <1>2, <2>1 DEF StepInHand, InPlaceStill, MutexHeld, OpeningSteps, HoldingSteps
  <2>q. QED
    BY <1>1, <2>1, <2>2, <2>3, StepKeeps DEF MutexHeld, OpeningSteps, HoldingSteps
<1>q. QED
  BY <1>3, <1>4 DEF RestoreAndRevert

LEMMA FinishKeeps == ASSUME NodeIInv, NEW s \in Scopes, Finish(s) PROVE NodeIInv'
<1>1. UNCHANGED <<anchor, nodes, born, journal, excused>> /\ at[s] = "finish"
  BY DEF Finish, OnlySetup
<1>2. StepInHand(s, at[s], hand[s], excused)
  BY DEF NodeIInv, HandInv
<1>3. CASE hand[s].created
  <2>1. Proceed(s, "bind") /\ Keep /\ UNCHANGED mutex
    BY <1>3 DEF Finish, Retained
  <2>q. QED
    BY <1>1, <1>2, <1>3, <2>1, NodeGotoKeeps DEF StepInHand, MutexHeld, OpeningSteps, HoldingSteps
<1>4. CASE ~hand[s].created
  <2>1. Leave(s, "failed") \/ Leave(s, "conflict")
    BY <1>4 DEF Finish, Retained
  <2>q. QED
    BY <1>1, <1>4, <2>1, EndKeeps
<1>q. QED
  BY <1>3, <1>4

\* Where nobody interfered, the last check finds what was made.
LEMMA ReverifyLeaseKeeps ==
  ASSUME NodeIInv, NEW s \in Scopes, ReverifyLease(s)
  PROVE  NodeIInv'
<1>1. /\ UNCHANGED <<anchor, nodes, born, journal>> /\ at[s] = "bind" /\ excused \subseteq excused'
  BY DEF ReverifyLease, OnlySetup
<1>2. StepInHand(s, at[s], hand[s], excused)
  BY DEF NodeIInv, HandInv
<1>3. CASE StillBound(s) /\ Proceed(s, "record") /\ Keep /\ UNCHANGED mutex
  BY <1>1, <1>2, <1>3, NodeGotoKeeps DEF StepInHand, MutexHeld, OpeningSteps, HoldingSteps
<1>4. CASE ~StillBound(s) /\ Leave(s, "failed")
  <2>1. s \in excused
    <3>1. SUFFICES ASSUME s \notin excused PROVE FALSE
      OBVIOUS
    <3>2. InPlaceStill(hand[s]) /\ hand[s].anchor \in Anchors
      BY <1>1, <1>2, <3>1 DEF StepInHand, HoldingSteps
    <3>3. hand[s].anchor # None
      BY <3>2, AbsentAssumption DEF Anchors
    <3>4. AtPath = Of(s)
      BY <3>2, <3>3 DEF AtPath, Of, InPlaceStill
    <3>q. QED
      BY <1>4, <3>2, <3>4 DEF StillBound, InPlace, Is, InPlaceStill, Of
  <2>q. QED
    BY <1>1, <1>4, <2>1, EndKeeps
<1>5. CASE Leave(s, "failed") /\ excused' = excused \cup {s}
  BY <1>1, <1>5, EndKeeps
<1>q. QED
  BY <1>3, <1>4, <1>5 DEF ReverifyLease

LEMMA BindKeeps == ASSUME NodeIInv, NEW s \in Scopes, Bind(s) PROVE NodeIInv'
<1>1. /\ UNCHANGED <<anchor, nodes, born>> /\ at[s] = "record" /\ excused \subseteq excused'
  BY DEF Bind, OnlySetup
<1>2. StepInHand(s, at[s], hand[s], excused) /\ \A q \in Scopes : StepInHand(q, at[q], hand[q], excused)
  BY DEF NodeIInv, HandInv
<1>3. CASE Leave(s, "failed") /\ excused' = excused \cup {s} /\ UNCHANGED journal
  BY <1>1, <1>3, EndKeeps
<1>4. CASE /\ journal' = [journal EXCEPT ![s] = @ \cup {hand[s].dir}] /\ UNCHANGED excused
           /\ Leave(s, IF hand[s].failed \/ hand[s].dirty THEN "applied_then_failed" ELSE "applied")
  <2>1. PICK said : /\ said = IF hand[s].failed \/ hand[s].dirty THEN "applied_then_failed"
                              ELSE "applied"
                    /\ Leave(s, said)
    BY <1>4
  <2>2. PICK h : /\ h = [hand[s] EXCEPT !.said = said] /\ HandShape(h) /\ h.said = said
                 /\ h.dir = hand[s].dir /\ h.created = hand[s].created
                 /\ h.anchor = hand[s].anchor /\ h.failed = hand[s].failed
                 /\ h.dirty = hand[s].dirty
    <3> DEFINE g == [hand[s] EXCEPT !.said = said]
    <3>1. /\ HandShape(g) /\ g.said = said /\ g.dir = hand[s].dir /\ g.created = hand[s].created
          /\ g.anchor = hand[s].anchor /\ g.failed = hand[s].failed /\ g.dirty = hand[s].dirty
      BY DEF NodeIInv, NodeShapes, HandShape, HandFields
    <3> HIDE DEF g
    <3>q. QED
      BY <3>1 DEF g
  <2>3. /\ at' = [q \in Scopes |-> IF q = s THEN "done" ELSE at[q]]
        /\ hand' = [q \in Scopes |-> IF q = s THEN h ELSE hand[q]]
        /\ journal' = [q \in Scopes |-> IF q = s THEN journal[q] \cup {h.dir} ELSE journal[q]]
        /\ mutex' = [a \in Anchors |-> IF mutex[a] = s THEN None ELSE mutex[a]]
    BY <1>4, <2>1, <2>2 DEF Leave, Proceed, Hold, Unlocked, NodeIInv, NodeShapes
  <2>4. hand[s].created /\ hand[s].dir \in 1..born /\ hand[s].anchor \in Anchors
    BY <1>1, <1>2 DEF StepInHand
  <2>5. NodeShapes'
    BY <1>1, <2>2, <2>3 DEF NodeIInv, NodeShapes, NodeShape
  <2>6. MutexInv'
    BY <1>1, <1>2, <2>2, <2>3 DEF NodeIInv, MutexInv, StepInHand, MutexHeld, OpeningSteps, HoldingSteps
  <2>7. StepInHand(s, "done", h, excused)'
    BY <1>1, <1>2, <2>1, <2>2, <2>3, <2>4 DEF StepInHand, MutexHeld, OpeningSteps, HoldingSteps
  <2>8. ASSUME NEW q \in Scopes, q # s PROVE StepInHand(q, at[q], hand[q], excused)'
    BY <1>1, <1>2, <1>4, <2>3, <2>8 DEF StepInHand, InPlaceStill
  <2>9. HandInv'
    BY <1>4, <2>3, <2>7, <2>8 DEF HandInv
  <2>10. MadeInv'
    BY <1>1, <2>2, <2>3 DEF NodeIInv, MadeInv
  <2>11. JournalInv'
    BY <1>1, <2>2, <2>3, <2>4 DEF NodeIInv, JournalInv, MadeInv
  <2>12. Alone'
    BY <2>2, <2>3 DEF NodeIInv, Alone, HoldingSteps
  <2>q. QED
    BY <2>5, <2>6, <2>9, <2>10, <2>11, <2>12 DEF NodeIInv
<1>q. QED
  BY <1>3, <1>4 DEF Bind

LEMMA KillKeeps == ASSUME NodeIInv, NEW s \in Scopes, Kill(s) PROVE NodeIInv'
<1>1. /\ UNCHANGED <<anchor, nodes, born, journal, excused>> /\ Leave(s, "killed")
  BY DEF Kill, OnlySetup
<1>q. QED
  BY <1>1, EndKeeps

(***************************************************************************)
(* Other programs.                                                         *)
(***************************************************************************)

\* Those who have something in hand, or an anchor, are excused by what others change
\* of it; so what is in place is in place for everybody who is not.
LEMMA OthersKeep ==
  ASSUME NodeIInv, UNCHANGED <<at, hand, mutex, journal>>,
         Holding \subseteq excused', excused \subseteq excused',
         anchor' = anchor \/ Within \subseteq excused',
         born' \in Nat, born \leq born', anchor' \in Anchors \cup {None},
         nodes' = [a \in Anchors |-> nodes'[a]],
         \A a \in Anchors : NodeShape(nodes'[a], born'),
         \A a \in Anchors :
           nodes'[a] = None \/ nodes'[a].id > born
             \/ (nodes[a] # None /\ nodes'[a].id = nodes[a].id /\ nodes'[a].by = nodes[a].by)
  PROVE  NodeIInv'
<1>1. NodeShapes'
  BY DEF NodeIInv, NodeShapes
<1>2. MutexInv'
  BY DEF NodeIInv, MutexInv
<1>3. born \in Nat /\ \A q \in Scopes : StepInHand(q, at[q], hand[q], excused)
  BY DEF NodeIInv, HandInv, NodeShapes
<1>4. HandInv'
  <2>1. ASSUME NEW q \in Scopes PROVE StepInHand(q, at[q], hand[q], excused)'
    <3>1. StepInHand(q, at[q], hand[q], excused)
      BY <1>3
    <3>2. at[q] \in HoldingSteps => q \in excused'
      BY DEF Holding, HoldingSteps
    <3>3. at[q] \in OpeningSteps => q \in excused' \/ anchor' = anchor
      BY DEF Within, OpeningSteps
    <3>4. hand[q].dir \in {None} \cup 1..born'
      BY <1>3, <3>1 DEF StepInHand
    <3>q. QED
      BY <3>1, <3>2, <3>3, <3>4 DEF StepInHand
  <2>q. QED
    BY <2>1 DEF HandInv
<1>5. \A q \in Scopes : hand[q].created => hand[q].dir \in 1..born
  BY <1>3 DEF StepInHand
<1>6. MadeInv'
  <2>1. SUFFICES ASSUME NEW q \in Scopes, NEW a \in Anchors, hand[q].created, nodes'[a] # None,
                        nodes'[a].id = hand[q].dir
                 PROVE  a = hand[q].anchor /\ nodes'[a].by = q
    BY DEF MadeInv
  <2>2. hand[q].dir \in 1..born
    BY <1>5, <2>1
  <2>3. ~(nodes'[a].id > born)
    <3>1. born \in Nat
      BY <1>3
    <3>q. QED
      BY <3>1, <2>1, <2>2
  <2>4. nodes[a] # None /\ nodes'[a].id = nodes[a].id /\ nodes'[a].by = nodes[a].by
    BY <2>1, <2>3
  <2>q. QED
    BY <2>1, <2>4 DEF NodeIInv, MadeInv
<1>7. JournalInv'
  <2>1. SUFFICES ASSUME NEW s \in Scopes, NEW id \in journal[s]
                 PROVE  /\ id \in 1..born'
                        /\ \A a \in Anchors : nodes'[a] # None /\ nodes'[a].id = id => nodes'[a].by = s
    BY DEF JournalInv
  <2>2. /\ id \in 1..born
        /\ \A a \in Anchors : nodes[a] # None /\ nodes[a].id = id => nodes[a].by = s
    BY <2>1 DEF NodeIInv, JournalInv
  <2>3. id \in 1..born' /\ ~(id > born)
    BY <1>3, <2>2
  <2>q. QED
    BY <2>2, <2>3
<1>8. Alone'
  BY DEF NodeIInv, Alone
<1>q. QED
  BY <1>1, <1>2, <1>4, <1>6, <1>7, <1>8 DEF NodeIInv

LEMMA ReplaceAnchorKeeps == ASSUME NodeIInv, ReplaceAnchor PROVE NodeIInv'
<1>1. /\ UNCHANGED <<at, hand, mutex, journal, nodes, born>> /\ excused' = excused \cup Within
      /\ anchor' \in Anchors \cup {None}
  BY DEF ReplaceAnchor, ByOthers
<1>2. Holding \subseteq Within
  BY DEF Within
<1>3. born \in Nat /\ nodes = [a \in Anchors |-> nodes[a]] /\ \A a \in Anchors : NodeShape(nodes[a], born)
  BY DEF NodeIInv, NodeShapes
<1>q. QED
  BY <1>1, <1>2, <1>3, OthersKeep

LEMMA RemoveNodeKeeps == ASSUME NodeIInv, RemoveNode PROVE NodeIInv'
<1>1. /\ UNCHANGED <<at, hand, mutex, journal, anchor, born>> /\ excused' = excused \cup Holding
      /\ \E a \in Anchors : nodes' = [nodes EXCEPT ![a] = None]
  BY DEF RemoveNode, ByOthers
<1>2. /\ born \in Nat /\ nodes = [a \in Anchors |-> nodes[a]] /\ anchor \in Anchors \cup {None}
      /\ \A a \in Anchors : NodeShape(nodes[a], born)
  BY DEF NodeIInv, NodeShapes
<1>3. /\ nodes' = [a \in Anchors |-> nodes'[a]]
      /\ \A a \in Anchors : nodes'[a] \in {None, nodes[a]}
  BY <1>1, <1>2
<1>4. \A a \in Anchors : NodeShape(nodes'[a], born')
  BY <1>1, <1>2, <1>3 DEF NodeShape
<1>q. QED
  BY <1>1, <1>2, <1>3, <1>4, OthersKeep

LEMMA MakeNodeKeeps == ASSUME NodeIInv, MakeNode PROVE NodeIInv'
<1>1. PICK a \in Anchors, ok \in BOOLEAN :
        nodes' = [nodes EXCEPT ![a] = [id |-> born + 1, by |-> None, ok |-> ok]]
  BY DEF MakeNode
<1>2. /\ UNCHANGED <<at, hand, mutex, journal, anchor>> /\ excused' = excused \cup Holding
      /\ born' = born + 1
  BY DEF MakeNode, ByOthers
<1>3. /\ born \in Nat /\ nodes = [b \in Anchors |-> nodes[b]] /\ anchor \in Anchors \cup {None}
      /\ \A b \in Anchors : NodeShape(nodes[b], born)
  BY DEF NodeIInv, NodeShapes
<1>4. PICK made : /\ made = [id |-> born + 1, by |-> None, ok |-> ok]
                  /\ made.id = born + 1 /\ made = [id |-> made.id, by |-> made.by, ok |-> made.ok]
  <2> DEFINE node == [id |-> born + 1, by |-> None, ok |-> ok]
  <2>1. node.id = born + 1 /\ node = [id |-> node.id, by |-> node.by, ok |-> node.ok]
    OBVIOUS
  <2> HIDE DEF node
  <2>q. QED
    BY <2>1 DEF node
<1>5. nodes' = [b \in Anchors |-> IF b = a THEN made ELSE nodes[b]]
  BY <1>1, <1>3, <1>4
<1>6. ASSUME NEW b \in Anchors PROVE NodeShape(nodes'[b], born')
  <2>1. born + 1 \in 1..(born + 1)
    BY <1>3
  <2>2. NodeShape(made, born + 1)
    BY <1>4, <2>1, Zenon DEF NodeShape
  <2>3. NodeShape(nodes[b], born + 1)
    BY <1>3, NodeShapeLater
  <2>q. QED
    BY <1>2, <1>5, <2>2, <2>3
<1>7. \A b \in Anchors : nodes'[b] = None \/ nodes'[b].id > born \/ nodes'[b] = nodes[b]
  BY <1>3, <1>4, <1>5
<1>8. born + 1 \in Nat /\ born \leq born + 1 /\ nodes' = [b \in Anchors |-> nodes'[b]]
  BY <1>3, <1>5
<1>q. QED
  BY <1>2, <1>3, <1>6, <1>7, <1>8, OthersKeep

LEMMA ChangeSecurityKeeps == ASSUME NodeIInv, ChangeSecurity PROVE NodeIInv'
<1>1. PICK a \in Anchors : nodes[a] # None /\ nodes' = [nodes EXCEPT ![a].ok = ~@]
  BY DEF ChangeSecurity
<1>2. /\ UNCHANGED <<at, hand, mutex, journal, anchor, born>> /\ excused' = excused \cup Holding
  BY DEF ChangeSecurity, ByOthers
<1>3. /\ born \in Nat /\ nodes = [b \in Anchors |-> nodes[b]] /\ anchor \in Anchors \cup {None}
      /\ \A b \in Anchors : NodeShape(nodes[b], born)
  BY DEF NodeIInv, NodeShapes
<1>4. nodes[a] = [id |-> nodes[a].id, by |-> nodes[a].by, ok |-> nodes[a].ok]
      /\ nodes[a].id \in 1..born
  BY <1>1, <1>3 DEF NodeShape
<1>5. PICK made : /\ made = [nodes[a] EXCEPT !.ok = ~@]
                  /\ made.id = nodes[a].id /\ made.by = nodes[a].by
                  /\ made = [id |-> made.id, by |-> made.by, ok |-> made.ok]
  <2> DEFINE node == [nodes[a] EXCEPT !.ok = ~@]
  <2>1. node = [id |-> nodes[a].id, by |-> nodes[a].by, ok |-> ~nodes[a].ok]
    <3>1. ASSUME NEW i, NEW b, NEW o
          PROVE  [[id |-> i, by |-> b, ok |-> o] EXCEPT !.ok = ~@] = [id |-> i, by |-> b, ok |-> ~o]
      OBVIOUS
    <3>2. PICK i, b, o : i = nodes[a].id /\ b = nodes[a].by /\ o = nodes[a].ok
      OBVIOUS
    <3>3. nodes[a] = [id |-> i, by |-> b, ok |-> o]
      BY <1>4, <3>2
    <3>q. QED
      BY <3>1, <3>2, <3>3
  <2>2. /\ node.id = nodes[a].id /\ node.by = nodes[a].by
        /\ node = [id |-> node.id, by |-> node.by, ok |-> node.ok]
    BY <2>1
  <2> HIDE DEF node
  <2>q. QED
    BY <2>2 DEF node
<1>6. nodes' = [b \in Anchors |-> IF b = a THEN made ELSE nodes[b]]
  BY <1>1, <1>3, <1>5
<1>7. ASSUME NEW b \in Anchors PROVE NodeShape(nodes'[b], born')
  <2>1. NodeShape(made, born)
    BY <1>4, <1>5, Zenon DEF NodeShape
  <2>q. QED
    BY <1>2, <1>3, <1>6, <2>1
<1>8. \A b \in Anchors : nodes'[b] = None
        \/ (nodes[b] # None /\ nodes'[b].id = nodes[b].id /\ nodes'[b].by = nodes[b].by)
  BY <1>1, <1>5, <1>6
<1>9. nodes' = [b \in Anchors |-> nodes'[b]] /\ born \leq born
  BY <1>3, <1>6
<1>q. QED
  BY <1>2, <1>3, <1>7, <1>8, <1>9, OthersKeep

LEMMA NodeStepIInv == ASSUME NodeIInv, [NodeNext]_nodeVars PROVE NodeIInv'
<1>1. ASSUME NEW s \in Scopes, NodeStep(s) PROVE NodeIInv'
  BY <1>1, BeforeLockKeeps, AcquireKeeps, ReverifyKeeps, OpenKeeps, CreateKeeps, LookedAtKeeps,
     RestoreKeeps, FinishKeeps, ReverifyLeaseKeeps, BindKeeps
  DEF NodeStep, MutationStep
<1>2. CASE UNCHANGED nodeVars
  BY <1>2 DEF nodeVars, world, NodeIInv, NodeShapes, NodeShape, MutexInv, HandInv, StepInHand, InPlaceStill,
              MadeInv, JournalInv, Alone
<1>q. QED
  BY <1>1, <1>2, KillKeeps, ReplaceAnchorKeeps, RemoveNodeKeeps, MakeNodeKeeps, ChangeSecurityKeeps
  DEF NodeNext

\* What a setup under windows made is in its journal in the end, whatever of the thread,
\* the look at it or the privileges failed after it; what another made is neither
\* journalled nor called settled before that other is done with it, and a plain success
\* is one in which nothing failed (mutate_worker_directory_node to the binding).
THEOREM CreationUnderWindows == NodeSpec => []WindowsCreation
<1>1. NodeInit => NodeIInv
  BY NodeInitIInv
<1>2. NodeIInv /\ [NodeNext]_nodeVars => NodeIInv'
  BY NodeStepIInv
<1>3. NodeIInv => WindowsCreation
  BY IInvIsEnough
<1>q. QED
  BY <1>1, <1>2, <1>3, PTL DEF NodeSpec

(***************************************************************************)
(* Elevation, for any caller, any origin that sudo names and any groups    *)
(* the system gives: what the credentials are after each of the three      *)
(* calls that drop them is known exactly, so that a phase which the child  *)
(* runs as the user has no identity left but the user's.                   *)
(***************************************************************************)

CallerCreds(c) ==
  [uid |-> [real |-> c.ruid, eff |-> c.euid, saved |-> c.euid],
   gid |-> [real |-> c.rgid, eff |-> c.egid, saved |-> c.egid],
   groups |-> c.groups]

\* The credentials of the child after what has been dropped so far.
Shed == [CallerCreds(given.caller) EXCEPT !.groups = token.groups]
ShedGid == [Shed EXCEPT !.gid = All(token.gid)]
ShedUid == [ShedGid EXCEPT !.uid = All(token.uid)]

\* The user that was captured is one the caller and sudo stand for.
Dropping ==
  /\ given.caller \in Callers /\ given.origin \in Origins
  /\ token \in UserOf(given.caller, given.origin)
  /\ IF token.drop THEN IsRoot(given.caller) ELSE IsOrdinary(given.caller)

ElevationIInv ==
  /\ stage = "unix" => /\ given.caller \in Callers /\ given.origin \in Origins
                       /\ creds = CallerCreds(given.caller)
  /\ stage \in {"setgroups", "setgid", "setuid"} => Dropping /\ token.drop
  /\ stage = "setgroups" => creds = CallerCreds(given.caller)
  /\ stage = "setgid" => creds = Shed
  /\ stage = "setuid" => creds = ShedGid
  /\ stage \in {"verify", "exec"} =>
       Dropping /\ creds = IF token.drop THEN ShedUid ELSE CallerCreds(given.caller)
  /\ stage = "captured" =>
       /\ token.own
       /\ token.posture.integrity = "medium" /\ token.posture.admin # "enabled"

LEMMA ElevationInitIInv == ElevationInit => ElevationIInv
BY DEF ElevationInit, ElevationIInv, CallerCreds

LEMMA CapturedUser ==
  ASSUME NEW c, NEW o, NEW t \in UserOf(c, o)
  PROVE  /\ \E a \in Accounts :
              /\ t.uid = a.uid /\ t.gid = a.gid
              /\ t.drop => o.user = a.name /\ t.groups = a.groups \ {a.gid}
         /\ IF t.drop THEN IsRoot(c) /\ t.uid # 0 /\ t.gid # 0
            ELSE IsOrdinary(c) /\ t.uid = c.ruid /\ t.gid = c.rgid
<1>1. CASE IsOrdinary(c)
  BY <1>1 DEF UserOf, AccountOf
<1>2. CASE ~ IsOrdinary(c)
  <2>1. IsRoot(c) /\ OriginGiven(o)
    BY <1>2 DEF UserOf
  <2>2. PICK a \in Accounts :
          /\ a.uid = o.uid /\ a.gid = o.gid /\ a.name = o.user
          /\ t = [uid |-> a.uid, gid |-> a.gid, groups |-> a.groups \ {a.gid}, drop |-> TRUE]
    BY <1>2, <2>1 DEF UserOf, AccountOf
  <2> QED
    BY <2>1, <2>2 DEF OriginGiven
<1> QED
  BY <1>1, <1>2

LEMMA ElevationNextSafe == ElevationIInv /\ [ElevationNext]_elevationVars => ElevationIInv'
<1> SUFFICES ASSUME ElevationIInv, [ElevationNext]_elevationVars PROVE ElevationIInv'
  OBVIOUS
<1> USE DEF ElevationIInv, GoOn, Fail, Dropping, Shed, ShedGid, ShedUid
<1>1. CASE CaptureUnix
  <2>1. CASE UserOf(given.caller, given.origin) = {}
    BY <1>1, <2>1 DEF CaptureUnix
  <2>2. CASE UserOf(given.caller, given.origin) # {}
    <3>1. /\ token' \in UserOf(given.caller, given.origin)
          /\ stage' = IF token'.drop THEN "setgroups" ELSE "verify"
          /\ UNCHANGED <<given, creds>>
      BY <1>1, <2>2 DEF CaptureUnix
    <3>2. IF token'.drop THEN IsRoot(given.caller) ELSE IsOrdinary(given.caller)
      BY <3>1, CapturedUser
    <3> QED
      BY <1>1, <3>1, <3>2 DEF CaptureUnix
  <2> QED
    BY <2>1, <2>2
<1>2. CASE SetGroups
  BY <1>2 DEF SetGroups
<1>3. CASE SetGid
  BY <1>3 DEF SetGid
<1>4. CASE SetUid
  BY <1>4 DEF SetUid
<1>5. CASE Verify
  BY <1>5 DEF Verify
<1>6. CASE CaptureWindows
  <2>1. CASE Fail
    BY <1>6, <2>1 DEF CaptureWindows
  <2>2. CASE ~ Fail
    <3> DEFINE choice == Chosen(given.current, given.linked)
               expected == IF choice = "current" THEN given.current ELSE given.linked
    <3>1. choice # None /\ stage' = "captured"
      BY <1>6, <2>2 DEF CaptureWindows
    <3>2. token' = [posture |-> expected, own |-> TRUE, elevated |-> choice = "linked"]
      BY <1>6, <2>2 DEF CaptureWindows
    <3>3. SafeDefault(expected) \/ SafeLimited(expected)
      BY <3>1 DEF Chosen
    <3> QED
      BY <3>1, <3>2, <3>3 DEF SafeDefault, SafeLimited
  <2> QED
    BY <2>1, <2>2
<1>7. CASE UNCHANGED elevationVars
  BY <1>7 DEF elevationVars
<1> QED
  BY <1>1, <1>2, <1>3, <1>4, <1>5, <1>6, <1>7 DEF ElevationNext

LEMMA UserPhase == ElevationIInv => UserPhaseIsTheUsers
<1> SUFFICES ASSUME ElevationIInv PROVE UserPhaseIsTheUsers
  OBVIOUS
<1>1. ASSUME stage = "exec"
      PROVE  /\ creds.uid = All(creds.uid.real) /\ creds.gid = All(creds.gid.real)
             /\ creds.uid.real # 0 /\ creds.gid.real # 0
             /\ \E a \in Accounts :
                  /\ a.uid = creds.uid.real /\ a.gid = creds.gid.real
                  /\ token.drop => /\ given.origin.user = a.name
                                   /\ creds.groups \cup {a.gid} = a.groups \cup {a.gid}
  <2> DEFINE c == given.caller
  <2>1. /\ token \in UserOf(c, given.origin)
        /\ creds = IF token.drop THEN ShedUid ELSE CallerCreds(c)
    BY <1>1 DEF ElevationIInv, Dropping
  <2>2. PICK a \in Accounts :
          /\ token.uid = a.uid /\ token.gid = a.gid
          /\ token.drop => given.origin.user = a.name /\ token.groups = a.groups \ {a.gid}
    BY <2>1, CapturedUser
  <2>3. CASE token.drop
    <3>1. token.uid # 0 /\ token.gid # 0
      BY <2>1, <2>3, CapturedUser
    <3>2. /\ creds.uid = All(token.uid) /\ creds.gid = All(token.gid)
          /\ creds.groups = token.groups
      BY <2>1, <2>3 DEF ShedUid, ShedGid, Shed, CallerCreds
    <3> QED
      BY <2>2, <2>3, <3>1, <3>2 DEF All
  <2>4. CASE ~ token.drop
    <3>1. IsOrdinary(c) /\ token.uid = c.ruid /\ token.gid = c.rgid
      BY <2>1, <2>4, CapturedUser
    <3>2. creds.uid = All(c.ruid) /\ creds.gid = All(c.rgid) /\ c.ruid # 0 /\ c.rgid # 0
      BY <2>1, <2>4, <3>1 DEF CallerCreds, IsOrdinary, All
    <3>3. creds.uid.real = c.ruid /\ creds.gid.real = c.rgid
      BY <3>2 DEF All
    <3>4. a.uid = creds.uid.real /\ a.gid = creds.gid.real
      BY <2>2, <3>1, <3>3
    <3> QED
      BY <2>4, <3>2, <3>3, <3>4
  <2> QED
    BY <2>3, <2>4
<1> QED
  BY <1>1 DEF UserPhaseIsTheUsers, ElevationIInv

(***************************************************************************)
(* For any accounts, callers, words of sudo and postures of tokens: what   *)
(* runs in the user phase is the user's, one account of which uid, gid and *)
(* name agree, and has no way back to root or to an administrator.         *)
(***************************************************************************)
THEOREM UserPhaseOwned == ElevationSpec => []UserPhaseIsTheUsers
<1>1. ElevationInit => ElevationIInv
  BY ElevationInitIInv
<1>2. ElevationIInv /\ [ElevationNext]_elevationVars => ElevationIInv'
  BY ElevationNextSafe
<1>3. ElevationIInv => UserPhaseIsTheUsers
  BY UserPhase
<1> QED
  BY <1>1, <1>2, <1>3, PTL DEF ElevationSpec
==============================================================================
