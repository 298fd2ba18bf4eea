---------------------------- MODULE PromotionProofs ----------------------------
(***************************************************************************)
(* What a scope promotion keeps, for any number of processes, intents,     *)
(* ordinary setups and crashes: the user manifest goes away only with its  *)
(* checkpoint and its proof in place, and undisturbed every crash leaves   *)
(* one of the three states its recovery knows.                             *)
(***************************************************************************)
EXTENDS Promotion, TLAPS

BeginSteps == {"intent", "intent_publish"}
ChildSteps == {"reserve", "record", "record_publish", "consume", "apply"}
SystemSteps == {"recover", "manifest", "checkpoint", "proof", "proof_publish"}
FinalSteps == {"inspect", "commit", "retire", "remove"}
BoundSteps == ChildSteps \cup {"publish"} \cup SystemSteps \cup FinalSteps
StepNames == {"idle"} \cup BeginSteps \cup BoundSteps

\* In these a process holds the lock of the user's receipt.
UserSteps == BeginSteps \cup {"retire", "remove"}

TypeInv ==
  /\ user \in Users /\ system \in Systems
  /\ intents \in [Intents -> Bindings \cup {None}] /\ request \in Intents \cup {None}
  /\ auth \in [Intents -> Bindings \cup {None}]
  /\ proofs \in [Intents -> Proofs \cup {None}]
  /\ locks \in [{"user", "system"} -> Procs \cup {None}]
  /\ pc \in [Procs -> StepNames] /\ job \in [Procs -> Jobs]
  /\ disturbed \in BOOLEAN

LockInv ==
  \A p \in Procs : /\ pc[p] \in UserSteps => locks["user"] = p
                   /\ pc[p] \in SystemSteps => locks["system"] = p

\* What a process has in hand at its step, of the files that do not change under it.
InHand(p) ==
  /\ pc[p] # "idle" => job[p].i \in Intents
  /\ pc[p] \in BoundSteps => job[p].binding \in Bindings
  /\ pc[p] \in BeginSteps => user.manifest # None
  /\ pc[p] = "intent_publish" => OnDisk = {}
  /\ pc[p] = "manifest" => system.sidecar = Candidate(job[p].i, job[p].binding)
  /\ pc[p] = "proof_publish" => proofs[job[p].i] = None
  /\ pc[p] \in FinalSteps => /\ job[p].proof \in Proofs
                             /\ auth[job[p].i] = job[p].binding /\ proofs[job[p].i] = job[p].proof
  /\ pc[p] \in FinalSteps \ {"inspect"} => job[p].source \in {None, job[p].binding.manifest}
  /\ pc[p] \in {"retire", "remove"} => user.checkpoint = CheckpointOf(p)

HandInv == \A p \in Procs : InHand(p)

\* Until its first manifest is retired the user's machine has one id, which every
\* intent, every process and, once it is proven, the system has taken over.
Original == user.manifest # None /\ user.manifest.id = "machine"

TakenOver(manifest) == manifest # None /\ manifest.id = "machine"

MachineInv ==
  /\ user.checkpoint = None => Original
  /\ user.checkpoint # None => user.checkpoint.binding.manifest.id = "machine"
  /\ Original =>
       /\ \A i \in Intents : intents[i] # None => intents[i].manifest.id = "machine"
       /\ \A p \in Procs : pc[p] \in BoundSteps => job[p].binding.manifest.id = "machine"
       /\ system.sidecar # None => TakenOver(system.sidecar)
       /\ \A p \in Procs : pc[p] \in FinalSteps => TakenOver(system.manifest)

\* Undisturbed there is one promotion: the intent on disk is that of every process,
\* of the system and of the checkpoint.
Bound(i) ==
  LET candidate == Candidate(i, intents[i])
  IN /\ \A p \in Procs : pc[p] \in BoundSteps => job[p].i = i /\ job[p].binding = intents[i]
     /\ system.sidecar \in {None, candidate} /\ system.manifest \in {None, candidate}
     /\ user.checkpoint # None => user.checkpoint.i = i /\ system.manifest = candidate
     /\ \A p \in Procs : pc[p] \in FinalSteps => system.manifest = candidate
     /\ \/ user.manifest = intents[i].manifest
        \/ user.manifest = None /\ user.checkpoint # None

\* Before it nothing is bound, after it the user's manifest is gone.
Unbound ==
  /\ user.checkpoint = None =>
       /\ \A p \in Procs : pc[p] \notin BoundSteps
       /\ system.sidecar = None /\ system.manifest = None
  /\ user.checkpoint # None => user.manifest = None

\* What p still has to do, it does without a user manifest.
Emptied(p) == pc[p] = "remove" \/ (pc[p] \in {"commit", "retire"} /\ job[p].source = None)

OneInv ==
  /\ \A i \in OnDisk : OnDisk = {i} /\ Bound(i)
  /\ OnDisk = {} => Unbound
  /\ \A p \in Procs : Emptied(p) => user.manifest = None

UndisturbedInv == ~disturbed => OneInv

(***************************************************************************)
(* Moving a process.                                                       *)
(***************************************************************************)
Moved(p) ==
  /\ pc' \in [Procs -> StepNames] /\ job' \in [Procs -> Jobs]
  /\ \A q \in Procs \ {p} : pc'[q] = pc[q] /\ job'[q] = job[q]

LocksKept(p) ==
  /\ locks' \in [{"user", "system"} -> Procs \cup {None}]
  /\ \A q \in Procs \ {p} : \A scope \in {"user", "system"} : locks[scope] = q => locks'[scope] = q

LEMMA GotoMoves ==
  ASSUME TypeInv, NEW p \in Procs, NEW step \in StepNames, NEW j \in Jobs, Goto(p, step, j)
  PROVE  Moved(p) /\ pc'[p] = step /\ job'[p] = j
BY DEF TypeInv, Moved, Goto

LEMMA SameLocks ==
  ASSUME TypeInv, NEW p \in Procs, UNCHANGED locks
  PROVE  LocksKept(p)
BY DEF TypeInv, LocksKept

LEMMA ContinueMoves ==
  ASSUME TypeInv, NEW p \in Procs, NEW step \in StepNames, Continue(p, step)
  PROVE  Moved(p) /\ LocksKept(p) /\ pc'[p] = step /\ job'[p] = job[p] /\ UNCHANGED locks
<1>1. job[p] \in Jobs
  BY DEF TypeInv
<1>2. Goto(p, step, job[p]) /\ UNCHANGED locks
  BY Zenon DEF Continue
<1> QED BY <1>1, <1>2, GotoMoves, SameLocks

LEMMA IdleType == Idle \in Jobs
BY DEF Idle, Jobs

LEMMA EndMoves ==
  ASSUME TypeInv, NEW p \in Procs, End(p)
  PROVE  Moved(p) /\ LocksKept(p) /\ pc'[p] = "idle" /\ job'[p] = Idle
<1>1. Goto(p, "idle", Idle) /\ locks' = Drop(p)
  BY Zenon DEF End
<1>2. LocksKept(p)
  BY <1>1 DEF TypeInv, LocksKept, Drop
<1> QED BY <1>1, <1>2, IdleType, GotoMoves DEF StepNames

LEMMA TakeKeeps ==
  ASSUME TypeInv, NEW p \in Procs, NEW scope \in {"user", "system"}, Take(p, scope)
  PROVE  LocksKept(p) /\ locks[scope] = None /\ locks'[scope] = p
BY NoneAssumption DEF TypeInv, LocksKept, Take

(***************************************************************************)
(* What the others may rely on while p takes a step: the files under a     *)
(* lock change under that lock only, and records, proofs and checkpoint    *)
(* are written once.                                                       *)
(***************************************************************************)
WrittenOnce ==
  /\ \A i \in Intents : /\ auth[i] # None => auth'[i] = auth[i]
                        /\ proofs[i] # None => proofs'[i] = proofs[i]
  /\ user.checkpoint # None => user'.checkpoint = user.checkpoint

Rely(p) ==
  /\ \/ user'.manifest = user.manifest /\ UNCHANGED intents
     \/ pc[p] \in UserSteps \/ locks["user"] = None
  /\ \/ system'.sidecar = system.sidecar /\ UNCHANGED proofs
     \/ pc[p] \in SystemSteps \/ locks["system"] = None
  /\ WrittenOnce

LEMMA StillInHand ==
  ASSUME TypeInv, HandInv, NEW q \in Procs, pc'[q] = pc[q], job'[q] = job[q], WrittenOnce,
         pc[q] \in UserSteps => user'.manifest = user.manifest /\ UNCHANGED intents,
         pc[q] \in SystemSteps => system'.sidecar = system.sidecar /\ UNCHANGED proofs
  PROVE  InHand(q)'
<1>1. InHand(q) /\ pc[q] \in StepNames
  BY DEF HandInv, TypeInv
<1>2. ASSUME pc[q] \in UserSteps PROVE user'.manifest = user.manifest /\ UNCHANGED intents
  BY <1>2
<1>3. ASSUME pc[q] \in SystemSteps PROVE system'.sidecar = system.sidecar /\ UNCHANGED proofs
  BY <1>3
<1>4. pc[q] \in BeginSteps => user'.manifest # None
  BY <1>1, <1>2 DEF InHand, UserSteps
<1>5. pc[q] = "intent_publish" => OnDisk' = {}
  BY <1>1, <1>2 DEF InHand, UserSteps, BeginSteps, OnDisk
<1>6. pc[q] = "manifest" => system'.sidecar = Candidate(job[q].i, job[q].binding)
  BY <1>1, <1>3 DEF InHand, SystemSteps
<1>7. pc[q] = "proof_publish" => proofs'[job[q].i] = None
  BY <1>1, <1>3 DEF InHand, SystemSteps
<1>8. ASSUME pc[q] \in FinalSteps
      PROVE  /\ job[q].i \in Intents /\ job[q].binding \in Bindings /\ job[q].proof \in Proofs
             /\ auth'[job[q].i] = job[q].binding /\ proofs'[job[q].i] = job[q].proof
  <2>1. /\ job[q].i \in Intents /\ job[q].binding \in Bindings /\ job[q].proof \in Proofs
        /\ auth[job[q].i] = job[q].binding /\ proofs[job[q].i] = job[q].proof
    BY <1>1, <1>8 DEF InHand, FinalSteps, BoundSteps
  <2> QED BY <2>1, NoneAssumption DEF WrittenOnce
<1>9. pc[q] \in {"retire", "remove"} => user'.checkpoint = CheckpointOf(q)
  <2> SUFFICES ASSUME pc[q] \in {"retire", "remove"} PROVE user'.checkpoint = CheckpointOf(q)
    OBVIOUS
  <2>1. CheckpointOf(q) \in Checkpoints
    BY <1>8 DEF CheckpointOf, Checkpoints, FinalSteps
  <2>2. user.checkpoint = CheckpointOf(q)
    BY <1>1 DEF InHand
  <2> QED BY <2>1, <2>2, NoneAssumption DEF WrittenOnce
<1> QED BY <1>1, <1>4, <1>5, <1>6, <1>7, <1>8, <1>9 DEF InHand, Candidate, CheckpointOf

LEMMA OthersInHand ==
  ASSUME TypeInv, LockInv, HandInv, NEW p \in Procs, NEW q \in Procs, q # p, Rely(p),
         pc'[q] = pc[q], job'[q] = job[q]
  PROVE  InHand(q)'
<1>1. pc[q] \in UserSteps => user'.manifest = user.manifest /\ UNCHANGED intents
  BY NoneAssumption DEF Rely, LockInv
<1>2. pc[q] \in SystemSteps => system'.sidecar = system.sidecar /\ UNCHANGED proofs
  BY NoneAssumption DEF Rely, LockInv
<1> QED BY <1>1, <1>2, StillInHand DEF Rely

LEMMA StepKeeps ==
  ASSUME TypeInv, LockInv, HandInv, NEW p \in Procs, Moved(p), LocksKept(p), Rely(p),
         pc'[p] \in UserSteps => locks'["user"] = p,
         pc'[p] \in SystemSteps => locks'["system"] = p,
         InHand(p)'
  PROVE  LockInv' /\ HandInv'
<1>1. ASSUME NEW q \in Procs, q # p
      PROVE  /\ pc'[q] = pc[q] /\ job'[q] = job[q]
             /\ pc'[q] \in UserSteps => locks'["user"] = q
             /\ pc'[q] \in SystemSteps => locks'["system"] = q
  BY <1>1 DEF Moved, LocksKept, LockInv
<1>2. LockInv'
  BY <1>1 DEF LockInv
<1>3. HandInv'
  BY <1>1, OthersInHand DEF HandInv
<1> QED BY <1>2, <1>3

LEMMA EndKeeps ==
  ASSUME TypeInv, LockInv, HandInv, NEW p \in Procs, End(p), Rely(p)
  PROVE  LockInv' /\ HandInv'
<1>1. Moved(p) /\ LocksKept(p) /\ pc'[p] = "idle"
  BY EndMoves
<1>2. InHand(p)'
  BY <1>1 DEF InHand, BoundSteps, ChildSteps, SystemSteps, FinalSteps, BeginSteps
<1> QED BY <1>1, <1>2, StepKeeps DEF UserSteps, SystemSteps, BeginSteps

(***************************************************************************)
(* Types, locks and what is in hand, action by action.                     *)
(***************************************************************************)
BaseInv == TypeInv /\ LockInv /\ HandInv

FilesOK ==
  /\ user \in Users /\ system \in Systems
  /\ intents \in [Intents -> Bindings \cup {None}] /\ request \in Intents \cup {None}
  /\ auth \in [Intents -> Bindings \cup {None}]
  /\ proofs \in [Intents -> Proofs \cup {None}]
  /\ disturbed \in BOOLEAN

LEMMA TypeOf ==
  ASSUME NEW p \in Procs, FilesOK', Moved(p), LocksKept(p)
  PROVE  TypeInv'
BY DEF FilesOK, TypeInv, Moved, LocksKept

LEMMA HandOf ==
  ASSUME BaseInv, NEW p \in Procs
  PROVE  /\ pc[p] \in StepNames /\ job[p] \in Jobs /\ InHand(p)
         /\ pc[p] # "idle" => job[p].i \in Intents
         /\ pc[p] \in BoundSteps => job[p].binding \in Bindings
BY DEF BaseInv, TypeInv, HandInv, InHand

\* A step that leaves everything but pc, job and locks alone.
LEMMA QuietKeeps ==
  ASSUME BaseInv, NEW p \in Procs, request' \in {request, None},
         UNCHANGED <<user, intents, auth, system, proofs, disturbed>>
  PROVE  Rely(p) /\ FilesOK'
BY DEF BaseInv, TypeInv, FilesOK, Rely, WrittenOnce

LEMMA EndBase ==
  ASSUME BaseInv, NEW p \in Procs, End(p), Rely(p), FilesOK'
  PROVE  BaseInv'
BY EndMoves, EndKeeps, TypeOf DEF BaseInv

\* A child, or a publication without the lock, goes on.
LEMMA ChildBase ==
  ASSUME BaseInv, NEW p \in Procs, NEW step \in ChildSteps \cup {"publish"},
         pc[p] \in ChildSteps \cup {"publish"}, Continue(p, step), Rely(p), FilesOK'
  PROVE  BaseInv'
<1>1. step \in StepNames /\ pc[p] \in BoundSteps /\ pc[p] # "idle"
  BY DEF StepNames, BoundSteps, ChildSteps
<1>2. Moved(p) /\ LocksKept(p) /\ pc'[p] = step /\ job'[p] = job[p]
  BY <1>1, ContinueMoves DEF BaseInv
<1>3. InHand(p)'
  BY <1>1, <1>2, HandOf DEF InHand, ChildSteps, BeginSteps, FinalSteps
<1> QED BY <1>2, <1>3, StepKeeps, TypeOf DEF BaseInv, UserSteps, SystemSteps, ChildSteps, BeginSteps

LEMMA UserResultsAre ==
  ASSUME TypeInv, NEW u \in UserResults
  PROVE  /\ u \in Users /\ u.checkpoint = user.checkpoint
         /\ user.manifest # None => u.manifest # None /\ u.manifest.id = user.manifest.id
         /\ user.manifest = None => u.manifest = None \/ u.manifest.id = "other"
<1>1. user \in Users
  BY DEF TypeInv
<1>2. Id(user.manifest) \in Machines
  BY <1>1 DEF Id, Users, Manifests, Machines
<1>3. ASSUME NEW gen \in {0, 1}, NEW count \in {0, 1}, NEW ver \in {0, 1}, u = SetUp(gen, count, ver)
      PROVE  /\ u.gen = user.gen + gen /\ u.count = user.count + count
             /\ u.writes = user.writes + ver /\ u.checkpoint = user.checkpoint
             /\ u.manifest = IF ver = 0 THEN user.manifest
                             ELSE [id |-> Id(user.manifest), ver |-> user.writes + 1]
             /\ u = [gen |-> u.gen, count |-> u.count, writes |-> u.writes,
                     checkpoint |-> u.checkpoint, manifest |-> u.manifest]
  BY <1>1, <1>3 DEF SetUp, Users
<1>4. \E gen, count, ver \in {0, 1} : u = SetUp(gen, count, ver)
  BY DEF UserResults
<1>5. /\ user.gen \in Nat /\ user.count \in Nat /\ user.writes \in Nat
      /\ user.checkpoint \in Checkpoints \cup {None} /\ user.manifest \in Manifests \cup {None}
  BY <1>1 DEF Users
<1>6. [id |-> Id(user.manifest), ver |-> user.writes + 1] \in Manifests
  BY <1>2, <1>5 DEF Manifests
<1>7. PICK gen, count, ver \in {0, 1} : u = SetUp(gen, count, ver)
  BY <1>4
<1>8. u \in Users /\ u.checkpoint = user.checkpoint
  BY <1>3, <1>5, <1>6, <1>7 DEF Users
<1>9. /\ user.manifest # None => u.manifest # None /\ u.manifest.id = user.manifest.id
      /\ user.manifest = None => u.manifest = None \/ u.manifest.id = "other"
  BY <1>3, <1>6, <1>7, NoneAssumption DEF Id
<1> QED BY <1>8, <1>9

LEMMA BeginBase ==
  ASSUME BaseInv, NEW p \in Procs, NEW i \in Intents, Begin(p, i)
  PROVE  BaseInv'
<1> DEFINE j == [Idle EXCEPT !.i = i]
<1>1. Goto(p, "intent", j) /\ Take(p, "user") /\ UNCHANGED <<intents, request, auth, system, proofs>>
  BY Zenon DEF Begin, Start
<1>2. /\ user' \in Users /\ user'.checkpoint = user.checkpoint /\ user'.manifest # None
      /\ disturbed' \in BOOLEAN
  <2>1. UNCHANGED user \/ user' \in UserResults
    BY DEF Begin
  <2>2. user'.manifest # None
    BY DEF Begin
  <2>3. disturbed' \in BOOLEAN
    BY DEF Begin, BaseInv, TypeInv
  <2> QED BY <2>1, <2>2, <2>3, UserResultsAre DEF BaseInv, TypeInv
<1>3. j \in Jobs /\ j.i = i
  BY DEF Jobs, Idle
<1> HIDE DEF j
<1>4. Moved(p) /\ pc'[p] = "intent" /\ job'[p] = j
  BY <1>1, <1>3, GotoMoves DEF BaseInv, StepNames, BeginSteps
<1>5. LocksKept(p) /\ locks["user"] = None /\ locks'["user"] = p
  BY <1>1, TakeKeeps DEF BaseInv
<1>6. InHand(p)'
  BY <1>2, <1>3, <1>4 DEF InHand, BeginSteps, BoundSteps, ChildSteps, SystemSteps, FinalSteps
<1>7. Rely(p) /\ FilesOK'
  BY <1>1, <1>2, <1>5 DEF Rely, WrittenOnce, FilesOK, BaseInv, TypeInv
<1> QED BY <1>4, <1>5, <1>6, <1>7, StepKeeps, TypeOf DEF BaseInv, SystemSteps

LEMMA WriteIntentBase ==
  ASSUME BaseInv, NEW p \in Procs, WriteIntent(p)
  PROVE  BaseInv'
<1>1. Rely(p) /\ FilesOK'
  <2>1. UNCHANGED <<user, intents, request, auth, system, proofs, disturbed>>
    BY Zenon DEF WriteIntent
  <2> QED BY <2>1, QuietKeeps
<1>2. pc[p] = "intent" /\ (End(p) \/ (OnDisk = {} /\ Continue(p, "intent_publish")))
  BY Zenon DEF WriteIntent, Create
<1>3. CASE OnDisk = {} /\ Continue(p, "intent_publish")
  <2>1. Moved(p) /\ LocksKept(p) /\ pc'[p] = "intent_publish" /\ job'[p] = job[p] /\ UNCHANGED locks
    BY <1>3, ContinueMoves DEF BaseInv, StepNames, BeginSteps
  <2>2. UNCHANGED <<user, intents>>
    BY Zenon DEF WriteIntent
  <2>3. InHand(p)'
    BY <1>2, <1>3, <2>1, <2>2, HandOf
       DEF InHand, OnDisk, BeginSteps, BoundSteps, ChildSteps, SystemSteps, FinalSteps
  <2>4. locks["user"] = p
    BY <1>2 DEF BaseInv, LockInv, UserSteps, BeginSteps
  <2> QED BY <1>1, <2>1, <2>3, <2>4, StepKeeps, TypeOf DEF BaseInv, SystemSteps
<1> QED BY <1>1, <1>2, <1>3, EndBase

LEMMA PublishIntentBase ==
  ASSUME BaseInv, NEW p \in Procs, PublishIntent(p)
  PROVE  BaseInv'
<1>1. /\ pc[p] = "intent_publish" /\ End(p) /\ UNCHANGED <<user, request, auth, system, proofs, disturbed>>
      /\ intents' \in {intents, [intents EXCEPT ![job[p].i] = Binding]}
  BY DEF PublishIntent
<1>2. user.manifest # None
  BY <1>1, HandOf DEF InHand, BeginSteps
<1>3. Binding \in Bindings
  BY <1>2 DEF Binding, Bindings, BaseInv, TypeInv, Users
<1>4. FilesOK'
  BY <1>1, <1>3 DEF FilesOK, BaseInv, TypeInv
<1>5. Rely(p)
  BY <1>1 DEF Rely, WrittenOnce, UserSteps, BeginSteps
<1> QED BY <1>1, <1>4, <1>5, EndBase

\* A process that takes up an intent on disk.
LEMMA StartBase ==
  ASSUME BaseInv, NEW p \in Procs, NEW i \in Intents, intents[i] # None,
         NEW step \in {"reserve", "publish", "inspect"}, NEW j \in Jobs,
         j.i = i, j.binding = intents[i], Start(p, step, j),
         UNCHANGED <<user, intents, request, auth, system, proofs, disturbed, locks>>,
         step = "inspect" => j.proof \in Proofs /\ j.proof = proofs[i] /\ auth[i] = intents[i]
  PROVE  BaseInv'
<1>1. Goto(p, step, j) /\ step \in StepNames
  BY DEF Start, StepNames, BoundSteps, ChildSteps, FinalSteps
<1>2. Moved(p) /\ pc'[p] = step /\ job'[p] = j
  BY <1>1, GotoMoves DEF BaseInv
<1>3. LocksKept(p)
  BY SameLocks DEF BaseInv
<1>4. intents[i] \in Bindings
  BY DEF BaseInv, TypeInv
<1>5. InHand(p)'
  BY <1>2, <1>4 DEF InHand, BeginSteps, FinalSteps
<1>6. Rely(p) /\ FilesOK'
  BY QuietKeeps
<1> QED BY <1>2, <1>3, <1>5, <1>6, StepKeeps, TypeOf DEF BaseInv, UserSteps, SystemSteps, BeginSteps

LEMMA ReadRequestBase ==
  ASSUME BaseInv, NEW p \in Procs, ReadRequest(p)
  PROVE  BaseInv'
<1>1. PICK i \in Requested :
        /\ Live(i)
        /\ Start(p, "reserve", [Idle EXCEPT !.i = i, !.binding = intents[i],
                                            !.consume = request # None])
  BY Zenon DEF ReadRequest
<1> DEFINE j == [Idle EXCEPT !.i = i, !.binding = intents[i], !.consume = request # None]
<1>2. i \in Intents /\ intents[i] # None
  BY <1>1 DEF Requested, OnDisk, Live, BaseInv, TypeInv
<1>3. intents[i] \in Bindings
  BY <1>2 DEF BaseInv, TypeInv
<1>4. j \in Jobs /\ j.i = i /\ j.binding = intents[i]
  BY <1>2, <1>3 DEF Jobs, Idle
<1>5. UNCHANGED <<user, intents, request, auth, system, proofs, disturbed, locks>>
  BY Zenon DEF ReadRequest, files
<1>6. Start(p, "reserve", j)
  BY <1>1
<1> HIDE DEF j
<1> QED BY <1>2, <1>4, <1>5, <1>6, StartBase

LEMMA StartPublicationBase ==
  ASSUME BaseInv, NEW p \in Procs, NEW i \in Intents, StartPublication(p, i)
  PROVE  BaseInv'
<1> DEFINE j == [Idle EXCEPT !.i = i, !.binding = intents[i]]
<1>1. Live(i) /\ Start(p, "publish", j)
  BY Zenon DEF StartPublication
<1>2. intents[i] # None /\ intents[i] \in Bindings
  BY <1>1 DEF Live, BaseInv, TypeInv
<1>3. j \in Jobs /\ j.i = i /\ j.binding = intents[i]
  BY <1>2 DEF Jobs, Idle
<1>4. UNCHANGED <<user, intents, request, auth, system, proofs, disturbed, locks>>
  BY Zenon DEF StartPublication, files
<1> HIDE DEF j
<1> QED BY <1>1, <1>2, <1>3, <1>4, StartBase

LEMMA StartFinalizeBase ==
  ASSUME BaseInv, NEW p \in Procs, NEW i \in Intents, StartFinalize(p, i)
  PROVE  BaseInv'
<1> DEFINE j == [Idle EXCEPT !.i = i, !.binding = intents[i], !.proof = proofs[i]]
<1>1. intents[i] # None /\ SystemProven(i) /\ Start(p, "inspect", j)
  BY Zenon DEF StartFinalize
<1>2. intents[i] \in Bindings
  BY <1>1 DEF BaseInv, TypeInv
<1>3. proofs[i] \in Proofs
  BY <1>1, <1>2 DEF SystemProven, Proofs, BaseInv, TypeInv, Systems
<1>4. j \in Jobs /\ j.i = i /\ j.binding = intents[i] /\ j.proof = proofs[i]
  BY <1>2, <1>3 DEF Jobs, Idle
<1>5. UNCHANGED <<user, intents, request, auth, system, proofs, disturbed, locks>>
  BY Zenon DEF StartFinalize, files
<1>6. auth[i] = intents[i]
  BY <1>1 DEF SystemProven
<1> HIDE DEF j
<1> QED BY <1>1, <1>2, <1>3, <1>4, <1>5, <1>6, StartBase

LEMMA SystemGen ==
  ASSUME NEW sys \in Systems
  PROVE  /\ [sys EXCEPT !.gen = sys.gen + 1] \in Systems
         /\ [sys EXCEPT !.gen = sys.gen + 1].manifest = sys.manifest
BY DEF Systems

LEMMA SystemFlags ==
  ASSUME NEW sys \in Systems
  PROVE  /\ [sys EXCEPT !.done = TRUE] \in Systems /\ [sys EXCEPT !.done = TRUE].gen = sys.gen
         /\ [sys EXCEPT !.empty = TRUE] \in Systems
         /\ [sys EXCEPT !.done = TRUE].manifest = sys.manifest
         /\ [sys EXCEPT !.done = TRUE].sidecar = sys.sidecar
BY DEF Systems

LEMMA SystemDone ==
  ASSUME NEW sys \in Systems
  PROVE  [sys EXCEPT !.done = TRUE, !.gen = @ + 1] \in Systems
<1> DEFINE done == [sys EXCEPT !.done = TRUE]
<1>1. done \in Systems /\ done.gen = sys.gen
  BY SystemFlags
<1> HIDE DEF done
<1>2. [done EXCEPT !.gen = sys.gen + 1] \in Systems
  BY <1>1, SystemGen
<1> QED BY <1>2 DEF done

LEMMA SystemSidecar ==
  ASSUME NEW sys \in Systems, NEW sidecar \in SystemManifests
  PROVE  [sys EXCEPT !.sidecar = sidecar] \in Systems /\ [sys EXCEPT !.sidecar = sidecar].sidecar = sidecar
BY DEF Systems

LEMMA SystemManifest ==
  ASSUME NEW sys \in Systems, NEW manifest \in SystemManifests
  PROVE  [sys EXCEPT !.manifest = manifest] \in Systems
BY DEF Systems

\* The privileged child.
LEMMA ChildStepBase ==
  ASSUME BaseInv, NEW p \in Procs, ChildStep(p)
  PROVE  BaseInv'
<1>1. ASSUME End(p) \/ \E step \in ChildSteps : Continue(p, step), pc[p] \in ChildSteps,
             Rely(p), FilesOK'
      PROVE  BaseInv'
  BY <1>1, EndBase, ChildBase
<1>2. CASE Reserve(p)
  <2>1. UNCHANGED <<user, intents, request, auth, system, proofs, disturbed>> /\ pc[p] = "reserve"
    BY <1>2, Zenon DEF Reserve, files
  <2>2. End(p) \/ \E step \in {"record", "consume"} : Continue(p, step)
    BY <1>2 DEF Reserve
  <2> QED BY <1>1, <2>1, <2>2, QuietKeeps DEF ChildSteps
<1>3. CASE CreateRecord(p)
  <2>1. UNCHANGED <<user, intents, request, auth, system, proofs, disturbed>> /\ pc[p] = "record"
    BY <1>3, Zenon DEF CreateRecord
  <2>2. End(p) \/ Continue(p, "record_publish")
    BY <1>3, Zenon DEF CreateRecord, Create
  <2> QED BY <1>1, <2>1, <2>2, QuietKeeps DEF ChildSteps
<1>4. CASE PublishRecord(p)
  <2>1. UNCHANGED <<user, intents, request, system, proofs, disturbed>> /\ pc[p] = "record_publish"
    BY <1>4, Zenon DEF PublishRecord
  <2>2. End(p) \/ Continue(p, "consume")
    BY <1>4, Zenon DEF PublishRecord, CreateFails
  <2>3. \/ UNCHANGED auth
        \/ auth[job[p].i] = None /\ auth' = [auth EXCEPT ![job[p].i] = job[p].binding]
    BY <1>4, Zenon DEF PublishRecord
  <2>4. job[p].i \in Intents /\ job[p].binding \in Bindings
    BY <2>1, HandOf DEF BoundSteps, ChildSteps
  <2>5. Rely(p) /\ FilesOK'
    BY <2>1, <2>3, <2>4 DEF Rely, WrittenOnce, FilesOK, BaseInv, TypeInv
  <2> QED BY <1>1, <2>1, <2>2, <2>5 DEF ChildSteps
<1>5. CASE ConsumeRequest(p)
  <2>1. UNCHANGED <<user, intents, auth, system, proofs, disturbed>> /\ pc[p] = "consume"
    BY <1>5, Zenon DEF ConsumeRequest
  <2>2. request' \in {request, None} /\ (End(p) \/ Continue(p, "apply"))
    BY <1>5 DEF ConsumeRequest
  <2> QED BY <1>1, <2>1, <2>2, QuietKeeps DEF ChildSteps
<1>6. CASE ApplySystemPlan(p)
  <2>1. /\ UNCHANGED <<user, intents, request, auth, proofs, disturbed>>
        /\ pc[p] = "apply" /\ locks["system"] = None /\ End(p)
    BY <1>6, Zenon DEF ApplySystemPlan
  <2>2. system' \in Systems
    <3>1. system \in Systems
      BY DEF BaseInv, TypeInv
    <3>2. system' = system \/ system' = [system EXCEPT !.done = TRUE, !.gen = @ + 1]
      BY <1>6, Zenon DEF ApplySystemPlan
    <3>3. [system EXCEPT !.done = TRUE, !.gen = @ + 1] \in Systems
      BY <3>1, SystemDone, Zenon
    <3> QED BY <3>1, <3>2, <3>3, Zenon
  <2>3. Rely(p) /\ FilesOK'
    BY <2>1, <2>2 DEF Rely, WrittenOnce, FilesOK, BaseInv, TypeInv
  <2> QED BY <1>1, <2>1, <2>3 DEF ChildSteps
<1> QED BY <1>2, <1>3, <1>4, <1>5, <1>6 DEF ChildStep

LEMMA CandidateType ==
  ASSUME NEW i \in Intents, NEW binding \in Bindings
  PROVE  Candidate(i, binding) \in SystemManifests
BY DEF Candidate, SystemManifests, Bindings, Manifests

LEMMA FinishedIs ==
  ASSUME TypeInv, NEW manifest \in SystemManifests \cup {None}
  PROVE  /\ Finished(manifest) \in Systems
         /\ Finished(manifest).manifest = manifest /\ Finished(manifest).sidecar = None
<1> DEFINE s1 == [system EXCEPT !.gen = system.gen + 1]
           s2 == [s1 EXCEPT !.empty = TRUE]
           s3 == [s2 EXCEPT !.manifest = manifest]
           s4 == [s3 EXCEPT !.sidecar = None]
<1>1. s1 \in Systems
  BY SystemGen DEF TypeInv
<1> HIDE DEF s1
<1>2. s2 \in Systems
  BY <1>1, SystemFlags
<1> HIDE DEF s2
<1>3. s3 \in Systems /\ s3.manifest = manifest
  BY <1>2 DEF Systems
<1> HIDE DEF s3
<1>4. s4 \in Systems /\ s4.manifest = manifest /\ s4.sidecar = None
  BY <1>3 DEF Systems
<1>5. Finished(manifest) = s4
  BY DEF Finished, s1, s2, s3
<1> QED BY <1>4, <1>5

\* A publication goes on under the lock of the system's receipt.
LEMMA SystemBase ==
  ASSUME BaseInv, NEW p \in Procs, NEW step \in SystemSteps, pc[p] \in SystemSteps,
         Continue(p, step), WrittenOnce, FilesOK',
         UNCHANGED <<user, intents>>,
         step = "manifest" => system'.sidecar = Candidate(job[p].i, job[p].binding),
         step = "proof_publish" => proofs'[job[p].i] = None
  PROVE  BaseInv'
<1>1. step \in StepNames /\ pc[p] \in BoundSteps /\ pc[p] # "idle"
  BY DEF StepNames, BoundSteps, SystemSteps
<1>2. Moved(p) /\ LocksKept(p) /\ pc'[p] = step /\ job'[p] = job[p] /\ UNCHANGED locks
  BY <1>1, ContinueMoves DEF BaseInv
<1>3. InHand(p)'
  BY <1>1, <1>2, HandOf DEF InHand, SystemSteps, BeginSteps, FinalSteps, Candidate
<1>4. locks["system"] = p
  BY DEF BaseInv, LockInv
<1>5. Rely(p)
  BY DEF Rely
<1>6. step \notin UserSteps
  BY DEF UserSteps, SystemSteps, BeginSteps
<1> QED BY <1>2, <1>3, <1>4, <1>5, <1>6, StepKeeps, TypeOf DEF BaseInv

LEMMA PublishStepBase ==
  ASSUME BaseInv, NEW p \in Procs, PublishStep(p)
  PROVE  BaseInv'
<1> DEFINE candidate == Candidate(job[p].i, job[p].binding)
<1>0. pc[p] \in SystemSteps \cup {"publish"} => candidate \in SystemManifests
  BY HandOf, CandidateType DEF BoundSteps, SystemSteps
<1>1. system \in Systems /\ system.sidecar \in SystemManifests \cup {None}
      /\ system.manifest \in SystemManifests \cup {None}
  BY DEF BaseInv, TypeInv, Systems
<1> HIDE DEF candidate
<1>2. ASSUME system' \in Systems, UNCHANGED <<user, intents, request, auth, proofs, disturbed>>
      PROVE  FilesOK' /\ WrittenOnce
  BY <1>2 DEF FilesOK, WrittenOnce, BaseInv, TypeInv
<1>3. CASE LockSystem(p)
  <2>1. /\ UNCHANGED <<user, intents, request, auth, system, proofs, disturbed>>
        /\ pc[p] = "publish" /\ Take(p, "system") /\ Goto(p, "recover", job[p])
    BY <1>3, Zenon DEF LockSystem, files
  <2>2. Moved(p) /\ pc'[p] = "recover" /\ job'[p] = job[p]
    BY <2>1, HandOf, GotoMoves DEF BaseInv, StepNames, BoundSteps, SystemSteps
  <2>3. LocksKept(p) /\ locks'["system"] = p
    BY <2>1, TakeKeeps DEF BaseInv
  <2>4. InHand(p)'
    BY <2>1, <2>2, HandOf DEF InHand, BoundSteps, SystemSteps, BeginSteps, FinalSteps
  <2> QED BY <2>1, <2>2, <2>3, <2>4, QuietKeeps, StepKeeps, TypeOf DEF BaseInv, UserSteps, BeginSteps
<1>4. CASE Recover(p)
  <2>1. UNCHANGED <<user, intents, request, auth, proofs, disturbed>> /\ pc[p] = "recover"
    BY <1>4, Zenon DEF Recover
  <2>2. \/ /\ system.sidecar # None /\ system' = Finished(system.sidecar) /\ Continue(p, "recover")
        \/ UNCHANGED system /\ (Continue(p, "proof") \/ End(p))
        \/ system' = [system EXCEPT !.sidecar = candidate] /\ Continue(p, "manifest")
    BY <1>4, Zenon DEF Recover, candidate
  <2>3. system' \in Systems
    BY <1>0, <1>1, <2>1, <2>2, FinishedIs, SystemSidecar DEF BaseInv, SystemSteps
  <2>4. FilesOK' /\ WrittenOnce /\ Rely(p)
    BY <1>2, <2>1, <2>3 DEF Rely, SystemSteps
  <2>5. system' = [system EXCEPT !.sidecar = candidate] => system'.sidecar = candidate
    BY <1>1 DEF Systems
  <2> QED BY <2>1, <2>2, <2>4, <2>5, EndBase, SystemBase DEF SystemSteps, candidate
<1>5. CASE PublishManifest(p)
  <2>1. UNCHANGED <<user, intents, request, auth, proofs, disturbed>> /\ pc[p] = "manifest"
        /\ Continue(p, "checkpoint") /\ system' = [system EXCEPT !.manifest = system.sidecar]
    BY <1>5, Zenon DEF PublishManifest
  <2>2. system.sidecar = candidate
    BY <2>1, HandOf DEF InHand, candidate
  <2>3. system' \in Systems
    BY <1>0, <1>1, <2>1, <2>2, SystemManifest DEF SystemSteps
  <2> QED BY <1>2, <2>1, <2>3, SystemBase DEF SystemSteps
<1>6. CASE Checkpoint(p)
  <2>1. UNCHANGED <<user, intents, request, auth, proofs, disturbed>> /\ pc[p] = "checkpoint"
        /\ Continue(p, "proof") /\ system' = Finished(system.manifest)
    BY <1>6, Zenon DEF Checkpoint
  <2>2. system' \in Systems
    BY <1>1, <2>1, FinishedIs DEF BaseInv
  <2> QED BY <1>2, <2>1, <2>2, SystemBase DEF SystemSteps
<1>7. CASE WriteProof(p)
  <2>1. UNCHANGED <<user, intents, request, auth, system, proofs, disturbed>> /\ pc[p] = "proof"
    BY <1>7, Zenon DEF WriteProof
  <2>2. End(p) \/ (proofs[job[p].i] = None /\ Continue(p, "proof_publish"))
    BY <1>7, Zenon DEF WriteProof, Create
  <2>3. Rely(p) /\ FilesOK' /\ WrittenOnce
    BY <2>1, QuietKeeps DEF Rely
  <2> QED BY <2>1, <2>2, <2>3, EndBase, SystemBase DEF SystemSteps
<1>8. CASE PublishProof(p)
  <2>1. UNCHANGED <<user, intents, request, auth, system, disturbed>> /\ pc[p] = "proof_publish"
        /\ End(p) /\ (UNCHANGED proofs \/ proofs' = [proofs EXCEPT ![job[p].i] = Proof(p)])
    BY <1>8, Zenon DEF PublishProof, CreateFails
  <2>2. job[p].i \in Intents /\ job[p].binding \in Bindings /\ proofs[job[p].i] = None
    BY <2>1, HandOf DEF InHand, BoundSteps, SystemSteps
  <2>3. Proof(p) \in Proofs
    BY <1>1, <2>2 DEF Proof, Proofs, Systems
  <2>4. FilesOK' /\ WrittenOnce
    BY <2>1, <2>2, <2>3 DEF FilesOK, WrittenOnce, BaseInv, TypeInv
  <2>5. Rely(p)
    BY <2>1, <2>4 DEF Rely, SystemSteps
  <2> QED BY <2>1, <2>4, <2>5, EndBase
<1> QED BY <1>3, <1>4, <1>5, <1>6, <1>7, <1>8 DEF PublishStep

\* What commit, retirement and removal do.
LEMMA CommitIs ==
  ASSUME BaseInv, NEW p \in Procs, CommitCheckpoint(p)
  PROVE  /\ pc[p] = "commit" /\ locks["user"] = None /\ CheckpointOf(p) \in Checkpoints
         /\ UNCHANGED <<intents, request, auth, system, proofs, disturbed>>
         /\ \/ End(p) /\ UNCHANGED user
            \/ /\ user.checkpoint \in {None, CheckpointOf(p)}
               /\ Take(p, "user") /\ Goto(p, "retire", job[p]) /\ user' \in Users
               /\ user'.checkpoint = CheckpointOf(p) /\ user'.manifest = user.manifest
<1>1. /\ pc[p] = "commit" /\ locks["user"] = None
      /\ UNCHANGED <<intents, request, auth, system, proofs, disturbed>>
  BY Zenon DEF CommitCheckpoint
<1>2. CheckpointOf(p) \in Checkpoints
  BY <1>1, HandOf DEF InHand, BoundSteps, FinalSteps, CheckpointOf, Checkpoints
<1> DEFINE gen == IF user.checkpoint = None THEN user.gen + 1 ELSE user.gen
           u == [user EXCEPT !.checkpoint = CheckpointOf(p), !.gen = gen]
<1>3. \/ End(p) /\ UNCHANGED user
      \/ /\ user.checkpoint \in {None, CheckpointOf(p)}
         /\ Take(p, "user") /\ Goto(p, "retire", job[p])
         /\ user' = u
  BY Zenon DEF CommitCheckpoint
<1>4. user \in Users /\ gen \in Nat
  BY DEF BaseInv, TypeInv, Users
<1>5. u \in Users /\ u.checkpoint = CheckpointOf(p) /\ u.manifest = user.manifest
  <2>1. PICK g \in Nat, checkpoint \in Checkpoints : g = gen /\ checkpoint = CheckpointOf(p)
    BY <1>2, <1>4
  <2>2. u = [user EXCEPT !.checkpoint = checkpoint, !.gen = g]
    BY <2>1
  <2> HIDE DEF u, gen
  <2>3. u \in Users /\ u.checkpoint = checkpoint /\ u.manifest = user.manifest
    BY <1>4, <2>2 DEF Users
  <2> QED BY <2>1, <2>3
<1> HIDE DEF u
<1> QED BY <1>1, <1>2, <1>3, <1>5, Zenon

LEMMA RetireIs ==
  ASSUME BaseInv, NEW p \in Procs, RetireManifest(p)
  PROVE  /\ pc[p] = "retire" /\ UNCHANGED <<intents, request, auth, system, proofs, disturbed>>
         /\ \/ End(p) /\ UNCHANGED user
            \/ Continue(p, "remove") /\ UNCHANGED user /\ job[p].source = None
            \/ /\ Continue(p, "remove") /\ user.manifest = job[p].source
               /\ user' \in Users /\ user'.checkpoint = user.checkpoint /\ user'.manifest = None
<1>1. pc[p] = "retire" /\ UNCHANGED <<intents, request, auth, system, proofs, disturbed>>
  BY Zenon DEF RetireManifest
<1>2. \/ End(p) /\ UNCHANGED user
      \/ Continue(p, "remove") /\ UNCHANGED user /\ job[p].source = None
      \/ /\ Continue(p, "remove") /\ user.manifest = job[p].source
         /\ user' = [user EXCEPT !.manifest = None]
  BY Zenon DEF RetireManifest, SameManifest
<1>3. user \in Users
  BY DEF BaseInv, TypeInv
<1>4. [user EXCEPT !.manifest = None] \in Users
      /\ [user EXCEPT !.manifest = None].checkpoint = user.checkpoint
      /\ [user EXCEPT !.manifest = None].manifest = None
  BY <1>3 DEF Users
<1> QED BY <1>1, <1>2, <1>4

LEMMA FinalizeStepBase ==
  ASSUME BaseInv, NEW p \in Procs, FinalizeStep(p)
  PROVE  BaseInv'
<1>0. job[p] \in Jobs /\ InHand(p)
  BY HandOf
<1>1. CASE InspectUser(p)
  <2> DEFINE j == [job[p] EXCEPT !.source = user.manifest]
  <2>1. UNCHANGED <<user, intents, request, auth, system, proofs, disturbed>> /\ pc[p] = "inspect"
    BY <1>1, Zenon DEF InspectUser, files
  <2>2. End(p) \/ (Classified(p, user.manifest) /\ Goto(p, "commit", j) /\ UNCHANGED locks)
    BY <1>1, Zenon DEF InspectUser
  <2>3. user.manifest \in Manifests \cup {None}
    BY DEF BaseInv, TypeInv, Users
  <2>4. /\ j \in Jobs /\ j.i = job[p].i /\ j.binding = job[p].binding /\ j.proof = job[p].proof
        /\ j.source = user.manifest
    BY <1>0, <2>3 DEF Jobs
  <2> HIDE DEF j
  <2>5. CASE Classified(p, user.manifest) /\ Goto(p, "commit", j) /\ UNCHANGED locks
    <3>1. Moved(p) /\ pc'[p] = "commit" /\ job'[p] = j /\ LocksKept(p)
      BY <2>4, <2>5, GotoMoves, SameLocks DEF BaseInv, StepNames, BoundSteps, FinalSteps
    <3>2. user.manifest \in {None, job[p].binding.manifest}
      BY <2>5 DEF Classified
    <3>3. InHand(p)'
      BY <1>0, <2>1, <2>4, <3>1, <3>2 DEF InHand, BoundSteps, BeginSteps, FinalSteps
    <3> QED BY <2>1, <3>1, <3>3, QuietKeeps, StepKeeps, TypeOf
            DEF BaseInv, UserSteps, SystemSteps, BeginSteps
  <2> QED BY <2>1, <2>2, <2>5, EndBase, QuietKeeps
<1>2. CASE CommitCheckpoint(p)
  <2>1. /\ pc[p] = "commit" /\ locks["user"] = None /\ CheckpointOf(p) \in Checkpoints
        /\ UNCHANGED <<intents, request, auth, system, proofs, disturbed>>
    BY <1>2, CommitIs
  <2>2. CASE End(p) /\ UNCHANGED user
    BY <2>1, <2>2, EndBase, QuietKeeps
  <2>3. CASE /\ user.checkpoint \in {None, CheckpointOf(p)}
             /\ Take(p, "user") /\ Goto(p, "retire", job[p]) /\ user' \in Users
             /\ user'.checkpoint = CheckpointOf(p) /\ user'.manifest = user.manifest
    <3>1. Moved(p) /\ pc'[p] = "retire" /\ job'[p] = job[p]
      BY <1>0, <2>3, GotoMoves DEF BaseInv, StepNames, BoundSteps, FinalSteps
    <3>2. LocksKept(p) /\ locks'["user"] = p
      BY <2>3, TakeKeeps DEF BaseInv
    <3>3. InHand(p)'
      BY <1>0, <2>1, <2>3, <3>1 DEF InHand, BoundSteps, BeginSteps, FinalSteps, CheckpointOf
    <3>4. Rely(p) /\ FilesOK'
      BY <2>1, <2>3 DEF Rely, WrittenOnce, FilesOK, BaseInv, TypeInv
    <3> QED BY <3>1, <3>2, <3>3, <3>4, StepKeeps, TypeOf DEF BaseInv, SystemSteps
  <2> QED BY <1>2, <2>2, <2>3, CommitIs
<1>3. CASE RetireManifest(p)
  <2>1. pc[p] = "retire" /\ UNCHANGED <<intents, request, auth, system, proofs, disturbed>>
    BY <1>3, RetireIs
  <2>2. user' \in Users /\ user'.checkpoint = user.checkpoint
    BY <1>3, RetireIs DEF BaseInv, TypeInv
  <2>3. Rely(p) /\ FilesOK'
    BY <2>1, <2>2 DEF Rely, WrittenOnce, UserSteps, FilesOK, BaseInv, TypeInv
  <2>4. CASE Continue(p, "remove")
    <3>1. Moved(p) /\ LocksKept(p) /\ pc'[p] = "remove" /\ job'[p] = job[p] /\ UNCHANGED locks
      BY <2>4, ContinueMoves DEF BaseInv, StepNames, BoundSteps, FinalSteps
    <3>2. InHand(p)'
      BY <1>0, <2>1, <2>2, <3>1 DEF InHand, BoundSteps, BeginSteps, FinalSteps, CheckpointOf
    <3>3. locks["user"] = p
      BY <2>1 DEF BaseInv, LockInv, UserSteps
    <3> QED BY <2>3, <3>1, <3>2, <3>3, StepKeeps, TypeOf DEF BaseInv, SystemSteps
  <2> QED BY <1>3, <2>3, <2>4, RetireIs, EndBase
<1>4. CASE RemoveIntent(p)
  <2>1. /\ pc[p] = "remove" /\ End(p) /\ UNCHANGED <<user, request, auth, system, proofs, disturbed>>
        /\ intents' \in {intents, [intents EXCEPT ![job[p].i] = None]}
    BY <1>4 DEF RemoveIntent
  <2>2. Rely(p) /\ FilesOK'
    BY <2>1 DEF Rely, WrittenOnce, UserSteps, FilesOK, BaseInv, TypeInv
  <2> QED BY <2>1, <2>2, EndBase
<1> QED BY <1>1, <1>2, <1>3, <1>4 DEF FinalizeStep

(***************************************************************************)
(* Setups, and every step together.                                        *)
(***************************************************************************)
LEMMA SystemSetupIs ==
  ASSUME TypeInv, SystemSetup
  PROVE  /\ system' \in Systems /\ system'.sidecar = None
         /\ \/ system'.manifest = system.manifest
            \/ /\ system'.manifest \in SystemManifests /\ system.sidecar = None
               /\ system'.manifest.id = Id(system.manifest)
            \/ system.sidecar # None /\ system'.manifest = system.sidecar
<1>1. system.sidecar \in SystemManifests \cup {None} /\ system.manifest \in SystemManifests \cup {None}
  BY DEF TypeInv, Systems
<1> DEFINE own == [id |-> Id(system.manifest), of |-> None]
<1>2. own \in SystemManifests /\ own.id = Id(system.manifest)
  BY <1>1 DEF Id, SystemManifests, Machines
<1>3. PICK manifest \in {system.manifest, own} : \E empty \in BOOLEAN :
        system' = [Finished(IF system.sidecar = None THEN manifest ELSE system.sidecar)
                     EXCEPT !.empty = empty \/ system.sidecar # None]
  BY Zenon DEF SystemSetup
<1> DEFINE final == IF system.sidecar = None THEN manifest ELSE system.sidecar
           done == Finished(final)
<1> HIDE DEF own
<1>4. final \in SystemManifests \cup {None}
  BY <1>1, <1>2, <1>3
<1>5. PICK empty : system' = [done EXCEPT !.empty = empty] /\ empty \in BOOLEAN
  BY <1>3, Zenon
<1>6. done \in Systems /\ done.manifest = final /\ done.sidecar = None
  <2> HIDE DEF final
  <2> QED BY <1>4, FinishedIs
<1>7. system' \in Systems /\ system'.sidecar = None /\ system'.manifest = final
  <2> HIDE DEF done
  <2> QED BY <1>5, <1>6 DEF Systems
<1> QED BY <1>1, <1>2, <1>3, <1>7

LEMMA OutsideBase ==
  ASSUME BaseInv, UNCHANGED <<locks, pc, job>>, FilesOK', WrittenOnce,
         (user'.manifest = user.manifest /\ UNCHANGED intents) \/ locks["user"] = None,
         (system'.sidecar = system.sidecar /\ UNCHANGED proofs) \/ locks["system"] = None
  PROVE  BaseInv'
<1>1. TypeInv'
  BY DEF FilesOK, TypeInv, BaseInv
<1>2. LockInv'
  BY DEF LockInv, BaseInv
<1>3. ASSUME NEW q \in Procs PROVE InHand(q)'
  <2>1. pc[q] \in UserSteps => user'.manifest = user.manifest /\ UNCHANGED intents
    BY NoneAssumption DEF BaseInv, LockInv
  <2>2. pc[q] \in SystemSteps => system'.sidecar = system.sidecar /\ UNCHANGED proofs
    BY NoneAssumption DEF BaseInv, LockInv
  <2> QED BY <2>1, <2>2, StillInHand DEF BaseInv
<1> QED BY <1>1, <1>2, <1>3 DEF BaseInv, HandInv

LEMMA SetupBase ==
  ASSUME BaseInv, OrdinarySetup
  PROVE  BaseInv'
<1>1. UNCHANGED <<locks, pc, job>> /\ disturbed' \in BOOLEAN
  BY DEF OrdinarySetup
<1>2. CASE UserSetup
  <2>1. /\ UNCHANGED <<intents, request, auth, system, proofs>> /\ locks["user"] = None
        /\ user' \in UserResults
    BY <1>2, Zenon DEF UserSetup
  <2>2. user' \in Users /\ user'.checkpoint = user.checkpoint
    BY <2>1, UserResultsAre DEF BaseInv
  <2>3. FilesOK' /\ WrittenOnce
    BY <1>1, <2>1, <2>2 DEF FilesOK, WrittenOnce, BaseInv, TypeInv
  <2> QED BY <1>1, <2>1, <2>3, OutsideBase
<1>3. CASE SystemSetup
  <2>1. UNCHANGED <<user, intents, request, auth, proofs>> /\ locks["system"] = None
    BY <1>3, Zenon DEF SystemSetup
  <2>2. FilesOK' /\ WrittenOnce
    BY <1>1, <1>3, <2>1, SystemSetupIs DEF FilesOK, WrittenOnce, BaseInv, TypeInv
  <2> QED BY <1>1, <2>1, <2>2, OutsideBase
<1> QED BY <1>2, <1>3 DEF OrdinarySetup

LEMMA BeginStepBase ==
  ASSUME BaseInv, NEW p \in Procs, BeginStep(p)
  PROVE  BaseInv'
BY WriteIntentBase, PublishIntentBase DEF BeginStep

LEMMA CrashBase ==
  ASSUME BaseInv, NEW p \in Procs, Crash(p)
  PROVE  BaseInv'
<1>1. End(p) /\ UNCHANGED <<user, intents, request, auth, system, proofs, disturbed>>
  BY Zenon DEF Crash, files
<1> QED BY <1>1, EndBase, QuietKeeps

LEMMA StepBase ==
  ASSUME BaseInv, [Next]_vars
  PROVE  BaseInv'
<1>1. ASSUME NEW p \in Procs, Step(p) \/ ReadRequest(p) \/ Crash(p) PROVE BaseInv'
  BY <1>1, BeginStepBase, ChildStepBase, PublishStepBase, FinalizeStepBase, ReadRequestBase,
     CrashBase DEF Step
<1>2. ASSUME NEW p \in Procs, NEW i \in Intents,
             Begin(p, i) \/ StartPublication(p, i) \/ StartFinalize(p, i)
      PROVE  BaseInv'
  BY <1>2, BeginBase, StartPublicationBase, StartFinalizeBase
<1>3. ASSUME NEW i \in Intents, Request(i) PROVE BaseInv'
  <2>1. UNCHANGED <<user, intents, auth, system, proofs, locks, pc, job, disturbed>> /\ request' = i
    BY <1>3, Zenon DEF Request
  <2>2. FilesOK' /\ WrittenOnce
    BY <2>1 DEF FilesOK, WrittenOnce, BaseInv, TypeInv
  <2> QED BY <2>1, <2>2, OutsideBase
<1>4. ASSUME UNCHANGED vars PROVE BaseInv'
  <2>1. UNCHANGED <<user, intents, request, auth, system, proofs, locks, pc, job, disturbed>>
    BY <1>4 DEF vars, files
  <2>2. FilesOK' /\ WrittenOnce
    BY <2>1 DEF FilesOK, WrittenOnce, BaseInv, TypeInv
  <2> QED BY <2>1, <2>2, OutsideBase
<1> QED BY <1>1, <1>2, <1>3, <1>4, SetupBase DEF Next

LEMMA InitBase == Init => BaseInv
<1> SUFFICES ASSUME Init PROVE BaseInv
  OBVIOUS
<1>1. user \in Users /\ system \in Systems
  BY DEF Init, Users, Manifests, Machines, Systems
<1>2. Idle \in Jobs
  BY IdleType
<1>3. TypeInv
  BY <1>1, <1>2 DEF Init, TypeInv, StepNames
<1>4. LockInv /\ HandInv
  BY DEF Init, LockInv, HandInv, InHand, UserSteps, BoundSteps, SystemSteps, BeginSteps, ChildSteps,
         FinalSteps
<1> QED BY <1>3, <1>4 DEF BaseInv

(***************************************************************************)
(* Most steps move one process onward and leave what an intent binds       *)
(* alone: they take up nothing, and give the system only the candidate of  *)
(* the process or what its sidecar already names.                          *)
(***************************************************************************)
SystemOnward(p) ==
  /\ \/ system'.sidecar \in {None, system.sidecar}
     \/ pc[p] \in BoundSteps /\ system'.sidecar = Candidate(job[p].i, job[p].binding)
  /\ \/ system'.manifest = system.manifest
     \/ system.sidecar # None /\ system'.manifest = system.sidecar

ProcOnward(p) ==
  /\ Moved(p)
  /\ pc'[p] \in BoundSteps =>
       pc[p] \in BoundSteps /\ job'[p].i = job[p].i /\ job'[p].binding = job[p].binding
  /\ pc'[p] \in FinalSteps => pc[p] \in FinalSteps
  /\ Emptied(p)' => Emptied(p) \/ user.manifest = None

Onward(p) ==
  ProcOnward(p) /\ SystemOnward(p) /\ UNCHANGED <<user, intents, disturbed>>

LEMMA EndOnward ==
  ASSUME BaseInv, NEW p \in Procs, End(p)
  PROVE  ProcOnward(p)
BY EndMoves DEF BaseInv, ProcOnward, Emptied, BoundSteps, ChildSteps, SystemSteps, FinalSteps

LEMMA ContinueOnward ==
  ASSUME BaseInv, NEW p \in Procs, NEW step \in StepNames, Continue(p, step),
         step \in BoundSteps => pc[p] \in BoundSteps,
         step \notin FinalSteps \/ (pc[p] \in FinalSteps /\ step = "remove" /\ Emptied(p))
  PROVE  ProcOnward(p)
<1>1. Moved(p) /\ pc'[p] = step /\ job'[p] = job[p]
  BY ContinueMoves DEF BaseInv
<1> QED BY <1>1 DEF ProcOnward, Emptied, FinalSteps

LEMMA QuietOnward ==
  ASSUME NEW p \in Procs, ProcOnward(p), UNCHANGED <<user, intents, system, disturbed>>
  PROVE  Onward(p)
BY DEF Onward, SystemOnward

LEMMA ChildOnward ==
  ASSUME BaseInv, NEW p \in Procs, ChildStep(p)
  PROVE  Onward(p)
<1>1. ASSUME pc[p] \in ChildSteps, End(p) \/ \E step \in ChildSteps : Continue(p, step)
      PROVE  ProcOnward(p)
  BY <1>1, EndOnward, ContinueOnward DEF StepNames, BoundSteps, ChildSteps, FinalSteps
<1>2. CASE Reserve(p)
  <2>1. UNCHANGED <<user, intents, system, disturbed>> /\ pc[p] = "reserve"
    BY <1>2, Zenon DEF Reserve, files
  <2>2. End(p) \/ \E step \in {"record", "consume"} : Continue(p, step)
    BY <1>2 DEF Reserve
  <2> QED BY <1>1, <2>1, <2>2, QuietOnward DEF ChildSteps
<1>3. CASE CreateRecord(p)
  <2>1. UNCHANGED <<user, intents, system, disturbed>> /\ pc[p] = "record"
    BY <1>3, Zenon DEF CreateRecord
  <2>2. End(p) \/ Continue(p, "record_publish")
    BY <1>3, Zenon DEF CreateRecord, Create
  <2> QED BY <1>1, <2>1, <2>2, QuietOnward DEF ChildSteps
<1>4. CASE PublishRecord(p)
  <2>1. UNCHANGED <<user, intents, system, disturbed>> /\ pc[p] = "record_publish"
    BY <1>4, Zenon DEF PublishRecord
  <2>2. End(p) \/ Continue(p, "consume")
    BY <1>4, Zenon DEF PublishRecord, CreateFails
  <2> QED BY <1>1, <2>1, <2>2, QuietOnward DEF ChildSteps
<1>5. CASE ConsumeRequest(p)
  <2>1. UNCHANGED <<user, intents, system, disturbed>> /\ pc[p] = "consume"
    BY <1>5, Zenon DEF ConsumeRequest
  <2>2. End(p) \/ Continue(p, "apply")
    BY <1>5 DEF ConsumeRequest
  <2> QED BY <1>1, <2>1, <2>2, QuietOnward DEF ChildSteps
<1>6. CASE ApplySystemPlan(p)
  <2>1. UNCHANGED <<user, intents, disturbed>> /\ End(p)
    BY <1>6, Zenon DEF ApplySystemPlan
  <2> DEFINE done == [system EXCEPT !.done = TRUE]
  <2>2. done \in Systems /\ done.manifest = system.manifest /\ done.sidecar = system.sidecar
    BY SystemFlags DEF BaseInv, TypeInv
  <2>3. system' = system \/ system' = [done EXCEPT !.gen = @ + 1]
    BY <1>6 DEF ApplySystemPlan
  <2> HIDE DEF done
  <2>4. system'.manifest = system.manifest /\ system'.sidecar = system.sidecar
    BY <2>2, <2>3 DEF Systems
  <2> QED BY <2>1, <2>4, EndOnward DEF Onward, SystemOnward
<1> QED BY <1>2, <1>3, <1>4, <1>5, <1>6 DEF ChildStep

LEMMA PublishOnward ==
  ASSUME BaseInv, NEW p \in Procs, PublishStep(p)
  PROVE  Onward(p)
<1> DEFINE candidate == Candidate(job[p].i, job[p].binding)
<1>1. ASSUME pc[p] \in SystemSteps \cup {"publish"},
             End(p) \/ \E step \in SystemSteps : Continue(p, step)
      PROVE  ProcOnward(p)
  BY <1>1, EndOnward, ContinueOnward DEF StepNames, BoundSteps, SystemSteps, FinalSteps
<1>2. /\ system \in Systems /\ system.sidecar \in SystemManifests \cup {None}
      /\ system.manifest \in SystemManifests \cup {None}
  BY DEF BaseInv, TypeInv, Systems
<1> HIDE DEF candidate
<1>3. CASE LockSystem(p)
  <2>1. /\ UNCHANGED <<user, intents, system, disturbed>>
        /\ pc[p] = "publish" /\ Goto(p, "recover", job[p])
    BY <1>3, Zenon DEF LockSystem, files
  <2>2. Moved(p) /\ pc'[p] = "recover" /\ job'[p] = job[p]
    BY <2>1, HandOf, GotoMoves DEF BaseInv, StepNames, BoundSteps, SystemSteps
  <2>3. ProcOnward(p)
    BY <2>1, <2>2 DEF ProcOnward, Emptied, BoundSteps, FinalSteps
  <2> QED BY <2>1, <2>3, QuietOnward
<1>4. CASE Recover(p)
  <2>1. UNCHANGED <<user, intents, disturbed>> /\ pc[p] = "recover"
    BY <1>4, Zenon DEF Recover
  <2>2. \/ /\ system.sidecar # None /\ system' = Finished(system.sidecar) /\ Continue(p, "recover")
        \/ UNCHANGED system /\ (Continue(p, "proof") \/ End(p))
        \/ system' = [system EXCEPT !.sidecar = candidate] /\ Continue(p, "manifest")
    BY <1>4, Zenon DEF Recover, candidate
  <2>3. ProcOnward(p)
    BY <1>1, <2>1, <2>2 DEF SystemSteps
  <2>4. SystemOnward(p)
    <3>1. CASE system.sidecar # None /\ system' = Finished(system.sidecar)
      BY <1>2, <3>1, FinishedIs DEF SystemOnward, BaseInv
    <3>2. CASE UNCHANGED system
      BY <3>2 DEF SystemOnward
    <3>3. CASE system' = [system EXCEPT !.sidecar = candidate]
      <4>1. system'.sidecar = candidate /\ system'.manifest = system.manifest
        BY <1>2, <3>3 DEF Systems
      <4> QED BY <2>1, <4>1 DEF SystemOnward, candidate, BoundSteps, SystemSteps
    <3> QED BY <2>2, <3>1, <3>2, <3>3
  <2> QED BY <2>1, <2>3, <2>4 DEF Onward
<1>5. CASE PublishManifest(p)
  <2>1. UNCHANGED <<user, intents, disturbed>> /\ pc[p] = "manifest"
        /\ Continue(p, "checkpoint") /\ system' = [system EXCEPT !.manifest = system.sidecar]
    BY <1>5, Zenon DEF PublishManifest
  <2>2. system.sidecar # None
    BY <2>1, HandOf, CandidateType, NoneAssumption DEF InHand, BoundSteps, SystemSteps
  <2>3. system'.sidecar = system.sidecar /\ system'.manifest = system.sidecar
    BY <1>2, <2>1 DEF Systems
  <2>4. SystemOnward(p)
    BY <2>2, <2>3 DEF SystemOnward
  <2>5. ProcOnward(p)
    BY <1>1, <2>1 DEF SystemSteps
  <2> QED BY <2>1, <2>4, <2>5 DEF Onward
<1>6. CASE Checkpoint(p)
  <2>1. UNCHANGED <<user, intents, disturbed>> /\ pc[p] = "checkpoint"
        /\ Continue(p, "proof") /\ system' = Finished(system.manifest)
    BY <1>6, Zenon DEF Checkpoint
  <2>2. SystemOnward(p)
    BY <1>2, <2>1, FinishedIs DEF SystemOnward, BaseInv
  <2>3. ProcOnward(p)
    BY <1>1, <2>1 DEF SystemSteps
  <2> QED BY <2>1, <2>2, <2>3 DEF Onward
<1>7. CASE WriteProof(p)
  <2>1. UNCHANGED <<user, intents, system, disturbed>> /\ pc[p] = "proof"
    BY <1>7, Zenon DEF WriteProof
  <2>2. End(p) \/ Continue(p, "proof_publish")
    BY <1>7, Zenon DEF WriteProof, Create
  <2> QED BY <1>1, <2>1, <2>2, QuietOnward DEF SystemSteps
<1>8. CASE PublishProof(p)
  <2>1. UNCHANGED <<user, intents, system, disturbed>> /\ pc[p] = "proof_publish" /\ End(p)
    BY <1>8, Zenon DEF PublishProof, CreateFails
  <2> QED BY <1>1, <2>1, QuietOnward DEF SystemSteps
<1> QED BY <1>3, <1>4, <1>5, <1>6, <1>7, <1>8 DEF PublishStep

LEMMA InspectOnward ==
  ASSUME BaseInv, NEW p \in Procs, InspectUser(p)
  PROVE  Onward(p)
<1> DEFINE j == [job[p] EXCEPT !.source = user.manifest]
<1>1. UNCHANGED <<user, intents, system, disturbed>> /\ pc[p] = "inspect"
  BY Zenon DEF InspectUser, files
<1>2. End(p) \/ Goto(p, "commit", j)
  BY Zenon DEF InspectUser
<1>3. user.manifest \in Manifests \cup {None} /\ job[p] \in Jobs
  BY HandOf DEF BaseInv, TypeInv, Users
<1>4. j \in Jobs /\ j.i = job[p].i /\ j.binding = job[p].binding /\ j.source = user.manifest
  BY <1>3 DEF Jobs
<1> HIDE DEF j
<1>5. CASE Goto(p, "commit", j)
  <2>1. Moved(p) /\ pc'[p] = "commit" /\ job'[p] = j
    BY <1>4, <1>5, GotoMoves DEF BaseInv, StepNames, BoundSteps, FinalSteps
  <2>2. ProcOnward(p)
    BY <1>1, <1>4, <2>1 DEF ProcOnward, Emptied, BoundSteps, FinalSteps
  <2> QED BY <1>1, <2>2, QuietOnward
<1> QED BY <1>1, <1>2, <1>5, EndOnward, QuietOnward

LEMMA EndsOnward ==
  ASSUME BaseInv, NEW p \in Procs, End(p), UNCHANGED <<user, intents, system, disturbed>>
  PROVE  Onward(p)
BY EndOnward, QuietOnward

\* The steps that take up an intent on disk.
TakesUp(p, i) ==
  /\ Moved(p) /\ UNCHANGED <<user, intents, system, disturbed>> /\ intents[i] # None
  /\ pc'[p] \in {"reserve", "publish", "inspect"} /\ job'[p].i = i /\ job'[p].binding = intents[i]
  /\ pc'[p] = "inspect" => system.manifest = Candidate(i, intents[i])

LEMMA StartTakesUp ==
  ASSUME BaseInv, NEW p \in Procs, NEW i \in Intents,
         ReadRequest(p) \/ StartPublication(p, i) \/ StartFinalize(p, i)
  PROVE  \E k \in Intents : TakesUp(p, k)
<1>1. ASSUME NEW k \in Intents, NEW step \in {"reserve", "publish", "inspect"}, NEW j \in Jobs,
             intents[k] # None, j.i = k, j.binding = intents[k], Start(p, step, j),
             UNCHANGED <<user, intents, system, disturbed>>,
             step = "inspect" => system.manifest = Candidate(k, intents[k])
      PROVE  TakesUp(p, k)
  <2>1. Goto(p, step, j) /\ step \in StepNames
    BY <1>1 DEF Start, StepNames, BoundSteps, ChildSteps, FinalSteps
  <2>2. Moved(p) /\ pc'[p] = step /\ job'[p] = j
    BY <2>1, GotoMoves DEF BaseInv
  <2> QED BY <1>1, <2>2 DEF TakesUp
<1>2. CASE ReadRequest(p)
  <2>1. PICK k \in Requested :
          /\ Live(k)
          /\ Start(p, "reserve", [Idle EXCEPT !.i = k, !.binding = intents[k],
                                              !.consume = request # None])
    BY <1>2, Zenon DEF ReadRequest
  <2> DEFINE j == [Idle EXCEPT !.i = k, !.binding = intents[k], !.consume = request # None]
  <2>2. k \in Intents /\ intents[k] # None
    BY <2>1 DEF Requested, OnDisk, Live, BaseInv, TypeInv
  <2>3. intents[k] \in Bindings
    BY <2>2 DEF BaseInv, TypeInv
  <2>4. j \in Jobs /\ j.i = k /\ j.binding = intents[k]
    BY <2>2, <2>3 DEF Jobs, Idle
  <2>5. UNCHANGED <<user, intents, system, disturbed>>
    BY <1>2, Zenon DEF ReadRequest, files
  <2>6. Start(p, "reserve", j)
    BY <2>1
  <2> HIDE DEF j
  <2> QED BY <1>1, <2>2, <2>4, <2>5, <2>6
<1>3. CASE StartPublication(p, i)
  <2> DEFINE j == [Idle EXCEPT !.i = i, !.binding = intents[i]]
  <2>1. Live(i) /\ Start(p, "publish", j) /\ UNCHANGED <<user, intents, system, disturbed>>
    BY <1>3, Zenon DEF StartPublication, files
  <2>2. intents[i] # None /\ intents[i] \in Bindings
    BY <2>1 DEF Live, BaseInv, TypeInv
  <2>3. j \in Jobs /\ j.i = i /\ j.binding = intents[i]
    BY <2>2 DEF Jobs, Idle
  <2> HIDE DEF j
  <2> QED BY <1>1, <2>1, <2>2, <2>3
<1>4. CASE StartFinalize(p, i)
  <2> DEFINE j == [Idle EXCEPT !.i = i, !.binding = intents[i], !.proof = proofs[i]]
  <2>1. /\ intents[i] # None /\ SystemProven(i) /\ Start(p, "inspect", j)
        /\ UNCHANGED <<user, intents, system, disturbed>>
    BY <1>4, Zenon DEF StartFinalize, files
  <2>2. intents[i] \in Bindings /\ system.manifest = Candidate(i, intents[i])
    BY <2>1 DEF SystemProven, BaseInv, TypeInv
  <2>3. proofs[i] \in Proofs
    BY <2>1, <2>2 DEF SystemProven, Proofs, BaseInv, TypeInv, Systems
  <2>4. j \in Jobs /\ j.i = i /\ j.binding = intents[i]
    BY <2>2, <2>3 DEF Jobs, Idle
  <2> HIDE DEF j
  <2> QED BY <1>1, <2>1, <2>2, <2>4
<1> QED BY <1>2, <1>3, <1>4

Still == UNCHANGED <<user, intents, system, pc, job, disturbed>>

\* Every step but those of the user's side, and the setups.
LEMMA StepCases ==
  ASSUME BaseInv, [Next]_vars
  PROVE  \/ Still
         \/ \E p \in Procs : Onward(p)
         \/ \E p \in Procs, i \in Intents : TakesUp(p, i)
         \/ \E p \in Procs, i \in Intents : Begin(p, i)
         \/ \E p \in Procs : PublishIntent(p) /\ intents' = [intents EXCEPT ![job[p].i] = Binding]
         \/ \E p \in Procs : CommitCheckpoint(p) /\ ~UNCHANGED user
         \/ \E p \in Procs : RetireManifest(p) /\ ~UNCHANGED user
         \/ \E p \in Procs : RemoveIntent(p)
         \/ OrdinarySetup
<1>1. ASSUME NEW p \in Procs, Step(p) \/ ReadRequest(p) \/ Crash(p)
      PROVE  \/ Onward(p) \/ \E i \in Intents : TakesUp(p, i)
             \/ PublishIntent(p) /\ intents' = [intents EXCEPT ![job[p].i] = Binding]
             \/ CommitCheckpoint(p) \/ RetireManifest(p) \/ RemoveIntent(p)
  <2>1. ASSUME WriteIntent(p) PROVE Onward(p)
    <3>1. UNCHANGED <<user, intents, system, disturbed>> /\ pc[p] = "intent"
      BY <2>1, Zenon DEF WriteIntent
    <3>2. End(p) \/ Continue(p, "intent_publish")
      BY <2>1, Zenon DEF WriteIntent, Create
    <3>3. ASSUME Continue(p, "intent_publish") PROVE ProcOnward(p)
      BY <3>3, ContinueOnward
         DEF StepNames, BeginSteps, BoundSteps, ChildSteps, SystemSteps, FinalSteps
    <3> QED BY <3>1, <3>2, <3>3, EndOnward, QuietOnward
  <2>2. ASSUME PublishIntent(p), intents' # [intents EXCEPT ![job[p].i] = Binding] PROVE Onward(p)
    <3>1. UNCHANGED <<user, intents, system, disturbed>> /\ End(p)
      BY <2>2, Zenon DEF PublishIntent
    <3> QED BY <3>1, EndsOnward
  <2>3. ASSUME Crash(p) PROVE Onward(p)
    <3>1. UNCHANGED <<user, intents, system, disturbed>> /\ End(p)
      BY <2>3, Zenon DEF Crash, files
    <3> QED BY <3>1, EndsOnward
  <2>4. ASSUME ReadRequest(p) PROVE \E i \in Intents : TakesUp(p, i)
    <3>1. \E i \in Intents : TRUE
      BY <2>4 DEF ReadRequest, Requested, OnDisk, BaseInv, TypeInv
    <3> QED BY <2>4, <3>1, StartTakesUp
  <2> QED BY <1>1, <2>1, <2>2, <2>3, <2>4, ChildOnward, PublishOnward, InspectOnward
          DEF Step, BeginStep, FinalizeStep
<1>2. ASSUME NEW p \in Procs, NEW i \in Intents, StartPublication(p, i) \/ StartFinalize(p, i)
      PROVE  \E k \in Intents : TakesUp(p, k)
  BY <1>2, StartTakesUp
<1>3. ASSUME NEW p \in Procs, CommitCheckpoint(p), UNCHANGED user PROVE Onward(p)
  <2>1. /\ pc[p] = "commit" /\ UNCHANGED <<intents, system, disturbed>>
        /\ End(p) \/ Goto(p, "retire", job[p])
    BY <1>3, CommitIs
  <2>2. ASSUME Goto(p, "retire", job[p]) PROVE ProcOnward(p)
    <3>1. Moved(p) /\ pc'[p] = "retire" /\ job'[p] = job[p]
      BY <2>2, HandOf, GotoMoves DEF BaseInv, StepNames, BoundSteps, FinalSteps
    <3> QED BY <2>1, <3>1 DEF ProcOnward, Emptied, BoundSteps, FinalSteps
  <2> QED BY <1>3, <2>1, <2>2, EndOnward, QuietOnward
<1>4. ASSUME NEW p \in Procs, RetireManifest(p), UNCHANGED user PROVE Onward(p)
  <2>1. pc[p] = "retire" /\ UNCHANGED <<intents, system, disturbed>>
    BY <1>4, RetireIs
  <2>2. End(p) \/ (Continue(p, "remove") /\ (job[p].source = None \/ user.manifest = None))
    BY <1>4, RetireIs
  <2>3. ASSUME Continue(p, "remove"), job[p].source = None \/ user.manifest = None
        PROVE  ProcOnward(p)
    <3>1. Moved(p) /\ pc'[p] = "remove" /\ job'[p] = job[p]
      BY <2>3, ContinueMoves DEF BaseInv, StepNames, BoundSteps, FinalSteps
    <3> QED BY <2>1, <2>3, <3>1 DEF ProcOnward, Emptied, BoundSteps, FinalSteps
  <2> QED BY <1>4, <2>1, <2>2, <2>3, EndOnward, QuietOnward
<1>5. ASSUME NEW i \in Intents, Request(i) PROVE Still
  BY <1>5, Zenon DEF Request, Still
<1>6. ASSUME UNCHANGED vars PROVE Still
  BY <1>6 DEF vars, files, Still
<1> QED BY <1>1, <1>2, <1>3, <1>4, <1>5, <1>6, Zenon DEF Next

(***************************************************************************)
(* The machine.                                                            *)
(***************************************************************************)
LEMMA OnwardMachine ==
  ASSUME BaseInv, MachineInv, NEW p \in Procs, Onward(p)
  PROVE  MachineInv'
<1>1. Original' = Original /\ UNCHANGED <<user, intents>>
  BY DEF Onward, Original
<1>2. ASSUME Original
      PROVE  \A q \in Procs : pc'[q] \in BoundSteps => job'[q].binding.manifest.id = "machine"
  BY <1>2 DEF MachineInv, Onward, ProcOnward, Moved
<1>3. ASSUME Original, system'.sidecar # None
      PROVE  TakenOver(system'.sidecar)
  <2>1. system.sidecar # None => TakenOver(system.sidecar)
    BY <1>3 DEF MachineInv
  <2>2. ASSUME pc[p] \in BoundSteps PROVE TakenOver(Candidate(job[p].i, job[p].binding))
    <3>1. job[p].binding.manifest.id = "machine" /\ job[p].i \in Intents /\ job[p].binding \in Bindings
      BY <1>3, <2>2, HandOf
         DEF MachineInv, BoundSteps, ChildSteps, SystemSteps, FinalSteps
    <3> QED BY <3>1, CandidateType, NoneAssumption DEF TakenOver, Candidate
  <2> QED BY <1>3, <2>1, <2>2 DEF Onward, SystemOnward
<1>4. ASSUME Original, NEW q \in Procs, pc'[q] \in FinalSteps
      PROVE  TakenOver(system'.manifest)
  <2>1. pc[q] \in FinalSteps
    BY <1>4 DEF Onward, ProcOnward, Moved
  <2>2. TakenOver(system.manifest) /\ (system.sidecar # None => TakenOver(system.sidecar))
    BY <1>4, <2>1 DEF MachineInv
  <2> QED BY <2>2 DEF Onward, SystemOnward
<1> QED BY <1>1, <1>2, <1>3, <1>4 DEF MachineInv

LEMMA TakesUpMachine ==
  ASSUME BaseInv, MachineInv, NEW p \in Procs, NEW i \in Intents, TakesUp(p, i)
  PROVE  MachineInv'
<1>1. Original' = Original /\ UNCHANGED <<user, intents, system>>
  BY DEF TakesUp, Original
<1>2. ASSUME Original
      PROVE  \A q \in Procs : pc'[q] \in BoundSteps => job'[q].binding.manifest.id = "machine"
  BY <1>2 DEF MachineInv, TakesUp, Moved
<1>3. ASSUME Original, NEW q \in Procs, pc'[q] \in FinalSteps
      PROVE  TakenOver(system.manifest)
  <2>1. CASE q # p
    BY <1>3, <2>1 DEF MachineInv, TakesUp, Moved
  <2>2. CASE q = p
    <3>1. system.manifest = Candidate(i, intents[i]) /\ intents[i] \in Bindings
      BY <1>3, <2>2 DEF TakesUp, FinalSteps, BaseInv, TypeInv
    <3>2. intents[i].manifest.id = "machine"
      BY <1>3 DEF MachineInv, TakesUp
    <3> QED BY <3>1, <3>2, CandidateType, NoneAssumption DEF TakenOver, Candidate
  <2> QED BY <2>1, <2>2
<1> QED BY <1>1, <1>2, <1>3 DEF MachineInv

\* A publication in user scope keeps the machine's id, or starts with another.
LEMMA ResultsMachine ==
  ASSUME BaseInv, MachineInv, user' \in UserResults, UNCHANGED <<intents, system>>,
         \A q \in Procs : pc'[q] \in BoundSteps => pc'[q] = pc[q] /\ job'[q] = job[q]
  PROVE  MachineInv'
<1>1. user'.checkpoint = user.checkpoint /\ Original' = Original
  BY UserResultsAre DEF BaseInv, Original
<1>2. ASSUME NEW q \in Procs, pc'[q] \in FinalSteps PROVE pc[q] \in FinalSteps
  BY <1>2 DEF BoundSteps
<1> QED BY <1>1, <1>2 DEF MachineInv

LEMMA BeginIs ==
  ASSUME BaseInv, NEW p \in Procs, NEW i \in Intents, Begin(p, i)
  PROVE  /\ Moved(p) /\ pc'[p] = "intent" /\ UNCHANGED <<intents, system>>
         /\ \/ UNCHANGED <<user, disturbed>>
            \/ /\ user' \in UserResults /\ user'.manifest # None
               /\ disturbed' = (disturbed \/ OnDisk # {} \/ user.checkpoint # None)
<1> DEFINE j == [Idle EXCEPT !.i = i]
<1>1. Goto(p, "intent", j) /\ UNCHANGED <<intents, system>>
  BY Zenon DEF Begin, Start
<1>2. j \in Jobs
  BY DEF Jobs, Idle
<1> HIDE DEF j
<1>3. Moved(p) /\ pc'[p] = "intent"
  BY <1>1, <1>2, GotoMoves DEF BaseInv, StepNames, BeginSteps
<1> QED BY <1>1, <1>3, Zenon DEF Begin

LEMMA UnboundNames == "intent" \notin BoundSteps /\ "idle" \notin BoundSteps
BY DEF BoundSteps, ChildSteps, SystemSteps, FinalSteps

LEMMA PublishIntentIs ==
  ASSUME BaseInv, NEW p \in Procs, PublishIntent(p),
         intents' = [intents EXCEPT ![job[p].i] = Binding]
  PROVE  /\ Moved(p) /\ pc'[p] = "idle" /\ UNCHANGED <<user, system, disturbed>>
         /\ job[p].i \in Intents /\ OnDisk = {} /\ Binding \in Bindings /\ Binding # None
         /\ user.manifest # None
<1>1. pc[p] = "intent_publish" /\ End(p) /\ UNCHANGED <<user, system, disturbed>>
  BY Zenon DEF PublishIntent
<1>2. user.manifest # None /\ OnDisk = {} /\ job[p].i \in Intents
  BY <1>1, HandOf DEF InHand, BeginSteps
<1>3. Binding \in Bindings
  BY <1>2 DEF Binding, Bindings, BaseInv, TypeInv, Users
<1> QED BY <1>1, <1>2, <1>3, EndMoves, NoneAssumption DEF BaseInv

LEMMA StepMachine ==
  ASSUME BaseInv, MachineInv, [Next]_vars
  PROVE  MachineInv'
<1>1. ASSUME NEW p \in Procs, NEW i \in Intents, Begin(p, i) PROVE MachineInv'
  <2>1. \A q \in Procs : pc'[q] \in BoundSteps => pc'[q] = pc[q] /\ job'[q] = job[q]
    BY <1>1, BeginIs, UnboundNames DEF Moved
  <2>2. CASE UNCHANGED user
    <3>1. UNCHANGED <<intents, system>>
      BY <1>1, BeginIs
    <3>2. Original' = Original
      BY <2>2 DEF Original
    <3>3. ASSUME NEW q \in Procs, pc'[q] \in FinalSteps PROVE pc[q] \in FinalSteps
      BY <2>1, <3>3 DEF BoundSteps
    <3> QED BY <2>1, <2>2, <3>1, <3>2, <3>3 DEF MachineInv
  <2> QED BY <1>1, <2>1, <2>2, BeginIs, ResultsMachine
<1>2. ASSUME NEW p \in Procs, PublishIntent(p), intents' = [intents EXCEPT ![job[p].i] = Binding]
      PROVE  MachineInv'
  <2>1. /\ Moved(p) /\ pc'[p] = "idle" /\ UNCHANGED <<user, system>> /\ job[p].i \in Intents
        /\ intents \in [Intents -> Bindings \cup {None}]
    BY <1>2, PublishIntentIs DEF BaseInv, TypeInv
  <2>2. Original' = Original
    BY <2>1 DEF Original
  <2>3. Original => Binding.manifest.id = "machine"
    BY DEF Original, Binding
  <2>4. \A i \in Intents : intents'[i] \in {intents[i], Binding}
    BY <1>2, <2>1
  <2>5. \A q \in Procs : pc'[q] \in BoundSteps => pc'[q] = pc[q] /\ job'[q] = job[q]
    BY <2>1, UnboundNames DEF Moved
  <2>6. ASSUME NEW q \in Procs, pc'[q] \in FinalSteps PROVE pc[q] \in FinalSteps
    BY <2>5, <2>6 DEF BoundSteps
  <2> QED BY <2>1, <2>2, <2>3, <2>4, <2>5, <2>6 DEF MachineInv
<1>3. ASSUME NEW p \in Procs, CommitCheckpoint(p), ~UNCHANGED user PROVE MachineInv'
  <2>1. /\ pc[p] = "commit" /\ UNCHANGED <<intents, system>> /\ CheckpointOf(p) \in Checkpoints
        /\ user.checkpoint \in {None, CheckpointOf(p)} /\ Goto(p, "retire", job[p])
        /\ user'.checkpoint = CheckpointOf(p) /\ user'.manifest = user.manifest
    BY <1>3, CommitIs
  <2>2. Moved(p) /\ pc'[p] = "retire" /\ job'[p] = job[p]
    BY <2>1, HandOf, GotoMoves DEF BaseInv, StepNames, BoundSteps, FinalSteps
  <2>3. Original' = Original
    BY <2>1 DEF Original
  <2>4. user'.checkpoint # None /\ user'.checkpoint.binding.manifest.id = "machine"
    <3>1. user'.checkpoint # None
      BY <2>1, NoneAssumption
    <3>2. CASE user.checkpoint = None
      <4>1. job[p].binding.manifest.id = "machine"
        BY <2>1, <3>2 DEF MachineInv, BoundSteps, FinalSteps
      <4>2. CheckpointOf(p).binding = job[p].binding
        BY DEF CheckpointOf
      <4> QED BY <2>1, <3>1, <4>1, <4>2
    <3>3. CASE user.checkpoint = CheckpointOf(p)
      BY <2>1, <3>1, <3>3 DEF MachineInv
    <3> QED BY <2>1, <3>1, <3>2, <3>3
  <2>5. \A q \in Procs : /\ pc'[q] \in BoundSteps => pc[q] \in BoundSteps /\ job'[q] = job[q]
                         /\ pc'[q] \in FinalSteps => pc[q] \in FinalSteps
    BY <2>1, <2>2 DEF Moved, BoundSteps, FinalSteps
  <2> QED BY <2>1, <2>3, <2>4, <2>5 DEF MachineInv
<1>4. ASSUME NEW p \in Procs, RetireManifest(p), ~UNCHANGED user PROVE MachineInv'
  <2>1. pc[p] = "retire" /\ user'.checkpoint = user.checkpoint /\ user'.manifest = None
    BY <1>4, RetireIs
  <2>2. user.checkpoint = CheckpointOf(p) /\ CheckpointOf(p) \in Checkpoints
    BY <2>1, HandOf DEF InHand, BoundSteps, FinalSteps, CheckpointOf, Checkpoints
  <2> QED BY <2>1, <2>2, NoneAssumption DEF MachineInv, Original
<1>5. ASSUME NEW p \in Procs, RemoveIntent(p) PROVE MachineInv'
  <2>1. /\ pc[p] = "remove" /\ End(p) /\ UNCHANGED <<user, system>>
        /\ intents' \in {intents, [intents EXCEPT ![job[p].i] = None]}
    BY <1>5 DEF RemoveIntent
  <2>2. Moved(p) /\ pc'[p] = "idle" /\ Original' = Original
    BY <2>1, EndMoves DEF BaseInv, Original
  <2>3. \A i \in Intents : intents'[i] \in {intents[i], None}
    BY <2>1 DEF BaseInv, TypeInv
  <2>4. \A q \in Procs : pc'[q] \in BoundSteps => pc'[q] = pc[q] /\ job'[q] = job[q]
    BY <2>2, UnboundNames DEF Moved
  <2>5. ASSUME NEW q \in Procs, pc'[q] \in FinalSteps PROVE pc[q] \in FinalSteps
    BY <2>4, <2>5 DEF BoundSteps
  <2> QED BY <2>1, <2>2, <2>3, <2>4, <2>5 DEF MachineInv
<1>6. ASSUME OrdinarySetup PROVE MachineInv'
  <2>1. UNCHANGED <<pc, job>>
    BY <1>6, Zenon DEF OrdinarySetup
  <2>2. CASE UserSetup
    BY <2>1, <2>2, ResultsMachine, Zenon DEF UserSetup
  <2>3. CASE SystemSetup
    <3>1. UNCHANGED <<user, intents>> /\ Original' = Original
      BY <2>3, Zenon DEF SystemSetup, Original
    <3>2. system'.sidecar = None
      BY <2>3, SystemSetupIs DEF BaseInv
    <3>3. ASSUME Original, NEW q \in Procs, pc[q] \in FinalSteps
          PROVE  TakenOver(system'.manifest)
      <4>1. TakenOver(system.manifest) /\ (system.sidecar # None => TakenOver(system.sidecar))
        BY <3>3 DEF MachineInv
      <4>2. Id(system.manifest) = "machine"
        BY <4>1 DEF TakenOver, Id
      <4> QED BY <2>3, <4>1, <4>2, SystemSetupIs, NoneAssumption DEF TakenOver, BaseInv
    <3> QED BY <2>1, <3>1, <3>2, <3>3 DEF MachineInv
  <2> QED BY <1>6, <2>2, <2>3 DEF OrdinarySetup
<1>7. ASSUME Still PROVE MachineInv'
  BY <1>7 DEF Still, MachineInv, Original
<1> QED BY <1>1, <1>2, <1>3, <1>4, <1>5, <1>6, <1>7, StepCases, OnwardMachine, TakesUpMachine

(***************************************************************************)
(* The user manifest is retired only when the promotion is proven.         *)
(***************************************************************************)
LEMMA InitMachine == Init => MachineInv
<1> SUFFICES ASSUME Init PROVE MachineInv
  OBVIOUS
<1>1. user.checkpoint = None /\ user.manifest = [id |-> "machine", ver |-> 1]
  BY DEF Init
<1>2. user.manifest \in Manifests
  BY <1>1 DEF Manifests, Machines
<1>3. Original
  BY <1>1, <1>2, NoneAssumption DEF Original
<1>4. \A p \in Procs : pc[p] \notin BoundSteps /\ pc[p] \notin FinalSteps
  BY DEF Init, BoundSteps, ChildSteps, SystemSteps, FinalSteps
<1>5. system.sidecar = None /\ \A i \in Intents : intents[i] = None
  BY DEF Init
<1> QED BY <1>1, <1>3, <1>4, <1>5 DEF MachineInv

\* Every step but a retirement keeps the manifest of the user.
LEMMA OnlyRetired ==
  ASSUME BaseInv, [Next]_vars, user.manifest # None, user'.manifest = None
  PROVE  \E p \in Procs : RetireManifest(p)
<1>1. ASSUME user' \in UserResults PROVE user'.manifest # None
  BY <1>1, UserResultsAre DEF BaseInv
<1>2. ~UNCHANGED user
  OBVIOUS
<1>3. ASSUME OrdinarySetup PROVE FALSE
  <2>1. user' \in UserResults \/ UNCHANGED user
    BY <1>3 DEF OrdinarySetup, UserSetup, SystemSetup
  <2> QED BY <1>1, <1>2, <2>1
<1>4. ASSUME NEW p \in Procs, NEW i \in Intents, Begin(p, i) PROVE FALSE
  BY <1>1, <1>2, <1>4, BeginIs
<1>5. ASSUME NEW p \in Procs, CommitCheckpoint(p) PROVE user'.manifest = user.manifest
  BY <1>5, CommitIs
<1>6. ASSUME NEW p \in Procs, RemoveIntent(p) PROVE FALSE
  BY <1>2, <1>6 DEF RemoveIntent
<1>7. ASSUME NEW p \in Procs, PublishIntent(p) PROVE FALSE
  BY <1>2, <1>7 DEF PublishIntent
<1> QED BY <1>2, <1>3, <1>4, <1>5, <1>6, <1>7, StepCases DEF Still, Onward, TakesUp

LEMMA RetiredProven ==
  ASSUME BaseInv, MachineInv, NEW p \in Procs, RetireManifest(p),
         user.manifest # None, user'.manifest = None
  PROVE  LET checkpoint == user.checkpoint
         IN /\ checkpoint # None /\ checkpoint.binding.manifest = user.manifest
            /\ auth[checkpoint.i] = checkpoint.binding /\ proofs[checkpoint.i] = checkpoint.proof
            /\ system.manifest # None /\ system.manifest.id = user.manifest.id
<1>1. pc[p] = "retire" /\ user.manifest = job[p].source
  BY RetireIs
<1>2. /\ user.checkpoint = CheckpointOf(p) /\ job[p].source \in {None, job[p].binding.manifest}
      /\ auth[job[p].i] = job[p].binding /\ proofs[job[p].i] = job[p].proof
      /\ CheckpointOf(p) \in Checkpoints
  BY <1>1, HandOf DEF InHand, FinalSteps, BoundSteps, CheckpointOf, Checkpoints
<1>3. /\ CheckpointOf(p).binding = job[p].binding /\ CheckpointOf(p).i = job[p].i
      /\ CheckpointOf(p).proof = job[p].proof
  BY DEF CheckpointOf
<1>4. user.checkpoint # None /\ user.checkpoint.binding.manifest = user.manifest
  BY <1>1, <1>2, <1>3, NoneAssumption
<1>5. user.manifest.id = "machine"
  BY <1>4 DEF MachineInv
<1>6. TakenOver(system.manifest)
  BY <1>1, <1>5 DEF MachineInv, Original, FinalSteps
<1> QED BY <1>2, <1>3, <1>4, <1>5, <1>6 DEF TakenOver

\* The user manifest goes away only with the checkpoint in the receipt, with the
\* protected authorization and the proof it names in place, as the manifest the intent
\* was made for and with a system manifest of the same machine, whatever processes
\* crash, repeat their calls or set up either scope between the checks.
THEOREM RetirementProven == Spec => RetiredOnlyWhenProven
<1> DEFINE Proven ==
      LET checkpoint == user.checkpoint
      IN /\ checkpoint # None /\ checkpoint.binding.manifest = user.manifest
         /\ auth[checkpoint.i] = checkpoint.binding /\ proofs[checkpoint.i] = checkpoint.proof
         /\ system.manifest # None /\ system.manifest.id = user.manifest.id
<1>1. Init => BaseInv /\ MachineInv
  BY InitBase, InitMachine
<1>2. BaseInv /\ MachineInv /\ [Next]_vars => (BaseInv /\ MachineInv)'
  BY StepBase, StepMachine
<1>3. BaseInv /\ MachineInv /\ [Next]_vars =>
        [user.manifest # None /\ user'.manifest = None => Proven]_vars
  BY OnlyRetired, RetiredProven
<1> QED BY <1>1, <1>2, <1>3, PTL DEF Spec, RetiredOnlyWhenProven

(***************************************************************************)
(* One promotion at a time, as long as nothing else changes its files.     *)
(***************************************************************************)
LEMMA OnDiskKept ==
  ASSUME UNCHANGED intents
  PROVE  OnDisk' = OnDisk
BY DEF OnDisk

LEMMA OnwardOne ==
  ASSUME BaseInv, OneInv, NEW p \in Procs, Onward(p)
  PROVE  OneInv'
<1>1. UNCHANGED <<user, intents>> /\ OnDisk' = OnDisk
  BY OnDiskKept DEF Onward
<1>2. ASSUME NEW q \in Procs, pc'[q] \in BoundSteps
      PROVE  pc[q] \in BoundSteps /\ job'[q].i = job[q].i /\ job'[q].binding = job[q].binding
  BY <1>2 DEF Onward, ProcOnward, Moved
<1>3. ASSUME NEW q \in Procs, pc'[q] \in FinalSteps PROVE pc[q] \in FinalSteps
  BY <1>3 DEF Onward, ProcOnward, Moved
<1>4. ASSUME NEW i \in OnDisk PROVE Bound(i)'
  <2> DEFINE candidate == Candidate(i, intents[i])
  <2>1. Bound(i)
    BY DEF OneInv
  <2>2. Candidate(i, intents[i])' = candidate
    BY <1>1 DEF Candidate
  <2>3. \A q \in Procs : pc'[q] \in BoundSteps => job'[q].i = i /\ job'[q].binding = intents[i]
    BY <1>2, <2>1 DEF Bound
  <2>4. pc[p] \in BoundSteps => Candidate(job[p].i, job[p].binding) = candidate
    BY <2>1 DEF Bound
  <2> HIDE DEF candidate
  <2>5. system.sidecar \in {None, candidate} /\ system.manifest \in {None, candidate}
    BY <2>1 DEF Bound, candidate
  <2>6. system'.sidecar \in {None, candidate} /\ system'.manifest \in {None, candidate}
    BY <2>4, <2>5 DEF Onward, SystemOnward
  <2>7. system.manifest = candidate => system'.manifest = candidate
    BY <2>5 DEF Onward, SystemOnward
  <2>8. /\ user.checkpoint # None => user.checkpoint.i = i /\ system'.manifest = candidate
        /\ \A q \in Procs : pc'[q] \in FinalSteps => system'.manifest = candidate
    BY <1>3, <2>1, <2>7 DEF Bound, candidate
  <2>9. user.manifest = intents[i].manifest \/ (user.manifest = None /\ user.checkpoint # None)
    BY <2>1 DEF Bound
  <2> QED BY <1>1, <2>2, <2>3, <2>6, <2>8, <2>9 DEF Bound
<1>5. ASSUME OnDisk = {} PROVE Unbound'
  <2>1. Unbound
    BY <1>5 DEF OneInv
  <2>2. CASE user.checkpoint = None
    BY <1>1, <1>2, <2>1, <2>2 DEF Unbound, Onward, SystemOnward
  <2>3. CASE user.checkpoint # None
    BY <1>1, <2>1, <2>3 DEF Unbound
  <2> QED BY <2>2, <2>3
<1>6. ASSUME NEW q \in Procs, Emptied(q)' PROVE user.manifest = None
  <2>1. CASE q = p
    BY <1>6, <2>1 DEF OneInv, Onward, ProcOnward
  <2>2. CASE q # p
    BY <1>6, <2>2 DEF OneInv, Onward, ProcOnward, Moved, Emptied
  <2> QED BY <2>1, <2>2
<1> QED BY <1>1, <1>4, <1>5, <1>6 DEF OneInv

LEMMA TakesUpOne ==
  ASSUME BaseInv, OneInv, NEW p \in Procs, NEW k \in Intents, TakesUp(p, k)
  PROVE  OneInv'
<1>1. UNCHANGED <<user, intents, system>> /\ OnDisk' = OnDisk
  BY OnDiskKept DEF TakesUp
<1>2. OnDisk = {k}
  BY DEF OneInv, TakesUp, OnDisk
<1>3. Bound(k)'
  <2>1. Bound(k)
    BY <1>2 DEF OneInv
  <2>2. \A q \in Procs : pc'[q] \in BoundSteps => job'[q].i = k /\ job'[q].binding = intents[k]
    BY <2>1 DEF Bound, TakesUp, Moved
  <2>3. \A q \in Procs : pc'[q] \in FinalSteps => system.manifest = Candidate(k, intents[k])
    BY <2>1 DEF Bound, TakesUp, Moved, FinalSteps
  <2> QED BY <1>1, <2>1, <2>2, <2>3 DEF Bound, Candidate
<1>4. \A q \in Procs : Emptied(q)' => Emptied(q)
  BY DEF TakesUp, Moved, Emptied
<1> QED BY <1>1, <1>2, <1>3, <1>4 DEF OneInv

LEMMA BeginOne ==
  ASSUME BaseInv, OneInv, NEW p \in Procs, NEW i \in Intents, Begin(p, i), ~disturbed, ~disturbed'
  PROVE  OneInv'
<1>1. Moved(p) /\ pc'[p] = "intent" /\ UNCHANGED <<intents, system>> /\ OnDisk' = OnDisk
  BY BeginIs, OnDiskKept
<1>2. /\ \A q \in Procs : /\ pc'[q] \in BoundSteps => pc'[q] = pc[q] /\ job'[q] = job[q]
                          /\ pc'[q] \in FinalSteps => pc[q] \in FinalSteps
      /\ \A q \in Procs : Emptied(q)' => Emptied(q)
  BY <1>1, UnboundNames DEF Moved, FinalSteps, Emptied
<1>3. CASE UNCHANGED user
  <2>1. \A k \in OnDisk : Bound(k)'
    BY <1>1, <1>2, <1>3 DEF OneInv, Bound, Candidate
  <2>2. OnDisk = {} => Unbound'
    BY <1>1, <1>2, <1>3 DEF OneInv, Unbound
  <2> QED BY <1>1, <1>2, <1>3, <2>1, <2>2 DEF OneInv
<1>4. CASE ~UNCHANGED user
  <2>1. user' \in UserResults /\ OnDisk = {} /\ user.checkpoint = None
    BY <1>4, BeginIs
  <2>2. user'.checkpoint = None
    BY <2>1, UserResultsAre DEF BaseInv
  <2>3. Unbound
    BY <2>1 DEF OneInv
  <2>4. Unbound'
    BY <1>1, <1>2, <2>1, <2>2, <2>3 DEF Unbound
  <2>5. \A q \in Procs : ~Emptied(q)'
    BY <1>2, <2>1, <2>3 DEF Unbound, Emptied, BoundSteps, FinalSteps
  <2> QED BY <1>1, <2>1, <2>4, <2>5 DEF OneInv
<1> QED BY <1>3, <1>4

LEMMA PublishIntentOne ==
  ASSUME BaseInv, OneInv, NEW p \in Procs, PublishIntent(p),
         intents' = [intents EXCEPT ![job[p].i] = Binding]
  PROVE  OneInv'
<1>0. PICK i \in Intents : i = job[p].i
  BY PublishIntentIs
<1>1. /\ Moved(p) /\ pc'[p] = "idle" /\ UNCHANGED <<user, system>>
      /\ OnDisk = {} /\ Binding \in Bindings /\ Binding # None
      /\ user.manifest # None
  BY PublishIntentIs
<1>2. Unbound /\ user.checkpoint = None
  BY <1>1 DEF OneInv, Unbound
<1>3. \A q \in Procs : pc'[q] \notin BoundSteps /\ pc'[q] \notin FinalSteps /\ ~Emptied(q)'
  <2>1. \A q \in Procs : pc'[q] \notin BoundSteps
    BY <1>1, <1>2, UnboundNames DEF Unbound, Moved
  <2> QED BY <2>1 DEF BoundSteps, FinalSteps, Emptied
<1>4. intents'[i] = Binding /\ OnDisk' = {i}
  BY <1>0, <1>1 DEF BaseInv, TypeInv, OnDisk
<1>5. Binding.manifest = user.manifest
  BY DEF Binding
<1>6. system'.sidecar = None /\ system'.manifest = None /\ user'.checkpoint = None
  BY <1>1, <1>2 DEF Unbound
<1>7. Bound(i)'
  BY <1>1, <1>3, <1>4, <1>5, <1>6 DEF Bound
<1> QED BY <1>3, <1>4, <1>7 DEF OneInv

LEMMA CommitOne ==
  ASSUME BaseInv, OneInv, NEW p \in Procs, CommitCheckpoint(p), ~UNCHANGED user
  PROVE  OneInv'
<1>1. /\ pc[p] = "commit" /\ UNCHANGED <<intents, system>> /\ CheckpointOf(p) \in Checkpoints
      /\ Goto(p, "retire", job[p])
      /\ user'.checkpoint = CheckpointOf(p) /\ user'.manifest = user.manifest
  BY CommitIs
<1>2. Moved(p) /\ pc'[p] = "retire" /\ job'[p] = job[p] /\ OnDisk' = OnDisk
  BY <1>1, HandOf, GotoMoves, OnDiskKept DEF BaseInv, StepNames, BoundSteps, FinalSteps
<1>3. user'.checkpoint # None /\ user'.checkpoint.i = job[p].i
  BY <1>1, NoneAssumption DEF CheckpointOf
<1>4. \A q \in Procs : /\ pc'[q] \in BoundSteps => pc[q] \in BoundSteps /\ job'[q] = job[q]
                       /\ pc'[q] \in FinalSteps => pc[q] \in FinalSteps
                       /\ Emptied(q)' => Emptied(q)
  BY <1>1, <1>2 DEF Moved, BoundSteps, FinalSteps, Emptied
<1>5. ASSUME NEW i \in OnDisk PROVE Bound(i)'
  <2>1. Bound(i)
    BY DEF OneInv
  <2>2. job[p].i = i /\ system.manifest = Candidate(i, intents[i])
    BY <1>1, <2>1 DEF Bound, BoundSteps, FinalSteps
  <2>3. user'.manifest = intents[i].manifest \/ user'.manifest = None
    BY <1>1, <2>1 DEF Bound
  <2> QED BY <1>1, <1>3, <1>4, <2>1, <2>2, <2>3 DEF Bound, Candidate
<1>6. ASSUME OnDisk = {} PROVE Unbound'
  <2>1. Unbound /\ user.checkpoint # None
    BY <1>1, <1>6 DEF OneInv, Unbound, BoundSteps, FinalSteps
  <2> QED BY <1>1, <1>3, <2>1 DEF Unbound
<1> QED BY <1>1, <1>2, <1>4, <1>5, <1>6 DEF OneInv

LEMMA RetireOne ==
  ASSUME BaseInv, OneInv, NEW p \in Procs, RetireManifest(p), ~UNCHANGED user
  PROVE  OneInv'
<1>1. /\ pc[p] = "retire" /\ UNCHANGED <<intents, system>> /\ Continue(p, "remove")
      /\ user'.checkpoint = user.checkpoint /\ user'.manifest = None
  BY RetireIs
<1>2. Moved(p) /\ pc'[p] = "remove" /\ job'[p] = job[p] /\ OnDisk' = OnDisk
  BY <1>1, ContinueMoves, OnDiskKept DEF BaseInv, StepNames, BoundSteps, FinalSteps
<1>3. user.checkpoint # None
  <2>1. user.checkpoint = CheckpointOf(p) /\ CheckpointOf(p) \in Checkpoints
    BY <1>1, HandOf DEF InHand, FinalSteps, BoundSteps, CheckpointOf, Checkpoints
  <2> QED BY <2>1, NoneAssumption
<1>4. \A q \in Procs : /\ pc'[q] \in BoundSteps => pc[q] \in BoundSteps /\ job'[q] = job[q]
                       /\ pc'[q] \in FinalSteps => pc[q] \in FinalSteps
  BY <1>1, <1>2 DEF Moved, BoundSteps, FinalSteps
<1>5. ASSUME NEW i \in OnDisk PROVE Bound(i)'
  <2>1. Bound(i)
    BY DEF OneInv
  <2> QED BY <1>1, <1>3, <1>4, <2>1 DEF Bound, Candidate
<1>6. Unbound'
  BY <1>1, <1>3 DEF Unbound
<1> QED BY <1>1, <1>2, <1>5, <1>6 DEF OneInv

LEMMA RemoveOne ==
  ASSUME BaseInv, OneInv, NEW p \in Procs, RemoveIntent(p)
  PROVE  OneInv'
<1>1. /\ pc[p] = "remove" /\ End(p) /\ UNCHANGED <<user, system>>
      /\ intents' = IF intents[job[p].i] = job[p].binding THEN [intents EXCEPT ![job[p].i] = None]
                    ELSE intents
  BY Zenon DEF RemoveIntent
<1>2. user.manifest = None
  BY <1>1 DEF OneInv, Emptied
<1>3. user.checkpoint # None /\ job[p].i \in Intents
  <2>1. user.checkpoint = CheckpointOf(p) /\ CheckpointOf(p) \in Checkpoints /\ job[p].i \in Intents
    BY <1>1, HandOf DEF InHand, FinalSteps, BoundSteps, CheckpointOf, Checkpoints
  <2> QED BY <2>1, NoneAssumption
<1>4. OnDisk' = {}
  <2>1. ASSUME NEW i \in OnDisk PROVE OnDisk = {job[p].i} /\ intents[job[p].i] = job[p].binding
    BY <1>1 DEF OneInv, Bound, BoundSteps, FinalSteps
  <2> QED BY <1>1, <1>3, <2>1 DEF OnDisk, BaseInv, TypeInv
<1>5. Unbound'
  BY <1>1, <1>2, <1>3 DEF Unbound
<1> QED BY <1>1, <1>2, <1>4, <1>5 DEF OneInv

LEMMA StepUndisturbed ==
  ASSUME BaseInv, UndisturbedInv, [Next]_vars
  PROVE  UndisturbedInv'
<1> SUFFICES ASSUME ~disturbed' PROVE OneInv'
  BY DEF UndisturbedInv
<1>1. ASSUME OrdinarySetup PROVE FALSE
  BY <1>1 DEF OrdinarySetup
<1>2. ~disturbed
  <2>1. ASSUME NEW p \in Procs, NEW i \in Intents, Begin(p, i) PROVE ~disturbed
    BY <2>1, BeginIs DEF BaseInv, TypeInv
  <2>2. ASSUME NEW p \in Procs,
               PublishIntent(p) \/ CommitCheckpoint(p) \/ RetireManifest(p) \/ RemoveIntent(p)
        PROVE  UNCHANGED disturbed
    BY <2>2, Zenon DEF PublishIntent, CommitCheckpoint, RetireManifest, RemoveIntent
  <2> QED BY <1>1, <2>1, <2>2, StepCases DEF Still, Onward, TakesUp
<1>3. OneInv
  BY <1>2 DEF UndisturbedInv
<1>4. ASSUME Still PROVE OneInv'
  <2>1. UNCHANGED <<user, intents, system, pc, job>> /\ OnDisk' = OnDisk
    BY <1>4, OnDiskKept DEF Still
  <2>2. Unbound' = Unbound
    BY <2>1 DEF Unbound
  <2>3. \A i \in OnDisk : Bound(i)'
    BY <1>3, <2>1 DEF OneInv, Bound, Candidate
  <2> QED BY <1>3, <2>1, <2>2, <2>3 DEF OneInv, Emptied
<1> QED BY <1>1, <1>2, <1>3, <1>4, StepCases, OnwardOne, TakesUpOne, BeginOne, PublishIntentOne,
           CommitOne, RetireOne, RemoveOne

LEMMA InitUndisturbed == Init => UndisturbedInv
<1> SUFFICES ASSUME Init PROVE OneInv
  BY DEF UndisturbedInv
<1>1. OnDisk = {} /\ \A p \in Procs : pc[p] \notin BoundSteps /\ ~Emptied(p)
  BY DEF Init, OnDisk, BoundSteps, ChildSteps, SystemSteps, FinalSteps, Emptied
<1>2. Unbound
  BY <1>1 DEF Init, Unbound
<1> QED BY <1>1, <1>2 DEF OneInv

LEMMA OneThree == ASSUME OneInv, NEW i \in OnDisk
  PROVE  LET binding == intents[i]
             source == user.manifest = binding.manifest
             target == system.manifest = Candidate(i, binding)
             written == user.checkpoint # None /\ user.checkpoint.i = i
         IN \/ source /\ system.manifest = None /\ ~written
            \/ source /\ target
            \/ user.manifest = None /\ target /\ written
<1>1. Bound(i)
  BY DEF OneInv
<1> QED BY <1>1 DEF Bound

\* While nothing but the promotion changes the files its intent binds, every crash
\* leaves one of the three states recovery classifies: nothing published yet, the
\* target published beside the source, or the source retired under a written
\* checkpoint; the intent on disk is that of every process, publication and checkpoint.
THEOREM ThreeRecoveryStates == Spec => []ThreeStates
<1>1. Init => BaseInv /\ UndisturbedInv
  BY InitBase, InitUndisturbed
<1>2. BaseInv /\ UndisturbedInv /\ [Next]_vars => (BaseInv /\ UndisturbedInv)'
  BY StepBase, StepUndisturbed
<1>3. BaseInv /\ UndisturbedInv => ThreeStates
  BY OneThree DEF UndisturbedInv, ThreeStates
<1> QED BY <1>1, <1>2, <1>3, PTL DEF Spec
=============================================================================
