------------------------------- MODULE Promotion -------------------------------
(***************************************************************************)
(* The promotion of an installation from user to system scope              *)
(* (src/src/setup/promotion.rs and the privileged request of               *)
(* setup/action/authorization): an intent in the user's directory, a       *)
(* request the privileged child turns into a protected authorization, the  *)
(* protected system manifest with its proof, a checkpoint in the user's    *)
(* receipt, and the retirement of user manifest and intent.                *)
(*                                                                         *)
(* The functions are called in any order by any process, restarted after   *)
(* any failure, beside ordinary setups of either scope.  A file is what    *)
(* its digest and identity bind: it changes with every write.              *)
(***************************************************************************)
EXTENDS Naturals, FiniteSets

CONSTANTS None, Procs, Intents, \* intent ids, each with its request id
          MaxSetups,            \* bound on ordinary setups and repeated begins
          MaxCrashes

ASSUME BoundsAssumption == MaxSetups \in Nat /\ MaxCrashes \in Nat

VARIABLES user,    \* the user's receipt and manifest
          intents, \* .receipt.json.scope-promotion.<id>.json, or None
          request, \* the authorization request: None or the intent it is for
          auth,    \* protected authorization records, what they bind
          system,  \* the system receipt, its sidecar and the system manifest
          proofs,  \* .receipt.json.scope-promotion.<id>.completed
          tmp,     \* temporaries <<kind, id>> of intents, records and proofs
          locks,   \* owners of the two receipt locks
          pc, job,
          budget,  \* what may still happen: setups and crashes
          disturbed \* history: something else changed what an intent binds

files == <<user, intents, request, auth, system, proofs, tmp>>
vars == <<files, locks, pc, job, budget, disturbed>>

Idle == [i |-> None, binding |-> None, consume |-> FALSE, proof |-> None, source |-> None]

Drop(p) == [scope \in {"user", "system"} |-> IF locks[scope] = p THEN None ELSE locks[scope]]

Goto(p, step, j) == pc' = [pc EXCEPT ![p] = step] /\ job' = [job EXCEPT ![p] = j]
End(p) == Goto(p, "idle", Idle) /\ locks' = Drop(p)
Continue(p, step) == Goto(p, step, job[p]) /\ UNCHANGED locks
Start(p, step, j) == pc[p] = "idle" /\ Goto(p, step, j)
Take(p, scope) == locks[scope] = None /\ locks' = [locks EXCEPT ![scope] = p]

OnDisk == {i \in Intents : intents[i] # None}

\* The temporary of a publication without replacing is created exclusively.
Create(p, kind, step) ==
  IF <<kind, job[p].i>> \in tmp THEN End(p) /\ UNCHANGED tmp
  ELSE tmp' = tmp \cup {<<kind, job[p].i>>} /\ Continue(p, step)

Published(p, kind) == tmp' = tmp \ {<<kind, job[p].i>>}

\* What goes wrong is bounded: crashes and failed writes together.
Mishap == budget.crashes > 0 /\ budget' = [budget EXCEPT !.crashes = @ - 1]

\* A write that fails removes its temporary.
CreateFails(p, kind) == Mishap /\ End(p) /\ Published(p, kind)

(***************************************************************************)
(* publish_manifest_and_begin_scope_promotion, under the user's receipt    *)
(* lock: an ordinary publication, then the intent.                         *)
(***************************************************************************)
\* What a setup in user scope may do: append to the receipt, publish, or both; a
\* host without a manifest gets a machine id of its own.
Id(manifest) == IF manifest = None THEN "other" ELSE manifest.id

SetUp(gen, count, ver) ==
  [user EXCEPT !.gen = @ + gen, !.count = @ + count,
               !.manifest = IF ver = 0 THEN @
                            ELSE [id |-> Id(@), ver |-> user.writes + 1],
               !.writes = @ + ver]

UserResults ==
  {SetUp(0, 0, 1), SetUp(1, 0, 0), SetUp(1, 1, 0), SetUp(1, 1, 1)}

Begin(p, i) ==
  /\ Start(p, "intent", [Idle EXCEPT !.i = i]) /\ Take(p, "user")
  /\ \/ user.manifest # None /\ UNCHANGED <<user, budget, disturbed>>
     \/ /\ budget.setups > 0 /\ budget' = [budget EXCEPT !.setups = @ - 1]
        /\ user' \in UserResults /\ user'.manifest # None
        /\ disturbed' = (disturbed \/ OnDisk # {} \/ user.checkpoint # None)
  /\ UNCHANGED <<intents, request, auth, system, proofs, tmp>>

Binding == [gen |-> user.gen, count |-> user.count, manifest |-> user.manifest]

\* An intent that is there already is that of this call, or a conflict.
WriteIntent(p) ==
  /\ pc[p] = "intent"
  /\ IF OnDisk # {} THEN End(p) /\ UNCHANGED tmp ELSE Create(p, "intent", "intent_publish")
  /\ UNCHANGED <<user, intents, request, auth, system, proofs, budget, disturbed>>

\* An error here leaves the temporary where it is.
PublishIntent(p) ==
  /\ pc[p] = "intent_publish" /\ End(p)
  /\ \/ /\ intents' = [intents EXCEPT ![job[p].i] = Binding] /\ Published(p, "intent")
        /\ UNCHANGED budget
     \/ Mishap /\ UNCHANGED <<intents, tmp>>
  /\ UNCHANGED <<user, request, auth, system, proofs, disturbed>>

(***************************************************************************)
(* The request and the privileged child.                                   *)
(***************************************************************************)
\* validate_live_user_binding: the receipt is the one the intent was made for.
Live(i) == intents[i] # None /\ intents[i].gen = user.gen /\ intents[i].count = user.count

Request(i) ==
  /\ request = None /\ Live(i) /\ request' = i
  /\ UNCHANGED <<user, intents, auth, system, proofs, tmp, locks, pc, job, budget, disturbed>>

\* Without a request the one intent on disk is taken up again.
Requested == IF request # None THEN {request} ELSE IF Cardinality(OnDisk) = 1 THEN OnDisk ELSE {}

ReadRequest(p) ==
  /\ \E i \in Requested :
       /\ Live(i)
       /\ Start(p, "reserve", [Idle EXCEPT !.i = i, !.binding = intents[i],
                                           !.consume = request # None])
  /\ UNCHANGED <<files, locks, budget, disturbed>>

\* reserve_scope_promotion_authorization.
Reserve(p) ==
  /\ pc[p] = "reserve"
  /\ LET i == job[p].i
     IN IF proofs[i] # None \/ auth[i] \notin {None, job[p].binding} THEN End(p)
        ELSE Continue(p, IF auth[i] = None THEN "record" ELSE "consume")
  /\ UNCHANGED <<files, budget, disturbed>>

CreateRecord(p) ==
  /\ pc[p] = "record" /\ Create(p, "record", "record_publish")
  /\ UNCHANGED <<user, intents, request, auth, system, proofs, budget, disturbed>>

\* Another child was faster: its record serves if it binds the same.
PublishRecord(p) ==
  /\ pc[p] = "record_publish"
  /\ LET i == job[p].i
     IN \/ CreateFails(p, "record") /\ UNCHANGED auth
        \/ /\ auth[i] = None /\ UNCHANGED budget /\ auth' = [auth EXCEPT ![i] = job[p].binding]
           /\ Published(p, "record") /\ Continue(p, "consume")
        \/ /\ auth[i] # None /\ Published(p, "record") /\ UNCHANGED <<auth, budget>>
           /\ IF proofs[i] = None /\ auth[i] = job[p].binding THEN Continue(p, "consume") ELSE End(p)
  /\ UNCHANGED <<user, intents, request, system, proofs, disturbed>>

ConsumeRequest(p) ==
  /\ pc[p] = "consume"
  /\ IF ~job[p].consume THEN Continue(p, "apply") /\ UNCHANGED request
     ELSE IF request = job[p].i THEN Continue(p, "apply") /\ request' = None
     ELSE End(p) /\ UNCHANGED request
  /\ UNCHANGED <<user, intents, auth, system, proofs, tmp, budget, disturbed>>

\* The system plan, in one step: its journal is modelled by ApplyPlan.
ApplySystemPlan(p) ==
  /\ pc[p] = "apply" /\ locks["system"] = None /\ End(p)
  /\ system' = IF system.done THEN system ELSE [system EXCEPT !.done = TRUE, !.gen = @ + 1]
  /\ UNCHANGED <<user, intents, request, auth, proofs, tmp, budget, disturbed>>

(***************************************************************************)
(* publish_scope_promotion_system_manifest.                                *)
(***************************************************************************)
Candidate(i, binding) == [id |-> binding.manifest.id, of |-> i]

StartPublication(p, i) ==
  /\ Live(i) /\ auth[i] = intents[i] /\ system.done
  /\ Start(p, "publish", [Idle EXCEPT !.i = i, !.binding = intents[i]])
  /\ UNCHANGED <<files, locks, budget, disturbed>>

LockSystem(p) ==
  /\ pc[p] = "publish" /\ Take(p, "system") /\ Goto(p, "recover", job[p])
  /\ UNCHANGED <<files, budget, disturbed>>

\* The checkpoint of the publication: a new receipt, with the sidecar gone.
Finished(manifest) ==
  [system EXCEPT !.gen = @ + 1, !.empty = TRUE, !.manifest = manifest, !.sidecar = None]

\* recover_pending_publication, then the sidecar of this one or, when it was
\* published before, nothing but the proof.
Recover(p) ==
  /\ pc[p] = "recover"
  /\ LET candidate == Candidate(job[p].i, job[p].binding)
     IN \/ system.sidecar # None /\ system' = Finished(system.sidecar) /\ Continue(p, "recover")
        \/ /\ system.sidecar = None /\ system.empty /\ UNCHANGED system
           /\ IF system.manifest = candidate THEN Continue(p, "proof") ELSE End(p)
        \/ /\ system.sidecar = None /\ ~system.empty
           /\ system' = [system EXCEPT !.sidecar = candidate] /\ Continue(p, "manifest")
  /\ UNCHANGED <<user, intents, request, auth, proofs, tmp, budget, disturbed>>

PublishManifest(p) ==
  /\ pc[p] = "manifest" /\ Continue(p, "checkpoint")
  /\ system' = [system EXCEPT !.manifest = system.sidecar]
  /\ UNCHANGED <<user, intents, request, auth, proofs, tmp, budget, disturbed>>

Checkpoint(p) ==
  /\ pc[p] = "checkpoint" /\ Continue(p, "proof") /\ system' = Finished(system.manifest)
  /\ UNCHANGED <<user, intents, request, auth, proofs, tmp, budget, disturbed>>

\* write_scope_promotion_completion.
Proof(p) == [gen |-> system.gen, manifest |-> system.manifest, binding |-> job[p].binding]

WriteProof(p) ==
  /\ pc[p] = "proof"
  /\ IF proofs[job[p].i] # None THEN End(p) /\ UNCHANGED tmp ELSE Create(p, "proof", "proof_publish")
  /\ UNCHANGED <<user, intents, request, auth, system, proofs, budget, disturbed>>

PublishProof(p) ==
  /\ pc[p] = "proof_publish"
  /\ \/ CreateFails(p, "proof") /\ UNCHANGED proofs
     \/ /\ End(p) /\ Published(p, "proof") /\ proofs' = [proofs EXCEPT ![job[p].i] = Proof(p)]
        /\ UNCHANGED budget
  /\ UNCHANGED <<user, intents, request, auth, system, disturbed>>

(***************************************************************************)
(* finalize_scope_promotion.                                               *)
(***************************************************************************)
\* The system's side, read under its lock, which is dropped again.
SystemProven(i) ==
  /\ auth[i] = intents[i] /\ system.manifest = Candidate(i, intents[i])
  /\ proofs[i] = [gen |-> system.gen, manifest |-> system.manifest, binding |-> intents[i]]

StartFinalize(p, i) ==
  /\ intents[i] # None /\ locks["system"] = None /\ system.sidecar = None /\ SystemProven(i)
  /\ Start(p, "inspect", [Idle EXCEPT !.i = i, !.binding = intents[i], !.proof = proofs[i]])
  /\ UNCHANGED <<files, locks, budget, disturbed>>

CheckpointOf(p) == [i |-> job[p].i, binding |-> job[p].binding, proof |-> job[p].proof]

\* Seeded fault: what is left after the retirement is not recognised.
ClassifiedUnretired(p, source) ==
  /\ user.gen = job[p].binding.gen \/ user.checkpoint = CheckpointOf(p)
  /\ source = job[p].binding.manifest

\* The user's side, read without a lock: classify_recovery_state of what is left.
Classified(p, source) ==
  LET written == user.checkpoint = CheckpointOf(p)
  IN /\ user.gen = job[p].binding.gen \/ written
     /\ source = job[p].binding.manifest \/ (source = None /\ written)

InspectUser(p) ==
  /\ pc[p] = "inspect"
  /\ IF Classified(p, user.manifest)
     THEN Goto(p, "commit", [job[p] EXCEPT !.source = user.manifest]) /\ UNCHANGED locks
     ELSE End(p)
  /\ UNCHANGED <<files, budget, disturbed>>

\* Seeded fault: the user manifest is retired without a durable checkpoint.
CommitNothing(p) ==
  /\ pc[p] = "commit" /\ Take(p, "user") /\ Goto(p, "retire", job[p])
  /\ UNCHANGED <<files, budget, disturbed>>

\* commit_scope_promotion_checkpoint, and the rest under the same lock.
CommitCheckpoint(p) ==
  /\ pc[p] = "commit" /\ locks["user"] = None
  /\ IF user.checkpoint \in {None, CheckpointOf(p)}
     THEN /\ Take(p, "user") /\ Goto(p, "retire", job[p])
          /\ user' = [user EXCEPT !.checkpoint = CheckpointOf(p),
                                  !.gen = IF user.checkpoint = None THEN @ + 1 ELSE @]
     ELSE End(p) /\ UNCHANGED user
  /\ UNCHANGED <<intents, request, auth, system, proofs, tmp, budget, disturbed>>

\* Seeded fault: whatever manifest is there is retired.
AnyManifest(p) == user.manifest # None
SameManifest(p) == user.manifest = job[p].source

RetireManifest(p) ==
  /\ pc[p] = "retire"
  /\ IF job[p].source = None THEN Continue(p, "remove") /\ UNCHANGED user
     ELSE IF SameManifest(p) THEN Continue(p, "remove") /\ user' = [user EXCEPT !.manifest = None]
     ELSE End(p) /\ UNCHANGED user
  /\ UNCHANGED <<intents, request, auth, system, proofs, tmp, budget, disturbed>>

RemoveIntent(p) ==
  /\ pc[p] = "remove" /\ End(p)
  /\ intents' = IF intents[job[p].i] = job[p].binding THEN [intents EXCEPT ![job[p].i] = None]
                ELSE intents
  /\ UNCHANGED <<user, request, auth, system, proofs, tmp, budget, disturbed>>

\* recover_completed_scope_promotion: what it verifies when the intent is gone.
Recovered(i) ==
  /\ intents[i] = None /\ user.manifest = None
  /\ user.checkpoint # None /\ user.checkpoint.i = i
  /\ LET checkpoint == user.checkpoint
     IN /\ auth[i] = checkpoint.binding /\ proofs[i] = checkpoint.proof
        /\ system.manifest = checkpoint.proof.manifest /\ system.gen = checkpoint.proof.gen

(***************************************************************************)
(* Failures, and ordinary setups of the two scopes.                        *)
(***************************************************************************)
Crash(p) ==
  /\ pc[p] # "idle" /\ Mishap /\ End(p)
  /\ UNCHANGED <<files, disturbed>>

UserSetup ==
  /\ budget.setups > 0 /\ locks["user"] = None
  /\ user' \in UserResults
  /\ UNCHANGED <<intents, request, auth, system, proofs, tmp>>

SystemSetup ==
  /\ budget.setups > 0 /\ locks["system"] = None
  /\ \E manifest \in {system.manifest, [id |-> Id(system.manifest), of |-> None]}, empty \in BOOLEAN :
       system' = [Finished(IF system.sidecar = None THEN manifest ELSE system.sidecar)
                    EXCEPT !.empty = empty \/ system.sidecar # None]
  /\ UNCHANGED <<user, intents, request, auth, proofs, tmp>>

OrdinarySetup ==
  /\ UserSetup \/ SystemSetup
  /\ budget' = [budget EXCEPT !.setups = @ - 1] /\ disturbed' = TRUE
  /\ UNCHANGED <<locks, pc, job>>

BeginStep(p) == WriteIntent(p) \/ PublishIntent(p)
ChildStep(p) ==
  Reserve(p) \/ CreateRecord(p) \/ PublishRecord(p) \/ ConsumeRequest(p) \/ ApplySystemPlan(p)
PublishStep(p) ==
  LockSystem(p) \/ Recover(p) \/ PublishManifest(p) \/ Checkpoint(p) \/ WriteProof(p) \/ PublishProof(p)
FinalizeStep(p) ==
  InspectUser(p) \/ CommitCheckpoint(p) \/ RetireManifest(p) \/ RemoveIntent(p)

Step(p) == BeginStep(p) \/ ChildStep(p) \/ PublishStep(p) \/ FinalizeStep(p)

Next ==
  \/ \E p \in Procs : Step(p) \/ ReadRequest(p) \/ Crash(p)
  \/ \E p \in Procs, i \in Intents : Begin(p, i) \/ StartPublication(p, i) \/ StartFinalize(p, i)
  \/ \E i \in Intents : Request(i)
  \/ OrdinarySetup

Init ==
  /\ user = [gen |-> 1, count |-> 1, writes |-> 1, checkpoint |-> None,
             manifest |-> [id |-> "machine", ver |-> 1]]
  /\ intents = [i \in Intents |-> None] /\ request = None
  /\ auth = [i \in Intents |-> None] /\ proofs = [i \in Intents |-> None]
  /\ system = [gen |-> 0, done |-> FALSE, empty |-> FALSE, sidecar |-> None, manifest |-> None]
  /\ tmp = {} /\ locks = [scope \in {"user", "system"} |-> None]
  /\ pc = [p \in Procs |-> "idle"] /\ job = [p \in Procs |-> Idle]
  /\ budget = [setups |-> MaxSetups, crashes |-> MaxCrashes] /\ disturbed = FALSE

Spec == Init /\ [][Next]_vars

\* Whoever promotes calls the functions again and again until it is done.
FairSpec ==
  /\ Spec /\ \A p \in Procs : WF_vars(Step(p))
  /\ SF_vars(\E p \in Procs : ReadRequest(p))
  /\ \A i \in Intents : /\ SF_vars(\E p \in Procs : StartPublication(p, i))
                        /\ SF_vars(\E p \in Procs : StartFinalize(p, i))

(***************************************************************************)
(* The values of the files and of the processes.                           *)
(***************************************************************************)
Machines == {"machine", "other"}
Manifests == [id : Machines, ver : Nat]
Bindings == [gen : Nat, count : Nat, manifest : Manifests]
SystemManifests == [id : Machines, of : Intents \cup {None}]
Proofs == [gen : Nat, manifest : SystemManifests \cup {None}, binding : Bindings]
Checkpoints == [i : Intents, binding : Bindings, proof : Proofs]
Users == [gen : Nat, count : Nat, writes : Nat, checkpoint : Checkpoints \cup {None},
          manifest : Manifests \cup {None}]
Systems == [gen : Nat, done : BOOLEAN, empty : BOOLEAN, sidecar : SystemManifests \cup {None},
            manifest : SystemManifests \cup {None}]
Jobs == [i : Intents \cup {None}, binding : Bindings \cup {None}, consume : BOOLEAN,
         proof : Proofs \cup {None}, source : Manifests \cup {None}]

\* None is no process and no content.
ASSUME NoneAssumption ==
  /\ None \notin Procs /\ None \notin Manifests /\ None \notin SystemManifests
  /\ None \notin Bindings /\ None \notin Proofs /\ None \notin Checkpoints

-----------------------------------------------------------------------------
\* The user manifest goes away only with the checkpoint in the receipt, the protected
\* authorization and the proof it names in place, as the manifest the intent was made
\* for, and with a system manifest of the same machine: across crashes, repeated
\* calls and ordinary setups between the checks, which hold no lock together.
RetiredOnlyWhenProven ==
  [][user.manifest # None /\ user'.manifest = None =>
       LET checkpoint == user.checkpoint
       IN /\ checkpoint # None /\ checkpoint.binding.manifest = user.manifest
          /\ auth[checkpoint.i] = checkpoint.binding /\ proofs[checkpoint.i] = checkpoint.proof
          /\ system.manifest # None /\ system.manifest.id = user.manifest.id]_vars

\* While nothing but the promotion itself changes the files its intent binds, every
\* crash leaves one of the three states classify_recovery_state knows.
ThreeStates ==
  ~disturbed => \A i \in OnDisk :
    LET binding == intents[i]
        source == user.manifest = binding.manifest
        target == system.manifest = Candidate(i, binding)
        written == user.checkpoint # None /\ user.checkpoint.i = i
    IN \/ source /\ system.manifest = None /\ ~written
       \/ source /\ target
       \/ user.manifest = None /\ target /\ written

\* A temporary no process is about to publish: create_new refuses it from then on.
Leftover ==
  \E t \in tmp : \A p \in Procs :
    ~(job[p].i = t[2] /\ pc[p] \in {"intent_publish", "record_publish", "proof_publish"})

\* Called again after every crash and failure, a promotion with an intent on disk is
\* finished and recognised as such, unless an ordinary setup changed what it binds or
\* a crash left a temporary.
PromotionEnds ==
  [](~disturbed /\ ~Leftover) => (OnDisk # {} ~> \E i \in Intents : Recovered(i))
=============================================================================
