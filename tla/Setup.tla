--------------------------------- MODULE Setup ---------------------------------
(***************************************************************************)
(* `styrn setup` in user scope: any number of setup processes that plan,   *)
(* apply and publish over the same disk (src/src/setup/orchestrator.rs),   *)
(* crash, and meet other changes to the host's resources and the manifest. *)
(***************************************************************************)
EXTENDS ApplyPlan, PendingPublication

(***************************************************************************)
(* prepare_resolved_rootless_setup.  The plan is computed from probes; the *)
(* lock-free read of the receipt that ends the preparation opens the       *)
(* sidecar first and the receipt after it.                                 *)
(***************************************************************************)
PrepareSetup(p) ==
  /\ pc[p] = "idle" /\ nextId <= MaxIds
  /\ \E plan \in Plans :
       LET Planned(item) == [action |-> item.action, param |-> item.param,
                             human |-> item.human,
                             absent |-> item.action \notin Virtual /\ res[item.action] = "absent"]
       IN Goto(p, "snapshot", [IdleJob EXCEPT !.plan = [i \in DOMAIN plan |-> Planned(plan[i])],
                                              !.seen = sidecar])
  /\ UNCHANGED <<disk, res, nextId, budget, made>>

\* What read_snapshot makes of the sidecar it holds and the receipt it reads.
SnapshotOK(seen) == IF receipt = None THEN seen = None ELSE Accepts(receipt, seen)

ReadSnapshot(p) ==
  /\ pc[p] = "snapshot"
  /\ IF SnapshotOK(job[p].seen)
     THEN Goto(p, "begin_apply", [job[p] EXCEPT !.seen = None]) ELSE End(p)
  /\ UNCHANGED <<disk, res, nextId, budget, made>>

(***************************************************************************)
(* After the first apply the ssh probes are repeated: they settle the      *)
(* draft, and may turn the enrollment-card action from pending to done or  *)
(* back, in which case the changed plan is applied once more.  After a     *)
(* re-apply for a stale witness they are not repeated.                     *)
(***************************************************************************)
CardItems(p) == {i \in DOMAIN job[p].plan : job[p].plan[i].action = Card}

FlippedCard(p) ==
  [i \in DOMAIN job[p].plan |->
     IF i \in CardItems(p) THEN [job[p].plan[i] EXCEPT !.human = ~@] ELSE job[p].plan[i]]

ProbeAgain(p) ==
  /\ pc[p] = "applied"
  /\ IF job[p].draft # None
     THEN Goto(p, "begin_publication", job[p])
     ELSE \E draft \in Drafts :
            \/ Goto(p, "begin_publication", [job[p] EXCEPT !.draft = draft])
            \/ /\ CardItems(p) # {}
               /\ Goto(p, "begin_apply", [job[p] EXCEPT !.draft = draft,
                                                        !.plan = FlippedCard(p)])
  /\ UNCHANGED <<disk, res, nextId, budget, made>>

\* A setup process dies between two steps; the system drops its lock.
Crash(p) ==
  /\ pc[p] # "idle" /\ budget.crashes > 0
  /\ budget' = [budget EXCEPT !.crashes = @ - 1]
  /\ End(p)
  /\ UNCHANGED <<disk, res, nextId, made>>

(***************************************************************************)
(* The environment.  Somebody creates, spoils or removes the resource of   *)
(* an action; a directory's provenance marker stays when it is removed.    *)
(* Somebody changes or removes the manifest, under the manifest lock.      *)
(***************************************************************************)
Interfere ==
  /\ budget.interference > 0
  /\ budget' = [budget EXCEPT !.interference = @ - 1]
  /\ \E a \in Actions \ Virtual :
       \E state \in CASE res[a] = "absent" -> {"exact", "foreign"}
                      [] res[a] = "exact" -> {"absent", "foreign"}
                      [] res[a] = "foreign" -> {"absent", "exact"}
                      [] res[a] \in {"evidence", "owned"} -> {"lost"}
                      [] res[a] = "lost" -> {"absent"} :
         res' = [res EXCEPT ![a] = state]
  /\ UNCHANGED <<disk, lock, pc, job, nextId, made>>

EditManifest ==
  /\ budget.edits > 0 /\ manifest # None
  /\ \A p \in Procs : pc[p] \notin ManifestLockedSteps
  /\ budget' = [budget EXCEPT !.edits = @ - 1]
  /\ \/ manifest' = [manifest EXCEPT !.draft = EditedDraft]
     \/ manifest' = None
  /\ UNCHANGED <<receipt, intents, sidecar, res, lock, pc, job, nextId, made>>

Init ==
  /\ receipt = None
  /\ intents = {}
  /\ sidecar = None
  /\ manifest = None
  /\ res = [a \in Actions |-> "absent"]
  /\ lock = None
  /\ pc = [p \in Procs |-> "idle"]
  /\ job = [p \in Procs |-> IdleJob]
  /\ nextId = 1
  /\ budget = [faults |-> MaxFaults, crashes |-> MaxCrashes,
               interference |-> MaxInterference, edits |-> MaxEdits]
  /\ made = {}

\* A step of a setup process that is under way.
SetupStep(p) == ReadSnapshot(p) \/ ApplyNext(p) \/ ProbeAgain(p) \/ PublishNext(p)

Next ==
  \/ \E p \in Procs : PrepareSetup(p) \/ SetupStep(p) \/ Crash(p)
  \/ Interfere
  \/ EditManifest

Spec == Init /\ [][Next]_vars
-------------------------------------------------------------------------------
(***************************************************************************)
(* Properties.                                                             *)
(***************************************************************************)
Manifests == [mid : Nat, draft : Drafts \union {EditedDraft}, pending : Seq(Actions)]
Intents == [phase : {"torn", "prepared", "succeeded"}, entry : Entries]
Sidecars == [pubCount : Nat, prefix : Documents, pub : Publications,
             before : Manifests \union {None}, after : Manifests]
JobItem == [action : Actions, param : Params, human : BOOLEAN, absent : BOOLEAN]
Jobs == [plan : Seq(JobItem), idx : Nat, held : Entries \union {None}, replay : BOOLEAN,
         failing : BOOLEAN, keeping : BOOLEAN, occurrences : Seq(Links),
         witness : Documents \union {None}, draft : Drafts \union {None}, retries : Nat,
         seen : Sidecars \union {None}]
Budgets == [faults : Nat, crashes : Nat, interference : Nat, edits : Nat]

\* None is no manifest and no sidecar either.
ASSUME AbsentAssumption == None \notin Manifests /\ None \notin Sidecars

\* Every variable stays in its type.
TypeOK ==
  /\ receipt \in Documents \union {None}
  /\ intents \subseteq Intents
  /\ sidecar \in Sidecars \union {None}
  /\ manifest \in Manifests \union {None}
  /\ res \in [Actions -> ResourceStates]
  /\ lock \in Procs \union {None}
  /\ pc \in [Procs -> Steps]
  /\ job \in [Procs -> Jobs]
  /\ nextId \in Nat
  /\ budget \in Budgets
  /\ made \subseteq Nat

\* The lock is held by exactly the process that is in a locked section.
LockDiscipline == \A p \in Procs : pc[p] \in LockedSteps <=> lock = p

\* read_locked accepts what is on disk at every instant, so that no sequence of
\* appends, publications, failures and crashes ever shuts the writers out.
JournalAlwaysReadable == LockedReadOK /\ SidecarReadOK

\* The receipt never claims what styrn did not do: an applied entry, and an
\* intent that says succeeded, stand for a mutation performed under their id.
OwnershipIsEarned ==
  /\ \A i \in DOMAIN Document.entries :
       Document.entries[i].status = "applied" => Document.entries[i].id \in made
  /\ \A i \in intents : i.phase = "succeeded" => i.entry.id \in made

\* The receipt never forgets what styrn did: every mutation is recorded in it,
\* or an intent still names it.
NoMutationForgotten ==
  \A id \in made :
    \/ \E i \in DOMAIN Document.entries : Document.entries[i].id = id
    \/ \E i \in intents : i.entry.id = id

\* At most one transaction is unresolved, whoever crashed in what order:
\* pending_intents treats a second file as a conflict nothing resolves.
OneIntent == Cardinality(intents) <= 1

\* A directory with active creation evidence, which every check reports as a
\* conflict, is one an intent on disk answers for.
NoOrphanEvidence ==
  \A a \in Actions : res[a] = "evidence" => \E i \in intents : i.entry.action = a

\* When nobody is at work and no publication is unfinished, the manifest lists
\* the pending actions of the last publication.
ManifestAgrees ==
  lock = None /\ sidecar = None /\ budget.edits = MaxEdits /\ Document.pubs # <<>> =>
    /\ manifest # None
    /\ manifest.pending = [i \in DOMAIN Last(Document.pubs).links |->
                             Last(Document.pubs).links[i].action]

\* The receipt only grows: no step rewrites an entry or a publication.
AppendOnly ==
  [][/\ receipt # None => receipt' # None
     /\ IsPrefix(Document.entries, Document'.entries)
     /\ IsPrefix(Document.pubs, Document'.pubs)]_vars

\* A machine keeps its id as long as its manifest is there.
MachineIdStable ==
  [][manifest # None /\ manifest' # None => manifest'.mid = manifest.mid]_vars

\* While a publication is unfinished only its own candidate is written, and
\* only over the manifest it started from: any third content stays.
ThirdManifestStays ==
  [][sidecar # None /\ manifest' # manifest /\ budget'.edits = budget.edits =>
       /\ manifest = sidecar.before
       /\ manifest' = sidecar.after]_vars

-------------------------------------------------------------------------------
(***************************************************************************)
(* The receipt and the sidecar implement the effective ledger.  A          *)
(* publication takes place when its sidecar gets its final name; the       *)
(* checkpoint that puts it in the receipt, in the same run or in another's *)
(* recovery, changes nothing.                                              *)
(***************************************************************************)
EffectiveNow == Effective(Document, sidecar)

\* What the process holds to publish against, until it has published.
Viewed(p) ==
  IF pc[p] \in {"applied", "begin_publication", "recover", "recover_checkpoint",
               "recover_remove", "prepare_publication"}
  THEN [entries |-> job[p].witness.entries, epoch |-> Len(job[p].witness.pubs)]
  ELSE None

Ledger == INSTANCE EffectiveLedger WITH
  entries <- EffectiveNow.entries,
  covered <- IF EffectiveNow.pubs = <<>> THEN 0 ELSE Last(EffectiveNow.pubs).count,
  current <- IF EffectiveNow.pubs = <<>> THEN {} ELSE ToSet(Last(EffectiveNow.pubs).links),
  epoch <- Len(EffectiveNow.pubs),
  view <- [p \in Procs |-> Viewed(p)]

\* Every step of setup, crashes and failures included, is a step of the ledger:
\* no publication closes over an entry or a publication its process had not seen.
ImplementsLedger == Ledger!Spec

-------------------------------------------------------------------------------
(***************************************************************************)
(* Liveness.  A process under way is scheduled, and one that waits for the *)
(* lock gets it if it is free again and again.  Nobody is obliged to start *)
(* setup, to interfere or to crash.                                        *)
(***************************************************************************)
Fairness ==
  \A p \in Procs : WF_vars(SetupStep(p)) /\ SF_vars(BeginApply(p)) /\ SF_vars(BeginPublication(p))

FairSpec == Spec /\ Fairness

\* The documented fix path: whoever is left with a failed setup runs it again.
RerunSpec == FairSpec /\ \A p \in Procs : WF_vars(PrepareSetup(p))

\* Every setup ends: no run waits for ever or retries for ever.
RunsEnd == \A p \in Procs : pc[p] # "idle" ~> pc[p] = "idle"

\* What the journal leaves to a human: a torn intent, a mutation that may or may
\* not be styrn's, and a journalled directory that is gone.
NeedsReconciliation ==
  \E i \in intents :
    \/ i.phase = "torn"
    \/ i.phase = "prepared" /\ res[i.entry.action] # "absent"
    \/ /\ i.phase = "succeeded" /\ i.entry.action \in Directories
       /\ res[i.entry.action] \notin {"evidence", "owned"}

\* Running setup again converges once failures stop: no intent, no unfinished
\* publication and a manifest remain, unless a human is needed.
RerunsConverge ==
  <>[](NeedsReconciliation \/ (intents = {} /\ sidecar = None /\ manifest # None))

\* Design, durable pending-publication protocol: a publication a crash or an
\* error interrupted is finished by the next setup.
PublicationResumes == sidecar # None ~> (sidecar = None \/ NeedsReconciliation)

\* "Returns a lock-free, complete old-or-new snapshot": a reader that has opened
\* the sidecar accepts the receipt it reads next.
SnapshotNeverSpurious ==
  \A p \in Procs : pc[p] = "snapshot" /\ receipt # None => SnapshotOK(job[p].seen)

=============================================================================
