---------------------------- MODULE AdoptionProofs ----------------------------
(***************************************************************************)
(* Proofs about Adoption, for any bases, any changes of the accounts and   *)
(* any number of processes: a draft is only ever made for the principal    *)
(* that was looked at, with the scope of the store it is for, and what is  *)
(* published names a worker that was proven since the last validation.     *)
(***************************************************************************)
EXTENDS Adoption, SequenceTheorems, TLAPS

AllTraits == UNION {Traits(os) : os \in Platforms}

IsProcess(p) ==
  p = [operator |-> p.operator, policy |-> p.policy, job |-> p.job, handle |-> p.handle,
       draft |-> p.draft, store |-> p.store, candidate |-> p.candidate]

AdoptionTyped ==
  /\ platform \in Platforms
  /\ accounts \in Seq(SUBSET AllTraits) /\ holder \in 0..Len(accounts)
  /\ IsProcess(process)

\* The draft is what comes of a base for the worker, and is valid.
DraftFor(draft, worker, scope) ==
  /\ IsManifest(draft)
  /\ draft.scope = scope /\ "worker" \in draft.roles /\ draft.os = platform
  /\ draft.identity = WorkerIdentityFor(worker)
  /\ draft.transport.user = worker.name
  /\ draft.root = scope /\ draft.leaves
  /\ Validate(WithMachineId(draft, "v7"))

UserDraft(draft, store) ==
  LET worker == store.principal IN
  /\ worker = Principal(platform, CallerId, worker.name, "current-user")
  /\ store = NewUser(worker)
  /\ DraftFor(draft, worker, "user")
  /\ CurrentUserProjection(platform, worker,
                           ResolveWorkerDirectoryLayout("user", worker, worker)) # None

DedicatedDraft(draft, store) ==
  LET worker == store.principal IN
  /\ worker = Dedicated(worker.id) /\ worker.id \in Nat
  /\ store = NewSystemDedicated(worker)
  /\ DraftFor(draft, worker, "system")
  /\ DedicatedProjection(platform, worker,
                         ResolveWorkerDirectoryLayout("system", worker, None)) # None

Drafted ==
  process.draft # None =>
    \/ process.store.binding = "principal"
    \/ UserDraft(process.draft, process.store)
    \/ DedicatedDraft(process.draft, process.store)

AdoptionIInv == AdoptionTyped /\ Drafted

LEMMA AdoptionInitIInv == AdoptionInit => AdoptionIInv
<1> SUFFICES ASSUME AdoptionInit PROVE AdoptionIInv
  OBVIOUS
<1>1. platform \in Platforms /\ process = NoProcess
  BY DEF AdoptionInit, AccountInit
<1>2. /\ accounts \in {<<>>, <<{}>>} \cup {<<{trait}>> : trait \in Traits(platform)}
      /\ holder = Len(accounts)
  BY DEF AdoptionInit, AccountInit
<1>3. accounts \in Seq(SUBSET AllTraits)
  <2>1. \A trait \in Traits(platform) : {trait} \in SUBSET AllTraits
    BY <1>1 DEF AllTraits
  <2>2. ASSUME NEW trait \in Traits(platform) PROVE <<{trait}>> \in Seq(SUBSET AllTraits)
    BY <2>1
  <2>3. CASE accounts \in {<<>>, <<{}>>}
    <3>1. {} \in SUBSET AllTraits
      OBVIOUS
    <3>2. <<{}>> \in Seq(SUBSET AllTraits)
      BY <3>1
    <3>3. <<>> \in Seq(SUBSET AllTraits)
      OBVIOUS
    <3>4. CASE accounts = <<{}>>
      BY <3>2, <3>4
    <3> QED
      BY <2>3, <3>3, <3>4
  <2>4. CASE accounts \in {<<{trait}>> : trait \in Traits(platform)}
    BY <2>2, <2>4
  <2> QED
    BY <1>2, <2>3, <2>4
<1>4. holder \in 0..Len(accounts)
  BY <1>2, <1>3, LenProperties
<1> QED
  BY <1>1, <1>3, <1>4 DEF NoProcess, IsProcess, AdoptionIInv, AdoptionTyped, Drafted

\* Most steps leave the draft and its store alone, or the process ends.
LEMMA DraftKept ==
  ASSUME AdoptionIInv, UNCHANGED platform,
         accounts' \in Seq(SUBSET AllTraits), holder' \in 0..Len(accounts'),
         IsProcess(process'),
         \/ process'.draft = process.draft /\ process'.store = process.store
         \/ process'.draft = None
         \/ process'.store.binding = "principal"
  PROVE  AdoptionIInv'
<1>1. AdoptionTyped'
  BY DEF AdoptionIInv, AdoptionTyped
<1>2. Drafted'
  <2>1. CASE process'.draft = process.draft /\ process'.store = process.store
    BY <2>1 DEF AdoptionIInv, Drafted, UserDraft, DedicatedDraft, DraftFor, Dedicated
  <2> QED
    BY <2>1 DEF Drafted
<1> QED
  BY <1>1, <1>2 DEF AdoptionIInv

LEMMA WorldTyped ==
  ASSUME AdoptionIInv, AccountStep
  PROVE  AdoptionIInv'
<1>1. UNCHANGED <<platform, process>>
  BY DEF AccountStep, adoptionVars, InspectDedicatedAccount, ReadHome, LookupFails, LookupStep,
         WorldChanges, Changed
<1>2. accounts \in Seq(SUBSET AllTraits) /\ holder \in 0..Len(accounts) /\ platform \in Platforms
  BY DEF AdoptionIInv, AdoptionTyped
<1>3. accounts' \in Seq(SUBSET AllTraits) /\ holder' \in 0..Len(accounts')
  <2>1. CASE InspectDedicatedAccount
    BY <1>2, <2>1 DEF InspectDedicatedAccount, ReadHome, LookupFails, LookupStep, world
  <2>2. CASE ChangeTrait
    <3>1. PICK trait \in Traits(platform) :
            accounts' = [accounts EXCEPT ![holder] =
                           IF trait \in @ THEN @ \ {trait} ELSE @ \cup {trait}]
      BY <2>2 DEF ChangeTrait
    <3>2. holder \in 1..Len(accounts) /\ holder' = holder
      BY <1>2, <2>2, LenProperties DEF ChangeTrait
    <3>3. accounts[holder] \in SUBSET AllTraits /\ trait \in AllTraits
      BY <1>2, <3>1, <3>2, ElementOfSeq DEF AllTraits
    <3> DEFINE lacks == IF trait \in accounts[holder] THEN accounts[holder] \ {trait}
                        ELSE accounts[holder] \cup {trait}
    <3>4. lacks \in SUBSET AllTraits
      BY <3>3
    <3>5. accounts' = [accounts EXCEPT ![holder] = lacks]
      BY <3>1
    <3> HIDE DEF lacks
    <3> QED
      BY <1>2, <3>2, <3>4, <3>5, ExceptSeq
  <2>3. CASE RemoveAccount
    BY <1>2, <2>3, LenProperties DEF RemoveAccount
  <2>4. CASE AddAccount
    <3>1. {} \in SUBSET AllTraits
      OBVIOUS
    <3>2. accounts' \in Seq(SUBSET AllTraits) /\ holder' = Len(accounts')
      BY <1>2, <2>4, <3>1, AppendProperties DEF AddAccount
    <3> QED
      BY <3>2, LenProperties
  <2>5. CASE ChangeHome \/ ChangeRecords
    BY <1>2, <2>5 DEF ChangeHome, ChangeRecords
  <2> QED
    BY <2>1, <2>2, <2>3, <2>4, <2>5 DEF AccountStep, WorldChanges
<1> QED
  BY <1>1, <1>3, DraftKept DEF AdoptionIInv, AdoptionTyped

\* A step of the process that makes no draft.
LEMMA ProcessGoesOn ==
  ASSUME AdoptionIInv, UNCHANGED <<platform, accounts, holder>>,
         \/ UNCHANGED process
         \/ Over
         \/ /\ IsProcess(process')
            /\ process'.draft = process.draft /\ process'.store = process.store
  PROVE  AdoptionIInv'
<1>1. CASE UNCHANGED process
  BY <1>1, DraftKept DEF AdoptionIInv, AdoptionTyped
<1>2. CASE Over
  <2>1. IsProcess(process') /\ process'.draft = None
    BY <1>2 DEF Over, NoProcess, IsProcess
  <2> QED
    BY <2>1, DraftKept DEF AdoptionIInv, AdoptionTyped
<1>3. CASE /\ IsProcess(process')
           /\ process'.draft = process.draft /\ process'.store = process.store
  BY <1>3, DraftKept DEF AdoptionIInv, AdoptionTyped
<1> QED
  BY <1>1, <1>2, <1>3

WaitingStep ==
  \/ SelectDedicatedAccount \/ InspectEstablishedDedicatedAccount \/ DeriveDedicated
  \/ MakeCanonical \/ PrepareDedicatedCandidate \/ RevalidateDedicatedBeforeReplace
  \/ ReverifyForAdoption

LEMMA WaitingSafe == AdoptionIInv /\ WaitingStep => AdoptionIInv'
<1> SUFFICES ASSUME AdoptionIInv, WaitingStep PROVE AdoptionIInv'
  OBVIOUS
<1>1. UNCHANGED <<platform, accounts, holder>>
  BY DEF WaitingStep, SelectDedicatedAccount, InspectEstablishedDedicatedAccount, DeriveDedicated,
         MakeCanonical, PrepareDedicatedCandidate, RevalidateDedicatedBeforeReplace,
         ReverifyForAdoption, Wait, BeginInspection, world
<1>2. \E job \in {"select", "recover", "derive", "canonical", "prepare", "replace", "adopt"} :
        process' = [process EXCEPT !.job = job]
  BY DEF WaitingStep, SelectDedicatedAccount, InspectEstablishedDedicatedAccount, DeriveDedicated,
         MakeCanonical, PrepareDedicatedCandidate, RevalidateDedicatedBeforeReplace,
         ReverifyForAdoption, Wait
<1>3. /\ IsProcess(process')
      /\ process'.draft = process.draft /\ process'.store = process.store
  BY <1>2 DEF AdoptionIInv, AdoptionTyped, IsProcess
<1> QED
  BY <1>1, <1>3, ProcessGoesOn

InspectedStep ==
  \/ SelectDedicatedAccountObservation \/ Adopt \/ EstablishedDedicatedAccountObservation
  \/ ScopePromotionCanonical \/ PromotionCandidate \/ DedicatedRevalidated

LEMMA InspectedSafe == AdoptionIInv /\ InspectedStep => AdoptionIInv'
<1> SUFFICES ASSUME AdoptionIInv, InspectedStep PROVE AdoptionIInv'
  OBVIOUS
<1>1. UNCHANGED <<platform, accounts, holder>>
  BY DEF InspectedStep, SelectDedicatedAccountObservation, Adopt,
         EstablishedDedicatedAccountObservation, ScopePromotionCanonical, PromotionCandidate,
         DedicatedRevalidated, Done, world
<1>2. ASSUME ~ Over
      PROVE  /\ IsProcess(process')
             /\ process'.draft = process.draft /\ process'.store = process.store
  <2> USE <1>2 DEF AdoptionIInv, AdoptionTyped, IsProcess
  <2>1. CASE SelectDedicatedAccountObservation
    BY <2>1 DEF SelectDedicatedAccountObservation
  <2>2. CASE Adopt
    BY <2>2 DEF Adopt
  <2>3. CASE EstablishedDedicatedAccountObservation
    BY <2>3 DEF EstablishedDedicatedAccountObservation
  <2>4. CASE ScopePromotionCanonical
    <3>1. process' = [process EXCEPT !.job = "idle"]
      BY <2>4 DEF ScopePromotionCanonical
    <3> QED
      BY <3>1
  <2>5. CASE PromotionCandidate
    <3>1. \E candidate : process' = [process EXCEPT !.job = "idle", !.candidate = candidate]
      BY <2>5, Zenon DEF PromotionCandidate, Prepared
    <3> QED
      BY <3>1
  <2>6. CASE DedicatedRevalidated
    <3>1. process' = [process EXCEPT !.job = "write"]
      BY <2>6 DEF DedicatedRevalidated
    <3> QED
      BY <3>1
  <2> QED
    BY <2>1, <2>2, <2>3, <2>4, <2>5, <2>6 DEF InspectedStep
<1> QED
  BY <1>1, <1>2, ProcessGoesOn

UserStep ==
  \/ Start \/ ProcessDies \/ RenameCaller \/ PrepareCandidate \/ RevalidateBeforeReplace
  \/ WriteManifest

LEMMA UserStepSafe == AdoptionIInv /\ UserStep => AdoptionIInv'
<1> SUFFICES ASSUME AdoptionIInv, UserStep PROVE AdoptionIInv'
  OBVIOUS
<1>1. UNCHANGED <<platform, accounts, holder>>
  BY DEF UserStep, Start, ProcessDies, RenameCaller, PrepareCandidate, RevalidateBeforeReplace,
         WriteManifest, still, world, Changed
<1>2. ASSUME ~ Over, ~ UNCHANGED process
      PROVE  /\ IsProcess(process')
             /\ process'.draft = process.draft /\ process'.store = process.store
  <2> USE <1>2 DEF AdoptionIInv, AdoptionTyped, IsProcess
  <2>1. CASE Start
    BY <2>1 DEF Start
  <2>2. CASE PrepareCandidate
    <3>1. process' = [process EXCEPT !.job = "idle", !.candidate = CandidateFor(None)]
      BY <2>2, Zenon DEF PrepareCandidate, Prepared
    <3> QED
      BY <3>1
  <2>3. CASE RevalidateBeforeReplace
    <3>1. process' = [process EXCEPT !.job = "write"]
      BY <2>3 DEF RevalidateBeforeReplace
    <3> QED
      BY <3>1
  <2>4. CASE ProcessDies \/ WriteManifest \/ RenameCaller
    BY <2>4 DEF ProcessDies, WriteManifest, RenameCaller
  <2> QED
    BY <2>1, <2>2, <2>3, <2>4 DEF UserStep
<1> QED
  BY <1>1, <1>2, ProcessGoesOn

LEMMA OpenSystemStoreSafe == AdoptionIInv /\ OpenSystemStore => AdoptionIInv'
<1> SUFFICES ASSUME AdoptionIInv, OpenSystemStore PROVE AdoptionIInv'
  OBVIOUS
<1>1. UNCHANGED <<platform, accounts, holder>>
  BY DEF OpenSystemStore, still, world
<1>2. PICK base \in Bases :
        process' = [process EXCEPT !.draft = base, !.store = NewSystem(process.operator)]
  BY DEF OpenSystemStore
<1>3. IsProcess(process') /\ process'.store.binding = "principal"
  BY <1>2 DEF AdoptionIInv, AdoptionTyped, IsProcess, NewSystem
<1> QED
  BY <1>1, <1>3, DraftKept DEF AdoptionIInv, AdoptionTyped

\* What is derived from a base for a worker.
LEMMA CandidateDraft ==
  ASSUME NEW worker, NEW scope, NEW base \in Bases, NEW projection,
         base.transport # None, "worker" \in base.roles,
         projection # None =>
           projection = [scope |-> scope, os |-> platform, principal |-> worker,
                         identity |-> WorkerIdentityFor(worker), user |-> worker.name,
                         root |-> scope],
         Candidate(base, projection) # None
  PROVE  projection # None /\ DraftFor(Candidate(base, projection), worker, scope)
<1>1. PICK draft : draft = FromProjection(base, projection)
  OBVIOUS
<1>2. projection # None /\ Candidate(base, projection) = draft
  BY <1>1 DEF Candidate
<1>3. Validate(WithMachineId(draft, "v7"))
  BY <1>1 DEF Candidate
<1>4. IsManifest(base) /\ base.transport = [user |-> base.transport.user]
  BY AdoptionAssumption DEF IsManifest
<1>5. /\ projection.scope = scope /\ projection.os = platform /\ projection.user = worker.name
      /\ projection.identity = WorkerIdentityFor(worker) /\ projection.root = scope
  BY <1>2
<1>6. /\ IsManifest(draft)
      /\ draft.scope = scope /\ draft.roles = base.roles /\ draft.os = platform
      /\ draft.identity = WorkerIdentityFor(worker) /\ draft.transport = [user |-> worker.name]
      /\ draft.root = scope /\ draft.leaves
  BY <1>1, <1>4, <1>5 DEF FromProjection, IsManifest
<1> QED
  BY <1>2, <1>3, <1>6 DEF DraftFor

LEMMA DeriveCurrentUserSafe == AdoptionIInv /\ DeriveCurrentUser => AdoptionIInv'
<1> SUFFICES ASSUME AdoptionIInv, DeriveCurrentUser PROVE AdoptionIInv'
  OBVIOUS
<1>1. UNCHANGED <<platform, accounts, holder>>
  BY DEF DeriveCurrentUser, still, world
<1>2. CASE Over
  BY <1>1, <1>2, ProcessGoesOn
<1>3. CASE ~ Over
  <2> DEFINE worker == process.operator
             layout == ResolveWorkerDirectoryLayout("user", worker, Current)
             projection == CurrentUserProjection(platform, worker, layout)
  <2>1. PICK base \in Bases :
          /\ CurrentUserBaseFits(base, platform) /\ CurrentNativePrincipal(worker, Current)
          /\ process' = [process EXCEPT !.store = NewUser(worker),
                                        !.draft = CurrentUserCandidate(base, projection)]
          /\ process'.draft # None
    BY <1>3, Zenon DEF DeriveCurrentUser
  <2>2. worker = Current
    BY <2>1 DEF CurrentNativePrincipal
  <2>3. projection # None =>
          projection = [scope |-> "user", os |-> platform, principal |-> worker,
                        identity |-> WorkerIdentityFor(worker), user |-> worker.name,
                        root |-> "user"]
    BY DEF CurrentUserProjection, ResolveWorkerDirectoryLayout
  <2>4. /\ IsProcess(process') /\ process'.store = NewUser(worker)
        /\ process'.draft = Candidate(base, projection)
    BY <2>1 DEF AdoptionIInv, AdoptionTyped, IsProcess, CurrentUserCandidate
  <2>5. base.transport # None /\ "worker" \in base.roles
    BY <2>1 DEF CurrentUserBaseFits, ProjectionBaseFits
  <2>6. Candidate(base, projection) # None
    BY <2>1, <2>4
  <2>7. projection # None /\ DraftFor(process'.draft, worker, "user")
    <3> HIDE DEF projection, worker
    <3> QED
      BY <2>3, <2>4, <2>5, <2>6, CandidateDraft
  <2>8. worker = Principal(platform, CallerId, worker.name, "current-user")
    BY <2>2 DEF Current, Principal
  <2>9. CurrentUserProjection(platform, worker,
                              ResolveWorkerDirectoryLayout("user", worker, worker)) # None
    BY <2>2, <2>7
  <2>10. process'.store.principal = worker
    BY <2>4 DEF NewUser
  <2> HIDE DEF worker, projection
  <2>11. UserDraft(process'.draft, process'.store)
    BY <2>4, <2>7, <2>8, <2>9, <2>10 DEF UserDraft
  <2>12. UserDraft(process.draft, process.store)'
    BY <1>1, <2>11 DEF UserDraft, DraftFor
  <2> QED
    BY <1>1, <2>4, <2>12 DEF AdoptionIInv, AdoptionTyped, Drafted
<1> QED
  BY <1>2, <1>3

LEMMA DedicatedDerivedSafe == AdoptionIInv /\ DedicatedDerived => AdoptionIInv'
<1> SUFFICES ASSUME AdoptionIInv, DedicatedDerived PROVE AdoptionIInv'
  OBVIOUS
<1>1. UNCHANGED <<platform, accounts, holder>>
  BY DEF DedicatedDerived, Done, world
<1>2. CASE Over
  BY <1>1, <1>2, ProcessGoesOn
<1>3. CASE ~ Over
  <2> DEFINE worker == Dedicated(process.handle)
             layout == ResolveWorkerDirectoryLayout("system", worker, None)
             projection == DedicatedProjection(platform, worker, layout)
  <2>1. PICK base \in Bases :
          /\ VerifiedPrincipal(worker) /\ DedicatedBaseFits(base, platform)
          /\ process' = [process EXCEPT !.job = "idle", !.store = NewSystemDedicated(worker),
                                        !.draft = DedicatedCandidate(base, projection)]
          /\ process'.draft # None
    BY <1>3, Zenon DEF DedicatedDerived
  <2>2. worker = Dedicated(worker.id) /\ worker.id \in Nat
    <3>1. worker.id = process.handle /\ worker.policy = "dedicated"
      BY DEF Dedicated, Principal
    <3>2. worker.id = holder
      BY <2>1, <3>1 DEF VerifiedPrincipal
    <3>3. holder \in Nat
      BY LenProperties DEF AdoptionIInv, AdoptionTyped
    <3> QED
      BY <3>1, <3>2, <3>3
  <2>3. projection # None =>
          projection = [scope |-> "system", os |-> platform, principal |-> worker,
                        identity |-> WorkerIdentityFor(worker), user |-> worker.name,
                        root |-> "system"]
    BY DEF DedicatedProjection, ResolveWorkerDirectoryLayout
  <2>4. /\ IsProcess(process') /\ process'.store = NewSystemDedicated(worker)
        /\ process'.draft = Candidate(base, projection)
    BY <2>1 DEF AdoptionIInv, AdoptionTyped, IsProcess, DedicatedCandidate
  <2>5. base.transport # None /\ "worker" \in base.roles
    BY <2>1 DEF DedicatedBaseFits, ProjectionBaseFits
  <2>6. Candidate(base, projection) # None
    BY <2>1, <2>4
  <2>7. projection # None /\ DraftFor(process'.draft, worker, "system")
    <3> HIDE DEF projection, worker
    <3> QED
      BY <2>3, <2>4, <2>5, <2>6, CandidateDraft
  <2>8. process'.store.principal = worker
    BY <2>4 DEF NewSystemDedicated
  <2>9. DedicatedDraft(process'.draft, process'.store)
    BY <2>2, <2>4, <2>7, <2>8 DEF DedicatedDraft
  <2>10. DedicatedDraft(process.draft, process.store)'
    BY <1>1, <2>9 DEF DedicatedDraft, DraftFor, Dedicated
  <2> QED
    BY <1>1, <2>4, <2>10 DEF AdoptionIInv, AdoptionTyped, Drafted
<1> QED
  BY <1>2, <1>3

LEMMA AdoptionNextSafe == AdoptionIInv /\ [AdoptionNext]_allVars => AdoptionIInv'
<1> SUFFICES ASSUME AdoptionIInv, [AdoptionNext]_allVars PROVE AdoptionIInv'
  OBVIOUS
<1>1. CASE AdoptionNext
  BY <1>1, WorldTyped, WaitingSafe, InspectedSafe, UserStepSafe, OpenSystemStoreSafe,
     DeriveCurrentUserSafe, DedicatedDerivedSafe
     DEF AdoptionNext, WaitingStep, InspectedStep, UserStep
<1>2. CASE UNCHANGED allVars
  BY <1>2, ProcessGoesOn DEF allVars, adoptionVars, world
<1> QED
  BY <1>1, <1>2

\* The draft with an id is what its own store takes, and no other store does.
LEMMA UserDraftFits ==
  ASSUME NEW draft, NEW store, UserDraft(draft, store)
  PROVE  LET manifest == WithMachineId(draft, "v7")
         IN  /\ Validate(manifest)
             /\ ManifestBinding(store, manifest, platform, store.principal, store.principal)
             /\ ~ManifestBinding(NewSystem(Current), manifest, platform, Current, Current)
             /\ NewUser(Current) # store =>
                  ~ManifestBinding(NewUser(Current), manifest, platform, Current, Current)
             /\ \A p : ~ManifestBinding(NewSystemDedicated(p), manifest, platform, p, p)
<1> DEFINE worker == store.principal
<1>1. PICK manifest : manifest = WithMachineId(draft, "v7")
  OBVIOUS
<1>2. /\ worker = Principal(platform, CallerId, worker.name, "current-user")
      /\ store = NewUser(worker)
      /\ DraftFor(draft, worker, "user")
      /\ CurrentUserProjection(platform, worker,
                               ResolveWorkerDirectoryLayout("user", worker, worker)) # None
  BY DEF UserDraft
<1>3. /\ Validate(manifest)
      /\ manifest.scope = "user" /\ "worker" \in manifest.roles /\ manifest.os = platform
      /\ manifest.identity = WorkerIdentityFor(worker)
      /\ manifest.transport.user = worker.name
      /\ manifest.root = "user" /\ manifest.leaves
  BY <1>1, <1>2 DEF DraftFor, IsManifest, WithMachineId
<1> HIDE DEF worker
<1>4. manifest.identity # None /\ manifest.transport # None /\ IdentityAgrees(manifest.identity)
  BY <1>3 DEF Validate, WorkerValid
<1>5. CanonicalCurrentUser(manifest, platform, worker, worker)
  <2> DEFINE layout == ResolveWorkerDirectoryLayout("user", worker, worker)
             projection == CurrentUserProjection(platform, worker, layout)
  <2>1. worker.policy = "current-user"
    BY <1>2 DEF Principal
  <2>2. projection = [scope |-> "user", os |-> platform, principal |-> worker,
                      identity |-> WorkerIdentityFor(worker), user |-> worker.name,
                      root |-> "user"]
    BY <1>2, <2>1 DEF CurrentUserProjection, ResolveWorkerDirectoryLayout
  <2>3. MatchesCurrentUser(manifest, projection)
    BY <1>3, <1>4, <2>2 DEF MatchesCurrentUser, SamePaths
  <2> QED
    BY <1>2, <2>1, <2>3 DEF CanonicalCurrentUser, CurrentNativePrincipal
<1>6. ManifestBinding(store, manifest, platform, worker, worker)
  BY <1>2, <1>3, <1>4, <1>5 DEF ManifestBinding, NewUser
<1>7. \A p, q : /\ ~ManifestBinding(NewSystemDedicated(p), manifest, platform, p, p)
               /\ ~ManifestBinding(NewSystem(q), manifest, platform, q, q)
  BY <1>3 DEF ManifestBinding, NewSystemDedicated, NewSystem
<1>8. ASSUME NewUser(Current) # store
      PROVE  ~ManifestBinding(NewUser(Current), manifest, platform, Current, Current)
  <2>1. Current # worker
    BY <1>2, <1>8
  <2>2. WorkerIdentityFor(Current) # WorkerIdentityFor(worker)
    BY <1>2, <2>1 DEF WorkerIdentityFor, Current, Principal
  <2>3. ~CanonicalCurrentUser(manifest, platform, Current, Current)
    <3> DEFINE layout == ResolveWorkerDirectoryLayout("user", Current, Current)
               projection == CurrentUserProjection(platform, Current, layout)
    <3>1. projection # None => projection.identity = WorkerIdentityFor(Current)
      BY DEF CurrentUserProjection
    <3>2. projection # None => ~MatchesCurrentUser(manifest, projection)
      BY <1>3, <2>2, <3>1 DEF MatchesCurrentUser
    <3> QED
      BY <3>2 DEF CanonicalCurrentUser
  <2> QED
    BY <1>3, <2>3 DEF ManifestBinding, NewUser
<1> QED
  BY <1>1, <1>3, <1>6, <1>7, <1>8 DEF worker

LEMMA DedicatedDraftFits ==
  ASSUME NEW draft, NEW store, DedicatedDraft(draft, store), platform \in Platforms
  PROVE  LET manifest == WithMachineId(draft, "v7")
         IN  /\ Validate(manifest)
             /\ ManifestBinding(store, manifest, platform, store.principal, store.principal)
             /\ \A p : ~ManifestBinding(NewUser(p), manifest, platform, p, p)
             /\ ~ManifestBinding(NewSystem(Current), manifest, platform, Current, Current)
             /\ \A id : LET other == NewSystemDedicated(Dedicated(id)) IN
                  other # store =>
                    ~ManifestBinding(other, manifest, platform, Dedicated(id), Dedicated(id))
<1> DEFINE worker == store.principal
<1>1. PICK manifest : manifest = WithMachineId(draft, "v7")
  OBVIOUS
<1>2. /\ worker = Dedicated(worker.id) /\ worker.id \in Nat
      /\ store = NewSystemDedicated(worker)
      /\ DraftFor(draft, worker, "system")
      /\ DedicatedProjection(platform, worker,
                             ResolveWorkerDirectoryLayout("system", worker, None)) # None
  BY DEF DedicatedDraft
<1>3. /\ Validate(manifest)
      /\ manifest.scope = "system" /\ "worker" \in manifest.roles /\ manifest.os = platform
      /\ manifest.identity = WorkerIdentityFor(worker)
      /\ manifest.transport.user = worker.name
      /\ manifest.root = "system" /\ manifest.leaves
  BY <1>1, <1>2 DEF DraftFor, IsManifest, WithMachineId
<1> HIDE DEF worker
<1>4. manifest.identity # None /\ manifest.transport # None /\ IdentityAgrees(manifest.identity)
  BY <1>3 DEF Validate, WorkerValid
<1>5. worker = [kind |-> PrincipalKind(platform), id |-> worker.id, name |-> Selector,
                policy |-> "dedicated"]
  BY <1>2 DEF Dedicated, Principal
<1>6. worker # None
  BY <1>2, <1>5, AdoptionAssumption DEF PrincipalKind
<1>7. PrincipalOf(manifest.identity) = worker /\ manifest.identity.mode = "dedicated"
  BY <1>3, <1>5 DEF PrincipalOf, WorkerIdentityFor
<1>8. CanonicalDedicated(manifest, platform, worker)
  <2> DEFINE layout == ResolveWorkerDirectoryLayout("system", worker, None)
             projection == DedicatedProjection(platform, worker, layout)
  <2>1. projection = [scope |-> "system", os |-> platform, principal |-> worker,
                      identity |-> WorkerIdentityFor(worker), user |-> worker.name,
                      root |-> "system"]
    BY <1>2 DEF DedicatedProjection, ResolveWorkerDirectoryLayout
  <2>2. MatchesDedicated(manifest, projection)
    BY <1>3, <1>4, <1>7, <2>1 DEF MatchesDedicated, SamePaths
  <2> QED
    BY <1>2, <2>2 DEF CanonicalDedicated
<1>9. ManifestBinding(store, manifest, platform, worker, worker)
  BY <1>2, <1>3, <1>4, <1>6, <1>8 DEF ManifestBinding, NewSystemDedicated
<1>10. \A p : ~ManifestBinding(NewUser(p), manifest, platform, p, p)
  BY <1>3 DEF ManifestBinding, NewUser
<1>11. ~ManifestBinding(NewSystem(Current), manifest, platform, Current, Current)
  <2>1. Current.policy # worker.policy
    BY <1>5 DEF Current, Principal
  <2> QED
    BY <1>3, <1>7, <2>1 DEF ManifestBinding, NewSystem
<1>12. ASSUME NEW id, NewSystemDedicated(Dedicated(id)) # store
       PROVE  ~ManifestBinding(NewSystemDedicated(Dedicated(id)), manifest, platform,
                               Dedicated(id), Dedicated(id))
  <2> DEFINE other == Dedicated(id)
  <2>1. other # worker
    BY <1>2, <1>12
  <2> HIDE DEF other
  <2>2. ~CanonicalDedicated(manifest, platform, other)
    <3> DEFINE layout == ResolveWorkerDirectoryLayout("system", other, None)
               projection == DedicatedProjection(platform, other, layout)
    <3>1. projection # None => projection.principal = other
      BY DEF DedicatedProjection
    <3>2. projection # None => ~MatchesDedicated(manifest, projection)
      BY <1>7, <2>1, <3>1 DEF MatchesDedicated
    <3> QED
      BY <3>2 DEF CanonicalDedicated
  <2>3. ~ManifestBinding(NewSystemDedicated(other), manifest, platform, other, other)
    BY <1>3, <2>2 DEF ManifestBinding, NewSystemDedicated
  <2> QED
    BY <2>3 DEF other
<1> QED
  BY <1>1, <1>3, <1>9, <1>10, <1>11, <1>12 DEF worker

LEMMA Fits == AdoptionIInv => DerivedFitsItsStoreOnly
<1> SUFFICES ASSUME AdoptionIInv, process.draft # None, process.store.binding # "principal"
             PROVE  LET store == process.store
                        manifest == WithMachineId(process.draft, "v7")
                        others == {NewUser(Current), NewSystem(Current)}
                          \cup {NewSystemDedicated(Dedicated(id)) : id \in 1..MaxAccounts}
                    IN  /\ Validate(manifest)
                        /\ ManifestBinding(store, manifest, platform, store.principal,
                                           store.principal)
                        /\ \A other \in others \ {store} :
                             ~ManifestBinding(other, manifest, platform, other.principal,
                                              other.principal)
  BY DEF DerivedFitsItsStoreOnly
<1>1. UserDraft(process.draft, process.store) \/ DedicatedDraft(process.draft, process.store)
  BY DEF AdoptionIInv, Drafted
<1>2. \A p : /\ NewUser(p).principal = p /\ NewSystem(p).principal = p
             /\ NewSystemDedicated(p).principal = p
  BY DEF NewUser, NewSystem, NewSystemDedicated
<1>3. CASE UserDraft(process.draft, process.store)
  BY <1>2, <1>3, UserDraftFits
<1>4. CASE DedicatedDraft(process.draft, process.store)
  <2> DEFINE manifest == WithMachineId(process.draft, "v7")
             Takes(other) == ManifestBinding(other, manifest, platform, other.principal,
                                             other.principal)
  <2>1. platform \in Platforms
    BY DEF AdoptionIInv, AdoptionTyped
  <2>2. /\ Validate(manifest) /\ Takes(process.store)
        /\ \A p : ~ManifestBinding(NewUser(p), manifest, platform, p, p)
        /\ ~ManifestBinding(NewSystem(Current), manifest, platform, Current, Current)
        /\ \A id : NewSystemDedicated(Dedicated(id)) # process.store =>
             ~ManifestBinding(NewSystemDedicated(Dedicated(id)), manifest, platform,
                              Dedicated(id), Dedicated(id))
    BY <1>4, <2>1, DedicatedDraftFits
  <2>3. ~Takes(NewUser(Current)) /\ ~Takes(NewSystem(Current))
    BY <1>2, <2>2
  <2>4. ASSUME NEW id, NewSystemDedicated(Dedicated(id)) # process.store
        PROVE  ~Takes(NewSystemDedicated(Dedicated(id)))
    BY <1>2, <2>2, <2>4
  <2> HIDE DEF Takes
  <2>5. \A other \in ({NewUser(Current), NewSystem(Current)}
                         \cup {NewSystemDedicated(Dedicated(id)) : id \in 1..MaxAccounts})
                       \ {process.store} : ~Takes(other)
    BY <2>3, <2>4
  <2> QED
    BY <2>2, <2>5 DEF Takes
<1> QED
  BY <1>1, <1>3, <1>4

(***************************************************************************)
(* For any bases and any number of accounts, changes and processes: what   *)
(* is derived for a worker is valid, its own store takes it, and no store  *)
(* of another scope, of another account or of the other user does.         *)
(***************************************************************************)
THEOREM DerivedFits == AdoptionSpec => []DerivedFitsItsStoreOnly
<1>1. AdoptionInit => AdoptionIInv
  BY AdoptionInitIInv
<1>2. AdoptionIInv /\ [AdoptionNext]_allVars => AdoptionIInv'
  BY AdoptionNextSafe
<1>3. AdoptionIInv => DerivedFitsItsStoreOnly
  BY Fits
<1> QED
  BY <1>1, <1>2, <1>3, PTL DEF AdoptionSpec

----------------------------------------------------------------------------
(* What an inspection has seen. *)

\* The traits that the lookups before this one have read.
ReadSoFar == UNION {Lookups[k].reads : k \in 1..(look.at - 1)}

IsLook(l) ==
  l = [mode |-> l.mode, at |-> l.at, id |-> l.id, lacks |-> l.lacks, dim |-> l.dim,
       answer |-> l.answer]

LookTyped ==
  /\ IsLook(look) /\ look.at \in DOMAIN Lookups /\ look.id \in 0..Len(accounts)
  /\ look.at # 1 \/ look.answer = "healthy" => look.id # 0
  /\ platform = "linux" => records \in Databases

\* What the account meets at this moment has been noticed.
Noticed == Looking => Meets(look.id) \subseteq met

\* As long as nothing is missing, what was read was met when it was read.
SeenAsRead ==
  look.answer = "none" /\ look.id = holder /\ look.lacks = {} /\ ~look.dim
    => ReadSoFar \subseteq met

\* A healthy account that has kept its name has met all that is required.
HealthyHasMet ==
  look.answer = "healthy" /\ look.id = holder =>
    /\ look.id # 0 /\ Required \subseteq met
    /\ look.mode = "initial" => "unused" \in met

LookInv == LookTyped /\ Noticed /\ SeenAsRead /\ HealthyHasMet

\* The lookups of a system, in their order: the name first, the home last, every trait once.
LookupsRead(lookups, traits) ==
  /\ DOMAIN lookups = 1..Len(lookups) /\ Len(lookups) \in {5, 6}
  /\ lookups[Len(lookups)] = Home
  /\ \A k \in 1..(Len(lookups) - 1) : lookups[k] # Home /\ lookups[k].reads \subseteq traits
  /\ traits \subseteq UNION {lookups[k].reads : k \in 1..(Len(lookups) - 1)}
  /\ lookups[1].by = "name" /\ lookups[1].none = "absent" /\ lookups[1].error = "unknowable"
  /\ \A k \in 1..Len(lookups) : {lookups[k].none, lookups[k].error} \cap {"none", "healthy"} = {}

LEMMA LinuxReads == LookupsRead(LinuxLookups, Traits("linux") \cup {"records"})
<1> DEFINE n == LinuxLookups
<1>1. n[1] = LookupWorkerUid /\ n[2] = AccountDetails /\ n[3] = SupplementaryGroups
      /\ n[4] = GroupName /\ n[5] = LocalRecords /\ n[6] = Home /\ Len(n) = 6
      /\ DOMAIN n = 1..6
  BY DEF LinuxLookups
<1>2. /\ LookupWorkerUid.reads = {"ordinary"} /\ AccountDetails.reads = {"named", "home", "shell"}
      /\ SupplementaryGroups.reads = {"groups"} /\ GroupName.reads = {"group"}
      /\ LocalRecords.reads = {"records", "home", "shell", "group"}
      /\ LookupWorkerUid.by = "name" /\ LookupWorkerUid.none = "absent"
      /\ LookupWorkerUid.error = "unknowable"
  BY DEF Lookup, LookupWorkerUid, AccountDetails, SupplementaryGroups, GroupName, LocalRecords
<1>3. Home \notin {LookupWorkerUid, AccountDetails, SupplementaryGroups, GroupName, LocalRecords}
  BY DEF Lookup, LookupWorkerUid, AccountDetails, SupplementaryGroups, GroupName, LocalRecords, Home
<1> HIDE DEF n
<1>4. \A k \in 1..5 : k = 1 \/ k = 2 \/ k = 3 \/ k = 4 \/ k = 5
  OBVIOUS
<1>5. \A k \in 1..5 : n[k] # Home /\ n[k].reads \subseteq Traits("linux") \cup {"records"}
  BY <1>1, <1>2, <1>3, <1>4 DEF Traits
<1>6. Traits("linux") \cup {"records"} \subseteq UNION {n[k].reads : k \in 1..5}
  <2>1. \A k \in 1..5 : n[k].reads \subseteq UNION {n[j].reads : j \in 1..5}
    OBVIOUS
  <2>2. /\ n[1].reads = {"ordinary"} /\ n[2].reads = {"named", "home", "shell"}
        /\ n[3].reads = {"groups"} /\ n[4].reads = {"group"}
        /\ n[5].reads = {"records", "home", "shell", "group"}
    BY <1>1, <1>2
  <2> HIDE DEF n
  <2>3. PICK all : all = UNION {n[j].reads : j \in 1..5}
    OBVIOUS
  <2>4. {"ordinary", "named", "home", "shell", "groups", "group", "records"} \subseteq all
    BY <2>1, <2>2, <2>3
  <2> QED
    BY <2>3, <2>4 DEF Traits
<1>7. \A k \in 1..6 : {n[k].none, n[k].error} \cap {"none", "healthy"} = {}
  <2>1. \A l \in {LookupWorkerUid, AccountDetails, SupplementaryGroups, GroupName, LocalRecords, Home} :
        l.none \notin {"none", "healthy"}
    BY DEF Lookup, LookupWorkerUid, AccountDetails, SupplementaryGroups, GroupName, LocalRecords, Home
  <2>2. \A l \in {LookupWorkerUid, AccountDetails, SupplementaryGroups, GroupName, LocalRecords, Home} :
        l.error \notin {"none", "healthy"}
    BY DEF Lookup, LookupWorkerUid, AccountDetails, SupplementaryGroups, GroupName, LocalRecords, Home
  <2>3. \A k \in 1..6 :
        n[k] \in {LookupWorkerUid, AccountDetails, SupplementaryGroups, GroupName, LocalRecords, Home}
    <3>1. \A k \in 1..6 : k = 1 \/ k = 2 \/ k = 3 \/ k = 4 \/ k = 5 \/ k = 6
      OBVIOUS
    <3> QED
      BY <1>1, <3>1
  <2> QED
    BY <2>1, <2>2, <2>3
<1> QED
  BY <1>1, <1>2, <1>5, <1>6, <1>7 DEF LookupsRead, n

LEMMA MacReads == LookupsRead(MacLookups, Traits("macos"))
<1> DEFINE n == MacLookups
<1>1. n[1] = LocalIdentity /\ n[2] = LocalUid /\ n[3] = MacAccountDetails
      /\ n[4] = MacSupplementaryGroups /\ n[5] = AdminMembership /\ n[6] = Home /\ Len(n) = 6
      /\ DOMAIN n = 1..6
  BY DEF MacLookups
<1>2. /\ LocalIdentity.reads = {"ordinary", "single", "local", "enabled", "visible"}
      /\ LocalUid.reads = {} /\ MacAccountDetails.reads = {"named", "home", "shell"}
      /\ MacSupplementaryGroups.reads = {"groups"} /\ AdminMembership.reads = {"plain"}
      /\ LocalIdentity.by = "name" /\ LocalIdentity.none = "absent"
      /\ LocalIdentity.error = "unknowable"
  BY DEF Lookup, LocalIdentity, LocalUid, AccountDetails, SupplementaryGroups, MacAccountDetails,
         MacSupplementaryGroups, AdminMembership
<1>3. Home \notin {LocalIdentity, LocalUid, MacAccountDetails, MacSupplementaryGroups, AdminMembership}
  BY DEF Lookup, LocalIdentity, LocalUid, AccountDetails, SupplementaryGroups, MacAccountDetails,
         MacSupplementaryGroups, AdminMembership, Home
<1> HIDE DEF n
<1>4. \A k \in 1..5 : k = 1 \/ k = 2 \/ k = 3 \/ k = 4 \/ k = 5
  OBVIOUS
<1>5. \A k \in 1..5 : n[k] # Home /\ n[k].reads \subseteq Traits("macos")
  BY <1>1, <1>2, <1>3, <1>4 DEF Traits
<1>6. Traits("macos") \subseteq UNION {n[k].reads : k \in 1..5}
  <2>1. \A k \in 1..5 : n[k].reads \subseteq UNION {n[j].reads : j \in 1..5}
    OBVIOUS
  <2>2. /\ n[1].reads = {"ordinary", "single", "local", "enabled", "visible"}
        /\ n[3].reads = {"named", "home", "shell"}
        /\ n[4].reads = {"groups"} /\ n[5].reads = {"plain"}
    BY <1>1, <1>2
  <2>3. PICK all : all = UNION {n[j].reads : j \in 1..5}
    OBVIOUS
  <2>4. {"ordinary", "single", "local", "enabled", "visible", "named", "home", "shell", "groups",
         "plain"} \subseteq all
    BY <2>1, <2>2, <2>3
  <2> QED
    BY <2>3, <2>4 DEF Traits
<1>7. \A k \in 1..6 : {n[k].none, n[k].error} \cap {"none", "healthy"} = {}
  <2>1. \A l \in {LocalIdentity, LocalUid, MacAccountDetails, MacSupplementaryGroups,
         AdminMembership, Home} : l.none \notin {"none", "healthy"}
    BY DEF Lookup, LocalIdentity, LocalUid, MacAccountDetails, MacSupplementaryGroups,
           AdminMembership, AccountDetails, SupplementaryGroups, Home
  <2>2. \A l \in {LocalIdentity, LocalUid, MacAccountDetails, MacSupplementaryGroups,
         AdminMembership, Home} : l.error \notin {"none", "healthy"}
    BY DEF Lookup, LocalIdentity, LocalUid, MacAccountDetails, MacSupplementaryGroups,
           AdminMembership, AccountDetails, SupplementaryGroups, Home
  <2>3. \A k \in 1..6 :
        n[k] \in {LocalIdentity, LocalUid, MacAccountDetails, MacSupplementaryGroups, AdminMembership, Home}
    <3>1. \A k \in 1..6 : k = 1 \/ k = 2 \/ k = 3 \/ k = 4 \/ k = 5 \/ k = 6
      OBVIOUS
    <3> QED
      BY <1>1, <3>1
  <2> QED
    BY <2>1, <2>2, <2>3
<1> QED
  BY <1>1, <1>2, <1>5, <1>6, <1>7 DEF LookupsRead, n

LEMMA WindowsReads == LookupsRead(WindowsLookups, Traits("windows"))
<1> DEFINE n == WindowsLookups
<1>1. n[1] = NetUserGetInfo /\ n[2] = LookupAccountSid /\ n[3] = PrincipalForSid
      /\ n[4] = LocalGroups /\ n[5] = Home /\ Len(n) = 5 /\ DOMAIN n = 1..5
  BY DEF WindowsLookups
<1>2. /\ NetUserGetInfo.reads = {"local", "enabled", "unlocked", "profile"}
      /\ LookupAccountSid.reads = {} /\ PrincipalForSid.reads = {"named"}
      /\ LocalGroups.reads = {"plain"}
      /\ NetUserGetInfo.by = "name" /\ NetUserGetInfo.none = "absent"
      /\ NetUserGetInfo.error = "unknowable"
  BY DEF Lookup, NetUserGetInfo, LookupAccountSid, PrincipalForSid, LocalGroups
<1>3. Home \notin {NetUserGetInfo, LookupAccountSid, PrincipalForSid, LocalGroups}
  BY DEF Lookup, NetUserGetInfo, LookupAccountSid, PrincipalForSid, LocalGroups, Home
<1> HIDE DEF n
<1>4. \A k \in 1..4 : k = 1 \/ k = 2 \/ k = 3 \/ k = 4
  OBVIOUS
<1>5. \A k \in 1..4 : n[k] # Home /\ n[k].reads \subseteq Traits("windows")
  BY <1>1, <1>2, <1>3, <1>4 DEF Traits
<1>6. Traits("windows") \subseteq UNION {n[k].reads : k \in 1..4}
  <2>1. \A k \in 1..4 : n[k].reads \subseteq UNION {n[j].reads : j \in 1..4}
    OBVIOUS
  <2>2. /\ n[1].reads = {"local", "enabled", "unlocked", "profile"}
        /\ n[3].reads = {"named"} /\ n[4].reads = {"plain"}
    BY <1>1, <1>2
  <2>3. PICK all : all = UNION {n[j].reads : j \in 1..4}
    OBVIOUS
  <2>4. {"local", "enabled", "unlocked", "profile", "named", "plain"} \subseteq all
    BY <2>1, <2>2, <2>3
  <2> QED
    BY <2>3, <2>4 DEF Traits
<1>7. \A k \in 1..5 : {n[k].none, n[k].error} \cap {"none", "healthy"} = {}
  <2>1. \A l \in {NetUserGetInfo, LookupAccountSid, PrincipalForSid, LocalGroups, Home} :
        l.none \notin {"none", "healthy"}
    BY DEF Lookup, NetUserGetInfo, LookupAccountSid, PrincipalForSid, LocalGroups, Home
  <2>2. \A l \in {NetUserGetInfo, LookupAccountSid, PrincipalForSid, LocalGroups, Home} :
        l.error \notin {"none", "healthy"}
    BY DEF Lookup, NetUserGetInfo, LookupAccountSid, PrincipalForSid, LocalGroups, Home
  <2>3. \A k \in 1..5 : n[k] \in {NetUserGetInfo, LookupAccountSid, PrincipalForSid, LocalGroups, Home}
    <3>1. \A k \in 1..5 : k = 1 \/ k = 2 \/ k = 3 \/ k = 4 \/ k = 5
      OBVIOUS
    <3> QED
      BY <1>1, <3>1
  <2> QED
    BY <2>1, <2>2, <2>3
<1> QED
  BY <1>1, <1>2, <1>5, <1>6, <1>7 DEF LookupsRead, n

\* All that lookups ask of an account; its directory is looked at last.
Asked == Required \ {"directory"}

LEMMA AllRead == platform \in Platforms => LookupsRead(Lookups, Asked)
<1>1. CASE platform = "linux"
  <2>1. Asked = Traits("linux") \cup {"records"}
    BY <1>1 DEF Asked, Required, Traits
  <2>2. Lookups = LinuxLookups
    BY <1>1 DEF Lookups
  <2> QED
    BY <2>1, <2>2, LinuxReads
<1>2. CASE platform = "macos"
  <2>1. Asked = Traits("macos")
    BY <1>2 DEF Asked, Required, Traits
  <2>2. Lookups = MacLookups
    BY <1>2 DEF Lookups
  <2> QED
    BY <2>1, <2>2, MacReads
<1>3. CASE platform = "windows"
  <2>1. Asked = Traits("windows")
    BY <1>3 DEF Asked, Required, Traits
  <2>2. Lookups = WindowsLookups
    BY <1>3 DEF Lookups
  <2> QED
    BY <2>1, <2>2, WindowsReads
<1> QED
  BY <1>1, <1>2, <1>3 DEF Platforms

LEMMA LookInitInv == AdoptionInit => LookInv
<1> SUFFICES ASSUME AdoptionInit PROVE LookInv
  OBVIOUS
<1>1. look = NoLook /\ platform \in Platforms /\ AdoptionIInv
  BY AdoptionInitIInv DEF AdoptionInit, AccountInit
<1>2. platform = "linux" => records \in Databases
  BY DEF AdoptionInit, AccountInit
<1>3. 1 \in DOMAIN Lookups
  BY <1>1, AllRead DEF LookupsRead
<1>4. accounts \in Seq(SUBSET AllTraits)
  BY <1>1 DEF AdoptionIInv, AdoptionTyped
<1> QED
  BY <1>1, <1>2, <1>3, <1>4, LenProperties
     DEF LookInv, LookTyped, IsLook, NoLook, Noticed, Looking, SeenAsRead, ReadSoFar, HealthyHasMet

\* Nothing is looked at any more, or nothing has been looked at yet.
LEMMA LookFresh ==
  ASSUME LookInv, AdoptionIInv, UNCHANGED <<platform, accounts, records>>,
         \/ look' = NoLook
         \/ \E mode : look' = [NoLook EXCEPT !.mode = mode]
  PROVE  LookInv'
<1>1. 1 \in DOMAIN Lookups
  BY AllRead DEF AdoptionIInv, AdoptionTyped, LookupsRead
<1>2. accounts \in Seq(SUBSET AllTraits)
  BY DEF AdoptionIInv, AdoptionTyped
<1>3. /\ IsLook(look') /\ look'.at = 1 /\ look'.id = 0 /\ look'.answer = "none"
  BY DEF NoLook, IsLook
<1>4. Lookups' = Lookups
  BY DEF Lookups
<1>5. LookTyped'
  BY <1>1, <1>2, <1>3, <1>4, LenProperties DEF LookInv, LookTyped
<1>6. Noticed'
  BY <1>3 DEF Noticed, Meets
<1>7. ReadSoFar' = {}
  BY <1>3 DEF ReadSoFar
<1> QED
  BY <1>3, <1>5, <1>6, <1>7 DEF LookInv, SeenAsRead, HealthyHasMet

LEMMA LookKept ==
  ASSUME LookInv, UNCHANGED <<platform, holder, accounts, home, records, look, met>>
  PROVE  LookInv'
<1>1. Lookups' = Lookups /\ Required' = Required /\ Traits(platform)' = Traits(platform)
  BY DEF Lookups, Required, Traits
<1>2. ReadSoFar' = ReadSoFar
  BY <1>1 DEF ReadSoFar
<1>3. Meets(look.id)' = Meets(look.id)
  BY <1>1 DEF Meets, Unmet, FitHome
<1> QED
  BY <1>1, <1>2, <1>3 DEF LookInv, LookTyped, Noticed, Looking, SeenAsRead, HealthyHasMet

\* The read that goes on to the next lookup.
LEMMA ReadOn ==
  ASSUME LookInv, AdoptionIInv, UNCHANGED platform, NEW missing, Looking,
         Lookups[look.at] # Home, Read(Lookups[look.at], missing)
  PROVE  /\ IsLook(look') /\ look'.at = look.at + 1 /\ look'.mode = look.mode
         /\ look'.id = (IF look.id = 0 THEN holder ELSE look.id)
         /\ look'.lacks = look.lacks \cup missing /\ look'.dim = look.dim
         /\ look'.answer = "none"
         /\ look'.at \in DOMAIN Lookups
         /\ ReadSoFar' = ReadSoFar \cup Lookups[look.at].reads
<1>1. IsLook(look) /\ look.at \in DOMAIN Lookups /\ look.answer = "none"
  BY DEF LookInv, LookTyped, Looking
<1>2. LookupsRead(Lookups, Asked)
  BY AllRead DEF AdoptionIInv, AdoptionTyped
<1>3. look.at \in 1..(Len(Lookups) - 1)
  BY <1>1, <1>2 DEF LookupsRead
<1>4. /\ IsLook(look') /\ look'.at = look.at + 1 /\ look'.mode = look.mode
      /\ look'.id = (IF look.id = 0 THEN holder ELSE look.id)
      /\ look'.lacks = look.lacks \cup missing /\ look'.dim = look.dim
      /\ look'.answer = look.answer
  BY <1>1 DEF Read, Next_, IsLook
<1>5. look'.at \in DOMAIN Lookups
  BY <1>2, <1>3, <1>4 DEF LookupsRead
<1>6. Lookups' = Lookups
  BY DEF Lookups
<1>7. 1..(look'.at - 1) = 1..(look.at - 1) \cup {look.at}
  BY <1>2, <1>3, <1>4 DEF LookupsRead
<1>8. ReadSoFar' = UNION {Lookups[k].reads : k \in 1..(look.at - 1) \cup {look.at}}
  BY <1>6, <1>7 DEF ReadSoFar
<1> HIDE DEF Read
<1>9. ReadSoFar' = ReadSoFar \cup Lookups[look.at].reads
  BY <1>8 DEF ReadSoFar
<1> QED
  BY <1>1, <1>4, <1>5, <1>9

\* The local files say what they should, if they are as far as Styrn can see in order.
LEMMA MatchIsSound ==
  ASSUME records \in Databases, LocalAccountRecordsMatch
  PROVE  records \in SoundDatabases
<1>1. PICK i \in DOMAIN records.rows :
        {j \in DOMAIN records.rows : records.rows[j] # "another"} = {i} /\ records.rows[i] = "same"
  BY DEF LocalAccountRecordsMatch, ScanRecords
<1>2. records.loose \cap {"etc"} = {}
  BY DEF LocalAccountRecordsMatch, TrustedDatabase
<1>3. records \in [loose : {{}}, rows : {<<"another", "same">>, <<"same", "stale">>, <<"another">>,
                         <<"namesake">>, <<"same", "alias">>}]
  BY <1>2 DEF Databases
<1>4. records.rows \notin {<<"same", "stale">>, <<"same", "alias">>}
  <2>1. ASSUME NEW r, r \in {<<"same", "stale">>, <<"same", "alias">>}
        PROVE  1 \in DOMAIN r /\ 2 \in DOMAIN r /\ r[1] # "another" /\ r[2] # "another"
    BY <2>1
  <2>2. CASE records.rows \in {<<"same", "stale">>, <<"same", "alias">>}
    <3>1. 1 \in {i} /\ 2 \in {i}
      BY <1>1, <2>1, <2>2
    <3> QED
      BY <3>1
  <2> QED
    BY <2>2
<1>5. records.rows \notin {<<"another">>, <<"namesake">>}
  <2>1. CASE records.rows = <<"another">>
    BY <1>1, <2>1
  <2>2. CASE records.rows = <<"namesake">>
    BY <1>1, <2>2
  <2> QED
    BY <2>1, <2>2
<1> QED
  BY <1>3, <1>4, <1>5 DEF SoundDatabases

\* What a lookup of the account itself reads, and does not miss, the account meets.
LEMMA ReadIsMet ==
  ASSUME LookInv, AdoptionIInv, NEW reads, reads \subseteq Asked, holder # 0,
         LacksOf(holder) \cap reads = {}
  PROVE  reads \subseteq Meets(holder)
<1>1. "directory" \notin reads /\ reads \subseteq Required /\ accounts[holder] \cap reads = {}
  BY DEF Asked, LacksOf
<1>2. "records" \in reads => records \in SoundDatabases
  <2> SUFFICES ASSUME "records" \in reads PROVE records \in SoundDatabases
    OBVIOUS
  <2>1. platform = "linux"
    BY DEF Asked, Required, Traits, AdoptionIInv, AdoptionTyped, Platforms
  <2>2. LocalAccountRecordsMatch
    BY <2>1 DEF LacksOf
  <2> QED
    BY <2>1, <2>2, MatchIsSound DEF LookInv, LookTyped
<1>3. Unmet(holder) \cap reads = {}
  BY <1>1, <1>2 DEF Unmet
<1> QED
  BY <1>1, <1>3 DEF Meets

\* The inspection ends, and not with a healthy account.
LEMMA AnsweredSafe ==
  ASSUME LookInv, NEW answer, answer \notin {"none", "healthy"}, Answered(answer),
         UNCHANGED <<platform, accounts, records>>
  PROVE  LookInv'
<1>1. /\ IsLook(look') /\ look'.at = look.at /\ look'.id = look.id /\ look'.answer = answer
  BY DEF Answered, LookInv, LookTyped, IsLook
<1>2. Lookups' = Lookups
  BY DEF Lookups
<1>3. LookTyped'
  BY <1>1, <1>2 DEF LookInv, LookTyped
<1> QED
  BY <1>1, <1>3 DEF LookInv, Noticed, Looking, SeenAsRead, HealthyHasMet

LEMMA ReadSafe ==
  ASSUME LookInv, AdoptionIInv, NEW missing, Looking, Lookups[look.at] # Home,
         Read(Lookups[look.at], missing), UNCHANGED <<platform, world>>,
         met' = met \cup Meets(look'.id), look'.id # 0,
         look'.id = holder /\ missing = {} => Lookups[look.at].reads \subseteq Meets(holder)
  PROVE  LookInv'
<1>1. /\ IsLook(look') /\ look'.at = look.at + 1
      /\ look'.id = (IF look.id = 0 THEN holder ELSE look.id)
      /\ look'.lacks = look.lacks \cup missing /\ look'.dim = look.dim
      /\ look'.answer = "none"
      /\ look'.at \in DOMAIN Lookups
      /\ ReadSoFar' = ReadSoFar \cup Lookups[look.at].reads
  BY ReadOn DEF world
<1>2. Lookups' = Lookups /\ Traits(platform)' = Traits(platform) /\ Required' = Required
      /\ UNCHANGED <<platform, holder, accounts, home, records>>
  BY DEF Lookups, Traits, Required, world
<1>3. LookTyped'
  <2>1. holder \in 0..Len(accounts) /\ look.id \in 0..Len(accounts)
    BY DEF LookInv, LookTyped, AdoptionIInv, AdoptionTyped
  <2> QED
    BY <1>1, <1>2, <2>1 DEF LookInv, LookTyped
<1>4. Noticed'
  <2>1. Meets(look.id)' = Meets(look'.id)
    BY <1>2 DEF Meets, Unmet, FitHome
  <2> QED
    BY <2>1 DEF Noticed
<1>5. SeenAsRead'
  <2> SUFFICES ASSUME look'.id = holder, look.lacks \cup missing = {}, ~look.dim
               PROVE  ReadSoFar \cup Lookups[look.at].reads \subseteq met \cup Meets(holder)
    BY <1>1, <1>2 DEF SeenAsRead
  <2>1. Lookups[look.at].reads \subseteq Meets(holder)
    OBVIOUS
  <2>2. CASE look.id = 0
    <3>1. look.at = 1
      BY <2>2 DEF LookInv, LookTyped
    <3> QED
      BY <2>1, <3>1 DEF ReadSoFar
  <2>3. CASE look.id # 0
    <3>1. ReadSoFar \subseteq met
      BY <1>1, <2>3 DEF LookInv, SeenAsRead, Looking
    <3> QED
      BY <2>1, <3>1
  <2> QED
    BY <2>2, <2>3
<1> QED
  BY <1>1, <1>3, <1>4, <1>5 DEF LookInv, HealthyHasMet

LEMMA LookupStepSafe ==
  ASSUME LookInv, AdoptionIInv, NEW k, LookupStep(Lookups[k])
  PROVE  LookInv'
<1> DEFINE lookup == Lookups[look.at]
<1>1. /\ Looking /\ lookup # Home /\ LookupStep(lookup) /\ met' = met \cup Meets(look'.id)
      /\ UNCHANGED <<platform, world>>
  BY DEF LookupStep
<1>2. UNCHANGED <<platform, accounts, records>>
  BY <1>1 DEF world
<1>3. LookupsRead(Lookups, Asked) /\ look.at \in 1..Len(Lookups)
  BY AllRead DEF AdoptionIInv, AdoptionTyped, LookInv, LookTyped, LookupsRead
<1>4. lookup.none \notin {"none", "healthy"} /\ lookup.reads \subseteq Asked
  <2>1. lookup.none \notin {"none", "healthy"}
    BY <1>3 DEF LookupsRead
  <2>2. look.at \in 1..(Len(Lookups) - 1)
    BY <1>1, <1>3 DEF LookupsRead
  <2> QED
    BY <1>3, <2>1, <2>2 DEF LookupsRead
<1>5. look.id = 0 => look.at = 1 /\ lookup.by = "name" /\ lookup.none = "absent"
  BY <1>3 DEF LookupsRead, LookInv, LookTyped
<1>6. ASSUME NEW answer, answer \notin {"none", "healthy"}, Answered(answer) PROVE LookInv'
  BY <1>2, <1>6, AnsweredSafe
<1>7. ASSUME NEW missing, Read(lookup, missing), look'.id # 0,
             look'.id = holder /\ missing = {} => lookup.reads \subseteq Meets(holder)
      PROVE  LookInv'
  BY <1>1, <1>7, ReadSafe
<1>8. \A missing : Read(lookup, missing) => look'.id = (IF look.id = 0 THEN holder ELSE look.id)
  <2> SUFFICES ASSUME NEW missing, Read(lookup, missing)
               PROVE  look'.id = (IF look.id = 0 THEN holder ELSE look.id)
    OBVIOUS
  <2> QED
    BY <1>1, ReadOn
<1> HIDE DEF lookup
<1>9. CASE Gone(lookup) /\ lookup.none \notin {"pass", "lacks"} /\ Answered(lookup.none)
  BY <1>4, <1>6, <1>9
<1>10. CASE /\ Gone(lookup) /\ lookup.none \in {"pass", "lacks"}
            /\ Read(lookup, IF lookup.none = "pass" THEN {} ELSE {"records"})
  <2>1. look.id # 0 /\ look'.id = look.id
    BY <1>5, <1>8, <1>10
  <2>2. look'.id # holder
    BY <1>10, <2>1 DEF Gone
  <2> QED
    BY <1>7, <1>10, <2>1, <2>2
<1>11. CASE Stranger(lookup) /\ lookup.other = "broken" /\ Answered("broken")
  BY <1>6, <1>11
<1>12. CASE Stranger(lookup) /\ lookup.other = "lacks" /\ Read(lookup, {"same id"})
  <2>1. look.id # 0 /\ look'.id = look.id
    BY <1>8, <1>12 DEF Stranger
  <2> QED
    BY <1>7, <1>12, <2>1
<1>13. CASE /\ ~Gone(lookup)
            /\ Read(lookup, LacksOf(Subject(lookup)) \cap lookup.reads)
  <2>1. look'.id # 0
    <3>1. look'.id = (IF look.id = 0 THEN holder ELSE look.id)
      BY <1>8, <1>13
    <3>2. look.id = 0 => holder # 0
      BY <1>5, <1>13 DEF Gone
    <3> QED
      BY <3>1, <3>2
  <2>2. ASSUME look'.id = holder, LacksOf(Subject(lookup)) \cap lookup.reads = {}
        PROVE  lookup.reads \subseteq Meets(holder)
    <3>1. Subject(lookup) = holder
      BY <1>8, <1>13, <2>2 DEF Subject
    <3> QED
      BY <1>4, <2>1, <2>2, <3>1, ReadIsMet
  <2> QED
    BY <1>7, <1>13, <2>1, <2>2
<1>14. CASE Answered("unknowable") \/ Answered("broken")
  BY <1>6, <1>14
<1> QED
  BY <1>1, <1>9, <1>10, <1>11, <1>12, <1>13, <1>14 DEF LookupStep

LEMMA LookupFailsSafe ==
  ASSUME LookInv, AdoptionIInv, LookupFails
  PROVE  LookInv'
<1> DEFINE lookup == Lookups[look.at]
<1>1. Looking /\ UNCHANGED <<platform, world, met>>
  BY DEF LookupFails
<1>2. UNCHANGED <<platform, holder, accounts, home, records, met>>
  BY <1>1 DEF world
<1>3. LookupsRead(Lookups, Asked) /\ look.at \in 1..Len(Lookups)
  BY AllRead DEF AdoptionIInv, AdoptionTyped, LookInv, LookTyped, LookupsRead
<1>4. lookup.error \notin {"none", "healthy"}
  BY <1>3 DEF LookupsRead
<1>5. CASE Answered("unknowable") \/ Answered(lookup.error)
  BY <1>2, <1>4, <1>5, AnsweredSafe
<1>6. CASE lookup # Home /\ lookup.error = "dim" /\ look' = Next_([look EXCEPT !.dim = TRUE])
  <2>1. /\ IsLook(look') /\ look'.at = look.at + 1 /\ look'.id = look.id
        /\ look'.answer = "none" /\ look'.dim
    BY <1>1, <1>6 DEF Next_, LookInv, LookTyped, IsLook, Looking
  <2>2. look.at # 1 /\ look.at # Len(Lookups)
    BY <1>3, <1>6 DEF LookupsRead
  <2>3. Lookups' = Lookups
    BY <1>2 DEF Lookups
  <2>4. look'.at \in DOMAIN Lookups
    BY <1>3, <2>1, <2>2 DEF LookupsRead
  <2>5. LookTyped'
    BY <1>2, <2>1, <2>2, <2>3, <2>4 DEF LookInv, LookTyped
  <2>6. Meets(look.id)' = Meets(look.id)
    BY <1>2, <2>1 DEF Meets, Required, Unmet, FitHome, Traits
  <2>7. Noticed'
    BY <1>1, <1>2, <2>6 DEF LookInv, Noticed
  <2> QED
    BY <2>1, <2>5, <2>7 DEF LookInv, SeenAsRead, HealthyHasMet
<1> QED
  BY <1>5, <1>6 DEF LookupFails

LEMMA ReadHomeSafe ==
  ASSUME LookInv, AdoptionIInv, ReadHome
  PROVE  LookInv'
<1>1. Looking /\ Lookups[look.at] = Home /\ Answered(Classify)
      /\ UNCHANGED <<platform, holder, accounts, home, records, met>>
  BY DEF ReadHome, world
<1>2. LookupsRead(Lookups, Asked) /\ look.at \in 1..Len(Lookups)
  BY AllRead DEF AdoptionIInv, AdoptionTyped, LookInv, LookTyped, LookupsRead
<1>3. CASE Classify # "healthy"
  <2>1. Classify \notin {"none", "healthy"}
    BY <1>3 DEF Classify
  <2> QED
    BY <1>1, <2>1, AnsweredSafe
<1>4. CASE Classify = "healthy"
  <2>1. ~look.dim /\ look.lacks = {} /\ HomeIsSafe(look.mode, look.id)
    BY <1>4 DEF Classify
  <2>2. /\ IsLook(look') /\ look'.at = look.at /\ look'.id = look.id /\ look'.mode = look.mode
        /\ look'.answer = "healthy"
    BY <1>1, <1>4 DEF Answered, LookInv, LookTyped, IsLook
  <2>3. Lookups' = Lookups /\ Required' = Required
    BY <1>1 DEF Lookups, Required, Traits
  <2>5. look.at = Len(Lookups) /\ look.at # 1
    <3>1. look.at \notin 1..(Len(Lookups) - 1)
      BY <1>1, <1>2 DEF LookupsRead
    <3> QED
      BY <1>2, <3>1 DEF LookupsRead
  <2>6. look.id # 0
    BY <2>5 DEF LookInv, LookTyped
  <2>4. LookTyped'
    BY <1>1, <2>2, <2>3, <2>6 DEF LookInv, LookTyped
  <2>7. ASSUME look.id = holder PROVE Required \subseteq met
    <3>1. Asked \subseteq met
      <4>1. ReadSoFar \subseteq met
        BY <1>1, <2>1, <2>7 DEF LookInv, SeenAsRead, Looking
      <4> QED
        BY <1>2, <2>5, <4>1 DEF ReadSoFar, LookupsRead
    <3>2. FitHome(look.id)
      BY <2>1 DEF HomeIsSafe, LinuxHomeIsSafe, MacHomeIsSafe, ProfileIsEligible, HomeState,
                  MacHomeState, ProfileState, FitHome, AdoptionIInv, AdoptionTyped, Platforms
    <3>3. "directory" \notin accounts[look.id]
      <4>1. accounts[look.id] \in SUBSET AllTraits
        BY <2>6, <2>7, ElementOfSeq, LenProperties DEF AdoptionIInv, AdoptionTyped
      <4>2. "directory" \notin AllTraits
        BY DEF AllTraits, Traits, Platforms
      <4> QED
        BY <4>1, <4>2
    <3>4. "directory" \in Meets(look.id)
      BY <2>6, <2>7, <3>2, <3>3 DEF Meets, Unmet, Required
    <3>5. "directory" \in met
      BY <1>1, <3>4 DEF LookInv, Noticed
    <3> QED
      BY <3>1, <3>5 DEF Asked
  <2>8. ASSUME look.id = holder, look.mode = "initial" PROVE "unused" \in met
    <3>1. home.is # "populated"
      BY <2>1, <2>8 DEF HomeIsSafe, LinuxHomeIsSafe, MacHomeIsSafe, ProfileIsEligible, HomeState,
                  MacHomeState, ProfileState, AdoptionIInv, AdoptionTyped, Platforms
    <3>2. "unused" \in Meets(look.id)
      BY <2>6, <2>8, <3>1 DEF Meets
    <3> QED
      BY <1>1, <3>2 DEF LookInv, Noticed
  <2>9. HealthyHasMet'
    BY <1>1, <2>2, <2>3, <2>6, <2>7, <2>8 DEF HealthyHasMet
  <2> QED
    BY <2>2, <2>4, <2>9 DEF LookInv, Noticed, Looking, SeenAsRead
<1> QED
  BY <1>3, <1>4

\* Who has lost the name does not get it back.
LEMMA NameGoesOn ==
  ASSUME AdoptionIInv, AccountStep, NEW id \in 1..Len(accounts)
  PROVE  id \in 1..Len(accounts') /\ (id = holder' => id = holder)
<1>1. accounts \in Seq(SUBSET AllTraits) /\ holder \in 0..Len(accounts) /\ Len(accounts) \in Nat
  BY LenProperties DEF AdoptionIInv, AdoptionTyped
<1>2. CASE InspectDedicatedAccount \/ ChangeHome \/ ChangeRecords
  BY <1>2 DEF InspectDedicatedAccount, ReadHome, LookupFails, LookupStep, world, ChangeHome,
              ChangeRecords
<1>3. CASE ChangeTrait
  <2>1. PICK lacks : accounts' = [accounts EXCEPT ![holder] = lacks]
    BY <1>3 DEF ChangeTrait
  <2>2. Len(accounts') = Len(accounts)
    <3>1. DOMAIN accounts' = 1..Len(accounts)
      BY <1>1, <2>1
    <3>2. accounts' \in Seq(SUBSET AllTraits)
      BY WorldTyped DEF AdoptionIInv, AdoptionTyped
    <3> QED
      BY <1>1, <3>1, <3>2, LenProperties
  <2> QED
    BY <1>3, <2>2 DEF ChangeTrait
<1>4. CASE RemoveAccount
  BY <1>1, <1>4 DEF RemoveAccount
<1>5. CASE AddAccount
  <2>1. {} \in SUBSET AllTraits
    OBVIOUS
  <2>2. Len(accounts') = Len(accounts) + 1 /\ holder' = Len(accounts) + 1
    BY <1>1, <1>5, <2>1, AppendProperties DEF AddAccount
  <2> QED
    BY <1>1, <2>2
<1> QED
  BY <1>2, <1>3, <1>4, <1>5 DEF AccountStep, WorldChanges

LEMMA WorldChangesSafe ==
  ASSUME LookInv, AdoptionIInv, WorldChanges, AccountStep
  PROVE  LookInv'
<1>1. UNCHANGED <<platform, look>> /\ met \subseteq met'
      /\ (Looking => Meets(look.id)' \subseteq met')
  BY DEF WorldChanges, Changed
<1>2. Lookups' = Lookups /\ Required' = Required
  BY <1>1 DEF Lookups, Required, Traits
<1>3. ReadSoFar' = ReadSoFar
  BY <1>1, <1>2 DEF ReadSoFar
<1>4. look.id \in 0..Len(accounts')
      /\ (look.id # 0 /\ look.id = holder' => look.id = holder)
  <2>1. Len(accounts) \in Nat /\ Len(accounts') \in Nat
    BY WorldTyped, LenProperties DEF AdoptionIInv, AdoptionTyped
  <2>2. look.id \in 0..Len(accounts)
    BY DEF LookInv, LookTyped
  <2>3. CASE look.id = 0
    BY <2>1, <2>3
  <2>4. CASE look.id # 0
    <3>1. look.id \in 1..Len(accounts)
      BY <2>1, <2>2, <2>4
    <3> QED
      BY <2>1, <3>1, NameGoesOn
  <2> QED
    BY <2>3, <2>4
<1>5. LookTyped'
  <2>1. platform = "linux" => records' \in Databases
    BY DEF WorldChanges, ChangeTrait, RemoveAccount, AddAccount, ChangeHome, ChangeRecords, LookInv,
           LookTyped
  <2> QED
    BY <1>1, <1>2, <1>4, <2>1 DEF LookInv, LookTyped
<1>6. Noticed'
  BY <1>1 DEF Noticed, Looking
<1>7. SeenAsRead'
  <2>1. CASE look.id = 0
    <3>1. look.at = 1
      BY <2>1 DEF LookInv, LookTyped
    <3>2. ReadSoFar = {}
      BY <3>1 DEF ReadSoFar
    <3> QED
      BY <1>3, <3>2 DEF SeenAsRead
  <2>2. CASE look.id # 0
    BY <1>1, <1>3, <1>4, <2>2 DEF LookInv, SeenAsRead
  <2> QED
    BY <2>1, <2>2
<1>8. HealthyHasMet'
  <2> SUFFICES ASSUME look.answer = "healthy", look.id = holder'
               PROVE  /\ look.id # 0 /\ Required \subseteq met'
                      /\ look.mode = "initial" => "unused" \in met'
    BY <1>1, <1>2 DEF HealthyHasMet
  <2>1. look.id # 0
    BY DEF LookInv, LookTyped
  <2> QED
    BY <1>1, <1>4, <2>1 DEF LookInv, HealthyHasMet
<1> QED
  BY <1>5, <1>6, <1>7, <1>8 DEF LookInv

----------------------------------------------------------------------------
(* What a process holds, and what it is about to write. *)

\* An account that was taken up: while it keeps its name, it was found with nothing in its home.
TakenUp(id) == id \in 0..Len(accounts) /\ (id # 0 /\ id = holder => id \in foundEmpty)

Waiting == process.job \notin {"idle", "selected", "write"}

LookOf ==
  /\ ~Waiting => look = NoLook
  /\ process.job = "select" => look.mode = "initial"

Held ==
  /\ process.job \notin {"idle", "write"} => process.policy = "dedicated"
  /\ process.policy \in {"current-user", "dedicated"} => process.operator.policy = "current-user"
  /\ process.draft # None =>
       /\ process.policy = "dedicated" => process.store.binding = "dedicated"
       /\ process.policy = "current-user" =>
            /\ process.store.binding \in {"principal", "current-user"}
            /\ process.store.principal.policy = "current-user"
  /\ process.candidate # None => process.draft # None /\ Validate(process.candidate)
  /\ process.job \in {"canonical", "prepare"} => process.draft # None
  /\ process.job = "replace" => process.candidate # None

Taken == TakenUp(process.handle) /\ TakenUp(evidence)

\* What the property says of a manifest, of the account as it is now.
ProvenFor(manifest) ==
  "worker" \in manifest.roles =>
    IF manifest.identity.mode = "current-user" THEN "named" \in met
    ELSE /\ manifest.identity.id \in 1..Len(accounts) /\ manifest.identity.id \in foundEmpty
         /\ manifest.identity.id = holder => Required \subseteq met

AboutToWrite ==
  process.job = "write" =>
    /\ process.candidate # None /\ process.candidate.scope = process.store.scope
    /\ ProvenFor(process.candidate)

TwoStores == published = [user |-> published.user, system |-> published.system]

HandInv == LookOf /\ Held /\ Taken /\ AboutToWrite /\ TwoStores

ProvenInv == AdoptionIInv /\ LookInv /\ HandInv

LEMMA ProvenInit == AdoptionInit => ProvenInv
<1> SUFFICES ASSUME AdoptionInit PROVE ProvenInv
  OBVIOUS
<1>1. AdoptionIInv /\ LookInv
  BY AdoptionInitIInv, LookInitInv
<1>2. /\ look = NoLook /\ process = NoProcess /\ evidence = 0
      /\ published = [user |-> None, system |-> None]
  BY DEF AdoptionInit, AccountInit
<1>3. Len(accounts) \in Nat
  BY <1>1, LenProperties DEF AdoptionIInv, AdoptionTyped
<1>4. LookOf /\ Held /\ AboutToWrite /\ TwoStores
  BY <1>2, AdoptionAssumption DEF LookOf, Waiting, Held, AboutToWrite, TwoStores, NoProcess
<1>5. Taken
  BY <1>2, <1>3 DEF Taken, TakenUp, NoProcess
<1> QED
  BY <1>1, <1>4, <1>5 DEF ProvenInv, HandInv

LEMMA AccountsMove ==
  ASSUME ProvenInv, AccountStep
  PROVE  ProvenInv'
<1>1. /\ UNCHANGED <<platform, process, evidence, published, foundEmpty>>
      /\ met \subseteq met' /\ (look = NoLook => look' = NoLook) /\ look'.mode = look.mode
  <2>1. UNCHANGED <<platform, process, evidence, published, foundEmpty>>
    BY DEF AccountStep, adoptionVars, InspectDedicatedAccount, ReadHome, LookupFails, LookupStep,
           WorldChanges, Changed
  <2>2. CASE WorldChanges
    BY <2>1, <2>2 DEF WorldChanges, Changed
  <2>3. CASE InspectDedicatedAccount
    <3>1. Looking /\ met \subseteq met'
      BY <2>3 DEF InspectDedicatedAccount, ReadHome, LookupFails, LookupStep
    <3>2. look # NoLook
      BY <3>1 DEF Looking, NoLook
    <3>3. look'.mode = look.mode
      <4>1. IsLook(look)
        BY DEF ProvenInv, LookInv, LookTyped
      <4>2. \A answer : Answered(answer) => look'.mode = look.mode
        BY <4>1 DEF Answered, IsLook
      <4>3. \A lookup, missing : Read(lookup, missing) => look'.mode = look.mode
        BY <4>1 DEF Read, Next_, IsLook
      <4>4. look' = Next_([look EXCEPT !.dim = TRUE]) => look'.mode = look.mode
        BY <4>1 DEF Next_, IsLook
      <4>5. CASE ReadHome
        BY <4>2, <4>5 DEF ReadHome
      <4>6. CASE LookupFails
        BY <4>2, <4>4, <4>6 DEF LookupFails
      <4>7. ASSUME NEW k, LookupStep(Lookups[k]) PROVE look'.mode = look.mode
        BY <4>2, <4>3, <4>7, Zenon DEF LookupStep
      <4> QED
        BY <2>3, <4>5, <4>6, <4>7 DEF InspectDedicatedAccount
    <3> QED
      BY <2>1, <3>1, <3>2, <3>3
  <2> QED
    BY <2>2, <2>3 DEF AccountStep
<1>2. AdoptionIInv'
  BY WorldTyped DEF ProvenInv
<1>3. LookInv'
  BY LookupStepSafe, LookupFailsSafe, ReadHomeSafe, WorldChangesSafe
     DEF ProvenInv, AccountStep, InspectDedicatedAccount
<1>4. \A id \in 1..Len(accounts) : id \in 1..Len(accounts') /\ (id = holder' => id = holder)
  BY NameGoesOn DEF ProvenInv
<1>5. Len(accounts) \in Nat /\ Len(accounts') \in Nat
  BY <1>2, LenProperties DEF ProvenInv, AdoptionIInv, AdoptionTyped
<1>6. ASSUME NEW id, TakenUp(id)
      PROVE  id \in 0..Len(accounts') /\ (id # 0 /\ id = holder' => id \in foundEmpty')
  <2>1. CASE id = 0
    BY <1>5, <2>1
  <2>2. CASE id # 0
    <3>1. id \in 1..Len(accounts)
      BY <1>5, <1>6, <2>2 DEF TakenUp
    <3> QED
      BY <1>1, <1>4, <1>5, <1>6, <2>2, <3>1 DEF TakenUp
  <2> QED
    BY <2>1, <2>2
<1>7. Taken'
  BY <1>1, <1>6 DEF ProvenInv, HandInv, Taken, TakenUp
<1>8. Required' = Required
  BY <1>1 DEF Required, Traits
<1>9. AboutToWrite'
  <2> SUFFICES ASSUME process.job = "write" PROVE ProvenFor(process.candidate)'
    BY <1>1 DEF ProvenInv, HandInv, AboutToWrite
  <2>1. ProvenFor(process.candidate)
    BY DEF ProvenInv, HandInv, AboutToWrite
  <2> QED
    BY <1>1, <1>4, <1>8, <2>1 DEF ProvenFor
<1>10. LookOf' /\ Held' /\ TwoStores'
  BY <1>1 DEF ProvenInv, HandInv, LookOf, Waiting, Held, TwoStores
<1> QED
  BY <1>2, <1>3, <1>7, <1>9, <1>10 DEF ProvenInv, HandInv

\* A step of the process leaves the accounts alone.
AccountsStay == UNCHANGED <<platform, holder, accounts, home, records>>

LEMMA TakenStays ==
  ASSUME Taken, AccountsStay, foundEmpty \subseteq foundEmpty',
         process'.handle \in {process.handle, evidence, 0},
         evidence' \in {evidence, process.handle}
  PROVE  Taken'
<1>1. 0 \in 0..Len(accounts)
  BY DEF Taken, TakenUp
<1>2. \A id : TakenUp(id) => id \in 0..Len(accounts') /\ (id # 0 /\ id = holder' => id \in foundEmpty')
  BY DEF TakenUp, AccountsStay
<1> QED
  BY <1>1, <1>2 DEF Taken, TakenUp, AccountsStay

\* The process is over, for any reason.
LEMMA OverSafe ==
  ASSUME ProvenInv, Over, look' = NoLook, AccountsStay, UNCHANGED <<evidence, published>>,
         foundEmpty \subseteq foundEmpty', AdoptionIInv'
  PROVE  ProvenInv'
<1>1. process' = NoProcess
  BY DEF Over
<1>2. LookInv'
  BY LookFresh DEF ProvenInv, AccountsStay
<1>3. LookOf' /\ Held' /\ AboutToWrite'
  BY <1>1, AdoptionAssumption DEF LookOf, Waiting, Held, AboutToWrite, NoProcess
<1>4. Taken'
  BY <1>1, TakenStays DEF NoProcess, ProvenInv, HandInv
<1>5. TwoStores'
  BY DEF ProvenInv, HandInv, TwoStores
<1> QED
  BY <1>2, <1>3, <1>4, <1>5 DEF ProvenInv, HandInv

LEMMA WaitingProven == ProvenInv /\ WaitingStep /\ AdoptionIInv' => ProvenInv'
<1> SUFFICES ASSUME ProvenInv, WaitingStep, AdoptionIInv' PROVE ProvenInv'
  OBVIOUS
<1>1. AccountsStay /\ UNCHANGED <<evidence, published, foundEmpty>>
  BY DEF WaitingStep, SelectDedicatedAccount, InspectEstablishedDedicatedAccount, DeriveDedicated,
         MakeCanonical, PrepareDedicatedCandidate, RevalidateDedicatedBeforeReplace,
         ReverifyForAdoption, Wait, BeginInspection, world, AccountsStay
<1>2. PICK job, mode :
        /\ job \in {"select", "recover", "derive", "canonical", "prepare", "replace", "adopt"}
        /\ process' = [process EXCEPT !.job = job] /\ look' = [NoLook EXCEPT !.mode = mode]
        /\ process.policy = "dedicated" /\ (job = "select" => mode = "initial")
        /\ (job \in {"canonical", "prepare"} => process.draft # None)
        /\ (job = "replace" => process.candidate # None)
  <2> DEFINE Begins(job, mode) ==
        /\ process' = [process EXCEPT !.job = job] /\ look' = [NoLook EXCEPT !.mode = mode]
        /\ process.policy = "dedicated"
  <2>1. \A job, mode : Wait(job, mode) => Begins(job, mode)
    BY DEF Wait, Idle, BeginInspection
  <2>2. ReverifyForAdoption => Begins("adopt", "established")
    BY DEF ReverifyForAdoption, BeginInspection, ProvenInv, HandInv, Held
  <2> HIDE DEF Begins
  <2>3. \/ Begins("select", "initial") \/ Begins("recover", "established")
        \/ Begins("derive", "established") \/ Begins("adopt", "established")
        \/ Begins("canonical", "established") /\ process.draft # None
        \/ Begins("prepare", "established") /\ process.draft # None
        \/ Begins("replace", "established") /\ process.candidate # None
    BY <2>1, <2>2 DEF WaitingStep, SelectDedicatedAccount, InspectEstablishedDedicatedAccount,
         DeriveDedicated, MakeCanonical, PrepareDedicatedCandidate,
         RevalidateDedicatedBeforeReplace, Ready
  <2> QED
    BY <2>3 DEF Begins
<1>3. IsProcess(process)
  BY DEF ProvenInv, AdoptionIInv, AdoptionTyped
<1>4. /\ process'.job = job /\ process'.handle = process.handle /\ process'.draft = process.draft
      /\ process'.candidate = process.candidate /\ process'.policy = process.policy
      /\ process'.operator = process.operator /\ process'.store = process.store
  BY <1>2, <1>3 DEF IsProcess
<1>5. LookInv'
  BY <1>1, <1>2, LookFresh DEF ProvenInv, AccountsStay
<1>6. look'.mode = mode
  BY <1>2 DEF NoLook
<1>7. LookOf' /\ AboutToWrite'
  BY <1>2, <1>4, <1>6 DEF LookOf, Waiting, AboutToWrite
<1>8. Held'
  BY <1>2, <1>4 DEF ProvenInv, HandInv, Held
<1>9. Taken'
  BY <1>1, <1>4, TakenStays DEF ProvenInv, HandInv
<1>10. TwoStores'
  BY <1>1 DEF ProvenInv, HandInv, TwoStores
<1> QED
  BY <1>5, <1>7, <1>8, <1>9, <1>10 DEF ProvenInv, HandInv

\* What a call that has waited does when it goes on.
LEMMA GoesOn ==
  ASSUME ProvenInv, AdoptionIInv', AccountsStay, look' = NoLook, UNCHANGED published,
         foundEmpty \subseteq foundEmpty',
         process'.policy = process.policy, process'.operator = process.operator,
         process'.job \in {"idle", "selected"},
         process'.job = "selected" => process.policy = "dedicated",
         Taken',
         \/ /\ process'.draft = process.draft /\ process'.store = process.store
            /\ process'.candidate # None =>
                 \/ process'.candidate = process.candidate
                 \/ process.draft # None /\ Validate(process'.candidate)
         \/ /\ process'.draft # None /\ process'.candidate = process.candidate
            /\ process.policy = "dedicated" /\ process'.store.binding = "dedicated"
  PROVE  ProvenInv'
<1>1. LookInv'
  BY LookFresh DEF ProvenInv, AccountsStay
<1>2. LookOf' /\ AboutToWrite'
  BY DEF LookOf, Waiting, AboutToWrite
<1>3. Held'
  BY DEF ProvenInv, HandInv, Held
<1>4. TwoStores'
  BY DEF ProvenInv, HandInv, TwoStores
<1> QED
  BY <1>1, <1>2, <1>3, <1>4 DEF ProvenInv, HandInv

\* A candidate is valid and of its store, whatever was verified.
LEMMA CandidateValid ==
  ASSUME NEW verified, CandidateFor(verified) # None
  PROVE  Validate(CandidateFor(verified))
BY DEF CandidateFor

LEMMA DoneFacts ==
  ASSUME ProvenInv, NEW for, Done(for)
  PROVE  /\ AccountsStay /\ look' = NoLook /\ process.job = for
         /\ (for = "replace" => met' = met)
BY DEF Done, AccountsStay, world

LEMMA SelectProven ==
  ProvenInv /\ SelectDedicatedAccountObservation /\ AdoptionIInv' => ProvenInv'
<1> SUFFICES ASSUME ProvenInv, SelectDedicatedAccountObservation, AdoptionIInv' PROVE ProvenInv'
  OBVIOUS
<1>1. /\ AccountsStay /\ look' = NoLook /\ process.job = "select"
      /\ UNCHANGED <<evidence, published>> /\ foundEmpty \subseteq foundEmpty'
  BY DoneFacts DEF SelectDedicatedAccountObservation
<1>2. CASE Over
  BY <1>1, <1>2, OverSafe
<1>3. CASE ~Over
  <2>1. /\ look.answer = "healthy"
        /\ process' = [process EXCEPT !.job = "selected", !.handle = look.id]
        /\ foundEmpty' = foundEmpty \cup IF "unused" \in met THEN {look.id} ELSE {}
    BY <1>3 DEF SelectDedicatedAccountObservation
  <2>2. /\ process'.job = "selected" /\ process'.handle = look.id
        /\ process'.policy = process.policy /\ process'.operator = process.operator
        /\ process'.draft = process.draft /\ process'.store = process.store
        /\ process'.candidate = process.candidate
    BY <2>1 DEF ProvenInv, AdoptionIInv, AdoptionTyped, IsProcess
  <2>3. look.mode = "initial" /\ process.policy = "dedicated"
    BY <1>1 DEF ProvenInv, HandInv, LookOf, Held
  <2>4. look.id = holder => "unused" \in met
    BY <2>1, <2>3 DEF ProvenInv, LookInv, HealthyHasMet
  <2>5. look.id = holder => look.id \in foundEmpty'
    BY <2>1, <2>4
  <2>6. Taken'
    <3>1. TakenUp(process.handle)'
      BY <1>1, <2>2, <2>5 DEF TakenUp, AccountsStay, ProvenInv, LookInv, LookTyped
    <3>2. TakenUp(evidence)'
      BY <1>1 DEF TakenUp, AccountsStay, ProvenInv, HandInv, Taken
    <3> QED
      BY <3>1, <3>2 DEF Taken
  <2> QED
    BY <1>1, <2>2, <2>3, <2>6, GoesOn
<1> QED
  BY <1>2, <1>3

LEMMA AdoptProven ==
  ProvenInv /\ (Adopt \/ EstablishedDedicatedAccountObservation) /\ AdoptionIInv' => ProvenInv'
<1> SUFFICES ASSUME ProvenInv, Adopt \/ EstablishedDedicatedAccountObservation, AdoptionIInv'
             PROVE ProvenInv'
  OBVIOUS
<1>1. AccountsStay /\ look' = NoLook /\ UNCHANGED <<evidence, published, foundEmpty>>
  BY DoneFacts DEF Adopt, EstablishedDedicatedAccountObservation
<1>2. CASE Over
  BY <1>1, <1>2, OverSafe
<1>3. CASE ~Over
  <2>1. /\ process'.job = "idle" /\ process'.handle \in {process.handle, evidence}
        /\ process'.policy = process.policy /\ process'.operator = process.operator
        /\ process'.draft = process.draft /\ process'.store = process.store
        /\ process'.candidate = process.candidate
    BY <1>3 DEF Adopt, EstablishedDedicatedAccountObservation, ProvenInv, AdoptionIInv,
                AdoptionTyped, IsProcess
  <2>2. Taken'
    BY <1>1, <2>1, TakenStays DEF ProvenInv, HandInv
  <2> QED
    BY <1>1, <2>1, <2>2, GoesOn
<1> QED
  BY <1>2, <1>3

LEMMA DerivedProven == ProvenInv /\ DedicatedDerived /\ AdoptionIInv' => ProvenInv'
<1> SUFFICES ASSUME ProvenInv, DedicatedDerived, AdoptionIInv' PROVE ProvenInv'
  OBVIOUS
<1>1. /\ AccountsStay /\ look' = NoLook /\ UNCHANGED <<evidence, published, foundEmpty>>
      /\ process.job = "derive"
  BY DoneFacts DEF DedicatedDerived
<1>2. CASE Over
  BY <1>1, <1>2, OverSafe
<1>3. CASE ~Over
  <2>1. PICK worker, draft :
          /\ process' = [process EXCEPT !.job = "idle", !.store = NewSystemDedicated(worker),
                                        !.draft = draft]
          /\ process'.draft # None
    BY <1>3, Zenon DEF DedicatedDerived
  <2>2. /\ process'.job = "idle" /\ process'.handle = process.handle
        /\ process'.policy = process.policy /\ process'.operator = process.operator
        /\ process'.store.binding = "dedicated" /\ process'.candidate = process.candidate
    BY <2>1 DEF ProvenInv, AdoptionIInv, AdoptionTyped, IsProcess, NewSystemDedicated
  <2>3. process.policy = "dedicated"
    BY <1>1 DEF ProvenInv, HandInv, Held
  <2>4. Taken'
    BY <1>1, <2>2, TakenStays DEF ProvenInv, HandInv
  <2> QED
    BY <1>1, <2>1, <2>2, <2>3, <2>4, GoesOn
<1> QED
  BY <1>2, <1>3

LEMMA CanonicalProven == ProvenInv /\ ScopePromotionCanonical /\ AdoptionIInv' => ProvenInv'
<1> SUFFICES ASSUME ProvenInv, ScopePromotionCanonical, AdoptionIInv' PROVE ProvenInv'
  OBVIOUS
<1>1. AccountsStay /\ look' = NoLook /\ UNCHANGED <<published, foundEmpty>>
  BY DoneFacts DEF ScopePromotionCanonical
<1>2. \/ Over /\ UNCHANGED evidence
      \/ evidence' = process.handle /\ process' = [process EXCEPT !.job = "idle"]
  BY Zenon DEF ScopePromotionCanonical
<1>3. CASE Over /\ UNCHANGED evidence
  BY <1>1, <1>3, OverSafe
<1>4. CASE evidence' = process.handle /\ process' = [process EXCEPT !.job = "idle"]
  <2>1. /\ process'.job = "idle" /\ process'.handle = process.handle
        /\ process'.policy = process.policy /\ process'.operator = process.operator
        /\ process'.draft = process.draft /\ process'.store = process.store
        /\ process'.candidate = process.candidate
    BY <1>4 DEF ProvenInv, AdoptionIInv, AdoptionTyped, IsProcess
  <2>2. Taken'
    BY <1>1, <1>4, <2>1, TakenStays DEF ProvenInv, HandInv
  <2> QED
    BY <1>1, <2>1, <2>2, GoesOn
<1> QED
  BY <1>2, <1>3, <1>4

\* A candidate is prepared, for the user or for the account that was verified.
LEMMA PreparedProven ==
  ASSUME ProvenInv, AdoptionIInv', AccountsStay, look' = NoLook,
         UNCHANGED <<evidence, published, foundEmpty>>, process.draft # None,
         NEW candidate, candidate # None => Validate(candidate), Prepared(candidate)
  PROVE  ProvenInv'
<1>1. CASE Over
  BY <1>1, OverSafe
<1>2. CASE ~Over
  <2>1. /\ candidate # None
        /\ process' = [process EXCEPT !.job = "idle", !.candidate = candidate]
    BY <1>2 DEF Prepared
  <2>2. /\ process'.job = "idle" /\ process'.handle = process.handle
        /\ process'.policy = process.policy /\ process'.operator = process.operator
        /\ process'.draft = process.draft /\ process'.store = process.store
        /\ process'.candidate = candidate
    BY <2>1 DEF ProvenInv, AdoptionIInv, AdoptionTyped, IsProcess
  <2>3. Taken'
    BY <2>2, TakenStays DEF ProvenInv, HandInv
  <2> QED
    BY <2>1, <2>2, <2>3, GoesOn
<1> QED
  BY <1>1, <1>2

LEMMA CandidateProven ==
  ProvenInv /\ (PromotionCandidate \/ PrepareCandidate) /\ AdoptionIInv' => ProvenInv'
<1> SUFFICES ASSUME ProvenInv, PromotionCandidate \/ PrepareCandidate, AdoptionIInv'
             PROVE ProvenInv'
  OBVIOUS
<1>1. \A verified : CandidateFor(verified) # None => Validate(CandidateFor(verified))
  BY CandidateValid
<1>2. CASE PromotionCandidate
  <2>1. /\ AccountsStay /\ look' = NoLook /\ UNCHANGED <<evidence, published, foundEmpty>>
        /\ process.job = "prepare"
    BY <1>2, DoneFacts DEF PromotionCandidate
  <2>2. process.draft # None
    BY <2>1 DEF ProvenInv, HandInv, Held
  <2>3. PICK candidate : /\ Prepared(candidate)
                         /\ candidate \in {None, CandidateFor(Dedicated(process.handle))}
    BY <1>2, Zenon DEF PromotionCandidate
  <2> QED
    BY <1>1, <2>1, <2>2, <2>3, PreparedProven
<1>3. CASE PrepareCandidate
  <2>1. /\ AccountsStay /\ UNCHANGED <<look, evidence, published, foundEmpty>>
        /\ process.draft # None /\ process.job = "idle" /\ Prepared(CandidateFor(None))
    BY <1>3 DEF PrepareCandidate, still, world, AccountsStay, Ready, Idle
  <2>2. look' = NoLook
    BY <2>1 DEF ProvenInv, HandInv, LookOf, Waiting
  <2> QED
    BY <1>1, <2>1, <2>2, PreparedProven
<1> QED
  BY <1>2, <1>3

----------------------------------------------------------------------------
(* The last look before the manifest is replaced. *)

LEMMA ToWrite ==
  ASSUME ProvenInv, AdoptionIInv', AccountsStay, look' = NoLook,
         UNCHANGED <<evidence, published, foundEmpty>>, process.candidate # None,
         process' = [process EXCEPT !.job = "write"],
         process.candidate.scope = process.store.scope, ProvenFor(process.candidate)'
  PROVE  ProvenInv'
<1>1. /\ process'.job = "write" /\ process'.handle = process.handle
      /\ process'.policy = process.policy /\ process'.operator = process.operator
      /\ process'.draft = process.draft /\ process'.store = process.store
      /\ process'.candidate = process.candidate
  BY DEF ProvenInv, AdoptionIInv, AdoptionTyped, IsProcess
<1>2. LookInv'
  BY LookFresh DEF ProvenInv, AccountsStay
<1>3. LookOf'
  BY <1>1 DEF LookOf, Waiting
<1>4. Held'
  BY <1>1 DEF ProvenInv, HandInv, Held
<1>5. Taken'
  BY <1>1, TakenStays DEF ProvenInv, HandInv
<1>6. AboutToWrite'
  BY <1>1 DEF AboutToWrite
<1>7. TwoStores'
  BY DEF ProvenInv, HandInv, TwoStores
<1> QED
  BY <1>2, <1>3, <1>4, <1>5, <1>6, <1>7 DEF ProvenInv, HandInv

\* A store that is not a dedicated account's takes a worker only if it is the user's.
LEMMA UserBinding ==
  ASSUME NEW store, NEW manifest, NEW current,
         store.binding \in {"principal", "current-user"},
         store.principal.policy = "current-user",
         ManifestBinding(store, manifest, platform, current, None)
  PROVE  /\ manifest.scope = store.scope
         /\ "worker" \in manifest.roles => manifest.identity.mode = "current-user"
<1>1. manifest.scope = store.scope
  BY DEF ManifestBinding
<1>2. ASSUME "worker" \in manifest.roles, store.binding = "principal"
      PROVE  manifest.identity.mode = "current-user"
  <2>1. PrincipalOf(manifest.identity) = store.principal
    BY <1>2 DEF ManifestBinding
  <2>2. PrincipalOf(manifest.identity).policy = manifest.identity.mode
    BY DEF PrincipalOf
  <2> QED
    BY <2>1, <2>2
<1>3. ASSUME "worker" \in manifest.roles, store.binding = "current-user"
      PROVE  manifest.identity.mode = "current-user"
  <2>1. CanonicalCurrentUser(manifest, platform, store.principal, current)
    BY <1>3 DEF ManifestBinding
  <2> DEFINE projection == CurrentUserProjection(platform, store.principal,
               ResolveWorkerDirectoryLayout("user", store.principal, current))
  <2>2. projection # None /\ manifest.identity = projection.identity
    BY <2>1 DEF CanonicalCurrentUser, MatchesCurrentUser
  <2>3. projection # None => projection.identity = WorkerIdentityFor(store.principal)
    BY DEF CurrentUserProjection
  <2>4. WorkerIdentityFor(store.principal).mode = "current-user"
    BY DEF WorkerIdentityFor
  <2> QED
    BY <2>2, <2>3, <2>4
<1> QED
  BY <1>1, <1>2, <1>3

\* The store of a dedicated account takes a worker only if it is the account verified anew.
LEMMA DedicatedBinding ==
  ASSUME NEW store, NEW manifest, NEW current, NEW id, store.binding = "dedicated",
         ManifestBinding(store, manifest, platform, current, Dedicated(id))
  PROVE  /\ manifest.scope = store.scope
         /\ "worker" \in manifest.roles =>
              manifest.identity.mode = "dedicated" /\ manifest.identity.id = id
<1>1. manifest.scope = store.scope
  BY DEF ManifestBinding
<1>2. ASSUME "worker" \in manifest.roles
      PROVE  manifest.identity.mode = "dedicated" /\ manifest.identity.id = id
  <2> DEFINE worker == Dedicated(id)
             projection == DedicatedProjection(platform, worker,
               ResolveWorkerDirectoryLayout("system", worker, None))
  <2>1. CanonicalDedicated(manifest, platform, worker)
    BY <1>2 DEF ManifestBinding
  <2>2. /\ projection # None /\ PrincipalOf(manifest.identity) = projection.principal
        /\ manifest.identity.mode = "dedicated"
    BY <2>1 DEF CanonicalDedicated, MatchesDedicated
  <2>3. projection # None => projection.principal = worker
    BY DEF DedicatedProjection
  <2>4. PrincipalOf(manifest.identity).id = manifest.identity.id /\ worker.id = id
    BY DEF PrincipalOf, Dedicated, Principal
  <2> HIDE DEF worker, projection
  <2> QED
    BY <2>2, <2>3, <2>4
<1> QED
  BY <1>1, <1>2

LEMMA UserRevalidatedProven == ProvenInv /\ RevalidateBeforeReplace /\ AdoptionIInv' => ProvenInv'
<1> SUFFICES ASSUME ProvenInv, RevalidateBeforeReplace, AdoptionIInv' PROVE ProvenInv'
  OBVIOUS
<1>1. /\ AccountsStay /\ UNCHANGED <<look, evidence, published, foundEmpty>>
      /\ process.candidate # None /\ process.job = "idle" /\ process.policy = "current-user"
  BY DEF RevalidateBeforeReplace, world, AccountsStay, Idle
<1>2. look' = NoLook
  BY <1>1 DEF ProvenInv, HandInv, LookOf, Waiting
<1>3. CASE Over
  BY <1>1, <1>2, <1>3, OverSafe
<1>4. CASE ~Over
  <2>1. /\ VerifiedPrincipal(process.operator) /\ StillBound(None)
        /\ process' = [process EXCEPT !.job = "write"]
        /\ met' = IF process.operator = Current THEN {"named"} ELSE {}
    BY <1>4 DEF RevalidateBeforeReplace
  <2>2. /\ process.operator.policy = "current-user"
        /\ process.store.binding \in {"principal", "current-user"}
        /\ process.store.principal.policy = "current-user"
    BY <1>1 DEF ProvenInv, HandInv, Held
  <2>3. met' = {"named"}
    BY <2>1, <2>2 DEF VerifiedPrincipal
  <2>4. /\ process.candidate.scope = process.store.scope
        /\ "worker" \in process.candidate.roles => process.candidate.identity.mode = "current-user"
    BY <2>1, <2>2, UserBinding DEF StillBound
  <2>5. process'.candidate = process.candidate
    BY <2>1 DEF ProvenInv, AdoptionIInv, AdoptionTyped, IsProcess
  <2>6. ProvenFor(process.candidate)'
    BY <2>3, <2>4, <2>5 DEF ProvenFor
  <2> QED
    BY <1>1, <1>2, <2>1, <2>4, <2>6, ToWrite
<1> QED
  BY <1>3, <1>4

LEMMA RevalidatedProven == ProvenInv /\ DedicatedRevalidated /\ AdoptionIInv' => ProvenInv'
<1> SUFFICES ASSUME ProvenInv, DedicatedRevalidated, AdoptionIInv' PROVE ProvenInv'
  OBVIOUS
<1>1. /\ AccountsStay /\ look' = NoLook /\ UNCHANGED <<evidence, published, foundEmpty, met>>
      /\ process.job = "replace"
  BY DoneFacts DEF DedicatedRevalidated
<1>2. CASE Over
  BY <1>1, <1>2, OverSafe
<1>3. CASE ~Over
  <2> DEFINE id == process.handle
  <2>1. /\ Reverified(id) /\ VerifiedPrincipal(Dedicated(id)) /\ StillBound(Dedicated(id))
        /\ process' = [process EXCEPT !.job = "write"]
    BY <1>3, Zenon DEF DedicatedRevalidated
  <2>2. process.policy = "dedicated" /\ process.candidate # None /\ process.store.binding = "dedicated"
    BY <1>1 DEF ProvenInv, HandInv, Held
  <2>3. id = holder
    BY <2>1 DEF VerifiedPrincipal, Dedicated, Principal
  <2>4. id # 0 /\ Required \subseteq met
    BY <2>1, <2>3 DEF Reverified, ProvenInv, LookInv, HealthyHasMet
  <2>5. id \in 1..Len(accounts) /\ id \in foundEmpty
    <3>1. Len(accounts) \in Nat
      BY LenProperties DEF ProvenInv, AdoptionIInv, AdoptionTyped
    <3> QED
      BY <2>3, <2>4, <3>1 DEF ProvenInv, HandInv, Taken, TakenUp
  <2>6. /\ process.candidate.scope = process.store.scope
        /\ "worker" \in process.candidate.roles =>
             process.candidate.identity.mode = "dedicated" /\ process.candidate.identity.id = id
    BY <2>1, <2>2, DedicatedBinding DEF StillBound
  <2>7. process'.candidate = process.candidate
    BY <2>1 DEF ProvenInv, AdoptionIInv, AdoptionTyped, IsProcess
  <2>8. Required' = Required
    BY <1>1 DEF AccountsStay, Required, Traits
  <2>9. ProvenFor(process.candidate)'
    <3> HIDE DEF id
    <3> QED
      BY <1>1, <2>4, <2>5, <2>6, <2>7, <2>8 DEF ProvenFor, AccountsStay
  <2> QED
    BY <1>1, <2>1, <2>2, <2>6, <2>9, ToWrite
<1> QED
  BY <1>2, <1>3

----------------------------------------------------------------------------
(* The other steps of a process. *)

LEMMA UserDerivedProven ==
  ProvenInv /\ (DeriveCurrentUser \/ OpenSystemStore) /\ AdoptionIInv' => ProvenInv'
<1> SUFFICES ASSUME ProvenInv, DeriveCurrentUser \/ OpenSystemStore, AdoptionIInv'
             PROVE ProvenInv'
  OBVIOUS
<1>1. /\ AccountsStay /\ UNCHANGED <<look, evidence, published, foundEmpty>>
      /\ process.job = "idle" /\ process.policy = "current-user" /\ process.draft = None
  BY DEF DeriveCurrentUser, OpenSystemStore, still, world, AccountsStay, Idle
<1>2. look' = NoLook
  BY <1>1 DEF ProvenInv, HandInv, LookOf, Waiting
<1>3. CASE Over
  BY <1>1, <1>2, <1>3, OverSafe
<1>4. CASE ~Over
  <2>1. \E draft : \/ process' = [process EXCEPT !.store = NewUser(process.operator),
                                                 !.draft = draft]
                   \/ process' = [process EXCEPT !.draft = draft,
                                                 !.store = NewSystem(process.operator)]
    BY <1>4, Zenon DEF DeriveCurrentUser, OpenSystemStore
  <2>2. /\ process'.job = "idle" /\ process'.handle = process.handle
        /\ process'.policy = process.policy /\ process'.operator = process.operator
        /\ process'.candidate = process.candidate
        /\ process'.store \in {NewUser(process.operator), NewSystem(process.operator)}
    BY <1>1, <2>1 DEF ProvenInv, AdoptionIInv, AdoptionTyped, IsProcess
  <2>3. process'.store.binding \in {"principal", "current-user"}
        /\ process'.store.principal = process.operator
    BY <2>2 DEF NewUser, NewSystem
  <2>4. process.operator.policy = "current-user" /\ process.candidate = None
    BY <1>1 DEF ProvenInv, HandInv, Held
  <2>5. Held'
    BY <1>1, <2>2, <2>3, <2>4 DEF Held
  <2>6. Taken'
    BY <1>1, <2>2, TakenStays DEF ProvenInv, HandInv
  <2>7. LookOf' /\ AboutToWrite'
    BY <1>2, <2>2 DEF LookOf, Waiting, AboutToWrite
  <2>8. LookInv'
    BY <1>1, <1>2, LookFresh DEF ProvenInv, AccountsStay
  <2>9. TwoStores'
    BY <1>1 DEF ProvenInv, HandInv, TwoStores
  <2> QED
    BY <2>5, <2>6, <2>7, <2>8, <2>9 DEF ProvenInv, HandInv
<1> QED
  BY <1>3, <1>4

LEMMA StartProven == ProvenInv /\ Start /\ AdoptionIInv' => ProvenInv'
<1> SUFFICES ASSUME ProvenInv, Start, AdoptionIInv' PROVE ProvenInv'
  OBVIOUS
<1>1. /\ AccountsStay /\ UNCHANGED <<look, evidence, published, foundEmpty>>
      /\ process = NoProcess
  BY DEF Start, still, world, AccountsStay
<1>2. look' = NoLook
  BY <1>1 DEF ProvenInv, HandInv, LookOf, Waiting, NoProcess
<1>3. /\ process'.job = "idle" /\ process'.handle = 0 /\ process'.operator = Current
      /\ process'.draft = None /\ process'.candidate = None
  BY <1>1 DEF Start, NoProcess
<1>4. Held'
  BY <1>3 DEF Held, Current, Principal
<1>5. Taken'
  BY <1>1, <1>3, TakenStays DEF ProvenInv, HandInv
<1>6. LookOf' /\ AboutToWrite'
  BY <1>2, <1>3 DEF LookOf, Waiting, AboutToWrite
<1>7. LookInv'
  BY <1>1, <1>2, LookFresh DEF ProvenInv, AccountsStay
<1>8. TwoStores'
  BY <1>1 DEF ProvenInv, HandInv, TwoStores
<1> QED
  BY <1>4, <1>5, <1>6, <1>7, <1>8 DEF ProvenInv, HandInv

LEMMA EndProven == ProvenInv /\ (ProcessDies \/ WriteManifest) /\ AdoptionIInv' => ProvenInv'
<1> SUFFICES ASSUME ProvenInv, ProcessDies \/ WriteManifest, AdoptionIInv' PROVE ProvenInv'
  OBVIOUS
<1>1. CASE ProcessDies
  BY <1>1, OverSafe DEF ProcessDies, AccountsStay, world
<1>2. CASE WriteManifest
  <2>1. /\ AccountsStay /\ UNCHANGED <<look, evidence, foundEmpty>> /\ process.job = "write"
        /\ process' = NoProcess
    BY <1>2 DEF WriteManifest, still, world, AccountsStay, Over
  <2>2. look' = NoLook
    BY <2>1 DEF ProvenInv, HandInv, LookOf, Waiting
  <2>3. LookInv'
    BY <2>1, <2>2, LookFresh DEF ProvenInv, AccountsStay
  <2>4. LookOf' /\ Held' /\ AboutToWrite'
    BY <2>1, <2>2, AdoptionAssumption DEF LookOf, Waiting, Held, AboutToWrite, NoProcess
  <2>5. Taken'
    BY <2>1, TakenStays DEF NoProcess, ProvenInv, HandInv
  <2>6. TwoStores'
    BY <1>2 DEF WriteManifest, ProvenInv, HandInv, TwoStores
  <2> QED
    BY <2>3, <2>4, <2>5, <2>6 DEF ProvenInv, HandInv
<1> QED
  BY <1>1, <1>2

LEMMA ProvenStays ==
  ASSUME ProvenInv, AdoptionIInv', AccountsStay,
         UNCHANGED <<look, met, process, evidence, published, foundEmpty>>
  PROVE  ProvenInv'
<1>1. LookInv'
  BY LookKept DEF ProvenInv, AccountsStay
<1>2. Required' = Required
  BY DEF AccountsStay, Required, Traits
<1>3. HandInv'
  BY <1>2 DEF ProvenInv, HandInv, LookOf, Waiting, Held, Taken, TakenUp, AboutToWrite, ProvenFor,
              TwoStores, AccountsStay
<1> QED
  BY <1>1, <1>3 DEF ProvenInv

LEMMA ProvenNext == ProvenInv /\ [AdoptionNext]_allVars => ProvenInv'
<1> SUFFICES ASSUME ProvenInv, [AdoptionNext]_allVars PROVE ProvenInv'
  OBVIOUS
<1>1. AdoptionIInv'
  BY AdoptionNextSafe DEF ProvenInv
<1>2. CASE RenameCaller
  BY <1>1, <1>2, ProvenStays DEF RenameCaller, Changed, AccountsStay
<1>3. CASE UNCHANGED allVars
  BY <1>1, <1>3, ProvenStays DEF allVars, adoptionVars, world, AccountsStay
<1> QED
  BY <1>1, <1>2, <1>3, AccountsMove, WaitingProven, SelectProven, AdoptProven, DerivedProven,
     CanonicalProven, CandidateProven, UserRevalidatedProven, RevalidatedProven,
     UserDerivedProven, StartProven, EndProven
     DEF AdoptionNext, WaitingStep

LEMMA PublishStep ==
  ASSUME ProvenInv, [AdoptionNext]_allVars, NEW scope \in {"user", "system"},
         published'[scope] # published[scope]
  PROVE  LET manifest == published'[scope] IN
       /\ Validate(manifest) /\ manifest.scope = scope
       /\ "worker" \in manifest.roles =>
            IF manifest.identity.mode = "current-user" THEN "named" \in met
            ELSE /\ manifest.identity.id \in foundEmpty
                 /\ manifest.identity.id = holder => Required \subseteq met
<1>1. CASE UNCHANGED allVars
  BY <1>1 DEF allVars, adoptionVars
<1>2. CASE WriteManifest
  <2>1. /\ process.job = "write"
        /\ published' = [published EXCEPT ![process.store.scope] = process.candidate]
    BY <1>2 DEF WriteManifest
  <2>2. DOMAIN published = {"user", "system"}
    BY DEF ProvenInv, HandInv, TwoStores
  <2>3. scope = process.store.scope /\ published'[scope] = process.candidate
    BY <2>1, <2>2
  <2>4. /\ Validate(process.candidate) /\ process.candidate.scope = process.store.scope
        /\ ProvenFor(process.candidate)
    BY <2>1 DEF ProvenInv, HandInv, Held, AboutToWrite
  <2> QED
    BY <2>3, <2>4 DEF ProvenFor
<1>3. CASE AdoptionNext /\ ~WriteManifest
  <2>1. UNCHANGED published
    BY <1>3 DEF AdoptionNext, AccountStep, adoptionVars, Start, ProcessDies, RenameCaller,
       SelectDedicatedAccount, SelectDedicatedAccountObservation, ReverifyForAdoption, Adopt,
       InspectEstablishedDedicatedAccount, EstablishedDedicatedAccountObservation,
       DeriveDedicated, DedicatedDerived, DeriveCurrentUser, OpenSystemStore, MakeCanonical,
       ScopePromotionCanonical, PrepareCandidate, PrepareDedicatedCandidate, PromotionCandidate,
       RevalidateBeforeReplace, RevalidateDedicatedBeforeReplace, DedicatedRevalidated, Wait
  <2> QED
    BY <2>1
<1> QED
  BY <1>1, <1>2, <1>3

(***************************************************************************)
(* For any bases and any number of accounts, changes and processes: what   *)
(* replaces a manifest is valid, of the scope of its store, and names a    *)
(* worker that was proven to be that worker since the last validation      *)
(* began.                                                                  *)
(***************************************************************************)
THEOREM PublishedProven == AdoptionSpec => PublishedIsProven
<1>1. AdoptionInit => ProvenInv
  BY ProvenInit
<1>2. ProvenInv /\ [AdoptionNext]_allVars => ProvenInv'
  BY ProvenNext
<1>3. ProvenInv /\ [AdoptionNext]_allVars =>
        \A scope \in {"user", "system"} : published'[scope] # published[scope] =>
          LET manifest == published'[scope] IN
          /\ Validate(manifest) /\ manifest.scope = scope
          /\ "worker" \in manifest.roles =>
               IF manifest.identity.mode = "current-user" THEN "named" \in met
               ELSE /\ manifest.identity.id \in foundEmpty
                    /\ manifest.identity.id = holder => Required \subseteq met
  BY PublishStep
<1> QED
  BY <1>1, <1>2, <1>3, PTL DEF AdoptionSpec, PublishedIsProven
==============================================================================
