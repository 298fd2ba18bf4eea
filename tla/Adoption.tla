------------------------------- MODULE Adoption -------------------------------
(***************************************************************************)
(* From a selected account, or from the user that runs setup, to a         *)
(* machine manifest that names it as the worker: the selection and the     *)
(* prerequisite of dedicated_account.rs, the derivation of a draft, the    *)
(* store that is bound to the account, the candidate and its publication,  *)
(* and the recovery of an adopted account from what a promotion left. One  *)
(* process at a time does this, one call after the other; job is the call  *)
(* that waits for an inspection of the account. Between any two steps the  *)
(* machine's accounts may change and the process may die; a call that      *)
(* fails ends the process.                                                 *)
(***************************************************************************)
EXTENDS DedicatedAccount, ManifestDocument

CONSTANTS Bases,    \* the drafts that setup starts from
          MaxStarts

VARIABLES caller,    \* the name that the user's id has now
          process,   \* what the process holds
          evidence,  \* the account that the intent of a promotion names, 0 for none
          published, \* the manifests, by scope
          starts,
          foundEmpty \* accounts that were selected and had nothing in their home then

adoptionVars == <<caller, process, evidence, published, starts, foundEmpty>>
allVars == <<platform, world, look, met, adoptionVars>>
still == <<platform, world, look, met>>

Selector == "worker"
CallerId == MaxAccounts + 1

\* A base is a MachineManifest, and no principal and no policy is missing.
IsManifest(m) ==
  /\ m = [uuid |-> m.uuid, scope |-> m.scope, roles |-> m.roles, os |-> m.os,
           identity |-> m.identity, transport |-> m.transport, root |-> m.root,
           leaves |-> m.leaves, flaws |-> m.flaws]
  /\ m.transport # None => m.transport = [user |-> m.transport.user]

ASSUME AdoptionAssumption ==
  /\ \A base \in Bases : IsManifest(base)
  /\ None \notin [kind : {"uid", "sid"}, id : Nat, name : {Selector}, policy : {"dedicated"}]
  /\ None \notin {"current-user", "dedicated"}

Current == Principal(platform, CallerId, caller, "current-user")
Dedicated(id) == Principal(platform, id, Selector, "dedicated")

\* handle: the account that is adopted, or about to be; 0 for none.
NoProcess ==
  [operator |-> None, policy |-> None, job |-> "idle", handle |-> 0,
   draft |-> None, store |-> None, candidate |-> None]

Over == process' = NoProcess

\* verify_worker_principal: the id has the name that the principal says.
VerifiedPrincipal(principal) ==
  IF principal.policy = "dedicated"
  THEN principal.id = holder /\ "named" \notin accounts[holder]
  ELSE principal = Current

Idle(policy) == process.policy = policy /\ process.job = "idle"

Wait(for, mode) ==
  /\ Idle("dedicated") /\ process' = [process EXCEPT !.job = for]
  /\ BeginInspection(mode)
  /\ UNCHANGED <<caller, evidence, published, starts, foundEmpty>>

\* reverify_and_bind: the account that is healthy now must be the one of the handle.
Reverified(account) == look.answer = "healthy" /\ look.id = account

Done(for) ==
  /\ process.job = for /\ look.answer # "none"
  /\ look' = NoLook /\ met' = IF for = "replace" THEN met ELSE {}
  /\ UNCHANGED <<platform, world, caller, starts>>

----------------------------------------------------------------------------
(* The selection of the account and its prerequisite. *)

\* The process finds out who runs it.
Start ==
  /\ process = NoProcess /\ starts < MaxStarts /\ starts' = starts + 1
  /\ \E policy \in {"current-user", "dedicated"} :
       process' = [process EXCEPT !.operator = Current, !.policy = policy]
  /\ UNCHANGED <<still, caller, evidence, published, foundEmpty>>

SelectDedicatedAccount ==
  process.handle = 0 /\ evidence = 0 /\ Wait("select", "initial")

\* A healthy account is looked at once more; the operator must still be who it was.
SelectDedicatedAccountObservation ==
  /\ Done("select")
  /\ IF look.answer = "healthy" /\ VerifiedPrincipal(process.operator)
     THEN /\ process' = [process EXCEPT !.job = "selected", !.handle = look.id]
          /\ foundEmpty' = foundEmpty \cup IF "unused" \in met THEN {look.id} ELSE {}
     ELSE Over /\ UNCHANGED foundEmpty
  /\ UNCHANGED <<evidence, published>>

ReverifyForAdoption ==
  /\ process.job = "selected" /\ process' = [process EXCEPT !.job = "adopt"]
  /\ BeginInspection("established")
  /\ UNCHANGED <<caller, evidence, published, starts, foundEmpty>>

Adopt ==
  /\ Done("adopt")
  /\ IF Reverified(process.handle) THEN process' = [process EXCEPT !.job = "idle"] ELSE Over
  /\ UNCHANGED <<evidence, published, foundEmpty>>

\* An adopted account is found again by what the promotion wrote down of it.
InspectEstablishedDedicatedAccount ==
  process.handle = 0 /\ evidence # 0 /\ Wait("recover", "established")

EstablishedDedicatedAccountObservation ==
  /\ Done("recover")
  /\ IF Reverified(evidence)
     THEN process' = [process EXCEPT !.job = "idle", !.handle = evidence]
     ELSE Over
  /\ UNCHANGED <<evidence, published, foundEmpty>>

----------------------------------------------------------------------------
(* The draft and the store. *)

DeriveDedicated ==
  /\ process.handle # 0 /\ process.draft = None /\ platform # "windows"
  /\ Wait("derive", "established")

DedicatedDerived ==
  /\ Done("derive")
  /\ LET worker == Dedicated(process.handle)
         layout == ResolveWorkerDirectoryLayout("system", worker, None)
     IN  \/ \E base \in Bases :
              /\ Reverified(process.handle) /\ VerifiedPrincipal(worker)
              /\ DedicatedBaseFits(base, platform)
              /\ process' = [process EXCEPT !.job = "idle", !.store = NewSystemDedicated(worker),
                   !.draft = DedicatedCandidate(base, DedicatedProjection(platform, worker, layout))]
              /\ process'.draft # None
         \/ Over
  /\ UNCHANGED <<evidence, published, foundEmpty>>

DeriveCurrentUser ==
  /\ Idle("current-user") /\ process.draft = None
  /\ LET worker == process.operator
         layout == ResolveWorkerDirectoryLayout("user", worker, Current)
     IN  \/ \E base \in Bases :
              /\ VerifiedPrincipal(worker) /\ CurrentUserBaseFits(base, platform)
              /\ CurrentNativePrincipal(worker, Current)
              /\ process' = [process EXCEPT !.store = NewUser(worker),
                   !.draft = CurrentUserCandidate(base,
                               CurrentUserProjection(platform, worker, layout))]
              /\ process'.draft # None
         \/ Over
  /\ UNCHANGED <<still, caller, evidence, published, starts, foundEmpty>>

\* A draft that was made elsewhere, for the machine's store.
OpenSystemStore ==
  /\ Idle("current-user") /\ process.draft = None
  /\ \E base \in Bases :
       process' = [process EXCEPT !.draft = base, !.store = NewSystem(process.operator)]
  /\ VerifiedPrincipal(process.operator)
  /\ UNCHANGED <<still, caller, evidence, published, starts, foundEmpty>>

----------------------------------------------------------------------------
(* The candidate and its publication. *)

Ready == process.draft # None /\ process.candidate = None

CandidateFor(verified) ==
  LET manifest == WithMachineId(process.draft, "v7") IN
  IF Validate(manifest) /\ ManifestBinding(process.store, manifest, platform, Current, verified)
  THEN manifest ELSE None

Prepared(candidate) ==
  IF candidate = None THEN Over
  ELSE process' = [process EXCEPT !.job = "idle", !.candidate = candidate]

PrepareCandidate ==
  /\ Idle("current-user") /\ Ready
  /\ Prepared(CandidateFor(None))
  /\ UNCHANGED <<still, caller, evidence, published, starts, foundEmpty>>

\* What the intent of a promotion will hold: the text, and the account it is for.
MakeCanonical == Ready /\ evidence = 0 /\ Wait("canonical", "established")

ScopePromotionCanonical ==
  /\ Done("canonical")
  /\ LET manifest == WithMachineId(process.draft, "v7")
         worker == process.store.principal
         layout == ResolveWorkerDirectoryLayout("system", worker, None)
     IN  IF /\ Reverified(process.handle) /\ Dedicated(process.handle) = worker
            /\ Validate(manifest)
            /\ MatchesDedicated(manifest, DedicatedProjection(platform, worker, layout))
         THEN evidence' = process.handle /\ process' = [process EXCEPT !.job = "idle"]
         ELSE Over /\ UNCHANGED evidence
  /\ UNCHANGED <<published, foundEmpty>>

PrepareDedicatedCandidate == Ready /\ evidence # 0 /\ Wait("prepare", "established")

PromotionCandidate ==
  /\ Done("prepare")
  /\ LET worker == Dedicated(process.handle) IN
     Prepared(IF Reverified(process.handle) /\ VerifiedPrincipal(worker) THEN CandidateFor(worker) ELSE None)
  /\ UNCHANGED <<evidence, published, foundEmpty>>

StillBound(verified) ==
  ManifestBinding(process.store, process.candidate, platform, Current, verified)

RevalidateBeforeReplace ==
  /\ Idle("current-user") /\ process.candidate # None
  /\ IF VerifiedPrincipal(process.operator) /\ StillBound(None)
     THEN process' = [process EXCEPT !.job = "write"]
     ELSE Over
  /\ met' = IF process.operator = Current THEN {"named"} ELSE {}
  /\ UNCHANGED <<platform, world, look, caller, evidence, published, starts, foundEmpty>>

RevalidateDedicatedBeforeReplace ==
  process.candidate # None /\ VerifiedPrincipal(process.store.principal) /\ Wait("replace", "established")

DedicatedRevalidated ==
  /\ Done("replace")
  /\ LET worker == Dedicated(process.handle) IN
     IF Reverified(process.handle) /\ VerifiedPrincipal(worker) /\ StillBound(worker)
     THEN process' = [process EXCEPT !.job = "write"]
     ELSE Over
  /\ UNCHANGED <<evidence, published, foundEmpty>>

WriteManifest ==
  /\ process.job = "write" /\ Over
  /\ published' = [published EXCEPT ![process.store.scope] = process.candidate]
  /\ UNCHANGED <<still, caller, evidence, starts, foundEmpty>>

----------------------------------------------------------------------------
(* What happens to the process. *)

ProcessDies ==
  /\ process # NoProcess /\ Over
  /\ look' = NoLook /\ met' = {}
  /\ UNCHANGED <<platform, world, caller, evidence, published, starts, foundEmpty>>

RenameCaller ==
  /\ Changed /\ caller = "old" /\ caller' = "new"
  /\ UNCHANGED <<holder, accounts, home, records, met, process, evidence, published, starts,
                 foundEmpty>>

AccountStep == (InspectDedicatedAccount \/ WorldChanges) /\ UNCHANGED adoptionVars

AdoptionInit ==
  /\ AccountInit
  /\ caller = "old" /\ process = NoProcess /\ evidence = 0 /\ starts = 0 /\ foundEmpty = {}
  /\ published = [user |-> None, system |-> None]

AdoptionNext ==
  \/ AccountStep \/ Start \/ ProcessDies \/ RenameCaller
  \/ SelectDedicatedAccount \/ SelectDedicatedAccountObservation \/ ReverifyForAdoption \/ Adopt
  \/ InspectEstablishedDedicatedAccount \/ EstablishedDedicatedAccountObservation
  \/ DeriveDedicated \/ DedicatedDerived \/ DeriveCurrentUser \/ OpenSystemStore
  \/ MakeCanonical \/ ScopePromotionCanonical
  \/ PrepareCandidate \/ PrepareDedicatedCandidate \/ PromotionCandidate
  \/ RevalidateBeforeReplace \/ RevalidateDedicatedBeforeReplace \/ DedicatedRevalidated
  \/ WriteManifest

(***************************************************************************)
(* What replaces a manifest is valid, of the scope of its store, and names *)
(* a worker that was that worker since the last validation began: the      *)
(* user's id bore its name; a dedicated account, when it has not lost its  *)
(* name meanwhile, met every requirement at some moment, and it is one     *)
(* that was found with nothing in its home before it was adopted.          *)
(***************************************************************************)
PublishedIsProven ==
  [][\A scope \in {"user", "system"} : published'[scope] # published[scope] =>
       LET manifest == published'[scope] IN
       /\ Validate(manifest) /\ manifest.scope = scope
       /\ "worker" \in manifest.roles =>
            IF manifest.identity.mode = "current-user" THEN "named" \in met
            ELSE /\ manifest.identity.id \in foundEmpty
                 /\ manifest.identity.id = holder => Required \subseteq met]_allVars

(***************************************************************************)
(* What is derived for a worker is valid, its own store takes it, and no   *)
(* store of another scope, of another account or of the other user does.   *)
(***************************************************************************)
DerivedFitsItsStoreOnly ==
  process.draft # None /\ process.store.binding # "principal" =>
    LET store == process.store
        manifest == WithMachineId(process.draft, "v7")
        others == {NewUser(Current), NewSystem(Current)}
                    \cup {NewSystemDedicated(Dedicated(id)) : id \in 1..MaxAccounts}
    IN  /\ Validate(manifest)
        /\ ManifestBinding(store, manifest, platform, store.principal, store.principal)
        /\ \A other \in others \ {store} :
             ~ManifestBinding(other, manifest, platform, other.principal, other.principal)

AdoptionSpec == AdoptionInit /\ [][AdoptionNext]_allVars
=============================================================================
