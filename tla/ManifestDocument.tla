-------------------------- MODULE ManifestDocument --------------------------
(***************************************************************************)
(* What a machine's manifest may say, what Styrn derives for a worker, and *)
(* which manifest a store takes for its own (src/manifest/mod.rs). A       *)
(* manifest is a record of what these rules tell apart: uuid is "v7" or    *)
(* another text, root the family of directories that paths.root lies in,   *)
(* leaves whether the five other paths are its children, and flaws the     *)
(* rules about single fields that it breaks. A draft is a manifest whose   *)
(* uuid is None.                                                           *)
(***************************************************************************)
EXTENDS NoValue

Flaws == {"schema", "name", "repeated role", "hostname", "path", "host", "port",
          "fingerprint", "resources", "pending actions", "secret"}

----------------------------------------------------------------------------
(* Principals and identities. *)

PrincipalKind(os) == IF os = "windows" THEN "sid" ELSE "uid"
IsolationOf(policy) == IF policy = "dedicated" THEN "dedicated-account" ELSE "shared-user"

Principal(os, id, name, policy) ==
  [kind |-> PrincipalKind(os), id |-> id, name |-> name, policy |-> policy]

WorkerIdentityFor(principal) ==
  [mode |-> principal.policy, kind |-> principal.kind, id |-> principal.id,
   name |-> principal.name, isolation |-> IsolationOf(principal.policy)]

IdentityAgrees(identity) == identity.isolation = IsolationOf(identity.mode)
PrincipalOf(identity) ==
  [kind |-> identity.kind, id |-> identity.id, name |-> identity.name, policy |-> identity.mode]

----------------------------------------------------------------------------
(* The directories of a worker. *)

\* The user's own place is the current user's; on every system the scope decides the root.
ResolveWorkerDirectoryLayout(scope, principal, current) ==
  IF scope = "user" /\ (principal.policy # "current-user" \/ principal # current) THEN None
  ELSE [scope |-> scope, principal |-> principal, root |-> scope]

\* Families of roots: "user" and "system" are those of the two scopes, "elsewhere" is
\* neither, "foreign" is that of another system's home directories.
OppositeScopeFamily(os, scope, root) ==
  \/ scope = "user" /\ root = "system"
  \/ scope = "system" /\ root = "user"
  \/ os = "linux" /\ root = "foreign"

PathsValid(manifest) ==
  /\ "path" \notin manifest.flaws /\ manifest.leaves
  /\ ~OppositeScopeFamily(manifest.os, manifest.scope, manifest.root)

----------------------------------------------------------------------------
(* MachineManifest::validate. *)

WorkerValid(manifest) ==
  /\ manifest.identity # None
  /\ IdentityAgrees(manifest.identity)
  /\ manifest.identity.kind = PrincipalKind(manifest.os)
  /\ manifest.identity.mode = "dedicated" => manifest.scope = "system"
  /\ manifest.transport # None
  /\ manifest.transport.user = manifest.identity.name

Validate(manifest) ==
  /\ manifest.uuid = "v7"
  /\ manifest.scope # None
  /\ manifest.roles # {}
  /\ IF "worker" \in manifest.roles THEN WorkerValid(manifest) ELSE manifest.identity = None
  /\ PathsValid(manifest)
  /\ manifest.flaws = {}

WithMachineId(draft, uuid) == [draft EXCEPT !.uuid = uuid]
WithoutMachineId(manifest) == [manifest EXCEPT !.uuid = None]

----------------------------------------------------------------------------
(* What is derived for a worker from a draft. *)

ProjectionBaseFits(base, scope, os) ==
  /\ base.scope = scope /\ "worker" \in base.roles
  /\ base.os = os
  /\ base.transport # None

CurrentUserBaseFits(base, os) == ProjectionBaseFits(base, "user", os)
DedicatedBaseFits(base, os) == ProjectionBaseFits(base, "system", os)

\* The principal must be the one that the process has now.
CurrentNativePrincipal(principal, current) ==
  principal.policy = "current-user" /\ principal = current

CurrentUserProjection(os, principal, layout) ==
  IF layout = None \/ layout.scope # "user" \/ layout.principal # principal THEN None
  ELSE [scope |-> "user", os |-> os, principal |-> principal,
        identity |-> WorkerIdentityFor(principal), user |-> principal.name,
        root |-> layout.root]

DedicatedProjection(os, principal, layout) ==
  IF layout = None \/ principal.policy # "dedicated" \/ layout.scope # "system"
       \/ layout.principal # principal
  THEN None
  ELSE [scope |-> "system", os |-> os, principal |-> principal,
        identity |-> WorkerIdentityFor(principal), user |-> principal.name,
        root |-> layout.root]

FromProjection(base, projection) ==
  [base EXCEPT !.scope = projection.scope, !.os = projection.os,
               !.identity = projection.identity, !.transport.user = projection.user,
               !.root = projection.root, !.leaves = TRUE, !.flaws = @ \ {"path"}]

\* None when there is no projection or when what comes of it is not valid.
Candidate(base, projection) ==
  IF projection = None THEN None
  ELSE LET draft == FromProjection(base, projection) IN
       IF Validate(WithMachineId(draft, "v7")) THEN draft ELSE None

CurrentUserCandidate(base, projection) == Candidate(base, projection)
DedicatedCandidate(base, projection) == Candidate(base, projection)

----------------------------------------------------------------------------
(* What a store takes for its own. *)

SamePaths(manifest, projection) == manifest.root = projection.root /\ manifest.leaves

MatchesCurrentUser(manifest, projection) ==
  /\ manifest.os = projection.os
  /\ IdentityAgrees(manifest.identity)
  /\ manifest.identity = projection.identity
  /\ manifest.transport # None /\ manifest.transport.user = projection.user
  /\ SamePaths(manifest, projection)

\* Mutant: any dedicated account of the same name will do.
MatchesDedicatedName(manifest, projection) ==
  /\ manifest.os = projection.os
  /\ IdentityAgrees(manifest.identity) /\ manifest.identity.mode = "dedicated"
  /\ manifest.identity.name = projection.principal.name
  /\ manifest.transport # None /\ manifest.transport.user = projection.user
  /\ SamePaths(manifest, projection)

MatchesDedicated(manifest, projection) ==
  /\ manifest.os = projection.os
  /\ IdentityAgrees(manifest.identity)
  /\ PrincipalOf(manifest.identity) = projection.principal
  /\ manifest.identity.mode = "dedicated"
  /\ manifest.transport # None /\ manifest.transport.user = projection.user
  /\ SamePaths(manifest, projection)

\* The store of the current user, with the user's directories.
CanonicalCurrentUser(manifest, os, principal, current) ==
  LET projection ==
        CurrentUserProjection(os, principal, ResolveWorkerDirectoryLayout("user", principal, current))
  IN  /\ CurrentNativePrincipal(principal, current)
      /\ projection # None /\ MatchesCurrentUser(manifest, projection)

\* The store of a dedicated account, once the account has been verified anew.
CanonicalDedicated(manifest, os, principal) ==
  LET projection ==
        DedicatedProjection(os, principal, ResolveWorkerDirectoryLayout("system", principal, None))
  IN  projection # None /\ MatchesDedicated(manifest, projection)

\* validate_manifest_binding_with; verified is the principal of the account verified anew.
ManifestBinding(store, manifest, os, current, verified) ==
  /\ manifest.scope = store.scope
  /\ "worker" \in manifest.roles =>
       /\ manifest.identity # None
       /\ CASE store.binding = "principal" ->
                 IdentityAgrees(manifest.identity)
                   /\ PrincipalOf(manifest.identity) = store.principal
            [] store.binding = "current-user" ->
                 CanonicalCurrentUser(manifest, os, store.principal, current)
            [] store.binding = "dedicated" ->
                 verified # None /\ CanonicalDedicated(manifest, os, verified)

NewUser(principal) == [scope |-> "user", principal |-> principal, binding |-> "current-user"]
NewSystem(principal) == [scope |-> "system", principal |-> principal, binding |-> "principal"]
NewSystemDedicated(principal) ==
  [scope |-> "system", principal |-> principal, binding |-> "dedicated"]
=============================================================================
