# A TLA+ model of styrn

Styrn is a command-line tool that sets up development machines as workers and lets a
controller enroll and operate them. `styrn setup` computes a plan, applies it with a durable
journal (the *receipt*), asks a privileged child for what needs privilege, and publishes a
machine manifest with the actions a human still has to take. A controller enrolls such
machines in an inventory, pins their host keys, and talks to `styrn rpc` on them over ssh.
This directory holds TLA+ modules translated from that code, TLC configurations that check
them on small instances, and proofs checked by TLAPS for every value of the constants.

    tlc -workers 2 -config MCSetup_faults.cfg MCSetup.tla      # one run
    tlapm SetupProofs.tla && tlapm ControllerProofs.tla        # some of the proofs

`PROJECT.json` lists the components, the runs, the source lines every definition
translates, the hazards of the code, and the theorems.

## 1. Inventory

Paths are relative to `src/src/`.

### Receipt and apply journal: `setup/receipt/mod.rs`, `setup/action/execution.rs`

- State: `receipt.json` (append-only entries, *applied* or *pending*, and the list of
  pending publications over them), `receipt.lock`, one file per unresolved *transaction
  intent* (prepared or succeeded), and the *pending-publication sidecar*.
- Operations: `read_snapshot` (lock-free), `begin_apply` / `pending_intents`,
  `prepare_intent`, `mark_intent_succeeded`, `append_succeeded_intent`,
  `retire_finalized_intent`, `record_pending`, `complete_execution`; and
  `begin_pending_publication` with `publish_manifest`, `recover_pending_publication`,
  `finalize_pending_publication`.
- Interaction: `apply_plan_with_runner` drives an apply session; each action calls back
  into the session between its mutation and its report (`execute_prepared_and_bind`).
- Hard: a crash between any two durable writes; a write that fails before or after its
  rename; two processes between whose sessions the receipt moves; actions that are
  pending, done and pending again.
- Correct when: it claims no mutation styrn did not perform and forgets none it did; it
  only grows; every version of it that is ever on disk is accepted by its own readers;
  an interrupted transaction is finished or left to a human, never lost.

### Pending publication: `setup/pending.rs`, `setup/receipt/mod.rs`, `manifest/mod.rs`

- State: the sidecar (the receipt prefix it captured, the publication to add, the manifest
  before and after), and a completion token in memory (the occurrences recorded by the
  apply and the effective document it ended with).
- Operations: validate the token, recover an unfinished publication, write the sidecar,
  replace the manifest, checkpoint the publication in the receipt, remove the sidecar.
- Hard: two files that must change together; the token is used after the lock was dropped
  and retaken; recovery by a process with another plan; a manifest edited in between.
- Correct when: a publication happens once or not at all, against exactly the receipt its
  process had seen; manifest and last publication agree; a foreign manifest is never
  overwritten by a recovery.

### Setup orchestrator: `setup/orchestrator.rs`, `setup/mod.rs`, `setup/interactive.rs`

- State: the plan, the manifest draft, one retry counter. Nothing on disk of its own.
- Operations: prepare (probe, plan, preflight snapshot), apply, repeat the ssh probes and
  re-apply if they changed the enrollment-card action, publish, and re-apply once if the
  completion was stale.
- Hard: probes, plan and draft are stale as soon as they are made.
- Correct when: every run ends, and running setup again converges.

### Actions: `setup/action/`

- State: worker directories, `authorized_keys`, a dedicated account that is selected, proven
  and adopted; `FoundationAction` carries a check fixed at planning.
- Operations: `check`, `prepare`, `execute_prepared_and_bind`; `select_dedicated_account`,
  the inspections of an account and its adoption.
- Hard: check and execution are apart; a mutation that succeeds and whose completion fails
  (`AppliedThenFailed...`); creation evidence that outlives a crash; a file that others
  append to and editors replace; an account that administrators change between two lookups.
- Correct when: nothing existing is replaced, no line of others is lost, a directory with
  active creation evidence always has an intent that answers for it, and a manifest names a
  dedicated account only as it was proven.

### Platform: `platform/`

- State: files and directories with identity, ownership, and creation provenance (an
  extended attribute and marker on Linux and macOS; on Windows only handles, a privilege of
  a thread and a lock in memory); the credentials of processes; the account databases.
- Operations: `create_worker_directory_node`, `inspect_worker_directory_node`,
  `retire_succeeded_worker_directory_evidence`; durable no-replace publication, locks;
  verified opens along a path; capture of the user behind an elevated process, drop of
  privilege, the command line of an elevated child; the baseline probes.
- Hard: a creation protocol of a dozen system calls, each of which may be the last; looks at
  one directory after the other while other accounts rename; three systems of permissions.
- Correct when: what is created is what is verified, and the provenance tells the two; what
  was verified only its owners can replace; the user phase is the user's and nobody else's.

### Machine manifest store: `manifest/mod.rs`

- State: `manifest.toml`, its lock, in a user's or the protected system store. Operations: the
  publication session (candidate, machine id, replace), `read_or_reconcile_missing_machine_id`
  at RPC start, drafts for the current user or a dedicated account, what a store accepts.
- Hard: two servers minting an id; a draft derived from a manifest that has since changed;
  a store bound to an account that is no longer the same.
- Correct when: a machine keeps the id that controllers pinned; a manifest lies only in the
  store of its scope and account; the operator's keys stay the operator's.

### Scope promotion and privileged authorization: `setup/promotion.rs`, `setup/action/authorization/`

- State: promotion intent, protected publication, completion; authorization records of a
  privileged child (`authorization-request.json`, one record per request taken up).
  Operations: promote user to system scope in two store families; display, ask, reserve,
  consume and apply a privileged request.
- Hard: three recognised recovery states among many possible ones; the receipt retaken
  after the ordinary apply to add privileged pending actions; requests put back, children
  run by hand, kills and losses of power between reservation and consumption.
- Correct when: every interruption of a promotion resumes, and what runs with privilege was
  displayed, agreed to within its lifetime, and runs for one child.

### Controller inventory: `inventory/store.rs`, `main.rs`

- State: inventory file and lock, `known_hosts`, manifest caches.
- Operations: enroll, trust, refresh, connect.
- Hard: network between a read and the locked write; three files updated one by one;
  refresh writes caches without the lock; lock-free verified reads.
- Correct when: a connection is only made under the current pin, an alias and a machine id
  are enrolled once, and a cache belongs to an enrolled host.

### RPC session and transport: `rpc/`, `transport/`

- State: hello/negotiated/terminated; capture threads and limits of one `exec`; the
  controller key pair with its lock. Operations: hello, sequential requests, exec,
  `load_or_create`.
- Hard: output limits against the end of the child; grandchildren holding pipes; releases
  of which each knows only its own versions; a crash between the two halves of a key.
- Correct when: a call is executed at most once and answered in full, a session ends, and a
  controller has one key.

### Plan, probes, configuration: `setup/plan/`, `setup/probe*`, `setup/config.rs`, `cli/`

- State: the observations of one setup, the layers of its configuration, and the replay file
  an interactive setup leaves in the working directory.
- Operations: observe (rows of reads and commands), compute the plan, fill in the manifest,
  the enrollment card and the findings of `styrn doctor`; load or ask, validate, persist.
- Hard: a probe of several looks at a host that changes; reads that fail; a replay file that
  two setups write.
- Correct when: what is said of a machine was so, and a replay repeats its setup.

### Without shared state

Output formatting and resource counters. `desktop`, `git`, `harness`, `integrations`, `jobs`,
`mcp`, `notification`, `project` and `scheduler` are one-line stubs in this commit.

## 2. The modules

    ReceiptDocument       the receipt as a value, its validity, the append checks
      SetupState          disk, processes, resources; locks, failing writes, steps
        ApplyPlan             the apply journal
        PendingPublication    the publication protocol
          Setup               orchestrator, crashes, environment, properties
            MCSetup               small instances
            SetupProofs           locks, journal, ledger, for all constants
    EffectiveLedger       the abstract specification Setup implements

    WorkerResource        a worker directory as ApplyPlan takes it: one step each
    WorkerNode            its creation call by call; implements WorkerResource
    AuthorizedKeys        a stanza in a file that others write too
    PrivateFile           names and data of one directory, now and after a loss of power
      ControllerIdentity  the key pair of a controller
      SetupConfig         configuration, interactive answers and the replay file
        FilesProofs       of these four, for all constants
    TrustedPath           whose directories a store may lie below
      PathProofs          what nobody else can replace, for all constants
    DedicatedAccount      inspections of an account that changes
    ManifestDocument      manifests, stores, and which takes which
      Adoption            from an account to the manifest that names it (extends both)
        AdoptionProofs    what is derived and published, for all constants
        MCFiles           small instances of WorkerNode ... Adoption

    ManifestStore         the manifest between servers, init, setup and the operator
    Authorization         requests for privilege
    WindowsNode           creation of a directory under Windows, between two setups
    Elevation             the border of privilege: command line, tokens, credentials
      AuthorityProofs     of these four, for all constants
      MCAuthority         small instances of these four

    NoValue, Platform     None and the variable platform, which modules that are extended
                          together share

    Promotion             from user to system scope
      MCPromotion
      PromotionProofs     retirement and recovery, for all constants

    HostTable             the abstract specification of the inventory
    Inventory             its files, lock and the steps of a command on them
      Controller          enroll, trust, refresh, connect; workers that change
        MCController
        ControllerProofs  the refinement and the pins, for all constants

    ExecCapture           run_exec: command, heirs, pipes, capture threads
      RpcSession          negotiation, calls, answers, every end of a session
    Baseline              probes, and the plan, manifest, card and findings made of them
      RpcSessionProofs    calls, versions, exec and what is said, for all constants
      MCRpcSession        small instances of the two

The MC modules `MCFiles`, `MCAuthority` and `MCRpcSession` look at several components in one run: a
variable `part`, fixed at the start, says which of them moves, and the others stay in their initial state. These components share no state in the code on the paths
that are modelled, so that every behaviour of all of them is made of one of each, and a property
that speaks of one component holds of the whole if it holds of the part. Where components do
share state they are in one specification: receipt, publication, manifest and orchestrator in
`Setup`, inventory, caches and changing workers in `Controller`, server, client and capture in
`RpcSession`, account, draft and store in `Adoption`.

### Setup

**ReceiptDocument** has no variables. `DocumentValid` is `ReceiptDocument::validate`
(structure and epochs), `Accepts` is
`parse_for_scope_with_pending_publication_intent`, `Effective` is
`effective_receipt_document`, `CurrentOccurrence` is `current_pending_occurrence`, and the
`*CandidateOK` operators are the three checks before a write.

**SetupState** declares the state:

| variable | code |
| --- | --- |
| `receipt`, `intents`, `sidecar`, `manifest` | the files |
| `res` | the resource of each action: absent, evidence, owned, exact, foreign, lost |
| `lock` | the `flock` on the receipt lock, held by the session value |
| `pc`, `job` | where each process is, and its plan, intent in hand, token, draft, retries |
| `nextId` | the next UUIDv7, for entries, publications and machine ids |
| `budget` | what is left of the bounds |
| `made` | history variable: the entry ids under which a mutation was performed |

A step is one durable effect, with the checks before it. `Outcomes` gives every durable
write three ends: done, failed before its rename, failed after it. `End` is any error or
return: the session value goes out of scope and the lock with it.

**ApplyPlan** has an action for each call of an apply session. `BeginApply` also chooses
what recovery does with an intent (`RecoveryStep`); recovery then uses the same actions as
a fresh mutation, with `replay` or `idx = 0`. `CreateIntent` and `WriteIntent` are the two
halves of `prepare_intent`, which creates the file under its final name before it writes
it. `Execute` also yields `created_late`, where the directory is made, its completion
failed, and its retained evidence is bound all the same, and `unbound`, where the mutation
happened and nothing was bound.

**PendingPublication** has an action for each step of `publish_manifest` and of the
recovery it begins with. `BeginPublication` includes the stale-completion answer of
`apply_rootless_setup`.

**Setup** adds preparation with its lock-free snapshot in two steps (sidecar, then
receipt), the repeated probes (`ProbeAgain`), `Crash`, `Interfere` (others create, spoil or
remove resources) and `EditManifest` (others change or remove the manifest, under its
lock). It states all properties.

**EffectiveLedger** is what receipt and sidecar promise together: an append-only ledger on
which a process publishes by compare-and-swap against the version it looked at, with no
crash, failure, recovery or retry in sight. The refinement mapping reads the effective
document (a publication takes place when its *sidecar* gets its name) and, as the view of
a process, the witness of its completion token.
### Files and directories

**WorkerNode** has one action for each call of `create_worker_directory_node`: staging, marker,
provenance record, publication without replacing, verification, binding to the journal,
retirement of the marker; the inspection in four looks (`SeeStaging`, `SeeActive`, `SeeRetired`,
`Report`); `Resume`, what a later session does with a succeeded intent. `Crash` may come between
any two; others make, remove and spoil the directory. `keeps` tells the systems that keep
evidence (linux, macos) from windows. Its mapping `Res` reads the state `res` of `SetupState`
off the names on the disk, and **WorkerResource** is what `ApplyPlan` assumes of it, so that the
single steps `Execute` and `RetireEvidence` of the journal are justified.

**WindowsNode** is the same creation under windows, where nothing on the disk tells who made a
directory. `OpenAnchor` to `Bind` are the calls of one setup; `mutex` is the named lock, which
is derived from the identity of the anchor and not from a path; `hand` is the handle, the
retained evidence and the two errors (of the operation, of giving back the privilege) that
`reconcile_windows_privileged_worker_mutation` joins. Others replace the anchor, make and remove
the directory and change its owner. `excused` records those setups that somebody else, or a
failing last check, kept from binding: what they made is theirs no longer or cannot be proven.

**AuthorizedKeys** keeps files as sequences of lines. An attempt creates the file without
replacing, or appends one stanza in one write that may be cut short; others append, and editors
read and later save under the same name. The keys are a set, and a stanza has them in any order. **PrivateFile** has a directory twice: as programs see
it and as the disk has it; `AfterPowerLoss` lets any unsynced part go. **ControllerIdentity**
and **SetupConfig** use it: the first for `load_or_create` under its flock, the second for
`persist_interactive_replay`, after the layers of `load_effective_rootless_setup`.

**TrustedPath** is the walk of `prepare_destination`, `verify_manifest_ancestors`,
`open_verified_manifest_file_for_read` and `worker_node_location`, one directory at a time, with
the permissions of linux, macos and windows as records, while strangers take what they may.

**DedicatedAccount** has each native lookup of an inspection as an action; what an inspection
does with the answer (give up, read traits, find another account) is a record per system.
**ManifestDocument** has no variables: what a manifest may say and which store takes it.
**Adoption** composes the two: selection, prerequisite, adoption, derivation, candidate,
revalidation under the lock, publication, and recovery from what a promotion left.

### Authority

**ManifestStore** has the writers of one manifest: servers (`read_or_reconcile_missing_machine_id`,
with its unlocked first and locked second read), `machine init`, setup with a draft derived from
the manifest it read at planning, and the operator. **Authorization** has the parent (`Begin` to
`Withdraw`), the child (`ReadRequest` to `Succeed`), kills, losses of power, the clock, requests
put back and children run by hand. **Elevation** is sequential: what setup captures of the user
behind it, the system calls that drop the privilege, and the quoting of the command line against
the documented rules of the reader (`Argv`, external).

**Promotion** has the files of both stores as what their digests bind, and every function of
`promotion.rs` in its steps. In this commit only tests call these functions; so any process may
call any of them at any time.

### Controller

**Inventory** has the files, the lock, and the steps `OpenInventory` to `CheckCache` that
commands are made of, with failing writes before and after their rename; **Controller** makes
enroll, trust, refresh and connecting commands of them, and workers change key, id and name.
**HostTable** is what all of it promises: a table with insertion of new hosts and
compare-and-swap of one pin.

**ExecCapture** and **RpcSession**: output is counted in chunks; `writers` has who can still
write to a pipe, the command or its heirs. A frame is whole, torn or malformed. A release is the
versions, schema and methods it knows, so that one session may join any two releases.

**Baseline**: a probe is a row of reads, each with the facts it tells, what its failure means
and what is decided after it; the host is a set of facts that changes between two reads. What
setup and doctor make of the answers follows `SetupPlan::compute`, the manifest sections, the
card and the findings.

### Seeded faults

The operators under a comment "Seeded fault" are faulty variants of a definition; each
property is known to reject one of them (`PROJECT.json`, "mutants").

### Abstractions

- A digest of a document is the document: SHA-256 is taken to be injective. Ids are not given
  out twice; neither are inodes, Windows file ids and account ids.
- In `Setup`: timestamps, principals, path layout and file-security checks are left out: they
  succeed. Errors while reading are not told apart from a crash, which ends a session as well.
- In `Setup` a crash is the end of a process. Loss of power, where a rename without its fsync may
  disappear, is modelled for what `ControllerIdentity` and `Authorization` publish, not for the
  receipt.
- In `ApplyPlan` a directory creation and the retirement of its provenance are one step each,
  which `WorkerNode` justifies. `Execute` also allows `unbound` over a directory that was there
  before, which the calls cannot end in: the refinement shows that they do less.
- In `ApplyPlan` a file counts as right or wrong whatever its parameter; `AuthorizedKeys` looks at
  its lines.
- In `Setup` a plan is chosen from `Plans` and a draft from `Drafts` when they are computed. How a
  draft depends on the manifest read at planning is in `ManifestStore`.
- Human actions keep their recorded parameters across plans of the runs, although the
  conflict `record_pending` reports otherwise is in the model.
- `TrustedPath`: nobody with a right to it changes permissions or owners during a walk, a store is
  kept from the worker where it is a system store, and links, as well as genuine files moved into
  place, are left out. A directory that was moved away is put back by the account that moved it,
  which still has it: two accounts that work together, of which styrn is kept from one at one step
  and from the other at the next, could otherwise bring back to the second what only the first could
  take, and the check of the second step would be blamed for it.
- `DedicatedAccount`: names are not given back to an account that lost them. `Adoption` derives
  nothing for a dedicated account under windows, as the code does not; the XDG variables are at
  their defaults.
- `WindowsNode`: the parents between anchor and directory exist, and the normalisation of the lock
  name is the identity of the anchor. A change of the worker's account is a failing check.
- `ControllerIdentity`: `OneKeyForEver` leaves out behaviours with two attempts cut off between a
  name and its fsync followed by a loss of power (`Bearable`): there the code trusts a name that
  is not on the disk, and no document promises more.
- `RpcSession`: one session at a time; two sessions of one worker share nothing but the manifest,
  which is in `ManifestStore`.

## 3. Runs

Deadlock is checked in the runs of `MCController` and `MCRpcSession`, where there is always something to
do or an end of its own (`Terminated`). Elsewhere bounds stop the system by design.

**MCSetup_interleaving** - two processes, a crash, no failing writes; the plans are "make a
directory, and the enrollment card is pending" and "a tool is pending". So pending actions
recur, differ in equal number, and vanish; the card may flip between two probes of one run.
`MaxIds = 8` allows four to five runs in all, enough for a pending action to be published,
superseded and published again in a third epoch while another process is at any step.
Processes are interchangeable and the properties are safety only, so symmetry is sound.
  - `JournalAlwaysReadable`: both readers under the lock accept what is on disk at every
    instant. A receipt that its own writer produced and its reader refuses would lock setup
    out for good.
  - `ManifestAgrees`: with nobody at work and nothing unfinished, the manifest lists the
    pending actions of the last publication, also by the short path without a sidecar.
  - `AppendOnly`: no step rewrites or drops an entry or a publication; in particular a
    recovered checkpoint extends the receipt of now and not the prefix it captured.
  - `ImplementsLedger`: every step is a step of `EffectiveLedger`, so that no publication
    closes over an entry or a publication its process had not seen.

**MCSetup_faults** - one process at a time, so that the room goes to failures: two failing
writes or mutations, one crash, two changes to resources and one to the manifest at any
points. The plans share a file under two parameters, and one does not mention the
directory, so that recoveries meet plans that do not match. `MaxIds = 5` allows two
mutations, a publication and a recovery by a third run; two failures reach a failure during
the recovery from a failure.
  - `OwnershipIsEarned`: an applied entry or succeeded intent stands for a mutation styrn
    performed under that id. Recovery may not adopt what merely looks done.
  - `NoMutationForgotten`: a mutation is recorded in the receipt or named by an intent.
  - `OneIntent`: there is never a second intent, which `pending_intents` calls a conflict
    for ever.
  - `NoOrphanEvidence`: active creation evidence, which every check reports as a conflict,
    has an intent.
  - `MachineIdStable`, `ThirdManifestStays`: no retry or recovery replaces the machine id,
    nor a manifest that is neither before nor after.

**MCSetup_progress** - two processes that run the same setup again and again, one failing
write, one crash, the fairness below.
  - `RunsEnd`: every run ends. The processes invalidate each other's completions, and still
    neither waits or retries for ever.
  - `RerunsConverge`: from some time on no intent and no sidecar is left and there is a
    manifest, unless a human is needed (`NeedsReconciliation`: a torn intent, a prepared
    intent whose resource exists, a succeeded intent whose directory is gone). The design
    promises convergence with exactly these exceptions. `MaxIds = 30` leaves room for more
    runs than the failure and the crash can spoil.

**MCFiles_files** - six parts. Directories: `MaxOthers = 4`, `MaxFaults = 5`, enough for failures in
creation, in the recovery and in the retirement of one directory while others exchange it between.
Keys: a file of at most 6 lines, two attempts, three edits, one short write. Identity: two users,
two keys, two stops, one tidy-up, one loss of power. Configuration: two shells, three runs, one
break, and command lines, files and answers that reach every branch of the layers. Paths: two
ancestors, one move by strangers, every owner and permission the three systems tell apart. Accounts:
two accounts, one change while an inspection runs, two starts of the process; at most one trait of
the account is wrong at first.
  - `ImplementsResource`, `HealthyIsSettled`: the calls do what `ApplyPlan` assumes, and the lock-free
    check, made of four looks, never calls a directory healthy whose creation was cut off.
  - `SuccessEnds` (liveness): what the journal calls a success is finished by a later session.
  - `KeysOnlyAdded`: setup takes no line away and names no other file; an attempt that says the keys
    are applied wrote before a time at which sshd would have accepted them all.
  - `OneKeyForEver`: a key that was returned stays the private key on the disk.
  - `ReplayRepeats`: the replay file in place when a plan is applied gives that setup again.
  - `OnlyOwnersMove`: what was prepared, read, verified or located cannot be replaced at any level by
    an account it is kept from, whatever such an account moved during the walk.
  - `PublishedIsProven`, `DerivedFitsItsStoreOnly`: a published manifest names a worker that met every
    requirement at some moment since the last validation began; what is derived for a worker is
    accepted by its own store, and by no store of another scope or account.

**MCAuthority_authority** - two servers, one `machine init`, one setup, three ids, two edits; two
parents, two children, two privileged actions, two plans that differ in what one of them does, two
requests, one tick of the clock, two troubles (kills, losses of power, requests put back, children
run by hand, changes by others), of which a second request takes up two; all arguments of up to three
characters out of backslash, quote, space and a letter, all callers of three accounts and two sets of
groups, all origins and token postures; two setups under windows, each of which may run as the worker
or as somebody else, two failing calls or kills, two changes by others, two directories that the
anchor's path may name. Two changes are a removal and a replacement, or an anchor that is exchanged and
put back; with two failures, operation and privilege fail in one creation.
  - `OneIdentity`: sessions that start together on a manifest without an id are told one id, the one on
    the disk. `RepairOnlyAddsId`: the repair undoes neither an edit nor a publication.
  - `AuthorizedOnce`: what runs with privilege was displayed with the parameters it runs with, in a
    request a human agreed to within its lifetime, and one child at most acts on a request.
  - `UserPhaseIsTheUsers`: what runs in the user phase is one account's, of which uid, gid, name and
    groups agree, with no way back. `ArgumentsArrive`: the elevated child gets its arguments.
  - `WindowsCreation`: what a setup made is in its journal at the end, though the thread, the
    verification or the privilege failed as well, except where it was killed or `excused`; what is
    called a conflict is settled, so no setup takes the half-made directory of another for a
    foreign one; nobody journals what another made; and a plain success is one without any error.

**MCPromotion_promotion** - two processes, two intents, one ordinary setup, two crashes or failing
writes. A crash in the promotion and one in its recovery are the deepest that differ.
  - `ThreeStates`: every crash leaves one of the recovery states `classify_recovery_state` knows.
  - `RetiredOnlyWhenProven`: the user manifest only goes with checkpoint, authorization and proof in
    place, and with a system manifest of the same machine.
  - `PromotionEnds` (liveness): a promotion that is called again after every crash is finished.

**MCController_races** - two commands, one address, two names and machine ids, three generations of a
key, room for two hosts. One address is where two hosts can meet; the worker at it changes key, id and
name. Commands are interchangeable and the properties are safety only, so symmetry is sound.
  - `HostsDistinct`, `CachesBelong`: no alias or id twice, and each host with its own cache.
  - `NeverUnderOlderPin`: although known_hosts is read after the lock is dropped, and rebuilding it may
    fail with a warning, no command connects under an older pin than the record it selected.
  - `PinsMoveOn`: a `trust` that scanned an earlier key cannot undo a later one.
  - `ImplementsTable`: every step is one of `HostTable`.

**MCRpcSession_session** - a controller of versions 1 and 2 against five releases (one without
`doctor`, one of another schema, one that is newer), the four scripts of the commands; capture limit 1,
pipes of 2 chunks, 2 chunks of output for each stream: a stream may stay within the limit, pass it in
one chunk or in two, and block on the pipe. Probes: three systems, all subjects, one change of the host
while a probe runs; at most one thing wrong with ssh at first, any combination for the others.
  - `ExecIsComplete`: output that is reported is all that was written, by the command or its heirs, and
    no answer leaves the command running or a zombie.
  - `CallsAtMostOnce`: each call of the script is executed at most once and in order, an answer is of the
    call it was taken for, and success means all of them.
  - `OnlyCompatible`: nothing is executed under a version one of the two does not speak, or under an older
    one than both do, or for a controller that cannot read the manifest.
  - `SessionEnds` (liveness): when the executed command and its heirs end, the controller's command does.
  - `SaidIsSoUnlessUnread`, in two parts. `ReadyOnlyIfSo`: ready is only said of what had all it needs at some
    moment since the probe began, whichever reads fail; the card shows the key of the manifest.
    `NotReadyOnlyIfSo`: missing and misconfigured are only said of what was so since the probe began, by all
    facts but those whose own read failed and was taken for a no (`denied` in the record of a probe, kept
    apart from `missed`, what did not hold). A command whose failure stops the probe, or a systemd unit
    that cannot be asked, is never counted against a capability.

**MCRpcSession_unread** - the same probes on a host that does not change.
  - `UnreadIsUnknown`: missing and misconfigured are only said of what was so, without that exception, as the
    implementation plan demands. It is violated (section 5).

**MCSetup_preflight**, **MCSetup_snapshot**, **MCManifestStore_policy** and **MCRpcSession_unread** are
expected to find violations (section 5).

### Fairness

In `Setup`, `Fairness` has weak fairness of each process's steps under way: a process that can move is
scheduled. It has strong fairness of `BeginApply` and `BeginPublication`, which need the
receipt lock: `flock` blocks and wakes its waiters, so that a process that waits while the
lock becomes free again and again gets it. `RerunSpec` adds weak fairness of `PrepareSetup`,
the documented fix path "run `styrn setup` again"; only the two properties about repeated
runs rest on it. No fairness is assumed of a crash, an edit or an interference, and a
failing write is a choice within a step, never an obligation.

`WorkerNode` assumes weak fairness of the session's own steps, of which starting again is one: the same
fix path. `Promotion` assumes weak fairness of each process's steps, and strong fairness of reading a
request and of beginning publication and finalization for an intent: somebody asks for them again, as its
recovery states expect of a caller. `RpcSession` assumes weak fairness of client, server, handler and each
capture thread, which are scheduled; none of ssh being lost, and none of the command, which need not end,
write or leave anything behind. So `SessionEnds` is conditional on the command: nothing in the code ends a
command that runs for ever, as there is no timeout.

## 4. Proofs

Each theorem holds for every value of the constants: any number of processes, any plans, documents of
any length, any bounds. The assumptions are named, and TLC evaluates all of them in its runs:

| module | assumptions | |
| --- | --- | --- |
| SetupState | `ActionsAssumption`, `PlansAssumption`, `NoneAssumption`, `BoundsAssumption` | kinds of actions are disjoint, names are unique in a plan, `None` is no value, bounds are natural numbers |
| Setup | `AbsentAssumption` | `None` is neither a manifest nor a sidecar |
| WorkerNode, ManifestStore, Inventory, Promotion | `NoneAssumption`, `BoundsAssumption`, `KindsAssumption`, `LimitsAssumption` | as above; the kinds of processes are disjoint |
| RpcSession, ExecCapture | `SessionAssumption`, `CaptureAssumption` | versions are numbers, scripts are sequences of methods, limits are numbers |
| WindowsNode | `AbsentAssumption` | `None` is neither a setup nor a directory nor a number |
| AuthorizedKeys | `KeysAssumption` | the keys of a plan are finitely many |
| ControllerIdentity | `IdentityAssumption` | `None` is no user and no number; bounds are natural numbers |
| SetupConfig | `ConfigAssumption` | `None` is no number; the components that are answered have names |
| TrustedPath | `PathAssumption` | a path has at least one directory; `None` is none |
| Adoption | `AdoptionAssumption` | bases are manifests; `None` is neither an account nor a policy |
| Baseline | `BaselineAssumption` | `None` is no truth value, no word and no status |

The method is the same everywhere. An invariant of what each process has in hand at its step is proved
first, with one lemma for each way to move a process and one for each action; the properties follow from
it, or from a further invariant proved on top of it.

### Setup

| SetupProofs | |
| --- | --- |
| `TypeCorrect` | `Spec => []TypeOK` |
| `MutualExclusion` | `Spec => []LockDiscipline`: the lock is held by exactly the process in a locked section |
| `Inductive` | `Spec => []IInv`, which the others use |
| `ReceiptAppendOnly` | `Spec => AppendOnly` |
| `OwnershipEarned` | `Spec => []OwnershipIsEarned` |
| `NothingForgotten` | `Spec => []NoMutationForgotten` |
| `OneTransaction` | `Spec => []OneIntent` |
| `EvidenceAnswered` | `Spec => []NoOrphanEvidence` |
| `ThirdManifestKept` | `Spec => ThirdManifestStays` |
| `MachineIdKept` | `Spec => MachineIdStable` |
| `ManifestAgreement` | `Spec => []ManifestAgrees` |
| `AlwaysReadable` | `Spec => []JournalAlwaysReadable` |
| `LedgerImplemented` | `Spec => ImplementsLedger`, the refinement to `EffectiveLedger` |

**Types and the lock.** `TypeOK` is not inductive: a checkpoint appends `sidecar.pub`, which has a
type only if there is a sidecar, and there is one only because nobody else removed it. So
`IInv` joins the types (`DataOK`), the lock discipline, and what each process has in hand at
its step (`InHand`: an entry while holding an intent, a draft from publication on, a sidecar
where a candidate is written, a plan position at "check"). `GotoKeeps`, `EnterKeeps`,
`LeaveKeeps` and `EndKeeps` say once how a process may move; `OthersInHand` is where mutual
exclusion pays. Then there is one lemma per action, and `StepIInv` combines them.

**The journal.** `ReceiptSteps` and `IntentSteps` list the only steps that write receipt
and intents; every proof uses these instead of going through all actions again.

- `AppendOnly` follows from `ReceiptSteps`: all three writers append to the receipt of now.
- `OwnershipIsEarned` needs to know that an entry in hand from "append" on is a mutation
  performed (`EarnedInv`): it arrives there from a bound mutation, or from an intent on disk
  that says succeeded, for which the property holds by induction.
- `NoMutationForgotten` needs `KeptInv`: while a process holds an entry between mutation and
  append, its intent is still on disk (`HeldKept`: nobody but the holder of the lock removes
  an intent), from "retire_evidence" on the receipt has it, and ids in use were minted
  (`IdsMinted`), so that no fresh intent stands in for an old mutation.
- `OneIntent` needs the exact content of the directory at each step (`IntentInv`): none at "check", and
  from "write_intent" on the one of the entry in hand, torn, then prepared, then succeeded. A crash leaves
  what there was, and a session begins by settling it.
- `NoOrphanEvidence` needs `EvidenceInv`: only directories have evidence, and where an intent may be
  removed, after a torn write and at its retirement, the resource in hand has none.

**The ledger.** `PublicationInv` says what a process in the middle of a publication may rely on
(`PublicationAt`): at "replace_manifest" the manifest is the one its sidecar starts from, afterwards the
sidecar's candidate, and in the end the publication is the last of the receipt; and of a sidecar that its
candidate keeps the machine id and lists the links of its publication (`SidecarInv`). It holds because
both locks are held from the comparison to the replacement; an operator edits under the manifest's. From
it follow `ThirdManifestStays` and `MachineIdStable`, and, with `AgreesInv` (what `ManifestAgrees` says,
whoever holds the lock), `ManifestAgrees`.

`JournalAlwaysReadable` is about documents of any length, but needs no induction over them. An append and a
checkpoint are made only of a candidate that was found valid (`EntryAllowed`, `CheckpointAllowed`); what has
to be shown is that the other file still fits it, before the checkpoint and after it
(`BindingKeptByEntry`, `BindingKeptByCheckpoint`). A new sidecar is written without such a check: that its
publication closes a valid epoch (`PublicationClosesEpoch`) follows from the links being open occurrences of
the receipt of now, which the process asked under the lock, and from its id being new (`PubIdsMinted`). A
sidecar is removed only when its publication is in the receipt. `ImplementsLedger` then goes through the
writers: an entry that is added is `Record`, a sidecar that gets its name `Publish`, and a checkpoint or the
removal of a sidecar changes nothing that is effective.

### The other components

| module | theorem | |
| --- | --- | --- |
| FilesProofs | `NodeInductive`, `HealthySettled` | `Spec => []HealthyIsSettled` |
| FilesProofs | `ResourceImplemented` | `Spec => ImplementsResource`, the refinement to `WorkerResource` |
| FilesProofs | `OnlyAdded` | `KeysSpec => KeysOnlyAdded` |
| FilesProofs | `IdentityInvariant`, `KeyForEver` | `IdentitySpec => []OneKeyForEver` |
| FilesProofs | `ConfigInvariant`, `Repeatable` | `ConfigSpec => ReplayRepeats` |
| PathProofs | `PathInvariant`, `OwnersMove` | `TrustedSpec => []OnlyOwnersMove` |
| AdoptionProofs | `DerivedFits` | `AdoptionSpec => []DerivedFitsItsStoreOnly` |
| AdoptionProofs | `PublishedProven` | `AdoptionSpec => PublishedIsProven` |
| AuthorityProofs | `StoreInductive`, `StoreTypeCorrect` | `Spec => []TypeOK` |
| AuthorityProofs | `IdentityIsOne` | `Spec => []OneIdentity` |
| AuthorityProofs | `RepairAddsId` | `Spec => RepairOnlyAddsId` |
| AuthorityProofs | `AuthorizedAtMostOnce` | `AuthSpec => []AuthorizedOnce` |
| AuthorityProofs | `CreationUnderWindows` | `NodeSpec => []WindowsCreation` |
| AuthorityProofs | `UserPhaseOwned` | `ElevationSpec => []UserPhaseIsTheUsers` |
| PromotionProofs | `RetirementProven` | `Spec => RetiredOnlyWhenProven` |
| PromotionProofs | `ThreeRecoveryStates` | `Spec => []ThreeStates` |
| ControllerProofs | `Inductive`, `TypeCorrect` | `Spec => []TypeOK` |
| ControllerProofs | `Distinctness`, `CachesAreOfTheirHosts` | `HostsDistinct` and `CachesBelong` always hold |
| ControllerProofs | `TableImplemented` | `Spec => ImplementsTable`, the refinement to `HostTable` |
| ControllerProofs | `PinsOnlyMoveOn` | `Spec => PinsMoveOn` |
| ControllerProofs | `NoOlderPin` | `Spec => []NeverUnderOlderPin` |
| RpcSessionProofs | `CalledAtMostOnce` | `Spec => []CallsAtMostOnce` |
| RpcSessionProofs | `ExecutedCompatible` | `Spec => []OnlyCompatible` |
| RpcSessionProofs | `ExecAnswerComplete` | `Spec => []ExecIsComplete` |
| RpcSessionProofs | `ReadyIsSo` | `BaselineSpec => []ReadyOnlyIfSo` |
| RpcSessionProofs | `SaidIsSo` | `BaselineSpec => []SaidIsSoUnlessUnread` |

**Worker directories** (FilesProofs). What a session found at each look holds at the next, although others
change the directory between them, because nobody but the session touches markers and staging: what is in
hand at each step (`NodeInHand`), what has been seen to be gone (`Gone`), that markers name directories that
were made (`Numbered`), and that nothing is made without an intent (`NodeKept`). Each call is then a step of
`WorkerResource` or leaves it alone.

**Authorized keys** (FilesProofs). `KeysOnlyAdded` is a property of steps, for files of any length: every
write of setup is an append to the file its handle is of, whatever name that file has by then, so that a
cut write leaves a longer file too. What has to be carried from step to step (`AttemptHeld`) is when all
keys were authorized at once: a read back that finds every key, or a verification of a file that is still
the one under the name. An editor that saves an older text between write and check does not undo it.

**The controller's key** (FilesProofs). One user at a time holds the lock (`Exclusive`), and `UserKnows` says
what that user knows at each step: neither name is taken while a key is generated, the temporary holds the
key in hand, and from "publish" on its data is synced. `Unsynced` says when the name of the private key may be
missing on the disk: between the call that gives it and the one that syncs it, or after a stop that came just
there, of which `Bearable` allows one before a loss of power; when none is left, a public key whose name is
synced means that the private one's is. So what was returned is never what a loss takes away (`Kept`). The invariant is about
the names of now, the names on the disk and the synced data of `PrivateFile` at once.

**The replay** (FilesProofs). Until it has its name the replay of a process is in a temporary that is its
own, and no call replaces a name that is taken (`Publishing`); so what is in place when the plan is
applied is this setup's. That reading it gives the setup again (`ReplaySays`) goes through all layers:
every other one is empty, and defaults that depend on the role give what was typed.

**Trusted paths** (PathProofs). At each step there is one account styrn is kept from (`Stranger`). A walk
goes up, from the node to the root, so that what it has found is known of the nodes above only in the end:
`Walking` says that if the node it is at cannot be replaced, then none of those below can, and what the walk
was for holds; a walk down (`locate`) has it the other way round. What is `Secured` stays so, because a
stranger moves only what lies where he may move it, and takes it only out of a place of this kind (`Aside`):
what is put back is as open as it was.

**From an account to its manifest** (AdoptionProofs). `Drafted` says that a draft is always the image of some
base for the principal of its own store, with scope, identity, roots and user derived from it
(`UserDraft`, `DedicatedDraft`); the other stores then refuse it for their scope or binding.
For `PublishedIsProven`, an inspection reads the traits of an account one lookup at a time while accounts
change. `LookInv` says that what has been read so far was met when it was read (`SeenAsRead`, `Noticed`),
from which a healthy answer means that each requirement was met at some moment since it began
(`HealthyHasMet`); that every trait is read once, by all systems, is `LookupsRead`. `HandInv` carries it
through the process: a handle or evidence is of an account whose home was found empty, or which has lost
its name (`Taken`), and what is about to be written was validated since (`AboutToWrite`, `ProvenFor`).

**The manifest store** (AuthorityProofs). `OneIdentity` is not inductive: a server has dropped the lock before
it tells its controller the id. `HelloInv` counts what it is about to tell with what was told (`Told`), and
`WriteInv` says that what a writer has in hand agrees with the file, of which `HasId` is the decisive part.

**Requests for privilege** (AuthorityProofs). Two children may read one request, and a request may be put back
after it was consumed. What keeps them apart is the record of the reservation: `Apart` says that no two
children from "sync" on hold the record of one request, `ChildInHand` that a child acts only on a record that
is durable, and that all that ran of its request was run by itself, and `RanInv` that what ran has a durable
record, which no loss of power takes away. What a child runs was displayed because it compares its plan with
the request (`AskedInv`, and the steps of its plan in `ChildInHand`).

**Creation under Windows** (AuthorityProofs). The anchor is opened before the lock named for it is taken, and
may be replaced in between; but it is opened once and for all, so that whoever is past the lock holds the lock
of the very directory it creates in (`MutexInv`). A directory stays where it was made (`MadeInv`), so that two
setups with the same one in hand would hold the same lock, and hence the maker of one that is not yet
journalled is alone with it (`Alone`). What is in hand where nobody interfered is in place (`StepInHand`,
`InPlaceStill`), which is why the last check before the journal fails only for those who are excused.

**The user phase** (AuthorityProofs). Of nine ids and a set of groups, each of the three system calls changes
some, and which depends on those before it. `ElevationIInv` says what the credentials are exactly after each
(`Shed`, `ShedGid`, `ShedUid`), and that the user they are dropped to is one that caller and sudo agree on
(`Dropping`). That there is no way back follows from the saved ids.

**PromotionProofs.** `BaseInv` is types, the two receipt locks, and what a process has in hand (`InHand`);
from its checks on, authorization and proof are those it has read, since neither is ever rewritten. For
`RetiredOnlyWhenProven`, `MachineInv` follows the one id of the user's machine, until its manifest is retired,
into intents, processes, the sidecar and the manifest of the system, although no lock is held from one check
to the next. For `ThreeStates`, `UndisturbedInv` says that undisturbed there is one promotion: what the intent on
disk binds is what every process, the system and the checkpoint have (`Bound`), without an intent nothing is
bound or the user manifest is gone (`Unbound`), and who has emptied it goes on without it (`Emptied`).

**ControllerProofs.** The inventory is written under the lock, but caches are not, and hosts are picked
without it. `StillIn` says that a host that was seen is still enrolled, perhaps under another pin;
`CacheReady` that what is about to be enrolled has its cache. For pins, `PinInv` adds that a key that was
scanned is at most the worker's key of now (`AtMost`), and that the record a `trust` saw is no newer than
what it scanned (`Seen`); compare-and-swap does the rest. For `NeverUnderOlderPin`, `KnownInv` says of a host in hand
that it has at most moved on in the inventory since known_hosts was rebuilt (`MovedOn`), and that no line is older
(`NoneOlder`); a later rebuild writes the inventory of then, and another host never gives up its address.

**Sessions** (RpcSessionProofs). `SessionInv` counts calls: what was executed is a prefix of the script, and what was
answered a prefix of that, with the next call of the client one further (`CallInv`); before there is a version
both speak, only greetings are on their way (`AgreedInv`). `ExecInv` accounts for bytes: what was captured and
what is in the pipe is what was written, unless the limit was passed, and a capture that is at its end has an
empty pipe that nobody can write to any more, heirs of the command included (`Kept`).

**What is said of a machine** (RpcSessionProofs). The reads of a probe are rows, put together of shorter ones
and different for each subject and system. `Row` says of a row that its reads are of the known kinds
(`TheReads`), that no fact is told twice, and that each decision is on facts that were told before it (`Fit`);
rows are joined by one lemma (`JoinedRows`), and those of all probes on all systems follow by putting them
together (`SshReads`, `TailscaleReads`, `GitReads`, `SleepReads`). The invariant of a probe is `HasRead`: what it
has seen was so, what it has not seen and should have was missing or taken for a no (`Unmet`), dim, or made
unnecessary by another fact, and nothing that was read has decided anything. A fact that is read once is not seen anew, so that what a
decision said goes on being said (`SameDecision`). From it, every early decision (`DecidedSound`) and every
answer at the end of a row (`EndSound`) is `Sound`: healthy only if all it needs was so, absent only if every
program was unmet, and otherwise something it needs was. What is unmet was missed or its read was denied, which
is what `SaidIsSo` says and no more. Then the host may change between any two reads
(`WorldChangesKeeps`), and what plan, manifest, card and findings say (`SetupInv`) is of the last probe.

Model-checked only:

- liveness under fairness (`RunsEnd`, `RerunsConverge`, `SuccessEnds`, `PromotionEnds`, `SessionEnds`), and all
  that rests on ENABLED, which are out of the prover's reach;
- `ArgumentsArrive`: quoting and reading a command line are recursive over its characters, and the prover has
  no induction over data. TLC takes every argument of up to three characters.

Every other property that a passing run checks is proved.

## 5. Findings

- **A first publication that is interrupted is never finished** (`MCSetup_preflight`,
  `PublicationResumes`). On a host where nothing is to be done, the first publication writes
  its sidecar before there is a receipt. After a crash there, `read_snapshot`
  (`setup/receipt/mod.rs:1375`) refuses the pair, and every later setup calls it in its
  preparation, before the recovery that would accept it.
- **The lock-free snapshot is not always an old or a new one** (`MCSetup_snapshot`,
  `SnapshotNeverSpurious`). A writer that moves on between the reader's two opens can make
  a consistent disk look inconsistent, against the comment at `setup/receipt/mod.rs:1347`.
  The error is transient.
- **An edited policy is overwritten** (`MCManifestStore_policy`, `PolicyIsTheOperators`).
  `docs/design.md:5293` promises that setup does not overwrite the policy an operator has edited.
  Setup reads the manifest without its lock when it plans (`setup/orchestrator.rs:607`) and publishes
  a candidate made of that draft, into which only the machine id of then is taken; an edit between
  the two, for instance while setup waits at its prompt, is undone.
- **A read that fails is taken for a no** (`MCRpcSession_unread`, `UnreadIsUnknown`).
  `docs/implementation-plan.md:135` wants "an observation failure such as permission denial, I/O failure
  [...]" to be `Unknowable`, so that what could not be determined is never "not installed". `Path::is_file`
  is false for a program that cannot be looked at (`platform/linux.rs:133` and `190`, `platform/macos.rs:55`
  and `109`), and the answer is absent; `authorized_keys_are_ready` is false for a file that cannot be read
  (`platform/linux.rs:316`), `tailscale_service_is_persistent` on macOS (`platform/macos.rs:180`) and the
  queries of the service on Windows (`platform/windows.rs:110`) for a command that fails, and the answer is not
  healthy. `NotReadyOnlyIfSo` and its theorem hold with just these reads left out.

The first finding is also the limit of `RerunsConverge`: its plan has a tool a human must
install, so that a receipt exists before the first publication.

Observed while modelling, without a run of their own:

- A tailscale section that was unknowable at planning is written as not installed, and nothing corrects
  it later; the ssh section is corrected by `refresh_ssh_manifest`.
- `styrn doctor` takes a manifest without a tailscale mode for mode "service", which cannot pass on
  Linux and macOS.
- A probe's command is given two seconds, but the threads that read its output are joined without a
  limit: an heir that keeps the pipe blocks the probe.
- An answer that the loss of ssh cuts off is `protocol.malformed` (`rpc/frame.rs:219`). That is what
  `docs/implementation-plan.md:237` wants of a truncated line, while `docs/design.md:3081` has
  `transport.session_lost` for a session dropped within an operation; the two texts leave open which applies.
- `docs/design.md:5373` shows a skipped plan line with "."; the plan and its tests show a check mark.
- Under Windows `inspect_worker_directory_node` takes no layout lock, so a check may call a directory
  healthy that the setup of another scope is still creating and may yet fail to journal.
- An authorization request that a killed setup leaves behind blocks the requests of later setups until
  somebody removes it; the temporary of a promotion intent (`setup/promotion.rs:921`) does so for its id.

## 6. Plan and what is not modelled

Done: receipt, journal, publication, orchestrator and ledger; inventory and controller; manifest store;
RPC session and exec; controller identity; worker directories on three systems; authorized keys;
configuration; privileged authorization and elevation; scope promotion; trusted paths; dedicated accounts and
adoption; probes with plan, card and findings.

Proofs: every safety property of the passing runs but `ArgumentsArrive`. What could come next is the loss of
power in the receipt store, on top of `PrivateFile`.

Not modelled:

- *Loss of power in the receipt store*: its writes are synced before and after each rename, on paths the
  model takes as one step; `PrivateFile` has what it needs.
- *Whole-layout creation* (`create_worker_directory_layout` with its partial evidence) and the scope-promotion
  entry points of the manifest store beyond those `Promotion` uses: only tests call them.
  So do they alone call promotion, authorization and dedicated accounts in this commit; these are modelled
  because the rest of the code already depends on what they promise.
- *The evaluation of access-control lists* entry by entry, the parsing of account databases, plists, sshd
  options and TOML, the byte encoding of frames and probes: pure functions of one input, which unit tests cover;
  the models take their results.
- *A change of recorded parameters of a pending action* (`setup/receipt/mod.rs:2490`): it is in the model, but no
  document says what should happen.
- *Terminals and native dialogs*, reporting, prompting and rendering; resource counters.
- `desktop`, `git`, `harness`, `integrations`, `jobs`, `mcp`, `notification`, `project` and `scheduler`: stubs.
