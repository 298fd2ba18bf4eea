----------------------------- MODULE ManifestStore -----------------------------
(***************************************************************************)
(* The machine manifest between its writers (src/src/manifest/mod.rs): RPC *)
(* servers, which at their start give an id to a manifest that has none,   *)
(* `styrn machine init`, setup, whose draft was derived from the manifest  *)
(* it read when it planned, and the operator with an editor.               *)
(***************************************************************************)
EXTENDS NoValue, Naturals

CONSTANTS Servers,  \* `styrn rpc` processes, one for each session
          Inits,    \* `styrn machine init` processes
          Setups,   \* setup processes
          Policies, \* values of the operator-owned keys, [resources.policy]
          Facts,    \* what setup detects, all other keys
          MaxIds, MaxEdits

Procs == Servers \cup Inits \cup Setups

ASSUME KindsAssumption == /\ Servers \cap Inits = {} /\ Servers \cap Setups = {}
                          /\ Inits \cap Setups = {}
ASSUME BoundsAssumption == MaxIds \in Nat /\ MaxEdits \in Nat

VARIABLES manifest, \* machine.toml: None, or its id (or None) and contents
          lock,     \* the flock on .machine.toml.lock
          pc, job,  \* where each process is, and the manifest it has in hand
          nextId,   \* the next UUIDv7 that is minted
          edits,    \* how often the operator may still edit
          drops,    \* history: how often the operator dropped the id
          heard     \* history: <<drops when it was read, id>> for each hello

history == <<drops, heard>>
vars == <<manifest, lock, pc, job, nextId, edits, history>>

Ids == 1..MaxIds
Manifests == [id : Ids \cup {None}, policy : Policies, facts : Facts]

ASSUME NoneAssumption == None \notin Procs \cup Nat \cup Manifests

Locked == {"reread", "write"}
Steps == {"idle", "read", "lock", "begin", "serve"} \cup Locked

Goto(p, step, m) ==
  /\ pc' = [pc EXCEPT ![p] = step]
  /\ job' = [job EXCEPT ![p] = [m |-> m, drops |-> IF m = None THEN 0 ELSE drops]]
  /\ lock' = IF step \in Locked THEN p ELSE IF lock = p THEN None ELSE lock

End(p) == Goto(p, "idle", None)

HasId(m) == m # None /\ m.id # None

(***************************************************************************)
(* read_or_reconcile_missing_machine_id: a manifest with an id is served   *)
(* as it is.  One without is locked and read again; `machine init` always  *)
(* does that.  A missing or invalid manifest is an error.                  *)
(***************************************************************************)
Start(p) ==
  /\ pc[p] = "idle"
  /\ Goto(p, "read", None)
  /\ UNCHANGED <<manifest, nextId, edits, history>>

ReadUnlocked(p) ==
  /\ pc[p] = "read" /\ p \notin Setups
  /\ IF manifest = None THEN End(p)
     ELSE Goto(p, IF HasId(manifest) /\ p \in Servers THEN "serve" ELSE "lock", manifest)
  /\ UNCHANGED <<manifest, nextId, edits, history>>

LockManifest(p) ==
  /\ pc[p] = "lock" /\ lock = None
  /\ Goto(p, "reread", job[p].m)
  /\ UNCHANGED <<manifest, nextId, edits, history>>

\* Seeded fault: under the lock the manifest of the first read is used.
FirstRead(p) == job[p].m
SecondRead(p) == manifest

WithId(m) == IF HasId(m) THEN m ELSE [m EXCEPT !.id = nextId]

RereadLocked(p) ==
  /\ pc[p] = "reread"
  /\ LET m == SecondRead(p)
     IN IF m = None THEN End(p) /\ UNCHANGED nextId
        ELSE IF HasId(m) /\ p \in Servers THEN Goto(p, "serve", m) /\ UNCHANGED nextId
        ELSE /\ HasId(m) \/ nextId <= MaxIds
             /\ Goto(p, "write", WithId(m))
             /\ nextId' = IF HasId(m) THEN nextId ELSE nextId + 1
  /\ UNCHANGED <<manifest, edits, history>>

(***************************************************************************)
(* write_manifest: a failure before the rename, or a failed verification   *)
(* of the file after it, ends the process with an error.                   *)
(***************************************************************************)
Write(p) ==
  /\ pc[p] = "write"
  /\ \/ End(p) /\ manifest' \in {manifest, job[p].m}
     \/ /\ manifest' = job[p].m
        /\ IF p \in Servers THEN Goto(p, "serve", job[p].m) ELSE End(p)
  /\ UNCHANGED <<nextId, edits, history>>

\* The hello names the id; the lock is no longer held.
Serve(p) ==
  /\ pc[p] = "serve"
  /\ heard' = heard \cup {<<job[p].drops, job[p].m.id>>}
  /\ End(p)
  /\ UNCHANGED <<manifest, nextId, edits, drops>>

(***************************************************************************)
(* Setup reads the manifest without the lock (read_optional_for_setup),    *)
(* derives a draft that keeps the operator's keys (rootless_manifest_base) *)
(* and much later publishes it, with the id of the manifest of then.       *)
(***************************************************************************)
DraftOf(m, facts, default) ==
  [id |-> None, policy |-> IF m = None THEN default ELSE m.policy, facts |-> facts]

PlanSetup(p) ==
  /\ pc[p] = "read" /\ p \in Setups
  /\ IF manifest # None /\ ~HasId(manifest) THEN End(p)
     ELSE \E facts \in Facts, default \in Policies :
            Goto(p, "begin", DraftOf(manifest, facts, default))
  /\ UNCHANGED <<manifest, nextId, edits, history>>

\* Seeded fault: the candidate always has a fresh id.
FreshCandidate(p) == [job[p].m EXCEPT !.id = nextId]
Candidate(p) == [job[p].m EXCEPT !.id = IF manifest = None THEN nextId ELSE manifest.id]

BeginPublication(p) ==
  /\ pc[p] = "begin" /\ lock = None
  /\ IF manifest # None /\ ~HasId(manifest) THEN End(p) /\ UNCHANGED nextId
     ELSE /\ nextId <= MaxIds
          /\ Goto(p, "write", Candidate(p))
          /\ nextId' = IF Candidate(p).id = nextId THEN nextId + 1 ELSE nextId
  /\ UNCHANGED <<manifest, edits, history>>

Crash(p) == pc[p] # "idle" /\ End(p) /\ UNCHANGED <<manifest, nextId, edits, history>>

(***************************************************************************)
(* The operator, between two writers: removes the manifest, drops its id   *)
(* (a manifest of an old release has none), or changes the policy.         *)
(***************************************************************************)
Edit ==
  /\ edits > 0 /\ lock = None /\ manifest # None
  /\ edits' = edits - 1
  /\ \/ manifest' \in {None, [manifest EXCEPT !.id = None]} /\ drops' = drops + 1
     \/ /\ \E policy \in Policies : manifest' = [manifest EXCEPT !.policy = policy]
        /\ UNCHANGED drops
  /\ UNCHANGED <<lock, pc, job, nextId, heard>>

Step(p) ==
  \/ ReadUnlocked(p) \/ LockManifest(p) \/ RereadLocked(p) \/ Write(p) \/ Serve(p)
  \/ PlanSetup(p) \/ BeginPublication(p)

Next == Edit \/ \E p \in Procs : Start(p) \/ Step(p) \/ Crash(p)

Init ==
  /\ manifest \in {None} \cup {m \in Manifests : m.id = None}
  /\ lock = None /\ pc = [p \in Procs |-> "idle"] /\ job = [p \in Procs |-> [m |-> None, drops |-> 0]]
  /\ nextId = 1 /\ edits = MaxEdits /\ drops = 0 /\ heard = {}

Spec == Init /\ [][Next]_vars

-----------------------------------------------------------------------------
TypeOK ==
  /\ manifest \in Manifests \cup {None} /\ lock \in Procs \cup {None}
  /\ pc \in [Procs -> Steps]
  /\ job \in [Procs -> [m : Manifests \cup {None}, drops : 0..MaxEdits]]
  /\ nextId \in 1..MaxIds + 1 /\ edits \in 0..MaxEdits /\ drops \in 0..MaxEdits
  /\ heard \subseteq (0..MaxEdits) \X Ids

\* All sessions that found or repaired a manifest between the same two edits that
\* dropped its id told their controllers the same machine id, and until the next
\* such edit that is the id on disk: servers that start together on a manifest
\* without an id, beside setup and `machine init`, do not mint two.
OneIdentity ==
  /\ \A hello, other \in heard : hello[1] = other[1] => hello = other
  /\ \A hello \in heard : hello[1] = drops => HasId(manifest) /\ manifest.id = hello[2]

\* Servers and `machine init` add a missing id and nothing else: a manifest that
\* setup publishes or the operator edits between their two reads is not undone.
RepairOnlyAddsId ==
  [][\A p \in Servers \cup Inits :
       pc[p] = "write" /\ pc'[p] # "write" /\ manifest' # manifest =>
         /\ manifest # None /\ ~HasId(manifest)
         /\ manifest' = [manifest EXCEPT !.id = manifest'.id]]_vars

\* "the one manifest region setup will not overwrite on re-run once an operator has
\* edited it" (docs/design.md:5293): a setup step leaves the operator's keys alone.
PolicyIsTheOperators ==
  [][\A p \in Setups :
       pc[p] = "write" /\ pc'[p] # "write" /\ manifest # None => manifest'.policy = manifest.policy]_vars
=============================================================================
