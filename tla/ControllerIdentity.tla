-------------------------- MODULE ControllerIdentity --------------------------
(***************************************************************************)
(* src/transport/identity.rs: the key pair of a controller, loaded or made *)
(* on its first use by several processes that may be killed, whose calls   *)
(* may fail, and on a machine that may lose power.                         *)
(***************************************************************************)
EXTENDS Platform, PrivateFile, FiniteSets

CONSTANTS Users,      \* processes; one that is started again has its old pid
          MaxKeys,    \* ssh-keygen runs
          MaxStops,   \* kills and failing calls
          MaxTidyUps, MaxLosses

ASSUME IdentityAssumption ==
  /\ None \notin Nat \cup Users
  /\ MaxKeys \in Nat /\ MaxStops \in Nat /\ MaxTidyUps \in Nat /\ MaxLosses \in Nat

VARIABLES ssh,        \* ~/.ssh, a directory of PrivateFile
          lock,       \* the user with the flock, or None
          at,         \* the step of each user
          inHand,     \* what each user has in hand
          returned,   \* the keys of the identities returned so far
          left        \* what is left of the bounds

idVars == <<platform, ssh, lock, at, inHand, returned, left>>

Private == <<"key", None>>                  \* styrn_<name>_<id>_ed25519
Public == <<"key.pub", None>>
Names == {Private, Public} \cup ({"new_private", "new_public"} \X Users)
NewPrivate(u) == <<"new_private", u>>       \* next_staging_path
NewPublic(u) == <<"new_public", u>>

Empty == [key |-> None, file |-> None, calls |-> <<>>]

IdentityInit ==
  /\ platform \in {"linux", "macos", "windows"}
  /\ ssh = EmptyDirectory(Names)
  /\ lock = None
  /\ at = [u \in Users |-> "idle"]
  /\ inHand = [u \in Users |-> Empty]
  /\ returned = {}
  /\ left = [keys |-> MaxKeys, stops |-> MaxStops, tidy |-> MaxTidyUps, losses |-> MaxLosses]

Go(u, step) == at' = [at EXCEPT ![u] = step] /\ UNCHANGED <<platform, lock>>

\* Any return drops the lock.
Finish(u, dir, keys) ==
  /\ at' = [at EXCEPT ![u] = "idle"]
  /\ inHand' = [inHand EXCEPT ![u] = Empty]
  /\ lock' = None
  /\ ssh' = dir
  /\ returned' = returned \cup keys
  /\ UNCHANGED <<platform, left>>

Refuse(u) == Finish(u, ssh, {})
Return(u, key) == Finish(u, ssh, {key})

\* lock_controller_identity: whoever made the lock file, it is one file.
Lock(u) ==
  /\ at[u] = "idle"
  /\ lock = None
  /\ lock' = u
  /\ at' = [at EXCEPT ![u] = "look"]
  /\ UNCHANGED <<platform, ssh, inHand, returned, left>>

\* load_or_create.
Look(u) ==
  /\ at[u] = "look"
  /\ \/ /\ Has(ssh, Private)
        /\ Go(u, "load") /\ UNCHANGED <<ssh, inHand, returned, left>>
     \/ /\ ~ Has(ssh, Private) /\ Has(ssh, Public)
        /\ Refuse(u)
     \/ /\ ~ Has(ssh, Private) /\ ~ Has(ssh, Public)
        /\ Go(u, "keygen") /\ UNCHANGED <<ssh, inHand, returned, left>>

\* run_keygen does not overwrite: it has no terminal to ask at.
Keygen(u) ==
  /\ at[u] = "keygen"
  /\ \/ Has(ssh, NewPrivate(u)) /\ Refuse(u)
     \/ /\ ~ Has(ssh, NewPrivate(u))
        /\ left.keys > 0
        /\ left' = [left EXCEPT !.keys = @ - 1]
        /\ ssh' = Create(ssh, NewPrivate(u), left.keys)
        /\ inHand' = [inHand EXCEPT ![u] = [key |-> left.keys, file |-> Len(ssh.data) + 1,
                                        calls |-> Publication(platform)]]
        /\ Go(u, "flush")
        /\ UNCHANGED returned

\* Seeded fault: the key gets its name before it is on disk.
FlushedNot(u) == ssh

\* publish_no_replace_without_reading: the key is on disk before it has a name.
Flushed(u) == SyncData(ssh, NewPrivate(u))
Flush(u) ==
  /\ at[u] = "flush"
  /\ ssh' = Flushed(u)
  /\ Go(u, "publish")
  /\ UNCHANGED <<inHand, returned, left>>

\* publish_private_file_no_replace, one call at a time.
PublishKey(u) ==
  LET calls == inHand[u].calls
      call == Head(calls)
  IN /\ at[u] = "publish"
     /\ calls # <<>>
     /\ IF CallSucceeds(ssh, call, NewPrivate(u), Private, inHand[u].file)
        THEN /\ ssh' = AfterCall(ssh, call, NewPrivate(u), Private)
             /\ inHand' = [inHand EXCEPT ![u].calls = Tail(calls)]
             /\ Go(u, IF Tail(calls) = <<>> THEN "write_public" ELSE "publish")
             /\ UNCHANGED <<returned, left>>
        ELSE IF Refused(ssh, call, Private)
             THEN Go(u, "load") /\ UNCHANGED <<ssh, inHand, returned, left>>
             ELSE Refuse(u)

\* load_existing: the public key is derived, and compared or put back.
Load(u) ==
  LET key == Content(ssh, Private) IN
  /\ at[u] = "load"
  /\ \/ /\ key \in {Torn, None} \/ (Has(ssh, Public) /\ Content(ssh, Public) # key)
        /\ Refuse(u)
     \/ /\ key \notin {Torn, None} /\ Content(ssh, Public) = key
        /\ Return(u, key)
     \/ /\ key \notin {Torn, None} /\ ~ Has(ssh, Public)
        /\ inHand' = [inHand EXCEPT ![u].key = key]
        /\ Go(u, "write_public")
        /\ UNCHANGED <<ssh, returned, left>>

\* recover_public_file: a staged file, written and synced, gets its name.
WritePublic(u) ==
  /\ at[u] = "write_public"
  /\ \/ Has(ssh, NewPublic(u)) /\ Refuse(u)
     \/ /\ ~ Has(ssh, NewPublic(u))
        /\ ssh' = LET new == Create(ssh, NewPublic(u), inHand[u].key)
                  IN SyncData(new, NewPublic(u))
        /\ Go(u, "link_public")
        /\ UNCHANGED <<inHand, returned, left>>

LinkPublic(u) ==
  /\ at[u] = "link_public"
  /\ \/ /\ Has(ssh, Public)
        /\ Finish(u, Bound(ssh, NewPublic(u), None),
                  {inHand[u].key} \cap {Content(ssh, Public)})
     \/ /\ ~ Has(ssh, Public)
        /\ ssh' = Bound(ssh, Public, ssh.now[NewPublic(u)])
        /\ Go(u, "sync_public")
        /\ UNCHANGED <<inHand, returned, left>>

SyncPublic(u) ==
  /\ at[u] = "sync_public"
  /\ ssh' = SyncParent(platform, ssh)
  /\ Go(u, "read_public")
  /\ UNCHANGED <<inHand, returned, left>>

ReadPublic(u) ==
  /\ at[u] = "read_public"
  /\ \/ Content(ssh, Public) # inHand[u].key /\ Refuse(u)
     \/ /\ Content(ssh, Public) = inHand[u].key
        /\ Finish(u, Bound(ssh, NewPublic(u), None), {inHand[u].key})

UserStep(u) ==
  \/ Lock(u) \/ Look(u) \/ Keygen(u) \/ Flush(u) \/ PublishKey(u) \/ Load(u)
  \/ WritePublic(u) \/ LinkPublic(u) \/ SyncPublic(u) \/ ReadPublic(u)

\* A call fails or the process is killed: either way the attempt ends where it
\* is, and the lock is dropped.
Stop(u) ==
  /\ at[u] # "idle" /\ left.stops > 0
  /\ at' = [at EXCEPT ![u] = "idle"] /\ inHand' = [inHand EXCEPT ![u] = Empty]
  /\ lock' = None
  /\ left' = [left EXCEPT !.stops = @ - 1]
  /\ UNCHANGED <<platform, ssh, returned>>

PowerLoss ==
  /\ left.losses > 0
  /\ left' = [left EXCEPT !.losses = @ - 1]
  /\ ssh' \in AfterPowerLoss(ssh)
  /\ at' = [u \in Users |-> "idle"] /\ inHand' = [u \in Users |-> Empty]
  /\ lock' = None
  /\ UNCHANGED <<platform, returned>>

\* The user tidies up a public key.
RemovePublic ==
  /\ Has(ssh, Public) /\ left.tidy > 0
  /\ ssh' = Bound(ssh, Public, None)
  /\ left' = [left EXCEPT !.tidy = @ - 1]
  /\ UNCHANGED <<platform, lock, at, inHand, returned>>

IdentityNext == (\E u \in Users : UserStep(u) \/ Stop(u)) \/ PowerLoss \/ RemovePublic

IdentitySpec == IdentityInit /\ [][IdentityNext]_idVars

(***************************************************************************)
(* A controller has one key for ever: a key that was returned, and may be  *)
(* authorized on workers by now, is the private key on the disk. Two       *)
(* attempts cut off between naming a file and syncing the name, and then a *)
(* loss of power, is one too many: a third attempt trusts names that are   *)
(* not on the disk.                                                        *)
(***************************************************************************)
Bearable == left.losses = MaxLosses \/ left.stops + 1 >= MaxStops

OneKeyForEver == Bearable => returned \subseteq {Content(ssh, Private)}
=============================================================================
