------------------------------ MODULE TrustedPath ------------------------------
(***************************************************************************)
(* The way to a store: how styrn prepares the directory of its manifest    *)
(* (prepare_destination of src/src/manifest/mod.rs), and how it decides    *)
(* that a file it opens there can be changed by nobody it does not trust   *)
(* (verify_manifest_ancestors, open_verified_manifest_file_for_read and    *)
(* verify_manifest_security of linux.rs, macos.rs and windows.rs), looking *)
(* at one directory after the other while other accounts move things.      *)
(*                                                                         *)
(* A path is a sequence of nodes: the ancestors from the root of the file  *)
(* system, the store and its file.  What stands in a place a stranger has  *)
(* taken is the stranger's, and nothing leads through a link.              *)
(***************************************************************************)
EXTENDS NoValue, Platform, Naturals, FiniteSetsExt

CONSTANTS Depth,     \* the ancestors of the store, at least one
          MaxMoves   \* bound on what strangers take

Store == Depth + 1
File == Depth + 2
Ancestors == 1 .. Depth

\* owner: "root" stands for SYSTEM, Administrators and TrustedInstaller too; "user" is
\* the account of the store, which is the worker that a system store is kept from.
\* shared: writable for group or world.  acl: what an entry of an access list gives to
\* others ("adds": only to create there).  fit: an ancestor the worker can pass; a
\* store or file with the very permissions styrn gives.
Node(owner, shared, sticky, acl, fit) ==
  [owner |-> owner, shared |-> shared, sticky |-> sticky, acl |-> acl, fit |-> fit]
Plain(owner) == Node(owner, FALSE, FALSE, "none", TRUE)
AnyNode == [owner : {"root", "user", "other"}, shared : BOOLEAN, sticky : BOOLEAN,
            acl : {"none", "deny", "allow", "adds"}, fit : BOOLEAN]

ASSUME PathAssumption == Depth \in Nat \ {0} /\ None \notin AnyNode

VARIABLES system,    \* whose store
          override,  \* the destination was given by the operator
          nodes,     \* what is on the path, or None
          aside,     \* what a stranger has moved away, from where, and who it was
          step,      \* of the session
          pos, child, \* of a walk: the node to look at, the owner of the one below it
          reached,   \* of a walk: an ancestor of the system was seen
          then,      \* of a walk: the step that follows it
          bottom,    \* of a preparation: the last directory of the root that is there
          moves      \* strangers' moves

config == <<system, platform, override>>
walk == <<pos, child, reached, then>>
ground == <<nodes, aside, moves>>
trustedVars == <<config, walk, ground, step, bottom>>

\* Under windows the worker is trusted on the way to its own directories.
Against == IF system /\ (platform = "windows" => step \notin {"locate", "located"}) THEN {"user"} ELSE {"other"}
StoreOwner == IF system THEN "root" ELSE "user"
There(n) == nodes[n] # None

\* ManifestOwner and its trusted root: below it the current user owns what there is.
TrustedRoot == IF system \/ override THEN Store ELSE Depth

(***************************************************************************)
(* The operating systems: who can put something in the place of a node.    *)
(***************************************************************************)
Writes(account, node) ==
  account = node.owner \/ node.shared \/ node.acl = "allow"
Adds(account, node) == Writes(account, node) \/ node.acl = "adds"

Replaces(account, n) ==
  /\ n > 1
  /\ \/ nodes[n - 1].owner = account
     \/ nodes[n - 1].acl = "allow"
     \/ nodes[n - 1].shared /\ (nodes[n - 1].sticky => nodes[n].owner = account)
     \/ platform = "windows" /\ Writes(account, nodes[n])

(***************************************************************************)
(* What an ancestor has to be like.                                        *)
(***************************************************************************)
\* validate_ancestor_access, and the writable ancestor of a system store.
AncestorAccess(node) == node.fit /\ node.owner # "user"
LinuxSystemAncestor(node, below) ==
  /\ AncestorAccess(node)
  /\ node.shared => node.sticky /\ node.owner = "root" /\ below = "root"
MacosSystemAncestor(node, below) ==
  /\ node.acl = "none"
  /\ AncestorAccess(node)
  /\ node.shared => node.sticky /\ node.owner = "root" /\ below = "root"

\* Seeded fault: a directory for all is fine if what is in it is the user's.
LinuxUserAncestorShared(node, below, seen) ==
  /\ node.owner = "root" \/ (node.owner = "user" /\ ~seen)
  /\ node.shared => below = "user"

\* validate_user_ancestor_access: a sticky directory protects what the user owns.
LinuxUserAncestor(node, below, seen) ==
  /\ node.owner = "root" \/ (node.owner = "user" /\ ~seen)
  /\ node.shared => node.sticky /\ below = "user"
MacosUserAncestor(node, below, seen) ==
  /\ node.owner = "root" \/ (node.owner = "user" /\ ~seen)
  /\ node.shared => node.sticky /\ below = "user"
\* verify_no_extended_allow_acl_value: entries that deny are no danger.
NoAllowEntry(node) == node.acl # "allow"

LinuxUserRoot(node) == node.owner = "user" /\ ~node.shared
MacosUserRoot(node) == NoAllowEntry(node) /\ node.owner = "user" /\ ~node.shared

\* inspect_aces: the entries that let somebody else take a directory over.
TakenOver(node) == node.acl = "allow"
WindowsSystemAncestor(node) == node.owner # "user" /\ ~TakenOver(node)
OwnerTransition(node, seen) == node.owner = "root" \/ (node.owner = "user" /\ ~seen)
WindowsUserAncestor(node, seen) == OwnerTransition(node, seen) /\ ~TakenOver(node)
WindowsUserRoot(node) == node.owner = "user" /\ ~TakenOver(node)

\* verify_worker_creation_ancestor: on the way to the directories of the worker.
LinuxWorkerAncestor(node) ==
  /\ node.owner \in {"root", "user"} /\ (system => node.owner # "user")
  /\ node.shared => node.owner = "root" /\ node.sticky
MacosWorkerAncestor(node) ==
  /\ node.owner \in {"root", "user"} /\ (system => node.owner # "user")
  /\ node.shared => node.owner = "root" /\ node.sticky
  /\ NoAllowEntry(node)
\* validate_worker_ancestor_acl: nobody else creates where styrn is about to.
WindowsWorkerAncestor(node, last) ==
  /\ node.owner \in {"root", "user"}
  /\ ~TakenOver(node) /\ (last => node.acl # "adds")

WorkerAncestor(n) ==
  CASE platform = "linux" -> LinuxWorkerAncestor(nodes[n])
    [] platform = "macos" -> MacosWorkerAncestor(nodes[n])
    [] platform = "windows" -> WindowsWorkerAncestor(nodes[n], n = Depth)
SystemAncestor(node) ==
  CASE platform = "linux" -> LinuxSystemAncestor(node, child)
    [] platform = "macos" -> MacosSystemAncestor(node, child)
    [] platform = "windows" -> WindowsSystemAncestor(node)
UserAncestor(node) ==
  CASE platform = "linux" -> LinuxUserAncestor(node, child, reached)
    [] platform = "macos" -> NoAllowEntry(node) /\ MacosUserAncestor(node, child, reached)
    [] platform = "windows" -> WindowsUserAncestor(node, reached)
UserRoot(node) ==
  CASE platform = "linux" -> LinuxUserRoot(node)
    [] platform = "macos" -> MacosUserRoot(node)
    [] platform = "windows" -> WindowsUserRoot(node)

Passes(node) ==
  IF system THEN SystemAncestor(node)
  ELSE IF child = None THEN UserRoot(node) ELSE UserAncestor(node)

\* validate_store_inspection, verify_directory, verify_file, and on windows
\* validate_acl_contract: the owner, the permissions, and nothing else.
LinuxExact(node) == node.owner = StoreOwner /\ node.fit /\ ~node.shared
MacosExact(node) ==
  node.acl = "none" /\ node.owner = StoreOwner /\ node.fit /\ ~node.shared
WindowsExact(node) == node.owner = StoreOwner /\ node.acl = "none" /\ node.fit
Exact(n) ==
  /\ There(n)
  /\ CASE platform = "linux" -> LinuxExact(nodes[n])
       [] platform = "macos" -> MacosExact(nodes[n])
       [] platform = "windows" -> WindowsExact(nodes[n])

(***************************************************************************)
(* A walk up the path, one node at a time.                                 *)
(***************************************************************************)
Walk(from, below, next) ==
  /\ step' = "walk" /\ pos' = from /\ child' = below /\ reached' = FALSE /\ then' = next
GoOn(next) == step' = next /\ UNCHANGED walk
EndWalk(next) ==
  /\ step' = next
  /\ pos' = 1 /\ child' = None /\ reached' = FALSE /\ then' = None
TurnBack == EndWalk("idle")
Only == UNCHANGED <<config, ground>>

\* verify_manifest_ancestors: from the parent of a system store, or from the trusted
\* root of a user.
VerifyAncestors(next) ==
  IF There(Store) THEN Walk(IF system THEN Depth ELSE TrustedRoot,
                            IF system THEN nodes[Store].owner ELSE None, next)
  ELSE TurnBack

LookUp ==
  /\ step = "walk"
  /\ IF ~There(pos) \/ ~Passes(nodes[pos]) THEN TurnBack
     ELSE IF pos = 1 THEN EndWalk(then)
     ELSE /\ pos' = pos - 1 /\ child' = nodes[pos].owner
          /\ reached' = (reached \/ nodes[pos].owner = "root")
          /\ UNCHANGED <<step, then>>
  /\ Only /\ bottom' = IF step' = "idle" THEN 1 ELSE bottom

(***************************************************************************)
(* open_verified_manifest_file_for_read and verify_manifest_security.      *)
(***************************************************************************)
AtRest == step \in {"idle", "prepared", "read", "verified", "located"}

BeginRead == AtRest /\ VerifyAncestors("open") /\ Only /\ UNCHANGED bottom

\* The file is judged by its handle, and the path is walked again.
OpenForRead ==
  /\ step = "open"
  /\ IF Exact(File) /\ Exact(Store)
     THEN VerifyAncestors(IF platform = "windows" THEN "recheck" ELSE "read")
     ELSE TurnBack
  /\ Only /\ UNCHANGED bottom

\* Under windows the directory is inspected once more.
Recheck ==
  /\ step = "recheck" /\ (IF Exact(Store) THEN GoOn("read") ELSE TurnBack)
  /\ Only /\ UNCHANGED bottom

BeginVerify ==
  /\ AtRest
  /\ IF Exact(File) /\ Exact(Store) THEN VerifyAncestors("verified") ELSE TurnBack
  /\ Only /\ UNCHANGED bottom

(***************************************************************************)
(* prepare_destination, before the lock file, which lies inside.           *)
(***************************************************************************)
Lowest == Max({n \in 1 .. TrustedRoot : There(n)})
Made(n) == [nodes EXCEPT ![n] = Plain(StoreOwner)]
PreparationOnly == UNCHANGED <<config, aside, moves>>

\* A user's root is made where it is missing, below what is verified.
BeginPrepare ==
  /\ AtRest
  /\ IF system THEN GoOn("look") /\ UNCHANGED bottom
     ELSE Walk(Lowest, None, "make") /\ bottom' = Lowest
  /\ Only

\* One missing directory; what somebody else has made there is verified.
MakeRoot ==
  /\ step = "make"
  /\ \/ bottom = TrustedRoot /\ GoOn("look") /\ bottom' = 1 /\ UNCHANGED nodes
     \/ /\ bottom < TrustedRoot /\ There(bottom) /\ ~There(bottom + 1)
        /\ nodes' = Made(bottom + 1) /\ bottom' = bottom + 1 /\ UNCHANGED <<step, walk>>
     \/ /\ bottom < TrustedRoot /\ There(bottom + 1)
        /\ bottom' = bottom + 1 /\ Walk(bottom + 1, None, "make") /\ UNCHANGED nodes
     \/ bottom < TrustedRoot /\ TurnBack /\ bottom' = 1 /\ UNCHANGED nodes
  /\ PreparationOnly

\* Whether the directory is there is what the steps that follow go by.
LookForStore ==
  /\ step = "look"
  /\ IF system THEN Walk(Depth, "root", IF There(Store) THEN "harden" ELSE "publish")
     ELSE IF There(Store) THEN VerifyAncestors("harden") ELSE GoOn("publish")
  /\ Only /\ UNCHANGED bottom

\* create_and_publish_directory: a directory of a fresh name, hardened and moved
\* into a place that must be free.
PublishStore ==
  /\ step = "publish"
  /\ IF ~There(Depth) \/ There(Store) THEN TurnBack /\ UNCHANGED nodes
     ELSE /\ nodes' = Made(Store)
          /\ IF system THEN GoOn("prepared") ELSE Walk(TrustedRoot, None, "prepared")
  /\ PreparationOnly /\ UNCHANGED bottom

\* harden_manifest_directory: root takes over what it finds, a user only what is theirs.
CanHarden == system \/ nodes[Store].owner = "user"
\* An own destination is put right, one that was given must be right.
HardenStore ==
  /\ step = "harden"
  /\ \/ override /\ Exact(Store) /\ GoOn("prepared") /\ UNCHANGED nodes
     \/ /\ ~override /\ There(Store) /\ CanHarden
        /\ nodes' = [Made(Store) EXCEPT ![Store].sticky = nodes[Store].sticky]
        /\ GoOn("prepared")
     \/ /\ IF override THEN ~Exact(Store) ELSE There(Store) => ~CanHarden
        /\ TurnBack /\ UNCHANGED nodes
  /\ PreparationOnly /\ UNCHANGED bottom

\* write_manifest puts a file of the store's owner into the prepared directory.
WriteFile ==
  /\ step = "prepared"
  /\ nodes' = Made(File) /\ step' = "idle"
  /\ PreparationOnly /\ UNCHANGED <<walk, bottom>>

(***************************************************************************)
(* The directory a worker directory is made in: from the root down, each   *)
(* directory opened below the one that was verified before it.             *)
(***************************************************************************)
BeginLocate ==
  /\ AtRest /\ step' = "locate" /\ pos' = 1 /\ then' = "located"
  /\ UNCHANGED <<child, reached>>
  /\ Only /\ UNCHANGED bottom

Locate ==
  /\ step = "locate"
  /\ IF ~There(pos) \/ ~WorkerAncestor(pos) THEN TurnBack
     ELSE IF pos = Depth THEN EndWalk(then)
     ELSE pos' = pos + 1 /\ UNCHANGED <<step, child, reached, then>>
  /\ Only /\ UNCHANGED bottom

(***************************************************************************)
(* Everybody else.                                                         *)
(***************************************************************************)
Beneath(n) == n .. File
Strangers(account) ==
  {Plain(account),
   Node(account, platform # "windows", FALSE, IF platform = "windows" THEN "allow" ELSE "none", TRUE)}

\* A stranger moves a node away and puts something of their own there, with or without
\* a whole path below it.
Take(n) ==
  /\ moves < MaxMoves /\ moves' = moves + 1
  /\ \E a \in Against :
       /\ There(n - 1)
       /\ IF There(n) THEN Replaces(a, n) ELSE Adds(a, nodes[n - 1])
       /\ aside' = IF There(n) THEN [at |-> n, path |-> nodes, by |-> a] ELSE aside
       /\ \E mine \in Strangers(a), down \in Beneath(n) :
            nodes' = [m \in 1 .. File |-> IF m < n THEN nodes[m]
                                          ELSE IF m <= down THEN mine ELSE None]
  /\ UNCHANGED <<config, walk, step, bottom>>

\* And puts back what was there.
PutBack ==
  /\ aside # None /\ There(aside.at)
  /\ aside.by \in Against /\ Replaces(aside.by, aside.at)
  /\ nodes' = [m \in 1 .. File |-> IF m < aside.at THEN nodes[m] ELSE aside.path[m]]
  /\ aside' = None
  /\ UNCHANGED <<config, walk, step, bottom, moves>>

(***************************************************************************)
(* Every path that can be met, and what happens on it.                     *)
(***************************************************************************)
RootsAndUsers == {node \in AnyNode : node.owner # "other" /\ node.fit}
OneAccess == {node \in RootsAndUsers : node.shared /\ node.acl = "none"}
UnixKinds == OneAccess \cup {Node("root", FALSE, FALSE, "none", FALSE)}
Listed(acls) == {node \in RootsAndUsers : ~node.shared /\ ~node.sticky /\ node.acl \in acls}
Kinds ==
  {Plain(o) : o \in {"root", "user", "other"}} \cup
  CASE platform = "linux" -> UnixKinds
    [] platform = "macos" -> UnixKinds \cup Listed({"deny", "allow"})
    [] platform = "windows" -> Listed({"adds", "allow"})
Ends == {Plain(o) : o \in {"root", "user", "other"}} \cup
        {Node(StoreOwner, FALSE, FALSE, "none", FALSE)}

TrustedInit ==
  /\ system \in BOOLEAN /\ override \in BOOLEAN
  /\ platform \in {"linux", "macos", "windows"}
  /\ \E last \in 1 .. File :
       nodes \in {path \in [1 .. File -> Kinds \cup Ends \cup {None}] :
                    /\ \A n \in 1 .. File : path[n] = None <=> n > last
                    /\ path[1].owner = "root"}
  /\ nodes[Store] \in Ends \cup {None} /\ nodes[File] \in Ends \cup {None}
  /\ aside = None /\ step = "idle"
  /\ pos = 1 /\ child = None /\ reached = FALSE /\ then = None
  /\ bottom = 1 /\ moves = 0

TrustedNext ==
  \/ BeginRead \/ BeginVerify \/ BeginPrepare \/ BeginLocate
  \/ LookUp \/ OpenForRead \/ Recheck
  \/ MakeRoot \/ LookForStore \/ PublishStore \/ HardenStore \/ WriteFile
  \/ Locate
  \/ \E n \in 2 .. File : Take(n)
  \/ PutBack

TrustedSpec == TrustedInit /\ [][TrustedNext]_trustedVars

(***************************************************************************)
(* Properties.                                                             *)
(***************************************************************************)
Ending == CASE step = "located" -> Depth [] step = "prepared" -> Store [] OTHER -> File

\* verify_manifest_ancestors, prepare_destination and worker_node_location: what styrn
\* has prepared, opened, verified or located can be replaced by no account that it is
\* kept from, at no place of the path, whatever such an account moved while styrn was
\* looking; and under windows nobody else creates anything where styrn is about to.
OnlyOwnersMove ==
  /\ step \in {"prepared", "read", "verified", "located"} =>
       \A n \in 2 .. Ending, a \in Against : ~Replaces(a, n)
  /\ step = "located" /\ platform = "windows" =>
       \A a \in Against : ~Adds(a, nodes[Depth])
=============================================================================
