------------------------------- MODULE MCFiles -------------------------------
(***************************************************************************)
(* Small instances of the components that make single files and            *)
(* directories: WorkerNode, AuthorizedKeys, ControllerIdentity,            *)
(* SetupConfig and TrustedPath, and of Adoption, which chooses whose they  *)
(* are.  They share nothing, so that a behaviour of all of them is made of *)
(* one of each: part says which of them is looked at, and the others stay  *)
(* where they begin.                                                       *)
(***************************************************************************)
EXTENDS WorkerNode, AuthorizedKeys, ControllerIdentity, SetupConfig, TrustedPath, Adoption

CONSTANTS u1, u2

VARIABLE part

TwoKeys == {"k1", "k2"}

SomeConfigs == {[NoConfig EXCEPT !.components = [git |-> FALSE, rdp |-> TRUE],
                                 !.keys = <<"a">>, !.fail = TRUE],
                [NoConfig EXCEPT !.role = "both"],
                [NoConfig EXCEPT !.tailscale = "other"]}
SomeRequests == {NoRequest,
             [NoRequest EXCEPT !.config = TRUE],
             [NoRequest EXCEPT !.config = TRUE, !.role = "worker", !.install = {"rust"},
                               !.keys = <<"b">>],
             [NoRequest EXCEPT !.deferred = TRUE]}
SomeAnswers == {[role |-> None, install |-> {}, name |-> None],
            [role |-> "worker", install |-> {"rust"}, name |-> "box"],
            [role |-> "both", install |-> {}, name |-> None]}

Mine == [mode |-> "current-user", kind |-> "uid", id |-> MaxAccounts + 1, name |-> "old",
         isolation |-> "shared-user"]
Base(system_, scope) ==
  [uuid |-> None, scope |-> scope, roles |-> {"worker"}, os |-> system_, identity |-> None,
   transport |-> [user |-> "someone"], root |-> scope, leaves |-> TRUE, flaws |-> {}]
Ours(system_) ==
  [Base(system_, "system") EXCEPT !.identity = Mine, !.transport = [user |-> "old"]]
SomeBases ==
  {Base(system_, "system") : system_ \in {"linux", "macos", "windows"}}
    \cup {Base(system_, "user") : system_ \in {"linux", "windows"}}
    \cup {Ours("linux"), [Ours("linux") EXCEPT !.flaws = {"path"}],
          [Ours("windows") EXCEPT !.identity.kind = "sid"],
          [Base("linux", "system") EXCEPT !.root = "elsewhere"],
          [Base("linux", "user") EXCEPT !.flaws = {"secret"}],
          [Base("linux", "system") EXCEPT !.roles = {"controller"}, !.transport = None]}

parts == <<part, vars, keysVars, idVars, configVars, trustedVars, allVars>>

IdleWorker ==
  /\ accounts = <<>> /\ home = [is |-> "empty", owner |-> 1]
  /\ records \in SoundDatabases

IdlePath ==
  /\ system = TRUE /\ override = FALSE /\ nodes = <<>> /\ aside = None
  /\ step = "idle" /\ pos = 1 /\ child = None /\ reached = FALSE /\ then = None /\ bottom = 1 /\ moves = 0

PartsInit ==
  /\ part \in {"node", "keys", "identity", "config", "path", "account"}
  /\ platform \in Platforms
  /\ part \in {"node", "keys"} => platform = "linux"
  /\ part = "config" => platform # "macos"       \* which publishes as linux does
  /\ Init /\ KeysInit /\ IdentityInit /\ ConfigInit /\ AdoptionInit
  /\ part # "node" => keeps
  /\ part # "keys" => dir = "absent"
  /\ part # "account" => IdleWorker
  /\ IF part = "path" THEN TrustedInit ELSE IdlePath

NodePart ==
  /\ part = "node" /\ Next
  /\ UNCHANGED <<part, keysVars, idVars, configVars, trustedVars, allVars>>
KeysPart ==
  /\ part = "keys" /\ KeysNext
  /\ UNCHANGED <<part, vars, idVars, configVars, trustedVars, allVars>>
IdentityPart ==
  /\ part = "identity" /\ IdentityNext
  /\ UNCHANGED <<part, vars, keysVars, configVars, trustedVars, allVars>>
ConfigPart ==
  /\ part = "config" /\ ConfigNext
  /\ UNCHANGED <<part, vars, keysVars, idVars, trustedVars, allVars>>
PathPart ==
  /\ part = "path" /\ TrustedNext
  /\ UNCHANGED <<part, vars, keysVars, idVars, configVars, allVars>>
AccountPart ==
  /\ part = "account" /\ AdoptionNext
  /\ UNCHANGED <<part, vars, keysVars, idVars, configVars, trustedVars>>

PartsNext == NodePart \/ KeysPart \/ IdentityPart \/ ConfigPart \/ PathPart \/ AccountPart

\* FairSpec of WorkerNode; the others promise nothing that must happen.
PartsSpec == PartsInit /\ [][PartsNext]_parts /\ WF_vars(part = "node" /\ SessionStep)
=============================================================================
