----------------------------- MODULE SetupConfig -----------------------------
(***************************************************************************)
(* src/setup/config.rs and interactive.rs: the effective setup, layered    *)
(* from defaults, a config file and the command line, or from answers; and *)
(* setup-config.toml, the replay of an interactive setup, which processes  *)
(* in the same directory may write at the same time.                       *)
(***************************************************************************)
EXTENDS Platform, PrivateFile, SequencesExt, FiniteSets

CONSTANTS Shells,       \* processes that run styrn setup in one directory
          Configs,      \* config files that may be named on the command line
          Requests,     \* command lines
          Answers,      \* what may be typed at the three prompts
          MaxRuns,      \* setups
          MaxBreaks     \* failing calls and kills

VARIABLES cwd,          \* the working directory, a directory of PrivateFile
          phase, setup, \* the step and the effective setup of each process
          calls,        \* what each process has to do of a publication
          room          \* what is left of the bounds

configVars == <<platform, cwd, phase, setup, calls, room>>

ComponentNames == {"ssh-server", "tailscale", "git", "rust", "sccache", "herdr", "codex",
                   "claude", "styrnd", "sleep-policy", "rdp", "cockpit"}
DefaultComponents == {"ssh-server", "tailscale", "git", "styrnd", "sleep-policy"}

ASSUME ConfigAssumption ==
  None \notin Nat /\ \A a \in Answers : a.install \subseteq ComponentNames

(***************************************************************************)
(* Layers. A field that is not given is None.                              *)
(***************************************************************************)
Given(value, otherwise) == IF value # None THEN value ELSE otherwise

NoConfig == [role |-> None, scope |-> None, account |-> None, name |-> None,
             components |-> <<>>, root |-> None, keys |-> None, tailscale |-> None,
             env |-> None, fail |-> None]
NoRequest == [role |-> None, scope |-> None, account |-> None, name |-> None,
              install |-> {}, keys |-> <<>>, config |-> FALSE, deferred |-> FALSE]

ConfigValid(c) ==
  /\ c.role \in {None, "controller", "worker", "both"}
  /\ c.scope \in {None, "user", "system"}
  /\ c.account # None => c.account.mode \in {None, "current-user", "dedicated"}
  /\ c.tailscale \in {None, "", "tailscaled"}

\* The file says true or false of some components, the rest are as by default.
Configured(c) ==
  {n \in ComponentNames : IF n \in DOMAIN c.components THEN c.components[n]
                          ELSE n \in DefaultComponents}

Account(account) ==
  IF account = None THEN [mode |-> "current-user", name |-> None]
  ELSE [account EXCEPT !.mode = Given(@, "current-user")]

Effective(c, r) ==
  [role |-> Given(r.role, Given(c.role, "worker")),
   scope |-> Given(r.scope, Given(c.scope, "user")),
   account |-> Account(Given(r.account, c.account)),
   name |-> Given(r.name, c.name),
   components |-> Configured(c) \cup r.install,
   root |-> Given(c.root, ""),
   keys |-> IF r.keys = <<>> THEN Given(c.keys, <<>>) ELSE r.keys,
   tailscale |-> Given(c.tailscale, ""),
   env |-> Given(c.env, "TS_AUTHKEY"),
   fail |-> Given(c.fail, FALSE)]

\* validate_effective: what a rootless setup supports.
Supported(e, r) ==
  /\ ~ r.deferred
  /\ e.role = "worker" /\ e.scope = "user" /\ e.root = ""
  /\ e.account = [mode |-> "current-user", name |-> None]
  /\ e.tailscale \in {"", "tailscaled"}
  /\ IsInjective(e.keys)

FromAnswers(a) ==
  [Effective(NoConfig, NoRequest) EXCEPT !.role = Given(a.role, "worker"), !.name = a.name,
     !.components = DefaultComponents \cup a.install]

\* replay_toml: every component is named, chosen or not.
Replay(e) ==
  [role |-> e.role, scope |-> "user", account |-> [mode |-> "current-user", name |-> None],
   name |-> e.name, components |-> [n \in ComponentNames |-> n \in e.components],
   root |-> "", keys |-> e.keys, tailscale |-> e.tailscale, env |-> e.env, fail |-> e.fail]

(***************************************************************************)
(* A process.                                                              *)
(***************************************************************************)
Saved == <<"setup-config.toml", None>>
Temporary(p) == <<"tmp", p>>

ConfigInit ==
  /\ platform \in {"linux", "macos", "windows"}
  /\ cwd = EmptyDirectory({Saved} \cup {Temporary(p) : p \in Shells})
  /\ phase = [p \in Shells |-> "idle"]
  /\ setup = [p \in Shells |-> None]
  /\ calls = [p \in Shells |-> <<>>]
  /\ room = [runs |-> MaxRuns, breaks |-> MaxBreaks]

Turn(p, step) == phase' = [phase EXCEPT ![p] = step]

\* An error of any kind ends the process before it applies anything.
GiveUp(p) ==
  /\ Turn(p, "idle")
  /\ setup' = [setup EXCEPT ![p] = None] /\ calls' = [calls EXCEPT ![p] = <<>>]

BeginSetup(p) ==
  /\ phase[p] \in {"idle", "apply"} /\ room.runs > 0
  /\ room' = [room EXCEPT !.runs = @ - 1]
  /\ UNCHANGED <<platform, cwd, calls>>

\* load_effective_rootless_setup; a config may be the replay of an earlier run.
LoadEffective(p) ==
  /\ BeginSetup(p)
  /\ \E r \in Requests, c \in Configs \cup {NoConfig} \cup ({Content(cwd, Saved)} \ {None}) :
       LET used == IF r.config THEN c ELSE NoConfig
           e == Effective(used, r)
       IN
       \/ /\ ConfigValid(used) /\ Supported(e, r)
          /\ setup' = [setup EXCEPT ![p] = e] /\ Turn(p, "apply")
       \/ /\ ~ (ConfigValid(used) /\ Supported(e, r))
          /\ setup' = [setup EXCEPT ![p] = None] /\ Turn(p, "idle")

\* collect_interactive_answers, plan and confirmation.
Collect(p) ==
  /\ BeginSetup(p)
  /\ \E a \in Answers :
       IF FromAnswers(a).role = "worker"
       THEN setup' = [setup EXCEPT ![p] = FromAnswers(a)] /\ Turn(p, "persist")
       ELSE setup' = [setup EXCEPT ![p] = None] /\ Turn(p, "idle")

\* compare_existing_replay.
Compare(p) ==
  IF Content(cwd, Saved) = Replay(setup[p])
  THEN Turn(p, "apply") /\ calls' = [calls EXCEPT ![p] = <<>>] /\ UNCHANGED setup
  ELSE GiveUp(p)

\* A temporary that is already there is passed over for the next number; only
\* the process's own is of interest here.
Persist(p) ==
  /\ phase[p] = "persist"
  /\ \/ Has(cwd, Saved) /\ Compare(p) /\ UNCHANGED cwd
     \/ /\ ~ Has(cwd, Saved)
        /\ LET new == Create(cwd, Temporary(p), Replay(setup[p]))
           IN cwd' = SyncData(new, Temporary(p))
        /\ calls' = [calls EXCEPT ![p] = Publication(platform)]
        /\ Turn(p, "publish")
        /\ UNCHANGED setup
  /\ UNCHANGED <<platform, room>>

\* Seeded fault: the replay replaces what is there.
MayTakeAlways(p, call) == TRUE

MayTake(p, call) == ~ Refused(cwd, call, Saved)

PublishReplay(p) ==
  LET call == Head(calls[p]) IN
  /\ phase[p] = "publish"
  /\ IF MayTake(p, call)
     THEN /\ cwd' = AfterCall(cwd, call, Temporary(p), Saved)
          /\ calls' = [calls EXCEPT ![p] = Tail(@)]
          /\ Turn(p, IF Len(calls[p]) = 1 THEN "apply" ELSE "publish")
          /\ UNCHANGED setup
     ELSE cwd' = Bound(cwd, Temporary(p), None) /\ Compare(p)
  /\ UNCHANGED <<platform, room>>

\* A call fails, with the temporary removed, or the process is killed.
Break(p) ==
  /\ phase[p] # "idle" /\ room.breaks > 0
  /\ room' = [room EXCEPT !.breaks = @ - 1]
  /\ GiveUp(p)
  /\ cwd' \in {cwd, Bound(cwd, Temporary(p), None)}
  /\ UNCHANGED platform

ConfigNext == \E p \in Shells :
          LoadEffective(p) \/ Collect(p) \/ Persist(p) \/ PublishReplay(p) \/ Break(p)

ConfigSpec == ConfigInit /\ [][ConfigNext]_configVars

(***************************************************************************)
(* The replay that is in the directory of an interactive setup from the    *)
(* moment it applies its plan gives the very same setup again, when it is  *)
(* given as --config with no other argument: whatever processes answered   *)
(* otherwise at the same time, and however they ended.                     *)
(***************************************************************************)
Replayed == Effective(Content(cwd, Saved), NoRequest)

Repeats(p) == /\ Has(cwd, Saved)
              /\ Replayed = setup[p]
              /\ ConfigValid(Content(cwd, Saved))
              /\ Supported(Replayed, NoRequest)

ReplayRepeats ==
  [][\A p \in Shells :
       /\ (phase[p] \in {"persist", "publish"} /\ phase'[p] = "apply") => Repeats(p)'
       /\ Has(cwd, Saved) => Content(cwd, Saved)' = Content(cwd, Saved)]_configVars
=============================================================================
