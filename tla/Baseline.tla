------------------------------ MODULE Baseline ------------------------------
(***************************************************************************)
(* The probes of a worker's baseline capabilities, and what setup and      *)
(* doctor make of their answers: the plan, the sections of the manifest,   *)
(* the enrollment card and the findings. A probe is a row of reads of the  *)
(* machine (files, services, commands), each of which may fail, while the  *)
(* machine may change between any two of them. What the machine is, is the *)
(* set of facts that hold of it. One capability is looked at; the others   *)
(* go the same way.                                                        *)
(***************************************************************************)
EXTENDS NoValue, Naturals, Sequences, FiniteSets

CONSTANT MaxChanges

VARIABLES platform, subject, \* what is probed, and where
          keys, mode,        \* what setup is asked for: keys of controllers, a Tailscale mode
          recorded,          \* the fingerprint in the manifest
          facts, hostKey,    \* what is so on the machine; the key its sshd shows
          changes,
          probe,             \* the probe under way or just ended
          setup              \* where setup or doctor is, and what it has said

asked == <<platform, subject, keys, mode, recorded>>
machine == <<facts, hostKey, changes>>
baselineVars == <<asked, machine, probe, setup>>

Platforms == {"linux", "macos", "windows"}
Subjects == {"ssh-server", "tailscale", "git", "sleep-policy", "styrnd", "deferred"}
Programs == {"bin", "local", "app"}

\* None is no answer, no mode, no key and no word of a plan.
ASSUME BaselineAssumption ==
  /\ None \notin BOOLEAN
  /\ None \notin {"", "gui", "tailscaled", "service", "k1", "k2", "done", "needs_human", "pass", "fail",
                 "duplicate", "missing", "unknowable", "mismatch"}
  /\ None \notin [is : {"healthy", "unhealthy", "absent", "broken", "unknowable"},
                  posture : {None} \cup [mode : {None, "gui", "tailscaled", "service"},
                                        persistent : BOOLEAN, unattended : BOOLEAN]]

----------------------------------------------------------------------------
(* The reads of a probe: the facts a read tells, the facts that make it    *)
(* unnecessary, whether the program that was found is run for it, what its *)
(* failure means and what is decided once it is done.                      *)

Read(reads) == [reads |-> reads, unless |-> {}, program |-> FALSE, fails |-> "no", then |-> "go"]
Commanded(reads) == [Read(reads) EXCEPT !.fails = "stop"]
OfProgram(reads) == [Commanded(reads) EXCEPT !.program = TRUE]
Unit(unit) == [Read({unit}) EXCEPT !.fails = "dim"]
OrElse(fact, other) == [Read({fact}) EXCEPT !.unless = {other}]
Then(read, then) == [read EXCEPT !.then = then]

\* authorized_keys_are_ready: the home, its .ssh and the file; whatever fails is not ready.
UnixKeys == <<Then(Read({"home"}), "private"), Then(Read({"dir"}), "private"), Read({"keys"})>>
WindowsKeys == <<Then(Read({"dir"}), "private"), Read({"keys"})>>

Find == <<Read({"bin"}), Then(OrElse("local", "bin"), "absent")>>
FindOne == <<Then(Read({"bin"}), "absent")>>
\* The account, and what sshd -T says of it.
Sshd == <<Commanded({}), OfProgram({"pubkey", "files"})>>
Transport(reads) == [reads EXCEPT ![Len(reads)].then = "transport"]

LinuxSsh(withKeys) ==
  Find \o <<Unit("sshd"), Then(Unit("ssh"), "alias")>> \o Transport(Sshd)
    \o IF withKeys THEN UnixKeys ELSE <<>>
MacSsh(withKeys) ==
  FindOne \o <<Commanded({"sshd"})>> \o Transport(Sshd) \o IF withKeys THEN UnixKeys ELSE <<>>
\* The profile is looked up first, and then whether the transport is healthy.
WindowsSsh(withKeys) ==
  <<Commanded({})>> \o FindOne \o <<Commanded({"sshd"})>>
    \o IF withKeys THEN Transport(Sshd \o <<Commanded({})>>) \o WindowsKeys ELSE Transport(Sshd)

LinuxTailscale ==
  Find \o <<Unit("active"), Then(Unit("enabled"), "all"), OfProgram({"online"})>>
MacTailscale ==
  <<Read({"bin"}), OrElse("local", "bin"), Read({"app"}), Read({"gui"}), OrElse("gui2", "gui"),
    Read({"daemon"}), Then(OrElse("daemon2", "daemon"), "mode"), OfProgram({"online"})>>
WindowsTailscale ==
  FindOne \o <<Commanded({}), Read({"active"}), Read({"enabled"}), Read({"unattended"}),
               OfProgram({"online"})>>

LinuxGit == Find \o <<OfProgram({"works"})>>
MacGit == FindOne \o <<OfProgram({"works"})>>
WindowsGit == LinuxGit
LinuxSleep == <<Commanded({"awake"})>>
MacSleep == LinuxSleep
WindowsSleep == <<Commanded({})>> \o LinuxSleep

Ssh(withKeys) ==
  CASE platform = "linux" -> LinuxSsh(withKeys) [] platform = "macos" -> MacSsh(withKeys)
    [] platform = "windows" -> WindowsSsh(withKeys)
Tailscale ==
  CASE platform = "linux" -> LinuxTailscale [] platform = "macos" -> MacTailscale
    [] platform = "windows" -> WindowsTailscale
Git ==
  CASE platform = "linux" -> LinuxGit [] platform = "macos" -> MacGit
    [] platform = "windows" -> WindowsGit
Sleep ==
  CASE platform = "linux" -> LinuxSleep [] platform = "macos" -> MacSleep
    [] platform = "windows" -> WindowsSleep

\* Setup that will write keys asks only for the transport; every other probe wants keys.
WithKeys(use) == use # "setup" \/ ~keys

Reads(use) ==
  CASE subject = "ssh-server" -> Ssh(WithKeys(use)) [] subject = "tailscale" -> Tailscale
    [] subject = "git" -> Git [] subject = "sleep-policy" -> Sleep [] OTHER -> <<>>

\* All that any of the reads may tell.
Relevant ==
  UNION {read.reads : read \in
    LET reads == Reads("doctor") IN {reads[i] : i \in DOMAIN reads}}

----------------------------------------------------------------------------
(* What is made of the reads. *)

Status(is) == [is |-> is, posture |-> None]

Saw(p, some) == p.seen \cap some # {}
Observation(p, unit) == IF unit \in p.dim THEN None ELSE unit \in p.seen

\* Mutant: a unit whose state could not be read is not active.
AliasIsActive(p) == Saw(p, {"sshd", "ssh"})

\* Where there is no systemd, the one service is "sshd".
SystemdAliasIsActive(p) ==
  LET units == {Observation(p, "sshd"), Observation(p, "ssh")} IN
  IF TRUE \in units THEN TRUE ELSE IF None \in units THEN None ELSE FALSE

AllSystemdStatesAreActive(p) ==
  LET units == {Observation(p, "active"), Observation(p, "enabled")} IN
  IF None \in units THEN None ELSE FALSE \notin units

TransportHealthy(p) == SystemdAliasIsActive(p) = TRUE /\ "pubkey" \in p.seen

TailscaleServiceIsPersistent(p, labels) == Saw(p, labels)

\* The mode on macOS: both may be there, but only one may be set to stay.
SelectTailscaleMode(p) ==
  LET gui == TailscaleServiceIsPersistent(p, {"gui", "gui2"})
      daemon == TailscaleServiceIsPersistent(p, {"daemon", "daemon2"})
  IN  IF "app" \notin p.seen THEN (IF Saw(p, {"bin", "local"}) THEN "tailscaled" ELSE None)
      ELSE IF ~Saw(p, {"bin", "local"}) THEN "gui"
      ELSE IF gui = daemon THEN None ELSE IF gui THEN "gui" ELSE "tailscaled"

Mode(p) ==
  CASE platform = "linux" -> "tailscaled" [] platform = "windows" -> "service"
    [] platform = "macos" -> SelectTailscaleMode(p)

Posture(p) ==
  [mode |-> Mode(p),
   persistent |->
     IF platform # "macos" THEN {"active", "enabled"} \subseteq p.seen
     ELSE Saw(p, IF Mode(p) = "gui" THEN {"gui", "gui2"} ELSE {"daemon", "daemon2"}),
   unattended |->
     IF platform = "windows" THEN "unattended" \in p.seen ELSE Mode(p) = "tailscaled"]

DefaultMode ==
  CASE platform = "linux" -> "tailscaled" [] platform = "windows" -> "service"
    [] platform = "macos" -> "gui"

\* Doctor takes a manifest that names no mode for one that names the service.
Requested(use) ==
  IF mode # "" THEN mode ELSE IF use = "doctor" THEN "service" ELSE DefaultMode

TailscaleStatusSnapshot(p) ==
  LET posture == Posture(p)
      healthy == /\ "online" \in p.seen /\ posture.persistent
                 /\ posture.mode = "service" => posture.unattended
                 /\ posture.mode = Requested(p.use)
  IN  [is |-> IF healthy THEN "healthy" ELSE "unhealthy", posture |-> posture]

\* What a read decides at once, None when the probe goes on.
Decided(then, read, p) ==
  CASE then = "absent" /\ ~Saw(p, Programs) -> Status("absent")
    [] then = "alias" /\ SystemdAliasIsActive(p) = None -> Status("unknowable")
    [] then = "all" /\ AllSystemdStatesAreActive(p) = None -> Status("unknowable")
    [] then = "mode" /\ Mode(p) = None ->
         Status(IF Saw(p, Programs) THEN "unknowable" ELSE "absent")
    [] then = "transport" /\ ~TransportHealthy(p) -> Status("unhealthy")
    [] then = "private" /\ ~Saw(p, read.reads) -> Status("unhealthy")
    [] OTHER -> None

BaselineProbeSnapshot(p) ==
  CASE subject = "ssh-server" ->
         Status(IF WithKeys(p.use) => {"files", "keys"} \subseteq p.seen
                THEN "healthy" ELSE "unhealthy")
    [] subject = "tailscale" -> TailscaleStatusSnapshot(p)
    [] subject = "git" -> Status(IF "works" \in p.seen THEN "healthy" ELSE "broken")
    [] subject = "sleep-policy" -> Status(IF "awake" \in p.seen THEN "healthy" ELSE "unhealthy")
    [] subject = "styrnd" -> Status("absent")
    [] subject = "deferred" -> Status("unknowable")

----------------------------------------------------------------------------
(* A probe. Three sets of facts record what could be known when it ends,   *)
(* and influence nothing: those that held at some moment since it began,   *)
(* those that at some moment did not, missed, and those whose read failed  *)
(* and was taken for a no, denied, whether they held or not.               *)

NoProbe ==
  [use |-> "none", at |-> 1, seen |-> {}, dim |-> {},
   held |-> {}, missed |-> {}, denied |-> {}, status |-> None]

Probing == probe.use # "none" /\ probe.status = None

Begin(use) ==
  LET p == [NoProbe EXCEPT !.use = use, !.held = facts, !.missed = Relevant \ facts] IN
  probe' = IF Reads(use) = <<>> THEN [p EXCEPT !.status = BaselineProbeSnapshot(p)] ELSE p

Now == Reads(probe.use)[probe.at]

\* What was read is forgotten when the probe ends.
Ended(p, status) == [p EXCEPT !.at = 1, !.seen = {}, !.dim = {}, !.status = status]

Goes(p) ==
  LET decided == Decided(Now.then, Now, p) IN
  probe' =
    IF decided # None THEN Ended(p, decided)
    ELSE IF p.at = Len(Reads(p.use)) THEN Ended(p, BaselineProbeSnapshot(p))
    ELSE [p EXCEPT !.at = @ + 1]

\* The program that is run: the app, or the first of the others that was found.
Program ==
  IF subject = "tailscale" /\ Mode(probe) = "gui" THEN "app"
  ELSE IF "bin" \in probe.seen THEN "bin" ELSE "local"

ReadNext ==
  /\ Probing
  /\ IF Saw(probe, Now.unless) THEN Goes(probe)
     ELSE /\ Now.program => Program \in facts
          /\ Goes([probe EXCEPT !.seen = @ \cup (Now.reads \cap facts)])
  /\ UNCHANGED <<asked, machine, setup>>

\* A command that cannot be run, takes too long or is not understood; a path that
\* cannot be looked at.
ReadFails ==
  /\ Probing /\ ~Saw(probe, Now.unless)
  /\ CASE Now.fails = "stop" -> probe' = Ended(probe, Status("unknowable"))
       [] Now.fails = "dim" -> Goes([probe EXCEPT !.dim = @ \cup Now.reads])
       [] Now.fails = "no" -> Goes([probe EXCEPT !.denied = @ \cup Now.reads])
  /\ UNCHANGED <<asked, machine, setup>>

\* Somebody installs, starts, stops or removes something, or sshd gets another key.
WorldChanges ==
  /\ setup.at # "end" /\ changes < MaxChanges /\ changes' = changes + 1
  /\ \/ \E fact \in Relevant :
          facts' = (IF fact \in facts THEN facts \ {fact} ELSE facts \cup {fact})
        /\ UNCHANGED hostKey
     \/ subject = "ssh-server" /\ hostKey' \in {None, "k1", "k2"} \ {hostKey} /\ UNCHANGED facts
  /\ probe' = IF Probing THEN [probe EXCEPT !.held = @ \cup facts',
                                            !.missed = @ \cup (Relevant \ facts')] ELSE probe
  /\ UNCHANGED <<asked, setup>>

----------------------------------------------------------------------------
(* The plan. *)

Unknown(status) == status.is = "unknowable"
Healthy(status) == status.is = "healthy"
HumanRequired(status) == status.is \in {"absent", "broken", "unknowable"}

\* Why a change of the desired state cannot be planned, None when it can.
Problem(observed, wanted, i) ==
  LET change == wanted[i] IN
  IF \E j \in 1..(i - 1) : wanted[j].subject = change.subject THEN "duplicate"
  ELSE IF change.subject \notin DOMAIN observed THEN "missing"
  ELSE LET status == observed[change.subject] IN
       IF Unknown(status) /\ change.wish \notin {"human", "adopt"} THEN "unknowable"
       ELSE IF \/ change.wish = "skip" /\ status.is # "absent"
               \/ change.wish = "human" /\ ~HumanRequired(status)
               \/ change.wish = "remove" /\ ~Healthy(status) THEN "mismatch"
       ELSE None

Operation(wish, status) ==
  CASE wish = "converge" ->
         (IF status.is = "absent" THEN "create" ELSE IF Healthy(status) THEN "done" ELSE "reconfigure")
    [] wish = "adopt" -> (IF Healthy(status) THEN "done" ELSE "needs_human")
    [] wish = "human" -> "needs_human"
    [] wish = "skip" -> "skipped"
    [] wish = "remove" -> "remove"

Compute(observed, wanted) ==
  LET problems == {Problem(observed, wanted, i) : i \in DOMAIN wanted} \ {None} IN
  IF problems # {} THEN <<>>
  ELSE [i \in DOMAIN wanted |-> Operation(wanted[i].wish, observed[wanted[i].subject])]

DoctorFinding(status) ==
  CASE Healthy(status) -> "pass" [] Unknown(status) -> "unknown" [] OTHER -> "fail"

----------------------------------------------------------------------------
(* Setup and doctor. *)

Nothing == [at |-> "start", plan |-> <<>>, finding |-> None, card |-> None, item |-> None,
            capability |-> None, installed |-> None, publicKey |-> None, posture |-> None]

Observe(use) ==
  /\ setup.at = "start" /\ setup' = [setup EXCEPT !.at = use]
  /\ Begin(use)
  /\ UNCHANGED <<asked, machine>>

WorkerDoctorFindings ==
  /\ setup.at = "doctor" /\ probe.status # None
  /\ setup' = [setup EXCEPT !.at = "end", !.finding = DoctorFinding(probe.status)]
  /\ UNCHANGED <<asked, machine, probe>>

Present(status) == status.is \in {"healthy", "unhealthy"}
Change(of, wish) == [subject |-> of, wish |-> wish]
Desired ==
  {<<Change(subject, wish)>> : wish \in {"adopt", "converge", "human", "skip", "remove"}}
    \cup {<<Change("another", "adopt")>>, <<Change(subject, "adopt"), Change(subject, "human")>>}

\* The plan, and the sections that rootless_manifest_base makes of the same observation.
ComputePlan ==
  /\ setup.at = "setup" /\ probe.status # None
  /\ LET status == probe.status IN
     \E wanted \in Desired :
       setup' = [setup EXCEPT
         !.at = IF wanted = <<Change(subject, "adopt")>> /\ subject = "ssh-server"
                THEN "planned" ELSE "end",
         !.plan = Compute([of \in {subject} |-> status], wanted),
         !.capability = Healthy(status), !.installed = Present(status),
         !.publicKey = Healthy(status), !.posture = status.posture]
  /\ UNCHANGED <<asked, machine, probe>>

ShouldEmit == keys \/ recorded # None

\* discover: the key of the recorded fingerprint, any key when none is recorded.
Discovered == {key \in {hostKey} \ {None} : recorded # None => key = recorded} \cup {None}

EnrollmentCardAction(pending) == IF pending THEN "needs_human" ELSE "done"

\* The rest of prepare: does the card look possible now? What was said before is not
\* looked at again.
PrepareCard ==
  /\ setup.at = "planned"
  /\ \E key \in Discovered :
       setup' = [Nothing EXCEPT !.at = "apply",
                   !.item = IF ShouldEmit THEN EnrollmentCardAction(key = None) ELSE None]
  /\ probe' = NoProbe
  /\ UNCHANGED <<asked, machine>>

\* The actions have run: they wrote the keys, or left some of it to the human.
Applied ==
  /\ setup.at = "apply"
  /\ \E written \in IF keys THEN {{}, {"dir"}, {"dir", "keys"}} ELSE {{}} :
       facts' = facts \cup written
  /\ setup' = [setup EXCEPT !.at = "applied"]
  /\ UNCHANGED <<asked, hostKey, changes, probe>>

SshReadiness ==
  /\ setup.at = "applied" /\ setup' = [setup EXCEPT !.at = "card"]
  /\ Begin("card")
  /\ UNCHANGED <<asked, machine>>

RefreshSshManifest(said, status) ==
  [said EXCEPT !.installed = IF Unknown(status) THEN None ELSE status.is # "absent",
               !.publicKey = IF Unknown(status) THEN None ELSE Healthy(status)]

Reconcile(said, card) ==
  [said EXCEPT !.item = IF @ = None THEN None ELSE EnrollmentCardAction(card = None)]

EnrollmentCardAfterApply ==
  /\ setup.at = "card" /\ probe.status # None
  /\ \E key \in Discovered :
       LET card == IF Healthy(probe.status) /\ ShouldEmit THEN key ELSE None IN
       setup' = [Reconcile(RefreshSshManifest(setup, probe.status), card)
                   EXCEPT !.at = "end", !.card = card]
  /\ UNCHANGED <<asked, machine, probe>>

Some(set) == {{fact} : fact \in set}

\* Of what stands for the same thing at most one is there at first, for the labels of
\* launchd the first; at most one thing is wrong with ssh at first.
Alternatives == {{"bin", "local"}, {"sshd", "ssh"}, {"gui", "gui2"}, {"daemon", "daemon2"}}
Parts(all) == {some \cap all : some \in Alternatives} \cup Some(all \ UNION Alternatives)
Wrong == {some \in Parts(Relevant) \ {{}} : some \cap facts = {}}

BaselineInit ==
  /\ platform \in Platforms /\ subject \in Subjects
  /\ keys \in (IF subject = "ssh-server" THEN BOOLEAN ELSE {FALSE})
  /\ mode \in (IF subject = "tailscale" THEN {"", "gui", "tailscaled", "service"} ELSE {""})
  /\ hostKey = IF subject = "ssh-server" THEN "k1" ELSE None
  /\ recorded \in (IF subject = "ssh-server" THEN {None, "k1", "k2"} ELSE {None})
  /\ facts \in SUBSET Relevant
  /\ \A some \in Alternatives : Cardinality(facts \cap some) <= 1
  /\ facts \cap {"gui2", "daemon2"} = {}
  /\ subject = "ssh-server" => Cardinality(Wrong) <= 1
  /\ changes = 0 /\ probe = NoProbe /\ setup = Nothing

BaselineNext ==
  \/ ReadNext \/ ReadFails \/ WorldChanges
  \/ Observe("setup") \/ (subject # "styrnd" /\ Observe("doctor")) \/ WorkerDoctorFindings \/ ComputePlan
  \/ PrepareCard \/ Applied \/ SshReadiness \/ EnrollmentCardAfterApply
  \/ setup.at = "end" /\ UNCHANGED baselineVars

----------------------------------------------------------------------------
\* What the capability needs, as sets of facts of which one must hold.
ModeNeeds(wanted) ==
  CASE wanted = DefaultMode /\ platform = "linux" -> {{"bin", "local"}} \cup Some({"active", "enabled"})
    [] wanted = DefaultMode /\ platform = "windows" -> Some({"bin", "active", "enabled", "unattended"})
    [] wanted = "gui" /\ platform = "macos" -> {{"app"}, {"gui", "gui2"}}
    [] wanted = "tailscaled" /\ platform = "macos" -> {{"bin", "local"}, {"daemon", "daemon2"}}
    [] OTHER -> {{}}
Needs(use) ==
  CASE subject = "ssh-server" ->
         {{"bin", "local"}, {"sshd", "ssh"}, {"pubkey"}}
           \cup IF WithKeys(use) THEN Some(Relevant \cap {"files", "home", "dir", "keys"}) ELSE {}
    [] subject = "tailscale" -> ModeNeeds(Requested(use)) \cup {{"online"}}
    [] subject = "git" -> {{"bin", "local"}, {"works"}}
    [] subject = "sleep-policy" -> {{"awake"}}
    [] OTHER -> {{}}

Ready == \A some \in Needs(probe.use) : some \cap probe.held # {}
\* Of the facts that are not left out.
NotReady(out) == \E some \in Needs(probe.use) : (some \cap Relevant) \ out \subseteq probe.missed
NotThere(out) == (Relevant \cap Programs) \ out \subseteq probe.missed

InPlan(operation) == \E i \in DOMAIN setup.plan : setup.plan[i] = operation
FirstSaid == probe.use = "setup"
LastSaid == probe.use = "card" /\ setup.at = "end"

(***************************************************************************)
(* Setup and doctor say ready of a machine (as done, passed, removable,    *)
(* capable, accepting keys, or by a card) only if it had all that needs,   *)
(* each at some moment since the probe began: whichever reads fail, and    *)
(* however, none counts for it. A card is of the key in the manifest, and  *)
(* the plan shows the card as done if and only if there is one.            *)
(***************************************************************************)
ReadyOnlyIfSo ==
  /\ FirstSaid /\ (InPlan("done") \/ InPlan("remove") \/ setup.capability = TRUE) => Ready
  /\ setup.finding = "pass" => Ready
  /\ LastSaid /\ (setup.publicKey = TRUE \/ setup.card # None) => Ready
  /\ setup.card # None => ShouldEmit /\ recorded \in {None, setup.card}
  /\ LastSaid /\ setup.item # None => (setup.item = "done" <=> setup.card # None)

\* Missing (created, skipped, not installed) is what had no program, and not ready
\* what missed something it needs, of the facts that are not left out.
Against(out) ==
  /\ FirstSaid /\ (InPlan("create") \/ InPlan("skipped")) => NotThere(out)
  /\ FirstSaid /\ InPlan("reconfigure") => NotReady(out)
  /\ setup.finding = "fail" => NotReady(out) \/ NotThere(out)
  /\ LastSaid /\ setup.installed = FALSE => NotThere(out)
  /\ LastSaid /\ setup.publicKey = FALSE => NotReady(out) \/ NotThere(out)

\* Setup and doctor say missing or not ready of a machine only if it was, by all the
\* facts but those whose read failed and was taken for a no. A command that fails
\* where that stops the probe, and a systemd unit whose state is not to be had, never
\* count as such a no.
NotReadyOnlyIfSo == Against(probe.denied)

\* Nothing is said of a machine, for it or against it, that was so at no time, except
\* where a read that failed was taken for a no.
SaidIsSoUnlessUnread == ReadyOnlyIfSo /\ NotReadyOnlyIfSo

\* "an observation failure such as permission denial, I/O failure [...] yields
\* `Unknowable` rather than `false`" (docs/implementation-plan.md:135): missing and not
\* ready are said only of what was, however its reads fail.
UnreadIsUnknown == Against({})

BaselineSpec == BaselineInit /\ [][BaselineNext]_baselineVars
=============================================================================
