------------------------------- MODULE Elevation -------------------------------
(***************************************************************************)
(* The border of privilege in src/platform, crossed both ways: the command *)
(* line that starts the privileged phase under windows, and the user that  *)
(* an elevated setup finds behind itself, for whom it runs the user phase. *)
(***************************************************************************)
EXTENDS NoValue, Naturals, Sequences, SequencesExt, FiniteSets

CONSTANTS Texts,     \* arguments, as sequences of characters
          Accounts,  \* the native accounts: [uid, gid, name, groups]
          Callers,   \* [ruid, euid, rgid, egid, groups] of the process
          Origins,   \* what sudo says: [uid, gid, user], each None if missing
          Postures   \* of windows tokens: [type, integrity, admin]

VARIABLES stage,     \* where this goes on
          given,     \* what it started from
          token,     \* the user token, or None
          creds      \* the credentials of the child before it executes

elevationVars == <<stage, given, token, creds>>

(***************************************************************************)
(* windows_quote_command_argument, and CommandLineToArgvW, which reads it. *)
(***************************************************************************)
Slash == "\\"
Quote == "\""
Slashes(n) == [i \in 1..n |-> Slash]

\* Backslashes are doubled where a quote follows, and nowhere else.
QuoteStep(seen, char) ==
  CASE char = Slash -> [seen EXCEPT !.slashes = @ + 1]
    [] char = Quote -> [out |-> seen.out \o Slashes(2 * seen.slashes + 1) \o <<Quote>>,
                        slashes |-> 0]
    [] OTHER -> [out |-> seen.out \o Slashes(seen.slashes) \o <<char>>, slashes |-> 0]

\* Seeded fault: the backslashes before the closing quote are left as they are.
QuotedOpen(text) ==
  LET all == FoldLeft(QuoteStep, [out |-> <<Quote>>, slashes |-> 0], text)
  IN all.out \o Slashes(all.slashes) \o <<Quote>>

Quoted(text) ==
  LET all == FoldLeft(QuoteStep, [out |-> <<Quote>>, slashes |-> 0], text)
  IN all.out \o Slashes(2 * all.slashes) \o <<Quote>>

CommandLine(texts) == FoldLeft(LAMBDA line, text :
                                 line \o (IF line = <<>> THEN <<>> ELSE <<" ">>) \o Quoted(text),
                               <<>>, texts)

\* args: those complete; now: the one that is read, or None between two.
Flush(s) == [s EXCEPT !.slashes = 0,
                      !.now = IF s.slashes = 0 THEN @
                              ELSE (IF @ = None THEN <<>> ELSE @) \o Slashes(s.slashes)]
Opened(s) == IF s.now = None THEN [s EXCEPT !.now = <<>>] ELSE s
Plus(s, char) == [Opened(Flush(s)) EXCEPT !.now = Append(@, char)]

ReadStep(s, char) ==
  CASE char = Slash -> [s EXCEPT !.slashes = @ + 1]
    [] char = Quote ->
         LET half == Opened(Flush([s EXCEPT !.slashes = @ \div 2]))
         IN IF s.slashes % 2 = 1 THEN [half EXCEPT !.now = Append(@, Quote)]
            ELSE [half EXCEPT !.quoted = ~ @]
    [] char = " " /\ ~ s.quoted ->
         LET all == Flush(s)
         IN IF all.now = None THEN all ELSE [all EXCEPT !.args = Append(@, all.now), !.now = None]
    [] OTHER -> Plus(s, char)

Argv(line) ==
  LET all == Flush(FoldLeft(ReadStep, [args |-> <<>>, now |-> None, slashes |-> 0,
                                       quoted |-> FALSE], line))
  IN IF all.now = None THEN all.args ELSE Append(all.args, all.now)

(***************************************************************************)
(* Unix: select_unix_execution, parse_sudo_origin_entries, and             *)
(* capture_setup_execution_context, which looks the account up.            *)
(***************************************************************************)
IsOrdinary(c) == c.ruid = c.euid /\ c.ruid # 0 /\ c.rgid = c.egid /\ c.rgid # 0
IsRoot(c) == <<c.ruid, c.euid, c.rgid, c.egid>> = <<0, 0, 0, 0>>

OriginGiven(o) == None \notin {o.uid, o.gid, o.user} /\ o.uid # 0 /\ o.gid # 0

AccountOf(uid) == {a \in Accounts : a.uid = uid}

\* Seeded fault: any account of that uid is the user's.
UserOfNamed(c, o) ==
  IF IsOrdinary(c)
  THEN {[uid |-> a.uid, gid |-> c.rgid, groups |-> c.groups, drop |-> FALSE] : a \in AccountOf(c.ruid)}
  ELSE IF IsRoot(c) /\ OriginGiven(o)
  THEN {[uid |-> a.uid, gid |-> o.gid, groups |-> a.groups \ {a.gid}, drop |-> TRUE] :
          a \in {b \in AccountOf(o.uid) : b.name = o.user}}
  ELSE {}

UserOf(c, o) ==
  IF IsOrdinary(c)
  THEN {[uid |-> a.uid, gid |-> a.gid, groups |-> c.groups, drop |-> FALSE] :
          a \in {b \in AccountOf(c.ruid) : b.gid = c.rgid}}
  ELSE IF IsRoot(c) /\ OriginGiven(o)
  THEN {[uid |-> a.uid, gid |-> a.gid, groups |-> a.groups \ {a.gid}, drop |-> TRUE] :
          a \in {b \in AccountOf(o.uid) : b.gid = o.gid /\ b.name = o.user}}
  ELSE {}

(***************************************************************************)
(* Windows: select_windows_user_token.  A posture that no value of         *)
(* windows_token_posture_from_native stands for is refused before.         *)
(***************************************************************************)
SafeLimited(t) == t = [type |-> "limited", integrity |-> "medium", admin |-> "deny"]
SafeFull(t) == t = [type |-> "full", integrity |-> "high", admin |-> "enabled"]
SafeDefault(t) == t = [type |-> "default", integrity |-> "medium", admin |-> "none"]

Chosen(current, linked) ==
  CASE SafeDefault(current) -> "current"
    [] SafeLimited(current) /\ SafeFull(linked) -> "current"
    [] SafeFull(current) /\ SafeLimited(linked) -> "linked"
    [] OTHER -> None

(***************************************************************************)
(* The child of run_user_phase, between fork and exec.                     *)
(***************************************************************************)
ElevationInit ==
  \/ /\ stage = "launch" /\ given \in [texts : Texts \X Texts]
     /\ token = None /\ creds = None
  \/ /\ stage = "unix" /\ given \in [caller : Callers, origin : Origins]
     /\ token = None
     /\ creds = [uid |-> [real |-> given.caller.ruid, eff |-> given.caller.euid,
                          saved |-> given.caller.euid],
                 gid |-> [real |-> given.caller.rgid, eff |-> given.caller.egid,
                          saved |-> given.caller.egid],
                 groups |-> given.caller.groups]
  \/ /\ stage = "windows" /\ given \in [current : Postures, linked : Postures]
     /\ token = None /\ creds = None

All(id) == [real |-> id, eff |-> id, saved |-> id]
GoOn(step) == stage' = step /\ UNCHANGED <<given, token>>
Fail == GoOn("refused") /\ UNCHANGED creds

CaptureUnix ==
  /\ stage = "unix"
  /\ LET users == UserOf(given.caller, given.origin) IN
       IF users = {} THEN Fail
       ELSE /\ token' \in users
            /\ stage' = IF token'.drop THEN "setgroups" ELSE "verify"
            /\ UNCHANGED <<given, creds>>

\* setgroups and setgid need an effective root, which setuid gives up.
Privileged == creds.uid.eff = 0

SetGroups == stage = "setgroups"
             /\ IF Privileged THEN creds' = [creds EXCEPT !.groups = token.groups] /\ GoOn("setgid")
                              ELSE Fail

SetGid == stage = "setgid"
          /\ IF Privileged THEN creds' = [creds EXCEPT !.gid = All(token.gid)] /\ GoOn("setuid")
                           ELSE Fail

SetUid == stage = "setuid"
          /\ creds' = [creds EXCEPT !.uid = All(token.uid)] /\ GoOn("verify")

\* Of the saved ids only the user's is tried, and only after a drop.
Verify ==
  /\ stage = "verify"
  /\ IF /\ creds.uid.real = token.uid /\ creds.uid.eff = token.uid
        /\ creds.gid.real = token.gid /\ creds.gid.eff = token.gid
        /\ creds.groups = token.groups
        /\ token.drop => creds.uid.saved # 0
     THEN GoOn("exec") /\ UNCHANGED creds
     ELSE Fail

\* The token is duplicated and inspected again, as it may be another by then.
CaptureWindows ==
  /\ stage = "windows"
  /\ LET choice == Chosen(given.current, given.linked)
         expected == IF choice = "current" THEN given.current ELSE given.linked
     IN \/ choice = None /\ Fail
        \/ /\ choice # None
           /\ \E primary \in Postures, same \in BOOLEAN :
                IF primary = expected /\ same
                THEN /\ token' = [posture |-> primary, own |-> same, elevated |-> choice = "linked"]
                     /\ stage' = "captured" /\ UNCHANGED <<given, creds>>
                ELSE Fail

ElevationNext == CaptureUnix \/ SetGroups \/ SetGid \/ SetUid \/ Verify \/ CaptureWindows

ElevationSpec == ElevationInit /\ [][ElevationNext]_elevationVars

(***************************************************************************)
(* What runs in the user phase is the user's: one account that exists, of  *)
(* which uid, gid and name agree, with its own groups and no way back to   *)
(* root; under windows a token of the same user that is of medium          *)
(* integrity and no administrator.                                         *)
(***************************************************************************)
UserPhaseIsTheUsers ==
  /\ stage = "exec" =>
       /\ creds.uid = All(creds.uid.real) /\ creds.gid = All(creds.gid.real)
       /\ creds.uid.real # 0 /\ creds.gid.real # 0
       /\ \E a \in Accounts :
            /\ a.uid = creds.uid.real /\ a.gid = creds.gid.real
            /\ token.drop => /\ given.origin.user = a.name
                             /\ creds.groups \cup {a.gid} = a.groups \cup {a.gid}
  /\ stage = "captured" =>
       token.own /\ token.posture.integrity = "medium" /\ token.posture.admin # "enabled"

(***************************************************************************)
(* The privileged phase gets the arguments it was to get, whatever spaces, *)
(* quotes and backslashes are in them.                                     *)
(***************************************************************************)
ArgumentsArrive == stage = "launch" => Argv(CommandLine(given.texts)) = given.texts
=============================================================================
