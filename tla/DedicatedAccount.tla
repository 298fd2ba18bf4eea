-------------------------- MODULE DedicatedAccount --------------------------
(***************************************************************************)
(* A dedicated worker's account and the inspection of it. The name that    *)
(* the operator selects is held by an account or by none; accounts have    *)
(* native ids (a uid, a SID) that are not given out twice, and each lacks  *)
(* some of the traits a worker's account must have. An administrator may   *)
(* change, remove and make accounts while Styrn looks at them.             *)
(*                                                                         *)
(* An inspection is a row of native lookups, some by the name, some by the *)
(* id that the first of them gave. Each lookup is an action, and so is the *)
(* failure of one. What the inspection does with a lookup is a record:     *)
(* the traits it reads, those it gives up at (early), and its answer when  *)
(* there is nothing under the name or id (none), when the name is held by  *)
(* another account than the one found (other), and when the call fails.    *)
(***************************************************************************)
EXTENDS Platform, Naturals, Sequences, FiniteSets

CONSTANTS MaxAccounts, MaxChanges

VARIABLES holder,      \* the account that holds the name now, 0 for none
          accounts,    \* accounts[id]: the traits that account id lacks
          home,        \* the home directory that goes with the name
          records,     \* the local passwd and group files, on Linux
          changes,     \* how often the administrator has acted
          look,        \* the inspection under way or just ended
          met          \* what the account looked at has met since it began

world == <<holder, accounts, home, records, changes>>

Platforms == {"linux", "macos", "windows"}

Traits(os) ==
  CASE os = "linux" -> {"named", "ordinary", "group", "groups", "home", "shell"}
    [] os = "macos" -> {"named", "ordinary", "single", "local", "enabled", "visible",
                        "plain", "groups", "home", "shell"}
    [] os = "windows" -> {"named", "local", "enabled", "unlocked", "plain", "profile"}

----------------------------------------------------------------------------
(* Lookups of Linux. *)

Lookup(by, reads, none, other) ==
  [by |-> by, reads |-> reads, early |-> {}, none |-> none, other |-> other,
   error |-> "unknowable"]

LookupWorkerUid == [Lookup("name", {"ordinary"}, "absent", "theirs") EXCEPT !.early = {"ordinary"}]
AccountDetails == Lookup("id", {"named", "home", "shell"}, "broken", "theirs")
SupplementaryGroups == Lookup("name", {"groups"}, "pass", "theirs")
GroupName == [Lookup("gid", {"group"}, "pass", "theirs") EXCEPT !.early = {"group"}]
\* The local records are compared with the details that were read before.
LocalRecords ==
  [Lookup("name", {"records", "home", "shell", "group"}, "lacks", "lacks") EXCEPT !.error = "dim"]
Home == [Lookup("path", {}, "pass", "pass") EXCEPT !.error = "dim"]

LinuxLookups ==
  <<LookupWorkerUid, AccountDetails, SupplementaryGroups, GroupName, LocalRecords, Home>>

(***************************************************************************)
(* The local files. A file is trusted when the directories and itself are  *)
(* root's and nobody else's to write, and what was opened is what the name *)
(* says. A record that has the account's name or its uid must agree with   *)
(* the account in every field, and there must be exactly one.              *)
(***************************************************************************)
TrustedDatabase(file) == file.loose \cap {"root", "etc", "file"} = {}

ScanRecords(rows) ==
  LET touching == {i \in DOMAIN rows : rows[i] # "another"}
  IN  \E i \in touching : touching = {i} /\ rows[i] = "same"

\* Mutant: whoever may write the files is trusted.
LocalAccountRecordsRead == ScanRecords(records.rows)

LocalAccountRecordsMatch == TrustedDatabase(records) /\ ScanRecords(records.rows)

SoundDatabases == [loose : {{}}, rows : {<<"another", "same">>}]
Databases ==
  [loose : {{}}, rows : {<<"another", "same">>, <<"same", "stale">>, <<"another">>,
                         <<"namesake">>, <<"same", "alias">>}]
    \cup [loose : {{"etc"}}, rows : {<<"same">>}]

----------------------------------------------------------------------------
(* Lookups of macOS and Windows. *)

LocalIdentity ==
  [Lookup("name", {"ordinary", "single", "local", "enabled", "visible"}, "absent", "theirs")
     EXCEPT !.early = {"ordinary"}]
LocalUid == Lookup("name", {}, "broken", "lacks")
MacAccountDetails == AccountDetails
MacSupplementaryGroups == SupplementaryGroups
AdminMembership == Lookup("object", {"plain"}, "pass", "theirs")

MacLookups ==
  <<LocalIdentity, LocalUid, MacAccountDetails, MacSupplementaryGroups, AdminMembership, Home>>

NetUserGetInfo ==
  Lookup("name", {"local", "enabled", "unlocked", "profile"}, "absent", "theirs")
LookupAccountSid == Lookup("name", {}, "unknowable", "broken")
PrincipalForSid == [Lookup("id", {"named"}, "broken", "theirs") EXCEPT !.error = "broken"]
LocalGroups == Lookup("name", {"plain"}, "unknowable", "theirs")

WindowsLookups == <<NetUserGetInfo, LookupAccountSid, PrincipalForSid, LocalGroups, Home>>

Lookups ==
  CASE platform = "linux" -> LinuxLookups
    [] platform = "macos" -> MacLookups
    [] platform = "windows" -> WindowsLookups

----------------------------------------------------------------------------
(* The classification. *)

\* inspect_dedicated_home and its macOS counterpart: owner, mode and ACL, then contents.
HomeState(id) ==
  IF home.is = "missing" THEN "missing"
  ELSE IF home.is = "unsafe" \/ home.owner # id THEN "unsafe" ELSE home.is

MacHomeState(id) == HomeState(id)
ProfileState(id) == HomeState(id)

LinuxHomeIsSafe(mode, state) ==
  state = "empty" \/ (mode = "established" /\ state = "populated")
MacHomeIsSafe(mode, state) == LinuxHomeIsSafe(mode, state)
ProfileIsEligible(mode, state) == state = "missing" \/ LinuxHomeIsSafe(mode, state)

HomeIsSafe(mode, id) ==
  CASE platform = "linux" -> LinuxHomeIsSafe(mode, HomeState(id))
    [] platform = "macos" -> MacHomeIsSafe(mode, MacHomeState(id))
    [] platform = "windows" -> ProfileIsEligible(mode, ProfileState(id))

Classify ==
  IF look.dim THEN "unknowable"
  ELSE IF look.lacks = {} /\ HomeIsSafe(look.mode, look.id) THEN "healthy" ELSE "broken"

----------------------------------------------------------------------------
(* The inspection. *)

NoLook == [mode |-> "none", at |-> 1, id |-> 0, lacks |-> {}, dim |-> FALSE, answer |-> "none"]

Looking == look.mode # "none" /\ look.answer = "none"
Next_(l) == [l EXCEPT !.at = @ + 1]

\* What an account lacks as a lookup finds it: "records" is kept in files of its own.
LacksOf(id) ==
  accounts[id] \cup IF platform = "linux" /\ ~LocalAccountRecordsMatch THEN {"records"} ELSE {}

\* Everything that is asked of an account, and what account id meets of it now.
Required == Traits(platform) \cup {"directory"} \cup IF platform = "linux" THEN {"records"} ELSE {}

FitHome(id) ==
  \/ home.owner = id /\ home.is \in {"empty", "populated"}
  \/ home.is = "missing" /\ platform = "windows"

Unmet(id) ==
  accounts[id] \cup {need \in {"records", "directory"} :
                       \/ need = "records" /\ records \notin SoundDatabases
                       \/ need = "directory" /\ ~FitHome(id)}

\* "unused" is that nothing is in the home yet.
Meets(id) ==
  IF id = 0 \/ id # holder THEN {}
  ELSE (Required \ Unmet(id)) \cup IF home.is = "populated" THEN {} ELSE {"unused"}

BeginInspection(mode) ==
  /\ look' = [NoLook EXCEPT !.mode = mode]
  /\ met' = {}
  /\ UNCHANGED <<platform, world>>

Answered(answer) == look' = [look EXCEPT !.answer = answer]

\* The account a lookup reads: whoever holds the name, or the one that was found.
Subject(lookup) == IF look.id = 0 \/ lookup.by = "name" THEN holder ELSE look.id
Gone(lookup) ==
  IF lookup.by = "name" THEN holder = 0 ELSE (lookup.by = "id" /\ holder # look.id)
Stranger(lookup) == lookup.by = "name" /\ holder # 0 /\ look.id \notin {0, holder}

Read(lookup, missing) ==
  look' = Next_([look EXCEPT !.id = IF @ = 0 THEN holder ELSE @, !.lacks = @ \cup missing])

LookupStep(lookup) ==
  /\ Looking /\ Lookups[look.at] = lookup /\ lookup # Home
  /\ \/ /\ Gone(lookup) /\ lookup.none \notin {"pass", "lacks"}
        /\ Answered(lookup.none)
     \/ /\ Gone(lookup) /\ lookup.none \in {"pass", "lacks"}
        /\ Read(lookup, IF lookup.none = "pass" THEN {} ELSE {"records"})
     \/ /\ Stranger(lookup) /\ lookup.other = "broken"
        /\ Answered("broken")
     \/ /\ Stranger(lookup) /\ lookup.other = "lacks"
        /\ Read(lookup, {"same id"})
     \/ /\ ~Gone(lookup) /\ (Stranger(lookup) => lookup.other = "theirs")
        /\ IF "single" \in lookup.reads /\ "single" \in LacksOf(Subject(lookup))
           THEN Answered("unknowable")
           ELSE \/ Read(lookup, LacksOf(Subject(lookup)) \cap lookup.reads)
                \/ LacksOf(Subject(lookup)) \cap lookup.early # {} /\ Answered("broken")
  /\ met' = met \cup Meets(look'.id)
  /\ UNCHANGED <<platform, world>>

\* A native call fails: the answer is unknowable, at once or when the rest has been read.
LookupFails ==
  /\ Looking
  /\ LET lookup == Lookups[look.at] IN
     IF lookup = Home THEN Answered("unknowable")
     ELSE IF lookup.error = "dim" THEN look' = Next_([look EXCEPT !.dim = TRUE])
     ELSE Answered(lookup.error)
  /\ UNCHANGED <<platform, world, met>>

\* The home is read last, and the account is classified.
ReadHome ==
  /\ Looking /\ Lookups[look.at] = Home
  /\ Answered(Classify)
  /\ UNCHANGED <<platform, world, met>>

InspectDedicatedAccount == ReadHome \/ LookupFails \/ \E k \in DOMAIN Lookups : LookupStep(Lookups[k])

----------------------------------------------------------------------------
(* The administrator, and the worker's own programs. *)

Changed == changes < MaxChanges /\ changes' = changes + 1 /\ UNCHANGED <<platform, look>>

ChangeTrait ==
  /\ holder # 0
  /\ \E trait \in Traits(platform) \ {"ordinary"} :
       accounts' = [accounts EXCEPT ![holder] = IF trait \in @ THEN @ \ {trait} ELSE @ \cup {trait}]
  /\ UNCHANGED <<holder, home, records>>

RemoveAccount ==
  /\ holder # 0 /\ holder' = 0
  /\ home' \in {home, [is |-> "missing", owner |-> 0]}
  /\ UNCHANGED <<accounts, records>>

\* Another account takes the name: the one that had it is renamed or removed.
AddAccount ==
  /\ Len(accounts) < MaxAccounts
  /\ accounts' = Append(accounts, {}) /\ holder' = Len(accounts')
  /\ home' \in {home, [is |-> "empty", owner |-> holder']}
  /\ UNCHANGED records

ChangeHome ==
  /\ holder # 0
  /\ home' \in [is : {"missing", "empty", "populated", "unsafe"}, owner : {holder}] \ {home}
  /\ UNCHANGED <<holder, accounts, records>>

ChangeRecords ==
  /\ platform = "linux" /\ records' \in Databases \ {records}
  /\ UNCHANGED <<holder, accounts, home>>

WorldChanges ==
  /\ Changed
  /\ ChangeTrait \/ RemoveAccount \/ AddAccount \/ ChangeHome \/ ChangeRecords
  /\ met' = IF Looking THEN met \cup Meets(look.id)' ELSE met

\* At most one thing is wrong with the account at first.
AccountInit ==
  /\ platform \in Platforms
  /\ accounts \in {<<>>, <<{}>>} \cup {<<{trait}>> : trait \in Traits(platform)}
  /\ holder = Len(accounts)
  /\ home \in [is : {"missing", "empty", "populated", "unsafe"}, owner : {1}]
  /\ IF platform = "linux" THEN records \in Databases
     ELSE records = [loose |-> {}, rows |-> <<"another", "same">>]
  /\ accounts # <<{}>> => home.is = "empty"
  /\ accounts # <<{}>> \/ home.is # "empty" => records \in SoundDatabases
  /\ changes = 0 /\ look = NoLook /\ met = {}
=============================================================================
