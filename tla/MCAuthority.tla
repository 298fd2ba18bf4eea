------------------------------ MODULE MCAuthority ------------------------------
(***************************************************************************)
(* Small instances of who may do what: ManifestStore, Authorization,       *)
(* Elevation, and WindowsNode, where a thread gets the privilege to give   *)
(* away what it makes.  They share nothing, so that a behaviour of all of  *)
(* them is made of one of each: part says which of them is looked at, and  *)
(* the others stay where they begin.                                       *)
(***************************************************************************)
EXTENDS MCManifestStore, Authorization, WindowsNode, Elevation

CONSTANT MaxText

VARIABLE part

\* In a and b only differ in what a does; the second plan leaves b to the first.
TwoPlans == {"a" :> 1, ("a" :> 2) @@ ("b" :> 1)}

Account(uid, name, more) == [uid |-> uid, gid |-> uid, name |-> name, groups |-> {uid} \cup more]
ShortTexts == UNION {[1..n -> {"\\", "\"", "x", " "}] : n \in 0..MaxText}
ThreeAccounts == {Account(0, "root", {}), Account(1, "u", {3}), Account(2, "v", {})}
AllCallers == [ruid : 0..2, euid : 0..2, rgid : 0..2, egid : 0..2, groups : {{0}, {3}}]
AllOrigins == [uid : {None} \cup 0..2, gid : {None} \cup 0..2, user : {None, "u", "v"}]
AllPostures == [type : {"default", "limited", "full"},
                integrity : {"low", "medium", "high", "system"},
                admin : {"none", "deny", "enabled"}]

parts == <<part, vars, authVars, elevationVars, nodeVars>>

Still == [caller |-> "nobody"]

PartsInit ==
  /\ part \in {"store", "authority", "elevation", "windows"}
  /\ Init /\ AuthInit
  /\ part # "store" => manifest = None
  /\ NodeInit /\ (part # "windows" => owner = [s \in Scopes |-> "self"])
  /\ IF part = "elevation" THEN ElevationInit
     ELSE stage = "done" /\ given = Still /\ token = None /\ creds = None

StoreNext ==
  part = "store" /\ Next /\ UNCHANGED <<part, authVars, elevationVars, nodeVars>>
AuthorityNext ==
  part = "authority" /\ AuthNext /\ UNCHANGED <<part, vars, elevationVars, nodeVars>>
ElevatedNext ==
  part = "elevation" /\ ElevationNext /\ UNCHANGED <<part, vars, authVars, nodeVars>>
WindowsNext ==
  part = "windows" /\ NodeNext /\ UNCHANGED <<part, vars, authVars, elevationVars>>

PartsNext == StoreNext \/ AuthorityNext \/ ElevatedNext \/ WindowsNext

PartsSpec == PartsInit /\ [][PartsNext]_parts
=============================================================================
