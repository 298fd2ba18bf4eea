----------------------------- MODULE MCRpcSession -----------------------------
(***************************************************************************)
(* Small instances of RpcSession for TLC: a controller that speaks two     *)
(* versions, and workers of older, equal and newer releases; and of        *)
(* Baseline, the probes behind the worker's answer to doctor and behind    *)
(* its setup. They share nothing: part says which of them is looked at,    *)
(* and the other stays where it begins.                                    *)
(***************************************************************************)
EXTENDS RpcSession, Baseline

VARIABLE part

Release(min, max) == [min |-> min, max |-> max, schema |-> 1, methods |-> Methods]

\* An old release without doctor, and one whose manifest has another schema.
AllReleases ==
  {[Release(1, 1) EXCEPT !.methods = @ \ {"doctor"}], Release(1, 2), Release(2, 3),
   Release(3, 3), [Release(2, 2) EXCEPT !.schema = 2]}

\* What refresh, status, doctor and exec call.
AllScripts ==
  {<<"manifest">>, <<"manifest", "status">>, <<"manifest", "status", "doctor">>,
   <<"manifest", "exec">>}

parts == <<part, vars, baselineVars>>

PartsInit ==
  /\ part \in {"session", "probes"}
  /\ Init /\ BaselineInit
  /\ part = "session" => platform = "linux" /\ subject = "deferred"
  /\ part = "probes" => worker = Release(1, 2) /\ script = <<"manifest">>

SessionNext == part = "session" /\ Next /\ UNCHANGED <<part, baselineVars>>
ProbesNext == part = "probes" /\ BaselineNext /\ UNCHANGED <<part, vars>>

\* The fairness of RpcSession; a probe promises nothing that must happen.
PartsSpec ==
  PartsInit /\ [][SessionNext \/ ProbesNext]_parts /\ (part = "session" => Fairness)

SessionEnds == part = "session" => EndsWithItsCommand
=============================================================================
