------------------------------ MODULE SetupState ------------------------------
(***************************************************************************)
(* What `styrn setup` keeps on disk in user scope, the state of the setup  *)
(* processes that share it, and the vocabulary of their steps.             *)
(*                                                                         *)
(* Disk: the receipt, the transaction-intent files beside it, the          *)
(* pending-publication sidecar, the machine manifest, and the host         *)
(* resources the actions create.  All writers hold the receipt lock        *)
(* (flock, dropped when the process ends); setup's planning reads without  *)
(* it.  A durable write is one step that may succeed, fail before the      *)
(* rename, or fail after it.  A crash is a process that ends between two   *)
(* steps; what is on disk stays.                                           *)
(***************************************************************************)
EXTENDS ReceiptDocument

CONSTANTS
  Procs,         \* setup processes
  Actions,       \* action ids
  Directories,   \* the worker-directory nodes, which leave creation evidence
  Virtual,       \* planned actions whose check was fixed when they were planned
  Card,          \* the virtual "ssh.enrollment-card" action
  Params,        \* the recorded parameters of an action
  Plans,         \* the plans a setup may compute: sequences of plan items
  Drafts,        \* manifest contents setup may generate, machine id apart
  EditedDraft,   \* manifest content nobody's setup generated
  MaxIds,        \* bound: no run starts once this many ids were minted
  MaxFaults,     \* bound on failing durable writes and mutations
  MaxCrashes,    \* bound on crashes
  MaxInterference, \* bound on changes others make to the resources
  MaxEdits       \* bound on changes others make to the manifest

PlanItem == [action : Actions, param : Params, human : BOOLEAN]

ASSUME ActionsAssumption ==
  /\ Directories \subseteq Actions
  /\ Virtual \subseteq Actions
  /\ Directories \intersect Virtual = {}

\* Action names are unique in a plan; apply_plan_with_runner refuses others.
ASSUME PlansAssumption ==
  /\ Plans \subseteq Seq(PlanItem)
  /\ \A plan \in Plans : \A i, j \in DOMAIN plan : plan[i].action = plan[j].action => i = j

Entries == [id : Nat, action : Actions, param : Params, status : {"applied", "pending"}]
Links == [action : Actions, entry : Nat]
Publications == [id : Nat, count : Nat, links : Seq(Links)]
Documents == [entries : Seq(Entries), pubs : Seq(Publications)]

\* None is no process, no content and no document.
ASSUME NoneAssumption ==
  /\ None \notin Procs
  /\ None \notin Drafts
  /\ None \notin Documents

ASSUME BoundsAssumption ==
  /\ MaxIds \in Nat /\ MaxFaults \in Nat /\ MaxCrashes \in Nat
  /\ MaxInterference \in Nat /\ MaxEdits \in Nat

VARIABLES
  receipt,   \* None (no file) or the document
  intents,   \* the transaction-intent files: [phase, entry]
  sidecar,   \* None or the pending-publication intent
  manifest,  \* None or [mid, draft, pending]
  res,       \* the host resource of each action that is not virtual
  lock,      \* None or the process that holds the receipt lock
  pc,        \* what each process does next
  job,       \* the rest of each process's state
  nextId,    \* the next id (UUIDv7) to be minted
  budget,    \* what is left of the bounds
  made       \* history: the entry ids under which a mutation was performed

disk == <<receipt, intents, sidecar, manifest>>
vars == <<receipt, intents, sidecar, manifest, res, lock, pc, job, nextId, budget, made>>

(***************************************************************************)
(* Resources.                                                              *)
(*   absent    nothing there                                               *)
(*   evidence  a directory styrn created, its creation provenance active   *)
(*   owned     a directory styrn created, its provenance retired           *)
(*   exact     what the action wants, without provenance                   *)
(*   foreign   something else, or something unsafe                         *)
(*   lost      provenance without its directory                            *)
(***************************************************************************)
ResourceStates == {"absent", "evidence", "owned", "exact", "foreign", "lost"}

\* The state of a planned action.  item.absent: nothing was there at planning.
Check(item) ==
  CASE item.action \in Virtual -> IF item.human THEN "human" ELSE "done"
    [] res[item.action] \in {"exact", "owned"} -> "done"
    [] res[item.action] = "absent" /\ (item.absent \/ item.action \in Directories) -> "todo"
    [] OTHER -> "human"

(***************************************************************************)
(* Processes.                                                              *)
(***************************************************************************)
ApplySteps == {"check", "write_intent", "execute", "bind", "append", "retire_evidence",
               "retire_intent"}
PublishSteps == {"recover", "recover_checkpoint", "recover_remove", "prepare_publication",
                 "replace_manifest", "checkpoint", "remove"}
LockedSteps == ApplySteps \union PublishSteps
\* In these the process also holds the manifest lock between two steps.
ManifestLockedSteps == {"recover_checkpoint", "recover_remove", "replace_manifest",
                        "checkpoint", "remove"}
Steps == LockedSteps \union {"idle", "snapshot", "begin_apply", "applied", "begin_publication"}

IdleJob ==
  [ plan |-> <<>>,        \* the planned actions
    idx |-> 0,            \* the one being applied; 0 while recovering an intent
    held |-> None,        \* the entry of the intent in hand
    replay |-> FALSE,     \* the intent in hand was found already succeeded
    failing |-> FALSE,    \* finish with the intent in hand, then report failure
    keeping |-> FALSE,    \* keep the succeeded intent in hand when finishing
    occurrences |-> <<>>, \* the pending occurrences recorded by this apply
    witness |-> None,     \* the effective document the apply ended with
    draft |-> None,       \* the manifest content to publish
    retries |-> 0,        \* re-applies after a stale witness
    seen |-> None ]       \* the sidecar the lock-free reader opened

\* How a durable write or a mutation ends.
Outcomes == {"ok", "failed_before", "failed_after"}
Happened(outcome) == outcome # "failed_before"

\* A failure is taken from the bound on failures.
Charge(failed) ==
  /\ failed => budget.faults > 0
  /\ budget' = IF failed THEN [budget EXCEPT !.faults = @ - 1] ELSE budget

Goto(p, step, j) ==
  /\ pc' = [pc EXCEPT ![p] = step]
  /\ job' = [job EXCEPT ![p] = j]
  /\ UNCHANGED lock

\* The session takes the receipt lock.
Enter(p, step, j) ==
  /\ pc' = [pc EXCEPT ![p] = step]
  /\ job' = [job EXCEPT ![p] = j]
  /\ lock' = p

\* Seeded fault: the lock is not dropped with its session.
ReleasedLeaking(p) == lock

Released(p) == IF lock = p THEN None ELSE lock

\* The session guard goes out of scope, whatever the result.
Leave(p, step, j) ==
  /\ pc' = [pc EXCEPT ![p] = step]
  /\ job' = [job EXCEPT ![p] = j]
  /\ lock' = Released(p)

\* The invocation ends, published or with an error.
End(p) == Leave(p, "idle", IdleJob)

Document == IF receipt = None THEN EmptyDocument ELSE receipt

\* read_locked: an absent receipt is the empty one, whatever the sidecar says.
LockedReadOK == receipt # None => Accepts(receipt, sidecar)

\* read_pending_publication_intent against the document just read.
SidecarReadOK == sidecar # None => BindingValid(sidecar, Document)

\* The occurrences recorded by the apply are distinct and still current.
OccurrencesHold(p) ==
  /\ LinksDistinct(job[p].occurrences)
  /\ \A i \in DOMAIN job[p].occurrences :
       LET link == job[p].occurrences[i]
       IN CurrentOccurrence(Document, link.action, sidecar) = {link}

=============================================================================
