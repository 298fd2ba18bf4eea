----------------------------- MODULE WindowsNode -----------------------------
(***************************************************************************)
(* Setups of two scopes that create the same worker directory under        *)
(* windows (src/src/platform/windows.rs), where no evidence is left on the *)
(* disk: what was created is known only to the process, which makes the    *)
(* directory in a thread of its own, with the privilege to give it to      *)
(* another owner, and keeps hold of it and of the layout lock until its    *)
(* journal has it.  WorkerNode has the same creation in one step.          *)
(*                                                                         *)
(* The lock is named for the identity of the directory above, the anchor,  *)
(* which is opened before the lock is there to take.                       *)
(***************************************************************************)
EXTENDS NoValue, Naturals

CONSTANTS Scopes,    \* the setups, one of each scope
          MaxOthers, \* bound on changes other programs make
          MaxFaults  \* bound on failing calls and killed setups

Anchors == 1..2
Owners == {"self", "another"} \* whether the worker is the user who runs setup

\* None is neither a setup nor a directory, nor the number that is its identity.
ASSUME AbsentAssumption ==
  None \notin Nat /\ None \notin Scopes
  /\ None \notin [id : Nat, by : Scopes \cup {None}, ok : BOOLEAN]

VARIABLES owner,
          anchor, nodes,   \* the anchor at the path; the worker directory in each
          mutex,           \* who holds the layout lock of each anchor
          at, hand,        \* the setups: their step and what they have in hand
          journal,         \* what a setup has recorded as created
          excused,         \* setups that others or a failing call kept from recording
          born, others, faults

world == <<anchor, nodes>>
nodeVars == <<owner, world, mutex, at, hand, journal, excused, born, others, faults>>

NoHand == [anchor |-> None, dir |-> None, created |-> FALSE, failed |-> FALSE,
           dirty |-> FALSE, said |-> None]

\* Where a step goes, and what it has in hand then.
Proceed(s, step) == at' = [at EXCEPT ![s] = step]
Hold(s, held) == hand' = [hand EXCEPT ![s] = held]
Keep == UNCHANGED hand
Sound == UNCHANGED faults
Fault == faults < MaxFaults /\ faults' = faults + 1
OnlySetup == UNCHANGED <<owner, anchor, others>>

Unlocked(s) == mutex' = [a \in Anchors |-> IF mutex[a] = s THEN None ELSE mutex[a]]
\* The lease is dropped and with it the lock.
Leave(s, said) ==
  /\ Proceed(s, "done") /\ Hold(s, [hand[s] EXCEPT !.said = said]) /\ Unlocked(s)

Of(s) == nodes[hand[s].anchor]                             \* relative to the anchor's handle
AtPath == IF anchor = None THEN None ELSE nodes[anchor]    \* by the absolute path

----------------------------------------------------------------------------
\* inspect_worker_directory_node takes no lock; what is there is looked at twice.
Inspect(s) ==
  /\ at[s] = "idle"
  /\ IF AtPath = None THEN Proceed(s, "open") /\ Keep /\ UNCHANGED mutex ELSE Leave(s, "there")
  /\ Sound /\ OnlySetup /\ UNCHANGED <<nodes, journal, excused, born>>

\* prepare_worker_lock_anchor.
OpenAnchor(s) ==
  /\ at[s] = "open"
  /\ IF anchor # None
     THEN Hold(s, [hand[s] EXCEPT !.anchor = anchor]) /\ Proceed(s, "lock") /\ UNCHANGED mutex
     ELSE Leave(s, "failed")
  /\ Sound /\ OnlySetup /\ UNCHANGED <<nodes, journal, excused, born>>

\* A lock whose holder was killed is taken like a free one.
AcquireLock(s) ==
  /\ at[s] = "lock" /\ mutex[hand[s].anchor] = None
  /\ mutex' = [mutex EXCEPT ![hand[s].anchor] = s] /\ Proceed(s, "reverify")
  /\ Keep /\ Sound /\ OnlySetup /\ UNCHANGED <<nodes, journal, excused, born>>

\* The anchor that was opened is still the one at the path, the worker still the same.
ReverifyPathIdentity(s) ==
  /\ at[s] = "reverify"
  /\ \/ /\ anchor = hand[s].anchor /\ Sound
        /\ Proceed(s, IF owner[s] = "self" THEN "look" ELSE "enable") /\ Keep /\ UNCHANGED mutex
     \/ anchor # hand[s].anchor /\ Sound /\ Leave(s, "failed")
     \/ Fault /\ Leave(s, "failed")
  /\ OnlySetup /\ UNCHANGED <<nodes, journal, excused, born>>

\* ThreadRestorePrivilege: enabled for the thread, or the thread ends without it.
Enable(s) ==
  /\ at[s] = "enable"
  /\ \/ Sound /\ Proceed(s, "look") /\ Keep /\ UNCHANGED mutex
     \/ Fault /\ Leave(s, "failed")
  /\ OnlySetup /\ UNCHANGED <<nodes, journal, excused, born>>

----------------------------------------------------------------------------
(* perform_worker_directory_node_mutation *)

Fails(s) == Proceed(s, "clean") /\ Hold(s, [hand[s] EXCEPT !.failed = TRUE])
OpensExisting(s) ==
  IF Of(s).ok THEN Proceed(s, "reopen") /\ Hold(s, [hand[s] EXCEPT !.dir = Of(s).id]) ELSE Fails(s)

\* open_or_create_worker_directory_at: what is there is opened, or else created, and
\* opened again if somebody else was faster.
OpenNode(s) ==
  /\ at[s] = "look"
  /\ \/ Sound /\ IF Of(s) # None THEN OpensExisting(s) ELSE Proceed(s, "create") /\ Keep
     \/ Fault /\ Fails(s)
  /\ OnlySetup /\ UNCHANGED <<nodes, mutex, journal, excused, born>>

Create(s) ==
  /\ at[s] = "create"
  /\ \/ /\ Of(s) = None /\ Sound /\ born' = born + 1
        /\ nodes' = [nodes EXCEPT ![hand[s].anchor] = [id |-> born + 1, by |-> s, ok |-> TRUE]]
        /\ Proceed(s, "retain") /\ Hold(s, [hand[s] EXCEPT !.dir = born + 1, !.created = TRUE])
     \/ Of(s) # None /\ Sound /\ Proceed(s, "again") /\ Keep /\ UNCHANGED <<nodes, born>>
     \/ Fault /\ Fails(s) /\ UNCHANGED <<nodes, born>>
  /\ OnlySetup /\ UNCHANGED <<mutex, journal, excused>>

OpenAgain(s) ==
  /\ at[s] = "again"
  /\ \/ Sound /\ IF Of(s) # None THEN OpensExisting(s) ELSE Fails(s)
     \/ Fault /\ Fails(s)
  /\ OnlySetup /\ UNCHANGED <<nodes, mutex, journal, excused, born>>

\* reverify_retained_created_worker_directory: by its handle, by its name below the
\* anchor that was opened, and by its path.
Is(node, s) == node # None /\ node.id = hand[s].dir
InPlace(s) == Is(Of(s), s) /\ Of(s).ok /\ Is(AtPath, s)

\* retain_for_continuation: it is in the evidence before anything is asked of it.
Retain(s) ==
  /\ at[s] = "retain"
  /\ \/ InPlace(s) /\ Proceed(s, "reopen") /\ Keep /\ Sound
     \/ ~InPlace(s) /\ Fails(s) /\ Sound
     \/ Fault /\ Fails(s)
  /\ OnlySetup /\ UNCHANGED <<nodes, mutex, journal, excused, born>>

Reopen(s) ==
  /\ at[s] = "reopen"
  /\ \/ Is(AtPath, s) /\ Proceed(s, "clean") /\ Keep /\ Sound
     \/ ~Is(AtPath, s) /\ Fails(s) /\ Sound
     \/ Fault /\ Fails(s)
  /\ OnlySetup /\ UNCHANGED <<nodes, mutex, journal, excused, born>>

\* restore_and_revert, and the end of the thread: what fails is an error of its own,
\* beside that of the operation and never instead of its evidence.
RestoreAndRevert(s) ==
  /\ at[s] = "clean" /\ Proceed(s, "finish")
  /\ \/ Keep /\ Sound
     \/ owner[s] # "self" /\ Fault /\ Hold(s, [hand[s] EXCEPT !.dirty = TRUE])
  /\ OnlySetup /\ UNCHANGED <<nodes, mutex, journal, excused, born>>

----------------------------------------------------------------------------
(* finish_worker_directory_node_mutation, and the binding to the journal *)

\* Seeded fault: an error of the privileges is all that is reported.
RetainedOnlyClean(s) == hand[s].created /\ ~hand[s].dirty

\* What is retained is bound, whatever else failed; what was there is a conflict.
Retained(s) == hand[s].created

Finish(s) ==
  /\ at[s] = "finish"
  /\ IF Retained(s) THEN Proceed(s, "bind") /\ Keep /\ UNCHANGED mutex
     ELSE Leave(s, IF hand[s].failed \/ hand[s].dirty THEN "failed" ELSE "conflict")
  /\ Sound /\ OnlySetup /\ UNCHANGED <<nodes, journal, excused, born>>

\* The worker, the anchor at its path and what was retained, once more.
StillBound(s) == anchor = hand[s].anchor /\ InPlace(s)

ReverifyLease(s) ==
  /\ at[s] = "bind"
  /\ \/ StillBound(s) /\ Proceed(s, "record") /\ Keep /\ Sound /\ UNCHANGED <<mutex, excused>>
     \/ ~StillBound(s) /\ Leave(s, "failed") /\ Sound /\ UNCHANGED excused
     \/ Fault /\ Leave(s, "failed") /\ excused' = excused \cup {s}
  /\ OnlySetup /\ UNCHANGED <<nodes, journal, born>>

\* The intent becomes succeeded, while the lock is held.
Bind(s) ==
  /\ at[s] = "record"
  /\ \/ /\ journal' = [journal EXCEPT ![s] = @ \cup {hand[s].dir}] /\ Sound
        /\ Leave(s, IF hand[s].failed \/ hand[s].dirty THEN "applied_then_failed" ELSE "applied")
        /\ UNCHANGED excused
     \/ Fault /\ Leave(s, "failed") /\ excused' = excused \cup {s} /\ UNCHANGED journal
  /\ OnlySetup /\ UNCHANGED <<nodes, born>>

Kill(s) ==
  /\ at[s] \notin {"idle", "done"} /\ Fault /\ Leave(s, "killed")
  /\ OnlySetup /\ UNCHANGED <<nodes, journal, excused, born>>

----------------------------------------------------------------------------
(* Other programs with the right to do so. *)

Holding == {s \in Scopes : at[s] \in {"retain", "reopen", "clean", "finish", "bind", "record"}}
Within == Holding \cup {s \in Scopes : at[s] \in {"enable", "look", "create", "again"}}
ByOthers(disturbed) ==
  /\ others < MaxOthers /\ others' = others + 1 /\ excused' = excused \cup disturbed
  /\ UNCHANGED <<owner, mutex, at, hand, journal, faults>>

ReplaceAnchor ==
  /\ ByOthers(Within) /\ anchor' \in (Anchors \cup {None}) \ {anchor} /\ UNCHANGED <<nodes, born>>
RemoveNode ==
  /\ ByOthers(Holding) /\ \E a \in Anchors : nodes[a] # None /\ nodes' = [nodes EXCEPT ![a] = None]
  /\ UNCHANGED <<anchor, born>>
MakeNode ==
  /\ ByOthers(Holding) /\ born' = born + 1
  /\ \E a \in Anchors, ok \in BOOLEAN :
       nodes[a] = None /\ nodes' = [nodes EXCEPT ![a] = [id |-> born + 1, by |-> None, ok |-> ok]]
  /\ UNCHANGED anchor
ChangeSecurity ==
  /\ ByOthers(Holding) /\ \E a \in Anchors : nodes[a] # None /\ nodes' = [nodes EXCEPT ![a].ok = ~@]
  /\ UNCHANGED <<anchor, born>>

MutationStep(s) == OpenNode(s) \/ Create(s) \/ OpenAgain(s) \/ Retain(s) \/ Reopen(s)
NodeStep(s) ==
  \/ Inspect(s) \/ OpenAnchor(s) \/ AcquireLock(s) \/ ReverifyPathIdentity(s) \/ Enable(s)
  \/ MutationStep(s) \/ RestoreAndRevert(s) \/ Finish(s) \/ ReverifyLease(s) \/ Bind(s)

NodeInit ==
  /\ owner \in [Scopes -> Owners] /\ anchor = 1 /\ nodes = [a \in Anchors |-> None]
  /\ mutex = [a \in Anchors |-> None]
  /\ at = [s \in Scopes |-> "idle"] /\ hand = [s \in Scopes |-> NoHand]
  /\ journal = [s \in Scopes |-> {}] /\ excused = {} /\ born = 0 /\ others = 0 /\ faults = 0

NodeNext ==
  \/ \E s \in Scopes : NodeStep(s) \/ Kill(s)
  \/ ReplaceAnchor \/ RemoveNode \/ MakeNode \/ ChangeSecurity

NodeSpec == NodeInit /\ [][NodeNext]_nodeVars

----------------------------------------------------------------------------
Done(s, said) == at[s] = "done" /\ hand[s].said = said

\* What a setup made is in its journal at the end, if the thread, the look at what was
\* made or the privileges failed as well; unless it was killed, somebody else changed
\* something meanwhile, or the last check or the journal itself failed.
MadeIsJournalled ==
  \A s \in Scopes : at[s] = "done" /\ hand[s].created /\ hand[s].said # "killed" =>
    s \in excused \/ hand[s].dir \in journal[s]

\* What was there is called so only once it is settled: the setup that made it has it
\* in its journal, or will never have it.
ExistingIsSettled ==
  \A s, q \in Scopes : Done(s, "conflict") \/ (at[s] = "clean" /\ ~hand[s].created) =>
    ~(hand[q].created /\ hand[q].dir = hand[s].dir /\ q \in Holding)

\* Nobody journals what another setup or program made, and nobody the same twice.
JournalledIsMade ==
  \A a \in Anchors : nodes[a] # None =>
    \A s \in Scopes : nodes[a].id \in journal[s] => nodes[a].by = s

\* A plain success is one in which nothing failed, the privileges included.
AppliedIsClean == \A s \in Scopes : Done(s, "applied") => ~hand[s].dirty /\ ~hand[s].failed

\* All that a creation under windows, where the process alone knows what it made,
\* promises to the journal and to other setups.
WindowsCreation ==
  MadeIsJournalled /\ ExistingIsSettled /\ JournalledIsMade /\ AppliedIsClean
=============================================================================
