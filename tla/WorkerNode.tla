------------------------------- MODULE WorkerNode -------------------------------
(***************************************************************************)
(* The creation of one worker directory, call by call, in an apply session *)
(* that may fail or be killed between any two, beside other programs       *)
(* (src/src/platform/linux.rs, whose protocol macos.rs repeats call by     *)
(* call, and src/src/platform/windows.rs, which keeps no evidence).        *)
(*                                                                         *)
(* Under linux and macos a directory is made beside its place, named in a  *)
(* provenance marker, moved into place without replacing, verified,        *)
(* journalled, and then the marker is renamed to its retired name.         *)
(*                                                                         *)
(* One session runs at a time: it holds the receipt lock, and the creation *)
(* lock within.  A directory's identity is not given out again.            *)
(***************************************************************************)
EXTENDS NoValue, Naturals

CONSTANTS MaxOthers, \* bound on changes other programs make
          MaxFaults  \* bound on failing calls and crashes

Directories == [id : Nat, ok : BOOLEAN]      \* ok: owner and mode are right
Markers == [of : Nat, complete : BOOLEAN]    \* the directory it names

ASSUME NoneAssumption == None \notin Nat \cup Directories \cup Markers
ASSUME BoundsAssumption == MaxOthers \in Nat /\ MaxFaults \in Nat

VARIABLES keeps,   \* linux or macos: creation evidence is kept
          dest,    \* the directory, or None
          staging, \* the id of the directory made beside it
          active, retired, \* the markers, or None
          journal, made,   \* the intent; whether a directory was made under it
          pc, hand,        \* the session: its step, the directory it has open
          born, others, faults \* directories made; changes by others; failures

markers == <<active, retired>>
places == <<dest, staging>>
bookkeeping == <<journal, made>>
vars == <<keeps, places, markers, bookkeeping, pc, hand, born, others, faults>>

Goto(step) == pc' = step /\ UNCHANGED hand
End == pc' = "idle" /\ hand' = None

\* A call that fails: what it left behind is said beside it.
Fault == faults < MaxFaults /\ faults' = faults + 1
Sound == UNCHANGED faults
OnlySession == UNCHANGED <<keeps, others>>

(***************************************************************************)
(* inspect_worker_directory_node, under the receipt lock: the reserved     *)
(* names one after the other, then the directory.                          *)
(***************************************************************************)
Begin ==
  /\ pc = "idle"
  /\ Goto(IF journal = "succeeded" THEN "resume" ELSE IF keeps THEN "see_staging" ELSE "open")
  /\ OnlySession /\ Sound /\ UNCHANGED <<places, markers, bookkeeping, born>>

IsAt(marker) == dest # None /\ dest.id = marker.of /\ marker.complete

SeeStaging ==
  /\ pc = "see_staging" /\ IF staging = None THEN Goto("see_active") ELSE End
  /\ OnlySession /\ Sound /\ UNCHANGED <<places, markers, bookkeeping, born>>

\* Seeded fault: an active marker is no conflict if it is that of the directory.
SeeActiveTrusting ==
  /\ pc = "see_active" /\ IF active = None \/ IsAt(active) THEN Goto("see_retired") ELSE End
  /\ OnlySession /\ Sound /\ UNCHANGED <<places, markers, bookkeeping, born>>

SeeActive ==
  /\ pc = "see_active" /\ IF active = None THEN Goto("see_retired") ELSE End
  /\ OnlySession /\ Sound /\ UNCHANGED <<places, markers, bookkeeping, born>>

\* A retired marker is fine beside the directory it names.
SeeRetired ==
  /\ pc = "see_retired" /\ IF retired = None \/ IsAt(retired) THEN Goto("open") ELSE End
  /\ OnlySession /\ Sound /\ UNCHANGED <<places, markers, bookkeeping, born>>

\* Healthy is "healthy": reported, and nothing more to do.  What is absent is to do:
\* the intent is prepared, or the one that is there is taken up again.  The retired
\* marker of a directory removed since the look at it is for create to find.
OpenExisting ==
  /\ pc = "open"
  /\ IF dest # None
     THEN (IF dest.ok THEN Goto("healthy") ELSE End) /\ UNCHANGED bookkeeping
     ELSE journal' = "prepared" /\ UNCHANGED made /\ Goto("create")
  /\ OnlySession /\ Sound /\ UNCHANGED <<places, markers, born>>

Report == pc = "healthy" /\ End /\ OnlySession /\ Sound
          /\ UNCHANGED <<places, markers, bookkeeping, born>>

(***************************************************************************)
(* create_worker_directory_node under linux and macos.                     *)
(***************************************************************************)
\* What is there already, or has left a marker, is never taken over.
LookFirst ==
  /\ pc = "create" /\ keeps
  /\ IF dest = None /\ active = None /\ retired = None THEN Goto("stage") ELSE End
  /\ OnlySession /\ Sound /\ UNCHANGED <<places, markers, bookkeeping, born>>

\* A staging directory of an earlier session is not continued.
Stage ==
  /\ pc = "stage"
  /\ IF staging # None THEN End /\ Sound /\ UNCHANGED <<staging, made, born>>
     ELSE /\ born' = born + 1 /\ staging' = born + 1 /\ made' = TRUE
          /\ \/ pc' = "mark" /\ hand' = born + 1 /\ Sound
             \/ End /\ Fault
  /\ OnlySession /\ UNCHANGED <<dest, markers, journal>>

\* create_worker_creation_provenance: the marker, then its record.
Mark ==
  /\ pc = "mark"
  /\ IF active # None THEN End /\ Sound /\ UNCHANGED active
     ELSE /\ active' = [of |-> hand, complete |-> FALSE]
          /\ \/ Goto("record") /\ Sound
             \/ End /\ Fault
  /\ OnlySession /\ UNCHANGED <<places, retired, bookkeeping, born>>

Record ==
  /\ pc = "record"
  /\ \/ active' = [active EXCEPT !.complete = TRUE] /\ Goto("publish") /\ Sound
     \/ UNCHANGED active /\ End /\ Fault
  /\ OnlySession /\ UNCHANGED <<places, retired, bookkeeping, born>>

\* publish_staged_worker_directory: without replacing, so that a directory somebody
\* else has made in between stays, with the evidence beside it.
Publish ==
  /\ pc = "publish" /\ Sound
  /\ IF dest = None
     THEN dest' = [id |-> hand, ok |-> TRUE] /\ staging' = None /\ Goto("reverify")
     ELSE End /\ UNCHANGED places
  /\ OnlySession /\ UNCHANGED <<markers, bookkeeping, born>>

\* Seeded fault: a directory that exists is taken for one the call has made.
CreateNativeAdopting ==
  /\ pc = "create" /\ ~keeps /\ Sound
  /\ IF dest = None
     THEN /\ dest' = [id |-> born + 1, ok |-> TRUE] /\ born' = born + 1 /\ made' = TRUE
          /\ pc' = "reverify" /\ hand' = born + 1
     ELSE pc' = "reverify" /\ hand' = dest.id /\ UNCHANGED <<dest, born, made>>
  /\ OnlySession /\ UNCHANGED <<staging, markers, journal>>

\* Under windows a call that creates and does not open what exists.  Of what is
\* done after the creation only the last counts: a failure is reported later on.
CreateNative ==
  /\ pc = "create" /\ ~keeps /\ Sound
  /\ IF dest = None
     THEN /\ dest' = [id |-> born + 1, ok |-> TRUE] /\ born' = born + 1 /\ made' = TRUE
          /\ pc' = "reverify" /\ hand' = born + 1
     ELSE End /\ UNCHANGED <<dest, born, made>>
  /\ OnlySession /\ UNCHANGED <<staging, markers, journal>>

(***************************************************************************)
(* bind_after_reverify, and bind_retained_creation_evidence_after_reverify *)
(* when something failed after the directory was in its place.             *)
(***************************************************************************)
InPlace == /\ dest # None /\ dest.id = hand
           /\ keeps => active # None /\ IsAt(active)

Reverify ==
  /\ pc = "reverify"
  /\ \/ InPlace /\ Goto("bind") /\ Sound
     \/ ~InPlace /\ End /\ Sound
     \/ End /\ Fault
  /\ OnlySession /\ UNCHANGED <<places, markers, bookkeeping, born>>

\* The intent is marked succeeded and appended to the receipt.
Bind ==
  /\ pc = "bind"
  /\ \/ journal' = "succeeded" /\ Goto(IF keeps THEN "retire" ELSE "forget") /\ Sound
     \/ journal' \in {journal, "succeeded"} /\ End /\ Fault
  /\ OnlySession /\ UNCHANGED <<places, markers, made, born>>

\* retire_worker_creation_provenance: without replacing, and verified before and after.
Retire ==
  /\ pc = "retire"
  /\ IF active # None /\ active.complete /\ retired = None
     THEN \/ retired' = active /\ active' = None /\ Goto("forget") /\ Sound
          \/ End /\ Fault /\ \/ UNCHANGED markers
                             \/ retired' = active /\ active' = None
     ELSE End /\ Sound /\ UNCHANGED markers
  /\ OnlySession /\ UNCHANGED <<places, bookkeeping, born>>

\* retire_finalized_intent.
Forget ==
  /\ pc = "forget"
  /\ \/ journal' = "none" /\ made' = FALSE /\ End /\ Sound
     \/ UNCHANGED bookkeeping /\ End /\ Fault
  /\ OnlySession /\ UNCHANGED <<places, markers, born>>

(***************************************************************************)
(* retire_succeeded_worker_directory_evidence, in the session that finds   *)
(* the intent succeeded: the directory must be there, with one marker.     *)
(***************************************************************************)
\* Seeded fault: only an active marker can be retired.
ResumeActive ==
  /\ pc = "resume"
  /\ IF dest # None /\ dest.ok /\ staging = None /\ active # None /\ retired = None /\ IsAt(active)
     THEN Goto("retire") ELSE End
  /\ OnlySession /\ Sound /\ UNCHANGED <<places, markers, bookkeeping, born>>

Resume ==
  /\ pc = "resume"
  /\ IF ~keeps THEN Goto("forget")
     ELSE IF dest = None \/ staging # None \/ (active # None /\ retired # None) THEN End
     ELSE IF dest.ok /\ active # None /\ IsAt(active) THEN Goto("retire")
     ELSE IF dest.ok /\ retired # None /\ IsAt(retired) THEN Goto("forget") ELSE End
  /\ OnlySession /\ Sound /\ UNCHANGED <<places, markers, bookkeeping, born>>

Crash == pc # "idle" /\ End /\ Fault /\ OnlySession
         /\ UNCHANGED <<places, markers, bookkeeping, born>>

(***************************************************************************)
(* Other programs and people: they make and remove the directory, and      *)
(* clean up what is left beside a place that is empty.                     *)
(***************************************************************************)
ByOthers == /\ others < MaxOthers /\ others' = others + 1
            /\ UNCHANGED <<keeps, bookkeeping, pc, hand, faults>>

MakeDirectory ==
  /\ ByOthers /\ dest = None /\ born' = born + 1
  /\ \E ok \in BOOLEAN : dest' = [id |-> born + 1, ok |-> ok]
  /\ UNCHANGED <<staging, markers>>

RemoveDirectory == ByOthers /\ dest # None /\ dest' = None /\ UNCHANGED <<staging, markers, born>>

CleanUp ==
  /\ ByOthers /\ dest = None /\ pc = "idle"
  /\ staging' = None /\ active' = None /\ retired' = None
  /\ UNCHANGED <<dest, born>>

CreateStep == LookFirst \/ Stage \/ Mark \/ Record \/ Publish \/ CreateNative
InspectStep == SeeStaging \/ SeeActive \/ SeeRetired \/ OpenExisting \/ Report
BindStep == Reverify \/ Bind \/ Retire \/ Forget \/ Resume

SessionStep == Begin \/ InspectStep \/ CreateStep \/ BindStep

Next == SessionStep \/ Crash \/ MakeDirectory \/ RemoveDirectory \/ CleanUp

Init ==
  /\ keeps \in BOOLEAN
  /\ dest = None /\ staging = None /\ active = None /\ retired = None
  /\ journal = "none" /\ made = FALSE /\ pc = "idle" /\ hand = None
  /\ born = 0 /\ others = 0 /\ faults = 0

Spec == Init /\ [][Next]_vars

\* Setup is run again and again.
FairSpec == Spec /\ WF_vars(SessionStep)

-----------------------------------------------------------------------------
\* The resource as ApplyPlan sees it.
Alone == IF dest = None THEN "absent" ELSE IF dest.ok THEN "exact" ELSE "foreign"

Res ==
  IF staging # None THEN "evidence"
  ELSE IF active # None THEN (IF dest # None /\ dest.id = active.of THEN "evidence" ELSE "lost")
  ELSE IF retired # None THEN (IF dest # None /\ dest.id = retired.of THEN "owned" ELSE "lost")
  ELSE Alone

Abstract == INSTANCE WorkerResource WITH res <- Res

\* The calls, their failures and crashes between them, and other programs between
\* them, never do more than the single steps ApplyPlan is made of: what was created
\* shows as a conflict until it is retired, only what was created is journalled, and
\* setup removes or takes over nothing.
ImplementsResource == Abstract!ResourceSpec

\* A check that says healthy, put together from four looks at the disk, never says so
\* of a directory whose creation was cut off at any point in any earlier session.
HealthyIsSettled == pc = "healthy" => Res # "evidence"

\* What the journal calls a success is finished by later sessions, wherever the
\* first one failed or was killed, unless somebody removes the directory.
SuccessEnds ==
  journal = "succeeded" ~> journal = "none" \/ (keeps /\ Res \notin {"evidence", "owned"})
=============================================================================
