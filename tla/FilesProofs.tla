----------------------------- MODULE FilesProofs -----------------------------
(***************************************************************************)
(* Proofs about the components that make single files and directories:     *)
(* the worker's directory, authorized_keys, the keys of a controller and   *)
(* the replay of an interactive setup.                                     *)
(***************************************************************************)
EXTENDS WorkerNode, AuthorizedKeys, ControllerIdentity, SetupConfig,
        SequenceTheorems, FiniteSetTheorems, TLAPS

(***************************************************************************)
(* WorkerNode: the calls which make a worker directory implement the       *)
(* single steps ApplyPlan is made of, for any number of failures, crashes  *)
(* and changes by others. What has to be known of a session is what it     *)
(* found, or left behind, at each of its steps: others may change the      *)
(* directory under it, but never a marker or a staging directory while it  *)
(* runs.                                                                   *)
(***************************************************************************)

LookingSteps == {"see_staging", "see_active", "see_retired", "open", "healthy"}
MakingSteps == {"stage", "mark", "record", "publish"}
FinishingSteps == {"retire", "forget"}

NodeTyped ==
  /\ keeps \in BOOLEAN /\ made \in BOOLEAN /\ born \in Nat /\ others \in Nat
  /\ dest \in Directories \cup {None}
  /\ staging \in Nat \cup {None}
  /\ active \in Markers \cup {None}
  /\ retired \in Markers \cup {None}
  /\ journal \in {"none", "prepared", "succeeded"}
  /\ pc \in {"idle", "create", "reverify", "bind", "resume"} \cup LookingSteps \cup MakingSteps \cup FinishingSteps

\* Directories are numbered as they are made.
Numbered ==
  /\ dest # None => dest.id \in Nat /\ dest.id <= born
  /\ active # None => active.of \in Nat /\ active.of <= born
  /\ retired # None => retired.of \in Nat /\ retired.of <= born

\* Nothing is made without an intent; windows knows neither staging nor markers.
NodeKept ==
  /\ journal = "none" => ~made
  /\ ~keeps => staging = None /\ active = None /\ retired = None

\* What a session has in hand at each of its steps.
NodeInHand ==
  /\ pc \in LookingSteps => journal # "succeeded"
  /\ pc \in {"create", "reverify", "bind"} \cup MakingSteps => journal = "prepared"
  /\ pc \in {"reverify", "bind", "mark", "record", "publish"} => made /\ hand \in Nat /\ hand <= born
  /\ pc \in {"resume"} \cup FinishingSteps => journal = "succeeded"
  /\ pc \in MakingSteps => keeps
  /\ pc \in {"mark", "record", "publish"} => staging = hand
  /\ pc \in {"record", "publish"} => active # None /\ active.of = hand

\* What it has seen to be gone stays gone.
Gone ==
  /\ pc \in {"see_active", "see_retired", "open", "healthy", "create", "reverify", "bind"} \cup FinishingSteps
       => staging = None
  /\ pc \in {"see_retired", "open", "healthy", "stage", "forget"} => active = None
  /\ pc = "stage" => retired = None

NodeIInv == NodeTyped /\ Numbered /\ NodeKept /\ NodeInHand /\ Gone

LEMMA NodeInitIInv == Init => NodeIInv
<1> SUFFICES ASSUME Init PROVE NodeIInv
  OBVIOUS
<1> USE DEF Init
<1>1. NodeTyped
  BY DEF NodeTyped, LookingSteps, MakingSteps, FinishingSteps
<1>2. Numbered /\ NodeKept /\ NodeInHand /\ Gone
  BY DEF Numbered, NodeKept, NodeInHand, Gone, LookingSteps, MakingSteps, FinishingSteps
<1>q. QED
  BY <1>1, <1>2 DEF NodeIInv

(***************************************************************************)
(* Steps of the session.                                                   *)
(***************************************************************************)
LEMMA LookKeeps ==
  ASSUME NodeIInv, Begin \/ SeeStaging \/ SeeActive \/ SeeRetired \/ Report \/ LookFirst \/ Resume \/ Crash
  PROVE  NodeIInv'
<1> USE DEF NodeIInv
<1>1. UNCHANGED <<keeps, places, markers, bookkeeping, born, others>>
  BY DEF Begin, SeeStaging, SeeActive, SeeRetired, Report, LookFirst, Resume, Crash, OnlySession
<1>2. NodeTyped'
  BY <1>1 DEF NodeTyped, places, markers, bookkeeping, Begin, SeeStaging, SeeActive, SeeRetired, Report,
     LookFirst, Resume, Crash, Goto, End, LookingSteps, MakingSteps, FinishingSteps
<1>3. Numbered' /\ NodeKept'
  BY <1>1 DEF Numbered, NodeKept, places, markers, bookkeeping
<1>4. NodeInHand' /\ Gone'
  <2> USE <1>1 DEF NodeInHand, Gone, places, markers, bookkeeping, Goto, End, LookingSteps, MakingSteps, FinishingSteps
  <2>1. CASE Begin
    BY <2>1 DEF Begin, NodeKept, NodeTyped
  <2>2. CASE SeeStaging \/ SeeActive \/ SeeRetired
    BY <2>2 DEF SeeStaging, SeeActive, SeeRetired
  <2>3. CASE Report \/ Crash
    BY <2>3 DEF Report, Crash
  <2>4. CASE LookFirst
    BY <2>4 DEF LookFirst
  <2>5. CASE Resume
    BY <2>5 DEF Resume, NodeKept
  <2>q. QED
    BY <2>1, <2>2, <2>3, <2>4, <2>5
<1>q. QED
  BY <1>2, <1>3, <1>4

LEMMA OpenKeeps == ASSUME NodeIInv, OpenExisting PROVE NodeIInv'
<1> USE DEF NodeIInv, OpenExisting, OnlySession, places, markers, bookkeeping, Goto, End
<1>1. NodeTyped'
  BY DEF NodeTyped, LookingSteps, MakingSteps, FinishingSteps
<1>2. Numbered'
  BY DEF NodeTyped, Numbered, NodeInHand
<1>3. NodeKept'
  BY DEF NodeKept
<1>4. NodeInHand' /\ Gone'
  BY DEF NodeInHand, Gone, LookingSteps, MakingSteps, FinishingSteps
<1>q. QED
  BY <1>1, <1>2, <1>3, <1>4

LEMMA StageKeeps == ASSUME NodeIInv, Stage PROVE NodeIInv'
<1> USE DEF NodeIInv, Stage, OnlySession, markers, Goto, End
<1>1. NodeTyped'
  <2>1. born' \in Nat /\ staging' \in Nat \cup {None}
    BY DEF NodeTyped
  <2>2. made' \in BOOLEAN
    BY DEF NodeTyped
  <2>3. UNCHANGED <<keeps, others, dest, active, retired, journal>> /\ pc' \in {"idle", "mark"}
    OBVIOUS
  <2>q. QED
    BY <2>1, <2>2, <2>3 DEF NodeTyped, MakingSteps
<1>2. Numbered'
  BY DEF NodeTyped, Numbered, NodeInHand
<1>3. NodeKept'
  BY DEF NodeKept, NodeInHand, MakingSteps
<1>4. NodeInHand' /\ Gone'
  BY DEF NodeTyped, NodeInHand, Gone, LookingSteps, MakingSteps, FinishingSteps
<1>q. QED
  BY <1>1, <1>2, <1>3, <1>4

LEMMA MarkKeeps == ASSUME NodeIInv, Mark \/ Record PROVE NodeIInv'
<1> USE DEF NodeIInv, Mark, Record, OnlySession, places, bookkeeping, Goto, End
<1>1. NodeTyped'
  <2>1. active' \in Markers \cup {None}
    <3>1. CASE Mark
      <4>1. hand \in Nat
        BY <3>1 DEF NodeInHand
      <4>2. [of |-> hand, complete |-> FALSE] \in Markers
        BY <4>1 DEF Markers
      <4>3. active' \in {active, [of |-> hand, complete |-> FALSE]}
        BY <3>1
      <4>q. QED
        BY <4>2, <4>3 DEF NodeTyped
    <3>2. CASE Record
      BY <3>2 DEF NodeTyped, NodeInHand, Markers
    <3>q. QED
      BY <3>1, <3>2
  <2>2. UNCHANGED <<keeps, others, dest, staging, retired, journal, made, born>>
    OBVIOUS
  <2>3. pc' \in {"idle", "record", "publish"}
    OBVIOUS
  <2>q. QED
    BY <2>1, <2>2, <2>3 DEF NodeTyped, MakingSteps
<1>2. Numbered'
  BY DEF NodeTyped, Numbered, NodeInHand, Markers
<1>3. NodeKept'
  BY DEF NodeKept, NodeInHand, MakingSteps
<1>4. NodeInHand' /\ Gone'
  <2>1. CASE Mark
    <3>1. [of |-> hand, complete |-> FALSE] # None
      <4>1. hand \in Nat
        BY <2>1 DEF NodeInHand
      <4>2. [of |-> hand, complete |-> FALSE] \in Markers
        BY <4>1 DEF Markers
      <4>q. QED
        BY <4>2, NoneAssumption
    <3>q. QED
      BY <2>1, <3>1 DEF NodeInHand, Gone, LookingSteps, MakingSteps, FinishingSteps
  <2>2. CASE Record
    <3>1. active \in Markers /\ [active EXCEPT !.complete = TRUE] \in Markers
      BY <2>2 DEF NodeTyped, NodeInHand, Markers
    <3>2. [active EXCEPT !.complete = TRUE] # None /\ [active EXCEPT !.complete = TRUE].of = active.of
      BY <3>1, NoneAssumption DEF Markers
    <3>q. QED
      BY <2>2, <3>2 DEF NodeInHand, Gone, LookingSteps, MakingSteps, FinishingSteps
  <2>q. QED
    BY <2>1, <2>2
<1>q. QED
  BY <1>1, <1>2, <1>3, <1>4

LEMMA PublishKeeps == ASSUME NodeIInv, Publish \/ CreateNative PROVE NodeIInv'
<1> USE DEF NodeIInv, Publish, CreateNative, OnlySession, Sound, markers, bookkeeping, places, Goto, End
<1>1. NodeTyped'
  <2>1. dest' \in Directories \cup {None} /\ born' \in Nat /\ staging' \in Nat \cup {None}
    <3>1. CASE Publish
      <4>1. hand \in Nat
        BY <3>1 DEF NodeInHand
      <4>2. [id |-> hand, ok |-> TRUE] \in Directories
        BY <4>1 DEF Directories
      <4>3. dest' \in {dest, [id |-> hand, ok |-> TRUE]} /\ staging' \in {staging, None} /\ born' = born
        BY <3>1
      <4>q. QED
        BY <4>2, <4>3 DEF NodeTyped
    <3>2. CASE CreateNative
      <4>1. [id |-> born + 1, ok |-> TRUE] \in Directories
        BY DEF NodeTyped, Directories
      <4>2. dest' \in {dest, [id |-> born + 1, ok |-> TRUE]} /\ staging' = staging
        BY <3>2
      <4>3. born' \in Nat
        BY <3>2 DEF NodeTyped
      <4>q. QED
        BY <4>1, <4>2, <4>3 DEF NodeTyped
    <3>q. QED
      BY <3>1, <3>2
  <2>2. made' \in BOOLEAN
    BY DEF NodeTyped
  <2>3. UNCHANGED <<keeps, others, active, retired, journal>> /\ pc' \in {"idle", "reverify"}
    OBVIOUS
  <2>q. QED
    BY <2>1, <2>2, <2>3 DEF NodeTyped
<1>2. Numbered'
  BY DEF NodeTyped, Numbered, NodeInHand
<1>3. NodeKept'
  BY DEF NodeKept, NodeInHand, MakingSteps
<1>4. NodeInHand' /\ Gone'
  BY DEF NodeTyped, NodeInHand, Gone, NodeKept, LookingSteps, MakingSteps, FinishingSteps
<1>q. QED
  BY <1>1, <1>2, <1>3, <1>4

LEMMA BindKeeps == ASSUME NodeIInv, Reverify \/ Bind PROVE NodeIInv'
<1> USE DEF NodeIInv, Reverify, Bind, OnlySession, Sound, markers, bookkeeping, places, Goto, End
<1>1. NodeTyped'
  BY DEF NodeTyped, NodeInHand, LookingSteps, MakingSteps, FinishingSteps
<1>2. Numbered'
  BY DEF NodeTyped, Numbered, NodeInHand
<1>3. NodeKept'
  BY DEF NodeKept, NodeInHand, MakingSteps
<1>4. NodeInHand' /\ Gone'
  BY DEF NodeTyped, NodeInHand, Gone, NodeKept, LookingSteps, MakingSteps, FinishingSteps
<1>q. QED
  BY <1>1, <1>2, <1>3, <1>4

LEMMA RetireKeeps == ASSUME NodeIInv, Retire \/ Forget PROVE NodeIInv'
<1> USE DEF NodeIInv, Retire, Forget, OnlySession, Sound, markers, bookkeeping, places, Goto, End
<1>1. NodeTyped'
  BY DEF NodeTyped, NodeInHand, LookingSteps, MakingSteps, FinishingSteps
<1>2. Numbered'
  BY DEF NodeTyped, Numbered, NodeInHand
<1>3. NodeKept'
  BY DEF NodeKept, NodeInHand, MakingSteps
<1>4. NodeInHand' /\ Gone'
  BY DEF NodeTyped, NodeInHand, Gone, NodeKept, LookingSteps, MakingSteps, FinishingSteps
<1>q. QED
  BY <1>1, <1>2, <1>3, <1>4

LEMMA NodeOthersKeep == ASSUME NodeIInv, MakeDirectory \/ RemoveDirectory \/ CleanUp PROVE NodeIInv'
<1> USE DEF NodeIInv, MakeDirectory, RemoveDirectory, CleanUp, ByOthers, markers, bookkeeping
<1>1. NodeTyped'
  BY DEF NodeTyped, Directories
<1>2. Numbered'
  BY DEF NodeTyped, Numbered, NodeInHand
<1>3. NodeKept'
  BY DEF NodeKept
<1>4. NodeInHand' /\ Gone'
  BY DEF NodeTyped, NodeInHand, Gone, LookingSteps, MakingSteps, FinishingSteps
<1>q. QED
  BY <1>1, <1>2, <1>3, <1>4

LEMMA NodeStepIInv == NodeIInv /\ [Next]_vars => NodeIInv'
<1> SUFFICES ASSUME NodeIInv, [Next]_vars PROVE NodeIInv'
  OBVIOUS
<1>1. CASE UNCHANGED vars
  BY <1>1 DEF vars, places, markers, bookkeeping, NodeIInv, NodeTyped, Numbered, NodeKept, NodeInHand, Gone
<1>2. CASE Next
  BY <1>2, LookKeeps, OpenKeeps, StageKeeps, MarkKeeps, PublishKeeps, BindKeeps, RetireKeeps, NodeOthersKeep
     DEF Next, SessionStep, InspectStep, CreateStep, BindStep
<1>q. QED
  BY <1>1, <1>2

\* Whatever fails, crashes or is changed by others, a session knows what it needs.
THEOREM NodeInductive == Spec => []NodeIInv
<1>1. Init => NodeIInv
  BY NodeInitIInv
<1>2. NodeIInv /\ [Next]_vars => NodeIInv'
  BY NodeStepIInv
<1>q. QED
  BY <1>1, <1>2, PTL DEF Spec

(***************************************************************************)
(* The two properties.                                                     *)
(***************************************************************************)
\* The check that says healthy never says so of a creation that was cut off.
THEOREM HealthySettled == Spec => []HealthyIsSettled
<1>1. NodeIInv => HealthyIsSettled
  BY DEF NodeIInv, Gone, HealthyIsSettled, Res, Alone, FinishingSteps
<1>q. QED
  BY <1>1, NodeInductive, PTL

LEMMA InitRefines == Init => Abstract!ResourceInit
BY DEF Init, Abstract!ResourceInit, Res, Alone

\* A step that leaves the files of the directory and the journal alone is none.
Quiet == UNCHANGED <<keeps, places, markers, bookkeeping, others>>

LEMMA QuietStutters == Quiet => UNCHANGED Abstract!resourceVars
BY DEF Quiet, Abstract!resourceVars, Res, Alone, places, markers, bookkeeping

LEMMA LookRefines ==
  ASSUME NodeIInv, \/ Begin \/ SeeStaging \/ SeeActive \/ SeeRetired \/ Report \/ LookFirst
               \/ Resume \/ Reverify \/ Crash
  PROVE  UNCHANGED Abstract!resourceVars
<1>1. Quiet
  BY DEF Begin, SeeStaging, SeeActive, SeeRetired, Report, LookFirst, Resume, Reverify, Crash,
     OnlySession, Quiet
<1>q. QED
  BY <1>1, QuietStutters

LEMMA OpenRefines ==
  ASSUME NodeIInv, OpenExisting
  PROVE  (Abstract!Prepare /\ UNCHANGED <<keeps, others>>) \/ UNCHANGED Abstract!resourceVars
<1>1. Res' = Res /\ UNCHANGED <<keeps, others, made>>
  BY DEF OpenExisting, OnlySession, Res, Alone, places, markers, bookkeeping
<1>2. journal' = journal \/ (journal' = "prepared" /\ journal \in {"none", "prepared"})
  BY DEF OpenExisting, NodeIInv, NodeTyped, NodeInHand, LookingSteps, bookkeeping
<1>q. QED
  BY <1>1, <1>2 DEF Abstract!Prepare, Abstract!Untouched, Abstract!resourceVars, NodeIInv, NodeKept

LEMMA StageRefines ==
  ASSUME NodeIInv, Stage
  PROVE  (Abstract!Create /\ UNCHANGED <<keeps, others>>) \/ UNCHANGED Abstract!resourceVars
<1> USE DEF Stage, OnlySession, markers
<1>1. CASE staging # None
  BY <1>1, QuietStutters DEF Quiet, places, bookkeeping
<1>2. CASE staging = None
  <2>1. keeps /\ journal = "prepared" /\ Res \in {"absent", "exact", "foreign"}
    BY <1>2 DEF NodeIInv, NodeInHand, Gone, MakingSteps, Res, Alone
  <2>2. staging' # None
    BY <1>2, NoneAssumption DEF NodeIInv, NodeTyped
  <2>3. Res' = "evidence"
    BY <2>2 DEF Res
  <2>q. QED
    BY <1>2, <2>1, <2>3 DEF Abstract!Create
<1>q. QED
  BY <1>1, <1>2

LEMMA MarkRefines == ASSUME NodeIInv, Mark \/ Record PROVE UNCHANGED Abstract!resourceVars
<1>1. staging # None
  BY NoneAssumption DEF Mark, Record, NodeIInv, NodeInHand
<1>2. UNCHANGED <<keeps, journal, made, others, staging>>
  BY DEF Mark, Record, OnlySession, places, bookkeeping
<1>3. Res = "evidence" /\ Res' = "evidence"
  BY <1>1, <1>2 DEF Res
<1>q. QED
  BY <1>2, <1>3 DEF Abstract!resourceVars

LEMMA PublishRefines == ASSUME NodeIInv, Publish PROVE UNCHANGED Abstract!resourceVars
<1> USE DEF Publish, OnlySession, markers, bookkeeping, places
<1>1. CASE dest # None
  BY <1>1, QuietStutters DEF Quiet
<1>2. CASE dest = None
  <2>1. hand \in Nat /\ staging = hand /\ active # None /\ active.of = hand
    BY DEF NodeIInv, NodeInHand
  <2>2. [id |-> hand, ok |-> TRUE] \in Directories
    BY <2>1 DEF Directories
  <2>3. dest' = [id |-> hand, ok |-> TRUE] /\ staging' = None /\ active' = active
    BY <1>2
  <2>4. Res = "evidence" /\ Res' = "evidence"
    BY <2>1, <2>2, <2>3, NoneAssumption DEF Res
  <2>q. QED
    BY <2>4 DEF Abstract!resourceVars
<1>q. QED
  BY <1>1, <1>2

LEMMA NativeRefines ==
  ASSUME NodeIInv, CreateNative
  PROVE  (Abstract!Create /\ UNCHANGED <<keeps, others>>) \/ UNCHANGED Abstract!resourceVars
<1> USE DEF CreateNative, OnlySession, markers
<1>1. CASE dest # None
  BY <1>1, QuietStutters DEF Quiet, places, bookkeeping
<1>2. CASE dest = None
  <2>1. ~keeps /\ journal = "prepared" /\ Res = "absent" /\ staging = None /\ active = None /\ retired = None
    BY <1>2 DEF NodeIInv, NodeInHand, NodeKept, Res, Alone
  <2>2. [id |-> born + 1, ok |-> TRUE] \in Directories
    BY DEF NodeIInv, NodeTyped, Directories
  <2>3. dest' = [id |-> born + 1, ok |-> TRUE] /\ UNCHANGED <<staging, active, retired>>
    BY <1>2
  <2>4. Res' = "exact"
    BY <2>1, <2>2, <2>3, NoneAssumption DEF Res, Alone
  <2>q. QED
    BY <1>2, <2>1, <2>4 DEF Abstract!Create
<1>q. QED
  BY <1>1, <1>2

LEMMA BindRefines ==
  ASSUME NodeIInv, Bind
  PROVE  (Abstract!Succeed /\ UNCHANGED <<keeps, others>>) \/ UNCHANGED Abstract!resourceVars
<1>1. Res' = Res /\ UNCHANGED <<keeps, others, made>>
  BY DEF Bind, OnlySession, Res, Alone, places, markers
<1>2. journal' \in {journal, "succeeded"} /\ journal = "prepared" /\ made
  BY DEF Bind, NodeIInv, NodeInHand
<1>q. QED
  BY <1>1, <1>2 DEF Abstract!Succeed, Abstract!Untouched, Abstract!resourceVars

LEMMA RetireRefines ==
  ASSUME NodeIInv, Retire
  PROVE  (Abstract!Retire /\ UNCHANGED <<keeps, others>>) \/ UNCHANGED Abstract!resourceVars
<1>1. UNCHANGED <<keeps, others, dest, staging, journal, made>> /\ journal = "succeeded" /\ staging = None
  BY DEF Retire, OnlySession, places, bookkeeping, NodeIInv, NodeInHand, Gone, FinishingSteps
<1>2. CASE UNCHANGED markers
  BY <1>1, <1>2, QuietStutters DEF Quiet, places, bookkeeping
<1>3. CASE active # None /\ retired = None /\ retired' = active /\ active' = None
  BY <1>1, <1>3 DEF Abstract!Retire, Abstract!resourceVars, Res
<1>q. QED
  BY <1>2, <1>3 DEF Retire

LEMMA ForgetRefines ==
  ASSUME NodeIInv, Forget
  PROVE  (Abstract!Forget /\ UNCHANGED <<keeps, others>>) \/ UNCHANGED Abstract!resourceVars
<1>1. Res' = Res /\ UNCHANGED <<keeps, others>> /\ journal = "succeeded" /\ Res # "evidence"
  BY DEF Forget, OnlySession, Res, Alone, places, markers, NodeIInv, NodeInHand, Gone, FinishingSteps
<1>2. (journal' = "none" /\ made' = FALSE) \/ UNCHANGED <<journal, made>>
  BY DEF Forget, bookkeeping
<1>q. QED
  BY <1>1, <1>2 DEF Abstract!Forget, Abstract!resourceVars

LEMMA OthersRefine ==
  ASSUME NodeIInv, MakeDirectory \/ RemoveDirectory \/ CleanUp
  PROVE  /\ Abstract!Change \/ UNCHANGED <<Res, journal, made>>
         /\ others' = others + 1 /\ UNCHANGED keeps
<1>1. UNCHANGED <<journal, made, keeps>> /\ others' = others + 1
  BY DEF MakeDirectory, RemoveDirectory, CleanUp, ByOthers, bookkeeping
<1>2. CASE MakeDirectory
  <2>1. PICK ok \in BOOLEAN : dest' = [id |-> born + 1, ok |-> ok]
    BY <1>2 DEF MakeDirectory
  <2>2. [id |-> born + 1, ok |-> ok] \in Directories
    BY DEF NodeIInv, NodeTyped, Directories
  <2>3. dest' # None /\ dest'.id = born + 1 /\ dest = None /\ UNCHANGED <<staging, active, retired>>
    BY <1>2, <2>1, <2>2, NoneAssumption DEF MakeDirectory, markers
  <2>4. (active # None => active.of # born + 1) /\ (retired # None => retired.of # born + 1)
    BY DEF NodeIInv, NodeTyped, Numbered
  <2>5. Res' = Res \/ (Res = "absent" /\ Res' \in {"exact", "foreign"})
    BY <2>3, <2>4 DEF Res, Alone
  <2>q. QED
    BY <1>1, <2>5 DEF Abstract!Change
<1>3. CASE RemoveDirectory
  <2>1. dest # None /\ dest' = None /\ UNCHANGED <<staging, active, retired>>
    BY <1>3 DEF RemoveDirectory, markers
  <2>2. \/ Res' = Res
        \/ Res \in {"exact", "foreign"} /\ Res' = "absent"
        \/ Res \in {"evidence", "owned"} /\ Res' = "lost"
    BY <2>1 DEF Res, Alone
  <2>q. QED
    BY <1>1, <2>2 DEF Abstract!Change
<1>4. CASE CleanUp
  <2>1. dest = None /\ dest' = None /\ staging' = None /\ active' = None /\ retired' = None
    BY <1>4 DEF CleanUp
  <2>2. Res' = "absent" /\ Res \in {"evidence", "lost", "absent"}
    BY <2>1 DEF Res, Alone
  <2>q. QED
    BY <1>1, <2>2 DEF Abstract!Change
<1>q. QED
  BY <1>2, <1>3, <1>4

LEMMA StepRefines == NodeIInv /\ [Next]_vars => [Abstract!ResourceNext]_Abstract!resourceVars
<1> SUFFICES ASSUME NodeIInv, [Next]_vars PROVE [Abstract!ResourceNext]_Abstract!resourceVars
  OBVIOUS
<1>1. CASE UNCHANGED vars
  BY <1>1, QuietStutters DEF vars, Quiet
<1>2. CASE \/ Begin \/ SeeStaging \/ SeeActive \/ SeeRetired \/ Report \/ LookFirst
           \/ Resume \/ Reverify \/ Crash \/ Mark \/ Record \/ Publish
  BY <1>2, LookRefines, MarkRefines, PublishRefines
<1>3. CASE \/ OpenExisting \/ Stage \/ CreateNative \/ Bind \/ Retire \/ Forget
  BY <1>3, OpenRefines, StageRefines, NativeRefines, BindRefines, RetireRefines, ForgetRefines
     DEF Abstract!ResourceNext
<1>4. CASE MakeDirectory \/ RemoveDirectory \/ CleanUp
  BY <1>4, OthersRefine DEF Abstract!ResourceNext
<1>q. QED
  BY <1>1, <1>2, <1>3, <1>4 DEF Next, SessionStep, InspectStep, CreateStep, BindStep

\* The refinement ApplyPlan rests on: creation, binding and retirement are each one
\* step of the resource, wherever their calls are cut off.
THEOREM ResourceImplemented == Spec => ImplementsResource
<1>1. Init => Abstract!ResourceInit
  BY InitRefines
<1>2. NodeIInv /\ [Next]_vars => [Abstract!ResourceNext]_Abstract!resourceVars
  BY StepRefines
<1>q. QED
  BY <1>1, <1>2, NodeInductive, PTL DEF Spec, ImplementsResource, Abstract!ResourceSpec

(***************************************************************************)
(* AuthorizedKeys, for any required keys and any number of attempts, of    *)
(* changes by others to the file and to .ssh, of writes cut short and of   *)
(* keys that an editor saves: what the attempt read is a prefix of what    *)
(* is there while nobody has replaced the file, so that it only ever adds  *)
(* whole lines at the end.                                                 *)
(***************************************************************************)

LineKinds == {"comment", "key", "constrained", "malformed", "begin", "end", "broken"}
Lines == [what : LineKinds, keys : SUBSET RequiredKeys]
Texts == [lines : Seq(Lines), cut : BOOLEAN]

\* A last line without its end is a line.
Whole(text) == text.cut => text.lines # <<>>

KeysSteps == {"idle", "check_directory", "make_directory", "check_keys", "create", "link",
              "read_back", "open", "append", "verify", "applied", "done", "human", "failed"}
Directory == {"absent", "ready", "conflict"}
Attempts == [at : KeysSteps, dir : Directory, initial : DOMAIN files \cup {None},
             stanza : Seq(Lines), conflict : BOOLEAN]

KeysTyped ==
  /\ dir \in Directory
  /\ files \in Seq(Texts) /\ \A f \in DOMAIN files : Whole(files[f])
  /\ editor # None => editor \in Texts /\ Whole(editor)
  /\ path \in DOMAIN files \cup {None}
  /\ styrn \in Attempts
  /\ granted \in BOOLEAN

\* What the attempt knows at each of its steps.
AttemptHeld ==
  /\ styrn.at \in {"open", "append", "verify"} => styrn.initial # None
  /\ styrn.at \in {"read_back", "applied"} => granted
  /\ styrn.at = "verify" /\ KeysVerified => granted

KeysIInv == KeysTyped /\ AttemptHeld

LEMMA PrefixOfLonger ==
  ASSUME NEW S, NEW s \in Seq(S), NEW t \in Seq(S)
  PROVE  IsPrefix(s, s \o t)
<1>1. s \o t \in Seq(S) /\ Len(s \o t) = Len(s) + Len(t) /\ Len(s) \in Nat /\ Len(t) \in Nat
  BY ConcatProperties, LenProperties
<1>2. Len(s) <= Len(s \o t)
  BY <1>1
<1>3. CASE s = <<>>
  BY <1>1, <1>2, <1>3, SubSeqEmpty DEF IsPrefix
<1>4. CASE s # <<>>
  <2>1. 1 \in 1..Len(s) /\ Len(s) \in 1..Len(s)
    BY <1>1, <1>4, EmptySeq
  <2>2. SubSeq(s \o t, 1, Len(s)) = SubSeq(s, 1, Len(s))
    BY <2>1, SubSeqOfConcat1
  <2> QED
    BY <1>2, <2>2 DEF IsPrefix
<1> QED
  BY <1>3, <1>4

LEMMA PrefixOfItself ==
  ASSUME NEW S, NEW s \in Seq(S)
  PROVE  IsPrefix(s, s)
BY LenProperties DEF IsPrefix

LEMMA Associative ==
  ASSUME NEW S, NEW s \in Seq(S), NEW t \in Seq(S), NEW u \in Seq(S)
  PROVE  s \o t \o u = s \o (t \o u)
OBVIOUS

LEMMA OrderedKeys ==
  ASSUME NEW keys \in SUBSET RequiredKeys
  PROVE  KeyLines(keys) \in Seq(Lines)
<1>1. IsFiniteSet(keys)
  BY KeysAssumption, FS_Subset
<1>2. Cardinality(keys) \in Nat /\ ExistsBijection(1..Cardinality(keys), keys)
  BY <1>1, FS_CardinalityType
<1>3. PICK f \in [1..Cardinality(keys) -> keys] : IsInjective(f)
  <2>1. PICK f \in [1..Cardinality(keys) -> keys] : IsInjective(f)
    BY <1>2 DEF ExistsBijection, Bijection, Injection, IsInjective
  <2> QED
    BY <2>1
<1>4. SetToSeq(keys) \in [1..Cardinality(keys) -> keys]
  BY <1>3 DEF SetToSeq
<1>5. \A i \in 1..Cardinality(keys) : Line("key", {SetToSeq(keys)[i]}) \in Lines
  BY <1>4 DEF Line, Lines, LineKinds
<1>6. KeyLines(keys) \in [1..Cardinality(keys) -> Lines]
  BY <1>5 DEF KeyLines
<1> QED
  BY <1>2, <1>6

LEMMA StanzaLines ==
  ASSUME NEW keys \in SUBSET RequiredKeys
  PROVE  Stanza(keys) \in Seq(Lines)
<1>1. <<Line("begin", keys)>> \in Seq(Lines) /\ <<Line("end", keys)>> \in Seq(Lines)
  BY DEF Line, Lines, LineKinds
<1> QED
  BY <1>1, OrderedKeys, ConcatProperties DEF Stanza

LEMMA WrittenText ==
  ASSUME NEW text \in Texts, Whole(text), NEW line \in Lines, NEW cut \in BOOLEAN
  PROVE  LET new == [Written(text, <<line>>) EXCEPT !.cut = cut] IN new \in Texts /\ Whole(new)
<1> DEFINE new == [Written(text, <<line>>) EXCEPT !.cut = cut]
<1>1. <<line>> \in Seq(Lines) /\ Len(<<line>>) = 1
  OBVIOUS
<1>2. CASE text.cut
  <2>1. text.lines \in Seq(Lines) /\ Len(text.lines) \in Nat \ {0}
    BY <1>2, EmptySeq DEF Texts, Whole
  <2>2. Last(text.lines) \in Lines
    BY <2>1 DEF Last
  <2>3. Glued(Last(text.lines)) \in Lines
    BY <2>2 DEF Glued, Broken, Line, Lines, LineKinds
  <2>4. Front(text.lines) \in Seq(Lines)
    BY <2>1 DEF Front
  <2>5. Tail(<<line>>) \in Seq(Lines) /\ <<Glued(Last(text.lines))>> \in Seq(Lines)
    BY <1>1, <2>3, HeadTailProperties
  <2> DEFINE lines == Front(text.lines) \o <<Glued(Last(text.lines))>> \o Tail(<<line>>)
  <2>6. lines \in Seq(Lines) /\ lines # <<>>
    BY <2>4, <2>5
  <2>7. new = [lines |-> lines, cut |-> cut]
    BY <1>2 DEF Written
  <2> QED
    BY <2>6, <2>7 DEF Texts, Whole
<1>3. CASE ~ text.cut
  <2>1. text.lines \in Seq(Lines)
    BY DEF Texts
  <2>2. text.lines \o <<line>> \in Seq(Lines) /\ text.lines \o <<line>> # <<>>
    BY <1>1, <2>1
  <2>3. Written(text, <<line>>) = [lines |-> text.lines \o <<line>>, cut |-> FALSE]
    BY <1>3 DEF Written
  <2>4. new = [lines |-> text.lines \o <<line>>, cut |-> cut]
    <3>1. PICK whole : whole = text.lines \o <<line>>
      OBVIOUS
    <3>2. PICK old : old = [lines |-> whole, cut |-> FALSE]
      OBVIOUS
    <3>3. new = [old EXCEPT !.cut = cut]
      BY <2>3, <3>1, <3>2
    <3>4. new = [lines |-> whole, cut |-> cut]
      <4> HIDE DEF new
      <4> QED
        BY <3>2, <3>3
    <3> QED
      BY <3>1, <3>4
  <2> QED
    BY <2>2, <2>4 DEF Texts, Whole
<1> QED
  BY <1>2, <1>3

LEMMA ShortText ==
  ASSUME NEW text \in Texts, NEW stanza \in Seq(Lines),
         NEW n \in 0..(Len(stanza) - 1), NEW rest \in Rests
  PROVE  LET new == ShortWrite(text, stanza, n, rest)
         IN new \in Texts /\ Whole(new) /\ IsPrefix(text.lines, new.lines)
<1> DEFINE whole == SubSeq(stanza, 1, n)
<1> DEFINE lines == text.lines \o (whole \o rest)
<1>1. Comment \in Lines /\ Broken \in Lines
  BY DEF Comment, Broken, Line, Lines, LineKinds
<1>2. rest \in Seq(Lines)
  <2>1. CASE rest = <<>>
    BY <2>1
  <2>2. CASE rest = <<Comment>>
    BY <1>1, <2>2
  <2>3. CASE rest = <<Broken>>
    BY <1>1, <2>3
  <2> QED
    BY <2>1, <2>2, <2>3 DEF Rests
<1>3. whole \in Seq(Lines)
  <2>1. Len(stanza) \in Nat
    BY LenProperties
  <2> QED
    BY <2>1, SubSeqProperties
<1>4. text.lines \in Seq(Lines)
  BY DEF Texts
<1> HIDE DEF whole
<1>5. whole \o rest \in Seq(Lines)
  BY <1>2, <1>3, ConcatProperties
<1>6. text.lines \o whole \o rest = lines
  <2>1. \A s, t, u \in Seq(Lines) : s \o t \o u = s \o (t \o u)
    BY Associative
  <2> QED
    BY <1>2, <1>3, <1>4, <2>1, Zenon
<1>7. lines \in Seq(Lines) /\ IsPrefix(text.lines, lines)
  BY <1>4, <1>5, ConcatProperties, PrefixOfLonger
<1>8. rest # <<>> => lines # <<>>
  BY <1>2, <1>3, <1>4, <1>5
<1> HIDE DEF lines
<1>9. CASE rest = <<>>
  <2>1. ShortWrite(text, stanza, n, rest) = [lines |-> lines, cut |-> FALSE]
    BY <1>6, <1>9 DEF ShortWrite, whole
  <2> QED
    BY <1>7, <2>1 DEF Texts, Whole
<1>10. CASE rest # <<>>
  <2>1. ShortWrite(text, stanza, n, rest) = [lines |-> lines, cut |-> TRUE]
    BY <1>6, <1>10 DEF ShortWrite, whole
  <2> QED
    BY <1>7, <1>8, <1>10, <2>1 DEF Texts, Whole
<1> QED
  BY <1>9, <1>10

LEMMA AppendedText ==
  ASSUME NEW text \in Texts, NEW stanza \in Seq(Lines)
  PROVE  LET new == Appended(text, stanza)
         IN new \in Texts /\ Whole(new) /\ IsPrefix(text.lines, new.lines)
<1>1. text.lines \in Seq(Lines)
  BY DEF Texts
<1> QED
  BY <1>1, ConcatProperties, PrefixOfLonger DEF Appended, Texts, Whole

LEMMA KeysInitIInv == KeysInit => KeysIInv
<1> SUFFICES ASSUME KeysInit PROVE KeysIInv
  OBVIOUS
<1>1. files = <<>> /\ path = None /\ editor = None /\ granted = FALSE /\ dir \in Directory
  BY DEF KeysInit, Directory
<1>2. styrn \in Attempts /\ styrn.at = "idle"
  <2>1. <<>> \in Seq(Lines)
    OBVIOUS
  <2> QED
    BY <2>1 DEF KeysInit, NoAttempt, Attempts, KeysSteps, Directory
<1>3. files \in Seq(Texts) /\ \A f \in DOMAIN files : Whole(files[f])
  BY <1>1
<1>4. KeysTyped
  BY <1>1, <1>2, <1>3 DEF KeysTyped
<1>5. AttemptHeld
  BY <1>2 DEF AttemptHeld
<1> QED
  BY <1>4, <1>5 DEF KeysIInv

\* The file that is written keeps its place, and the others what they have.
LEMMA FileChanged ==
  ASSUME KeysTyped, NEW f \in DOMAIN files, NEW text \in Texts, Whole(text),
         files' = [files EXCEPT ![f] = text]
  PROVE  /\ files' \in Seq(Texts) /\ \A g \in DOMAIN files' : Whole(files'[g])
         /\ DOMAIN files' = DOMAIN files
         /\ files'[f] = text /\ \A g \in DOMAIN files : g # f => files'[g] = files[g]
<1>1. f \in 1..Len(files) /\ files \in Seq(Texts) /\ DOMAIN files = 1..Len(files)
  BY LenProperties DEF KeysTyped
<1>2. files' \in Seq(Texts)
  BY <1>1, ExceptSeq
<1>3. DOMAIN files' = DOMAIN files
  BY <1>1
<1> QED
  BY <1>1, <1>2, <1>3 DEF KeysTyped

LEMMA FileAdded ==
  ASSUME KeysTyped, NEW text \in Texts, Whole(text), files' = Append(files, text)
  PROVE  /\ files' \in Seq(Texts) /\ \A g \in DOMAIN files' : Whole(files'[g])
         /\ DOMAIN files \subseteq DOMAIN files' /\ Len(files) + 1 \in DOMAIN files'
         /\ files'[Len(files) + 1] = text /\ \A g \in DOMAIN files : files'[g] = files[g]
<1>1. files \in Seq(Texts) /\ DOMAIN files = 1..Len(files) /\ Len(files) \in Nat
  BY LenProperties DEF KeysTyped
<1>2. /\ files' \in Seq(Texts) /\ Len(files') = Len(files) + 1
      /\ \A g \in 1..Len(files) : files'[g] = files[g]
      /\ files'[Len(files) + 1] = text
  BY <1>1, AppendProperties
<1>3. DOMAIN files' = 1..(Len(files) + 1)
  BY <1>1, <1>2, LenProperties
<1>4. ASSUME NEW g \in DOMAIN files' PROVE Whole(files'[g])
  <2>1. CASE g = Len(files) + 1
    BY <1>2, <2>1
  <2>2. CASE g # Len(files) + 1
    <3>1. g \in DOMAIN files
      BY <1>1, <1>3, <2>2
    <3> QED
      BY <1>1, <1>2, <3>1 DEF KeysTyped
  <2> QED
    BY <2>1, <2>2
<1> QED
  BY <1>1, <1>2, <1>3, <1>4

LEMMA PlannedAttempt ==
  ASSUME KeysTyped, NEW name \in DOMAIN files \cup {None}
  PROVE  PlanFor(name) \in Attempts /\ PlanFor(name).at = "check_directory"
<1> DEFINE text == At(name)
<1> DEFINE payload == IF text = None THEN KeyLines(RequiredKeys)
                      ELSE IF Conflicting(text) \/ Missing(text) = {} THEN <<>>
                      ELSE Stanza(Missing(text))
<1>1. payload \in Seq(Lines)
  <2>1. KeyLines(RequiredKeys) \in Seq(Lines)
    BY OrderedKeys
  <2>2. Missing(text) \in SUBSET RequiredKeys
    BY DEF Missing
  <2>3. Stanza(Missing(text)) \in Seq(Lines)
    BY <2>2, StanzaLines
  <2>4. <<>> \in Seq(Lines)
    OBVIOUS
  <2> HIDE DEF text
  <2> QED
    BY <2>1, <2>3, <2>4
<1> DEFINE conflict == \/ dir = "conflict"
                       \/ text # None /\ (Conflicting(text) \/ TooBig(text, payload))
<1>2. conflict \in BOOLEAN
  OBVIOUS
<1>3. PlanFor(name) = [at |-> "check_directory", dir |-> dir, initial |-> name,
                       stanza |-> payload, conflict |-> conflict]
  BY Zenon DEF PlanFor
<1>4. dir \in Directory
  BY DEF KeysTyped
<1> HIDE DEF payload, conflict
<1> QED
  BY <1>1, <1>2, <1>3, <1>4 DEF Attempts, KeysSteps

\* What setup does when it only goes on: it says where it is.
LEMMA GoneOn ==
  ASSUME KeysIInv, Stay, NEW step \in KeysSteps \ {"append", "verify"}, Become(step),
         step = "open" => styrn.initial # None,
         step \in {"read_back", "applied"} => granted
  PROVE  KeysIInv'
<1> USE DEF KeysIInv, Stay, Become
<1>1. styrn' \in Attempts /\ styrn'.at = step /\ styrn'.initial = styrn.initial
  BY DEF KeysTyped, Attempts
<1>2. KeysTyped'
  BY <1>1 DEF KeysTyped, Attempts
<1>3. AttemptHeld'
  BY <1>1 DEF AttemptHeld
<1> QED
  BY <1>2, <1>3

LEMMA PlanSafe == KeysIInv /\ Plan => KeysIInv'
<1> SUFFICES ASSUME KeysIInv, Plan PROVE KeysIInv'
  OBVIOUS
<1> USE DEF KeysIInv
<1>1. styrn' \in Attempts /\ styrn'.at = "check_directory"
  BY PlannedAttempt DEF Plan, KeysTyped
<1>2. KeysTyped'
  BY <1>1 DEF Plan, KeysTyped, Attempts
<1> QED
  BY <1>1, <1>2 DEF AttemptHeld

LEMMA SetupWalksSafe ==
  KeysIInv /\ (CheckDirectory \/ CheckKeys \/ CreateKeys \/ ReadBack \/ Verify) => KeysIInv'
<1> SUFFICES ASSUME KeysIInv PROVE (CheckDirectory \/ CheckKeys \/ CreateKeys \/ ReadBack
                                    \/ Verify) => KeysIInv'
  OBVIOUS
<1>1. ASSUME CheckDirectory PROVE KeysIInv'
  BY <1>1, GoneOn DEF CheckDirectory, KeysSteps
<1>2. ASSUME CheckKeys PROVE KeysIInv'
  <2>1. KeysCheck \in {"human", "create", "done", "open"}
    BY DEF KeysCheck
  <2>2. KeysCheck = "open" => styrn.initial # None
    BY DEF KeysCheck
  <2> QED
    BY <1>2, <2>1, <2>2, GoneOn DEF CheckKeys, KeysSteps
<1>3. ASSUME CreateKeys PROVE KeysIInv'
  BY <1>3, GoneOn DEF CreateKeys, KeysSteps
<1>4. ASSUME ReadBack PROVE KeysIInv'
  <2>1. granted
    BY <1>4 DEF ReadBack, KeysIInv, AttemptHeld
  <2> QED
    BY <1>4, <2>1, GoneOn DEF ReadBack, KeysSteps
<1>5. ASSUME Verify PROVE KeysIInv'
  <2>1. KeysVerified => granted
    BY <1>5 DEF Verify, KeysIInv, AttemptHeld
  <2> QED
    BY <1>5, <2>1, GoneOn DEF Verify, KeysSteps
<1> QED
  BY <1>1, <1>2, <1>3, <1>4, <1>5

LEMMA MakeSshDirectorySafe == KeysIInv /\ MakeSshDirectory => KeysIInv'
<1> SUFFICES ASSUME KeysIInv, MakeSshDirectory PROVE KeysIInv'
  OBVIOUS
<1>1. /\ styrn' \in Attempts /\ styrn'.at \in {"check_keys", "failed"}
      /\ dir' \in Directory
  BY DEF MakeSshDirectory, Become, KeysIInv, KeysTyped, Attempts, KeysSteps, Directory
<1>2. UNCHANGED <<path, files, editor, granted>>
  BY DEF MakeSshDirectory, Become
<1>3. KeysTyped'
  BY <1>1, <1>2 DEF KeysIInv, KeysTyped, Attempts
<1> QED
  BY <1>1, <1>3 DEF KeysIInv, AttemptHeld

LEMMA OpenSafe == KeysIInv /\ Open => KeysIInv'
<1> SUFFICES ASSUME KeysIInv, Open PROVE KeysIInv'
  OBVIOUS
<1> USE DEF KeysIInv
<1>1. /\ styrn' \in Attempts /\ styrn'.at \in {"append", "failed"}
      /\ styrn'.initial = styrn.initial /\ styrn.initial # None
  BY DEF Open, Become, KeysTyped, Attempts, KeysSteps, AttemptHeld
<1>2. UNCHANGED <<dir, path, files, editor, granted>>
  BY DEF Open, Become, Stay
<1>3. KeysTyped'
  BY <1>1, <1>2 DEF KeysTyped, Attempts
<1> QED
  BY <1>1, <1>3 DEF AttemptHeld

LEMMA LinkSafe == KeysIInv /\ Link => KeysIInv'
<1> SUFFICES ASSUME KeysIInv, Link PROVE KeysIInv'
  OBVIOUS
<1> USE DEF KeysIInv
<1>1. CASE MayLink /\ Become("read_back") /\ granted' = TRUE /\ dir' = dir
           /\ files' = Append(files, Fresh) /\ path' = Len(files) + 1
  <2>1. Fresh \in Texts /\ Whole(Fresh)
    BY DEF Fresh, Texts, Whole, KeysTyped, Attempts
  <2>2. /\ files' \in Seq(Texts) /\ \A g \in DOMAIN files' : Whole(files'[g])
        /\ DOMAIN files \subseteq DOMAIN files' /\ path' \in DOMAIN files'
    BY <1>1, <2>1, FileAdded
  <2>3. styrn' \in Attempts' /\ styrn'.at = "read_back" /\ styrn.initial = styrn'.initial
    BY <1>1, <2>2 DEF Become, KeysTyped, Attempts, KeysSteps
  <2>4. KeysTyped'
    BY <1>1, <2>2, <2>3 DEF Become, KeysTyped
  <2> QED
    BY <1>1, <2>3, <2>4 DEF AttemptHeld
<1>2. CASE Become("failed") /\ UNCHANGED <<dir, path, files, granted>>
  BY <1>2, GoneOn DEF Stay, KeysSteps
<1> QED
  BY <1>1, <1>2 DEF Link

LEMMA AppendOnceSafe == KeysIInv /\ AppendOnce => KeysIInv'
<1> SUFFICES ASSUME KeysIInv, AppendOnce PROVE KeysIInv'
  OBVIOUS
<1> USE DEF KeysIInv
<1> DEFINE id == styrn.initial
<1>1. id \in DOMAIN files /\ id # None /\ styrn.stanza \in Seq(Lines)
  BY DEF AppendOnce, KeysTyped, AttemptHeld, Attempts
<1>2. files[id] \in Texts
  BY <1>1, LenProperties DEF KeysTyped
<1>3. \E text \in Texts : Whole(text) /\ files' = [files EXCEPT ![id] = text]
  BY <1>1, <1>2, ShortText, AppendedText DEF AppendOnce
<1>4. /\ files' \in Seq(Texts) /\ \A g \in DOMAIN files' : Whole(files'[g])
      /\ DOMAIN files' = DOMAIN files
  BY <1>1, <1>3, FileChanged
<1>5. /\ styrn' \in Attempts /\ styrn'.at \in {"verify", "failed"}
      /\ styrn'.initial = id
  BY DEF AppendOnce, Become, KeysTyped, Attempts, KeysSteps
<1>6. UNCHANGED <<dir, path, editor>> /\ granted' = (path = id /\ Authorized(files'[id]))
  BY DEF AppendOnce, Become
<1>7. KeysTyped'
  BY <1>4, <1>5, <1>6 DEF KeysTyped, Attempts
<1>8. styrn'.at = "verify" /\ KeysVerified' => granted'
  BY <1>1, <1>5, <1>6 DEF KeysVerified, At
<1>9. AttemptHeld'
  BY <1>1, <1>5, <1>8 DEF AttemptHeld
<1> QED
  BY <1>7, <1>9

\* Others leave the attempt alone, and what they write is seen as they write it.
LEMMA OthersHeld ==
  ASSUME KeysIInv, KeysTyped', UNCHANGED styrn,
         \/ Noted
         \/ UNCHANGED <<files, granted>> /\ path' \in {path, None}
  PROVE  KeysIInv'
<1>1. styrn.at = "verify" /\ KeysVerified' => granted'
  <2> SUFFICES ASSUME styrn.at = "verify", KeysVerified' PROVE granted'
    OBVIOUS
  <2>1. path' # None /\ Authorized(files'[path'])
    BY DEF KeysVerified, At, KeysIInv, AttemptHeld
  <2> QED
    BY <2>1 DEF Noted, KeysVerified, At, KeysIInv, AttemptHeld
<1>2. granted => granted'
  BY DEF Noted
<1> QED
  BY <1>1, <1>2 DEF KeysIInv, AttemptHeld

LEMMA OtherAppendsSafe == KeysIInv /\ OtherAppends => KeysIInv'
<1> SUFFICES ASSUME KeysIInv, OtherAppends PROVE KeysIInv'
  OBVIOUS
<1> USE DEF KeysIInv
<1>1. PICK line \in Lines, cut \in BOOLEAN :
        LET old == IF path = None THEN [lines |-> <<>>, cut |-> FALSE] ELSE files[path]
            new == [Written(old, <<line>>) EXCEPT !.cut = cut]
        IN /\ files' = IF path = None THEN Append(files, new) ELSE [files EXCEPT ![path] = new]
           /\ path' = IF path = None THEN Len(files) + 1 ELSE path
  BY DEF OtherAppends, Line, Lines, LineKinds
<1> DEFINE old == IF path = None THEN [lines |-> <<>>, cut |-> FALSE] ELSE files[path]
<1> DEFINE new == [Written(old, <<line>>) EXCEPT !.cut = cut]
<1>2. old \in Texts /\ Whole(old)
  <2>1. CASE path = None
    BY <2>1 DEF Texts, Whole
  <2>2. CASE path # None
    BY <2>2, LenProperties DEF KeysTyped
  <2> QED
    BY <2>1, <2>2
<1> HIDE DEF old
<1>3. new \in Texts /\ Whole(new)
  BY <1>2, WrittenText
<1>4. /\ files' = IF path = None THEN Append(files, new) ELSE [files EXCEPT ![path] = new]
      /\ path' = IF path = None THEN Len(files) + 1 ELSE path
  BY <1>1 DEF old
<1> HIDE DEF new
<1>5. UNCHANGED <<dir, editor, styrn>> /\ Noted /\ granted' \in BOOLEAN
  BY DEF OtherAppends, Others, Noted, KeysTyped
<1>6. /\ files' \in Seq(Texts) /\ \A g \in DOMAIN files' : Whole(files'[g])
      /\ DOMAIN files \subseteq DOMAIN files' /\ path' \in DOMAIN files'
  <2>1. CASE path = None
    BY <1>3, <1>4, <2>1, FileAdded
  <2>2. CASE path # None
    BY <1>3, <1>4, <2>2, FileChanged DEF KeysTyped
  <2> QED
    BY <2>1, <2>2
<1>7. KeysTyped'
  BY <1>5, <1>6 DEF KeysTyped, Attempts
<1> QED
  BY <1>5, <1>7, OthersHeld

LEMMA EditorReadsSafe == KeysIInv /\ EditorReads => KeysIInv'
<1> SUFFICES ASSUME KeysIInv, EditorReads PROVE KeysIInv'
  OBVIOUS
<1> USE DEF KeysIInv
<1>1. path \in DOMAIN files /\ files[path] \in Texts
  BY LenProperties DEF EditorReads, KeysTyped
<1>2. PICK i \in DOMAIN files[path].lines :
        editor' = [lines |-> RemoveAt(files[path].lines, i), cut |-> FALSE]
  BY DEF EditorReads
<1> DEFINE old == files[path].lines
<1>3. old \in Seq(Lines) /\ i \in 1..Len(old) /\ Len(old) \in Nat
  BY <1>1, <1>2, LenProperties DEF Texts
<1>4. SubSeq(old, 1, i - 1) \in Seq(Lines) /\ SubSeq(old, i + 1, Len(old)) \in Seq(Lines)
  BY <1>3, SubSeqProperties
<1>5. RemoveAt(old, i) \in Seq(Lines)
  BY <1>4, ConcatProperties DEF RemoveAt
<1>6. editor' \in Texts /\ Whole(editor')
  BY <1>2, <1>5 DEF Texts, Whole
<1>7. UNCHANGED <<dir, path, files, styrn, granted>>
  BY DEF EditorReads, Others
<1>8. KeysTyped'
  BY <1>6, <1>7 DEF KeysTyped, Attempts
<1> QED
  BY <1>7, <1>8, OthersHeld

LEMMA EditorSavesSafe == KeysIInv /\ EditorSaves => KeysIInv'
<1> SUFFICES ASSUME KeysIInv, EditorSaves PROVE KeysIInv'
  OBVIOUS
<1> USE DEF KeysIInv
<1>1. editor \in Texts /\ Whole(editor) /\ path \in DOMAIN files
  BY DEF EditorSaves, KeysTyped
<1>2. editor' = None /\ UNCHANGED <<dir, styrn>> /\ Noted /\ granted' \in BOOLEAN
  BY DEF EditorSaves, Noted, KeysTyped
<1>3. /\ files' \in Seq(Texts) /\ \A g \in DOMAIN files' : Whole(files'[g])
      /\ DOMAIN files \subseteq DOMAIN files' /\ path' \in DOMAIN files'
  <2>1. CASE files' = [files EXCEPT ![path] = editor] /\ path' = path
    BY <1>1, <2>1, FileChanged
  <2>2. CASE files' = Append(files, editor) /\ path' = Len(files) + 1
    BY <1>1, <2>2, FileAdded
  <2> QED
    BY <2>1, <2>2 DEF EditorSaves
<1>4. KeysTyped'
  BY <1>2, <1>3 DEF KeysTyped, Attempts
<1> QED
  BY <1>2, <1>4, OthersHeld

LEMMA OtherDirectorySafe == KeysIInv /\ OtherDirectory => KeysIInv'
<1> SUFFICES ASSUME KeysIInv, OtherDirectory PROVE KeysIInv'
  OBVIOUS
<1> USE DEF KeysIInv
<1>1. /\ UNCHANGED <<files, editor, granted, styrn>> /\ path' \in {path, None}
      /\ dir' \in Directory
  BY DEF OtherDirectory, Others, Directory
<1>2. KeysTyped'
  BY <1>1 DEF KeysTyped, Attempts
<1> QED
  BY <1>1, <1>2, OthersHeld

LEMMA KeysNextSafe == KeysIInv /\ [KeysNext]_keysVars => KeysIInv'
<1> SUFFICES ASSUME KeysIInv, [KeysNext]_keysVars PROVE KeysIInv'
  OBVIOUS
<1>1. CASE Setup
  BY <1>1, PlanSafe, SetupWalksSafe, MakeSshDirectorySafe, OpenSafe, LinkSafe, AppendOnceSafe
     DEF Setup
<1>2. CASE OtherAppends \/ EditorReads \/ EditorSaves \/ OtherDirectory
  BY <1>2, OtherAppendsSafe, EditorReadsSafe, EditorSavesSafe, OtherDirectorySafe
<1>3. CASE UNCHANGED keysVars
  BY <1>3 DEF keysVars, KeysIInv, KeysTyped, Attempts, AttemptHeld, KeysVerified, At
<1> QED
  BY <1>1, <1>2, <1>3 DEF KeysNext

\* What a step of setup leaves of every file there was.
LEMMA SetupOnlyAdds ==
  ASSUME KeysIInv, Setup
  PROVE  /\ \A f \in DOMAIN files : IsPrefix(files[f].lines, files'[f].lines)
         /\ path # None => path' = path
<1> USE DEF KeysIInv
<1>1. ASSUME NEW f \in DOMAIN files
      PROVE  files[f] \in Texts /\ IsPrefix(files[f].lines, files[f].lines)
  <2>1. files[f] \in Texts
    BY LenProperties DEF KeysTyped
  <2> QED
    BY <2>1, PrefixOfItself DEF Texts
<1>2. CASE UNCHANGED <<path, files>>
  BY <1>1, <1>2
<1>3. CASE Link
  <2>1. CASE MayLink /\ files' = Append(files, Fresh)
    <3>1. \A f \in DOMAIN files : files'[f] = files[f]
      <4>1. Fresh \in Texts /\ Whole(Fresh)
        BY DEF Fresh, Texts, Whole, KeysTyped, Attempts
      <4> QED
        BY <2>1, <4>1, FileAdded
    <3> QED
      BY <1>1, <2>1, <3>1 DEF MayLink
  <2> QED
    BY <1>2, <1>3, <2>1 DEF Link
<1>4. CASE AppendOnce
  <2> DEFINE id == styrn.initial
  <2>1. id \in DOMAIN files /\ styrn.stanza \in Seq(Lines) /\ path' = path
    BY <1>4 DEF AppendOnce, KeysTyped, AttemptHeld, Attempts
  <2>2. PICK text \in Texts : /\ Whole(text) /\ files' = [files EXCEPT ![id] = text]
                             /\ IsPrefix(files[id].lines, text.lines)
    BY <1>1, <1>4, <2>1, ShortText, AppendedText DEF AppendOnce
  <2>3. files'[id] = text /\ \A f \in DOMAIN files : f # id => files'[f] = files[f]
    BY <2>1, <2>2, FileChanged
  <2> QED
    BY <1>1, <2>1, <2>2, <2>3
<1> QED
  BY <1>2, <1>3, <1>4
     DEF Setup, Plan, CheckDirectory, MakeSshDirectory, CheckKeys, CreateKeys, ReadBack, Open,
         Verify, Stay

LEMMA OthersLeaveStyrn ==
  OtherAppends \/ EditorReads \/ EditorSaves \/ OtherDirectory => UNCHANGED styrn
BY DEF OtherAppends, EditorReads, EditorSaves, OtherDirectory, Others

(***************************************************************************)
(* For any keys, any number of attempts, edits by others and full disks:   *)
(* a step of setup leaves every line of every file where it was, and an    *)
(* attempt that says the keys are applied wrote before a time at which all *)
(* of them were authorized at once.                                        *)
(***************************************************************************)
THEOREM OnlyAdded == KeysSpec => KeysOnlyAdded
<1> DEFINE Added ==
      /\ styrn' # styrn =>
          /\ \A f \in DOMAIN files : IsPrefix(files[f].lines, files'[f].lines)
          /\ path # None => path' = path
      /\ styrn'.at = "applied" => granted
<1>1. KeysInit => KeysIInv
  BY KeysInitIInv
<1>2. KeysIInv /\ [KeysNext]_keysVars => KeysIInv'
  BY KeysNextSafe
<1>3. KeysIInv /\ [KeysNext]_keysVars => [Added]_keysVars
  <2> SUFFICES ASSUME KeysIInv, KeysNext PROVE Added
    OBVIOUS
  <2>1. CASE Setup
    <3>1. styrn'.at = "applied" => granted
      <4>1. KeysIInv'
        BY KeysNextSafe
      <4>2. styrn'.at # "applied" \/ UNCHANGED granted
        BY <2>1 DEF Setup, Plan, CheckDirectory, MakeSshDirectory, CheckKeys, CreateKeys, Link,
                    ReadBack, Open, AppendOnce, Verify, Stay, Become, KeysIInv, KeysTyped, Attempts,
                    PlanFor
      <4> QED
        BY <4>1, <4>2 DEF KeysIInv, AttemptHeld
    <3> QED
      BY <2>1, <3>1, SetupOnlyAdds
  <2>2. CASE OtherAppends \/ EditorReads \/ EditorSaves \/ OtherDirectory
    BY <2>2, OthersLeaveStyrn DEF KeysIInv, AttemptHeld
  <2> QED
    BY <2>1, <2>2 DEF KeysNext
<1> QED
  BY <1>1, <1>2, <1>3, PTL DEF KeysSpec, KeysOnlyAdded

(***************************************************************************)
(* PrivateFile: a directory after each call of a publication, and what is  *)
(* left of the calls.                                                      *)
(***************************************************************************)

IsDirectory(d, names, contents) ==
  /\ d = [now |-> d.now, disk |-> d.disk, data |-> d.data, synced |-> d.synced]
  /\ d.data \in Seq(contents)
  /\ d.now \in [names -> {None} \cup DOMAIN d.data]
  /\ d.disk \in [names -> {None} \cup DOMAIN d.data]

\* The todo of a publication, the last one first.
CallKinds == {"verify_temporary", "link", "move", "sync", "verify_destination", "bury", "unlink"}
UnixCalls == <<"sync", "unlink", "bury", "verify_destination", "sync", "link", "verify_temporary">>
WindowsCalls == <<"verify_destination", "move", "verify_temporary">>
AllCalls(os) == IF os = "windows" THEN WindowsCalls ELSE UnixCalls

\* What is left of the publication on this platform.
IsRest(todo, os) ==
  /\ todo \in Seq(CallKinds)
  /\ Len(todo) \in 1..Len(AllCalls(os))
  /\ \A i \in 1..Len(todo) : todo[i] = AllCalls(os)[Len(todo) + 1 - i]

\* The key has its staging name only; both names; or the one it is known by.
Unlinked(n, os) == IF os = "windows" THEN n \in {2, 3} ELSE n \in {6, 7}
Linked(n, os) == os # "windows" /\ n \in {3, 4, 5}
Named(n, os) == IF os = "windows" THEN n = 1 ELSE n \in {1, 2}


LEMMA BoundFiles ==
  ASSUME NEW names, NEW contents, NEW old, IsDirectory(old, names, contents),
         NEW name \in names, NEW file \in {None} \cup DOMAIN old.data,
         NEW new, new = Bound(old, name, file)
  PROVE  /\ IsDirectory(new, names, contents)
         /\ new.now = [old.now EXCEPT ![name] = file]
         /\ new.disk = old.disk /\ new.data = old.data /\ new.synced = old.synced
BY DEF IsDirectory, Bound

\* A file has been added under a name; a name has been moved to another.
Added(old, new, name, content) ==
  /\ new.now = [old.now EXCEPT ![name] = Len(old.data) + 1]
  /\ new.disk = old.disk /\ new.synced = old.synced
  /\ \A f \in DOMAIN old.data : f \in DOMAIN new.data /\ new.data[f] = old.data[f]
  /\ Len(old.data) + 1 \in DOMAIN new.data /\ new.data[Len(old.data) + 1] = content
  /\ Len(old.data) + 1 \in Nat
Moved(old, new, from, to) ==
  /\ new.now = [old.now EXCEPT ![to] = old.now[from], ![from] = None]
  /\ new.disk = [old.disk EXCEPT ![to] = old.now[from], ![from] = None]
  /\ new.data = old.data /\ new.synced = old.synced

LEMMA CreatedFiles ==
  ASSUME NEW names, NEW contents, NEW old, IsDirectory(old, names, contents),
         NEW name \in names, NEW content \in contents
  PROVE  /\ IsDirectory(Create(old, name, content), names, contents)
         /\ Added(old, Create(old, name, content), name, content)
<1>0. PICK new : new = Create(old, name, content)
  OBVIOUS
<1>1. old.data \in Seq(contents) /\ Len(old.data) \in Nat /\ DOMAIN old.data = 1..Len(old.data)
  BY LenProperties DEF IsDirectory
<1>2. PICK data : data = Append(old.data, content)
  OBVIOUS
<1>3. /\ data \in Seq(contents) /\ Len(data) = Len(old.data) + 1
      /\ \A f \in 1..Len(old.data) : data[f] = old.data[f]
      /\ data[Len(old.data) + 1] = content
  BY <1>1, <1>2, AppendProperties
<1>4. DOMAIN data = 1..(Len(old.data) + 1)
  BY <1>3, LenProperties
<1>5. new = [now |-> [old.now EXCEPT ![name] = Len(old.data) + 1], disk |-> old.disk,
             data |-> data, synced |-> old.synced]
  BY <1>0, <1>2 DEF Create, Bound, IsDirectory
<1>6. IsDirectory(new, names, contents) /\ Added(old, new, name, content)
  BY <1>1, <1>3, <1>4, <1>5 DEF IsDirectory, Added
<1> QED
  BY <1>0, <1>6

LEMMA SyncedData ==
  ASSUME NEW names, NEW contents, NEW old, IsDirectory(old, names, contents), NEW name,
         NEW new, new = SyncData(old, name)
  PROVE  /\ IsDirectory(new, names, contents)
         /\ new.now = old.now /\ new.disk = old.disk /\ new.data = old.data
         /\ new.synced = old.synced \cup {old.now[name]}
BY DEF IsDirectory, SyncData

LEMMA SyncedNames ==
  ASSUME NEW names, NEW contents, NEW old, IsDirectory(old, names, contents),
         NEW new, new = SyncNames(old)
  PROVE  /\ IsDirectory(new, names, contents)
         /\ new.now = old.now /\ new.disk = old.now /\ new.data = old.data
         /\ new.synced = old.synced
BY DEF IsDirectory, SyncNames

LEMMA MovedFiles ==
  ASSUME NEW names, NEW contents, NEW old, IsDirectory(old, names, contents),
         NEW from \in names, NEW to \in names, from # to
  PROVE  /\ IsDirectory(AfterCall(old, "move", from, to), names, contents)
         /\ Moved(old, AfterCall(old, "move", from, to), from, to)
BY DEF IsDirectory, Bound, AfterCall, Moved

LEMMA Publications ==
  ASSUME NEW os \in {"linux", "macos", "windows"}
  PROVE  IsRest(Publication(os), os) /\ Len(Publication(os)) = Len(AllCalls(os))
<1>1. CASE os = "windows"
  <2>1. Publication(os) = WindowsPublication /\ AllCalls(os) = WindowsCalls
    BY <1>1 DEF Publication, AllCalls
  <2>2. Len(WindowsPublication) = 3 /\ Len(WindowsCalls) = 3
    BY DEF WindowsPublication, WindowsCalls
  <2>3. WindowsPublication \in Seq(CallKinds)
    BY DEF WindowsPublication, CallKinds
  <2>4. \A i \in 1..3 : WindowsPublication[i] = WindowsCalls[4 - i]
    BY DEF WindowsPublication, WindowsCalls
  <2> QED
    BY <2>1, <2>2, <2>3, <2>4 DEF IsRest
<1>2. CASE os # "windows"
  <2>1. Publication(os) = LinuxPublication /\ AllCalls(os) = UnixCalls
    BY <1>2 DEF Publication, AllCalls, LinuxPublication, MacosPublication, MacosRemoval
  <2>2. Len(LinuxPublication) = 7 /\ Len(UnixCalls) = 7
    BY DEF LinuxPublication, LinuxRemoval, UnixCalls
  <2>3. LinuxPublication \in Seq(CallKinds)
    BY DEF LinuxPublication, LinuxRemoval, CallKinds
  <2>4. \A i \in 1..7 : LinuxPublication[i] = UnixCalls[8 - i]
    <3>1. \A i \in 1..7 : i \in {1, 2, 3, 4, 5, 6, 7}
      OBVIOUS
    <3>2. /\ LinuxPublication[1] = "verify_temporary" /\ LinuxPublication[2] = "link"
          /\ LinuxPublication[3] = "sync" /\ LinuxPublication[4] = "verify_destination"
      BY DEF LinuxPublication, LinuxRemoval
    <3>3. LinuxPublication[5] = "bury" /\ LinuxPublication[6] = "unlink" /\ LinuxPublication[7] = "sync"
      BY DEF LinuxPublication, LinuxRemoval
    <3> QED
      BY <3>1, <3>2, <3>3 DEF UnixCalls
  <2> QED
    BY <2>1, <2>2, <2>3, <2>4 DEF IsRest
<1> QED
  BY <1>1, <1>2

LEMMA RestOf ==
  ASSUME NEW os, NEW todo, IsRest(todo, os), Len(AllCalls(os)) \in Nat
  PROVE  /\ Len(todo) \in Nat \ {0} /\ Head(todo) = AllCalls(os)[Len(todo)]
         /\ Len(todo) = 1 => Tail(todo) = <<>>
         /\ Len(todo) # 1 => /\ Tail(todo) # <<>> /\ IsRest(Tail(todo), os)
                             /\ Len(Tail(todo)) = Len(todo) - 1
         /\ Tail(todo) \in Seq(CallKinds) /\ todo # <<>>
<1>1. /\ todo \in Seq(CallKinds) /\ Len(todo) \in 1..Len(AllCalls(os))
      /\ \A i \in 1..Len(todo) : todo[i] = AllCalls(os)[Len(todo) + 1 - i]
  BY DEF IsRest
<1>2. Len(todo) \in Nat \ {0} /\ todo # <<>>
  BY <1>1, EmptySeq
<1>3. PICK tail : tail = Tail(todo)
  OBVIOUS
<1>4. /\ Head(todo) = todo[1] /\ tail \in Seq(CallKinds) /\ Len(tail) = Len(todo) - 1
      /\ \A i \in 1..Len(tail) : tail[i] = todo[i + 1]
  BY <1>1, <1>2, <1>3, HeadTailProperties
<1>5. Len(tail) \in Nat /\ (tail = <<>> <=> Len(tail) = 0)
  BY <1>4, EmptySeq, LenProperties
<1>6. Head(todo) = AllCalls(os)[Len(todo)]
  BY <1>1, <1>2, <1>4
<1>7. ASSUME Len(todo) # 1  PROVE IsRest(tail, os)
  <2>1. Len(tail) \in 1..Len(AllCalls(os))
    BY <1>1, <1>2, <1>4, <1>7
  <2>2. ASSUME NEW i \in 1..Len(tail)
        PROVE  tail[i] = AllCalls(os)[Len(tail) + 1 - i]
    <3>1. i + 1 \in 1..Len(todo) /\ Len(todo) + 1 - (i + 1) = Len(tail) + 1 - i
      <4>1. PICK m : m = Len(todo)
        OBVIOUS
      <4>2. PICK k : k = Len(tail)
        OBVIOUS
      <4>3. m \in Nat \ {0} /\ k = m - 1 /\ i \in 1..k
        BY <1>2, <1>4, <1>5, <2>2, <4>1, <4>2
      <4>4. i + 1 \in 1..m /\ m + 1 - (i + 1) = k + 1 - i
        BY <4>3
      <4> QED
        BY <4>1, <4>2, <4>4
    <3>2. todo[i + 1] = AllCalls(os)[Len(todo) + 1 - (i + 1)]
      BY <1>1, <3>1
    <3> QED
      BY <1>4, <3>1, <3>2
  <2> QED
    BY <1>4, <2>1, <2>2 DEF IsRest
<1> QED
  BY <1>2, <1>3, <1>4, <1>5, <1>6, <1>7

LEMMA CallNames ==
  ASSUME NEW os
  PROVE  /\ Len(AllCalls(os)) \in Nat /\ Len(AllCalls(os)) = IF os = "windows" THEN 3 ELSE 7
         /\ os = "windows" => /\ AllCalls(os)[1] = "verify_destination"
                             /\ AllCalls(os)[2] = "move" /\ AllCalls(os)[3] = "verify_temporary"
         /\ os # "windows" =>
              /\ AllCalls(os)[1] = "sync" /\ AllCalls(os)[2] = "unlink"
              /\ AllCalls(os)[3] = "bury" /\ AllCalls(os)[4] = "verify_destination"
              /\ AllCalls(os)[5] = "sync" /\ AllCalls(os)[6] = "link"
              /\ AllCalls(os)[7] = "verify_temporary"
BY DEF AllCalls, UnixCalls, WindowsCalls


\* What a call of the publication does to the names, n todo before its end.
Links(n, os) == IF os = "windows" THEN n = 2 ELSE n = 6
Frees(n, os) == IF os = "windows" THEN n = 2 ELSE n = 3
Syncs(n, os) == os # "windows" /\ n \in {1, 5}

LEMMA Called ==
  ASSUME NEW names, NEW contents, NEW old, IsDirectory(old, names, contents),
         NEW from \in names, NEW to \in names, from # to, NEW os, NEW n, NEW call,
         n \in 1..Len(AllCalls(os)), call = AllCalls(os)[n],
         NEW new, new = AfterCall(old, call, from, to)
  PROVE  /\ IsDirectory(new, names, contents) /\ new.data = old.data /\ new.synced = old.synced
         /\ new.now[to] = IF Links(n, os) THEN old.now[from] ELSE old.now[to]
         /\ new.now[from] = IF Frees(n, os) THEN None ELSE old.now[from]
         /\ \A other \in names \ {from, to} : new.now[other] = old.now[other]
         /\ new.disk[to] = IF Syncs(n, os) THEN old.now[to]
                           ELSE IF os = "windows" /\ n = 2 THEN old.now[from] ELSE old.disk[to]
<1>1. os = "windows" => n \in {1, 2, 3}
  BY CallNames
<1>2. os # "windows" => n \in {1, 2, 3, 4, 5, 6, 7}
  BY CallNames
<1>3. os = "windows" => /\ n = 1 => call = "verify_destination"
                        /\ n = 2 => call = "move"
                        /\ n = 3 => call = "verify_temporary"
  BY CallNames
<1>4. os # "windows" => /\ n \in {1, 5} => call = "sync"
                        /\ n = 2 => call = "unlink"
                        /\ n = 3 => call = "bury"
                        /\ n = 4 => call = "verify_destination"
                        /\ n = 6 => call = "link"
                        /\ n = 7 => call = "verify_temporary"
  BY CallNames
<1>5. CASE call = "link"
  <2>1. Links(n, os) /\ ~Frees(n, os) /\ ~Syncs(n, os) /\ os # "windows"
    BY <1>1, <1>2, <1>3, <1>4, <1>5 DEF Links, Frees, Syncs
  <2>2. new = Bound(old, to, old.now[from])
    BY <1>5 DEF AfterCall
  <2>3. old.now[from] \in {None} \cup DOMAIN old.data
    BY DEF IsDirectory
  <2>4. /\ IsDirectory(new, names, contents)
        /\ new.now = [old.now EXCEPT ![to] = old.now[from]]
        /\ new.disk = old.disk /\ new.data = old.data /\ new.synced = old.synced
    BY <2>2, <2>3, BoundFiles
  <2> QED
    BY <2>1, <2>4 DEF IsDirectory
<1>6. CASE call = "bury"
  <2>1. ~Links(n, os) /\ Frees(n, os) /\ ~Syncs(n, os) /\ os # "windows"
    BY <1>1, <1>2, <1>3, <1>4, <1>6 DEF Links, Frees, Syncs
  <2>2. new = Bound(old, from, None)
    BY <1>6 DEF AfterCall
  <2>3. /\ IsDirectory(new, names, contents)
        /\ new.now = [old.now EXCEPT ![from] = None]
        /\ new.disk = old.disk /\ new.data = old.data /\ new.synced = old.synced
    BY <2>2, BoundFiles
  <2> QED
    BY <2>1, <2>3 DEF IsDirectory
<1>7. CASE call = "sync"
  <2>1. ~Links(n, os) /\ ~Frees(n, os) /\ Syncs(n, os) /\ os # "windows"
    BY <1>1, <1>2, <1>3, <1>4, <1>7 DEF Links, Frees, Syncs
  <2>2. new = SyncNames(old)
    BY <1>7 DEF AfterCall
  <2> QED
    BY <2>1, <2>2, SyncedNames
<1>8. CASE call = "move"
  <2>1. Links(n, os) /\ Frees(n, os) /\ ~Syncs(n, os) /\ os = "windows" /\ n = 2
    BY <1>1, <1>2, <1>3, <1>4, <1>8 DEF Links, Frees, Syncs
  <2>2. new = AfterCall(old, "move", from, to)
    BY <1>8
  <2>3. IsDirectory(new, names, contents) /\ Moved(old, new, from, to)
    BY <2>2, MovedFiles
  <2> QED
    BY <2>1, <2>3 DEF IsDirectory, Moved
<1>9. CASE call \notin {"link", "bury", "sync", "move"}
  <2>1. ~Links(n, os) /\ ~Frees(n, os) /\ ~Syncs(n, os) /\ ~(os = "windows" /\ n = 2)
    BY <1>1, <1>2, <1>3, <1>4, <1>9 DEF Links, Frees, Syncs
  <2>2. new = old
    BY <1>9 DEF AfterCall
  <2> QED
    BY <2>1, <2>2
<1> QED
  BY <1>5, <1>6, <1>7, <1>8, <1>9

(***************************************************************************)
(* ControllerIdentity, for any users, any number of keys and tidy-ups,     *)
(* and as many stops and losses of power as its property allows. The       *)
(* private key has its name on disk, or a stop is left for it to be lost   *)
(* (Unsynced), and nothing is returned of a key whose name is not there    *)
(* (Kept).                                                                 *)
(***************************************************************************)

Contents == Nat \cup {Torn}
MakingPublic == {"write_public", "link_public", "sync_public", "read_public"}
IdentitySteps == {"idle", "look", "keygen", "flush", "publish", "load"} \cup MakingPublic

FilesOf(ssh_) == IsDirectory(ssh_, Names, Contents)

IdentityTyped ==
  /\ platform \in {"linux", "macos", "windows"}
  /\ FilesOf(ssh)
  /\ at \in [Users -> IdentitySteps]
  /\ left \in [keys : Nat, stops : 0..MaxStops, tidy : Nat, losses : 0..MaxLosses]
  /\ inHand \in [Users -> [key : Contents \cup {None}, file : Nat \cup {None},
                          calls : Seq(CallKinds)]]

Exclusive == \A u \in Users : at[u] # "idle" => lock = u

Durable == ssh.disk[Private] = ssh.now[Private]

\* The file in hand is on disk, with the key in hand.
OnDisk(u) ==
  /\ inHand[u].file \in DOMAIN ssh.data /\ inHand[u].file \in ssh.synced
  /\ ssh.data[inHand[u].file] = inHand[u].key

\* What the user with the lock knows at each step.
UserKnows(u) ==
  /\ at[u] \in {"keygen", "flush"} => ~Has(ssh, Private)
  /\ at[u] \in {"keygen", "flush", "publish", "write_public", "link_public"} => ~Has(ssh, Public)
  /\ at[u] = "flush" =>
       /\ ssh.now[NewPrivate(u)] = inHand[u].file /\ inHand[u].file \in DOMAIN ssh.data
       /\ ssh.data[inHand[u].file] = inHand[u].key
       /\ inHand[u].calls = Publication(platform)
  /\ at[u] = "publish" =>
       /\ OnDisk(u)
       /\ IsRest(inHand[u].calls, platform)
       /\ Unlinked(Len(inHand[u].calls), platform) =>
            ssh.now[NewPrivate(u)] = inHand[u].file /\ ~Has(ssh, Private)
       /\ Linked(Len(inHand[u].calls), platform) =>
            ssh.now[NewPrivate(u)] = inHand[u].file /\ ssh.now[Private] = inHand[u].file
       /\ Named(Len(inHand[u].calls), platform) => ssh.now[Private] = inHand[u].file
  /\ at[u] \in MakingPublic => Has(ssh, Private) /\ Content(ssh, Private) = inHand[u].key
  /\ at[u] = "read_public" => Durable

Few == left.stops + 1 >= MaxStops

\* The name of the key is not on disk: between its two todo, or one stop is used up.
Unsynced ==
  /\ platform = "windows" => Durable
  /\ ~Durable => \/ left.stops + 1 <= MaxStops
                 \/ \E u \in Users : at[u] = "publish" /\ Len(inHand[u].calls) = 5
  /\ ~Durable /\ Few => \/ ~Has(ssh, Public)
                        \/ \E u \in Users : at[u] = "sync_public"
  /\ ssh.now[Private] # None => ssh.now[Private] \in ssh.synced
  /\ ssh.disk[Private] # None => ssh.disk[Private] \in ssh.synced

\* What was returned.
Kept ==
  /\ Bearable /\ returned # {} => Has(ssh, Private)
  /\ Few /\ returned # {} => Durable
  /\ OneKeyForEver

IdentityIInv ==
  IdentityTyped /\ Exclusive /\ (\A u \in Users : UserKnows(u)) /\ Unsynced /\ Kept

LEMMA NamesApart ==
  /\ Private \in Names /\ Public \in Names /\ Private # Public
  /\ \A u \in Users : /\ NewPrivate(u) \in Names /\ NewPublic(u) \in Names
                     /\ NewPrivate(u) \notin {Private, Public, NewPublic(u)}
                     /\ NewPublic(u) \notin {Private, Public}
BY DEF Private, Public, Names, NewPrivate, NewPublic

----------------------------------------------------------------------------
(* Every action. *)

\* A step that leaves the private key and its name alone, or syncs its name.
KeyUntouched ==
  /\ FilesOf(ssh')
  /\ ssh'.now[Private] = ssh.now[Private]
  /\ ssh'.disk[Private] \in {ssh.disk[Private], ssh.now[Private]}
  /\ ssh.synced \subseteq ssh'.synced
  /\ \A f \in DOMAIN ssh.data : f \in DOMAIN ssh'.data /\ ssh'.data[f] = ssh.data[f]

LEMMA SameKey ==
  ASSUME IdentityTyped, KeyUntouched
  PROVE  /\ Has(ssh', Private) = Has(ssh, Private)
         /\ Content(ssh', Private) = Content(ssh, Private)
         /\ Durable => Durable'
BY NamesApart DEF IdentityTyped, FilesOf, IsDirectory, KeyUntouched, Has, Content, Durable

LEMMA FilesCreated ==
  ASSUME FilesOf(ssh), NEW name \in Names, NEW content \in Contents,
         NEW new, new = Create(ssh, name, content)
  PROVE  /\ FilesOf(new)
         /\ new.now = [ssh.now EXCEPT ![name] = Len(ssh.data) + 1]
         /\ new.disk = ssh.disk /\ new.synced = ssh.synced
         /\ \A f \in DOMAIN ssh.data : f \in DOMAIN new.data /\ new.data[f] = ssh.data[f]
         /\ Len(ssh.data) + 1 \in DOMAIN new.data /\ new.data[Len(ssh.data) + 1] = content
         /\ Len(ssh.data) + 1 \in Nat
<1>1. IsDirectory(ssh, Names, Contents)
  BY DEF FilesOf
<1>2. IsDirectory(new, Names, Contents) /\ Added(ssh, new, name, content)
  BY <1>1, CreatedFiles
<1> QED
  BY <1>2 DEF FilesOf, Added

LEMMA OthersIdle ==
  ASSUME Exclusive, NEW u \in Users, at[u] # "idle"
  PROVE  lock = u /\ \A w \in Users \ {u} : at[w] = "idle"
BY DEF Exclusive

LEMMA IdleKnowsNothing ==
  ASSUME NEW w \in Users, at[w] = "idle"
  PROVE  UserKnows(w)
BY DEF UserKnows, MakingPublic

\* Somebody goes on to another step, the key and what was returned stay.
LEMMA GoesOn ==
  ASSUME IdentityIInv, NEW u \in Users, at[u] # "idle", NEW step \in IdentitySteps \ {"idle"},
         Go(u, step), KeyUntouched, UNCHANGED returned, left'.losses = left.losses,
         left'.stops = left.stops, inHand' \in [Users -> [key : Contents \cup {None},
                          file : Nat \cup {None}, calls : Seq(CallKinds)]],
         left' \in [keys : Nat, stops : 0..MaxStops, tidy : Nat, losses : 0..MaxLosses],
         Durable \/ left.stops + 1 <= MaxStops,
         ~Durable /\ Few => ~Has(ssh', Public) \/ Durable' \/ step = "sync_public",
         UserKnows(u)'
  PROVE  IdentityIInv'
<1>1. IdentityTyped'
  BY DEF IdentityIInv, IdentityTyped, Go, KeyUntouched
<1>2. Exclusive' /\ \A w \in Users \ {u} : at'[w] = "idle"
  BY OthersIdle DEF IdentityIInv, IdentityTyped, Exclusive, Go
<1>3. \A w \in Users : UserKnows(w)'
  BY <1>2 DEF UserKnows, MakingPublic
<1>4. /\ Has(ssh', Private) = Has(ssh, Private) /\ Content(ssh', Private) = Content(ssh, Private)
      /\ Durable => Durable'
  BY SameKey DEF IdentityIInv
<1>5. at'[u] = step
  BY DEF Go, IdentityIInv, IdentityTyped
<1>6. Unsynced'
  BY <1>4, <1>5 DEF Unsynced, IdentityIInv, Go, Few, KeyUntouched
<1>7. Kept'
  BY <1>4 DEF Kept, IdentityIInv, Few, Bearable, OneKeyForEver
<1> QED
  BY <1>1, <1>2, <1>3, <1>6, <1>7 DEF IdentityIInv

\* Somebody is done, with a key or without.
LEMMA Finishes ==
  ASSUME IdentityIInv, NEW u \in Users, at[u] # "idle", NEW directory, NEW keys,
         Finish(u, directory, keys), KeyUntouched,
         Durable \/ left.stops + 1 <= MaxStops,
         ~Durable /\ Few => ~Has(ssh', Public),
         keys \subseteq {Content(ssh, Private)},
         keys # {} => Has(ssh, Private) /\ (Few => Durable)
  PROVE  IdentityIInv'
<1>1. Empty \in [key : Contents \cup {None}, file : Nat \cup {None}, calls : Seq(CallKinds)]
  BY DEF Empty
<1>2. IdentityTyped'
  BY <1>1 DEF IdentityIInv, IdentityTyped, Finish, KeyUntouched, IdentitySteps
<1>3. \A w \in Users : at'[w] = "idle"
  BY OthersIdle DEF IdentityIInv, IdentityTyped, Finish
<1>4. Exclusive' /\ \A w \in Users : UserKnows(w)'
  BY <1>3 DEF Exclusive, UserKnows, MakingPublic
<1>5. /\ Has(ssh', Private) = Has(ssh, Private) /\ Content(ssh', Private) = Content(ssh, Private)
      /\ Durable => Durable'
  BY SameKey DEF IdentityIInv
<1>6. Unsynced'
  BY <1>5 DEF Unsynced, IdentityIInv, Finish, Few, KeyUntouched
<1>7. Kept'
  BY <1>5 DEF Kept, IdentityIInv, Few, Bearable, OneKeyForEver, Finish
<1> QED
  BY <1>2, <1>4, <1>6, <1>7 DEF IdentityIInv

\* A step that leaves the directory alone leaves the key alone.
LEMMA SameDirectory ==
  ASSUME IdentityTyped, UNCHANGED ssh
  PROVE  KeyUntouched
BY DEF IdentityTyped, FilesOf, IsDirectory, KeyUntouched

\* Off the todo of a publication, the name is on disk or a stop is left for it.
LEMMA OffTheCalls ==
  ASSUME IdentityIInv, NEW u \in Users, at[u] # "idle",
         at[u] # "publish" \/ Len(inHand[u].calls) # 5
  PROVE  /\ Durable \/ left.stops + 1 <= MaxStops
         /\ ~Durable /\ Few => ~Has(ssh, Public) \/ at[u] = "sync_public"
<1>1. \A w \in Users : at[w] \in {"publish", "sync_public"} => w = u
  BY OthersIdle DEF IdentityIInv
<1> QED
  BY <1>1 DEF IdentityIInv, Unsynced

LEMMA LockKeeps ==
  ASSUME IdentityIInv, NEW u \in Users, Lock(u)
  PROVE  IdentityIInv'
<1>1. \A w \in Users : at[w] = "idle"
  BY IdentityAssumption DEF IdentityIInv, Exclusive, Lock
<1>2. at' = [at EXCEPT ![u] = "look"] /\ lock' = u
      /\ UNCHANGED <<platform, ssh, inHand, returned, left>>
  BY DEF Lock
<1>3. IdentityTyped' /\ Exclusive'
  BY <1>1, <1>2 DEF IdentityIInv, IdentityTyped, IdentitySteps, Exclusive
<1>4. \A w \in Users : at'[w] \in {"idle", "look"}
  BY <1>1, <1>2 DEF IdentityIInv, IdentityTyped
<1>5. \A w \in Users : UserKnows(w)'
  BY <1>4 DEF UserKnows, MakingPublic
<1>6. Unsynced' /\ Kept'
  BY <1>1, <1>2 DEF IdentityIInv, Unsynced, Kept, Durable, Few, Bearable, OneKeyForEver
<1> QED
  BY <1>3, <1>5, <1>6 DEF IdentityIInv

LEMMA LookKeyKeeps ==
  ASSUME IdentityIInv, NEW u \in Users, Look(u)
  PROVE  IdentityIInv'
<1>1. at[u] = "look" /\ UNCHANGED ssh
  BY DEF Look, Refuse, Finish
<1>2. KeyUntouched
  BY <1>1, SameDirectory DEF IdentityIInv
<1>3. /\ Durable \/ left.stops + 1 <= MaxStops
      /\ ~Durable /\ Few => ~Has(ssh, Public)
  BY <1>1, OffTheCalls
<1>4. CASE Refuse(u)
  BY <1>1, <1>2, <1>3, <1>4, Finishes DEF Refuse
<1>5. CASE Go(u, "load") /\ UNCHANGED <<ssh, inHand, returned, left>>
  <2>1. at'[u] = "load"
    BY <1>5 DEF Go, IdentityIInv, IdentityTyped
  <2>2. UserKnows(u)'
    BY <2>1 DEF UserKnows, MakingPublic
  <2> QED
    BY <1>1, <1>2, <1>3, <1>5, <2>2, GoesOn DEF IdentityIInv, IdentityTyped, IdentitySteps
<1>6. CASE /\ ~ Has(ssh, Private) /\ ~ Has(ssh, Public)
           /\ Go(u, "keygen") /\ UNCHANGED <<ssh, inHand, returned, left>>
  <2>1. at'[u] = "keygen"
    BY <1>6 DEF Go, IdentityIInv, IdentityTyped
  <2>2. UserKnows(u)'
    BY <1>6, <2>1 DEF UserKnows, MakingPublic
  <2> QED
    BY <1>1, <1>2, <1>3, <1>6, <2>2, GoesOn DEF IdentityIInv, IdentityTyped, IdentitySteps
<1> QED
  BY <1>4, <1>5, <1>6 DEF Look

LEMMA KeygenKeeps ==
  ASSUME IdentityIInv, NEW u \in Users, Keygen(u)
  PROVE  IdentityIInv'
<1>1. at[u] = "keygen" /\ ~Has(ssh, Private) /\ ~Has(ssh, Public)
  BY DEF Keygen, IdentityIInv, UserKnows
<1>2. /\ Durable \/ left.stops + 1 <= MaxStops
      /\ ~Durable /\ Few => ~Has(ssh, Public)
  BY <1>1, OffTheCalls
<1>3. CASE Refuse(u)
  <2>1. UNCHANGED ssh
    BY <1>3 DEF Refuse, Finish
  <2>2. KeyUntouched
    BY <2>1, SameDirectory DEF IdentityIInv
  <2> QED
    BY <1>1, <1>2, <1>3, <2>1, <2>2, Finishes DEF Refuse
<1>4. CASE /\ ~ Has(ssh, NewPrivate(u)) /\ left.keys > 0
           /\ left' = [left EXCEPT !.keys = @ - 1]
           /\ ssh' = Create(ssh, NewPrivate(u), left.keys)
           /\ inHand' = [inHand EXCEPT ![u] = [key |-> left.keys, file |-> Len(ssh.data) + 1,
                                           calls |-> Publication(platform)]]
           /\ Go(u, "flush") /\ UNCHANGED returned
  <2>1. FilesOf(ssh) /\ left.keys \in Nat /\ left.keys \in Contents
        /\ left \in [keys : Nat, stops : 0..MaxStops, tidy : Nat, losses : 0..MaxLosses]
        /\ platform \in {"linux", "macos", "windows"}
    BY DEF IdentityIInv, IdentityTyped, Contents
  <2>2. /\ FilesOf(ssh')
        /\ ssh'.now = [ssh.now EXCEPT ![NewPrivate(u)] = Len(ssh.data) + 1]
        /\ ssh'.disk = ssh.disk /\ ssh'.synced = ssh.synced
        /\ \A f \in DOMAIN ssh.data : f \in DOMAIN ssh'.data /\ ssh'.data[f] = ssh.data[f]
        /\ Len(ssh.data) + 1 \in DOMAIN ssh'.data /\ ssh'.data[Len(ssh.data) + 1] = left.keys
        /\ Len(ssh.data) + 1 \in Nat
    BY <1>4, <2>1, NamesApart, FilesCreated
  <2>3. KeyUntouched
    BY <2>1, <2>2, NamesApart DEF KeyUntouched, FilesOf, IsDirectory
  <2>4. /\ left' \in [keys : Nat, stops : 0..MaxStops, tidy : Nat, losses : 0..MaxLosses]
        /\ left'.losses = left.losses /\ left'.stops = left.stops
    BY <1>4, <2>1
  <2>5. Publication(platform) \in Seq(CallKinds)
    BY <2>1, Publications DEF IsRest
  <2>6. /\ inHand' \in [Users -> [key : Contents \cup {None}, file : Nat \cup {None},
                                calls : Seq(CallKinds)]]
        /\ inHand'[u].key = left.keys /\ inHand'[u].file = Len(ssh.data) + 1
        /\ inHand'[u].calls = Publication(platform)
    BY <1>4, <2>1, <2>2, <2>5 DEF IdentityIInv, IdentityTyped
  <2>7. at'[u] = "flush" /\ platform' = platform
    BY <1>4 DEF Go, IdentityIInv, IdentityTyped
  <2>8. ssh'.now[NewPrivate(u)] = Len(ssh.data) + 1 /\ ~Has(ssh', Private) /\ ~Has(ssh', Public)
    BY <1>1, <2>1, <2>2, NamesApart DEF Has, FilesOf, IsDirectory
  <2>9. UserKnows(u)'
    BY <2>2, <2>6, <2>7, <2>8 DEF UserKnows, MakingPublic
  <2> QED
    BY <1>1, <1>2, <1>4, <2>3, <2>4, <2>6, <2>8, <2>9, GoesOn DEF IdentitySteps
<1> QED
  BY <1>3, <1>4 DEF Keygen

LEMMA FlushKeeps ==
  ASSUME IdentityIInv, NEW u \in Users, Flush(u)
  PROVE  IdentityIInv'
<1>1. /\ at[u] = "flush" /\ ssh' = SyncData(ssh, NewPrivate(u)) /\ Go(u, "publish")
      /\ UNCHANGED <<inHand, returned, left>>
  BY DEF Flush, Flushed
<1>2. /\ ~Has(ssh, Private) /\ ~Has(ssh, Public)
      /\ ssh.now[NewPrivate(u)] = inHand[u].file /\ inHand[u].file \in DOMAIN ssh.data
      /\ ssh.data[inHand[u].file] = inHand[u].key
      /\ inHand[u].calls = Publication(platform)
  BY <1>1 DEF IdentityIInv, UserKnows
<1>3. /\ Durable \/ left.stops + 1 <= MaxStops
      /\ ~Durable /\ Few => ~Has(ssh, Public)
  BY <1>1, OffTheCalls
<1>4. /\ FilesOf(ssh) /\ FilesOf(ssh') /\ ssh'.now = ssh.now /\ ssh'.disk = ssh.disk
      /\ ssh'.data = ssh.data /\ ssh'.synced = ssh.synced \cup {ssh.now[NewPrivate(u)]}
  <2>1. FilesOf(ssh)
    BY DEF IdentityIInv, IdentityTyped
  <2> QED
    <3>1. NewPrivate(u) \in Names
      BY NamesApart
    <3> QED
      BY <1>1, <2>1, <3>1, SyncedData DEF FilesOf
<1>5. KeyUntouched
  BY <1>4 DEF KeyUntouched
<1>6. at'[u] = "publish" /\ platform' = platform
  BY <1>1 DEF Go, IdentityIInv, IdentityTyped
<1>7. OnDisk(u)'
  BY <1>1, <1>2, <1>4 DEF OnDisk
<1>8. /\ IsRest(inHand'[u].calls, platform')
      /\ Len(inHand'[u].calls) = IF platform' = "windows" THEN 3 ELSE 7
  BY <1>1, <1>2, <1>6, Publications, CallNames DEF IdentityIInv, IdentityTyped
<1>9. ~Has(ssh', Private) /\ ~Has(ssh', Public)
  BY <1>2, <1>4 DEF Has
<1>10. UserKnows(u)'
  BY <1>1, <1>2, <1>4, <1>6, <1>7, <1>8, <1>9 DEF UserKnows, MakingPublic, Unlinked, Linked, Named
<1> QED
  BY <1>1, <1>3, <1>5, <1>9, <1>10, GoesOn DEF IdentitySteps, IdentityIInv, IdentityTyped

LEMMA KeyCalled ==
  ASSUME IdentityTyped, NEW u \in Users, NEW n, NEW call,
         n \in 1..Len(AllCalls(platform)), call = AllCalls(platform)[n],
         ssh' = AfterCall(ssh, call, NewPrivate(u), Private)
  PROVE  /\ FilesOf(ssh') /\ ssh'.data = ssh.data /\ ssh'.synced = ssh.synced
         /\ ssh'.now[Private] = IF Links(n, platform) THEN ssh.now[NewPrivate(u)] ELSE ssh.now[Private]
         /\ ssh'.now[NewPrivate(u)] =
              IF Frees(n, platform) THEN None ELSE ssh.now[NewPrivate(u)]
         /\ ssh'.now[Public] = ssh.now[Public]
         /\ ssh'.disk[Private] = IF Syncs(n, platform) THEN ssh.now[Private]
                                ELSE IF platform = "windows" /\ n = 2 THEN ssh.now[NewPrivate(u)]
                                ELSE ssh.disk[Private]
<1>1. IsDirectory(ssh, Names, Contents)
  BY DEF IdentityTyped, FilesOf, IsDirectory
<1>2. /\ NewPrivate(u) \in Names /\ Private \in Names /\ NewPrivate(u) # Private
      /\ Public \in Names \ {NewPrivate(u), Private}
  BY NamesApart
<1> QED
  BY <1>1, <1>2, Called DEF FilesOf

LEMMA PublishKeyKeeps ==
  ASSUME IdentityIInv, NEW u \in Users, PublishKey(u)
  PROVE  IdentityIInv'
<1> DEFINE todo == inHand[u].calls
           n == Len(todo)
           step == IF Tail(todo) = <<>> THEN "write_public" ELSE "publish"
<1>1. /\ at[u] = "publish" /\ OnDisk(u) /\ IsRest(todo, platform) /\ ~Has(ssh, Public)
      /\ Unlinked(n, platform) => ssh.now[NewPrivate(u)] = inHand[u].file /\ ~Has(ssh, Private)
      /\ Linked(n, platform) => /\ ssh.now[NewPrivate(u)] = inHand[u].file
                               /\ ssh.now[Private] = inHand[u].file
      /\ Named(n, platform) => ssh.now[Private] = inHand[u].file
  BY DEF PublishKey, IdentityIInv, UserKnows
<1>2. /\ n \in Nat \ {0} /\ Head(todo) = AllCalls(platform)[n]
      /\ n \in 1..Len(AllCalls(platform))
      /\ n = 1 => Tail(todo) = <<>>
      /\ n # 1 => /\ Tail(todo) # <<>> /\ IsRest(Tail(todo), platform)
                  /\ Len(Tail(todo)) = n - 1
      /\ Tail(todo) \in Seq(CallKinds) /\ todo # <<>>
  <2>1. Len(AllCalls(platform)) \in Nat
    BY CallNames
  <2>2. n \in 1..Len(AllCalls(platform))
    BY <1>1 DEF IsRest
  <2> QED
    BY <1>1, <2>1, <2>2, RestOf
<1>3. n = 5 => Head(todo) = "sync"
  BY <1>2, CallNames
<1> HIDE DEF todo, n
<1>4. CASE /\ ssh' = AfterCall(ssh, Head(todo), NewPrivate(u), Private)
           /\ inHand' = [inHand EXCEPT ![u].calls = Tail(todo)]
           /\ Go(u, step) /\ UNCHANGED <<returned, left>>
  <2>1. /\ FilesOf(ssh') /\ ssh'.data = ssh.data /\ ssh'.synced = ssh.synced
        /\ ssh'.now[Private] = IF Links(n, platform) THEN ssh.now[NewPrivate(u)] ELSE ssh.now[Private]
        /\ ssh'.now[NewPrivate(u)] =
             IF Frees(n, platform) THEN None ELSE ssh.now[NewPrivate(u)]
        /\ ssh'.now[Public] = ssh.now[Public]
        /\ ssh'.disk[Private] = IF Syncs(n, platform) THEN ssh.now[Private]
                               ELSE IF platform = "windows" /\ n = 2 THEN ssh.now[NewPrivate(u)]
                               ELSE ssh.disk[Private]
    BY <1>2, <1>4, KeyCalled DEF IdentityIInv
  <2>2. /\ inHand' \in [Users -> [key : Contents \cup {None}, file : Nat \cup {None},
                                calls : Seq(CallKinds)]]
        /\ inHand'[u].key = inHand[u].key /\ inHand'[u].file = inHand[u].file
        /\ inHand'[u].calls = Tail(todo)
    BY <1>2, <1>4 DEF IdentityIInv, IdentityTyped
  <2>3. at'[u] = step /\ platform' = platform /\ at' = [at EXCEPT ![u] = step] /\ lock' = lock
    BY <1>4 DEF Go, IdentityIInv, IdentityTyped
  <2>4. step = IF n = 1 THEN "write_public" ELSE "publish"
    BY <1>2
  <2> HIDE DEF step
  <2>5. IdentityTyped'
    BY <1>4, <2>1, <2>2, <2>3, <2>4 DEF IdentityIInv, IdentityTyped, IdentitySteps, MakingPublic
  <2>6. Exclusive' /\ \A w \in Users \ {u} : at'[w] = "idle"
    BY <1>1, <2>3, OthersIdle DEF IdentityIInv, IdentityTyped, Exclusive
  <2>7. OnDisk(u)' /\ ~Has(ssh', Public)
    BY <1>1, <1>4, <2>1, <2>2 DEF OnDisk, Has
  <2>8. /\ platform = "windows" => n \in {1, 2, 3}
        /\ platform # "windows" => n \in {1, 2, 3, 4, 5, 6, 7}
    BY <1>2, CallNames
  <2>9. n # 1 => /\ Unlinked(n - 1, platform) =>
                      ssh'.now[NewPrivate(u)] = inHand[u].file /\ ~Has(ssh', Private)
                 /\ Linked(n - 1, platform) => /\ ssh'.now[NewPrivate(u)] = inHand[u].file
                                              /\ ssh'.now[Private] = inHand[u].file
                 /\ Named(n - 1, platform) => ssh'.now[Private] = inHand[u].file
    BY <1>1, <2>1, <2>8 DEF Unlinked, Linked, Named, Links, Frees, Has
  <2>10. n = 1 => ssh'.now[Private] = inHand[u].file
    BY <1>1, <2>1, <2>8 DEF Named, Links
  <2>11. inHand[u].file # None
    BY <1>1, IdentityAssumption, LenProperties DEF OnDisk, IdentityIInv, IdentityTyped, FilesOf, IsDirectory
  <2>12. UserKnows(u)'
    <3>1. CASE n = 1
      <4>1. Has(ssh', Private) /\ Content(ssh', Private) = inHand'[u].key
        BY <1>1, <2>1, <2>2, <2>10, <2>11, <3>1 DEF Has, Content, OnDisk
      <4> QED
        BY <2>3, <2>4, <2>7, <3>1, <4>1 DEF UserKnows, MakingPublic
    <3>2. CASE n # 1
      <4>1. IsRest(inHand'[u].calls, platform') /\ Len(inHand'[u].calls) = n - 1
        BY <1>2, <2>2, <2>3, <3>2
      <4> QED
        BY <2>2, <2>3, <2>4, <2>7, <2>9, <3>2, <4>1 DEF UserKnows, MakingPublic
    <3> QED
      BY <3>1, <3>2
  <2>13. \A w \in Users : UserKnows(w)'
    BY <2>6, <2>12 DEF UserKnows, MakingPublic
  <2>14. /\ platform = "windows" => Durable'
         /\ n = 5 /\ platform # "windows" => Durable'
         /\ ~Links(n, platform) /\ Durable => Durable'
    BY <2>1, <2>8 DEF Durable, Links, Syncs, IdentityIInv, Unsynced
  <2>15. ~Durable' => \/ left.stops + 1 <= MaxStops
                        \/ \E w \in Users : at'[w] = "publish" /\ Len(inHand'[w].calls) = 5
    <3>1. CASE Links(n, platform) /\ platform # "windows"
      <4>1. n = 6
        BY <3>1 DEF Links
      <4>2. Len(Tail(todo)) = 5
        BY <1>2, <4>1
      <4>3. at'[u] = "publish" /\ Len(inHand'[u].calls) = 5
        BY <2>2, <2>3, <2>4, <4>1, <4>2
      <4> QED
        BY <4>3
    <3>2. CASE ~Links(n, platform) \/ platform = "windows"
      <4>1. ~Durable' => ~Durable /\ n # 5
        BY <2>14, <3>2, <2>8
      <4> QED
        BY <1>1, <4>1, OffTheCalls DEF n, todo
    <3> QED
      BY <3>1, <3>2
  <2>16. /\ ssh'.now[Private] # None => ssh'.now[Private] \in ssh'.synced
         /\ ssh'.disk[Private] # None => ssh'.disk[Private] \in ssh'.synced
    BY <1>1, <2>1, <2>8 DEF OnDisk, IdentityIInv, Unsynced, Links, Syncs, Unlinked
  <2>17. Unsynced'
    BY <1>4, <2>3, <2>7, <2>14, <2>15, <2>16 DEF Unsynced
  <2>18. Kept'
    <3>1. CASE Links(n, platform)
      <4>1. ~Has(ssh, Private)
        BY <1>1, <3>1, <2>8 DEF Links, Unlinked
      <4>2. Bearable' => returned = {}
        BY <1>4, <4>1 DEF IdentityIInv, Kept, Bearable
      <4>3. Few' => Bearable'
        BY DEF Few, Bearable
      <4> QED
        BY <1>4, <4>2, <4>3 DEF Kept, OneKeyForEver
    <3>2. CASE ~Links(n, platform)
      <4>1. Has(ssh', Private) = Has(ssh, Private) /\ Content(ssh', Private) = Content(ssh, Private)
        BY <2>1, <3>2 DEF Has, Content
      <4> QED
        BY <1>4, <2>14, <3>2, <4>1 DEF IdentityIInv, Kept, Few, Bearable, OneKeyForEver
    <3> QED
      BY <3>1, <3>2
  <2> QED
    BY <2>5, <2>6, <2>13, <2>17, <2>18 DEF IdentityIInv
<1>5. CASE /\ Refused(ssh, Head(todo), Private)
           /\ Go(u, "load") /\ UNCHANGED <<ssh, inHand, returned, left>>
  <2>1. n # 5
    BY <1>3, <1>5 DEF Refused
  <2>2. /\ Durable \/ left.stops + 1 <= MaxStops
        /\ ~Durable /\ Few => ~Has(ssh, Public)
    BY <1>1, <2>1, OffTheCalls DEF n, todo
  <2>3. KeyUntouched
    BY <1>5, SameDirectory DEF IdentityIInv
  <2>4. at'[u] = "load"
    BY <1>5 DEF Go, IdentityIInv, IdentityTyped
  <2>5. UserKnows(u)'
    BY <2>4 DEF UserKnows, MakingPublic
  <2> QED
    BY <1>1, <1>5, <2>2, <2>3, <2>5, GoesOn DEF IdentityIInv, IdentityTyped, IdentitySteps
<1>6. CASE /\ ~CallSucceeds(ssh, Head(todo), NewPrivate(u), Private, inHand[u].file)
           /\ ~Refused(ssh, Head(todo), Private) /\ Refuse(u)
  <2>1. n # 5
    BY <1>3, <1>6 DEF CallSucceeds
  <2>2. /\ Durable \/ left.stops + 1 <= MaxStops
        /\ ~Durable /\ Few => ~Has(ssh, Public)
    BY <1>1, <2>1, OffTheCalls DEF n, todo
  <2>3. UNCHANGED ssh
    BY <1>6 DEF Refuse, Finish
  <2>4. KeyUntouched
    BY <2>3, SameDirectory DEF IdentityIInv
  <2> QED
    BY <1>1, <1>6, <2>2, <2>3, <2>4, Finishes DEF Refuse
<1> QED
  BY <1>4, <1>5, <1>6 DEF PublishKey, todo

LEMMA LoadKeeps ==
  ASSUME IdentityIInv, NEW u \in Users, Load(u)
  PROVE  IdentityIInv'
<1> DEFINE key == Content(ssh, Private)
<1>1. at[u] = "load" /\ UNCHANGED ssh
  BY DEF Load, Refuse, Return, Finish
<1>2. KeyUntouched
  BY <1>1, SameDirectory DEF IdentityIInv
<1>3. /\ Durable \/ left.stops + 1 <= MaxStops
      /\ ~Durable /\ Few => ~Has(ssh, Public)
  BY <1>1, OffTheCalls
<1>4. FilesOf(ssh)
  BY DEF IdentityIInv, IdentityTyped
<1>5. CASE Refuse(u)
  BY <1>1, <1>2, <1>3, <1>5, Finishes DEF Refuse
<1>6. CASE key \notin {Torn, None} /\ Content(ssh, Public) = key /\ Return(u, key)
  <2>1. Has(ssh, Private) /\ Has(ssh, Public)
    BY <1>6 DEF Content
  <2>2. Few => Durable
    BY <1>3, <2>1
  <2> QED
    BY <1>1, <1>2, <1>3, <1>6, <2>1, <2>2, Finishes DEF Return
<1>7. CASE /\ key \notin {Torn, None} /\ ~ Has(ssh, Public)
           /\ inHand' = [inHand EXCEPT ![u].key = key]
           /\ Go(u, "write_public") /\ UNCHANGED <<ssh, returned, left>>
  <2>1. Has(ssh, Private) /\ key \in Contents
    BY <1>4, <1>7, NamesApart, ElementOfSeq, LenProperties DEF Content, FilesOf, IsDirectory, Has
  <2>2. /\ inHand' \in [Users -> [key : Contents \cup {None}, file : Nat \cup {None},
                                calls : Seq(CallKinds)]]
        /\ inHand'[u].key = key
    BY <1>7, <2>1 DEF IdentityIInv, IdentityTyped
  <2>3. at'[u] = "write_public"
    BY <1>7 DEF Go, IdentityIInv, IdentityTyped
  <2>4. UserKnows(u)'
    BY <1>7, <2>1, <2>2, <2>3 DEF UserKnows, MakingPublic
  <2> QED
    BY <1>1, <1>2, <1>3, <1>7, <2>2, <2>4, GoesOn
       DEF IdentityIInv, IdentityTyped, IdentitySteps, MakingPublic
<1> QED
  BY <1>5, <1>6, <1>7 DEF Load

LEMMA WritePublicKeeps ==
  ASSUME IdentityIInv, NEW u \in Users, WritePublic(u)
  PROVE  IdentityIInv'
<1>1. /\ at[u] = "write_public" /\ ~Has(ssh, Public)
      /\ Has(ssh, Private) /\ Content(ssh, Private) = inHand[u].key
  BY DEF WritePublic, IdentityIInv, UserKnows, MakingPublic
<1>2. /\ Durable \/ left.stops + 1 <= MaxStops
      /\ ~Durable /\ Few => ~Has(ssh, Public)
  BY <1>1, OffTheCalls
<1>3. FilesOf(ssh)
  BY DEF IdentityIInv, IdentityTyped
<1>4. CASE Refuse(u)
  <2>1. UNCHANGED ssh
    BY <1>4 DEF Refuse, Finish
  <2>2. KeyUntouched
    BY <2>1, SameDirectory DEF IdentityIInv
  <2> QED
    BY <1>1, <1>2, <1>4, <2>1, <2>2, Finishes DEF Refuse
<1>5. CASE /\ ssh' = SyncData(Create(ssh, NewPublic(u), inHand[u].key), NewPublic(u))
           /\ Go(u, "link_public") /\ UNCHANGED <<inHand, returned, left>>
  <2>1. inHand[u].key \in Contents /\ NewPublic(u) \in Names
    BY <1>1, <1>3, NamesApart, ElementOfSeq, LenProperties DEF Content, FilesOf, IsDirectory, Has
  <2>2. PICK new : new = Create(ssh, NewPublic(u), inHand[u].key)
    OBVIOUS
  <2>3. /\ FilesOf(new)
        /\ new.now = [ssh.now EXCEPT ![NewPublic(u)] = Len(ssh.data) + 1]
        /\ new.disk = ssh.disk /\ new.synced = ssh.synced
        /\ \A f \in DOMAIN ssh.data : f \in DOMAIN new.data /\ new.data[f] = ssh.data[f]
    BY <1>3, <2>1, <2>2, FilesCreated
  <2>4. ssh' = SyncData(new, NewPublic(u))
    BY <1>5, <2>2
  <2>5. /\ FilesOf(ssh') /\ ssh'.now = new.now /\ ssh'.disk = new.disk /\ ssh'.data = new.data
        /\ ssh'.synced = new.synced \cup {new.now[NewPublic(u)]}
    BY <2>1, <2>3, <2>4 DEF FilesOf, IsDirectory, SyncData
  <2>6. ssh'.now[Private] = ssh.now[Private] /\ ssh'.now[Public] = ssh.now[Public]
    BY <1>3, <2>3, <2>5, NamesApart DEF FilesOf, IsDirectory
  <2>7. KeyUntouched
    BY <2>3, <2>5, <2>6 DEF KeyUntouched
  <2>8. /\ Has(ssh', Private) /\ Content(ssh', Private) = inHand[u].key /\ ~Has(ssh', Public)
    BY <1>1, <2>6, <2>7, SameKey DEF IdentityIInv, Has
  <2>9. at'[u] = "link_public"
    BY <1>5 DEF Go, IdentityIInv, IdentityTyped
  <2>10. UserKnows(u)'
    BY <1>5, <2>8, <2>9 DEF UserKnows, MakingPublic
  <2> QED
    BY <1>1, <1>2, <1>5, <2>7, <2>8, <2>10, GoesOn
       DEF IdentityIInv, IdentityTyped, IdentitySteps, MakingPublic
<1> QED
  BY <1>4, <1>5 DEF WritePublic

LEMMA LinkPublicKeeps ==
  ASSUME IdentityIInv, NEW u \in Users, LinkPublic(u)
  PROVE  IdentityIInv'
<1>1. /\ at[u] = "link_public" /\ ~Has(ssh, Public)
      /\ Has(ssh, Private) /\ Content(ssh, Private) = inHand[u].key
  BY DEF LinkPublic, IdentityIInv, UserKnows, MakingPublic
<1>2. Durable \/ left.stops + 1 <= MaxStops
  BY <1>1, OffTheCalls
<1>3. FilesOf(ssh) /\ NewPublic(u) \in Names
  BY NamesApart DEF IdentityIInv, IdentityTyped
<1>4. /\ ssh' = Bound(ssh, Public, ssh.now[NewPublic(u)])
      /\ Go(u, "sync_public") /\ UNCHANGED <<inHand, returned, left>>
  BY <1>1 DEF LinkPublic
<1>5. /\ FilesOf(ssh') /\ ssh'.now = [ssh.now EXCEPT ![Public] = ssh.now[NewPublic(u)]]
      /\ ssh'.disk = ssh.disk /\ ssh'.data = ssh.data /\ ssh'.synced = ssh.synced
  <2>1. Public \in Names /\ ssh.now[NewPublic(u)] \in {None} \cup DOMAIN ssh.data
    BY <1>3, NamesApart DEF FilesOf, IsDirectory
  <2> QED
    BY <1>3, <1>4, <2>1, BoundFiles DEF FilesOf
<1>6. KeyUntouched
  BY <1>3, <1>5, NamesApart DEF KeyUntouched, FilesOf, IsDirectory
<1>7. Has(ssh', Private) /\ Content(ssh', Private) = inHand[u].key
  BY <1>1, <1>6, SameKey DEF IdentityIInv
<1>8. at'[u] = "sync_public"
  BY <1>4 DEF Go, IdentityIInv, IdentityTyped
<1>9. UserKnows(u)'
  BY <1>4, <1>7, <1>8 DEF UserKnows, MakingPublic
<1> QED
  BY <1>1, <1>2, <1>4, <1>6, <1>9, GoesOn DEF IdentityIInv, IdentityTyped, IdentitySteps, MakingPublic

LEMMA SyncPublicKeeps ==
  ASSUME IdentityIInv, NEW u \in Users, SyncPublic(u)
  PROVE  IdentityIInv'
<1>1. /\ at[u] = "sync_public" /\ Has(ssh, Private) /\ Content(ssh, Private) = inHand[u].key
      /\ ssh' = SyncParent(platform, ssh)
      /\ Go(u, "read_public") /\ UNCHANGED <<inHand, returned, left>>
  BY DEF SyncPublic, IdentityIInv, UserKnows, MakingPublic
<1>2. Durable \/ left.stops + 1 <= MaxStops
  BY <1>1, OffTheCalls
<1>3. FilesOf(ssh)
  BY DEF IdentityIInv, IdentityTyped
<1>4. KeyUntouched /\ Durable'
  <2>1. CASE platform = "windows"
    <3>1. UNCHANGED ssh
      BY <1>1, <2>1 DEF SyncParent
    <3> QED
      BY <2>1, <3>1, SameDirectory DEF IdentityIInv, Unsynced, Durable
  <2>2. CASE platform # "windows"
    <3>1. ssh' = SyncNames(ssh)
      BY <1>1, <2>2 DEF SyncParent
    <3>2. /\ FilesOf(ssh') /\ ssh'.now = ssh.now /\ ssh'.disk = ssh.now /\ ssh'.data = ssh.data
          /\ ssh'.synced = ssh.synced
      BY <1>3, <3>1, SyncedNames DEF FilesOf
    <3> QED
      BY <3>2 DEF KeyUntouched, Durable
  <2> QED
    BY <2>1, <2>2
<1>5. Has(ssh', Private) /\ Content(ssh', Private) = inHand[u].key
  BY <1>1, <1>4, SameKey DEF IdentityIInv
<1>6. at'[u] = "read_public"
  BY <1>1 DEF Go, IdentityIInv, IdentityTyped
<1>7. UserKnows(u)'
  BY <1>1, <1>4, <1>5, <1>6 DEF UserKnows, MakingPublic
<1> QED
  BY <1>1, <1>2, <1>4, <1>7, GoesOn DEF IdentityIInv, IdentityTyped, IdentitySteps, MakingPublic

LEMMA ReadPublicKeeps ==
  ASSUME IdentityIInv, NEW u \in Users, ReadPublic(u)
  PROVE  IdentityIInv'
<1>1. /\ at[u] = "read_public" /\ Durable
      /\ Has(ssh, Private) /\ Content(ssh, Private) = inHand[u].key
  BY DEF ReadPublic, IdentityIInv, UserKnows, MakingPublic
<1>2. FilesOf(ssh) /\ NewPublic(u) \in Names
  BY NamesApart DEF IdentityIInv, IdentityTyped
<1>3. CASE Refuse(u)
  <2>1. UNCHANGED ssh
    BY <1>3 DEF Refuse, Finish
  <2>2. KeyUntouched
    BY <2>1, SameDirectory DEF IdentityIInv
  <2> QED
    BY <1>1, <1>3, <2>1, <2>2, Finishes DEF Refuse
<1>4. CASE Finish(u, Bound(ssh, NewPublic(u), None), {inHand[u].key})
  <2>1. ssh' = Bound(ssh, NewPublic(u), None)
    BY <1>4 DEF Finish
  <2>2. /\ FilesOf(ssh') /\ ssh'.now = [ssh.now EXCEPT ![NewPublic(u)] = None]
        /\ ssh'.disk = ssh.disk /\ ssh'.data = ssh.data /\ ssh'.synced = ssh.synced
    BY <1>2, <2>1, BoundFiles DEF FilesOf
  <2>3. KeyUntouched
    BY <1>2, <2>2, NamesApart DEF KeyUntouched, FilesOf, IsDirectory
  <2> QED
    BY <1>1, <1>4, <2>3, Finishes
<1> QED
  BY <1>3, <1>4 DEF ReadPublic

LEMMA UserStepKeeps ==
  ASSUME IdentityIInv, NEW u \in Users, UserStep(u)
  PROVE  IdentityIInv'
BY LockKeeps, LookKeyKeeps, KeygenKeeps, FlushKeeps, PublishKeyKeeps, LoadKeeps, WritePublicKeeps,
   LinkPublicKeeps, SyncPublicKeeps, ReadPublicKeeps DEF UserStep

LEMMA StopKeeps ==
  ASSUME IdentityIInv, NEW u \in Users, Stop(u)
  PROVE  IdentityIInv'
<1>1. /\ at[u] # "idle" /\ left.stops > 0
      /\ at' = [at EXCEPT ![u] = "idle"] /\ inHand' = [inHand EXCEPT ![u] = Empty]
      /\ lock' = None /\ left' = [left EXCEPT !.stops = @ - 1]
      /\ UNCHANGED <<platform, ssh, returned>>
  BY DEF Stop
<1>2. left \in [keys : Nat, stops : 0..MaxStops, tidy : Nat, losses : 0..MaxLosses]
  BY DEF IdentityIInv, IdentityTyped
<1>3. /\ left' \in [keys : Nat, stops : 0..MaxStops, tidy : Nat, losses : 0..MaxLosses]
      /\ left'.stops = left.stops - 1 /\ left'.losses = left.losses
      /\ left.stops \in 0..MaxStops /\ MaxStops \in Nat
  BY <1>1, <1>2, IdentityAssumption
<1>4. Empty \in [key : Contents \cup {None}, file : Nat \cup {None}, calls : Seq(CallKinds)]
  BY DEF Empty
<1>5. IdentityTyped'
  BY <1>1, <1>3, <1>4 DEF IdentityIInv, IdentityTyped, IdentitySteps
<1>6. \A w \in Users : at'[w] = "idle"
  BY <1>1, OthersIdle DEF IdentityIInv, IdentityTyped
<1>7. Exclusive' /\ \A w \in Users : UserKnows(w)'
  BY <1>6 DEF Exclusive, UserKnows, MakingPublic
<1>8. Few' => Few /\ left.stops = MaxStops
  BY <1>3, IdentityAssumption DEF Few
<1>9. Unsynced'
  <2>1. ASSUME ~Durable, Few'  PROVE ~Has(ssh, Public)
    <3>1. PICK w \in Users : at[w] = "publish"
      BY <1>3, <1>8, <2>1 DEF IdentityIInv, Unsynced
    <3>2. ~Has(ssh, Public)
      BY <3>1 DEF IdentityIInv, UserKnows
    <3> QED
      BY <3>2
  <2>2. left'.stops + 1 <= MaxStops
    BY <1>3
  <2> QED
    BY <1>1, <2>1, <2>2 DEF IdentityIInv, Unsynced, Durable
<1>10. Kept'
  BY <1>1, <1>3, <1>8 DEF IdentityIInv, Kept, Bearable, Few, Durable, OneKeyForEver
<1> QED
  BY <1>5, <1>7, <1>9, <1>10 DEF IdentityIInv

LEMMA PowerLossKeeps ==
  ASSUME IdentityIInv, PowerLoss
  PROVE  IdentityIInv'
<1>1. /\ left.losses > 0 /\ left' = [left EXCEPT !.losses = @ - 1]
      /\ ssh' \in AfterPowerLoss(ssh)
      /\ at' = [u \in Users |-> "idle"] /\ inHand' = [u \in Users |-> Empty]
      /\ lock' = None /\ UNCHANGED <<platform, returned>>
  BY DEF PowerLoss
<1>2. FilesOf(ssh) /\ Private \in Names
  BY NamesApart DEF IdentityIInv, IdentityTyped
<1>3. PICK names \in [DOMAIN ssh.now -> {None} \cup DOMAIN ssh.data] :
         /\ \A n \in DOMAIN names : names[n] \in {ssh.now[n], ssh.disk[n]}
         /\ ssh' = [now |-> names, disk |-> names, synced |-> ssh.synced,
                   data |-> [f \in DOMAIN ssh.data |->
                               IF f \in ssh.synced THEN ssh.data[f] ELSE Torn]]
  BY <1>1 DEF AfterPowerLoss
<1>4. PICK data : data = [f \in DOMAIN ssh.data |-> IF f \in ssh.synced THEN ssh.data[f] ELSE Torn]
  OBVIOUS
<1>5. ssh' = [now |-> names, disk |-> names, synced |-> ssh.synced, data |-> data]
  BY <1>3, <1>4
<1>6. data \in Seq(Contents) /\ DOMAIN data = DOMAIN ssh.data
  <2>1. /\ Len(ssh.data) \in Nat /\ DOMAIN ssh.data = 1..Len(ssh.data)
        /\ \A f \in 1..Len(ssh.data) : ssh.data[f] \in Contents
    BY <1>2, LenProperties, ElementOfSeq DEF FilesOf, IsDirectory
  <2>2. data \in [1..Len(ssh.data) -> Contents]
    BY <1>4, <2>1 DEF Contents
  <2> QED
    BY <1>4, <2>1, <2>2, SeqDef
<1>7. DOMAIN ssh.now = Names /\ names \in [Names -> {None} \cup DOMAIN data]
  BY <1>2, <1>3, <1>6 DEF FilesOf, IsDirectory
<1>8. FilesOf(ssh') /\ ssh'.now = names /\ ssh'.disk = names /\ ssh'.data = data
      /\ ssh'.synced = ssh.synced
  BY <1>5, <1>6, <1>7 DEF FilesOf, IsDirectory
<1>9. /\ left' \in [keys : Nat, stops : 0..MaxStops, tidy : Nat, losses : 0..MaxLosses]
      /\ left'.stops = left.stops /\ left'.losses # MaxLosses
  <2>1. left \in [keys : Nat, stops : 0..MaxStops, tidy : Nat, losses : 0..MaxLosses]
    BY DEF IdentityIInv, IdentityTyped
  <2>2. /\ left.losses - 1 \in 0..MaxLosses /\ left.losses - 1 # MaxLosses
    BY <1>1, <2>1, IdentityAssumption
  <2> QED
    BY <1>1, <2>1, <2>2
<1>10. Empty \in [key : Contents \cup {None}, file : Nat \cup {None}, calls : Seq(CallKinds)]
  BY DEF Empty
<1>11. IdentityTyped'
  BY <1>1, <1>8, <1>9, <1>10 DEF IdentityIInv, IdentityTyped, IdentitySteps
<1>12. Exclusive' /\ \A w \in Users : UserKnows(w)'
  BY <1>1 DEF Exclusive, UserKnows, MakingPublic
<1>13. names[Private] \in {ssh.now[Private], ssh.disk[Private]} /\ Durable'
  BY <1>2, <1>3, <1>7, <1>8 DEF Durable
<1>14. Unsynced'
  BY <1>8, <1>13 DEF Unsynced, IdentityIInv
<1>15. Kept'
  <2>1. Bearable' => Few /\ Bearable
    BY <1>9 DEF Bearable, Few
  <2>2. ASSUME Few, returned # {}
        PROVE  Has(ssh', Private) /\ Content(ssh', Private) = Content(ssh, Private)
    <3>1. Durable /\ Has(ssh, Private) /\ ssh.now[Private] \in ssh.synced
      BY <2>2 DEF IdentityIInv, Kept, Unsynced, Few, Bearable, Has
    <3>2. names[Private] = ssh.now[Private] /\ ssh.now[Private] \in DOMAIN ssh.data
      BY <1>2, <1>13, <3>1 DEF Durable, FilesOf, IsDirectory, Has
    <3>3. data[ssh.now[Private]] = ssh.data[ssh.now[Private]]
      BY <1>4, <3>1, <3>2
    <3> QED
      BY <1>8, <3>1, <3>2, <3>3 DEF Has, Content
  <2> QED
    BY <1>1, <1>13, <2>1, <2>2 DEF IdentityIInv, Kept, OneKeyForEver
<1> QED
  BY <1>11, <1>12, <1>14, <1>15 DEF IdentityIInv

LEMMA RemovePublicKeeps ==
  ASSUME IdentityIInv, RemovePublic
  PROVE  IdentityIInv'
<1>1. /\ ssh' = Bound(ssh, Public, None) /\ left.tidy > 0
      /\ left' = [left EXCEPT !.tidy = @ - 1]
      /\ UNCHANGED <<platform, lock, at, inHand, returned>>
  BY DEF RemovePublic
<1>2. FilesOf(ssh)
  BY DEF IdentityIInv, IdentityTyped
<1>3. /\ FilesOf(ssh') /\ ssh'.now = [ssh.now EXCEPT ![Public] = None]
      /\ ssh'.disk = ssh.disk /\ ssh'.data = ssh.data /\ ssh'.synced = ssh.synced
  BY <1>1, <1>2, NamesApart, BoundFiles DEF FilesOf
<1>4. /\ KeyUntouched /\ ~Has(ssh', Public)
      /\ \A w \in Users : ssh'.now[NewPrivate(w)] = ssh.now[NewPrivate(w)]
  BY <1>2, <1>3, NamesApart DEF KeyUntouched, FilesOf, IsDirectory, Has
<1>5. /\ Has(ssh', Private) = Has(ssh, Private) /\ Content(ssh', Private) = Content(ssh, Private)
      /\ Durable' = Durable
  BY <1>3, <1>4, SameKey DEF IdentityIInv, Durable, KeyUntouched
<1>6. /\ left' \in [keys : Nat, stops : 0..MaxStops, tidy : Nat, losses : 0..MaxLosses]
      /\ left'.stops = left.stops /\ left'.losses = left.losses
  BY <1>1 DEF IdentityIInv, IdentityTyped
<1>7. IdentityTyped' /\ Exclusive'
  BY <1>1, <1>3, <1>6 DEF IdentityIInv, IdentityTyped, Exclusive
<1>8. ASSUME NEW w \in Users  PROVE UserKnows(w)'
  <2>1. OnDisk(w)' = OnDisk(w) /\ UserKnows(w) /\ ssh'.now[Private] = ssh.now[Private]
    BY <1>1, <1>3, <1>4 DEF OnDisk, IdentityIInv, KeyUntouched
  <2>2. /\ at[w] \in {"keygen", "flush"} => ~Has(ssh', Private)
        /\ at[w] = "flush" =>
             /\ ssh'.now[NewPrivate(w)] = inHand[w].file /\ inHand[w].file \in DOMAIN ssh'.data
             /\ ssh'.data[inHand[w].file] = inHand[w].key
             /\ inHand[w].calls = Publication(platform)
        /\ at[w] \in MakingPublic => Has(ssh', Private) /\ Content(ssh', Private) = inHand[w].key
        /\ at[w] = "read_public" => Durable'
    BY <1>3, <1>4, <1>5, <2>1 DEF UserKnows
  <2>3. at[w] = "publish" =>
          /\ OnDisk(w)'
          /\ IsRest(inHand[w].calls, platform)
          /\ Unlinked(Len(inHand[w].calls), platform) =>
               ssh'.now[NewPrivate(w)] = inHand[w].file /\ ~Has(ssh', Private)
          /\ Linked(Len(inHand[w].calls), platform) =>
               ssh'.now[NewPrivate(w)] = inHand[w].file /\ ssh'.now[Private] = inHand[w].file
          /\ Named(Len(inHand[w].calls), platform) => ssh'.now[Private] = inHand[w].file
    BY <1>4, <1>5, <2>1 DEF UserKnows
  <2> QED
    BY <1>1, <1>4, <2>2, <2>3 DEF UserKnows
<1>9. Unsynced'
  BY <1>1, <1>3, <1>4, <1>5, <1>6 DEF IdentityIInv, Unsynced, Few, KeyUntouched
<1>10. Kept'
  BY <1>1, <1>5, <1>6 DEF IdentityIInv, Kept, Few, Bearable, OneKeyForEver
<1> QED
  BY <1>7, <1>8, <1>9, <1>10 DEF IdentityIInv

LEMMA IdentityStarts == IdentityInit => IdentityIInv
<1> SUFFICES ASSUME IdentityInit PROVE IdentityIInv
  OBVIOUS
<1>1. Empty \in [key : Contents \cup {None}, file : Nat \cup {None}, calls : Seq(CallKinds)]
  BY DEF Empty
<1>2. FilesOf(ssh) /\ ~Has(ssh, Private) /\ Durable /\ ssh.disk[Private] = None
  BY NamesApart DEF IdentityInit, EmptyDirectory, FilesOf, IsDirectory, Has, Durable
<1>3. IdentityTyped
  BY <1>1, <1>2, IdentityAssumption DEF IdentityInit, IdentityTyped, IdentitySteps
<1>4. Exclusive /\ \A u \in Users : UserKnows(u)
  BY DEF IdentityInit, Exclusive, UserKnows, MakingPublic
<1>5. Unsynced
  BY <1>2 DEF Unsynced, Has, Durable
<1>6. Kept
  BY DEF IdentityInit, Kept, OneKeyForEver
<1> QED
  BY <1>3, <1>4, <1>5, <1>6 DEF IdentityIInv

LEMMA IdentityStutters == IdentityIInv /\ UNCHANGED idVars => IdentityIInv'
BY DEF idVars, IdentityIInv, IdentityTyped, FilesOf, IsDirectory, Exclusive, UserKnows, OnDisk, Unsynced, Kept,
       Durable, Few, Bearable, OneKeyForEver

\* The invariant of the controller's keys, for any number of processes, stops
\* and losses of power.
THEOREM IdentityInvariant == IdentitySpec => []IdentityIInv
<1>1. ASSUME IdentityIInv, [IdentityNext]_idVars PROVE IdentityIInv'
  BY <1>1, UserStepKeeps, StopKeeps, PowerLossKeeps, RemovePublicKeeps, IdentityStutters
     DEF IdentityNext
<1> QED
  BY <1>1, IdentityStarts, PTL DEF IdentitySpec

\* A key that was returned is the private key on the disk (load_or_create,
\* recover_public_file), for every number of processes.
THEOREM KeyForEver == IdentitySpec => []OneKeyForEver
<1>1. IdentityIInv => OneKeyForEver
  BY DEF IdentityIInv, Kept
<1> QED
  BY <1>1, IdentityInvariant, PTL

(***************************************************************************)
(* SetupConfig, for any processes in one directory, any answers and any    *)
(* number of failing calls. Until a replay has its name it is in the       *)
(* temporary of the process that wrote it, and nobody replaces the name    *)
(* (Publishing).                                                           *)
(***************************************************************************)

TypedSetups == {FromAnswers(a) : a \in {b \in Answers : FromAnswers(b).role = "worker"}}
Replays == {Replay(e) : e \in TypedSetups}
CwdNames == {Saved} \cup {Temporary(p) : p \in Shells}
ShellSteps == {"idle", "persist", "publish", "apply"}

ConfigTyped ==
  /\ platform \in {"linux", "macos", "windows"}
  /\ IsDirectory(cwd, CwdNames, Replays)
  /\ phase \in [Shells -> ShellSteps]
  /\ setup = [p \in Shells |-> setup[p]]
  /\ calls \in [Shells -> Seq(CallKinds)]

\* Until it has its name, the replay of a process is in its temporary.
Publishing(p) ==
  /\ phase[p] \in {"persist", "publish"} => setup[p] \in TypedSetups
  /\ phase[p] = "publish" =>
       /\ IsRest(calls[p], platform)
       /\ Unlinked(Len(calls[p]), platform) =>
            Has(cwd, Temporary(p)) /\ Content(cwd, Temporary(p)) = Replay(setup[p])
       /\ ~Unlinked(Len(calls[p]), platform) =>
            Has(cwd, Saved) /\ Content(cwd, Saved) = Replay(setup[p])

ConfigIInv == ConfigTyped /\ \A p \in Shells : Publishing(p)


\* What was typed, spelt out: every other layer is empty.
Plain(name, components) ==
  [role |-> "worker", scope |-> "user", account |-> [mode |-> "current-user", name |-> None],
   name |-> name, components |-> components, root |-> "", keys |-> <<>>, tailscale |-> "",
   env |-> "TS_AUTHKEY", fail |-> FALSE]

LEMMA EmptyLayers ==
  Effective(NoConfig, NoRequest) = Plain(None, DefaultComponents)
<1>1. Configured(NoConfig) = DefaultComponents
  <2>1. \A n \in ComponentNames : n \notin DOMAIN NoConfig.components
    BY DEF NoConfig
  <2>2. Configured(NoConfig) = {n \in ComponentNames : n \in DefaultComponents}
    BY <2>1 DEF Configured
  <2>3. DefaultComponents \subseteq ComponentNames
    BY DEF DefaultComponents, ComponentNames
  <2> QED
    BY <2>2, <2>3
<1>2. \A v : Given(None, v) = v
  BY DEF Given
<1>3. Account(None) = [mode |-> "current-user", name |-> None]
  BY DEF Account
<1>4. /\ NoConfig.role = None /\ NoConfig.scope = None /\ NoConfig.account = None
      /\ NoConfig.name = None /\ NoConfig.root = None /\ NoConfig.keys = None
      /\ NoConfig.tailscale = None /\ NoConfig.env = None /\ NoConfig.fail = None
  BY DEF NoConfig
<1>5. /\ NoRequest.role = None /\ NoRequest.scope = None /\ NoRequest.account = None
      /\ NoRequest.name = None /\ NoRequest.install = {} /\ NoRequest.keys = <<>>
  BY DEF NoRequest
<1>6. Configured(NoConfig) \cup NoRequest.install = DefaultComponents
  BY <1>1, <1>5
<1> HIDE DEF NoConfig, NoRequest
<1> QED
  BY <1>2, <1>3, <1>4, <1>5, <1>6 DEF Effective, Plain

LEMMA Answered ==
  ASSUME NEW e \in TypedSetups
  PROVE  \E name, components : e = Plain(name, components) /\ components \subseteq ComponentNames
<1>1. PICK a \in Answers : e = FromAnswers(a) /\ e.role = "worker"
  BY DEF TypedSetups
<1>2. PICK base : base = Effective(NoConfig, NoRequest)
  OBVIOUS
<1>3. base = Plain(None, DefaultComponents)
  BY <1>2, EmptyLayers
<1>4. PICK role : role = Given(a.role, "worker")
  OBVIOUS
<1>5. PICK all : all = DefaultComponents \cup a.install
  OBVIOUS
<1>6. e = [base EXCEPT !.role = role, !.name = a.name, !.components = all]
  BY <1>1, <1>2, <1>4, <1>5 DEF FromAnswers
<1>7. e = [role |-> role, scope |-> base.scope, account |-> base.account, name |-> a.name,
           components |-> all, root |-> base.root, keys |-> base.keys,
           tailscale |-> base.tailscale, env |-> base.env, fail |-> base.fail]
  <2>1. base = [role |-> base.role, scope |-> base.scope, account |-> base.account,
                name |-> base.name, components |-> base.components, root |-> base.root,
                keys |-> base.keys, tailscale |-> base.tailscale, env |-> base.env,
                fail |-> base.fail]
    BY <1>3 DEF Plain
  <2> QED
    BY <1>6, <2>1
<1>8. role = "worker"
  BY <1>1, <1>7
<1>9. e = Plain(a.name, all)
  BY <1>3, <1>7, <1>8 DEF Plain
<1>10. all \subseteq ComponentNames
  BY <1>5, ConfigAssumption DEF DefaultComponents, ComponentNames
<1> QED
  BY <1>9, <1>10

\* A replay says again what was typed.
LEMMA ReplaySays ==
  ASSUME NEW e \in TypedSetups
  PROVE  /\ Effective(Replay(e), NoRequest) = e
         /\ ConfigValid(Replay(e)) /\ Supported(e, NoRequest)
<1>1. PICK name, components : e = Plain(name, components) /\ components \subseteq ComponentNames
  BY Answered
<1>2. PICK named : named = [n \in ComponentNames |-> n \in components]
  OBVIOUS
<1>3. PICK c : c = Replay(e)
  OBVIOUS
<1>4. PICK me : me = [mode |-> "current-user", name |-> None]
  OBVIOUS
<1>5. /\ e.role = "worker" /\ e.scope = "user" /\ e.account = me /\ e.root = ""
      /\ e.name = name /\ e.components = components /\ e.keys = <<>> /\ e.tailscale = ""
      /\ e.env = "TS_AUTHKEY" /\ e.fail = FALSE
  BY <1>1, <1>4 DEF Plain
<1>6. c = [role |-> "worker", scope |-> "user", account |-> me, name |-> name,
           components |-> named, root |-> "", keys |-> <<>>, tailscale |-> "",
           env |-> "TS_AUTHKEY", fail |-> FALSE]
  BY <1>2, <1>3, <1>4, <1>5 DEF Replay
<1>7. Configured(c) = components
  <2>1. /\ c.components = named /\ DOMAIN named = ComponentNames
        /\ \A n \in ComponentNames : named[n] = (n \in components)
    BY <1>2, <1>6
  <2>2. Configured(c) = {n \in ComponentNames : n \in components}
    BY <2>1 DEF Configured
  <2> QED
    BY <1>1, <2>2
<1>8. Account(me) = me
  BY <1>4 DEF Account, Given
<1>9. \A v : Given(v, v) = v /\ Given(None, v) = v
  BY DEF Given
<1>10. /\ NoRequest.role = None /\ NoRequest.scope = None /\ NoRequest.account = None
       /\ NoRequest.name = None /\ NoRequest.install = {} /\ NoRequest.keys = <<>>
       /\ NoRequest.deferred = FALSE
  BY DEF NoRequest
<1>11. /\ c.role = "worker" /\ c.scope = "user" /\ c.account = me /\ c.name = name
       /\ c.root = "" /\ c.keys = <<>> /\ c.tailscale = ""
       /\ c.env = "TS_AUTHKEY" /\ c.fail = FALSE
  BY <1>6
<1>12. Configured(c) \cup NoRequest.install = components
  BY <1>7, <1>10
<1>13. Effective(c, NoRequest) =
         [role |-> "worker", scope |-> "user", account |-> me, name |-> name,
          components |-> components, root |-> Given("", ""), keys |-> Given(<<>>, <<>>),
          tailscale |-> Given("", ""), env |-> Given("TS_AUTHKEY", "TS_AUTHKEY"),
          fail |-> Given(FALSE, FALSE)]
  BY <1>8, <1>9, <1>10, <1>11, <1>12 DEF Effective
<1>14. Effective(c, NoRequest) = e
  BY <1>1, <1>4, <1>9, <1>13 DEF Plain
<1>15. ConfigValid(c)
  <2>1. me.mode = "current-user"
    BY <1>4
  <2>2. PICK account : account = c.account
    OBVIOUS
  <2>3. account = me /\ account.mode = "current-user"
    BY <1>11, <2>1, <2>2
  <2> QED
    BY <1>11, <2>2, <2>3 DEF ConfigValid
<1>16. IsInjective(<<>>)
  BY DEF IsInjective
<1>17. Supported(e, NoRequest)
  BY <1>4, <1>5, <1>10, <1>16 DEF Supported
<1> QED
  BY <1>3, <1>14, <1>15, <1>17

LEMMA NamesOfCwd ==
  ASSUME NEW p \in Shells
  PROVE  /\ Saved \in CwdNames /\ Temporary(p) \in CwdNames /\ Saved # Temporary(p)
         /\ \A q \in Shells : Temporary(q) = Temporary(p) => q = p
BY DEF CwdNames, Saved, Temporary

LEMMA ConfigInitKeeps ==
  ASSUME ConfigInit
  PROVE  ConfigIInv
<1>1. <<>> \in Seq(Replays) /\ <<>> \in Seq(CallKinds) /\ DOMAIN <<>> = {}
  BY EmptySeq
<1>2. IsDirectory(cwd, CwdNames, Replays)
  BY <1>1 DEF ConfigInit, EmptyDirectory, IsDirectory, CwdNames
<1>3. ConfigTyped
  BY <1>1, <1>2 DEF ConfigInit, ConfigTyped, ShellSteps
<1>4. \A p \in Shells : phase[p] = "idle"
  BY DEF ConfigInit
<1> QED
  BY <1>3, <1>4 DEF ConfigIInv, Publishing

\* A step that leaves what the others publish, and a replay that is there, alone.
LEMMA OthersGoOn ==
  ASSUME ConfigIInv, NEW p \in Shells, NEW q \in Shells, p # q,
         UNCHANGED platform, IsDirectory(cwd', CwdNames, Replays),
         phase'[q] = phase[q], setup'[q] = setup[q], calls'[q] = calls[q],
         cwd'.now[Temporary(q)] = cwd.now[Temporary(q)],
         Has(cwd, Saved) => cwd'.now[Saved] = cwd.now[Saved],
         \A f \in DOMAIN cwd.data : f \in DOMAIN cwd'.data /\ cwd'.data[f] = cwd.data[f]
  PROVE  Publishing(q)'
<1>1. /\ Saved \in CwdNames /\ Temporary(q) \in CwdNames
      /\ cwd.now \in [CwdNames -> {None} \cup DOMAIN cwd.data]
  BY NamesOfCwd DEF ConfigIInv, ConfigTyped, IsDirectory
<1>2. Has(cwd, Saved) => Has(cwd', Saved) /\ Content(cwd', Saved) = Content(cwd, Saved)
  BY <1>1 DEF Has, Content
<1>3. Has(cwd, Temporary(q)) =>
        Has(cwd', Temporary(q)) /\ Content(cwd', Temporary(q)) = Content(cwd, Temporary(q))
  BY <1>1 DEF Has, Content
<1>4. Publishing(q)
  BY DEF ConfigIInv
<1> QED
  BY <1>2, <1>3, <1>4 DEF Publishing

\* The temporary of one process is removed.
LEMMA Removed ==
  ASSUME IsDirectory(cwd, CwdNames, Replays), NEW p \in Shells,
         cwd' \in {cwd, Bound(cwd, Temporary(p), None)}
  PROVE  /\ IsDirectory(cwd', CwdNames, Replays) /\ cwd'.data = cwd.data
         /\ cwd'.now[Saved] = cwd.now[Saved]
         /\ \A q \in Shells \ {p} : cwd'.now[Temporary(q)] = cwd.now[Temporary(q)]
<1>1. CASE cwd' = cwd
  BY <1>1
<1>2. CASE cwd' = Bound(cwd, Temporary(p), None)
  <2>1. /\ Temporary(p) \in CwdNames /\ Saved \in CwdNames /\ Saved # Temporary(p)
        /\ \A q \in Shells : Temporary(q) \in CwdNames
        /\ \A q \in Shells \ {p} : Temporary(q) # Temporary(p)
    BY NamesOfCwd
  <2>2. /\ IsDirectory(cwd', CwdNames, Replays) /\ cwd'.data = cwd.data
        /\ cwd'.now = [cwd.now EXCEPT ![Temporary(p)] = None]
    BY <1>2, <2>1, BoundFiles
  <2> QED
    BY <2>1, <2>2 DEF IsDirectory
<1> QED
  BY <1>1, <1>2

\* The two things said of a step.
Reached(p) == (phase[p] \in {"persist", "publish"} /\ phase'[p] = "apply") => Repeats(p)'
Keeps == Has(cwd, Saved) => Content(cwd, Saved)' = Content(cwd, Saved)

\* A process that has its replay in the directory gets there.
LEMMA SavedRepeats ==
  ASSUME NEW p \in Shells, setup'[p] \in TypedSetups, Has(cwd', Saved),
         Content(cwd', Saved) = Replay(setup'[p])
  PROVE  Repeats(p)'
<1>1. PICK e : e = setup'[p]
  OBVIOUS
<1>2. PICK c : c = Content(cwd', Saved)
  OBVIOUS
<1>3. e \in TypedSetups /\ c = Replay(e)
  BY <1>1, <1>2
<1>4. Effective(c, NoRequest) = e /\ ConfigValid(c) /\ Supported(e, NoRequest)
  BY <1>3, ReplaySays
<1> QED
  BY <1>1, <1>2, <1>4 DEF Repeats, Replayed

\* A process that begins, or gives up: nothing is published, nothing is lost.
LEMMA StartKeeps ==
  ASSUME ConfigIInv, NEW p \in Shells, UNCHANGED <<platform, cwd>>,
         NEW new, NEW new2 \in {"idle", "persist", "apply"},
         setup' = [setup EXCEPT ![p] = new], Turn(p, new2),
         new2 = "persist" => new \in TypedSetups,
         phase[p] \in {"idle", "apply"} \/ new2 = "idle",
         calls' \in [Shells -> Seq(CallKinds)], \A q \in Shells \ {p} : calls'[q] = calls[q]
  PROVE  ConfigIInv' /\ Keeps /\ \A q \in Shells : Reached(q)
<1>1. phase' = [phase EXCEPT ![p] = new2]
  BY DEF Turn
<1>2. ConfigTyped'
  BY <1>1 DEF ConfigIInv, ConfigTyped, ShellSteps
<1>3. Publishing(p)'
  BY <1>1 DEF ConfigIInv, ConfigTyped, Publishing
<1>4. ASSUME NEW q \in Shells \ {p}  PROVE Publishing(q)'
  BY <1>1, <1>2, <1>4, OthersGoOn DEF ConfigIInv, ConfigTyped
<1>5. Keeps
  BY DEF Keeps
<1>6. \A q \in Shells : Reached(q)
  BY <1>1 DEF Reached, ConfigIInv, ConfigTyped
<1> QED
  BY <1>2, <1>3, <1>4, <1>5, <1>6 DEF ConfigIInv

LEMMA LoadEffectiveKeeps ==
  ASSUME ConfigIInv, NEW p \in Shells, LoadEffective(p)
  PROVE  ConfigIInv' /\ Keeps /\ \A q \in Shells : Reached(q)
<1>1. phase[p] \in {"idle", "apply"} /\ UNCHANGED <<platform, cwd, calls>>
  BY DEF LoadEffective, BeginSetup
<1>2. \/ \E e : setup' = [setup EXCEPT ![p] = e] /\ Turn(p, "apply")
      \/ setup' = [setup EXCEPT ![p] = None] /\ Turn(p, "idle")
  BY DEF LoadEffective
<1>3. calls' \in [Shells -> Seq(CallKinds)]
  BY <1>1 DEF ConfigIInv, ConfigTyped
<1> QED
  BY <1>1, <1>2, <1>3, StartKeeps

LEMMA CollectKeeps ==
  ASSUME ConfigIInv, NEW p \in Shells, Collect(p)
  PROVE  ConfigIInv' /\ Keeps /\ \A q \in Shells : Reached(q)
<1>1. phase[p] \in {"idle", "apply"} /\ UNCHANGED <<platform, cwd, calls>>
  BY DEF Collect, BeginSetup
<1>2. \/ \E e \in TypedSetups : setup' = [setup EXCEPT ![p] = e] /\ Turn(p, "persist")
      \/ setup' = [setup EXCEPT ![p] = None] /\ Turn(p, "idle")
  BY DEF Collect, TypedSetups
<1>3. calls' \in [Shells -> Seq(CallKinds)]
  BY <1>1 DEF ConfigIInv, ConfigTyped
<1> QED
  BY <1>1, <1>2, <1>3, StartKeeps

\* What compare_existing_replay says of the replay that is there.
LEMMA CompareKeeps ==
  ASSUME ConfigIInv, NEW p \in Shells, phase[p] \in {"persist", "publish"},
         Has(cwd, Saved), Compare(p), cwd' \in {cwd, Bound(cwd, Temporary(p), None)},
         UNCHANGED platform
  PROVE  ConfigIInv' /\ Keeps /\ \A q \in Shells : Reached(q)
<1>1. IsDirectory(cwd, CwdNames, Replays) /\ <<>> \in Seq(CallKinds)
  BY EmptySeq DEF ConfigIInv, ConfigTyped
<1>2. /\ IsDirectory(cwd', CwdNames, Replays) /\ cwd'.data = cwd.data
      /\ cwd'.now[Saved] = cwd.now[Saved]
      /\ \A q \in Shells \ {p} : cwd'.now[Temporary(q)] = cwd.now[Temporary(q)]
  BY <1>1, Removed
<1>3. Has(cwd', Saved) /\ Content(cwd', Saved) = Content(cwd, Saved)
  BY <1>2 DEF Has, Content
<1>4. \/ /\ Content(cwd, Saved) = Replay(setup[p]) /\ UNCHANGED setup
         /\ phase' = [phase EXCEPT ![p] = "apply"] /\ calls' = [calls EXCEPT ![p] = <<>>]
      \/ /\ phase' = [phase EXCEPT ![p] = "idle"] /\ calls' = [calls EXCEPT ![p] = <<>>]
         /\ setup' = [setup EXCEPT ![p] = None]
  BY DEF Compare, GiveUp, Turn
<1>5. ConfigTyped'
  BY <1>1, <1>2, <1>4 DEF ConfigIInv, ConfigTyped, ShellSteps
<1>6. Publishing(p)'
  BY <1>4 DEF ConfigIInv, ConfigTyped, Publishing
<1>7. ASSUME NEW q \in Shells \ {p}  PROVE Publishing(q)'
  BY <1>2, <1>4, <1>7, OthersGoOn DEF ConfigIInv, ConfigTyped
<1>8. Keeps
  BY <1>3 DEF Keeps
<1>9. setup[p] \in TypedSetups
  BY DEF ConfigIInv, Publishing
<1>10. \A q \in Shells \ {p} : Reached(q)
  BY <1>4 DEF Reached, ConfigIInv, ConfigTyped
<1>11. Reached(p)
  <2>1. CASE phase'[p] = "apply"
    <3>1. Content(cwd, Saved) = Replay(setup[p]) /\ UNCHANGED setup
      BY <1>4, <2>1 DEF ConfigIInv, ConfigTyped
    <3> QED
      BY <1>3, <1>9, <3>1, SavedRepeats DEF Reached
  <2> QED
    BY <2>1 DEF Reached
<1> QED
  BY <1>5, <1>6, <1>7, <1>8, <1>10, <1>11 DEF ConfigIInv

LEMMA PersistKeeps ==
  ASSUME ConfigIInv, NEW p \in Shells, Persist(p)
  PROVE  ConfigIInv' /\ Keeps /\ \A q \in Shells : Reached(q)
<1>1. phase[p] = "persist" /\ UNCHANGED platform
  BY DEF Persist
<1>2. CASE Has(cwd, Saved) /\ Compare(p) /\ UNCHANGED cwd
  BY <1>1, <1>2, CompareKeeps
<1>3. CASE /\ ~Has(cwd, Saved)
           /\ cwd' = SyncData(Create(cwd, Temporary(p), Replay(setup[p])), Temporary(p))
           /\ calls' = [calls EXCEPT ![p] = Publication(platform)]
           /\ Turn(p, "publish") /\ UNCHANGED setup
  <2>1. setup[p] \in TypedSetups /\ Replay(setup[p]) \in Replays
    BY <1>1 DEF ConfigIInv, Publishing, Replays
  <2>2. /\ IsDirectory(cwd, CwdNames, Replays) /\ platform \in {"linux", "macos", "windows"}
        /\ Temporary(p) \in CwdNames /\ Saved \in CwdNames /\ Saved # Temporary(p)
        /\ \A q \in Shells : Temporary(q) \in CwdNames
        /\ \A q \in Shells \ {p} : Temporary(q) # Temporary(p)
    BY NamesOfCwd DEF ConfigIInv, ConfigTyped
  <2>3. PICK new : new = Create(cwd, Temporary(p), Replay(setup[p]))
    OBVIOUS
  <2>4. /\ IsDirectory(new, CwdNames, Replays)
        /\ new.now = [cwd.now EXCEPT ![Temporary(p)] = Len(cwd.data) + 1]
        /\ \A f \in DOMAIN cwd.data : f \in DOMAIN new.data /\ new.data[f] = cwd.data[f]
        /\ new.data[Len(cwd.data) + 1] = Replay(setup[p])
        /\ Len(cwd.data) + 1 \in DOMAIN new.data
    <3>1. IsDirectory(new, CwdNames, Replays) /\ Added(cwd, new, Temporary(p), Replay(setup[p]))
      BY <2>1, <2>2, <2>3, CreatedFiles
    <3> QED
      BY <3>1 DEF Added
  <2>5. /\ IsDirectory(cwd', CwdNames, Replays) /\ cwd'.now = new.now /\ cwd'.data = new.data
    BY <1>3, <2>3, <2>4, SyncedData
  <2>6. PICK file : file = Len(cwd.data) + 1
    OBVIOUS
  <2>7. file # None
    <3>1. Len(cwd.data) \in Nat
      BY <2>2, LenProperties DEF IsDirectory
    <3> QED
      BY <2>6, <3>1, ConfigAssumption
  <2>8. Has(cwd', Temporary(p)) /\ Content(cwd', Temporary(p)) = Replay(setup[p])
    BY <2>2, <2>4, <2>5, <2>6, <2>7 DEF Has, Content, IsDirectory
  <2>9. IsRest(Publication(platform), platform)
        /\ Len(Publication(platform)) = Len(AllCalls(platform))
    BY <2>2, Publications
  <2>10. /\ calls'[p] = Publication(platform) /\ Publication(platform) \in Seq(CallKinds)
         /\ Unlinked(Len(calls'[p]), platform)
    BY <1>3, <2>9, CallNames DEF ConfigIInv, ConfigTyped, IsRest, Unlinked
  <2>11. phase' = [phase EXCEPT ![p] = "publish"]
    BY <1>3 DEF Turn
  <2>12. ConfigTyped'
    BY <1>1, <1>3, <2>5, <2>10, <2>11 DEF ConfigIInv, ConfigTyped, ShellSteps
  <2>13. Publishing(p)'
    BY <1>1, <1>3, <2>1, <2>8, <2>9, <2>10, <2>11 DEF Publishing
  <2>14. ASSUME NEW q \in Shells \ {p}  PROVE Publishing(q)'
    <3>1. cwd'.now[Temporary(q)] = cwd.now[Temporary(q)] /\ cwd'.now[Saved] = cwd.now[Saved]
      BY <2>2, <2>4, <2>5 DEF IsDirectory
    <3> QED
      BY <1>1, <1>3, <2>4, <2>5, <2>11, <3>1, OthersGoOn DEF ConfigIInv, ConfigTyped
  <2>15. Keeps
    BY <1>3 DEF Keeps
  <2>16. \A q \in Shells : Reached(q)
    BY <2>11 DEF Reached, ConfigIInv, ConfigTyped
  <2> QED
    BY <2>12, <2>13, <2>14, <2>15, <2>16 DEF ConfigIInv
<1> QED
  BY <1>2, <1>3 DEF Persist

LEMMA PublishReplayKeeps ==
  ASSUME ConfigIInv, NEW p \in Shells, PublishReplay(p)
  PROVE  ConfigIInv' /\ Keeps /\ \A q \in Shells : Reached(q)
<1>1. phase[p] = "publish" /\ UNCHANGED platform
  BY DEF PublishReplay
<1>2. PICK call : call = Head(calls[p])
  OBVIOUS
<1>3. CASE MayTake(p, call) /\ cwd' = AfterCall(cwd, call, Temporary(p), Saved)
           /\ calls' = [calls EXCEPT ![p] = Tail(calls[p])]
           /\ Turn(p, IF Len(calls[p]) = 1 THEN "apply" ELSE "publish") /\ UNCHANGED setup
  <2>1. PICK n : n = Len(calls[p])
    OBVIOUS
  <2>2. /\ IsRest(calls[p], platform) /\ setup[p] \in TypedSetups
        /\ Unlinked(n, platform) =>
             Has(cwd, Temporary(p)) /\ Content(cwd, Temporary(p)) = Replay(setup[p])
        /\ ~Unlinked(n, platform) => Has(cwd, Saved) /\ Content(cwd, Saved) = Replay(setup[p])
    BY <1>1, <2>1 DEF ConfigIInv, Publishing
  <2>3. PICK tail : tail = Tail(calls[p])
    OBVIOUS
  <2>4. Len(AllCalls(platform)) \in Nat
    BY CallNames
  <2>5. /\ n \in Nat \ {0} /\ call = AllCalls(platform)[n] /\ n \in 1..Len(AllCalls(platform))
        /\ n # 1 => IsRest(tail, platform) /\ Len(tail) = n - 1
        /\ tail \in Seq(CallKinds)
    BY <1>2, <2>1, <2>2, <2>3, <2>4, RestOf DEF IsRest
  <2>6. /\ IsDirectory(cwd, CwdNames, Replays) /\ platform \in {"linux", "macos", "windows"}
        /\ Temporary(p) \in CwdNames /\ Saved \in CwdNames /\ Temporary(p) # Saved
        /\ \A q \in Shells \ {p} : Temporary(q) \in CwdNames \ {Temporary(p), Saved}
    BY NamesOfCwd DEF ConfigIInv, ConfigTyped
  <2>7. /\ IsDirectory(cwd', CwdNames, Replays) /\ cwd'.data = cwd.data
        /\ cwd'.now[Saved] = IF Links(n, platform) THEN cwd.now[Temporary(p)] ELSE cwd.now[Saved]
        /\ cwd'.now[Temporary(p)] =
             IF Frees(n, platform) THEN None ELSE cwd.now[Temporary(p)]
        /\ \A other \in CwdNames \ {Temporary(p), Saved} : cwd'.now[other] = cwd.now[other]
    BY <1>3, <2>5, <2>6, Called
  <2>8. Has(cwd, Saved) => ~Links(n, platform)
    <3>1. Links(n, platform) => call \in {"link", "move"}
      BY <2>5, CallNames DEF Links
    <3> QED
      BY <1>3, <3>1 DEF MayTake, Refused
  <2>9. /\ platform = "windows" => n \in {1, 2, 3}
        /\ platform # "windows" => n \in {1, 2, 3, 4, 5, 6, 7}
    BY <2>5, CallNames
  <2>10. Has(cwd, Saved) => cwd'.now[Saved] = cwd.now[Saved]
    BY <2>7, <2>8
  <2>11. ~Unlinked(n, platform) \/ Links(n, platform) =>
           Has(cwd', Saved) /\ Content(cwd', Saved) = Replay(setup[p])
    BY <2>2, <2>7, <2>9 DEF Has, Content, Links, Unlinked
  <2>12. Unlinked(n, platform) /\ ~Links(n, platform) =>
           /\ Has(cwd', Temporary(p)) /\ Content(cwd', Temporary(p)) = Replay(setup[p])
           /\ n # 1 /\ Unlinked(n - 1, platform)
    BY <2>2, <2>7, <2>9 DEF Has, Content, Links, Frees, Unlinked
  <2>13. Links(n, platform) \/ ~Unlinked(n, platform) => ~Unlinked(n - 1, platform)
    BY <2>9 DEF Links, Unlinked
  <2>14. PICK next : next = IF n = 1 THEN "apply" ELSE "publish"
    OBVIOUS
  <2>15. phase' = [phase EXCEPT ![p] = next] /\ calls' = [calls EXCEPT ![p] = tail]
    BY <1>3, <2>1, <2>3, <2>14 DEF Turn
  <2>16. phase'[p] = next /\ calls'[p] = tail
    BY <2>15 DEF ConfigIInv, ConfigTyped
  <2>17. ConfigTyped'
    BY <1>1, <1>3, <2>5, <2>7, <2>14, <2>15 DEF ConfigIInv, ConfigTyped, ShellSteps
  <2>18. Publishing(p)'
    <3>1. CASE n = 1
      BY <2>14, <2>16, <3>1 DEF Publishing
    <3>2. CASE n # 1
      <4>1. IsRest(tail, platform) /\ Len(tail) = n - 1 /\ next = "publish"
        BY <2>5, <2>14, <3>2
      <4>2. /\ Unlinked(n - 1, platform) =>
                 Has(cwd', Temporary(p)) /\ Content(cwd', Temporary(p)) = Replay(setup[p])
            /\ ~Unlinked(n - 1, platform) =>
                 Has(cwd', Saved) /\ Content(cwd', Saved) = Replay(setup[p])
        BY <2>11, <2>12, <2>13
      <4> QED
        BY <1>1, <1>3, <2>2, <2>16, <4>1, <4>2 DEF Publishing
    <3> QED
      BY <3>1, <3>2
  <2>19. ASSUME NEW q \in Shells \ {p}  PROVE Publishing(q)'
    BY <1>1, <1>3, <2>6, <2>7, <2>10, <2>15, OthersGoOn DEF ConfigIInv, ConfigTyped
  <2>20. Keeps
    BY <2>7, <2>10 DEF Keeps, Has, Content
  <2>21. \A q \in Shells \ {p} : Reached(q)
    BY <2>15 DEF Reached, ConfigIInv, ConfigTyped
  <2>22. Reached(p)
    <3>1. CASE n = 1
      <4>1. Has(cwd', Saved) /\ Content(cwd', Saved) = Replay(setup'[p]) /\ setup'[p] \in TypedSetups
        BY <1>3, <2>2, <2>11, <2>12, <3>1
      <4> QED
        BY <4>1, SavedRepeats DEF Reached
    <3>2. CASE n # 1
      BY <2>14, <2>16, <3>2 DEF Reached
    <3> QED
      BY <3>1, <3>2
  <2> QED
    BY <2>17, <2>18, <2>19, <2>20, <2>21, <2>22 DEF ConfigIInv
<1>4. CASE ~MayTake(p, call) /\ cwd' = Bound(cwd, Temporary(p), None) /\ Compare(p)
  BY <1>1, <1>4, CompareKeeps DEF MayTake, Refused
<1> QED
  BY <1>2, <1>3, <1>4 DEF PublishReplay

LEMMA BreakKeeps ==
  ASSUME ConfigIInv, NEW p \in Shells, Break(p)
  PROVE  ConfigIInv' /\ Keeps /\ \A q \in Shells : Reached(q)
<1>1. /\ UNCHANGED platform /\ cwd' \in {cwd, Bound(cwd, Temporary(p), None)}
      /\ phase' = [phase EXCEPT ![p] = "idle"] /\ calls' = [calls EXCEPT ![p] = <<>>]
      /\ setup' = [setup EXCEPT ![p] = None]
  BY DEF Break, GiveUp, Turn
<1>2. IsDirectory(cwd, CwdNames, Replays) /\ <<>> \in Seq(CallKinds)
  BY EmptySeq DEF ConfigIInv, ConfigTyped
<1>3. /\ IsDirectory(cwd', CwdNames, Replays) /\ cwd'.data = cwd.data
      /\ cwd'.now[Saved] = cwd.now[Saved]
      /\ \A q \in Shells \ {p} : cwd'.now[Temporary(q)] = cwd.now[Temporary(q)]
  BY <1>1, <1>2, Removed
<1>4. ConfigTyped'
  BY <1>1, <1>2, <1>3 DEF ConfigIInv, ConfigTyped, ShellSteps
<1>5. Publishing(p)'
  BY <1>1 DEF ConfigIInv, ConfigTyped, Publishing
<1>6. ASSUME NEW q \in Shells \ {p}  PROVE Publishing(q)'
  BY <1>1, <1>3, <1>6, OthersGoOn DEF ConfigIInv, ConfigTyped
<1>7. Keeps
  BY <1>3 DEF Keeps, Has, Content
<1>8. \A q \in Shells : Reached(q)
  BY <1>1 DEF Reached, ConfigIInv, ConfigTyped
<1> QED
  BY <1>4, <1>5, <1>6, <1>7, <1>8 DEF ConfigIInv

LEMMA ConfigStep ==
  ASSUME ConfigIInv, [ConfigNext]_configVars
  PROVE  /\ ConfigIInv'
         /\ [\A p \in Shells :
               /\ (phase[p] \in {"persist", "publish"} /\ phase'[p] = "apply") => Repeats(p)'
               /\ Has(cwd, Saved) => Content(cwd, Saved)' = Content(cwd, Saved)]_configVars
<1>1. CASE ConfigNext
  <2>1. ConfigIInv' /\ Keeps /\ \A q \in Shells : Reached(q)
    BY <1>1, LoadEffectiveKeeps, CollectKeeps, PersistKeeps, PublishReplayKeeps, BreakKeeps DEF ConfigNext
  <2> QED
    BY <2>1 DEF Keeps, Reached
<1>2. CASE UNCHANGED configVars
  <2>1. UNCHANGED <<platform, cwd, phase, setup, calls>>
    BY <1>2 DEF configVars
  <2>2. ConfigTyped' /\ \A q \in Shells : Publishing(q)'
    BY <2>1 DEF ConfigIInv, ConfigTyped, Publishing
  <2> QED
    BY <1>2, <2>2 DEF ConfigIInv
<1> QED
  BY <1>1, <1>2

\* Whatever processes answer in one directory, and however they end, what is
\* published of each is its own replay or none (config.rs, write_replay).
THEOREM ConfigInvariant == ConfigSpec => []ConfigIInv
<1>1. ConfigInit => ConfigIInv
  BY ConfigInitKeeps
<1>2. ConfigIInv /\ [ConfigNext]_configVars => ConfigIInv'
  BY ConfigStep
<1> QED
  BY <1>1, <1>2, PTL DEF ConfigSpec

\* From the moment an interactive setup applies its plan, the replay that is in
\* the directory gives that setup again, and is never replaced.
THEOREM Repeatable == ConfigSpec => ReplayRepeats
<1>1. ConfigIInv /\ [ConfigNext]_configVars =>
        [\A p \in Shells :
           /\ (phase[p] \in {"persist", "publish"} /\ phase'[p] = "apply") => Repeats(p)'
           /\ Has(cwd, Saved) => Content(cwd, Saved)' = Content(cwd, Saved)]_configVars
  BY ConfigStep
<1> QED
  BY <1>1, ConfigInvariant, PTL DEF ConfigSpec, ReplayRepeats
==============================================================================
