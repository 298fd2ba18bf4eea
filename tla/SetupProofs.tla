------------------------------ MODULE SetupProofs ------------------------------
(***************************************************************************)
(* Proofs about Setup, for any number of processes, any plans, any         *)
(* failures, any crashes and any bounds, in three parts:                   *)
(*                                                                         *)
(*   1 types and the lock: what each process holds at its step;            *)
(*   2 the journal: what the receipt and the transaction intents say       *)
(*     about the mutations styrn performed: nothing undone is claimed,     *)
(*     nothing done is forgotten, and the receipt only grows;              *)
(*   3 the ledger: what the pending-publication protocol keeps between     *)
(*     the receipt, its sidecar and the manifest: the manifest is only     *)
(*     replaced by the candidate made from it, the files stay readable     *)
(*     together, and together they implement the effective ledger.         *)
(***************************************************************************)
EXTENDS Setup, FiniteSetTheorems, TLAPS

USE DEF disk

(***************************************************************************)
(* Part 1.  The type invariant is not inductive alone: that a checkpoint   *)
(* has a sidecar to append rests on the lock, which keeps the others away  *)
(* from the sidecar.  So types, the lock and what a process holds at each  *)
(* step are proved together (IInv); all that follows uses them.            *)
(***************************************************************************)

\* The steps at which a process has an entry, a draft, a sidecar in hand.
HoldingSteps == ApplySteps \ {"check"}
DraftSteps == PublishSteps \union {"begin_publication"}
CandidateSteps == {"recover_checkpoint", "replace_manifest", "checkpoint"}

InHand(step, j, sc) ==
  /\ step \in HoldingSteps => j.held \in Entries
  /\ step \in DraftSteps => j.draft \in Drafts
  /\ step \in CandidateSteps => sc \in Sidecars
  /\ step = "check" => j.idx # 0

ProcessesOK ==
  /\ pc \in [Procs -> Steps]
  /\ job \in [Procs -> Jobs]
  /\ lock \in Procs \union {None}
  /\ \A q \in Procs : InHand(pc[q], job[q], sidecar)
  /\ LockDiscipline

DataOK ==
  /\ receipt \in Documents \union {None}
  /\ intents \subseteq Intents
  /\ sidecar \in Sidecars \union {None}
  /\ manifest \in Manifests \union {None}
  /\ res \in [Actions -> ResourceStates]
  /\ nextId \in Nat
  /\ budget \in Budgets
  /\ made \subseteq Nat

IInv == ProcessesOK /\ DataOK

(***************************************************************************)
(* Moving a process.  It may change the sidecar in a locked step only.     *)
(***************************************************************************)
MovesTo(p, step, j) ==
  /\ step \in Steps
  /\ j \in Jobs
  /\ InHand(step, j, sidecar')
  /\ UNCHANGED sidecar \/ pc[p] \in LockedSteps

LEMMA OthersInHand ==
  ASSUME IInv, NEW p \in Procs, NEW q \in Procs, q # p,
         pc'[q] = pc[q], job'[q] = job[q],
         UNCHANGED sidecar \/ pc[p] \in LockedSteps
  PROVE  InHand(pc'[q], job'[q], sidecar')
BY DEF IInv, ProcessesOK, InHand, LockDiscipline, CandidateSteps, LockedSteps, PublishSteps

LEMMA GotoKeeps ==
  ASSUME IInv, NEW p \in Procs, NEW step, NEW j, Goto(p, step, j), MovesTo(p, step, j),
         pc[p] \in LockedSteps <=> step \in LockedSteps
  PROVE  ProcessesOK'
<1>1. pc' \in [Procs -> Steps] /\ job' \in [Procs -> Jobs] /\ lock' \in Procs \union {None}
  BY DEF IInv, ProcessesOK, Goto, MovesTo
<1>2. ASSUME NEW q \in Procs PROVE InHand(pc'[q], job'[q], sidecar')
  BY OthersInHand DEF IInv, ProcessesOK, Goto, MovesTo, InHand
<1>3. LockDiscipline'
  BY DEF IInv, ProcessesOK, Goto, LockDiscipline
<1> QED BY <1>1, <1>2, <1>3 DEF ProcessesOK

LEMMA EnterKeeps ==
  ASSUME IInv, NEW p \in Procs, NEW step, NEW j, Enter(p, step, j), MovesTo(p, step, j),
         lock = None, step \in LockedSteps
  PROVE  ProcessesOK'
<1>1. pc' \in [Procs -> Steps] /\ job' \in [Procs -> Jobs] /\ lock' \in Procs \union {None}
  BY DEF IInv, ProcessesOK, Enter, MovesTo
<1>2. ASSUME NEW q \in Procs PROVE InHand(pc'[q], job'[q], sidecar')
  BY OthersInHand DEF IInv, ProcessesOK, Enter, MovesTo, InHand
<1>3. LockDiscipline'
  BY NoneAssumption DEF IInv, ProcessesOK, Enter, LockDiscipline
<1> QED BY <1>1, <1>2, <1>3 DEF ProcessesOK

LEMMA LeaveKeeps ==
  ASSUME IInv, NEW p \in Procs, NEW step, NEW j, Leave(p, step, j), MovesTo(p, step, j),
         step \notin LockedSteps
  PROVE  ProcessesOK'
<1>1. pc' \in [Procs -> Steps] /\ job' \in [Procs -> Jobs] /\ lock' \in Procs \union {None}
  BY DEF IInv, ProcessesOK, Leave, Released, MovesTo
<1>2. ASSUME NEW q \in Procs PROVE InHand(pc'[q], job'[q], sidecar')
  BY OthersInHand DEF IInv, ProcessesOK, Leave, MovesTo, InHand
<1>3. LockDiscipline'
  BY NoneAssumption DEF IInv, ProcessesOK, Leave, Released, LockDiscipline
<1> QED BY <1>1, <1>2, <1>3 DEF ProcessesOK

LEMMA IdleJobType == IdleJob \in Jobs
BY DEF IdleJob, Jobs

LEMMA EndKeeps ==
  ASSUME IInv, NEW p \in Procs, End(p), UNCHANGED sidecar \/ pc[p] \in LockedSteps
  PROVE  ProcessesOK'
<1>1. MovesTo(p, "idle", IdleJob)
  BY IdleJobType DEF MovesTo, Steps, InHand, HoldingSteps, DraftSteps, CandidateSteps,
                     ApplySteps, PublishSteps
<1>2. "idle" \notin LockedSteps
  BY DEF LockedSteps, ApplySteps, PublishSteps
<1> QED BY <1>1, <1>2, LeaveKeeps DEF End

LEMMA ChargeType ==
  ASSUME IInv, NEW failed \in BOOLEAN, Charge(failed)
  PROVE  budget' \in Budgets
BY DEF IInv, DataOK, Charge, Budgets

(***************************************************************************)
(* The values the steps compute.                                           *)
(***************************************************************************)
LEMMA DocumentType ==
  ASSUME DataOK
  PROVE  Document \in Documents
BY DEF DataOK, Document, EmptyDocument, Documents

LEMMA EffectiveType ==
  ASSUME NEW doc \in Documents, NEW intent \in Sidecars \union {None}
  PROVE  Effective(doc, intent) \in Documents
<1>1. CASE intent # None
  <2>1. intent.pub \in Publications
    BY <1>1 DEF Sidecars
  <2>2. Append(doc.pubs, intent.pub) \in Seq(Publications)
    BY <2>1 DEF Documents
  <2>3. [doc EXCEPT !.pubs = Append(@, intent.pub)] \in Documents
    BY <2>2 DEF Documents
  <2> QED BY <2>3 DEF Effective
<1>2. CASE intent = None
  BY <1>2 DEF Effective
<1> QED BY <1>1, <1>2

LEMMA FirstPendingType ==
  ASSUME NEW entries \in Seq(Entries), NEW a \in Actions, NEW lo \in Nat \ {0}
  PROVE  FirstPendingFrom(entries, a, lo) \subseteq Links
<1>1. ASSUME NEW i \in PendingAt(entries, a, lo, Len(entries))
      PROVE  [action |-> a, entry |-> entries[i].id] \in Links
  <2>1. i \in 1..Len(entries)
    <3>1. i \in lo..Len(entries)
      BY <1>1 DEF PendingAt
    <3>2. Len(entries) \in Nat /\ lo \in Nat /\ 1 <= lo
      OBVIOUS
    <3> QED BY <3>1, <3>2
  <2>2. entries[i] \in Entries
    BY <2>1
  <2> QED BY <2>2 DEF Entries, Links
<1> QED BY <1>1 DEF FirstPendingFrom

LEMMA CurrentOccurrenceType ==
  ASSUME NEW doc \in Documents, NEW a \in Actions, NEW intent \in Sidecars \union {None}
  PROVE  CurrentOccurrence(doc, a, intent) \subseteq Links
<1>1. CASE intent = None /\ doc.pubs = <<>>
  BY <1>1, FirstPendingType DEF CurrentOccurrence, Documents
<1>2. CASE ~(intent = None /\ doc.pubs = <<>>)
  <2> DEFINE latest == IF intent # None THEN intent.pub ELSE Last(doc.pubs)
             linked == {l \in ToSet(latest.links) : l.action = a}
  <2>1. latest \in Publications
    <3>1. CASE intent # None
      BY <3>1 DEF Sidecars
    <3>2. CASE intent = None
      BY <1>2, <3>2 DEF Documents, Last
    <3> QED BY <3>1, <3>2
  <2>2. linked \subseteq Links
    BY <2>1 DEF Publications, ToSet
  <2>3. FirstPendingFrom(doc.entries, a, latest.count + 1) \subseteq Links
    <3>1. latest.count + 1 \in Nat \ {0}
      BY <2>1 DEF Publications
    <3>2. doc.entries \in Seq(Entries)
      BY DEF Documents
    <3> HIDE DEF latest
    <3> QED BY <3>1, <3>2, FirstPendingType
  <2> HIDE DEF latest, linked
  <2>4. CurrentOccurrence(doc, a, intent)
          = IF linked # {} THEN linked ELSE FirstPendingFrom(doc.entries, a, latest.count + 1)
    BY <1>2 DEF CurrentOccurrence, latest, linked
  <2> QED BY <2>2, <2>3, <2>4
<1> QED BY <1>1, <1>2

\* A function over the domain of a sequence is a sequence.
LEMMA MapType ==
  ASSUME NEW S, NEW T, NEW s \in Seq(S), NEW f \in [DOMAIN s -> T]
  PROVE  f \in Seq(T)
OBVIOUS

(***************************************************************************)
(* Planning.                                                               *)
(***************************************************************************)
LEMMA PrepareSetupKeeps ==
  ASSUME IInv, NEW p \in Procs, PrepareSetup(p)
  PROVE  IInv'
<1>1. DataOK'
  BY DEF PrepareSetup, IInv, DataOK
<1>2. PICK plan \in Plans :
        LET Planned(item) == [action |-> item.action, param |-> item.param,
                              human |-> item.human,
                              absent |-> item.action \notin Virtual /\ res[item.action] = "absent"]
        IN Goto(p, "snapshot", [IdleJob EXCEPT !.plan = [i \in DOMAIN plan |-> Planned(plan[i])],
                                               !.seen = sidecar])
  BY DEF PrepareSetup
<1> DEFINE planned == [i \in DOMAIN plan |->
                         [action |-> plan[i].action, param |-> plan[i].param,
                          human |-> plan[i].human,
                          absent |-> plan[i].action \notin Virtual
                                     /\ res[plan[i].action] = "absent"]]
           j == [IdleJob EXCEPT !.plan = planned, !.seen = sidecar]
<1>3. plan \in Seq(PlanItem)
  BY PlansAssumption
<1>4. planned \in [DOMAIN plan -> JobItem]
  <2>1. ASSUME NEW i \in DOMAIN plan PROVE plan[i] \in PlanItem
    BY <1>3
  <2> QED BY <2>1 DEF PlanItem, JobItem
<1>5. planned \in Seq(JobItem)
  BY <1>3, <1>4, MapType
<1>6. Goto(p, "snapshot", j)
  BY <1>2
<1> HIDE DEF planned
<1>7. j \in Jobs
  BY <1>5, IdleJobType DEF Jobs, IInv, DataOK
<1>8. MovesTo(p, "snapshot", j)
  BY <1>7 DEF MovesTo, InHand, Steps, HoldingSteps, DraftSteps, CandidateSteps,
              ApplySteps, PublishSteps, PrepareSetup
<1>9. pc[p] \in LockedSteps <=> "snapshot" \in LockedSteps
  BY DEF PrepareSetup, LockedSteps, ApplySteps, PublishSteps
<1> HIDE DEF j
<1>10. ProcessesOK'
  BY <1>6, <1>8, <1>9, GotoKeeps
<1> QED BY <1>1, <1>10 DEF IInv

LEMMA ReadSnapshotKeeps ==
  ASSUME IInv, NEW p \in Procs, ReadSnapshot(p)
  PROVE  IInv'
<1>1. DataOK'
  BY DEF ReadSnapshot, IInv, DataOK
<1>2. CASE End(p)
  BY <1>1, <1>2, EndKeeps DEF ReadSnapshot, IInv
<1>3. CASE Goto(p, "begin_apply", [job[p] EXCEPT !.seen = None])
  <2> DEFINE j == [job[p] EXCEPT !.seen = None]
  <2>1. j \in Jobs
    BY DEF IInv, ProcessesOK, Jobs
  <2>2. MovesTo(p, "begin_apply", j)
    BY <2>1 DEF MovesTo, InHand, Steps, HoldingSteps, DraftSteps, CandidateSteps,
                ApplySteps, PublishSteps, ReadSnapshot
  <2>3. pc[p] \in LockedSteps <=> "begin_apply" \in LockedSteps
    BY DEF ReadSnapshot, LockedSteps, ApplySteps, PublishSteps
  <2> QED BY <1>1, <1>3, <2>2, <2>3, GotoKeeps DEF IInv
<1> QED BY <1>2, <1>3 DEF ReadSnapshot

(***************************************************************************)
(* The apply protocol.                                                     *)
(***************************************************************************)
\* From one locked step to another.
LEMMA LockedGotoKeeps ==
  ASSUME IInv, NEW p \in Procs, NEW step \in LockedSteps, NEW j \in Jobs,
         pc[p] \in LockedSteps, Goto(p, step, j), InHand(step, j, sidecar')
  PROVE  ProcessesOK'
BY GotoKeeps DEF MovesTo, Steps

LEMMA LockedEndKeeps ==
  ASSUME IInv, NEW p \in Procs, pc[p] \in LockedSteps, End(p)
  PROVE  ProcessesOK'
BY EndKeeps

LEMMA FreshApplyType ==
  ASSUME NEW j \in Jobs
  PROVE  FreshApply(j) \in Jobs
BY IdleJobType DEF FreshApply, Jobs

\* One field of a job after another.
LEMMA JobFields ==
  ASSUME NEW j \in Jobs
  PROVE  /\ \A idx \in Nat : /\ [j EXCEPT !.idx = idx] \in Jobs
                            /\ [j EXCEPT !.idx = idx].idx = idx
         /\ \A held \in Entries \union {None} :
              /\ [j EXCEPT !.held = held] \in Jobs
              /\ [j EXCEPT !.held = held].held = held
              /\ [j EXCEPT !.held = held].idx = j.idx
         /\ \A replay \in BOOLEAN : /\ [j EXCEPT !.replay = replay] \in Jobs
                                   /\ [j EXCEPT !.replay = replay].held = j.held
                                   /\ [j EXCEPT !.replay = replay].idx = j.idx
         /\ \A occurrences \in Seq(Links) :
              /\ [j EXCEPT !.occurrences = occurrences] \in Jobs
              /\ [j EXCEPT !.occurrences = occurrences].idx = j.idx
         /\ \A draft \in Drafts : /\ [j EXCEPT !.draft = draft] \in Jobs
                                 /\ [j EXCEPT !.draft = draft].draft = draft
BY DEF Jobs

LEMMA BeginApplyKeeps ==
  ASSUME IInv, NEW p \in Procs, BeginApply(p)
  PROVE  IInv'
<1>1. DataOK'
  BY DEF BeginApply, IInv, DataOK
<1>2. job[p] \in Jobs /\ FreshApply(job[p]) \in Jobs
  BY FreshApplyType DEF IInv, ProcessesOK
<1>3. CASE End(p)
  BY <1>1, <1>3, EndKeeps DEF BeginApply, IInv
<1>4. CASE Enter(p, "check", [FreshApply(job[p]) EXCEPT !.idx = 1])
  <2> DEFINE j == [FreshApply(job[p]) EXCEPT !.idx = 1]
  <2>1. j \in Jobs /\ j.idx = 1
    BY <1>2, JobFields
  <2>2. Enter(p, "check", j)
    BY <1>4
  <2> HIDE DEF j
  <2>3. lock = None /\ UNCHANGED sidecar
    BY DEF BeginApply
  <2>4. "check" \in LockedSteps /\ "check" \in Steps
    BY DEF Steps, LockedSteps, ApplySteps
  <2>5. InHand("check", j, sidecar')
    BY <2>1 DEF InHand, HoldingSteps, DraftSteps, CandidateSteps, PublishSteps
  <2>6. MovesTo(p, "check", j)
    BY <2>1, <2>3, <2>4, <2>5 DEF MovesTo
  <2> QED BY <1>1, <2>2, <2>3, <2>4, <2>6, EnterKeeps DEF IInv
<1>5. ASSUME NEW i \in intents, RecoveryStep(p, i) # "refuse",
             Enter(p, RecoveryStep(p, i),
                   [FreshApply(job[p]) EXCEPT !.held = i.entry,
                                              !.replay = (i.phase = "succeeded")])
      PROVE  IInv'
  <2> DEFINE j == [FreshApply(job[p]) EXCEPT !.held = i.entry,
                                             !.replay = (i.phase = "succeeded")]
  <2>1. i.phase \in {"torn", "prepared", "succeeded"} /\ i.entry \in Entries
    BY DEF IInv, DataOK, Intents
  <2>2. j \in Jobs /\ j.held = i.entry
    <3> DEFINE j1 == [FreshApply(job[p]) EXCEPT !.held = i.entry]
    <3>1. j1 \in Jobs /\ j1.held = i.entry
      BY <1>2, <2>1, JobFields
    <3>2. [j1 EXCEPT !.replay = (i.phase = "succeeded")] \in Jobs
          /\ [j1 EXCEPT !.replay = (i.phase = "succeeded")].held = j1.held
      <4> HIDE DEF j1
      <4> QED BY <3>1, JobFields
    <3> QED BY <3>1, <3>2
  <2>3. RecoveryStep(p, i) \in {"append", "execute"}
    BY <1>5, <2>1 DEF RecoveryStep
  <2>4. InHand(RecoveryStep(p, i), j, sidecar')
    <3> HIDE DEF j
    <3> QED BY <2>1, <2>2, <2>3 DEF InHand, HoldingSteps, DraftSteps, CandidateSteps, PublishSteps
  <2>5. RecoveryStep(p, i) \in Steps /\ RecoveryStep(p, i) \in LockedSteps
    BY <2>3 DEF Steps, LockedSteps, ApplySteps
  <2>6. lock = None /\ UNCHANGED sidecar
    BY DEF BeginApply
  <2> DEFINE step == RecoveryStep(p, i)
  <2>7. Enter(p, step, j)
    BY <1>5
  <2> HIDE DEF j, step
  <2>8. MovesTo(p, step, j)
    BY <2>2, <2>4, <2>5, <2>6 DEF MovesTo, step
  <2> QED BY <1>1, <2>5, <2>6, <2>7, <2>8, EnterKeeps DEF IInv, step
<1> QED BY <1>3, <1>4, <1>5 DEF BeginApply

LEMMA NextActionKeeps ==
  ASSUME IInv, NEW p \in Procs, pc[p] \in LockedSteps, NextAction(p)
  PROVE  ProcessesOK'
<1> DEFINE j == [job[p] EXCEPT !.idx = @ + 1, !.held = None, !.replay = FALSE]
<1>1. job[p] \in Jobs
  BY DEF IInv, ProcessesOK
<1>2. j \in Jobs /\ j.idx = job[p].idx + 1
  <2> DEFINE j1 == [job[p] EXCEPT !.idx = job[p].idx + 1]
             j2 == [j1 EXCEPT !.held = None]
  <2>1. job[p].idx + 1 \in Nat
    BY <1>1 DEF Jobs
  <2>2. j1 \in Jobs /\ j1.idx = job[p].idx + 1
    BY <1>1, <2>1, JobFields
  <2> HIDE DEF j1
  <2>3. j2 \in Jobs /\ j2.idx = j1.idx
    BY <2>2, JobFields
  <2> HIDE DEF j2
  <2>4. [j2 EXCEPT !.replay = FALSE] \in Jobs /\ [j2 EXCEPT !.replay = FALSE].idx = j2.idx
    BY <2>3, JobFields
  <2> QED BY <2>2, <2>3, <2>4 DEF j1, j2
<1> HIDE DEF j
<1>3. InHand("check", j, sidecar') /\ "check" \in LockedSteps
  <2> job[p].idx \in Nat
    BY <1>1 DEF Jobs
  <2> QED BY <1>2 DEF InHand, LockedSteps, HoldingSteps, DraftSteps, CandidateSteps, ApplySteps,
                      PublishSteps
<1>4. Goto(p, "check", j)
  BY DEF NextAction, j
<1> QED BY <1>2, <1>3, <1>4, LockedGotoKeeps

\* What a process at a given step has in hand.
LEMMA CheckHolds ==
  ASSUME IInv, NEW p \in Procs, pc[p] = "check"
  PROVE  /\ pc[p] \in LockedSteps /\ job[p] \in Jobs /\ job[p].idx # 0
         /\ job[p].idx <= Len(job[p].plan) => PlannedItem(p) \in JobItem
<1>1. pc[p] \in LockedSteps /\ job[p] \in Jobs /\ job[p].idx # 0
  BY DEF IInv, ProcessesOK, InHand, LockedSteps, ApplySteps
<1>2. job[p].plan \in Seq(JobItem) /\ job[p].idx \in Nat
  BY <1>1 DEF Jobs
<1>3. job[p].idx <= Len(job[p].plan) => job[p].plan[job[p].idx] \in JobItem
  BY <1>1, <1>2
<1> QED BY <1>1, <1>3 DEF PlannedItem

LEMMA HoldingHolds ==
  ASSUME IInv, NEW p \in Procs, pc[p] \in HoldingSteps
  PROVE  /\ pc[p] \in LockedSteps /\ job[p] \in Jobs
         /\ job[p].held \in Entries /\ HeldAction(p) \in Actions
<1>1. pc[p] \in LockedSteps /\ job[p] \in Jobs /\ job[p].held \in Entries
  BY DEF IInv, ProcessesOK, InHand, LockedSteps, HoldingSteps
<1> QED BY <1>1 DEF HeldAction, Entries

\* Going on with the entry in hand.
LEMMA HoldingGotoKeeps ==
  ASSUME IInv, NEW p \in Procs, pc[p] \in LockedSteps, NEW step \in HoldingSteps,
         NEW j \in Jobs, j.held \in Entries, Goto(p, step, j)
  PROVE  ProcessesOK'
<1>1. step \in LockedSteps
  BY DEF HoldingSteps, LockedSteps
<1>2. InHand(step, j, sidecar')
  BY DEF InHand, HoldingSteps, DraftSteps, CandidateSteps, ApplySteps, PublishSteps
<1> QED BY <1>1, <1>2, LockedGotoKeeps

LEMMA SkipDoneKeeps ==
  ASSUME IInv, NEW p \in Procs, SkipDone(p)
  PROVE  IInv'
<1>1. DataOK'
  BY DEF SkipDone, IInv, DataOK
<1> QED BY <1>1, NextActionKeeps, CheckHolds DEF SkipDone, IInv

LEMMA CreateIntentKeeps ==
  ASSUME IInv, NEW p \in Procs, CreateIntent(p)
  PROVE  IInv'
<1> DEFINE entry == [id |-> nextId, action |-> PlannedItem(p).action,
                     param |-> PlannedItem(p).param, status |-> "applied"]
<1>1. pc[p] \in LockedSteps /\ job[p] \in Jobs /\ PlannedItem(p) \in JobItem
  BY CheckHolds DEF CreateIntent
<1>2. entry \in Entries
  BY <1>1 DEF JobItem, Entries, IInv, DataOK
<1>3. DataOK'
  <2>1. budget' \in Budgets
    BY ChargeType DEF CreateIntent
  <2>2. intents' \subseteq Intents
    BY <1>2 DEF CreateIntent, IInv, DataOK, Intents, Torn
  <2> QED BY <2>1, <2>2 DEF CreateIntent, IInv, DataOK
<1>4. CASE End(p)
  BY <1>1, <1>3, <1>4, LockedEndKeeps DEF IInv
<1>5. CASE Goto(p, "write_intent", [job[p] EXCEPT !.held = entry])
  <2> HIDE DEF entry
  <2>1. [job[p] EXCEPT !.held = entry] \in Jobs
        /\ [job[p] EXCEPT !.held = entry].held = entry
    BY <1>1, <1>2 DEF Jobs
  <2>2. "write_intent" \in HoldingSteps
    BY DEF HoldingSteps, ApplySteps
  <2> QED BY <1>1, <1>2, <1>3, <1>5, <2>1, <2>2, HoldingGotoKeeps DEF IInv
<1> QED BY <1>4, <1>5 DEF CreateIntent

LEMMA WriteIntentKeeps ==
  ASSUME IInv, NEW p \in Procs, WriteIntent(p)
  PROVE  IInv'
<1>1. pc[p] \in LockedSteps /\ job[p] \in Jobs /\ job[p].held \in Entries
  BY HoldingHolds DEF WriteIntent, HoldingSteps, ApplySteps
<1>2. DataOK'
  <2>1. budget' \in Budgets
    BY ChargeType DEF WriteIntent
  <2>2. Prepared(job[p].held) \in Intents
    BY <1>1 DEF Prepared, Intents
  <2>3. intents' \subseteq Intents
    BY <2>2 DEF WriteIntent, IInv, DataOK
  <2> QED BY <2>1, <2>3 DEF WriteIntent, IInv, DataOK
<1>3. CASE End(p)
  BY <1>1, <1>2, <1>3, LockedEndKeeps DEF IInv
<1>4. CASE Goto(p, "execute", job[p])
  BY <1>1, <1>2, <1>4, HoldingGotoKeeps DEF IInv, HoldingSteps, ApplySteps
<1> QED BY <1>3, <1>4 DEF WriteIntent

LEMMA ExecuteKeeps ==
  ASSUME IInv, NEW p \in Procs, Execute(p)
  PROVE  IInv'
<1>1. /\ pc[p] \in LockedSteps /\ job[p] \in Jobs
      /\ job[p].held \in Entries /\ HeldAction(p) \in Actions
  BY HoldingHolds DEF Execute, HoldingSteps, ApplySteps
<1>2. DataOK'
  <2>1. budget' \in Budgets
    BY ChargeType DEF Execute
  <2>2. res' \in [Actions -> ResourceStates]
    BY DEF Execute, IInv, DataOK, ResourceStates
  <2>3. made' \subseteq Nat
    BY <1>1 DEF Execute, IInv, DataOK, Entries
  <2> QED BY <2>1, <2>2, <2>3 DEF Execute, IInv, DataOK
<1>3. CASE End(p)
  BY <1>1, <1>2, <1>3, LockedEndKeeps DEF IInv
<1>4. ASSUME NEW late \in BOOLEAN, Goto(p, "bind", [job[p] EXCEPT !.failing = late])
      PROVE  IInv'
  <2>1. [job[p] EXCEPT !.failing = late] \in Jobs
        /\ [job[p] EXCEPT !.failing = late].held = job[p].held
    BY <1>1 DEF Jobs
  <2>2. "bind" \in HoldingSteps
    BY DEF HoldingSteps, ApplySteps
  <2> QED BY <1>1, <1>2, <1>4, <2>1, <2>2, HoldingGotoKeeps DEF IInv
<1> QED BY <1>3, <1>4 DEF Execute

LEMMA MarkSucceededKeeps ==
  ASSUME IInv, NEW p \in Procs, MarkSucceeded(p)
  PROVE  IInv'
<1>1. pc[p] \in LockedSteps /\ job[p] \in Jobs /\ job[p].held \in Entries
  BY HoldingHolds DEF MarkSucceeded, HoldingSteps, ApplySteps
<1>2. DataOK'
  <2>1. budget' \in Budgets
    BY ChargeType DEF MarkSucceeded
  <2>2. Succeeded(job[p].held) \in Intents
    BY <1>1 DEF Succeeded, Intents
  <2>3. intents' \subseteq Intents
    BY <2>2 DEF MarkSucceeded, IInv, DataOK
  <2> QED BY <2>1, <2>3 DEF MarkSucceeded, IInv, DataOK
<1>3. CASE End(p)
  BY <1>1, <1>2, <1>3, LockedEndKeeps DEF IInv
<1>4. CASE Goto(p, "append", job[p])
  BY <1>1, <1>2, <1>4, HoldingGotoKeeps DEF IInv, HoldingSteps, ApplySteps
<1> QED BY <1>3, <1>4 DEF MarkSucceeded

LEMMA AppendedType ==
  ASSUME NEW doc \in Documents, NEW entry \in Entries
  PROVE  [doc EXCEPT !.entries = Append(@, entry)] \in Documents
<1>1. Append(doc.entries, entry) \in Seq(Entries)
  BY DEF Documents
<1> QED BY <1>1 DEF Documents

LEMMA AppendEntryKeeps ==
  ASSUME IInv, NEW p \in Procs, AppendEntry(p)
  PROVE  IInv'
<1>1. pc[p] \in LockedSteps /\ job[p] \in Jobs /\ job[p].held \in Entries
  BY HoldingHolds DEF AppendEntry, HoldingSteps, ApplySteps
<1>2. DataOK'
  <2>1. budget' \in Budgets
    BY ChargeType DEF AppendEntry, IInv, DataOK
  <2>2. [Document EXCEPT !.entries = Append(@, job[p].held)] \in Documents
    BY <1>1, DocumentType, AppendedType DEF IInv
  <2>3. receipt' \in Documents \union {None}
    BY <2>2 DEF AppendEntry, IInv, DataOK
  <2> QED BY <2>1, <2>3 DEF AppendEntry, IInv, DataOK
<1>3. CASE End(p)
  BY <1>1, <1>2, <1>3, LockedEndKeeps DEF IInv
<1>4. "retire_evidence" \in HoldingSteps
  BY DEF HoldingSteps, ApplySteps
<1>5. CASE Goto(p, "retire_evidence", job[p])
  BY <1>1, <1>2, <1>4, <1>5, HoldingGotoKeeps DEF IInv
<1>6. CASE Goto(p, "retire_evidence", [job[p] EXCEPT !.keeping = TRUE])
  <2>1. [job[p] EXCEPT !.keeping = TRUE] \in Jobs
        /\ [job[p] EXCEPT !.keeping = TRUE].held = job[p].held
    BY <1>1 DEF Jobs
  <2> QED BY <1>1, <1>2, <1>4, <1>6, <2>1, HoldingGotoKeeps DEF IInv
<1> QED BY <1>3, <1>5, <1>6 DEF AppendEntry, AppendFailed

LEMMA RetireEvidenceKeeps ==
  ASSUME IInv, NEW p \in Procs, RetireEvidence(p)
  PROVE  IInv'
<1>1. pc[p] \in LockedSteps /\ job[p] \in Jobs /\ job[p].held \in Entries
  BY HoldingHolds DEF RetireEvidence, HoldingSteps, ApplySteps
<1>2. DataOK'
  <2>1. budget' \in Budgets
    BY ChargeType DEF RetireEvidence, IInv, DataOK
  <2>2. res' \in [Actions -> ResourceStates]
    BY DEF RetireEvidence, IInv, DataOK, ResourceStates
  <2> QED BY <2>1, <2>2 DEF RetireEvidence, IInv, DataOK
<1>3. CASE End(p)
  BY <1>1, <1>2, <1>3, LockedEndKeeps DEF IInv
<1>4. CASE Goto(p, "retire_intent", job[p])
  BY <1>1, <1>2, <1>4, HoldingGotoKeeps DEF IInv, HoldingSteps, ApplySteps
<1> QED BY <1>3, <1>4 DEF RetireEvidence

LEMMA RetireIntentKeeps ==
  ASSUME IInv, NEW p \in Procs, RetireIntent(p)
  PROVE  IInv'
<1>1. pc[p] \in LockedSteps
  BY HoldingHolds DEF RetireIntent, HoldingSteps, ApplySteps
<1>2. DataOK'
  <2>1. budget' \in Budgets
    BY ChargeType DEF RetireIntent
  <2> QED BY <2>1 DEF RetireIntent, IInv, DataOK
<1>3. CASE End(p)
  BY <1>1, <1>2, <1>3, LockedEndKeeps DEF IInv
<1>4. CASE NextAction(p)
  BY <1>1, <1>2, <1>4, NextActionKeeps DEF IInv
<1> QED BY <1>3, <1>4 DEF RetireIntent

LEMMA NotedKeeps ==
  ASSUME IInv, NEW p \in Procs, pc[p] = "check", NEW link \in Links, Noted(p, link)
  PROVE  ProcessesOK'
<1> DEFINE j1 == [job[p] EXCEPT !.idx = job[p].idx + 1]
           occurrences == Append(job[p].occurrences, link)
           j == [j1 EXCEPT !.occurrences = occurrences]
<1>1. job[p] \in Jobs /\ pc[p] \in LockedSteps
  BY CheckHolds
<1>2. job[p].idx + 1 \in Nat /\ job[p].idx + 1 # 0
  BY <1>1 DEF Jobs
<1>3. j1 \in Jobs /\ j1.idx = job[p].idx + 1
  BY <1>1, <1>2, JobFields
<1>4. occurrences \in Seq(Links)
  BY <1>1 DEF Jobs
<1>5. Goto(p, "check", j)
  BY DEF Noted
<1> HIDE DEF j1, occurrences
<1>6. j \in Jobs /\ j.idx # 0
  BY <1>2, <1>3, <1>4, JobFields
<1> HIDE DEF j
<1>7. InHand("check", j, sidecar') /\ "check" \in LockedSteps
  BY <1>6 DEF InHand, LockedSteps, HoldingSteps, DraftSteps, CandidateSteps, ApplySteps,
              PublishSteps
<1> QED BY <1>1, <1>5, <1>6, <1>7, LockedGotoKeeps

LEMMA RecordPendingKeeps ==
  ASSUME IInv, NEW p \in Procs, RecordPending(p)
  PROVE  IInv'
<1> DEFINE item == PlannedItem(p)
           entry == [id |-> nextId, action |-> item.action, param |-> item.param,
                     status |-> "pending"]
           current == CurrentOccurrence(Document, item.action, sidecar)
<1>1. pc[p] = "check" /\ pc[p] \in LockedSteps /\ item \in JobItem
  BY CheckHolds DEF RecordPending
<1>2. entry \in Entries /\ item.action \in Actions
  BY <1>1 DEF JobItem, Entries, IInv, DataOK
<1>3. current \subseteq Links
  BY <1>2, DocumentType, CurrentOccurrenceType DEF IInv, DataOK
<1>4. [action |-> entry.action, entry |-> entry.id] \in Links
  BY <1>2 DEF Entries, Links
<1>5. DataOK' /\ (NewOccurrence(p, item) \/ \E link \in current : ReuseOccurrence(p, item, link))
  <2>1. [Document EXCEPT !.entries = Append(@, entry)] \in Documents
    BY <1>2, DocumentType, AppendedType DEF IInv
  <2>2. CASE NewOccurrence(p, item)
    <3>1. budget' \in Budgets
      BY <2>2, ChargeType DEF NewOccurrence, IInv, DataOK
    <3>2. /\ nextId' = nextId + 1
          /\ receipt' = receipt \/ receipt' = [Document EXCEPT !.entries = Append(@, entry)]
      BY <2>2 DEF NewOccurrence
    <3>3. receipt \in Documents \union {None} /\ nextId \in Nat
      BY DEF IInv, DataOK
    <3>4. receipt' \in Documents \union {None}
      BY <2>1, <3>2, <3>3
    <3>5. nextId' \in Nat
      BY <3>2, <3>3
    <3>6. UNCHANGED <<intents, sidecar, manifest, res, made>>
      BY DEF RecordPending
    <3> QED BY <2>2, <3>1, <3>4, <3>5, <3>6 DEF IInv, DataOK
  <2>3. CASE \E link \in current : ReuseOccurrence(p, item, link)
    BY <2>3 DEF RecordPending, ReuseOccurrence, IInv, DataOK
  <2> QED BY <2>2, <2>3 DEF RecordPending
<1>6. CASE End(p)
  BY <1>1, <1>5, <1>6, LockedEndKeeps DEF IInv
<1>7. ASSUME NEW link \in Links, Noted(p, link) PROVE IInv'
  BY <1>1, <1>5, <1>7, NotedKeeps DEF IInv
<1> HIDE DEF item, current
<1>8. CASE NewOccurrence(p, item)
  BY <1>4, <1>6, <1>7, <1>8 DEF NewOccurrence
<1>9. CASE \E link \in current : ReuseOccurrence(p, item, link)
  BY <1>3, <1>6, <1>7, <1>9 DEF ReuseOccurrence
<1> QED BY <1>5, <1>8, <1>9

LEMMA CompleteExecutionKeeps ==
  ASSUME IInv, NEW p \in Procs, CompleteExecution(p)
  PROVE  IInv'
<1>1. DataOK'
  BY DEF CompleteExecution, IInv, DataOK
<1>2. pc[p] \in LockedSteps /\ job[p] \in Jobs
  BY CheckHolds DEF CompleteExecution
<1>3. CASE End(p)
  BY <1>1, <1>2, <1>3, LockedEndKeeps DEF IInv
<1>4. CASE Leave(p, "applied", [job[p] EXCEPT !.witness = Effective(Document, sidecar)])
  <2> DEFINE j == [job[p] EXCEPT !.witness = Effective(Document, sidecar)]
  <2>1. Effective(Document, sidecar) \in Documents
    BY DocumentType, EffectiveType DEF IInv, DataOK
  <2>2. j \in Jobs
    BY <1>2, <2>1 DEF Jobs
  <2>3. Leave(p, "applied", j)
    BY <1>4
  <2> HIDE DEF j
  <2>4. MovesTo(p, "applied", j)
    BY <1>2, <2>2 DEF MovesTo, Steps, InHand, HoldingSteps, DraftSteps, CandidateSteps,
                      ApplySteps, PublishSteps
  <2>5. "applied" \notin LockedSteps
    BY DEF LockedSteps, ApplySteps, PublishSteps
  <2> QED BY <1>1, <2>3, <2>4, <2>5, LeaveKeeps DEF IInv
<1> QED BY <1>3, <1>4 DEF CompleteExecution

(***************************************************************************)
(* The publication protocol.                                               *)
(***************************************************************************)
LEMMA BeginPublicationKeeps ==
  ASSUME IInv, NEW p \in Procs, BeginPublication(p)
  PROVE  IInv'
<1>1. DataOK'
  BY DEF BeginPublication, IInv, DataOK
<1>2. pc[p] = "begin_publication" /\ lock = None /\ UNCHANGED sidecar
  BY DEF BeginPublication
<1>3. job[p] \in Jobs /\ job[p].draft \in Drafts
  BY <1>2 DEF IInv, ProcessesOK, InHand, DraftSteps
<1>4. CASE End(p)
  BY <1>1, <1>2, <1>4, EndKeeps DEF IInv
<1>5. CASE Enter(p, "recover", job[p])
  <2>1. "recover" \in LockedSteps /\ "recover" \in Steps
    BY DEF Steps, LockedSteps, PublishSteps
  <2>2. InHand("recover", job[p], sidecar')
    BY <1>3 DEF InHand, HoldingSteps, CandidateSteps, ApplySteps
  <2>3. MovesTo(p, "recover", job[p])
    BY <1>2, <1>3, <2>1, <2>2 DEF MovesTo
  <2> QED BY <1>1, <1>2, <1>5, <2>1, <2>3, EnterKeeps DEF IInv
<1>6. CASE Leave(p, "begin_apply", [job[p] EXCEPT !.retries = @ + 1])
  <2> DEFINE j == [job[p] EXCEPT !.retries = @ + 1]
  <2>1. j \in Jobs
    BY <1>3, SMTT(60) DEF Jobs
  <2>2. Leave(p, "begin_apply", j)
    BY <1>6
  <2> HIDE DEF j
  <2>3. MovesTo(p, "begin_apply", j)
    BY <1>2, <2>1 DEF MovesTo, Steps, InHand, HoldingSteps, DraftSteps, CandidateSteps,
                      ApplySteps, PublishSteps
  <2>4. "begin_apply" \notin LockedSteps
    BY DEF LockedSteps, ApplySteps, PublishSteps
  <2> QED BY <1>1, <2>2, <2>3, <2>4, LeaveKeeps DEF IInv
<1> QED BY <1>4, <1>5, <1>6 DEF BeginPublication

\* What a process that publishes has in hand.
LEMMA PublishingHolds ==
  ASSUME IInv, NEW p \in Procs, pc[p] \in PublishSteps
  PROVE  /\ pc[p] \in LockedSteps /\ job[p] \in Jobs /\ job[p].draft \in Drafts
         /\ pc[p] \in CandidateSteps => sidecar \in Sidecars
BY DEF IInv, ProcessesOK, InHand, LockedSteps, DraftSteps

\* Going on with the publication.
LEMMA PublishingGotoKeeps ==
  ASSUME IInv, NEW p \in Procs, pc[p] \in PublishSteps, NEW step \in PublishSteps,
         Goto(p, step, job[p]), step \in CandidateSteps => sidecar' \in Sidecars
  PROVE  ProcessesOK'
<1>1. pc[p] \in LockedSteps /\ job[p] \in Jobs /\ job[p].draft \in Drafts
  BY PublishingHolds
<1>2. step \in LockedSteps
  BY DEF LockedSteps
<1>3. InHand(step, job[p], sidecar')
  BY <1>1 DEF InHand, HoldingSteps, ApplySteps, PublishSteps
<1> QED BY <1>1, <1>2, <1>3, LockedGotoKeeps

LEMMA RecoverKeeps ==
  ASSUME IInv, NEW p \in Procs, Recover(p)
  PROVE  IInv'
<1>1. pc[p] \in PublishSteps /\ pc[p] \in LockedSteps
  BY DEF Recover, PublishSteps, LockedSteps
<1>2. DataOK'
  <2>1. budget' \in Budgets
    BY ChargeType DEF Recover, ReplaceManifest, IInv, DataOK
  <2>2. manifest' \in Manifests \union {None}
    BY DEF Recover, ReplaceManifest, IInv, DataOK, Sidecars
  <2> QED BY <2>1, <2>2 DEF Recover, IInv, DataOK
<1>3. CASE End(p)
  BY <1>1, <1>2, <1>3, LockedEndKeeps DEF IInv
<1>4. CASE sidecar = None /\ Goto(p, "prepare_publication", job[p])
  BY <1>1, <1>2, <1>4, PublishingGotoKeeps DEF IInv, PublishSteps, CandidateSteps
<1>5. CASE sidecar # None /\ Goto(p, "recover_checkpoint", job[p])
  <2>1. sidecar' \in Sidecars
    BY <1>5 DEF Recover, IInv, DataOK
  <2> QED BY <1>1, <1>2, <1>5, <2>1, PublishingGotoKeeps DEF IInv, PublishSteps
<1> QED BY <1>3, <1>4, <1>5 DEF Recover, ReplaceManifest

LEMMA PublishedType ==
  ASSUME NEW doc \in Documents, NEW pub \in Publications
  PROVE  [doc EXCEPT !.pubs = Append(@, pub)] \in Documents
<1>1. Append(doc.pubs, pub) \in Seq(Publications)
  BY DEF Documents
<1> QED BY <1>1 DEF Documents

LEMMA CheckpointKeeps ==
  ASSUME IInv, NEW p \in Procs, Checkpoint(p)
  PROVE  IInv'
<1>1. pc[p] \in PublishSteps /\ pc[p] \in LockedSteps /\ pc[p] \in CandidateSteps
  BY DEF Checkpoint, PublishSteps, LockedSteps, CandidateSteps
<1>2. sidecar.pub \in Publications
  BY <1>1, PublishingHolds DEF Sidecars
<1>3. DataOK'
  <2>1. budget' \in Budgets
    BY ChargeType DEF Checkpoint, IInv, DataOK
  <2>2. [Document EXCEPT !.pubs = Append(@, sidecar.pub)] \in Documents
    BY <1>2, DocumentType, PublishedType DEF IInv
  <2>3. receipt' \in Documents \union {None}
    BY <2>2 DEF Checkpoint, CheckpointBase, IInv, DataOK
  <2> QED BY <2>1, <2>3 DEF Checkpoint, IInv, DataOK
<1>4. CASE End(p)
  BY <1>1, <1>3, <1>4, LockedEndKeeps DEF IInv
<1>5. CASE Goto(p, AfterCheckpoint(p), job[p])
  <2>1. AfterCheckpoint(p) \in PublishSteps /\ AfterCheckpoint(p) \notin CandidateSteps
    BY DEF AfterCheckpoint, PublishSteps, CandidateSteps
  <2> QED BY <1>1, <1>3, <1>5, <2>1, PublishingGotoKeeps DEF IInv
<1> QED BY <1>4, <1>5 DEF Checkpoint

LEMMA RemoveSidecarKeeps ==
  ASSUME IInv, NEW p \in Procs, RemoveSidecar(p)
  PROVE  IInv'
<1>1. pc[p] \in PublishSteps /\ pc[p] \in LockedSteps
  BY DEF RemoveSidecar, PublishSteps, LockedSteps
<1>2. DataOK'
  <2>1. budget' \in Budgets
    BY ChargeType DEF RemoveSidecar
  <2> QED BY <2>1 DEF RemoveSidecar, IInv, DataOK
<1>3. CASE End(p)
  BY <1>1, <1>2, <1>3, LockedEndKeeps DEF IInv
<1>4. CASE Goto(p, "prepare_publication", job[p])
  BY <1>1, <1>2, <1>4, PublishingGotoKeeps DEF IInv, PublishSteps, CandidateSteps
<1> QED BY <1>3, <1>4 DEF RemoveSidecar

LEMMA CandidateType ==
  ASSUME IInv, NEW p \in Procs, pc[p] \in PublishSteps
  PROVE  Candidate(p) \in Manifests /\ NewPublication(p) \in Publications
<1> DEFINE pending == [i \in DOMAIN job[p].occurrences |-> job[p].occurrences[i].action]
           mid == IF manifest = None THEN nextId ELSE manifest.mid
<1>1. job[p] \in Jobs /\ job[p].draft \in Drafts
  BY PublishingHolds
<1>2. job[p].occurrences \in Seq(Links)
  BY <1>1 DEF Jobs
<1>3. pending \in [DOMAIN job[p].occurrences -> Actions]
  <2>1. ASSUME NEW i \in DOMAIN job[p].occurrences PROVE job[p].occurrences[i] \in Links
    BY <1>2
  <2> QED BY <2>1 DEF Links
<1>4. pending \in Seq(Actions)
  BY <1>2, <1>3, MapType
<1>5. mid \in Nat
  BY DEF IInv, DataOK, Manifests
<1>6. Candidate(p) = [mid |-> mid, draft |-> job[p].draft, pending |-> pending]
  BY DEF Candidate
<1> HIDE DEF pending, mid
<1>7. Candidate(p) \in Manifests
  BY <1>1, <1>4, <1>5, <1>6 DEF Manifests
<1>8. Document.entries \in Seq(Entries)
  BY DocumentType DEF IInv, Documents
<1>9. nextId + 1 \in Nat /\ Len(Document.entries) \in Nat /\ job[p].occurrences \in Seq(Links)
  BY <1>2, <1>8 DEF IInv, DataOK
<1>10. NewPublication(p) \in Publications
  BY <1>9 DEF NewPublication, Publications
<1> QED BY <1>7, <1>10

LEMMA PreparePublicationKeeps ==
  ASSUME IInv, NEW p \in Procs, PreparePublication(p)
  PROVE  IInv'
<1> DEFINE written == [ pubCount |-> Len(Document.pubs), prefix |-> Document,
                        pub |-> NewPublication(p), before |-> manifest, after |-> Candidate(p) ]
<1>1. pc[p] \in PublishSteps /\ pc[p] \in LockedSteps
  BY DEF PreparePublication, PublishSteps, LockedSteps
<1>2. Candidate(p) \in Manifests /\ NewPublication(p) \in Publications
  BY <1>1, CandidateType
<1>3. written \in Sidecars
  <2>1. Document \in Documents /\ manifest \in Manifests \union {None}
    BY DocumentType DEF IInv, DataOK
  <2>2. Len(Document.pubs) \in Nat
    BY <2>1 DEF Documents
  <2> QED BY <1>2, <2>1, <2>2 DEF Sidecars
<1> HIDE DEF written
<1>4. DataOK'
  <2>1. budget' \in Budgets
    BY ChargeType DEF PreparePublication, PublishSidecar, IInv, DataOK
  <2>2. manifest' \in Manifests \union {None}
    BY <1>2 DEF PreparePublication, IInv, DataOK
  <2>3. sidecar' \in Sidecars \union {None}
    BY <1>3 DEF PreparePublication, PublishSidecar, IInv, DataOK, written
  <2>4. nextId' \in Nat
    BY DEF PreparePublication, IInv, DataOK
  <2> QED BY <2>1, <2>2, <2>3, <2>4 DEF PreparePublication, IInv, DataOK
<1>5. CASE End(p)
  BY <1>1, <1>4, <1>5, LockedEndKeeps DEF IInv
<1>6. CASE PublishSidecar(p)
  <2>1. CASE sidecar' = written /\ Goto(p, "replace_manifest", job[p])
    BY <1>1, <1>3, <1>4, <2>1, PublishingGotoKeeps DEF IInv, PublishSteps
  <2> QED BY <1>5, <1>6, <2>1 DEF PublishSidecar, Happened, written
<1> QED BY <1>5, <1>6 DEF PreparePublication

LEMMA PublishManifestKeeps ==
  ASSUME IInv, NEW p \in Procs, PublishManifest(p)
  PROVE  IInv'
<1>1. pc[p] \in PublishSteps /\ pc[p] \in LockedSteps /\ pc[p] \in CandidateSteps
  BY DEF PublishManifest, PublishSteps, LockedSteps, CandidateSteps
<1>2. sidecar \in Sidecars /\ UNCHANGED sidecar
  BY <1>1, PublishingHolds DEF PublishManifest
<1>3. DataOK'
  <2>1. budget' \in Budgets
    BY ChargeType DEF PublishManifest, ReplaceManifest, IInv, DataOK
  <2>2. manifest' \in Manifests \union {None}
    BY <1>2 DEF PublishManifest, ReplaceManifest, IInv, DataOK, Sidecars
  <2> QED BY <2>1, <2>2 DEF PublishManifest, IInv, DataOK
<1>4. CASE End(p)
  BY <1>1, <1>3, <1>4, LockedEndKeeps DEF IInv
<1>5. CASE Goto(p, "checkpoint", job[p])
  BY <1>1, <1>2, <1>3, <1>5, PublishingGotoKeeps DEF IInv, PublishSteps
<1> QED BY <1>4, <1>5 DEF PublishManifest, ReplaceManifest

(***************************************************************************)
(* The second probe, crashes and the environment.                          *)
(***************************************************************************)
LEMMA FlippedCardType ==
  ASSUME NEW p \in Procs, job[p] \in Jobs
  PROVE  FlippedCard(p) \in Seq(JobItem)
<1>1. job[p].plan \in Seq(JobItem)
  BY DEF Jobs
<1>2. ASSUME NEW i \in DOMAIN job[p].plan
      PROVE  /\ job[p].plan[i] \in JobItem
             /\ [job[p].plan[i] EXCEPT !.human = ~@] \in JobItem
  <2>1. job[p].plan[i] \in JobItem
    BY <1>1
  <2> QED BY <2>1 DEF JobItem
<1>3. FlippedCard(p) \in [DOMAIN job[p].plan -> JobItem]
  BY <1>2 DEF FlippedCard
<1> QED BY <1>1, <1>3, MapType

LEMMA ProbeAgainKeeps ==
  ASSUME IInv, NEW p \in Procs, ProbeAgain(p)
  PROVE  IInv'
<1>1. DataOK'
  BY DEF ProbeAgain, IInv, DataOK
<1>2. pc[p] = "applied" /\ job[p] \in Jobs /\ UNCHANGED sidecar
  BY DEF ProbeAgain, IInv, ProcessesOK
<1>3. /\ pc[p] \notin LockedSteps /\ "begin_publication" \notin LockedSteps
      /\ "begin_apply" \notin LockedSteps
      /\ "begin_publication" \in Steps /\ "begin_apply" \in Steps
  BY <1>2 DEF Steps, LockedSteps, ApplySteps, PublishSteps
<1>4. ASSUME NEW j \in Jobs, j.draft \in Drafts, Goto(p, "begin_publication", j)
      PROVE  IInv'
  <2>1. InHand("begin_publication", j, sidecar')
    BY <1>4 DEF InHand, HoldingSteps, CandidateSteps, ApplySteps
  <2>2. MovesTo(p, "begin_publication", j)
    BY <1>2, <1>3, <2>1 DEF MovesTo
  <2> QED BY <1>1, <1>3, <1>4, <2>2, GotoKeeps DEF IInv
<1>5. ASSUME NEW j \in Jobs, Goto(p, "begin_apply", j)
      PROVE  IInv'
  <2>1. InHand("begin_apply", j, sidecar')
    BY DEF InHand, HoldingSteps, DraftSteps, CandidateSteps, ApplySteps, PublishSteps
  <2>2. MovesTo(p, "begin_apply", j)
    BY <1>2, <1>3, <2>1 DEF MovesTo
  <2> QED BY <1>1, <1>3, <1>5, <2>2, GotoKeeps DEF IInv
<1>6. CASE job[p].draft # None /\ Goto(p, "begin_publication", job[p])
  BY <1>2, <1>4, <1>6 DEF Jobs
<1>7. ASSUME NEW draft \in Drafts,
             \/ Goto(p, "begin_publication", [job[p] EXCEPT !.draft = draft])
             \/ Goto(p, "begin_apply", [job[p] EXCEPT !.draft = draft, !.plan = FlippedCard(p)])
      PROVE  IInv'
  <2> DEFINE j1 == [job[p] EXCEPT !.draft = draft]
             j2 == [j1 EXCEPT !.plan = FlippedCard(p)]
  <2>1. j1 \in Jobs /\ j1.draft \in Drafts
    BY <1>2, JobFields
  <2>2. Goto(p, "begin_publication", j1) \/ Goto(p, "begin_apply", j2)
    BY <1>7
  <2> HIDE DEF j1
  <2>3. j2 \in Jobs
    BY <1>2, <2>1, FlippedCardType DEF Jobs
  <2> HIDE DEF j2
  <2> QED BY <1>4, <1>5, <2>1, <2>2, <2>3
<1> QED BY <1>6, <1>7 DEF ProbeAgain

LEMMA CrashKeeps ==
  ASSUME IInv, NEW p \in Procs, Crash(p)
  PROVE  IInv'
<1>1. DataOK'
  BY DEF Crash, IInv, DataOK, Budgets
<1> QED BY <1>1, EndKeeps DEF Crash, IInv

LEMMA UntouchedProcesses ==
  ASSUME IInv, UNCHANGED <<pc, job, lock, sidecar>>
  PROVE  ProcessesOK'
BY DEF IInv, ProcessesOK, InHand, LockDiscipline

LEMMA InterfereKeeps ==
  ASSUME IInv, Interfere
  PROVE  IInv'
<1>1. DataOK'
  <2>1. budget' \in Budgets
    BY DEF Interfere, IInv, DataOK, Budgets
  <2>2. res' \in [Actions -> ResourceStates]
    BY DEF Interfere, IInv, DataOK, ResourceStates
  <2> QED BY <2>1, <2>2 DEF Interfere, IInv, DataOK
<1> QED BY <1>1, UntouchedProcesses DEF Interfere, IInv

LEMMA EditManifestKeeps ==
  ASSUME IInv, EditManifest
  PROVE  IInv'
<1>1. DataOK'
  <2>1. budget' \in Budgets
    BY DEF EditManifest, IInv, DataOK, Budgets
  <2>2. manifest' \in Manifests \union {None}
    BY DEF EditManifest, IInv, DataOK, Manifests
  <2> QED BY <2>1, <2>2 DEF EditManifest, IInv, DataOK
<1> QED BY <1>1, UntouchedProcesses DEF EditManifest, IInv

(***************************************************************************)
(* Together.                                                               *)
(***************************************************************************)
LEMMA InitIInv == Init => IInv
<1> SUFFICES ASSUME Init PROVE IInv
  OBVIOUS
<1>1. ASSUME NEW q \in Procs PROVE InHand(pc[q], job[q], sidecar)
  BY DEF Init, InHand, HoldingSteps, DraftSteps, CandidateSteps, ApplySteps, PublishSteps
<1>2. LockDiscipline
  BY NoneAssumption DEF Init, LockDiscipline, LockedSteps, ApplySteps, PublishSteps
<1>3. ProcessesOK
  BY <1>1, <1>2, IdleJobType DEF Init, ProcessesOK, Steps
<1>4. DataOK
  BY BoundsAssumption DEF Init, DataOK, ResourceStates, Budgets
<1> QED BY <1>3, <1>4 DEF IInv

LEMMA StepIInv == IInv /\ [Next]_vars => IInv'
<1> SUFFICES ASSUME IInv, [Next]_vars PROVE IInv'
  OBVIOUS
<1>1. ASSUME NEW p \in Procs, PrepareSetup(p) PROVE IInv'
  BY <1>1, PrepareSetupKeeps
<1>2. ASSUME NEW p \in Procs, ReadSnapshot(p) PROVE IInv'
  BY <1>2, ReadSnapshotKeeps
<1>3. ASSUME NEW p \in Procs, ApplyNext(p) PROVE IInv'
  BY <1>3, BeginApplyKeeps, SkipDoneKeeps, CreateIntentKeeps, WriteIntentKeeps, ExecuteKeeps,
     MarkSucceededKeeps, AppendEntryKeeps, RetireEvidenceKeeps, RetireIntentKeeps,
     RecordPendingKeeps, CompleteExecutionKeeps DEF ApplyNext
<1>4. ASSUME NEW p \in Procs, ProbeAgain(p) PROVE IInv'
  BY <1>4, ProbeAgainKeeps
<1>5. ASSUME NEW p \in Procs, PublishNext(p) PROVE IInv'
  BY <1>5, BeginPublicationKeeps, RecoverKeeps, CheckpointKeeps, RemoveSidecarKeeps,
     PreparePublicationKeeps, PublishManifestKeeps DEF PublishNext
<1>6. ASSUME NEW p \in Procs, Crash(p) PROVE IInv'
  BY <1>6, CrashKeeps
<1>7. CASE Interfere
  BY <1>7, InterfereKeeps
<1>8. CASE EditManifest
  BY <1>8, EditManifestKeeps
<1>9. CASE UNCHANGED vars
  <2>1. DataOK'
    BY <1>9 DEF vars, IInv, DataOK
  <2> QED BY <1>9, <2>1, UntouchedProcesses DEF vars, IInv
<1> QED BY <1>1, <1>2, <1>3, <1>4, <1>5, <1>6, <1>7, <1>8, <1>9 DEF Next, SetupStep

\* Types, the lock and what each process has in hand, in every reachable state.
THEOREM Inductive == Spec => []IInv
BY InitIInv, StepIInv, PTL DEF Spec

\* Every variable of setup keeps its type, whoever crashes, fails or interferes.
THEOREM TypeCorrect == Spec => []TypeOK
<1>1. IInv => TypeOK
  BY DEF IInv, ProcessesOK, DataOK, TypeOK
<1> QED BY <1>1, Inductive, PTL

\* The receipt lock is held exactly by the process in a locked section: no two
\* sessions overlap, and no result, error or crash leaves the lock behind.
THEOREM MutualExclusion == Spec => []LockDiscipline
<1>1. IInv => LockDiscipline
  BY DEF IInv, ProcessesOK
<1> QED BY <1>1, Inductive, PTL

----------------------------------------------------------------------------
(***************************************************************************)
(* Part 2.  The journal.                                                   *)
(***************************************************************************)

(***************************************************************************)
(* How the receipt changes.                                                *)
(***************************************************************************)
EntryAdded(entry) == receipt' = [Document EXCEPT !.entries = Append(@, entry)]
PublicationAdded(pub) == receipt' = [Document EXCEPT !.pubs = Append(@, pub)]

LEMMA RecordPendingReceipt ==
  ASSUME IInv, NEW p \in Procs, RecordPending(p)
  PROVE  \/ UNCHANGED receipt
         \/ \E entry \in Entries : entry.status = "pending" /\ EntryAdded(entry)
<1> DEFINE item == PlannedItem(p)
           entry == [id |-> nextId, action |-> item.action, param |-> item.param,
                     status |-> "pending"]
<1>1. item \in JobItem
  BY CheckHolds DEF RecordPending
<1>2. entry \in Entries /\ entry.status = "pending"
  BY <1>1 DEF JobItem, Entries, IInv, DataOK
<1>3. UNCHANGED receipt \/ EntryAdded(entry)
  BY DEF RecordPending, NewOccurrence, ReuseOccurrence, EntryAdded
<1> QED BY <1>2, <1>3

LEMMA CheckpointReceipt ==
  ASSUME IInv, NEW p \in Procs, Checkpoint(p)
  PROVE  UNCHANGED receipt \/ \E pub \in Publications : PublicationAdded(pub)
<1>1. sidecar.pub \in Publications
  BY PublishingHolds DEF Checkpoint, PublishSteps, CandidateSteps, Sidecars
<1>2. UNCHANGED receipt \/ PublicationAdded(sidecar.pub)
  BY DEF Checkpoint, CheckpointBase, PublicationAdded
<1> QED BY <1>1, <1>2

\* The only steps that write the receipt.
LEMMA ReceiptSteps ==
  ASSUME IInv, [Next]_vars
  PROVE  \/ UNCHANGED receipt
         \/ \E p \in Procs : AppendEntry(p) /\ EntryAdded(job[p].held)
         \/ \E p \in Procs : RecordPending(p)
                             /\ \E entry \in Entries : entry.status = "pending" /\ EntryAdded(entry)
         \/ \E p \in Procs : Checkpoint(p) /\ \E pub \in Publications : PublicationAdded(pub)
<1>1. ASSUME NEW p \in Procs, ApplyNext(p), ~AppendEntry(p), ~RecordPending(p)
      PROVE  UNCHANGED receipt
  BY <1>1 DEF ApplyNext, BeginApply, SkipDone, CreateIntent, WriteIntent, Execute, MarkSucceeded,
              RetireEvidence, RetireIntent, CompleteExecution
<1>2. ASSUME NEW p \in Procs, AppendEntry(p)
      PROVE  UNCHANGED receipt \/ EntryAdded(job[p].held)
  BY <1>2 DEF AppendEntry, EntryAdded
<1>3. ASSUME NEW p \in Procs, PublishNext(p), ~Checkpoint(p)
      PROVE  UNCHANGED receipt
  BY <1>3 DEF PublishNext, BeginPublication, Recover, RemoveSidecar, PreparePublication,
              PublishManifest
<1>4. ASSUME NEW p \in Procs, PrepareSetup(p) \/ ReadSnapshot(p) \/ ProbeAgain(p) \/ Crash(p)
      PROVE  UNCHANGED receipt
  BY <1>4 DEF PrepareSetup, ReadSnapshot, ProbeAgain, Crash
<1>5. ASSUME Interfere \/ EditManifest \/ UNCHANGED vars
      PROVE  UNCHANGED receipt
  BY <1>5 DEF Interfere, EditManifest, vars
<1> QED BY <1>1, <1>2, <1>3, <1>4, <1>5, RecordPendingReceipt, CheckpointReceipt
        DEF Next, SetupStep

LEMMA EntryAddedDocument ==
  ASSUME DataOK, NEW entry \in Entries, EntryAdded(entry)
  PROVE  /\ receipt' \in Documents
         /\ Document' = receipt'
         /\ Document'.entries = Append(Document.entries, entry)
         /\ Document'.pubs = Document.pubs
<1>1. Document \in Documents
  BY DocumentType
<1>2. receipt' \in Documents
  BY <1>1, AppendedType DEF EntryAdded
<1>3. Document' = receipt'
  BY <1>2, NoneAssumption DEF Document
<1> QED BY <1>1, <1>2, <1>3 DEF EntryAdded, Documents

LEMMA PublicationAddedDocument ==
  ASSUME DataOK, NEW pub \in Publications, PublicationAdded(pub)
  PROVE  /\ receipt' \in Documents
         /\ Document' = receipt'
         /\ Document'.entries = Document.entries
         /\ Document'.pubs = Append(Document.pubs, pub)
<1>1. Document \in Documents
  BY DocumentType
<1>2. receipt' \in Documents
  BY <1>1, PublishedType DEF PublicationAdded
<1>3. Document' = receipt'
  BY <1>2, NoneAssumption DEF Document
<1> QED BY <1>1, <1>2, <1>3 DEF PublicationAdded, Documents

LEMMA HeldIsEntry ==
  ASSUME IInv, NEW p \in Procs, AppendEntry(p)
  PROVE  job[p].held \in Entries
BY HoldingHolds DEF AppendEntry, HoldingSteps, ApplySteps

(***************************************************************************)
(* The receipt only grows.                                                 *)
(***************************************************************************)
LEMMA PrefixOfItself ==
  ASSUME NEW S, NEW s \in Seq(S)
  PROVE  IsPrefix(s, s)
BY DEF IsPrefix

LEMMA PrefixOfAppend ==
  ASSUME NEW S, NEW s \in Seq(S), NEW e \in S
  PROVE  IsPrefix(s, Append(s, e))
<1>1. Len(s) \in Nat /\ Len(Append(s, e)) = Len(s) + 1
  OBVIOUS
<1>2. SubSeq(s, 1, Len(s)) = s /\ SubSeq(Append(s, e), 1, Len(s)) = s
  OBVIOUS
<1> QED BY <1>1, <1>2 DEF IsPrefix

\* No step, crash, recovery or retry of any setup rewrites or drops an entry or
\* a publication of the receipt.
THEOREM ReceiptAppendOnly == Spec => AppendOnly
<1> DEFINE Grows == /\ receipt # None => receipt' # None
                    /\ IsPrefix(Document.entries, Document'.entries)
                    /\ IsPrefix(Document.pubs, Document'.pubs)
<1>1. ASSUME IInv, [Next]_vars PROVE Grows
  <2>1. Document.entries \in Seq(Entries) /\ Document.pubs \in Seq(Publications)
    BY <1>1, DocumentType DEF IInv, Documents
  <2>2. CASE UNCHANGED receipt
    <3>1. Document' = Document
      BY <2>2 DEF Document
    <3> QED BY <2>1, <2>2, <3>1, PrefixOfItself
  <2>3. ASSUME NEW entry \in Entries, EntryAdded(entry) PROVE Grows
    BY <1>1, <2>1, <2>3, EntryAddedDocument, PrefixOfItself, PrefixOfAppend, NoneAssumption
       DEF IInv
  <2>4. ASSUME NEW pub \in Publications, PublicationAdded(pub) PROVE Grows
    BY <1>1, <2>1, <2>4, PublicationAddedDocument, PrefixOfItself, PrefixOfAppend, NoneAssumption
       DEF IInv
  <2> HIDE DEF Grows
  <2> QED BY <1>1, <2>2, <2>3, <2>4, ReceiptSteps, HeldIsEntry
<1>2. IInv /\ [Next]_vars => [Grows]_vars
  BY <1>1
<1> QED BY <1>2, Inductive, PTL DEF Spec, AppendOnly

(***************************************************************************)
(* How a process comes to hold an entry at a step of the journal.          *)
(***************************************************************************)
RecordedHeld(q) == \E i \in DOMAIN Document.entries : Document.entries[i].id = job[q].held.id

Stays(q) == pc'[q] = pc[q] /\ job'[q] = job[q]

SameHeld(q) == job'[q].held = job[q].held

Arrives(q) ==
  \/ /\ BeginApply(q) /\ pc'[q] \in {"execute", "append"}
     /\ \E i \in intents : /\ job'[q].held = i.entry
                           /\ pc'[q] = "append" => i.phase = "succeeded"
  \/ CreateIntent(q) /\ pc'[q] = "write_intent" /\ job'[q].held.id = nextId
  \/ WriteIntent(q) /\ pc'[q] = "execute" /\ SameHeld(q) /\ Prepared(job[q].held) \in intents'
  \/ Execute(q) /\ pc'[q] = "bind" /\ SameHeld(q) /\ job[q].held.id \in made'
  \/ MarkSucceeded(q) /\ pc'[q] = "append" /\ SameHeld(q)
  \/ /\ AppendEntry(q) /\ pc'[q] = "retire_evidence" /\ SameHeld(q)
     /\ job'[q].keeping \/ RecordedHeld(q)'
  \/ RetireEvidence(q) /\ pc'[q] = "retire_intent" /\ SameHeld(q) /\ ~job[q].keeping

LEMMA BeginApplyArrives ==
  ASSUME IInv, NEW q \in Procs, BeginApply(q), pc'[q] \in HoldingSteps
  PROVE  Arrives(q)
<1>1. pc \in [Procs -> Steps] /\ job \in [Procs -> Jobs]
  BY DEF IInv, ProcessesOK
<1>2. "idle" \notin HoldingSteps /\ "check" \notin HoldingSteps
  BY DEF HoldingSteps, ApplySteps
<1>3. PICK i \in intents : /\ RecoveryStep(q, i) # "refuse"
                           /\ Enter(q, RecoveryStep(q, i),
                                    [FreshApply(job[q]) EXCEPT !.held = i.entry,
                                                               !.replay = (i.phase = "succeeded")])
  BY <1>1, <1>2 DEF BeginApply, End, Leave, Enter
<1>4. i.phase \in {"torn", "prepared", "succeeded"} /\ i.entry \in Entries
  BY DEF IInv, DataOK, Intents
<1>5. pc'[q] = RecoveryStep(q, i)
  BY <1>1, <1>3 DEF Enter
<1>6. /\ pc'[q] \in {"execute", "append"}
      /\ pc'[q] = "append" => i.phase = "succeeded"
  BY <1>3, <1>4, <1>5 DEF RecoveryStep
<1>7. job'[q].held = i.entry
  <2> DEFINE j1 == [FreshApply(job[q]) EXCEPT !.held = i.entry]
  <2>1. FreshApply(job[q]) \in Jobs
    BY <1>1, FreshApplyType
  <2>2. j1 \in Jobs /\ j1.held = i.entry
    BY <1>4, <2>1, JobFields
  <2>3. job'[q] = [j1 EXCEPT !.replay = (i.phase = "succeeded")]
    BY <1>1, <1>3 DEF Enter
  <2> HIDE DEF j1
  <2> QED BY <2>2, <2>3, JobFields
<1> QED BY <1>6, <1>7 DEF Arrives

LEMMA ExecuteArrives ==
  ASSUME IInv, NEW q \in Procs, Execute(q), pc'[q] \in HoldingSteps
  PROVE  Arrives(q)
<1>1. pc \in [Procs -> Steps] /\ job \in [Procs -> Jobs] /\ job[q] \in Jobs
  BY DEF IInv, ProcessesOK
<1>2. ~End(q)
  BY <1>1 DEF End, Leave, HoldingSteps, ApplySteps
<1>3. PICK late \in BOOLEAN : Goto(q, "bind", [job[q] EXCEPT !.failing = late])
  BY <1>2 DEF Execute
<1>4. [job[q] EXCEPT !.failing = late].held = job[q].held
  BY <1>1 DEF Jobs
<1>5. pc'[q] = "bind" /\ SameHeld(q)
  BY <1>1, <1>3, <1>4 DEF Goto, SameHeld
<1>6. job[q].held.id \in made'
  BY <1>2 DEF Execute
<1> QED BY <1>5, <1>6 DEF Arrives

LEMMA AppendEntryArrives ==
  ASSUME IInv, NEW q \in Procs, AppendEntry(q), pc'[q] \in HoldingSteps
  PROVE  Arrives(q)
<1>1. pc \in [Procs -> Steps] /\ job \in [Procs -> Jobs] /\ job[q] \in Jobs
  BY DEF IInv, ProcessesOK
<1>2. ~End(q)
  BY <1>1 DEF End, Leave, HoldingSteps, ApplySteps
<1>3. CASE Goto(q, "retire_evidence", [job[q] EXCEPT !.keeping = TRUE])
  <2>1. /\ [job[q] EXCEPT !.keeping = TRUE].held = job[q].held
        /\ [job[q] EXCEPT !.keeping = TRUE].keeping
    BY <1>1 DEF Jobs
  <2>2. pc'[q] = "retire_evidence" /\ SameHeld(q) /\ job'[q].keeping
    BY <1>1, <1>3, <2>1 DEF Goto, SameHeld
  <2> QED BY <2>2 DEF Arrives
<1>4. CASE Goto(q, "retire_evidence", job[q]) /\ Recorded(job[q].held) # {} /\ UNCHANGED receipt
  <2>1. pc'[q] = "retire_evidence" /\ SameHeld(q)
    BY <1>1, <1>4 DEF Goto, SameHeld
  <2>2. RecordedHeld(q)'
    <3>1. Document' = Document
      BY <1>4 DEF Document
    <3>2. PICK i \in DOMAIN Document.entries : Document.entries[i].id = job[q].held.id
      BY <1>4 DEF Recorded
    <3>3. job[q].held.id = job'[q].held.id
      BY <2>1 DEF SameHeld
    <3> QED BY <3>1, <3>2, <3>3 DEF RecordedHeld
  <2> QED BY <2>1, <2>2 DEF Arrives
<1>5. CASE Goto(q, "retire_evidence", job[q]) /\ EntryAdded(job[q].held)
  <2>1. pc'[q] = "retire_evidence" /\ SameHeld(q)
    BY <1>1, <1>5 DEF Goto, SameHeld
  <2>2. job[q].held \in Entries
    BY HeldIsEntry
  <2>3. Document'.entries = Append(Document.entries, job[q].held)
    BY <1>5, <2>2, EntryAddedDocument DEF IInv
  <2>4. Document.entries \in Seq(Entries)
    BY DocumentType DEF IInv, Documents
  <2>5. /\ Len(Document.entries) + 1 \in DOMAIN Document'.entries
        /\ Document'.entries[Len(Document.entries) + 1] = job[q].held
    BY <2>2, <2>3, <2>4
  <2>6. RecordedHeld(q)'
    BY <2>1, <2>5 DEF RecordedHeld, SameHeld
  <2> QED BY <2>1, <2>6 DEF Arrives
<1> QED BY <1>2, <1>3, <1>4, <1>5 DEF AppendEntry, AppendFailed, EntryAdded, Happened

\* A process at a journal step stays where it is, or arrives as the code says.
LEMMA HoldingMoves ==
  ASSUME IInv, [Next]_vars, NEW q \in Procs, pc'[q] \in HoldingSteps
  PROVE  Stays(q) \/ Arrives(q)
<1> DEFINE Goal == Stays(q) \/ Arrives(q)
<1>1. pc \in [Procs -> Steps] /\ job \in [Procs -> Jobs] /\ job[q] \in Jobs
  BY DEF IInv, ProcessesOK
<1>2. ASSUME NEW p \in Procs, NEW step, NEW j, step \notin HoldingSteps \/ p # q,
             Goto(p, step, j) \/ Enter(p, step, j) \/ Leave(p, step, j)
      PROVE  Goal
  BY <1>1, <1>2 DEF Goto, Enter, Leave, Stays
<1>3. "idle" \notin HoldingSteps /\ "check" \notin HoldingSteps
  BY DEF HoldingSteps, ApplySteps
<1>4. ASSUME NEW p \in Procs, End(p) PROVE Goal
  BY <1>2, <1>3, <1>4 DEF End
<1>5. ASSUME NEW p \in Procs, p # q, ApplyNext(p) PROVE Goal
  <2>1. PICK step, j : Goto(p, step, j) \/ Enter(p, step, j) \/ Leave(p, step, j)
    <3>1. CASE BeginApply(p)
      BY <3>1 DEF BeginApply, End
    <3>2. CASE SkipDone(p) \/ RetireIntent(p) \/ RecordPending(p)
      BY <3>2 DEF SkipDone, RetireIntent, RecordPending, NewOccurrence, ReuseOccurrence, Noted,
                  NextAction, End
    <3>3. CASE CreateIntent(p) \/ WriteIntent(p) \/ Execute(p) \/ MarkSucceeded(p)
      BY <3>3 DEF CreateIntent, WriteIntent, Execute, MarkSucceeded, End
    <3>4. CASE AppendEntry(p) \/ RetireEvidence(p) \/ CompleteExecution(p)
      BY <3>4 DEF AppendEntry, AppendFailed, RetireEvidence, CompleteExecution, End
    <3> QED BY <1>5, <3>1, <3>2, <3>3, <3>4 DEF ApplyNext
  <2> QED BY <1>2, <1>5, <2>1
<1>6. ASSUME ApplyNext(q) PROVE Goal
  <2>1. CASE BeginApply(q) \/ Execute(q) \/ AppendEntry(q)
    BY <2>1, BeginApplyArrives, ExecuteArrives, AppendEntryArrives
  <2>2. CASE SkipDone(q) \/ RetireIntent(q)
    BY <1>2, <1>3, <1>4, <2>2 DEF SkipDone, RetireIntent, NextAction
  <2>3. CASE RecordPending(q)
    BY <1>2, <1>3, <1>4, <2>3 DEF RecordPending, ReuseOccurrence, NewOccurrence, Noted
  <2>4. CASE CompleteExecution(q)
    BY <1>2, <1>4, <2>4 DEF CompleteExecution, HoldingSteps, ApplySteps
  <2>5. CASE CreateIntent(q)
    <3>1. PICK entry \in Entries : /\ entry.id = nextId
                                   /\ \/ End(q)
                                      \/ Goto(q, "write_intent", [job[q] EXCEPT !.held = entry])
      <4>1. PlannedItem(q) \in JobItem
        BY <2>5, CheckHolds DEF CreateIntent
      <4>2. [id |-> nextId, action |-> PlannedItem(q).action, param |-> PlannedItem(q).param,
             status |-> "applied"] \in Entries
        BY <4>1 DEF JobItem, Entries, IInv, DataOK
      <4> QED BY <2>5, <4>2 DEF CreateIntent
    <3>2. CASE Goto(q, "write_intent", [job[q] EXCEPT !.held = entry])
      <4>1. [job[q] EXCEPT !.held = entry].held = entry
        BY <1>1, JobFields
      <4>2. pc'[q] = "write_intent" /\ job'[q].held.id = nextId
        BY <1>1, <3>1, <3>2, <4>1 DEF Goto
      <4> QED BY <2>5, <4>2 DEF Arrives
    <3> QED BY <1>4, <3>1, <3>2
  <2>6. CASE WriteIntent(q)
    <3>1. CASE Goto(q, "execute", job[q]) /\ Prepared(job[q].held) \in intents'
      BY <1>1, <2>6, <3>1 DEF Goto, Arrives, SameHeld
    <3> QED BY <1>4, <2>6, <3>1 DEF WriteIntent, Happened
  <2>7. CASE MarkSucceeded(q)
    <3>1. CASE Goto(q, "append", job[q])
      BY <1>1, <2>7, <3>1 DEF Goto, Arrives, SameHeld
    <3> QED BY <1>4, <2>7, <3>1 DEF MarkSucceeded
  <2>8. CASE RetireEvidence(q)
    <3>1. CASE Goto(q, "retire_intent", job[q]) /\ ~job[q].keeping
      BY <1>1, <2>8, <3>1 DEF Goto, Arrives, SameHeld
    <3> QED BY <1>4, <2>8, <3>1 DEF RetireEvidence
  <2> QED BY <1>6, <2>1, <2>2, <2>3, <2>4, <2>5, <2>6, <2>7, <2>8 DEF ApplyNext
<1> HIDE DEF Goal
<1>7. ASSUME NEW p \in Procs, PublishNext(p) PROVE Goal
  <2>1. AfterCheckpoint(p) \notin HoldingSteps
    BY DEF AfterCheckpoint, HoldingSteps, ApplySteps
  <2>2. CASE Checkpoint(p)
    BY <1>2, <1>4, <2>1, <2>2 DEF Checkpoint
  <2>3. CASE BeginPublication(p) \/ RemoveSidecar(p)
    BY <1>2, <1>4, <2>3 DEF BeginPublication, RemoveSidecar, HoldingSteps, ApplySteps
  <2>4. CASE Recover(p) \/ PublishManifest(p)
    BY <1>2, <1>4, <2>4 DEF Recover, PublishManifest, ReplaceManifest, HoldingSteps, ApplySteps
  <2>5. CASE PreparePublication(p)
    BY <1>2, <1>4, <2>5 DEF PreparePublication, PublishSidecar, HoldingSteps, ApplySteps
  <2> QED BY <1>7, <2>2, <2>3, <2>4, <2>5 DEF PublishNext
<1>8. ASSUME NEW p \in Procs, PrepareSetup(p) \/ ReadSnapshot(p) \/ ProbeAgain(p) \/ Crash(p)
      PROVE  Goal
  <2>1. /\ "snapshot" \notin HoldingSteps /\ "begin_apply" \notin HoldingSteps
        /\ "begin_publication" \notin HoldingSteps
    BY DEF HoldingSteps, ApplySteps
  <2>2. CASE PrepareSetup(p)
    BY <1>2, <2>1, <2>2 DEF PrepareSetup
  <2>3. CASE ReadSnapshot(p) \/ Crash(p)
    BY <1>2, <1>4, <2>1, <2>3 DEF ReadSnapshot, Crash
  <2>4. CASE ProbeAgain(p)
    <3>1. PICK j : Goto(p, "begin_publication", j) \/ Goto(p, "begin_apply", j)
      BY <2>4 DEF ProbeAgain
    <3> QED BY <1>2, <2>1, <3>1
  <2> QED BY <1>8, <2>2, <2>3, <2>4
<1>9. ASSUME Interfere \/ EditManifest \/ UNCHANGED vars PROVE Goal
  BY <1>9 DEF Interfere, EditManifest, vars, Goal, Stays
<1>10. Goal
  BY <1>5, <1>6, <1>7, <1>8, <1>9 DEF Next, SetupStep
<1> QED BY <1>10 DEF Goal

(***************************************************************************)
(* Ownership is earned.  A process about to journal a success, or to       *)
(* append, holds the entry of a mutation that was performed.               *)
(***************************************************************************)
HeldEarned ==
  \A p \in Procs : pc[p] \in {"bind", "append"} => job[p].held.id \in made

EarnedInv == OwnershipIsEarned /\ HeldEarned

\* The steps that write the transaction intents, and what they record as made.
LEMMA IntentSteps ==
  ASSUME IInv, [Next]_vars
  PROVE  \/ UNCHANGED <<intents, made>>
         \/ \E p \in Procs : /\ CreateIntent(p) \/ WriteIntent(p) \/ MarkSucceeded(p)
                                                \/ RetireIntent(p)
                             /\ UNCHANGED made
         \/ \E p \in Procs : Execute(p) /\ UNCHANGED intents
                             /\ \/ UNCHANGED made
                                \/ made' = made \union {job[p].held.id}
<1>1. ASSUME NEW p \in Procs, ApplyNext(p), ~Execute(p),
             ~(CreateIntent(p) \/ WriteIntent(p) \/ MarkSucceeded(p) \/ RetireIntent(p))
      PROVE  UNCHANGED <<intents, made>>
  BY <1>1 DEF ApplyNext, BeginApply, SkipDone, AppendEntry, RetireEvidence, RecordPending,
              CompleteExecution
<1>2. ASSUME NEW p \in Procs, CreateIntent(p) \/ WriteIntent(p) \/ MarkSucceeded(p)
                                              \/ RetireIntent(p)
      PROVE  UNCHANGED made
  BY <1>2 DEF CreateIntent, WriteIntent, MarkSucceeded, RetireIntent
<1>3. ASSUME NEW p \in Procs, Execute(p)
      PROVE  UNCHANGED intents /\ (UNCHANGED made \/ made' = made \union {job[p].held.id})
  BY <1>3 DEF Execute
<1>4. ASSUME NEW p \in Procs, PublishNext(p) PROVE UNCHANGED <<intents, made>>
  BY <1>4 DEF PublishNext, BeginPublication, Recover, Checkpoint, RemoveSidecar,
              PreparePublication, PublishManifest
<1>5. ASSUME NEW p \in Procs, PrepareSetup(p) \/ ReadSnapshot(p) \/ ProbeAgain(p) \/ Crash(p)
      PROVE  UNCHANGED <<intents, made>>
  BY <1>5 DEF PrepareSetup, ReadSnapshot, ProbeAgain, Crash
<1>6. ASSUME Interfere \/ EditManifest \/ UNCHANGED vars PROVE UNCHANGED <<intents, made>>
  BY <1>6 DEF Interfere, EditManifest, vars
<1> QED BY <1>1, <1>2, <1>3, <1>4, <1>5, <1>6 DEF Next, SetupStep

\* A succeeded intent appears only by marking the one in hand.
LEMMA NewSuccess ==
  ASSUME IInv, [Next]_vars, NEW i \in intents', i \notin intents, i.phase = "succeeded"
  PROVE  \E p \in Procs : pc[p] = "bind" /\ i.entry = job[p].held
<1>1. CASE \E p \in Procs : CreateIntent(p) \/ WriteIntent(p) \/ RetireIntent(p)
  BY <1>1 DEF CreateIntent, WriteIntent, RetireIntent, Torn, Prepared
<1>2. CASE \E p \in Procs : MarkSucceeded(p)
  BY <1>2 DEF MarkSucceeded, Succeeded
<1> QED BY <1>1, <1>2, IntentSteps

LEMMA MadeGrows ==
  ASSUME IInv, [Next]_vars
  PROVE  made \subseteq made'
BY IntentSteps

LEMMA EarnedEntriesKept ==
  ASSUME IInv, EarnedInv, [Next]_vars,
         NEW i \in DOMAIN Document'.entries, Document'.entries[i].status = "applied"
  PROVE  Document'.entries[i].id \in made'
<1>1. Document.entries \in Seq(Entries)
  BY DocumentType DEF IInv, Documents
<1>2. ASSUME i \in DOMAIN Document.entries, Document'.entries[i] = Document.entries[i]
      PROVE  Document'.entries[i].id \in made'
  BY <1>2, MadeGrows DEF EarnedInv, OwnershipIsEarned
<1>3. CASE Document'.entries = Document.entries
  BY <1>2, <1>3
<1>4. ASSUME NEW entry \in Entries, EntryAdded(entry),
             entry.status = "applied" => entry.id \in made
      PROVE  Document'.entries[i].id \in made'
  <2>1. Document'.entries = Append(Document.entries, entry)
    BY <1>4, EntryAddedDocument DEF IInv
  <2>2. CASE i \in DOMAIN Document.entries
    BY <1>1, <1>2, <2>1, <2>2
  <2>3. CASE i \notin DOMAIN Document.entries
    <3>1. Document'.entries[i] = entry
      BY <1>1, <2>1, <2>3
    <3> QED BY <1>4, <3>1, MadeGrows
  <2> QED BY <2>2, <2>3
<1>5. CASE UNCHANGED receipt
  <2>1. Document' = Document
    BY <1>5 DEF Document
  <2> QED BY <1>3, <2>1
<1>6. ASSUME NEW p \in Procs, AppendEntry(p), EntryAdded(job[p].held)
      PROVE  Document'.entries[i].id \in made'
  <2>1. job[p].held.id \in made
    BY <1>6 DEF AppendEntry, EarnedInv, HeldEarned
  <2> QED BY <1>4, <1>6, <2>1, HeldIsEntry
<1>7. ASSUME NEW pub \in Publications, PublicationAdded(pub)
      PROVE  Document'.entries[i].id \in made'
  BY <1>3, <1>7, PublicationAddedDocument DEF IInv
<1> QED BY <1>4, <1>5, <1>6, <1>7, ReceiptSteps

LEMMA StepEarned == IInv /\ EarnedInv /\ [Next]_vars => EarnedInv'
<1> SUFFICES ASSUME IInv, EarnedInv, [Next]_vars PROVE EarnedInv'
  OBVIOUS
<1>1. ASSUME NEW i \in intents', i.phase = "succeeded" PROVE i.entry.id \in made'
  BY <1>1, NewSuccess, MadeGrows DEF EarnedInv, OwnershipIsEarned, HeldEarned
<1>2. OwnershipIsEarned'
  BY <1>1, EarnedEntriesKept DEF OwnershipIsEarned
<1>3. ASSUME NEW q \in Procs, pc'[q] \in {"bind", "append"} PROVE job'[q].held.id \in made'
  <2>1. Stays(q) \/ Arrives(q)
    BY <1>3, HoldingMoves DEF HoldingSteps, ApplySteps
  <2>2. CASE Stays(q)
    BY <1>3, <2>2, MadeGrows DEF Stays, EarnedInv, HeldEarned
  <2>3. ASSUME NEW i \in intents, i.phase = "succeeded", job'[q].held = i.entry
        PROVE  job'[q].held.id \in made'
    BY <2>3, MadeGrows DEF EarnedInv, OwnershipIsEarned
  <2>4. CASE MarkSucceeded(q) /\ SameHeld(q)
    BY <2>4, MadeGrows DEF MarkSucceeded, SameHeld, EarnedInv, HeldEarned
  <2>5. CASE job[q].held.id \in made' /\ SameHeld(q)
    BY <2>5 DEF SameHeld
  <2> QED BY <1>3, <2>1, <2>2, <2>3, <2>4, <2>5 DEF Arrives
<1>4. HeldEarned'
  BY <1>3 DEF HeldEarned
<1> QED BY <1>2, <1>4 DEF EarnedInv

\* The receipt never claims what styrn did not do: every applied entry, and every
\* intent that says succeeded, stands for a mutation performed under its id.
THEOREM OwnershipEarned == Spec => []OwnershipIsEarned
<1>1. Init => EarnedInv
  BY DEF Init, EarnedInv, OwnershipIsEarned, HeldEarned, Document, EmptyDocument
<1>2. EarnedInv => OwnershipIsEarned
  BY DEF EarnedInv
<1> QED BY <1>1, <1>2, StepEarned, Inductive, PTL DEF Spec

(***************************************************************************)
(* No mutation is forgotten.  Ids are minted in order, so that an entry in *)
(* preparation names nothing made yet; an intent answers for the entry     *)
(* about to be executed; and the intent is retired for a recorded entry.   *)
(***************************************************************************)
IdsMinted ==
  /\ \A id \in made : id < nextId
  /\ \A i \in intents : i.entry.id < nextId
  /\ \A p \in Procs : pc[p] \in HoldingSteps => job[p].held.id < nextId

HeldKept ==
  \A p \in Procs :
    /\ pc[p] = "write_intent" => job[p].held.id \notin made
    /\ pc[p] = "execute" => \E i \in intents : i.entry = job[p].held
    /\ pc[p] = "retire_evidence" /\ ~job[p].keeping => RecordedHeld(p)
    /\ pc[p] = "retire_intent" => RecordedHeld(p)

KeptInv == NoMutationForgotten /\ IdsMinted /\ HeldKept

\* The receipt keeps every id it has.
LEMMA RecordedKept ==
  ASSUME IInv, [Next]_vars, NEW i \in DOMAIN Document.entries
  PROVE  i \in DOMAIN Document'.entries /\ Document'.entries[i] = Document.entries[i]
<1>1. Document.entries \in Seq(Entries)
  BY DocumentType DEF IInv, Documents
<1>2. CASE UNCHANGED receipt
  BY <1>2 DEF Document
<1>3. ASSUME NEW entry \in Entries, EntryAdded(entry)
      PROVE  i \in DOMAIN Document'.entries /\ Document'.entries[i] = Document.entries[i]
  <2>1. Document'.entries = Append(Document.entries, entry)
    BY <1>3, EntryAddedDocument DEF IInv
  <2> QED BY <1>1, <2>1
<1>4. ASSUME NEW pub \in Publications, PublicationAdded(pub)
      PROVE  i \in DOMAIN Document'.entries /\ Document'.entries[i] = Document.entries[i]
  BY <1>4, PublicationAddedDocument DEF IInv
<1> QED BY <1>2, <1>3, <1>4, ReceiptSteps, HeldIsEntry

LEMMA NextIdGrows ==
  ASSUME IInv, [Next]_vars
  PROVE  nextId \in Nat /\ nextId' \in Nat /\ nextId <= nextId'
<1>1. nextId \in Nat /\ nextId' \in Nat
  BY StepIInv DEF IInv, DataOK
<1>2. UNCHANGED nextId \/ nextId' = nextId + 1 \/ nextId' = nextId + 2
  <2>1. ASSUME NEW p \in Procs, ApplyNext(p) PROVE UNCHANGED nextId \/ nextId' = nextId + 1
    BY <2>1 DEF ApplyNext, BeginApply, SkipDone, CreateIntent, WriteIntent, Execute, MarkSucceeded,
                AppendEntry, RetireEvidence, RetireIntent, RecordPending, NewOccurrence,
                ReuseOccurrence, CompleteExecution
  <2>2. ASSUME NEW p \in Procs, PublishNext(p)
        PROVE  UNCHANGED nextId \/ nextId' = nextId + 1 \/ nextId' = nextId + 2
    BY <2>2 DEF PublishNext, BeginPublication, Recover, Checkpoint, RemoveSidecar,
                PreparePublication, PublishManifest
  <2>3. ASSUME NEW p \in Procs, PrepareSetup(p) \/ ReadSnapshot(p) \/ ProbeAgain(p) \/ Crash(p)
        PROVE  UNCHANGED nextId
    BY <2>3 DEF PrepareSetup, ReadSnapshot, ProbeAgain, Crash
  <2>4. ASSUME Interfere \/ EditManifest \/ UNCHANGED vars PROVE UNCHANGED nextId
    BY <2>4 DEF Interfere, EditManifest, vars
  <2> QED BY <2>1, <2>2, <2>3, <2>4 DEF Next, SetupStep
<1> QED BY <1>1, <1>2

\* Where a new intent comes from.
LEMMA NewIntent ==
  ASSUME IInv, [Next]_vars, NEW i \in intents', i \notin intents
  PROVE  \/ i.entry.id = nextId /\ nextId' = nextId + 1
         \/ \E p \in Procs : pc[p] \in HoldingSteps /\ i.entry = job[p].held
<1>1. ASSUME NEW p \in Procs, CreateIntent(p) PROVE i.entry.id = nextId /\ nextId' = nextId + 1
  BY <1>1 DEF CreateIntent, Torn
<1>2. ASSUME NEW p \in Procs, WriteIntent(p)
      PROVE  pc[p] \in HoldingSteps /\ i.entry = job[p].held
  BY <1>2 DEF WriteIntent, Prepared, HoldingSteps, ApplySteps
<1>3. ASSUME NEW p \in Procs, MarkSucceeded(p)
      PROVE  pc[p] \in HoldingSteps /\ i.entry = job[p].held
  BY <1>3 DEF MarkSucceeded, Succeeded, HoldingSteps, ApplySteps
<1>4. ASSUME NEW p \in Procs, RetireIntent(p) PROVE FALSE
  BY <1>4 DEF RetireIntent
<1> QED BY <1>1, <1>2, <1>3, <1>4, IntentSteps

LEMMA StepIdsMinted ==
  ASSUME IInv, KeptInv, [Next]_vars
  PROVE  IdsMinted'
<1>1. nextId \in Nat /\ nextId' \in Nat /\ nextId <= nextId'
  BY NextIdGrows
<1>2. /\ \A id \in made : id \in Nat /\ id < nextId
      /\ \A i \in intents : i.entry.id \in Nat /\ i.entry.id < nextId
  BY DEF IInv, DataOK, KeptInv, IdsMinted, Intents, Entries
<1>3. ASSUME NEW p \in Procs, pc[p] \in HoldingSteps
      PROVE  job[p].held.id \in Nat /\ job[p].held.id < nextId
  BY <1>3, HoldingHolds DEF KeptInv, IdsMinted, Entries
<1>4. ASSUME NEW id \in made' PROVE id < nextId'
  <2>1. CASE id \in made
    BY <1>1, <1>2, <2>1
  <2>2. CASE id \notin made
    <3>1. PICK p \in Procs : Execute(p) /\ id = job[p].held.id
      BY <2>2, IntentSteps
    <3>2. pc[p] \in HoldingSteps
      BY <3>1 DEF Execute, HoldingSteps, ApplySteps
    <3> QED BY <1>1, <1>3, <3>1, <3>2
  <2> QED BY <2>1, <2>2
<1>5. ASSUME NEW i \in intents' PROVE i.entry.id < nextId'
  <2>1. CASE i \in intents
    BY <1>1, <1>2, <2>1
  <2>2. CASE i.entry.id = nextId /\ nextId' = nextId + 1
    BY <1>1, <2>2
  <2>3. ASSUME NEW p \in Procs, pc[p] \in HoldingSteps, i.entry = job[p].held
        PROVE  i.entry.id < nextId'
    BY <1>1, <1>3, <2>3
  <2> QED BY <2>1, <2>2, <2>3, NewIntent
<1>6. ASSUME NEW q \in Procs, pc'[q] \in HoldingSteps PROVE job'[q].held.id < nextId'
  <2>1. Stays(q) \/ Arrives(q)
    BY <1>6, HoldingMoves
  <2>2. CASE Stays(q)
    BY <1>1, <1>3, <1>6, <2>2 DEF Stays
  <2>3. CASE CreateIntent(q) /\ job'[q].held.id = nextId
    <3>1. nextId' = nextId + 1
      BY <2>3 DEF CreateIntent
    <3> QED BY <1>1, <2>3, <3>1
  <2>4. ASSUME NEW i \in intents, job'[q].held = i.entry
        PROVE  job'[q].held.id < nextId'
    BY <1>1, <1>2, <2>4
  <2>5. CASE /\ WriteIntent(q) \/ Execute(q) \/ MarkSucceeded(q) \/ AppendEntry(q)
                \/ RetireEvidence(q)
             /\ SameHeld(q)
    <3>1. pc[q] \in HoldingSteps
      BY <2>5 DEF WriteIntent, Execute, MarkSucceeded, AppendEntry, RetireEvidence, HoldingSteps,
                  ApplySteps
    <3> QED BY <1>1, <1>3, <2>5, <3>1 DEF SameHeld
  <2> QED BY <2>1, <2>2, <2>3, <2>4, <2>5 DEF Arrives
<1> QED BY <1>4, <1>5, <1>6 DEF IdsMinted

\* While a process is at a journal step nobody else touches the journal.
LEMMA OnlyTheHolder ==
  ASSUME IInv, NEW p \in Procs, NEW q \in Procs, pc[q] \in LockedSteps, pc[p] \in LockedSteps
  PROVE  p = q
BY DEF IInv, ProcessesOK, LockDiscipline

LEMMA RecordedHeldKept ==
  ASSUME IInv, [Next]_vars, NEW q \in Procs, RecordedHeld(q), SameHeld(q)
  PROVE  RecordedHeld(q)'
BY RecordedKept DEF RecordedHeld, SameHeld

LEMMA StepHeldKept ==
  ASSUME IInv, KeptInv, [Next]_vars
  PROVE  HeldKept'
<1> SUFFICES ASSUME NEW q \in Procs
    PROVE /\ pc'[q] = "write_intent" => job'[q].held.id \notin made'
          /\ pc'[q] = "execute" => \E i \in intents' : i.entry = job'[q].held
          /\ pc'[q] = "retire_evidence" /\ ~job'[q].keeping => RecordedHeld(q)'
          /\ pc'[q] = "retire_intent" => RecordedHeld(q)'
  BY DEF HeldKept
<1>1. ASSUME pc'[q] \in {"write_intent", "execute", "retire_evidence", "retire_intent"}
      PROVE  Stays(q) \/ Arrives(q)
  BY <1>1, HoldingMoves DEF HoldingSteps, ApplySteps
<1>2. nextId \notin made
  BY DEF KeptInv, IdsMinted, IInv, DataOK
<1>3. ASSUME NEW p \in Procs,
             Execute(p) \/ CreateIntent(p) \/ WriteIntent(p) \/ MarkSucceeded(p) \/ RetireIntent(p)
      PROVE  /\ pc[p] \in LockedSteps
             /\ Execute(p) => pc[p] = "execute"
             /\ CreateIntent(p) => pc[p] = "check"
             /\ WriteIntent(p) => pc[p] = "write_intent"
             /\ MarkSucceeded(p) => pc[p] = "bind"
             /\ RetireIntent(p) => pc[p] = "retire_intent"
  BY <1>3 DEF Execute, CreateIntent, WriteIntent, MarkSucceeded, RetireIntent, LockedSteps,
              ApplySteps
<1>4. ASSUME pc'[q] = "write_intent" PROVE job'[q].held.id \notin made'
  <2>1. CASE Stays(q)
    <3>1. pc[q] = "write_intent" /\ pc[q] \in LockedSteps /\ job[q].held.id \notin made
      BY <1>4, <2>1 DEF Stays, KeptInv, HeldKept, LockedSteps, ApplySteps
    <3>2. UNCHANGED made
      BY <1>3, <3>1, OnlyTheHolder, IntentSteps
    <3> QED BY <2>1, <3>1, <3>2 DEF Stays
  <2>2. CASE Arrives(q)
    <3>1. CreateIntent(q) /\ job'[q].held.id = nextId
      BY <1>4, <2>2 DEF Arrives
    <3>2. UNCHANGED made
      BY <3>1 DEF CreateIntent
    <3> QED BY <1>2, <3>1, <3>2
  <2> QED BY <1>1, <1>4, <2>1, <2>2
<1>5. ASSUME pc'[q] = "execute" PROVE \E i \in intents' : i.entry = job'[q].held
  <2>1. CASE Stays(q)
    <3>1. pc[q] = "execute" /\ pc[q] \in LockedSteps /\ \E i \in intents : i.entry = job[q].held
      BY <1>5, <2>1 DEF Stays, KeptInv, HeldKept, LockedSteps, ApplySteps
    <3>2. ASSUME NEW p \in Procs,
                 CreateIntent(p) \/ WriteIntent(p) \/ MarkSucceeded(p) \/ RetireIntent(p)
          PROVE  FALSE
      <4>1. pc[p] \in LockedSteps /\ pc[p] # "execute"
        BY <1>3, <3>2
      <4>2. p = q
        BY <3>1, <4>1, OnlyTheHolder
      <4> QED BY <3>1, <4>1, <4>2
    <3>3. UNCHANGED intents
      BY <3>2, IntentSteps
    <3> QED BY <2>1, <3>1, <3>3 DEF Stays
  <2>2. CASE Arrives(q)
    <3>1. CASE BeginApply(q) /\ \E i \in intents : job'[q].held = i.entry
      BY <3>1 DEF BeginApply
    <3>2. CASE SameHeld(q) /\ Prepared(job[q].held) \in intents'
      BY <3>2 DEF SameHeld, Prepared
    <3> QED BY <1>5, <2>2, <3>1, <3>2 DEF Arrives
  <2> QED BY <1>1, <1>5, <2>1, <2>2
<1>6. ASSUME pc'[q] = "retire_evidence", ~job'[q].keeping PROVE RecordedHeld(q)'
  <2>1. CASE Stays(q)
    <3>1. RecordedHeld(q) /\ SameHeld(q)
      BY <1>6, <2>1 DEF Stays, SameHeld, KeptInv, HeldKept
    <3> QED BY <3>1, RecordedHeldKept
  <2>2. CASE Arrives(q)
    BY <1>6, <2>2 DEF Arrives
  <2> QED BY <1>1, <1>6, <2>1, <2>2
<1>7. ASSUME pc'[q] = "retire_intent" PROVE RecordedHeld(q)'
  <2>1. RecordedHeld(q) /\ SameHeld(q)
    <3>1. CASE Stays(q)
      BY <1>7, <3>1 DEF Stays, SameHeld, KeptInv, HeldKept
    <3>2. CASE Arrives(q)
      BY <1>7, <3>2 DEF Arrives, RetireEvidence, KeptInv, HeldKept
    <3> QED BY <1>1, <1>7, <3>1, <3>2
  <2> QED BY <2>1, RecordedHeldKept
<1> QED BY <1>4, <1>5, <1>6, <1>7

LEMMA StepNothingForgotten ==
  ASSUME IInv, KeptInv, [Next]_vars
  PROVE  NoMutationForgotten'
<1> SUFFICES ASSUME NEW id \in made'
    PROVE  \/ \E i \in DOMAIN Document'.entries : Document'.entries[i].id = id
           \/ \E i \in intents' : i.entry.id = id
  BY DEF NoMutationForgotten
<1>1. ASSUME NEW i \in DOMAIN Document.entries, Document.entries[i].id = id
      PROVE  \E k \in DOMAIN Document'.entries : Document'.entries[k].id = id
  BY <1>1, RecordedKept
<1>2. ASSUME NEW i \in intents, i.entry.id = id, id \in made
      PROVE  \/ \E k \in DOMAIN Document'.entries : Document'.entries[k].id = id
             \/ \E k \in intents' : k.entry.id = id
  <2>1. CASE i \in intents'
    BY <1>2, <2>1
  <2>2. CASE i \notin intents'
    <3>1. ASSUME NEW p \in Procs, WriteIntent(p) PROVE FALSE
      <4>1. i = Torn(job[p].held)
        BY <2>2, <3>1 DEF WriteIntent
      <4>2. job[p].held.id \notin made
        BY <3>1 DEF WriteIntent, KeptInv, HeldKept
      <4> QED BY <1>2, <4>1, <4>2 DEF Torn
    <3>2. ASSUME NEW p \in Procs, MarkSucceeded(p) PROVE \E k \in intents' : k.entry.id = id
      <4>1. i = Prepared(job[p].held) /\ Succeeded(job[p].held) \in intents'
        BY <2>2, <3>2 DEF MarkSucceeded
      <4> QED BY <1>2, <4>1 DEF Prepared, Succeeded
    <3>3. ASSUME NEW p \in Procs, RetireIntent(p)
          PROVE  \E k \in DOMAIN Document'.entries : Document'.entries[k].id = id
      <4>1. i = Succeeded(job[p].held)
        BY <2>2, <3>3 DEF RetireIntent
      <4>2. RecordedHeld(p)
        BY <3>3 DEF RetireIntent, KeptInv, HeldKept
      <4> QED BY <1>1, <1>2, <4>1, <4>2 DEF Succeeded, RecordedHeld
    <3>4. ASSUME NEW p \in Procs, CreateIntent(p) PROVE FALSE
      BY <2>2, <3>4 DEF CreateIntent
    <3> QED BY <2>2, <3>1, <3>2, <3>3, <3>4, IntentSteps
  <2> QED BY <2>1, <2>2
<1>3. CASE id \in made
  BY <1>1, <1>2, <1>3 DEF KeptInv, NoMutationForgotten
<1>4. CASE id \notin made
  <2>1. PICK p \in Procs : Execute(p) /\ UNCHANGED intents /\ id = job[p].held.id
    BY <1>4, IntentSteps
  <2>2. \E i \in intents : i.entry = job[p].held
    BY <2>1 DEF Execute, KeptInv, HeldKept
  <2> QED BY <2>1, <2>2
<1> QED BY <1>3, <1>4

LEMMA InitKept == Init => KeptInv
BY DEF Init, KeptInv, NoMutationForgotten, IdsMinted, HeldKept, HoldingSteps, ApplySteps

\* The receipt never forgets what styrn did: whatever crashed or failed since,
\* every mutation is recorded in the receipt or still named by an intent.
THEOREM NothingForgotten == Spec => []NoMutationForgotten
<1>1. IInv /\ KeptInv /\ [Next]_vars => KeptInv'
  BY StepIdsMinted, StepHeldKept, StepNothingForgotten DEF KeptInv
<1>2. KeptInv => NoMutationForgotten
  BY DEF KeptInv
<1> QED BY <1>1, <1>2, InitKept, Inductive, PTL DEF Spec

(***************************************************************************)
(* One transaction at a time.  Between two journal steps of a process the  *)
(* journal holds exactly the intent in hand, in the phase the next step    *)
(* expects; a process that plans its next action has an empty journal.     *)
(***************************************************************************)
JournalAt(step, held, is) ==
  /\ step = "check" => is = {}
  /\ step = "write_intent" => is = {Torn(held)}
  /\ step \in {"execute", "bind"} => is = {Prepared(held)}
  /\ step \in {"append", "retire_evidence", "retire_intent"} => is = {Succeeded(held)}

AtMostOne(is) == \A i, k \in is : i = k

IntentInv ==
  /\ AtMostOne(intents)
  /\ \A p \in Procs : JournalAt(pc[p], job[p].held, intents)

LEMMA RecordPendingMoves ==
  ASSUME NEW p \in Procs, RecordPending(p)
  PROVE  End(p) \/ \E j : Goto(p, "check", j)
<1>1. ASSUME NEW item, NewOccurrence(p, item) PROVE End(p) \/ \E j : Goto(p, "check", j)
  BY <1>1 DEF NewOccurrence, Noted
<1>2. ASSUME NEW item, NEW link, ReuseOccurrence(p, item, link)
      PROVE  End(p) \/ \E j : Goto(p, "check", j)
  BY <1>2 DEF ReuseOccurrence, Noted
<1> QED BY <1>1, <1>2 DEF RecordPending

LEMMA ProbeAgainMoves ==
  ASSUME NEW p \in Procs, ProbeAgain(p)
  PROVE  \E step \in {"begin_publication", "begin_apply"} : \E j : Goto(p, step, j)
<1>1. CASE job[p].draft # None
  <2>1. Goto(p, "begin_publication", job[p])
    BY <1>1, Zenon DEF ProbeAgain
  <2> QED BY <2>1
<1>2. CASE job[p].draft = None
  <2>1. PICK draft \in Drafts :
          \/ Goto(p, "begin_publication", [job[p] EXCEPT !.draft = draft])
          \/ Goto(p, "begin_apply", [job[p] EXCEPT !.draft = draft, !.plan = FlippedCard(p)])
    BY <1>2, Zenon DEF ProbeAgain
  <2> QED BY <2>1, Zenon
<1> QED BY <1>1, <1>2

LEMMA MovesInv ==
  ASSUME IInv, IntentInv, NEW p \in Procs, NEW step, NEW j,
         Goto(p, step, j) \/ Enter(p, step, j) \/ Leave(p, step, j),
         UNCHANGED intents \/ pc[p] \in LockedSteps,
         AtMostOne(intents'), JournalAt(step, j.held, intents')
  PROVE  IntentInv'
<1>1. pc \in [Procs -> Steps] /\ job \in [Procs -> Jobs]
  BY DEF IInv, ProcessesOK
<1>2. ASSUME NEW q \in Procs PROVE JournalAt(pc'[q], job'[q].held, intents')
  <2>1. CASE q = p
    BY <1>1, <2>1 DEF Goto, Enter, Leave
  <2>2. CASE q # p /\ UNCHANGED intents
    BY <1>1, <2>2 DEF Goto, Enter, Leave, IntentInv
  <2>3. CASE q # p /\ pc[p] \in LockedSteps
    <3>1. pc'[q] = pc[q] /\ pc[q] \notin LockedSteps
      BY <1>1, <2>3, OnlyTheHolder DEF Goto, Enter, Leave
    <3> QED BY <3>1 DEF JournalAt, LockedSteps, ApplySteps
  <2> QED BY <2>1, <2>2, <2>3
<1> QED BY <1>2 DEF IntentInv

LEMMA EndInv ==
  ASSUME IInv, IntentInv, NEW p \in Procs, End(p),
         UNCHANGED intents \/ pc[p] \in LockedSteps, AtMostOne(intents')
  PROVE  IntentInv'
<1>1. JournalAt("idle", IdleJob.held, intents')
  BY DEF JournalAt
<1> QED BY <1>1, MovesInv DEF End

\* A step that leaves the journal alone and goes nowhere in it.
LEMMA OutsideInv ==
  ASSUME IInv, IntentInv, NEW p \in Procs, UNCHANGED intents, NEW step, NEW j,
         step \notin ApplySteps,
         Goto(p, step, j) \/ Enter(p, step, j) \/ Leave(p, step, j)
  PROVE  IntentInv'
<1>1. JournalAt(step, j.held, intents') /\ AtMostOne(intents')
  BY DEF JournalAt, ApplySteps, IntentInv
<1> QED BY <1>1, MovesInv

LEMMA BeginApplyInv ==
  ASSUME IInv, IntentInv, NEW p \in Procs, BeginApply(p)
  PROVE  IntentInv'
<1> intents' = intents
  BY Zenon DEF BeginApply
<1>1. UNCHANGED intents /\ AtMostOne(intents')
  BY DEF IntentInv
<1>2. CASE End(p)
  BY <1>1, <1>2, EndInv
<1>3. CASE intents = {} /\ Enter(p, "check", [FreshApply(job[p]) EXCEPT !.idx = 1])
  <2>1. JournalAt("check", [FreshApply(job[p]) EXCEPT !.idx = 1].held, intents')
    BY <1>1, <1>3 DEF JournalAt
  <2> QED BY <1>1, <1>3, <2>1, MovesInv
<1>4. ASSUME NEW i \in intents, RecoveryStep(p, i) # "refuse",
             Enter(p, RecoveryStep(p, i),
                   [FreshApply(job[p]) EXCEPT !.held = i.entry,
                                              !.replay = (i.phase = "succeeded")])
      PROVE  IntentInv'
  <2> DEFINE j == [FreshApply(job[p]) EXCEPT !.held = i.entry,
                                             !.replay = (i.phase = "succeeded")]
             j1 == [FreshApply(job[p]) EXCEPT !.held = i.entry]
  <2>1. intents' = {i}
    BY <1>1, <1>4 DEF IntentInv, AtMostOne
  <2>2. i \in Intents
    BY DEF IInv, DataOK
  <2>3. j.held = i.entry
    <3>1. FreshApply(job[p]) \in Jobs
      BY FreshApplyType DEF IInv, ProcessesOK
    <3>2. j1 \in Jobs /\ j1.held = i.entry
      BY <2>2, <3>1, JobFields DEF Intents
    <3>3. j = [j1 EXCEPT !.replay = (i.phase = "succeeded")]
      OBVIOUS
    <3> HIDE DEF j1, j
    <3> QED BY <3>2, <3>3, JobFields
  <2>4. i = [phase |-> i.phase, entry |-> i.entry]
    BY <2>2 DEF Intents
  <2>5. \/ RecoveryStep(p, i) = "execute" /\ i = Prepared(i.entry)
        \/ RecoveryStep(p, i) = "append" /\ i = Succeeded(i.entry)
    BY <1>4, <2>2, <2>4 DEF RecoveryStep, Intents, Prepared, Succeeded
  <2> HIDE DEF j
  <2>6. JournalAt(RecoveryStep(p, i), j.held, intents')
    BY <2>1, <2>3, <2>5 DEF JournalAt
  <2>7. Enter(p, RecoveryStep(p, i), j)
    BY <1>4 DEF j
  <2> QED BY <1>1, <2>6, <2>7, MovesInv
<1>5. \/ End(p)
      \/ intents = {} /\ Enter(p, "check", [FreshApply(job[p]) EXCEPT !.idx = 1])
      \/ \E i \in intents :
           /\ RecoveryStep(p, i) # "refuse"
           /\ Enter(p, RecoveryStep(p, i),
                    [FreshApply(job[p]) EXCEPT !.held = i.entry,
                                               !.replay = (i.phase = "succeeded")])
  BY Zenon DEF BeginApply
<1> QED BY <1>2, <1>3, <1>4, <1>5, Zenon

LEMMA CheckInv ==
  ASSUME IInv, IntentInv, NEW p \in Procs, SkipDone(p) \/ RecordPending(p) \/ CompleteExecution(p)
  PROVE  IntentInv'
<1>1. UNCHANGED intents /\ intents = {} /\ AtMostOne(intents')
  BY DEF SkipDone, RecordPending, CompleteExecution, IntentInv, JournalAt
<1>2. ASSUME NEW step, NEW j, step \in {"check", "applied"},
             Goto(p, step, j) \/ Leave(p, step, j)
      PROVE  IntentInv'
  <2>1. JournalAt(step, j.held, intents')
    BY <1>1, <1>2 DEF JournalAt
  <2> QED BY <1>1, <1>2, <2>1, MovesInv
<1>3. CASE End(p)
  BY <1>1, <1>3, EndInv
<1>4. CASE SkipDone(p)
  BY <1>2, <1>4 DEF SkipDone, NextAction
<1>5. CASE RecordPending(p)
  <2>1. End(p) \/ \E j : Goto(p, "check", j)
    BY <1>5, RecordPendingMoves
  <2> QED BY <1>2, <1>3, <2>1
<1>6. CASE CompleteExecution(p)
  BY <1>2, <1>3, <1>6 DEF CompleteExecution
<1> QED BY <1>4, <1>5, <1>6

LEMMA CreateIntentInv ==
  ASSUME IInv, IntentInv, NEW p \in Procs, CreateIntent(p)
  PROVE  IntentInv'
<1> DEFINE entry == [id |-> nextId, action |-> PlannedItem(p).action,
                     param |-> PlannedItem(p).param, status |-> "applied"]
           j == [job[p] EXCEPT !.held = entry]
<1>1. pc[p] \in LockedSteps /\ job[p] \in Jobs /\ PlannedItem(p) \in JobItem
  BY CheckHolds DEF CreateIntent
<1>2. entry \in Entries
  BY <1>1 DEF JobItem, Entries, IInv, DataOK
<1>3. j.held = entry
  BY <1>1, <1>2, JobFields
<1>4. intents = {}
  BY DEF CreateIntent, IntentInv, JournalAt
<1> HIDE DEF entry
<1>5. \/ UNCHANGED intents /\ End(p)
      \/ intents' = {Torn(entry)} /\ Goto(p, "write_intent", j)
  BY <1>4 DEF CreateIntent, entry
<1>6. AtMostOne(intents')
  BY <1>4, <1>5 DEF AtMostOne
<1> HIDE DEF j
<1>7. CASE intents' = {Torn(entry)} /\ Goto(p, "write_intent", j)
  <2>1. JournalAt("write_intent", j.held, intents')
    BY <1>3, <1>7 DEF JournalAt
  <2> QED BY <1>1, <1>6, <1>7, <2>1, MovesInv
<1> QED BY <1>1, <1>5, <1>6, <1>7, EndInv

LEMMA WriteIntentInv ==
  ASSUME IInv, IntentInv, NEW p \in Procs, WriteIntent(p)
  PROVE  IntentInv'
<1>1. pc[p] \in LockedSteps /\ intents = {Torn(job[p].held)}
  BY DEF WriteIntent, IntentInv, JournalAt, LockedSteps, ApplySteps
<1>2. /\ intents' \in {{}, {Torn(job[p].held)}, {Prepared(job[p].held)}}
      /\ \/ End(p)
         \/ intents' = {Prepared(job[p].held)} /\ Goto(p, "execute", job[p])
  BY <1>1 DEF WriteIntent, Happened
<1>3. AtMostOne(intents')
  BY <1>2 DEF AtMostOne
<1>4. CASE intents' = {Prepared(job[p].held)} /\ Goto(p, "execute", job[p])
  <2>1. JournalAt("execute", job[p].held, intents')
    BY <1>4 DEF JournalAt
  <2> QED BY <1>1, <1>3, <1>4, <2>1, MovesInv
<1> QED BY <1>1, <1>2, <1>3, <1>4, EndInv

LEMMA ExecuteInv ==
  ASSUME IInv, IntentInv, NEW p \in Procs, Execute(p)
  PROVE  IntentInv'
<1>1. job[p] \in Jobs /\ intents = {Prepared(job[p].held)} /\ UNCHANGED intents
  BY DEF Execute, IntentInv, JournalAt, IInv, ProcessesOK
<1>2. AtMostOne(intents')
  BY <1>1 DEF IntentInv
<1>3. ASSUME NEW late \in BOOLEAN, Goto(p, "bind", [job[p] EXCEPT !.failing = late])
      PROVE  IntentInv'
  <2>1. [job[p] EXCEPT !.failing = late].held = job[p].held
    BY <1>1 DEF Jobs
  <2>2. JournalAt("bind", [job[p] EXCEPT !.failing = late].held, intents')
    BY <1>1, <2>1 DEF JournalAt
  <2> QED BY <1>1, <1>2, <1>3, <2>2, MovesInv
<1> QED BY <1>1, <1>2, <1>3, EndInv DEF Execute

LEMMA MarkSucceededInv ==
  ASSUME IInv, IntentInv, NEW p \in Procs, MarkSucceeded(p)
  PROVE  IntentInv'
<1>1. pc[p] \in LockedSteps /\ intents = {Prepared(job[p].held)}
  BY DEF MarkSucceeded, IntentInv, JournalAt, LockedSteps, ApplySteps
<1>2. /\ intents' \in {{Prepared(job[p].held)}, {Succeeded(job[p].held)}}
      /\ \/ End(p)
         \/ intents' = {Succeeded(job[p].held)} /\ Goto(p, "append", job[p])
  BY <1>1 DEF MarkSucceeded, Happened
<1>3. AtMostOne(intents')
  BY <1>2 DEF AtMostOne
<1>4. CASE intents' = {Succeeded(job[p].held)} /\ Goto(p, "append", job[p])
  <2>1. JournalAt("append", job[p].held, intents')
    BY <1>4 DEF JournalAt
  <2> QED BY <1>1, <1>3, <1>4, <2>1, MovesInv
<1> QED BY <1>1, <1>2, <1>3, <1>4, EndInv

LEMMA FinishingInv ==
  ASSUME IInv, IntentInv, NEW p \in Procs, AppendEntry(p) \/ RetireEvidence(p)
  PROVE  IntentInv'
<1>1. /\ job[p] \in Jobs /\ intents = {Succeeded(job[p].held)} /\ UNCHANGED intents
      /\ AtMostOne(intents')
  BY DEF AppendEntry, RetireEvidence, IntentInv, JournalAt, IInv, ProcessesOK
<1>2. ASSUME NEW step \in {"retire_evidence", "retire_intent"}, NEW j, Goto(p, step, j),
             j.held = job[p].held
      PROVE  IntentInv'
  <2>1. JournalAt(step, j.held, intents')
    BY <1>1, <1>2 DEF JournalAt
  <2> QED BY <1>1, <1>2, <2>1, MovesInv
<1>3. [job[p] EXCEPT !.keeping = TRUE].held = job[p].held
  BY <1>1 DEF Jobs
<1>4. CASE AppendEntry(p)
  BY <1>1, <1>2, <1>3, <1>4, EndInv DEF AppendEntry, AppendFailed
<1>5. CASE RetireEvidence(p)
  BY <1>1, <1>2, <1>5, EndInv DEF RetireEvidence
<1> QED BY <1>4, <1>5

LEMMA RetireIntentInv ==
  ASSUME IInv, IntentInv, NEW p \in Procs, RetireIntent(p)
  PROVE  IntentInv'
<1>1. pc[p] \in LockedSteps /\ intents = {Succeeded(job[p].held)}
  BY DEF RetireIntent, IntentInv, JournalAt, LockedSteps, ApplySteps
<1>2. /\ intents' \in {{}, {Succeeded(job[p].held)}}
      /\ End(p) \/ (intents' = {} /\ NextAction(p))
  BY <1>1 DEF RetireIntent, Happened
<1>3. AtMostOne(intents')
  BY <1>2 DEF AtMostOne
<1>4. CASE intents' = {} /\ NextAction(p)
  BY <1>1, <1>3, <1>4, MovesInv DEF NextAction, JournalAt
<1> QED BY <1>1, <1>2, <1>3, <1>4, EndInv

LEMMA StepIntentInv == IInv /\ IntentInv /\ [Next]_vars => IntentInv'
<1> SUFFICES ASSUME IInv, IntentInv, [Next]_vars PROVE IntentInv'
  OBVIOUS
<1>1. AtMostOne(intents)
  BY DEF IntentInv
<1>2. ASSUME NEW p \in Procs, ApplyNext(p) PROVE IntentInv'
  BY <1>2, BeginApplyInv, CheckInv, CreateIntentInv, WriteIntentInv, ExecuteInv, MarkSucceededInv,
     FinishingInv, RetireIntentInv DEF ApplyNext
<1>3. ASSUME NEW p \in Procs, PublishNext(p) PROVE IntentInv'
  <2>1. UNCHANGED intents
    BY <1>3 DEF PublishNext, BeginPublication, Recover, Checkpoint, RemoveSidecar,
                PreparePublication, PublishManifest
  <2>2. ASSUME NEW step, NEW j, step \notin ApplySteps,
               Goto(p, step, j) \/ Enter(p, step, j) \/ Leave(p, step, j)
        PROVE  IntentInv'
    BY <2>1, <2>2, OutsideInv
  <2>3. CASE End(p)
    BY <1>1, <2>1, <2>3, EndInv
  <2>4. CASE BeginPublication(p)
    BY <2>2, <2>3, <2>4 DEF BeginPublication, ApplySteps
  <2>5. CASE Recover(p) \/ PublishManifest(p)
    <3>1. \/ End(p)
          \/ \E step \in {"prepare_publication", "recover_checkpoint", "checkpoint"} :
               Goto(p, step, job[p])
      BY <2>5 DEF Recover, PublishManifest, ReplaceManifest
    <3> QED BY <2>2, <2>3, <3>1 DEF ApplySteps
  <2>6. CASE Checkpoint(p)
    <3>1. AfterCheckpoint(p) \notin ApplySteps
      BY DEF AfterCheckpoint, ApplySteps
    <3> QED BY <2>2, <2>3, <2>6, <3>1 DEF Checkpoint
  <2>7. CASE RemoveSidecar(p)
    BY <2>2, <2>3, <2>7 DEF RemoveSidecar, ApplySteps
  <2>8. CASE PreparePublication(p)
    BY <2>2, <2>3, <2>8 DEF PreparePublication, PublishSidecar, ApplySteps
  <2> QED BY <1>3, <2>4, <2>5, <2>6, <2>7, <2>8 DEF PublishNext
<1>4. ASSUME NEW p \in Procs, PrepareSetup(p) \/ ReadSnapshot(p) \/ ProbeAgain(p) \/ Crash(p)
      PROVE  IntentInv'
  <2>1. UNCHANGED intents
    BY <1>4, Zenon DEF PrepareSetup, ReadSnapshot, ProbeAgain, Crash
  <2>2. ASSUME NEW step \in {"snapshot", "begin_apply", "begin_publication"}, NEW j,
               Goto(p, step, j)
        PROVE  IntentInv'
    BY <2>1, <2>2, OutsideInv DEF ApplySteps
  <2>3. CASE PrepareSetup(p)
    BY <2>2, <2>3 DEF PrepareSetup
  <2>4. CASE ReadSnapshot(p) \/ Crash(p)
    BY <1>1, <2>1, <2>2, <2>4, EndInv DEF ReadSnapshot, Crash
  <2>5. CASE ProbeAgain(p)
    BY <2>2, <2>5, ProbeAgainMoves
  <2> QED BY <1>4, <2>3, <2>4, <2>5
<1>5. ASSUME Interfere \/ EditManifest \/ UNCHANGED vars PROVE IntentInv'
  BY <1>5 DEF Interfere, EditManifest, vars, IntentInv
<1> QED BY <1>2, <1>3, <1>4, <1>5 DEF Next, SetupStep

LEMMA InitIntentInv == Init => IntentInv
BY DEF Init, IntentInv, AtMostOne, JournalAt

\* At most one transaction is unresolved, whoever crashed in what order: the
\* second intent file that pending_intents refuses for ever is never written.
THEOREM OneTransaction == Spec => []OneIntent
<1>1. IntentInv => OneIntent
  <2> SUFFICES ASSUME IntentInv PROVE OneIntent
    OBVIOUS
  <2>1. CASE intents = {}
    BY <2>1, FS_EmptySet DEF OneIntent
  <2>2. ASSUME NEW i \in intents PROVE OneIntent
    <3>1. intents = {i}
      BY <2>2 DEF IntentInv, AtMostOne
    <3> QED BY <3>1, FS_Singleton DEF OneIntent
  <2> QED BY <2>1, <2>2
<1> QED BY <1>1, InitIntentInv, StepIntentInv, Inductive, PTL DEF Spec

(***************************************************************************)
(* Creation evidence is always answered for.  Only a directory of the      *)
(* model has evidence, and at the two steps that may take the intent away  *)
(* the resource in hand has none.                                          *)
(***************************************************************************)
EvidenceInv ==
  /\ \A a \in Actions : res[a] = "evidence" => a \in Directories
  /\ NoOrphanEvidence
  /\ \A p \in Procs : pc[p] \in {"write_intent", "retire_intent"} => res[HeldAction(p)] # "evidence"

\* Evidence appears only where a directory is created.
LEMMA NewEvidence ==
  ASSUME IInv, [Next]_vars, NEW a \in Actions, res'[a] = "evidence", res[a] # "evidence"
  PROVE  \E p \in Procs : Execute(p) /\ a = HeldAction(p) /\ a \in Directories
<1>1. res \in [Actions -> ResourceStates]
  BY DEF IInv, DataOK
<1>2. CASE Interfere
  <2>1. PICK b \in Actions \ Virtual, state \in {"absent", "exact", "foreign", "lost"} :
          res' = [res EXCEPT ![b] = state]
    BY <1>1, <1>2 DEF Interfere, ResourceStates
  <2> QED BY <1>1, <2>1
<1>3. ASSUME NEW p \in Procs, Execute(p)
      PROVE  a = HeldAction(p) /\ a \in Directories
  <2>1. HeldAction(p) \in Actions
    BY <1>3, HoldingHolds DEF Execute, HoldingSteps, ApplySteps
  <2>2. \/ UNCHANGED res
        \/ res' = [res EXCEPT ![HeldAction(p)] =
                     IF HeldAction(p) \in Directories THEN "evidence" ELSE "exact"]
    BY <1>3 DEF Execute
  <2> QED BY <1>1, <2>1, <2>2
<1>4. ASSUME NEW p \in Procs, RetireEvidence(p) PROVE FALSE
  <2>1. HeldAction(p) \in Actions
    BY <1>4, HoldingHolds DEF RetireEvidence, HoldingSteps, ApplySteps
  <2>2. UNCHANGED res \/ res' = [res EXCEPT ![HeldAction(p)] = "owned"]
    BY <1>4 DEF RetireEvidence
  <2> QED BY <1>1, <2>1, <2>2
<1>5. ASSUME NEW p \in Procs, ApplyNext(p), ~Execute(p), ~RetireEvidence(p) PROVE UNCHANGED res
  BY <1>5, Zenon DEF ApplyNext, BeginApply, SkipDone, CreateIntent, WriteIntent, MarkSucceeded,
                     AppendEntry, RetireIntent, RecordPending, CompleteExecution
<1>6. ASSUME NEW p \in Procs, PublishNext(p) PROVE UNCHANGED res
  BY <1>6 DEF PublishNext, BeginPublication, Recover, Checkpoint, RemoveSidecar,
              PreparePublication, PublishManifest
<1>7. ASSUME NEW p \in Procs, PrepareSetup(p) \/ ReadSnapshot(p) \/ ProbeAgain(p) \/ Crash(p)
      PROVE  UNCHANGED res
  BY <1>7, Zenon DEF PrepareSetup, ReadSnapshot, ProbeAgain, Crash
<1>8. ASSUME EditManifest \/ UNCHANGED vars PROVE UNCHANGED res
  BY <1>8 DEF EditManifest, vars
<1> QED BY <1>2, <1>3, <1>4, <1>5, <1>6, <1>7, <1>8 DEF Next, SetupStep

LEMMA StepOrphans ==
  ASSUME IInv, IntentInv, EvidenceInv, [Next]_vars
  PROVE  NoOrphanEvidence'
<1> SUFFICES ASSUME NEW a \in Actions, res'[a] = "evidence"
    PROVE \E i \in intents' : i.entry.action = a
  BY DEF NoOrphanEvidence
<1>1. CASE res[a] # "evidence"
  <2>1. PICK p \in Procs : Execute(p) /\ a = HeldAction(p)
    BY <1>1, NewEvidence
  <2>2. Prepared(job[p].held) \in intents'
    BY <2>1 DEF Execute, IntentInv, JournalAt
  <2> QED BY <2>1, <2>2 DEF Prepared, HeldAction
<1>2. CASE res[a] = "evidence"
  <2>1. PICK i \in intents : i.entry.action = a
    BY <1>2 DEF EvidenceInv, NoOrphanEvidence
  <2>2. CASE i \in intents'
    BY <2>1, <2>2
  <2>3. CASE i \notin intents'
    <3>1. ASSUME NEW p \in Procs, CreateIntent(p) PROVE FALSE
      BY <2>3, <3>1 DEF CreateIntent
    <3>2. ASSUME NEW p \in Procs, WriteIntent(p) PROVE FALSE
      <4>1. pc[p] = "write_intent" /\ i = Torn(job[p].held)
        BY <3>2 DEF WriteIntent, IntentInv, JournalAt
      <4> QED BY <1>2, <2>1, <4>1 DEF EvidenceInv, HeldAction, Torn
    <3>3. ASSUME NEW p \in Procs, MarkSucceeded(p) PROVE \E k \in intents' : k.entry.action = a
      <4>1. i = Prepared(job[p].held) /\ Succeeded(job[p].held) \in intents'
        BY <2>3, <3>3 DEF MarkSucceeded
      <4> QED BY <2>1, <4>1 DEF Prepared, Succeeded
    <3>4. ASSUME NEW p \in Procs, RetireIntent(p) PROVE FALSE
      <4>1. pc[p] = "retire_intent" /\ i = Succeeded(job[p].held)
        BY <3>4 DEF RetireIntent, IntentInv, JournalAt
      <4> QED BY <1>2, <2>1, <4>1 DEF EvidenceInv, HeldAction, Succeeded
    <3> QED BY <2>3, <3>1, <3>2, <3>3, <3>4, IntentSteps
  <2> QED BY <2>2, <2>3
<1> QED BY <1>1, <1>2

LEMMA StepEvidence == IInv /\ IntentInv /\ EvidenceInv /\ [Next]_vars => EvidenceInv'
<1> SUFFICES ASSUME IInv, IntentInv, EvidenceInv, [Next]_vars PROVE EvidenceInv'
  OBVIOUS
<1>1. ASSUME NEW a \in Actions, res'[a] = "evidence" PROVE a \in Directories
  BY <1>1, NewEvidence DEF EvidenceInv
<1>2. ASSUME NEW q \in Procs, pc'[q] \in {"write_intent", "retire_intent"},
             res'[job'[q].held.action] = "evidence"
      PROVE  FALSE
  <2> DEFINE a == job'[q].held.action
  <2>1. Stays(q) \/ Arrives(q)
    BY <1>2, HoldingMoves DEF HoldingSteps, ApplySteps
  <2>2. a \in Actions
    BY <1>2, StepIInv DEF IInv, ProcessesOK, InHand, HoldingSteps, ApplySteps, Entries
  <2>3. ASSUME NEW p \in Procs, Execute(p) PROVE q = p /\ pc[q] = "execute"
    <3>1. pc[p] \in LockedSteps /\ pc'[q] \in LockedSteps /\ pc[p] = "execute"
      BY <1>2, <2>3 DEF Execute, LockedSteps, ApplySteps
    <3>2. lock = p /\ lock' = q
      BY <3>1, StepIInv DEF IInv, ProcessesOK, LockDiscipline
    <3>3. lock' \in {p, None}
      BY <2>3, <3>2 DEF Execute, Goto, End, Leave, Released
    <3> QED BY <3>1, <3>2, <3>3, NoneAssumption
  <2>4. CASE Stays(q)
    <3>1. pc[q] \in {"write_intent", "retire_intent"} /\ res[a] # "evidence"
      BY <1>2, <2>4 DEF Stays, EvidenceInv, HeldAction
    <3>2. PICK p \in Procs : Execute(p)
      BY <1>2, <2>2, <3>1, NewEvidence
    <3> QED BY <2>3, <3>1, <3>2
  <2>5. CASE CreateIntent(q)
    <3>1. intents = {} /\ UNCHANGED res
      BY <2>5 DEF CreateIntent, IntentInv, JournalAt
    <3> QED BY <1>2, <2>2, <3>1 DEF EvidenceInv, NoOrphanEvidence
  <2>6. CASE RetireEvidence(q) /\ pc'[q] = "retire_intent" /\ SameHeld(q)
    <3>1. a = HeldAction(q) /\ res \in [Actions -> ResourceStates] /\ pc \in [Procs -> Steps]
      BY <2>6 DEF SameHeld, HeldAction, IInv, DataOK, ProcessesOK
    <3>2. ~End(q)
      BY <2>6, <3>1 DEF End, Leave
    <3>3. res' = IF a \in Directories /\ res[a] = "evidence"
                 THEN [res EXCEPT ![a] = "owned"] ELSE res
      BY <2>6, <3>1, <3>2 DEF RetireEvidence, Happened
    <3> QED BY <1>2, <2>2, <3>1, <3>3 DEF EvidenceInv
  <2> QED BY <1>2, <2>1, <2>4, <2>5, <2>6 DEF Arrives
<1> QED BY <1>1, <1>2, StepOrphans DEF EvidenceInv, HeldAction

\* A directory whose creation evidence is active, which every later check
\* reports as a conflict, is always one that an intent on disk answers for.
THEOREM EvidenceAnswered == Spec => []NoOrphanEvidence
<1>1. Init => EvidenceInv
  BY DEF Init, EvidenceInv, NoOrphanEvidence
<1>2. EvidenceInv => NoOrphanEvidence
  BY DEF EvidenceInv
<1> QED BY <1>1, <1>2, InitIntentInv, StepIntentInv, StepEvidence, Inductive, PTL DEF Spec

----------------------------------------------------------------------------
(***************************************************************************)
(* Part 3.  The ledger.                                                    *)
(***************************************************************************)

(***************************************************************************)
(* Where the steps lead, and which of them write the publications.         *)
(***************************************************************************)
Moves(p, step, j) == Goto(p, step, j) \/ Enter(p, step, j) \/ Leave(p, step, j)

LEMMA EndMoves ==
  ASSUME NEW p \in Procs, End(p)
  PROVE  Moves(p, "idle", IdleJob)
BY DEF End, Moves

LEMMA ApplyMoves ==
  ASSUME IInv, NEW p \in Procs, ApplyNext(p), ~CompleteExecution(p)
  PROVE  \E step \in ApplySteps \union {"idle"} : \E j : Moves(p, step, j)
<1>1. CASE End(p)
  BY <1>1, EndMoves
<1>2. CASE BeginApply(p)
  <2>1. ASSUME NEW i \in intents, RecoveryStep(p, i) # "refuse" PROVE RecoveryStep(p, i) \in ApplySteps
    BY <2>1 DEF RecoveryStep, ApplySteps, IInv, DataOK, Intents
  <2>2. \/ End(p)
        \/ \E j : Enter(p, "check", j)
        \/ \E i \in intents : RecoveryStep(p, i) # "refuse" /\ \E j : Enter(p, RecoveryStep(p, i), j)
    BY <1>2, Zenon DEF BeginApply
  <2> QED BY <1>1, <2>1, <2>2 DEF Moves, ApplySteps
<1>3. CASE SkipDone(p) \/ RetireIntent(p) \/ RecordPending(p)
  <2>1. End(p) \/ \E j : Goto(p, "check", j)
    BY <1>3, RecordPendingMoves, Zenon DEF SkipDone, RetireIntent, NextAction
  <2> QED BY <1>1, <2>1 DEF Moves, ApplySteps
<1>4. CASE CreateIntent(p) \/ WriteIntent(p) \/ Execute(p) \/ MarkSucceeded(p)
  <2>1. End(p) \/ \E step \in {"write_intent", "execute", "bind", "append"} : \E j : Goto(p, step, j)
    BY <1>4 DEF CreateIntent, WriteIntent, Execute, MarkSucceeded
  <2> QED BY <1>1, <2>1 DEF Moves, ApplySteps
<1>5. CASE AppendEntry(p) \/ RetireEvidence(p)
  <2>1. End(p) \/ \E step \in {"retire_evidence", "retire_intent"} : \E j : Goto(p, step, j)
    BY <1>5 DEF AppendEntry, AppendFailed, RetireEvidence
  <2> QED BY <1>1, <2>1 DEF Moves, ApplySteps
<1> QED BY <1>2, <1>3, <1>4, <1>5 DEF ApplyNext

LEMMA CompleteMoves ==
  ASSUME NEW p \in Procs, CompleteExecution(p)
  PROVE  \/ Moves(p, "idle", IdleJob)
         \/ Moves(p, "applied", [job[p] EXCEPT !.witness = EffectiveNow])
BY EndMoves DEF CompleteExecution, Moves, EffectiveNow

\* Planning, probing and crashing.
LEMMA IdleMoves ==
  ASSUME NEW p \in Procs, PrepareSetup(p) \/ ReadSnapshot(p) \/ ProbeAgain(p) \/ Crash(p)
  PROVE  /\ UNCHANGED <<receipt, sidecar, manifest, nextId>>
         /\ \E step \in {"idle", "snapshot", "begin_apply", "begin_publication"} :
              \E j : Moves(p, step, j)
<1>1. UNCHANGED <<receipt, sidecar, manifest, nextId>>
  BY Zenon DEF PrepareSetup, ReadSnapshot, ProbeAgain, Crash
<1>2. CASE ProbeAgain(p)
  BY <1>1, <1>2, ProbeAgainMoves DEF Moves
<1>3. CASE PrepareSetup(p)
  <2>1. \E j : Goto(p, "snapshot", j)
    BY <1>3, Zenon DEF PrepareSetup
  <2> QED BY <1>1, <2>1 DEF Moves
<1>4. CASE ReadSnapshot(p) \/ Crash(p)
  BY <1>1, <1>4, EndMoves DEF ReadSnapshot, Crash, Moves
<1> QED BY <1>2, <1>3, <1>4

LEMMA ApplyKeepsPublication ==
  ASSUME IInv, NEW p \in Procs, ApplyNext(p)
  PROVE  UNCHANGED <<sidecar, manifest>>
BY Zenon DEF ApplyNext, BeginApply, SkipDone, CreateIntent, WriteIntent, Execute, MarkSucceeded,
             AppendEntry, RetireEvidence, RetireIntent, RecordPending, CompleteExecution

\* Only a checkpoint adds a publication to the receipt.
LEMMA PubsSteps ==
  ASSUME IInv, [Next]_vars
  PROVE  Document'.pubs = Document.pubs \/ \E p \in Procs : Checkpoint(p)
<1>1. CASE UNCHANGED receipt
  BY <1>1 DEF Document
<1>2. ASSUME NEW entry \in Entries, EntryAdded(entry) PROVE Document'.pubs = Document.pubs
  BY <1>2, EntryAddedDocument DEF IInv
<1> QED BY <1>1, <1>2, ReceiptSteps, HeldIsEntry

\* A sidecar appears where there was none, and goes when it is removed.
Written(p) ==
  [ pubCount |-> Len(Document.pubs), prefix |-> Document, pub |-> NewPublication(p),
    before |-> manifest, after |-> Candidate(p) ]

LEMMA SidecarSteps ==
  ASSUME IInv, [Next]_vars
  PROVE  \/ UNCHANGED sidecar
         \/ \E p \in Procs : RemoveSidecar(p) /\ sidecar' = None
         \/ \E p \in Procs : /\ PreparePublication(p) /\ PublicationPossible(p) /\ ~SameLinks(p)
                             /\ sidecar' = Written(p) /\ UNCHANGED manifest
<1>1. ASSUME NEW p \in Procs, PublishNext(p), ~RemoveSidecar(p), ~PreparePublication(p)
      PROVE  UNCHANGED sidecar
  BY <1>1 DEF PublishNext, BeginPublication, Recover, Checkpoint, PublishManifest
<1>2. ASSUME NEW p \in Procs, RemoveSidecar(p) PROVE UNCHANGED sidecar \/ sidecar' = None
  BY <1>2 DEF RemoveSidecar
<1>3. ASSUME NEW p \in Procs, PreparePublication(p)
      PROVE  \/ UNCHANGED sidecar
             \/ /\ PublicationPossible(p) /\ ~SameLinks(p)
                /\ sidecar' = Written(p) /\ UNCHANGED manifest
  BY <1>3 DEF PreparePublication, PublishSidecar, Written
<1>4. ASSUME Interfere \/ EditManifest \/ UNCHANGED vars PROVE UNCHANGED sidecar
  BY <1>4 DEF Interfere, EditManifest, vars
<1> QED BY <1>1, <1>2, <1>3, <1>4, ApplyKeepsPublication, IdleMoves DEF Next, SetupStep

\* Who replaces the manifest, and by what.
LEMMA ManifestSteps ==
  ASSUME IInv, [Next]_vars
  PROVE  \/ UNCHANGED manifest
         \/ \E p \in Procs : /\ Recover(p) /\ sidecar # None
                             /\ manifest = sidecar.before /\ manifest' = sidecar.after
         \/ \E p \in Procs : PublishManifest(p) /\ manifest' = sidecar.after
         \/ \E p \in Procs : /\ PreparePublication(p) /\ sidecar = None /\ SameLinks(p)
                             /\ manifest' = Candidate(p)
         \/ EditManifest
<1>1. ASSUME NEW p \in Procs, Recover(p)
      PROVE  \/ UNCHANGED manifest
             \/ sidecar # None /\ manifest = sidecar.before /\ manifest' = sidecar.after
  BY <1>1 DEF Recover, ReplaceManifest, StoredCandidateApplies
<1>2. ASSUME NEW p \in Procs, PublishManifest(p)
      PROVE  UNCHANGED manifest \/ manifest' = sidecar.after
  BY <1>2 DEF PublishManifest, ReplaceManifest
<1>3. ASSUME NEW p \in Procs, PreparePublication(p)
      PROVE  \/ UNCHANGED manifest
             \/ sidecar = None /\ SameLinks(p) /\ manifest' = Candidate(p)
  BY <1>3 DEF PreparePublication, PublicationPossible
<1>4. ASSUME NEW p \in Procs, BeginPublication(p) \/ Checkpoint(p) \/ RemoveSidecar(p)
      PROVE  UNCHANGED manifest
  BY <1>4 DEF BeginPublication, Checkpoint, RemoveSidecar
<1>5. ASSUME Interfere \/ UNCHANGED vars PROVE UNCHANGED manifest
  BY <1>5 DEF Interfere, vars
<1> QED BY <1>1, <1>2, <1>3, <1>4, <1>5, ApplyKeepsPublication, IdleMoves
        DEF Next, SetupStep, PublishNext

(***************************************************************************)
(* What a process in the middle of a publication may rely on: the manifest *)
(* is the one its sidecar starts from, then the sidecar's candidate, then  *)
(* also the publication is in the receipt.                                 *)
(***************************************************************************)
PublicationAt(step, m, sc, pubs) ==
  /\ step = "replace_manifest" => m = sc.before
  /\ step \in {"recover_checkpoint", "checkpoint", "recover_remove", "remove"} =>
       sc # None /\ m = sc.after
  /\ step \in {"recover_remove", "remove"} =>
       Len(pubs) = sc.pubCount + 1 /\ Last(pubs) = sc.pub

PublishingInv == \A p \in Procs : PublicationAt(pc[p], manifest, sidecar, Document.pubs)

LEMMA Elsewhere ==
  ASSUME NEW step, NEW m, NEW sc, NEW pubs, step \notin ManifestLockedSteps
  PROVE  PublicationAt(step, m, sc, pubs)
BY DEF PublicationAt, ManifestLockedSteps

LEMMA MovesPublishing ==
  ASSUME IInv, PublishingInv, NEW p \in Procs, NEW step, \E j : Moves(p, step, j),
         \/ UNCHANGED <<manifest, sidecar>> /\ Document'.pubs = Document.pubs
         \/ pc[p] \in LockedSteps,
         PublicationAt(step, manifest', sidecar', Document'.pubs)
  PROVE  PublishingInv'
<1>1. pc \in [Procs -> Steps]
  BY DEF IInv, ProcessesOK
<1>2. ASSUME NEW q \in Procs PROVE PublicationAt(pc'[q], manifest', sidecar', Document'.pubs)
  <2>1. pc'[q] = IF q = p THEN step ELSE pc[q]
    BY <1>1 DEF Moves, Goto, Enter, Leave
  <2>2. CASE q = p
    BY <2>1, <2>2
  <2>3. CASE q # p /\ UNCHANGED <<manifest, sidecar>> /\ Document'.pubs = Document.pubs
    BY <2>1, <2>3 DEF PublishingInv
  <2>4. CASE q # p /\ pc[p] \in LockedSteps
    <3>1. pc'[q] \notin ManifestLockedSteps
      BY <2>1, <2>4, OnlyTheHolder DEF LockedSteps, PublishSteps, ManifestLockedSteps
    <3> QED BY <3>1, Elsewhere
  <2> QED BY <2>2, <2>3, <2>4
<1> QED BY <1>2 DEF PublishingInv

LEMMA EndPublishing ==
  ASSUME IInv, PublishingInv, NEW p \in Procs, End(p),
         \/ UNCHANGED <<manifest, sidecar>> /\ Document'.pubs = Document.pubs
         \/ pc[p] \in LockedSteps
  PROVE  PublishingInv'
<1>1. PublicationAt("idle", manifest', sidecar', Document'.pubs)
  BY Elsewhere DEF ManifestLockedSteps
<1> QED BY <1>1, EndMoves, MovesPublishing

LEMMA RecoverPublishing ==
  ASSUME IInv, PublishingInv, NEW p \in Procs, Recover(p)
  PROVE  PublishingInv'
<1>1. pc[p] \in LockedSteps
  BY DEF Recover, LockedSteps, PublishSteps
<1>2. \/ End(p)
      \/ Goto(p, "prepare_publication", job[p])
      \/ /\ Goto(p, "recover_checkpoint", job[p])
         /\ sidecar' # None /\ manifest' = sidecar'.after
  BY DEF Recover, ReplaceManifest, Happened
<1>3. CASE Goto(p, "prepare_publication", job[p])
  <2>1. PublicationAt("prepare_publication", manifest', sidecar', Document'.pubs)
    BY Elsewhere DEF ManifestLockedSteps
  <2> QED BY <1>1, <1>3, <2>1, MovesPublishing DEF Moves
<1>4. CASE Goto(p, "recover_checkpoint", job[p]) /\ sidecar' # None /\ manifest' = sidecar'.after
  <2>1. PublicationAt("recover_checkpoint", manifest', sidecar', Document'.pubs)
    BY <1>4 DEF PublicationAt
  <2> QED BY <1>1, <1>4, <2>1, MovesPublishing DEF Moves
<1> QED BY <1>1, <1>2, <1>3, <1>4, EndPublishing

\* A sidecar that binds to the receipt, which is not one publication short, is
\* there as the last publication.
LEMMA BoundAndPresent ==
  ASSUME NEW intent \in Sidecars, NEW doc \in Documents, BindingValid(intent, doc),
         Len(doc.pubs) # intent.pubCount
  PROVE  Len(doc.pubs) = intent.pubCount + 1 /\ Last(doc.pubs) = intent.pub
<1>1. intent.pubCount \in Nat /\ Len(doc.pubs) \in Nat
  BY DEF Sidecars, Documents
<1>2. intent.pubCount <= Len(doc.pubs) /\ Len(doc.pubs) <= intent.pubCount + 1
  BY DEF BindingValid, PrefixMatches
<1>3. Len(doc.pubs) = intent.pubCount + 1
  BY <1>1, <1>2
<1> QED BY <1>3 DEF BindingValid, Last

LEMMA LastAppended ==
  ASSUME NEW S, NEW s \in Seq(S), NEW e \in S
  PROVE  Len(Append(s, e)) = Len(s) + 1 /\ Last(Append(s, e)) = e
BY DEF Last

LEMMA CheckpointPublishing ==
  ASSUME IInv, PublishingInv, NEW p \in Procs, Checkpoint(p)
  PROVE  PublishingInv'
<1>1. pc[p] \in LockedSteps /\ sidecar \in Sidecars /\ UNCHANGED <<sidecar, manifest>>
  BY PublishingHolds DEF Checkpoint, PublishSteps, CandidateSteps
<1>2. sidecar # None /\ manifest = sidecar.after
  BY DEF Checkpoint, PublishingInv, PublicationAt
<1>3. Document \in Documents /\ sidecar.pub \in Publications
  BY <1>1, DocumentType DEF IInv, Sidecars
<1>4. ASSUME Goto(p, AfterCheckpoint(p), job[p]),
             Len(Document'.pubs) = sidecar.pubCount + 1, Last(Document'.pubs) = sidecar.pub
      PROVE  PublishingInv'
  <2>1. PublicationAt(AfterCheckpoint(p), manifest', sidecar', Document'.pubs)
    BY <1>1, <1>2, <1>4 DEF PublicationAt, AfterCheckpoint
  <2> QED BY <1>1, <1>4, <2>1, MovesPublishing DEF Moves
<1>5. \/ End(p)
      \/ /\ Goto(p, AfterCheckpoint(p), job[p]) /\ UNCHANGED receipt
         /\ BindingValid(sidecar, Document) /\ Len(Document.pubs) # sidecar.pubCount
      \/ /\ Goto(p, AfterCheckpoint(p), job[p]) /\ PublicationAdded(sidecar.pub)
         /\ Len(Document.pubs) = sidecar.pubCount
  BY DEF Checkpoint, CheckpointBase, PublicationAdded, Happened
<1>6. CASE /\ Goto(p, AfterCheckpoint(p), job[p]) /\ UNCHANGED receipt
           /\ BindingValid(sidecar, Document) /\ Len(Document.pubs) # sidecar.pubCount
  <2>1. Document' = Document
    BY <1>6 DEF Document
  <2> QED BY <1>1, <1>3, <1>4, <1>6, <2>1, BoundAndPresent
<1>7. CASE /\ Goto(p, AfterCheckpoint(p), job[p]) /\ PublicationAdded(sidecar.pub)
           /\ Len(Document.pubs) = sidecar.pubCount
  <2>1. Document'.pubs = Append(Document.pubs, sidecar.pub)
    BY <1>3, <1>7, PublicationAddedDocument DEF IInv
  <2> QED BY <1>3, <1>4, <1>7, <2>1, LastAppended DEF Documents
<1> QED BY <1>1, <1>5, <1>6, <1>7, EndPublishing

LEMMA PreparePublicationPublishing ==
  ASSUME IInv, PublishingInv, NEW p \in Procs, PreparePublication(p)
  PROVE  PublishingInv'
<1>1. pc[p] \in LockedSteps
  BY DEF PreparePublication, LockedSteps, PublishSteps
<1>2. \/ End(p)
      \/ /\ Goto(p, "replace_manifest", job[p])
         /\ sidecar' = Written(p) /\ UNCHANGED manifest
  BY DEF PreparePublication, PublishSidecar, Happened, Written
<1>3. CASE Goto(p, "replace_manifest", job[p]) /\ sidecar' = Written(p) /\ UNCHANGED manifest
  <2>1. PublicationAt("replace_manifest", manifest', sidecar', Document'.pubs)
    BY <1>3 DEF PublicationAt, Written
  <2> QED BY <1>1, <1>3, <2>1, MovesPublishing DEF Moves
<1> QED BY <1>1, <1>2, <1>3, EndPublishing

LEMMA PublishManifestPublishing ==
  ASSUME IInv, PublishingInv, NEW p \in Procs, PublishManifest(p)
  PROVE  PublishingInv'
<1>1. pc[p] \in LockedSteps /\ manifest = sidecar.before /\ sidecar # None
  <2>1. pc[p] \in LockedSteps /\ manifest = sidecar.before
    BY DEF PublishManifest, LockedSteps, PublishSteps, PublishingInv, PublicationAt
  <2>2. sidecar \in Sidecars
    BY PublishingHolds DEF PublishManifest, PublishSteps, CandidateSteps
  <2> QED BY <2>1, <2>2, AbsentAssumption
<1>2. End(p) \/ (Goto(p, "checkpoint", job[p]) /\ UNCHANGED sidecar /\ manifest' = sidecar.after)
  BY <1>1 DEF PublishManifest, ReplaceManifest, Happened
<1>3. CASE Goto(p, "checkpoint", job[p]) /\ UNCHANGED sidecar /\ manifest' = sidecar.after
  <2>1. PublicationAt("checkpoint", manifest', sidecar', Document'.pubs)
    BY <1>1, <1>3 DEF PublicationAt
  <2> QED BY <1>1, <1>3, <2>1, MovesPublishing DEF Moves
<1> QED BY <1>1, <1>2, <1>3, EndPublishing

\* What adds no publication: anything but a checkpoint.
LEMMA ApplyKeepsPubs ==
  ASSUME IInv, NEW p \in Procs, ApplyNext(p)
  PROVE  Document'.pubs = Document.pubs
<1>1. CASE AppendEntry(p)
  <2>1. UNCHANGED receipt \/ EntryAdded(job[p].held)
    BY <1>1 DEF AppendEntry, EntryAdded
  <2>2. CASE UNCHANGED receipt
    BY <2>2 DEF Document
  <2> QED BY <1>1, <2>1, <2>2, HeldIsEntry, EntryAddedDocument DEF IInv
<1>2. CASE RecordPending(p)
  <2>1. CASE UNCHANGED receipt
    BY <2>1 DEF Document
  <2>2. ASSUME NEW entry \in Entries, EntryAdded(entry) PROVE Document'.pubs = Document.pubs
    BY <2>2, EntryAddedDocument DEF IInv
  <2> QED BY <1>2, <2>1, <2>2, RecordPendingReceipt
<1>3. CASE ~AppendEntry(p) /\ ~RecordPending(p)
  <2>1. UNCHANGED receipt
    BY <1>3, Zenon DEF ApplyNext, BeginApply, SkipDone, CreateIntent, WriteIntent, Execute,
                       MarkSucceeded, RetireEvidence, RetireIntent, CompleteExecution
  <2> QED BY <2>1 DEF Document
<1> QED BY <1>1, <1>2, <1>3

LEMMA StepPublishing == IInv /\ PublishingInv /\ [Next]_vars => PublishingInv'
<1> SUFFICES ASSUME IInv, PublishingInv, [Next]_vars PROVE PublishingInv'
  OBVIOUS
<1>1. ASSUME NEW p \in Procs, ApplyNext(p) PROVE PublishingInv'
  <2>1. PICK step \in ApplySteps \union {"idle", "applied"} : \E j : Moves(p, step, j)
    BY <1>1, ApplyMoves, CompleteMoves
  <2>2. PublicationAt(step, manifest', sidecar', Document'.pubs)
    BY Elsewhere DEF ApplySteps, ManifestLockedSteps
  <2> QED BY <1>1, <2>1, <2>2, MovesPublishing, ApplyKeepsPublication, ApplyKeepsPubs
<1>2. ASSUME NEW p \in Procs, PrepareSetup(p) \/ ReadSnapshot(p) \/ ProbeAgain(p) \/ Crash(p)
      PROVE  PublishingInv'
  <2>1. PICK step \in {"idle", "snapshot", "begin_apply", "begin_publication"} :
          \E j : Moves(p, step, j)
    BY <1>2, IdleMoves
  <2>2. PublicationAt(step, manifest', sidecar', Document'.pubs)
    BY Elsewhere DEF ManifestLockedSteps
  <2>3. UNCHANGED <<manifest, sidecar>> /\ Document'.pubs = Document.pubs
    BY <1>2, IdleMoves DEF Document
  <2> QED BY <2>1, <2>2, <2>3, MovesPublishing
<1>3. ASSUME NEW p \in Procs, BeginPublication(p) PROVE PublishingInv'
  <2>1. UNCHANGED <<manifest, sidecar>> /\ Document'.pubs = Document.pubs
    BY <1>3 DEF BeginPublication, Document
  <2>2. PICK step \in {"recover", "begin_apply", "idle"} : \E j : Moves(p, step, j)
    BY <1>3, EndMoves DEF BeginPublication, Moves
  <2>3. PublicationAt(step, manifest', sidecar', Document'.pubs)
    BY Elsewhere DEF ManifestLockedSteps
  <2> QED BY <2>1, <2>2, <2>3, MovesPublishing
<1>4. ASSUME NEW p \in Procs, RemoveSidecar(p) PROVE PublishingInv'
  <2>1. pc[p] \in LockedSteps
    BY <1>4 DEF RemoveSidecar, LockedSteps, PublishSteps
  <2>2. PICK step \in {"prepare_publication", "idle"} : \E j : Moves(p, step, j)
    BY <1>4, EndMoves DEF RemoveSidecar, Moves
  <2>3. PublicationAt(step, manifest', sidecar', Document'.pubs)
    BY Elsewhere DEF ManifestLockedSteps
  <2> QED BY <2>1, <2>2, <2>3, MovesPublishing
<1>5. ASSUME NEW p \in Procs, PublishNext(p) PROVE PublishingInv'
  BY <1>3, <1>4, <1>5, RecoverPublishing, CheckpointPublishing, PreparePublicationPublishing,
     PublishManifestPublishing DEF PublishNext
<1>6. CASE EditManifest
  <2>1. \A q \in Procs : pc'[q] \notin ManifestLockedSteps
    BY <1>6 DEF EditManifest
  <2> QED BY <2>1, Elsewhere DEF PublishingInv
<1>7. CASE Interfere \/ UNCHANGED vars
  <2>1. UNCHANGED <<pc, manifest, sidecar, receipt>>
    BY <1>7 DEF Interfere, vars
  <2>2. Document'.pubs = Document.pubs
    BY <2>1 DEF Document
  <2> QED BY <2>1, <2>2 DEF PublishingInv
<1> QED BY <1>1, <1>2, <1>5, <1>6, <1>7 DEF Next, SetupStep

(***************************************************************************)
(* What a sidecar holds: a candidate with the machine id of the manifest   *)
(* it replaces, and with the pending actions its publication links.        *)
(***************************************************************************)
Lists(m, links) == m # None /\ m.pending = [i \in DOMAIN links |-> links[i].action]

SidecarInv ==
  sidecar # None =>
    /\ sidecar.before # None => sidecar.after.mid = sidecar.before.mid
    /\ Lists(sidecar.after, sidecar.pub.links)

LEMMA CandidateHolds ==
  ASSUME IInv, NEW p \in Procs, pc[p] = "prepare_publication"
  PROVE  /\ manifest # None => Candidate(p).mid = manifest.mid
         /\ Lists(Candidate(p), job[p].occurrences)
<1>1. Candidate(p) \in Manifests
  BY CandidateType DEF PublishSteps
<1>2. Candidate(p) # None
  BY <1>1, AbsentAssumption
<1> QED BY <1>2 DEF Candidate, Lists

LEMMA StepSidecar == IInv /\ SidecarInv /\ [Next]_vars => SidecarInv'
<1> SUFFICES ASSUME IInv, SidecarInv, [Next]_vars PROVE SidecarInv'
  OBVIOUS
<1>1. CASE UNCHANGED sidecar
  BY <1>1 DEF SidecarInv
<1>2. CASE sidecar' = None
  BY <1>2 DEF SidecarInv
<1>3. ASSUME NEW p \in Procs, PreparePublication(p), sidecar' = Written(p)
      PROVE  SidecarInv'
  <2>1. /\ sidecar'.before = manifest /\ sidecar'.after = Candidate(p)
        /\ sidecar'.pub.links = job[p].occurrences
    BY <1>3 DEF Written, NewPublication
  <2>2. pc[p] = "prepare_publication"
    BY <1>3 DEF PreparePublication
  <2> QED BY <2>1, <2>2, CandidateHolds DEF SidecarInv
<1> QED BY <1>1, <1>2, <1>3, SidecarSteps

PublicationInv == PublishingInv /\ SidecarInv

LEMMA PublicationInductive == Spec => []PublicationInv
<1>1. Init => PublicationInv
  <2> SUFFICES ASSUME Init PROVE PublicationInv
    OBVIOUS
  <2>1. SidecarInv
    BY DEF Init, SidecarInv
  <2>2. \A p \in Procs : pc[p] \notin ManifestLockedSteps
    BY DEF Init, ManifestLockedSteps
  <2> QED BY <2>1, <2>2, Elsewhere DEF PublicationInv, PublishingInv
<1> QED BY <1>1, StepPublishing, StepSidecar, Inductive, PTL DEF Spec, PublicationInv

(***************************************************************************)
(* The manifest.                                                           *)
(***************************************************************************)
\* While a publication is unfinished only its own candidate is written, and only
\* over the manifest it started from: any third content somebody put there stays.
THEOREM ThirdManifestKept == Spec => ThirdManifestStays
<1>1. ASSUME IInv, PublicationInv, [Next]_vars, sidecar # None, manifest' # manifest,
             budget'.edits = budget.edits
      PROVE  manifest = sidecar.before /\ manifest' = sidecar.after
  <2>1. ASSUME NEW p \in Procs, PublishManifest(p) PROVE manifest = sidecar.before
    BY <1>1, <2>1 DEF PublishManifest, PublicationInv, PublishingInv, PublicationAt
  <2>2. ~EditManifest
    BY <1>1 DEF EditManifest, IInv, DataOK, Budgets
  <2> QED BY <1>1, <2>1, <2>2, ManifestSteps
<1> QED BY <1>1, Inductive, PublicationInductive, PTL DEF Spec, ThirdManifestStays

\* A machine keeps its id as long as its manifest is there, whoever publishes,
\* recovers or edits.
THEOREM MachineIdKept == Spec => MachineIdStable
<1>1. ASSUME IInv, PublicationInv, [Next]_vars, manifest # None, manifest' # None
      PROVE  manifest'.mid = manifest.mid
  <2>1. ASSUME sidecar # None, manifest = sidecar.before, manifest' = sidecar.after
        PROVE  manifest'.mid = manifest.mid
    BY <1>1, <2>1 DEF PublicationInv, SidecarInv
  <2>2. ASSUME NEW p \in Procs, PublishManifest(p)
        PROVE  sidecar # None /\ manifest = sidecar.before
    <3>1. sidecar \in Sidecars
      BY <1>1, <2>2, PublishingHolds DEF PublishManifest, PublishSteps, CandidateSteps
    <3> QED BY <1>1, <2>2, <3>1, AbsentAssumption
            DEF PublishManifest, PublicationInv, PublishingInv, PublicationAt
  <2>3. ASSUME NEW p \in Procs, PreparePublication(p), manifest' = Candidate(p)
        PROVE  manifest'.mid = manifest.mid
    BY <1>1, <2>3, CandidateHolds DEF PreparePublication
  <2>4. CASE EditManifest
    BY <1>1, <2>4 DEF EditManifest, IInv, DataOK, Manifests
  <2> QED BY <1>1, <2>1, <2>2, <2>3, <2>4, ManifestSteps
<1> QED BY <1>1, Inductive, PublicationInductive, PTL DEF Spec, MachineIdStable

\* Only an editor uses up the bound on edits.
LEMMA EditsSteps ==
  ASSUME IInv, [Next]_vars
  PROVE  \/ budget'.edits = budget.edits
         \/ EditManifest /\ budget'.edits = budget.edits - 1
<1>1. budget \in Budgets
  BY DEF IInv, DataOK
<1>2. ASSUME NEW failed \in BOOLEAN, Charge(failed) PROVE budget'.edits = budget.edits
  BY <1>1, <1>2 DEF Charge, Budgets
<1>3. CASE UNCHANGED budget
  BY <1>3
<1>4. ASSUME NEW p \in Procs, ApplyNext(p) PROVE budget'.edits = budget.edits
  <2>1. CASE RecordPending(p)
    BY <1>2, <2>1 DEF RecordPending, NewOccurrence, ReuseOccurrence
  <2>2. CASE AppendEntry(p) \/ RetireEvidence(p)
    BY <1>2, <2>2 DEF AppendEntry, RetireEvidence
  <2>3. CASE CreateIntent(p) \/ WriteIntent(p) \/ Execute(p) \/ MarkSucceeded(p) \/ RetireIntent(p)
    BY <1>2, <2>3 DEF CreateIntent, WriteIntent, Execute, MarkSucceeded, RetireIntent
  <2>4. CASE BeginApply(p) \/ SkipDone(p) \/ CompleteExecution(p)
    BY <2>4, Zenon DEF BeginApply, SkipDone, CompleteExecution
  <2> QED BY <1>4, <2>1, <2>2, <2>3, <2>4 DEF ApplyNext
<1>5. ASSUME NEW p \in Procs, PublishNext(p) PROVE budget'.edits = budget.edits
  <2>1. CASE BeginPublication(p)
    BY <2>1 DEF BeginPublication
  <2>2. CASE Recover(p) \/ PublishManifest(p)
    BY <1>2, <2>2 DEF Recover, PublishManifest, ReplaceManifest
  <2>3. CASE Checkpoint(p) \/ RemoveSidecar(p)
    BY <1>2, <2>3 DEF Checkpoint, RemoveSidecar
  <2>4. CASE PreparePublication(p)
    BY <1>2, <2>4 DEF PreparePublication, PublishSidecar
  <2> QED BY <1>5, <2>1, <2>2, <2>3, <2>4 DEF PublishNext
<1>6. ASSUME NEW p \in Procs, PrepareSetup(p) \/ ReadSnapshot(p) \/ ProbeAgain(p)
      PROVE  UNCHANGED budget
  BY <1>6, Zenon DEF PrepareSetup, ReadSnapshot, ProbeAgain
<1>7. ASSUME NEW p \in Procs, Crash(p) PROVE budget'.edits = budget.edits
  BY <1>1, <1>7 DEF Crash, Budgets
<1>8. CASE Interfere
  BY <1>1, <1>8 DEF Interfere, Budgets
<1>9. CASE EditManifest
  BY <1>1, <1>9 DEF EditManifest, Budgets
<1>10. CASE UNCHANGED vars
  BY <1>10 DEF vars
<1> QED BY <1>4, <1>5, <1>6, <1>7, <1>8, <1>9, <1>10 DEF Next, SetupStep

AgreesInv ==
  /\ budget.edits <= MaxEdits
  /\ budget.edits = MaxEdits /\ sidecar = None /\ Document.pubs # <<>> =>
       Lists(manifest, Last(Document.pubs).links)

LEMMA StepAgrees == IInv /\ PublicationInv /\ AgreesInv /\ [Next]_vars => AgreesInv'
<1> SUFFICES ASSUME IInv, PublicationInv, AgreesInv, [Next]_vars PROVE AgreesInv'
  OBVIOUS
<1>1. budget.edits \in Nat /\ budget'.edits \in Nat /\ MaxEdits \in Nat
  BY StepIInv, BoundsAssumption DEF IInv, DataOK, Budgets
<1>2. budget'.edits <= MaxEdits
  BY <1>1, EditsSteps DEF AgreesInv
<1>3. ASSUME budget'.edits = MaxEdits, sidecar' = None, Document'.pubs # <<>>
      PROVE  Lists(manifest', Last(Document'.pubs).links)
  <2>1. budget.edits = MaxEdits /\ ~EditManifest
    BY <1>1, <1>3, EditsSteps DEF AgreesInv, EditManifest, IInv, DataOK, Budgets
  <2>2. ASSUME NEW p \in Procs, Checkpoint(p) PROVE sidecar # None /\ sidecar' = sidecar
    BY <2>2 DEF Checkpoint, PublicationInv, PublishingInv, PublicationAt
  <2>3. Document'.pubs = Document.pubs
    BY <1>3, <2>2, PubsSteps
  <2>4. CASE sidecar = None
    <3>1. Lists(manifest, Last(Document.pubs).links)
      BY <1>3, <2>1, <2>3, <2>4 DEF AgreesInv
    <3>2. ASSUME NEW p \in Procs, PublishManifest(p) PROVE FALSE
      <4>1. sidecar \in Sidecars
        BY <3>2, PublishingHolds DEF PublishManifest, PublishSteps, CandidateSteps
      <4> QED BY <2>4, <4>1, AbsentAssumption
    <3>3. ASSUME NEW p \in Procs, PreparePublication(p), SameLinks(p), manifest' = Candidate(p)
          PROVE  Lists(manifest', Last(Document.pubs).links)
      BY <3>3, CandidateHolds DEF PreparePublication, SameLinks
    <3> QED BY <2>1, <2>3, <2>4, <3>1, <3>2, <3>3, ManifestSteps
  <2>5. CASE sidecar # None
    <3>1. PICK p \in Procs : RemoveSidecar(p)
      <4>1. ASSUME NEW p \in Procs, PreparePublication(p), PublicationPossible(p) PROVE FALSE
        BY <2>5, <4>1 DEF PublicationPossible
      <4> QED BY <1>3, <2>5, <4>1, SidecarSteps
    <3>2. /\ manifest' = sidecar.after /\ Last(Document.pubs) = sidecar.pub
      BY <3>1 DEF RemoveSidecar, PublicationInv, PublishingInv, PublicationAt
    <3> QED BY <2>3, <2>5, <3>2 DEF PublicationInv, SidecarInv
  <2> QED BY <2>4, <2>5
<1> QED BY <1>2, <1>3 DEF AgreesInv

\* When nobody is at work and no publication is unfinished, the manifest lists
\* the pending actions of the last publication, unless somebody edited it.
THEOREM ManifestAgreement == Spec => []ManifestAgrees
<1>1. Init => AgreesInv
  BY BoundsAssumption DEF Init, AgreesInv, Document, EmptyDocument
<1>2. AgreesInv => ManifestAgrees
  BY DEF AgreesInv, ManifestAgrees, Lists
<1> QED BY <1>1, <1>2, StepAgrees, Inductive, PublicationInductive, PTL DEF Spec

(***************************************************************************)
(* Reading the files back.  What a writer checks before it writes is what  *)
(* the next reader checks; a new publication closes the open epoch.        *)
(***************************************************************************)
LEMMA PublicationParts ==
  ASSUME NEW doc \in Documents, NEW k \in 1..Len(doc.pubs)
  PROVE  /\ doc.pubs[k] \in Publications
         /\ doc.pubs[k].id \in Nat /\ doc.pubs[k].count \in Nat
<1>1. doc.pubs \in Seq(Publications)
  BY DEF Documents
<1>2. doc.pubs[k] \in Publications
  BY <1>1
<1> QED BY <1>2 DEF Publications

LEMMA EmptyValid == DocumentValid(EmptyDocument)
<1> DEFINE doc == EmptyDocument
<1>1. doc.entries = <<>> /\ doc.pubs = <<>>
  BY DEF EmptyDocument
<1> HIDE DEF doc
<1>2. StructureValid(doc)
  BY <1>1 DEF StructureValid
<1>3. ASSUME NEW k \in 1..(Len(doc.pubs) + 1) PROVE EpochValid(doc, k)
  <2>1. k = 1 /\ Len(doc.pubs) = 0 /\ Len(doc.entries) = 0
    BY <1>1, <1>3
  <2>2. EpochStart(doc, k) = 1 /\ EpochEnd(doc, k) = 0
    BY <2>1 DEF EpochStart, EpochEnd
  <2>3. EpochPending(doc, k) = {}
    BY <2>2 DEF EpochPending
  <2> QED BY <2>1, <2>3 DEF EpochValid
<1> QED BY <1>2, <1>3 DEF DocumentValid, EpochsValid, doc

\* The links of the last publication, and the pending entries since.
OpenLinks(doc) ==
  LinksBefore(doc, Len(doc.pubs) + 1) \union
    {[action |-> doc.entries[i].action, entry |-> doc.entries[i].id] :
       i \in EpochPending(doc, Len(doc.pubs) + 1)}

LEMMA PublicationClosesEpoch ==
  ASSUME NEW doc \in Documents, DocumentValid(doc), NEW pub \in Publications,
         pub.count = Len(doc.entries), PublicationValid(pub, doc.entries),
         \A k \in DOMAIN doc.pubs : doc.pubs[k].id # pub.id,
         ToSet(pub.links) \subseteq OpenLinks(doc)
  PROVE  DocumentValid([doc EXCEPT !.pubs = Append(@, pub)])
<1> DEFINE after == [doc EXCEPT !.pubs = Append(@, pub)]
           n == Len(doc.pubs)
<1>1. doc.pubs \in Seq(Publications) /\ doc.entries \in Seq(Entries) /\ n \in Nat
  BY DEF Documents
<1>2. /\ after.entries = doc.entries /\ after.pubs = Append(doc.pubs, pub)
      /\ Len(after.pubs) = n + 1 /\ after.pubs[n + 1] = pub
      /\ \A k \in 1..n : after.pubs[k] = doc.pubs[k]
  BY <1>1 DEF Documents
<1>3. pub.count \in Nat /\ \A k \in 1..n : doc.pubs[k].count \in Nat
  BY <1>1, PublicationParts
<1> HIDE DEF after, n
<1>4. \A k \in DOMAIN after.pubs : k \in 1..n \/ k = n + 1
  BY <1>1, <1>2
<1>5. StructureValid(after)
  <2>1. \A k \in DOMAIN after.pubs : PublicationValid(after.pubs[k], after.entries)
    BY <1>2, <1>4 DEF DocumentValid, StructureValid, n
  <2>2. ASSUME NEW k \in DOMAIN after.pubs, NEW m \in DOMAIN after.pubs, k < m
        PROVE  after.pubs[k].count <= after.pubs[m].count /\ after.pubs[k].id # after.pubs[m].id
    <3>1. k \in 1..n
      BY <1>1, <1>4, <2>2
    <3>2. CASE m \in 1..n
      BY <1>2, <2>2, <3>1, <3>2 DEF DocumentValid, StructureValid, n
    <3>3. CASE m = n + 1
      <4>1. doc.pubs[k].count <= Len(doc.entries) /\ doc.pubs[k].id # pub.id
        BY <3>1 DEF DocumentValid, StructureValid, PublicationValid, n
      <4> QED BY <1>2, <3>1, <3>3, <4>1
    <3> QED BY <1>4, <3>2, <3>3
  <2> QED BY <1>2, <2>1, <2>2 DEF StructureValid, DocumentValid
<1>6. ASSUME NEW k \in 1..(n + 1)
      PROVE  /\ LinksBefore(after, k) = LinksBefore(doc, k)
             /\ EpochPending(after, k) = EpochPending(doc, k)
  <2>1. k # 1 => k - 1 \in 1..n
    BY <1>1
  <2>2. LinksBefore(after, k) = LinksBefore(doc, k) /\ EpochStart(after, k) = EpochStart(doc, k)
    BY <1>2, <2>1 DEF LinksBefore, EpochStart
  <2>3. EpochEnd(after, k) = EpochEnd(doc, k)
    <3>1. CASE k \in 1..n
      BY <1>1, <1>2, <3>1 DEF EpochEnd, n
    <3>2. CASE k = n + 1
      BY <1>1, <1>2, <3>2 DEF EpochEnd, n
    <3> QED BY <1>1, <3>1, <3>2
  <2> QED BY <1>2, <2>2, <2>3 DEF EpochPending
<1>7. ASSUME NEW k \in 1..(n + 2) PROVE EpochValid(after, k)
  <2>1. CASE k \in 1..n
    <3>1. EpochValid(doc, k) /\ k <= n /\ k \in 1..(n + 1) /\ k <= n + 1
      BY <1>1, <2>1 DEF DocumentValid, EpochsValid, n
    <3>2. after.pubs[k] = doc.pubs[k]
      BY <1>2, <2>1
    <3> QED BY <1>2, <1>6, <3>1, <3>2 DEF EpochValid, n
  <2>2. CASE k = n + 1
    <3>1. EpochValid(doc, n + 1) /\ n + 1 \in 1..(n + 1)
      BY <1>1 DEF DocumentValid, EpochsValid, n
    <3>2. ToSet(after.pubs[n + 1].links) \subseteq
            LinksBefore(after, n + 1) \union
              {[action |-> after.entries[i].action, entry |-> after.entries[i].id] :
                 i \in EpochPending(after, n + 1)}
      BY <1>2, <1>6, <3>1 DEF OpenLinks, n
    <3> QED BY <1>2, <1>6, <2>2, <3>1, <3>2 DEF EpochValid
  <2>3. CASE k = n + 2
    <3>1. /\ EpochStart(after, k) = 1 + Len(doc.entries) /\ EpochEnd(after, k) = Len(doc.entries)
          /\ ~(k <= Len(after.pubs))
      <4>1. k # 1 /\ k - 1 = n + 1 /\ k > n + 1
        BY <1>1, <2>3
      <4> QED BY <1>1, <1>2, <4>1 DEF EpochStart, EpochEnd
    <3>2. Len(doc.entries) \in Nat
      BY <1>1
    <3>3. EpochPending(after, k) = {}
      BY <3>1, <3>2 DEF EpochPending
    <3> QED BY <3>1, <3>3 DEF EpochValid
  <2> QED BY <1>1, <2>1, <2>2, <2>3
<1>8. Len(after.pubs) + 1 = n + 2
  BY <1>1, <1>2
<1> QED BY <1>5, <1>7, <1>8 DEF DocumentValid, EpochsValid, after

\* A current occurrence is one of the open links.
LEMMA CurrentIsOpen ==
  ASSUME NEW doc \in Documents, NEW a, NEW link \in CurrentOccurrence(doc, a, None)
  PROVE  link \in OpenLinks(doc)
<1> DEFINE n == Len(doc.pubs)
           lo == IF doc.pubs = <<>> THEN 1 ELSE Last(doc.pubs).count + 1
<1>1. doc.pubs \in Seq(Publications) /\ doc.entries \in Seq(Entries) /\ n \in Nat
  BY DEF Documents
<1>2. doc.pubs = <<>> <=> n = 0
  BY <1>1
<1>3. EpochStart(doc, n + 1) = lo /\ EpochEnd(doc, n + 1) = Len(doc.entries)
  <2>1. CASE doc.pubs = <<>>
    BY <1>2, <2>1 DEF EpochStart, EpochEnd
  <2>2. CASE doc.pubs # <<>>
    <3>1. n + 1 # 1 /\ n + 1 > n /\ n + 1 - 1 = n /\ Last(doc.pubs) = doc.pubs[n] /\ n \in 1..n
      BY <1>1, <1>2, <2>2 DEF Last
    <3>2. doc.pubs[n].count \in Nat
      BY <1>1, <3>1, PublicationParts
    <3> QED BY <2>2, <3>1, <3>2 DEF EpochStart, EpochEnd
  <2> QED BY <2>1, <2>2
<1>4. CASE link \in FirstPendingFrom(doc.entries, a, lo)
  <2>1. PICK i \in PendingAt(doc.entries, a, lo, Len(doc.entries)) :
          link = [action |-> a, entry |-> doc.entries[i].id]
    BY <1>4 DEF FirstPendingFrom
  <2>2. i \in lo..Len(doc.entries) /\ doc.entries[i].status = "pending" /\ doc.entries[i].action = a
    BY <2>1 DEF PendingAt
  <2>3. i \in EpochPending(doc, n + 1)
    BY <1>3, <2>2 DEF EpochPending
  <2> QED BY <2>1, <2>2, <2>3 DEF OpenLinks
<1>5. CASE doc.pubs # <<>> /\ link \in ToSet(Last(doc.pubs).links)
  <2>1. n + 1 # 1 /\ n + 1 - 1 = n /\ Last(doc.pubs) = doc.pubs[n]
    BY <1>1, <1>2, <1>5 DEF Last
  <2> QED BY <1>5, <2>1 DEF OpenLinks, LinksBefore
<1>6. \/ link \in FirstPendingFrom(doc.entries, a, lo)
      \/ doc.pubs # <<>> /\ link \in ToSet(Last(doc.pubs).links)
  BY DEF CurrentOccurrence
<1> QED BY <1>4, <1>5, <1>6

\* The binding of a sidecar is kept by an appended entry and by its checkpoint.
LEMMA BindingKeptByEntry ==
  ASSUME NEW intent, NEW doc, NEW candidate, BindingValid(intent, doc),
         PublicationValid(intent.pub, candidate.entries), PrefixMatches(intent, candidate),
         candidate.pubs = doc.pubs
  PROVE  BindingValid(intent, candidate)
BY DEF BindingValid

LEMMA BindingKeptByCheckpoint ==
  ASSUME NEW intent \in Sidecars, NEW doc \in Documents, NEW candidate \in Documents,
         BindingValid(intent, doc), Len(doc.pubs) = intent.pubCount,
         candidate.entries = doc.entries, candidate.pubs = Append(doc.pubs, intent.pub)
  PROVE  BindingValid(intent, candidate) /\ Len(candidate.pubs) = intent.pubCount + 1
<1>1. /\ doc.pubs \in Seq(Publications) /\ intent.pubCount \in Nat /\ intent.pub \in Publications
      /\ intent.pub.count \in Nat
  BY DEF Documents, Sidecars, Publications
<1>2. /\ Len(candidate.pubs) = intent.pubCount + 1
      /\ candidate.pubs[intent.pubCount + 1] = intent.pub
  BY <1>1
<1>3. SubSeq(candidate.pubs, 1, intent.pubCount) = SubSeq(doc.pubs, 1, intent.pubCount)
  BY <1>1
<1>4. PrefixMatches(intent, candidate)
  <2>1. Prefix(candidate, intent.pub.count, intent.pubCount)
          = Prefix(doc, intent.pub.count, intent.pubCount)
    BY <1>3 DEF Prefix
  <2> QED BY <1>1, <1>2, <2>1 DEF BindingValid, PrefixMatches
<1> QED BY <1>1, <1>2, <1>4 DEF BindingValid

\* How the receipt changes, with what its writer checked.
EntryAllowed(entry) ==
  EntryAdded(entry) /\ SidecarReadOK /\ AppendCandidateOK(Document, receipt', sidecar)

CheckpointAllowed ==
  /\ PublicationAdded(sidecar.pub) /\ BindingValid(sidecar, Document)
  /\ Len(Document.pubs) = sidecar.pubCount /\ DocumentValid(receipt')

LEMMA EntrySteps ==
  ASSUME IInv, NEW p \in Procs, AppendEntry(p) \/ RecordPending(p)
  PROVE  UNCHANGED receipt \/ \E entry \in Entries : EntryAllowed(entry)
<1>1. CASE AppendEntry(p)
  <2>1. UNCHANGED receipt \/ EntryAllowed(job[p].held)
    BY <1>1 DEF AppendEntry, EntryAllowed, EntryAdded, AppliedCandidateOK
  <2> QED BY <1>1, <2>1, HeldIsEntry
<1>2. CASE RecordPending(p)
  <2> DEFINE item == PlannedItem(p)
             entry == [id |-> nextId, action |-> item.action, param |-> item.param,
                       status |-> "pending"]
  <2>1. item \in JobItem
    BY <1>2, CheckHolds DEF RecordPending
  <2>2. entry \in Entries
    BY <2>1 DEF JobItem, Entries, IInv, DataOK
  <2>3. UNCHANGED receipt \/ EntryAllowed(entry)
    <3>1. NewOccurrence(p, item) \/ UNCHANGED receipt
      BY <1>2 DEF RecordPending, ReuseOccurrence
    <3>2. ASSUME NewOccurrence(p, item) PROVE UNCHANGED receipt \/ EntryAllowed(entry)
      BY <3>2, Zenon DEF NewOccurrence, EntryAllowed, EntryAdded, PendingCandidateOK
    <3> QED BY <3>1, <3>2
  <2> QED BY <2>2, <2>3
<1> QED BY <1>1, <1>2

LEMMA CheckpointSteps ==
  ASSUME NEW p \in Procs, Checkpoint(p)
  PROVE  UNCHANGED sidecar /\ (UNCHANGED receipt \/ CheckpointAllowed)
BY DEF Checkpoint, CheckpointBase, CheckpointAllowed, PublicationAdded, PublicationCandidateOK

LEMMA AllowedSteps ==
  ASSUME IInv, [Next]_vars
  PROVE  \/ UNCHANGED receipt
         \/ UNCHANGED sidecar /\ \E entry \in Entries : EntryAllowed(entry)
         \/ UNCHANGED sidecar /\ \E p \in Procs : Checkpoint(p) /\ CheckpointAllowed
<1>1. ASSUME NEW p \in Procs, AppendEntry(p) \/ RecordPending(p)
      PROVE  UNCHANGED sidecar /\ (UNCHANGED receipt \/ \E entry \in Entries : EntryAllowed(entry))
  BY <1>1, EntrySteps, ApplyKeepsPublication DEF ApplyNext
<1> QED BY <1>1, CheckpointSteps, ReceiptSteps

PubIdsMinted ==
  /\ \A k \in DOMAIN Document.pubs : Document.pubs[k].id < nextId
  /\ sidecar # None => sidecar.pub.id < nextId

ReadableInv == JournalAlwaysReadable /\ PubIdsMinted

\* The document the lock protects is valid whenever nothing waits beside it.
LEMMA DocumentIsValid ==
  ASSUME IInv, LockedReadOK, sidecar = None
  PROVE  DocumentValid(Document)
BY EmptyValid DEF LockedReadOK, Accepts, ValidWithIntent, Effective, Document, DocumentValid

LEMMA EntryReadable ==
  ASSUME IInv, NEW entry \in Entries, EntryAllowed(entry), UNCHANGED sidecar
  PROVE  JournalAlwaysReadable'
<1>1. Document' = receipt' /\ receipt'.pubs = Document.pubs
  BY EntryAddedDocument DEF EntryAllowed, IInv
<1>2. ValidWithIntent(receipt', sidecar) /\ KeepsIntentPrefix(Document, receipt', sidecar)
  BY DEF EntryAllowed, AppendCandidateOK
<1>3. sidecar # None => BindingValid(sidecar, receipt')
  BY <1>1, <1>2, BindingKeptByEntry DEF EntryAllowed, SidecarReadOK, KeepsIntentPrefix
<1> QED BY <1>1, <1>2, <1>3 DEF JournalAlwaysReadable, LockedReadOK, SidecarReadOK, Accepts

LEMMA CheckpointReadable ==
  ASSUME IInv, NEW p \in Procs, Checkpoint(p), CheckpointAllowed, UNCHANGED sidecar
  PROVE  JournalAlwaysReadable'
<1>1. sidecar \in Sidecars /\ sidecar.pub \in Publications
  BY PublishingHolds DEF Checkpoint, PublishSteps, CandidateSteps, Sidecars
<1>2. /\ Document' = receipt' /\ receipt' \in Documents /\ Document \in Documents
      /\ receipt'.entries = Document.entries /\ receipt'.pubs = Append(Document.pubs, sidecar.pub)
  BY <1>1, PublicationAddedDocument, DocumentType DEF CheckpointAllowed, IInv
<1>3. BindingValid(sidecar, receipt') /\ Len(receipt'.pubs) = sidecar.pubCount + 1
  BY <1>1, <1>2, BindingKeptByCheckpoint DEF CheckpointAllowed
<1>4. Effective(receipt', sidecar) = receipt'
  BY <1>1, <1>3 DEF Effective, Sidecars
<1>5. ValidWithIntent(receipt', sidecar)
  BY <1>4 DEF ValidWithIntent, CheckpointAllowed, DocumentValid
<1> QED BY <1>2, <1>3, <1>5 DEF JournalAlwaysReadable, LockedReadOK, SidecarReadOK, Accepts

LEMMA RemovalReadable ==
  ASSUME IInv, PublicationInv, ReadableInv, NEW p \in Procs, RemoveSidecar(p), sidecar' = None
  PROVE  JournalAlwaysReadable'
<1>1. sidecar # None /\ Len(Document.pubs) = sidecar.pubCount + 1 /\ UNCHANGED receipt
  BY DEF RemoveSidecar, PublicationInv, PublishingInv, PublicationAt
<1>2. sidecar \in Sidecars
  BY <1>1 DEF IInv, DataOK
<1>3. Effective(Document, sidecar) = Document
  BY <1>1, <1>2 DEF Effective, Sidecars
<1>4. receipt # None => ValidWithIntent(receipt, None)
  BY <1>3 DEF ReadableInv, JournalAlwaysReadable, LockedReadOK, Accepts, ValidWithIntent, Effective,
              Document
<1> QED BY <1>1, <1>4 DEF JournalAlwaysReadable, LockedReadOK, SidecarReadOK, Accepts

\* A process that may publish holds open occurrences only.
LEMMA PublicationIsPossible ==
  ASSUME IInv, NEW p \in Procs, PreparePublication(p), PublicationPossible(p), ~SameLinks(p)
  PROVE  /\ sidecar = None /\ NewPublication(p) \in Publications
         /\ NewPublication(p).count = Len(Document.entries)
         /\ NewPublication(p).id = nextId + 1
         /\ PublicationValid(NewPublication(p), Document.entries)
         /\ ToSet(NewPublication(p).links) \subseteq OpenLinks(Document)
<1>1. NewPublication(p) \in Publications
  BY CandidateType DEF PreparePublication, PublishSteps
<1>2. sidecar = None /\ OccurrencesHold(p)
      /\ PublicationValid(NewPublication(p), Document.entries)
  BY DEF PublicationPossible, ValidCompletion
<1>3. ASSUME NEW link \in ToSet(job[p].occurrences) PROVE link \in OpenLinks(Document)
  <2>1. PICK i \in DOMAIN job[p].occurrences : link = job[p].occurrences[i]
    BY DEF ToSet
  <2>2. link \in CurrentOccurrence(Document, link.action, None)
    BY <1>2, <2>1 DEF OccurrencesHold
  <2> QED BY <2>2, CurrentIsOpen, DocumentType DEF IInv
<1> QED BY <1>1, <1>2, <1>3 DEF NewPublication

LEMMA WrittenReadable ==
  ASSUME IInv, ReadableInv, NEW p \in Procs, PreparePublication(p), PublicationPossible(p),
         ~SameLinks(p), sidecar' = Written(p)
  PROVE  JournalAlwaysReadable'
<1> DEFINE doc == Document
           pub == NewPublication(p)
           intent == Written(p)
           after == [doc EXCEPT !.pubs = Append(@, pub)]
<1>1. /\ sidecar = None /\ pub \in Publications /\ pub.count = Len(doc.entries)
      /\ pub.id = nextId + 1 /\ PublicationValid(pub, doc.entries)
      /\ ToSet(pub.links) \subseteq OpenLinks(doc)
  BY PublicationIsPossible
<1>2. doc \in Documents /\ DocumentValid(doc)
  BY <1>1, DocumentType, DocumentIsValid DEF IInv, ReadableInv, JournalAlwaysReadable
<1>3. \A k \in DOMAIN doc.pubs : doc.pubs[k].id # pub.id
  <2> SUFFICES ASSUME NEW k \in DOMAIN doc.pubs PROVE doc.pubs[k].id # pub.id
    OBVIOUS
  <2>1. doc.pubs[k].id < nextId /\ nextId \in Nat
    BY DEF ReadableInv, PubIdsMinted, IInv, DataOK
  <2>2. k \in 1..Len(doc.pubs)
    BY <1>2 DEF Documents
  <2>3. doc.pubs[k].id \in Nat
    BY <1>2, <2>2, PublicationParts
  <2> QED BY <1>1, <2>1, <2>3
<1>4. DocumentValid(after)
  BY <1>1, <1>2, <1>3, PublicationClosesEpoch
<1>5. /\ intent.pubCount = Len(doc.pubs) /\ intent.prefix = doc /\ intent.pub = pub
      /\ intent.pub.count = Len(doc.entries)
  BY <1>1 DEF Written
<1>6. Len(doc.pubs) \in Nat /\ Len(doc.entries) \in Nat
  BY <1>2 DEF Documents
<1> HIDE DEF doc, pub, intent
<1>7. Prefix(doc, Len(doc.entries), Len(doc.pubs)) = doc
  <2>1. SubSeq(doc.entries, 1, Len(doc.entries)) = doc.entries
    BY <1>2 DEF Documents
  <2>2. SubSeq(doc.pubs, 1, Len(doc.pubs)) = doc.pubs
    BY <1>2 DEF Documents
  <2>3. doc = [entries |-> doc.entries, pubs |-> doc.pubs]
    BY <1>2 DEF Documents
  <2> QED BY <2>1, <2>2, <2>3 DEF Prefix
<1>8. PrefixMatches(intent, doc)
  BY <1>2, <1>5, <1>6, <1>7 DEF PrefixMatches
<1>9. BindingValid(intent, doc)
  BY <1>1, <1>4, <1>5, <1>6, <1>8 DEF BindingValid
<1>10. ValidWithIntent(doc, intent)
  <2>1. Effective(doc, intent) = after \/ Effective(doc, intent) = doc
    BY <1>5 DEF Effective
  <2> QED BY <1>2, <1>4, <2>1 DEF ValidWithIntent, DocumentValid
<1>11. UNCHANGED receipt /\ Document' = doc /\ sidecar' = intent
  BY DEF PreparePublication, Document, doc, intent
<1> QED BY <1>9, <1>10, <1>11 DEF JournalAlwaysReadable, LockedReadOK, SidecarReadOK, Accepts,
           Document, doc

LEMMA StepPubIds ==
  ASSUME IInv, ReadableInv, [Next]_vars
  PROVE  PubIdsMinted'
<1>1. nextId \in Nat /\ nextId' \in Nat /\ nextId <= nextId'
  BY NextIdGrows
<1>2. Document \in Documents /\ Document' \in Documents
  <2>1. receipt' \in Documents \union {None}
    BY StepIInv DEF IInv, DataOK
  <2> QED BY <2>1, DocumentType DEF IInv, Document, EmptyDocument, Documents
<1>3. ASSUME NEW k \in 1..Len(Document.pubs)
      PROVE  Document.pubs[k].id < nextId'
  <2>1. Document.pubs[k].id \in Nat
    BY <1>2, PublicationParts
  <2>2. k \in DOMAIN Document.pubs
    BY <1>2 DEF Documents
  <2>3. Document.pubs[k].id < nextId
    BY <2>2 DEF ReadableInv, PubIdsMinted
  <2> QED BY <1>1, <2>1, <2>3
<1>4. ASSUME sidecar # None PROVE sidecar.pub \in Publications /\ sidecar.pub.id < nextId'
  <2>1. sidecar.pub \in Publications /\ sidecar.pub.id \in Nat
    BY <1>4 DEF IInv, DataOK, Sidecars, Publications
  <2>2. sidecar.pub.id < nextId
    BY <1>4 DEF ReadableInv, PubIdsMinted
  <2> QED BY <1>1, <2>1, <2>2
<1>5. ASSUME NEW k \in DOMAIN Document'.pubs PROVE Document'.pubs[k].id < nextId'
  <2>1. CASE Document'.pubs = Document.pubs
    <3>1. k \in 1..Len(Document.pubs)
      BY <1>2, <2>1 DEF Documents
    <3> QED BY <1>3, <2>1, <3>1
  <2>2. ASSUME NEW p \in Procs, Checkpoint(p), CheckpointAllowed PROVE Document'.pubs[k].id < nextId'
    <3>1. sidecar # None /\ sidecar.pub \in Publications
      BY <2>2, PublishingHolds, AbsentAssumption
         DEF Checkpoint, PublishSteps, CandidateSteps, Sidecars
    <3>2. Document'.pubs = Append(Document.pubs, sidecar.pub)
      BY <2>2, <3>1, PublicationAddedDocument DEF CheckpointAllowed, IInv
    <3>3. Document.pubs \in Seq(Publications)
      BY <1>2 DEF Documents
    <3>4. \/ k \in 1..Len(Document.pubs) /\ Document'.pubs[k] = Document.pubs[k]
          \/ Document'.pubs[k] = sidecar.pub
      BY <3>1, <3>2, <3>3
    <3> QED BY <1>3, <1>4, <3>1, <3>4
  <2>3. UNCHANGED receipt => Document' = Document
    BY DEF Document
  <2>4. ASSUME NEW entry \in Entries, EntryAllowed(entry) PROVE Document'.pubs = Document.pubs
    BY <2>4, EntryAddedDocument DEF EntryAllowed, IInv
  <2> QED BY <2>1, <2>2, <2>3, <2>4, AllowedSteps
<1>6. ASSUME sidecar' # None PROVE sidecar'.pub.id < nextId'
  <2>1. CASE UNCHANGED sidecar
    BY <1>4, <1>6, <2>1
  <2>2. ASSUME NEW p \in Procs, PreparePublication(p), PublicationPossible(p), ~SameLinks(p),
               sidecar' = Written(p)
        PROVE  sidecar'.pub.id < nextId'
    <3>1. sidecar'.pub.id = nextId + 1
      BY <2>2, PublicationIsPossible DEF Written
    <3>2. nextId' = nextId + 2
      BY <2>2 DEF PreparePublication
    <3> QED BY <1>1, <3>1, <3>2
  <2> QED BY <1>6, <2>1, <2>2, SidecarSteps
<1> QED BY <1>5, <1>6 DEF PubIdsMinted

LEMMA StepReadable == IInv /\ PublicationInv /\ ReadableInv /\ [Next]_vars => ReadableInv'
<1> SUFFICES ASSUME IInv, PublicationInv, ReadableInv, [Next]_vars PROVE ReadableInv'
  OBVIOUS
<1>1. CASE UNCHANGED <<receipt, sidecar>>
  <2>1. Document' = Document
    BY <1>1 DEF Document
  <2>2. JournalAlwaysReadable'
    BY <1>1, <2>1 DEF ReadableInv, JournalAlwaysReadable, LockedReadOK, SidecarReadOK
  <2> QED BY <2>2, StepPubIds DEF ReadableInv
<1>2. CASE UNCHANGED receipt /\ sidecar' # sidecar
  BY <1>2, SidecarSteps, RemovalReadable, WrittenReadable, StepPubIds DEF ReadableInv
<1>3. CASE receipt' # receipt
  BY <1>3, AllowedSteps, EntryReadable, CheckpointReadable, StepPubIds DEF ReadableInv
<1> QED BY <1>1, <1>2, <1>3

LEMMA ReadableInductive == Spec => []ReadableInv
<1>1. Init => ReadableInv
  BY DEF Init, ReadableInv, JournalAlwaysReadable, LockedReadOK, SidecarReadOK, PubIdsMinted, Document,
         EmptyDocument
<1> QED BY <1>1, StepReadable, Inductive, PublicationInductive, PTL DEF Spec

\* No sequence of appends, publications, failures, crashes and recoveries leaves
\* a receipt and a sidecar that read_locked refuses: writers are never shut out.
THEOREM AlwaysReadable == Spec => []JournalAlwaysReadable
<1>1. ReadableInv => JournalAlwaysReadable
  BY DEF ReadableInv
<1> QED BY <1>1, ReadableInductive, PTL

(***************************************************************************)
(* The effective ledger: what each kind of step does to it.                *)
(***************************************************************************)
CoveredOf(doc) == IF doc.pubs = <<>> THEN 0 ELSE Last(doc.pubs).count

\* The open occurrences of the ledger are the open links of the document.
LEMMA OpenAt ==
  ASSUME NEW doc \in Documents
  PROVE  /\ EpochStart(doc, Len(doc.pubs) + 1) = CoveredOf(doc) + 1
         /\ EpochEnd(doc, Len(doc.pubs) + 1) = Len(doc.entries)
         /\ LinksBefore(doc, Len(doc.pubs) + 1) =
              IF doc.pubs = <<>> THEN {} ELSE ToSet(Last(doc.pubs).links)
         /\ CoveredOf(doc) \in Nat
<1> DEFINE n == Len(doc.pubs)
<1>1. doc.pubs \in Seq(Publications) /\ n \in Nat /\ Len(doc.entries) \in Nat
  BY DEF Documents
<1>2. CASE doc.pubs = <<>>
  <2>1. n = 0
    BY <1>2
  <2> QED BY <1>2, <2>1 DEF EpochStart, EpochEnd, LinksBefore, CoveredOf
<1>3. CASE doc.pubs # <<>>
  <2>1. n + 1 # 1 /\ n + 1 > n /\ n + 1 - 1 = n /\ Last(doc.pubs) = doc.pubs[n] /\ n \in 1..n
    BY <1>1, <1>3 DEF Last
  <2>2. doc.pubs[n].count \in Nat
    BY <1>1, <2>1, PublicationParts
  <2> QED BY <1>3, <2>1, <2>2 DEF EpochStart, EpochEnd, LinksBefore, CoveredOf
<1> QED BY <1>2, <1>3

LEMMA NowIsDocument == IInv => EffectiveNow \in Documents
BY DocumentType, EffectiveType DEF IInv, DataOK, EffectiveNow

LEMMA LedgerOpen ==
  ASSUME IInv
  PROVE  Ledger!Open = OpenLinks(EffectiveNow)
<1> DEFINE doc == EffectiveNow
<1>1. doc \in Documents
  BY NowIsDocument
<1>2. EpochPending(doc, Len(doc.pubs) + 1) =
        {i \in (CoveredOf(doc) + 1)..Len(doc.entries) : doc.entries[i].status = "pending"}
  BY <1>1, OpenAt DEF EpochPending
<1> QED BY <1>1, <1>2, OpenAt DEF Ledger!Open, Ledger!Fresh, Ledger!Link, OpenLinks, CoveredOf

LEMMA EntriesAreTheReceipts ==
  ASSUME IInv
  PROVE  EffectiveNow.entries = Document.entries
BY DocumentType DEF EffectiveNow, Effective, IInv, Documents

\* What the last publication covers is there.
LEMMA CoveredInside ==
  ASSUME IInv, ReadableInv
  PROVE  CoveredOf(EffectiveNow) <= Len(EffectiveNow.entries)
<1> DEFINE n == Len(Document.pubs)
<1>1. /\ Document \in Documents /\ Document.pubs \in Seq(Publications) /\ n \in Nat
      /\ Len(Document.entries) \in Nat
  BY DocumentType DEF IInv, Documents
<1>2. CASE sidecar # None /\ n = sidecar.pubCount
  <2>1. sidecar \in Sidecars /\ sidecar.pub \in Publications
    BY <1>2 DEF IInv, DataOK, Sidecars
  <2>2. EffectiveNow.pubs = Append(Document.pubs, sidecar.pub)
    BY <1>1, <1>2 DEF EffectiveNow, Effective, Documents
  <2>3. EffectiveNow.pubs # <<>> /\ Last(EffectiveNow.pubs) = sidecar.pub
    BY <1>1, <2>1, <2>2, LastAppended
  <2>4. sidecar.pub.count <= Len(Document.entries)
    BY <1>2 DEF ReadableInv, JournalAlwaysReadable, SidecarReadOK, BindingValid, PrefixMatches
  <2> QED BY <2>3, <2>4, EntriesAreTheReceipts DEF CoveredOf
<1>3. CASE ~(sidecar # None /\ n = sidecar.pubCount)
  <2>1. EffectiveNow = Document
    BY <1>3 DEF EffectiveNow, Effective
  <2>2. CASE Document.pubs = <<>>
    BY <1>1, <2>1, <2>2 DEF CoveredOf
  <2>3. CASE Document.pubs # <<>>
    <3>1. n \in DOMAIN Document.pubs /\ Last(Document.pubs) = Document.pubs[n]
      BY <1>1, <2>3 DEF Last
    <3>2. StructureValid(Document)
      BY <2>3 DEF ReadableInv, JournalAlwaysReadable, LockedReadOK, Accepts, ValidWithIntent, Document,
                  EmptyDocument
    <3>3. Document.pubs[n].count <= Len(Document.entries)
      BY <3>1, <3>2 DEF StructureValid, PublicationValid
    <3> QED BY <2>1, <2>3, <3>1, <3>3 DEF CoveredOf
  <2> QED BY <2>2, <2>3
<1> QED BY <1>2, <1>3

\* An appended entry is recorded, after its writer's checks.
LEMMA EntryRecorded ==
  ASSUME IInv, ReadableInv, NEW entry \in Entries, EntryAllowed(entry), UNCHANGED sidecar
  PROVE  /\ EffectiveNow'.entries = Append(EffectiveNow.entries, entry)
         /\ EffectiveNow'.pubs = EffectiveNow.pubs
         /\ \A i \in DOMAIN EffectiveNow.entries : EffectiveNow.entries[i].id # entry.id
         /\ entry.status = "pending" => \A l \in Ledger!Open : l.action # entry.action
<1> DEFINE now == EffectiveNow
           next == Effective(receipt', sidecar)
           m == Len(now.entries)
           n == Len(now.pubs)
<1>1. /\ Document \in Documents /\ receipt' \in Documents /\ Document' = receipt'
      /\ receipt'.entries = Append(Document.entries, entry) /\ receipt'.pubs = Document.pubs
  BY DocumentType, EntryAddedDocument DEF EntryAllowed, IInv
<1>2. EffectiveNow' = next
  BY <1>1 DEF EffectiveNow
<1>3. next.entries = Append(now.entries, entry) /\ next.pubs = now.pubs
  BY <1>1 DEF EffectiveNow, Effective, Documents
<1>4. StructureValid(receipt') /\ EpochsValid(next) /\ next.entries = receipt'.entries
  BY <1>1, <1>3, EntriesAreTheReceipts DEF EntryAllowed, AppendCandidateOK, ValidWithIntent
<1>5. now \in Documents /\ now.entries \in Seq(Entries) /\ m \in Nat /\ n \in Nat
  BY NowIsDocument DEF Documents
<1>6. next \in Documents
  BY <1>1, EffectiveType DEF IInv, DataOK
<1>7. /\ Len(next.entries) = m + 1 /\ next.entries[m + 1] = entry
      /\ \A i \in 1..m : next.entries[i] = now.entries[i]
      /\ DOMAIN now.entries = 1..m /\ DOMAIN next.entries = 1..(m + 1)
  BY <1>3, <1>5
<1> HIDE DEF now, next, m, n
<1>8. \A i \in DOMAIN now.entries : now.entries[i].id # entry.id
  <2> SUFFICES ASSUME NEW i \in 1..m, now.entries[i].id = entry.id PROVE FALSE
    BY <1>7
  <2>1. i \in DOMAIN next.entries /\ m + 1 \in DOMAIN next.entries /\ i # m + 1
    BY <1>5, <1>7
  <2>2. next.entries[i].id = next.entries[m + 1].id
    BY <1>7
  <2> QED BY <1>4, <2>1, <2>2 DEF StructureValid
<1>9. ASSUME entry.status = "pending", NEW l \in OpenLinks(now) PROVE l.action # entry.action
  <2>1. CoveredOf(now) \in Nat /\ CoveredOf(now) <= m /\ CoveredOf(next) = CoveredOf(now)
    BY <1>3, <1>5, OpenAt, CoveredInside DEF now, m, CoveredOf
  <2>2. EpochValid(next, n + 1)
    BY <1>3, <1>4, <1>5 DEF EpochsValid, n
  <2>3. /\ EpochStart(next, n + 1) = CoveredOf(now) + 1 /\ EpochEnd(next, n + 1) = m + 1
        /\ EpochStart(now, n + 1) = CoveredOf(now) + 1 /\ EpochEnd(now, n + 1) = m
        /\ LinksBefore(next, n + 1) = LinksBefore(now, n + 1)
    BY <1>3, <1>5, <1>6, <1>7, <2>1, OpenAt DEF n, m
  <2>4. m + 1 \in EpochPending(next, n + 1)
    BY <1>5, <1>7, <1>9, <2>1, <2>3 DEF EpochPending
  <2>5. CASE l \in LinksBefore(now, n + 1)
    BY <1>7, <2>2, <2>3, <2>4, <2>5 DEF EpochValid
  <2>6. CASE \E i \in EpochPending(now, n + 1) :
               l = [action |-> now.entries[i].action, entry |-> now.entries[i].id]
    <3>1. PICK i \in EpochPending(now, n + 1) : l.action = now.entries[i].action
      BY <2>6
    <3>2. i \in 1..m /\ now.entries[i].status = "pending" /\ i \in (CoveredOf(now) + 1)..m
      BY <1>5, <2>1, <2>3, <3>1 DEF EpochPending
    <3>3. i \in EpochPending(next, n + 1) /\ i # m + 1 /\ next.entries[i] = now.entries[i]
      <4>1. i \in (CoveredOf(now) + 1)..(m + 1) /\ i # m + 1
        BY <1>5, <2>1, <3>2
      <4>2. next.entries[i] = now.entries[i]
        BY <1>7, <3>2
      <4> QED BY <2>3, <3>2, <4>1, <4>2 DEF EpochPending
    <3>4. next.entries[i].action # next.entries[m + 1].action
      BY <2>2, <2>4, <3>3 DEF EpochValid
    <3> QED BY <1>7, <3>1, <3>3, <3>4
  <2> QED BY <1>9, <2>5, <2>6 DEF OpenLinks, n
<1> QED BY <1>2, <1>3, <1>8, <1>9, LedgerOpen DEF now

\* A checkpoint and the removal of the sidecar change nothing.
LEMMA CheckpointInvisible ==
  ASSUME IInv, NEW p \in Procs, Checkpoint(p), CheckpointAllowed, UNCHANGED sidecar
  PROVE  EffectiveNow' = EffectiveNow
<1>1. sidecar \in Sidecars /\ sidecar.pub \in Publications /\ sidecar # None
  BY PublishingHolds, AbsentAssumption DEF Checkpoint, PublishSteps, CandidateSteps, Sidecars
<1>2. /\ Document' = receipt' /\ Document \in Documents
      /\ Document'.pubs = Append(Document.pubs, sidecar.pub)
      /\ Len(Document.pubs) = sidecar.pubCount
  BY <1>1, PublicationAddedDocument, DocumentType DEF CheckpointAllowed, IInv
<1>3. EffectiveNow = [Document EXCEPT !.pubs = Append(@, sidecar.pub)]
  BY <1>1, <1>2 DEF EffectiveNow, Effective
<1>4. Document' = [Document EXCEPT !.pubs = Append(@, sidecar.pub)]
  BY <1>2 DEF CheckpointAllowed, PublicationAdded
<1>5. Document.pubs \in Seq(Publications)
  BY <1>2 DEF Documents
<1>6. Len(Document'.pubs) # sidecar'.pubCount
  BY <1>1, <1>2, <1>5
<1>7. EffectiveNow' = Document'
  BY <1>6 DEF EffectiveNow, Effective
<1> QED BY <1>3, <1>4, <1>7

LEMMA RemovalInvisible ==
  ASSUME IInv, PublicationInv, NEW p \in Procs, RemoveSidecar(p)
  PROVE  EffectiveNow' = EffectiveNow
<1>1. sidecar # None /\ Len(Document.pubs) = sidecar.pubCount + 1 /\ UNCHANGED receipt
  BY DEF RemoveSidecar, PublicationInv, PublishingInv, PublicationAt
<1>2. sidecar \in Sidecars
  BY <1>1 DEF IInv, DataOK
<1>3. EffectiveNow = Document /\ Document' = Document
  BY <1>1, <1>2 DEF EffectiveNow, Effective, Sidecars, Document
<1>4. UNCHANGED sidecar \/ sidecar' = None
  BY DEF RemoveSidecar
<1> QED BY <1>3, <1>4 DEF EffectiveNow, Effective

\* A publication takes place with its sidecar, and its links were open.
LEMMA WrittenPublishes ==
  ASSUME IInv, ReadableInv, NEW p \in Procs, PreparePublication(p), PublicationPossible(p),
         ~SameLinks(p), sidecar' = Written(p)
  PROVE  \E links \in SUBSET Ledger!Open :
           /\ EffectiveNow'.entries = EffectiveNow.entries
           /\ Len(EffectiveNow'.pubs) = Len(EffectiveNow.pubs) + 1
           /\ EffectiveNow'.pubs # <<>>
           /\ Last(EffectiveNow'.pubs).count = Len(EffectiveNow.entries)
           /\ ToSet(Last(EffectiveNow'.pubs).links) = links
<1> DEFINE pub == NewPublication(p)
<1>1. /\ sidecar = None /\ pub \in Publications /\ pub.count = Len(Document.entries)
      /\ ToSet(pub.links) \subseteq OpenLinks(Document)
  BY PublicationIsPossible
<1>2. Document \in Documents /\ Document.pubs \in Seq(Publications)
  BY DocumentType DEF IInv, Documents
<1>3. EffectiveNow = Document
  BY <1>1 DEF EffectiveNow, Effective
<1>4. UNCHANGED receipt /\ Document' = Document
  BY DEF PreparePublication, Document
<1>5. Written(p).pubCount = Len(Document.pubs) /\ Written(p).pub = pub /\ Written(p) # None
  <2>1. Candidate(p) \in Manifests
    BY CandidateType DEF PreparePublication, PublishSteps
  <2>2. Written(p) \in Sidecars
    BY <1>1, <1>2, <2>1 DEF Written, Sidecars, IInv, DataOK
  <2> QED BY <2>2, AbsentAssumption DEF Written
<1> HIDE DEF pub
<1>6. EffectiveNow' = [Document EXCEPT !.pubs = Append(@, pub)]
  BY <1>4, <1>5 DEF EffectiveNow, Effective
<1>7. EffectiveNow'.entries = Document.entries /\ EffectiveNow'.pubs = Append(Document.pubs, pub)
  BY <1>2, <1>6 DEF Documents
<1>8. /\ Len(EffectiveNow'.pubs) = Len(Document.pubs) + 1 /\ Last(EffectiveNow'.pubs) = pub
      /\ EffectiveNow'.pubs # <<>>
  BY <1>1, <1>2, <1>7, LastAppended
<1>9. ToSet(pub.links) \in SUBSET Ledger!Open
  BY <1>1, <1>3, LedgerOpen
<1> QED BY <1>1, <1>3, <1>7, <1>8, <1>9

(***************************************************************************)
(* What the processes have looked at.                                      *)
(***************************************************************************)
ViewingSteps == {"applied", "begin_publication", "recover", "recover_checkpoint",
                 "recover_remove", "prepare_publication"}
ViewOf(step, j) ==
  IF step \in ViewingSteps
  THEN [entries |-> j.witness.entries, epoch |-> Len(j.witness.pubs)] ELSE None

Views == [q \in Procs |-> Viewed(q)]

LEMMA ViewedOf ==
  ASSUME NEW p \in Procs
  PROVE  Views[p] = ViewOf(pc[p], job[p])
BY DEF Views, Viewed, ViewOf, ViewingSteps

LEMMA SameView ==
  ASSUME NEW p \in Procs
  PROVE  [Views EXCEPT ![p] = Views[p]] = Views
BY DEF Views

LEMMA MovesViews ==
  ASSUME IInv, NEW p \in Procs, NEW step, NEW j, Moves(p, step, j)
  PROVE  Views' = [Views EXCEPT ![p] = ViewOf(step, j)]
<1>1. /\ pc \in [Procs -> Steps] /\ job \in [Procs -> Jobs]
      /\ pc' = [pc EXCEPT ![p] = step] /\ job' = [job EXCEPT ![p] = j]
  BY Zenon DEF IInv, ProcessesOK, Moves, Goto, Enter, Leave
<1>2. ASSUME NEW q \in Procs PROVE Viewed(q)' = IF q = p THEN ViewOf(step, j) ELSE Viewed(q)
  <2>1. CASE q = p
    <3>1. pc'[q] = step /\ job'[q] = j
      BY <1>1, <2>1
    <3> QED BY <2>1, <3>1 DEF Viewed, ViewOf, ViewingSteps
  <2>2. CASE q # p
    <3>1. pc'[q] = pc[q] /\ job'[q] = job[q]
      BY <1>1, <2>2
    <3> QED BY <2>2, <3>1 DEF Viewed
  <2> QED BY <2>1, <2>2
<1> QED BY <1>2 DEF Views

\* After the step the process has nothing to publish against.
Forgets(p) == Views' = [Views EXCEPT ![p] = None]

LEMMA MovesForgets ==
  ASSUME IInv, NEW p \in Procs, NEW step, \E j : Moves(p, step, j), step \notin ViewingSteps
  PROVE  Forgets(p)
BY MovesViews DEF ViewOf, Forgets

LEMMA MovesKeepsView ==
  ASSUME IInv, NEW p \in Procs, NEW step \in ViewingSteps, Moves(p, step, job[p]),
         pc[p] \in ViewingSteps
  PROVE  Views' = Views
<1>1. Views[p] = ViewOf(step, job[p])
  BY ViewedOf DEF ViewOf
<1> QED BY <1>1, MovesViews, SameView

LEMMA ForgetsNothing ==
  ASSUME NEW p \in Procs, Forgets(p), pc[p] \notin ViewingSteps
  PROVE  Views' = Views
<1>1. Views[p] = None
  BY ViewedOf DEF ViewOf
<1> QED BY <1>1, SameView DEF Forgets

\* Applying looks at nothing until the apply is complete.
LEMMA ApplyViews ==
  ASSUME IInv, NEW p \in Procs, ApplyNext(p), ~CompleteExecution(p)
  PROVE  Views' = Views
<1>1. pc[p] \notin ViewingSteps
  <2>1. pc[p] \in ApplySteps \union {"begin_apply"}
    BY Zenon DEF ApplyNext, BeginApply, SkipDone, CreateIntent, WriteIntent, Execute, MarkSucceeded,
                 AppendEntry, RetireEvidence, RetireIntent, RecordPending, ApplySteps
  <2> QED BY <2>1 DEF ApplySteps, ViewingSteps
<1>2. PICK step \in ApplySteps \union {"idle"} : \E j : Moves(p, step, j)
  BY ApplyMoves
<1>3. step \notin ViewingSteps
  BY DEF ApplySteps, ViewingSteps
<1> QED BY <1>1, <1>2, <1>3, MovesForgets, ForgetsNothing

LEMMA CompleteViews ==
  ASSUME IInv, NEW p \in Procs, CompleteExecution(p)
  PROVE  Forgets(p) \/ Views' = [Views EXCEPT ![p] = Ledger!Now]
<1> DEFINE j == [job[p] EXCEPT !.witness = EffectiveNow]
<1>1. CASE Moves(p, "applied", j)
  <2>1. j.witness = EffectiveNow
    BY DEF IInv, ProcessesOK, Jobs
  <2>2. ViewOf("applied", j) = Ledger!Now
    BY <2>1 DEF ViewOf, ViewingSteps, Ledger!Now
  <2> QED BY <1>1, <2>2, MovesViews
<1>2. CASE Moves(p, "idle", IdleJob)
  BY <1>2, MovesForgets DEF ViewingSteps
<1> QED BY <1>1, <1>2, CompleteMoves

LEMMA IdleViews ==
  ASSUME IInv, NEW p \in Procs, PrepareSetup(p) \/ ReadSnapshot(p) \/ ProbeAgain(p) \/ Crash(p)
  PROVE  Forgets(p) \/ Views' = Views
<1>1. CASE ProbeAgain(p)
  <2>1. pc[p] = "applied"
    BY <1>1, Zenon DEF ProbeAgain
  <2>2. \/ \E j : Moves(p, "begin_apply", j)
        \/ Moves(p, "begin_publication", job[p])
        \/ \E draft : Moves(p, "begin_publication", [job[p] EXCEPT !.draft = draft])
    BY <1>1, Zenon DEF ProbeAgain, Moves
  <2>3. ASSUME NEW draft, Moves(p, "begin_publication", [job[p] EXCEPT !.draft = draft])
        PROVE  Views' = Views
    <3>1. [job[p] EXCEPT !.draft = draft].witness = job[p].witness
      BY DEF IInv, ProcessesOK, Jobs
    <3>2. Views[p] = ViewOf("begin_publication", [job[p] EXCEPT !.draft = draft])
      BY <2>1, <3>1, ViewedOf DEF ViewOf, ViewingSteps
    <3> QED BY <2>3, <3>2, MovesViews, SameView
  <2> QED BY <2>1, <2>2, <2>3, MovesForgets, MovesKeepsView DEF ViewingSteps
<1>2. CASE ~ProbeAgain(p)
  <2>1. PICK step \in {"idle", "snapshot", "begin_apply"} : \E j : Moves(p, step, j)
    <3>1. CASE PrepareSetup(p)
      <4>1. \E j : Goto(p, "snapshot", j)
        BY <3>1, Zenon DEF PrepareSetup
      <4> QED BY <4>1 DEF Moves
    <3>2. CASE ReadSnapshot(p) \/ Crash(p)
      BY <3>2, EndMoves DEF ReadSnapshot, Crash, Moves
    <3> QED BY <1>2, <3>1, <3>2
  <2> QED BY <2>1, MovesForgets DEF ViewingSteps
<1> QED BY <1>1, <1>2

LEMMA PublishViews ==
  ASSUME IInv, NEW p \in Procs, PublishNext(p)
  PROVE  /\ Forgets(p) \/ Views' = Views
         /\ PreparePublication(p) /\ sidecar' # sidecar => Forgets(p)
<1>1. CASE End(p)
  BY <1>1, EndMoves, MovesForgets DEF ViewingSteps
<1>2. CASE BeginPublication(p)
  <2>1. \/ End(p)
        \/ Moves(p, "recover", job[p])
        \/ \E j : Moves(p, "begin_apply", j)
    BY <1>2, Zenon DEF BeginPublication, Moves
  <2>2. pc[p] = "begin_publication" /\ ~PreparePublication(p)
    BY <1>2 DEF BeginPublication, PreparePublication
  <2> QED BY <1>1, <2>1, <2>2, MovesForgets, MovesKeepsView DEF ViewingSteps
<1>3. CASE Recover(p)
  <2>1. \/ End(p)
        \/ Moves(p, "prepare_publication", job[p])
        \/ Moves(p, "recover_checkpoint", job[p])
    BY <1>3, Zenon DEF Recover, ReplaceManifest, Moves
  <2>2. pc[p] = "recover" /\ ~PreparePublication(p)
    BY <1>3 DEF Recover, PreparePublication
  <2> QED BY <1>1, <2>1, <2>2, MovesKeepsView DEF ViewingSteps
<1>4. CASE Checkpoint(p)
  <2>1. End(p) \/ Moves(p, AfterCheckpoint(p), job[p])
    BY <1>4, Zenon DEF Checkpoint, Moves
  <2>2. /\ ~PreparePublication(p)
        /\ \/ pc[p] = "recover_checkpoint" /\ AfterCheckpoint(p) = "recover_remove"
           \/ pc[p] = "checkpoint" /\ AfterCheckpoint(p) = "remove"
    BY <1>4 DEF Checkpoint, PreparePublication, AfterCheckpoint
  <2> QED BY <1>1, <2>1, <2>2, MovesForgets, MovesKeepsView DEF ViewingSteps
<1>5. CASE RemoveSidecar(p)
  <2>1. \/ End(p)
        \/ pc[p] = "recover_remove" /\ Moves(p, "prepare_publication", job[p])
    BY <1>5, Zenon DEF RemoveSidecar, Moves
  <2>2. ~PreparePublication(p)
    BY <1>5 DEF RemoveSidecar, PreparePublication
  <2> QED BY <1>1, <2>1, <2>2, MovesKeepsView DEF ViewingSteps
<1>6. CASE PreparePublication(p) \/ PublishManifest(p)
  <2>1. End(p) \/ \E step \in {"replace_manifest", "checkpoint"} : Moves(p, step, job[p])
    BY <1>6 DEF PreparePublication, PublishSidecar, PublishManifest, ReplaceManifest, Moves
  <2> QED BY <1>1, <2>1, MovesForgets DEF ViewingSteps
<1> QED BY <1>2, <1>3, <1>4, <1>5, <1>6 DEF PublishNext

(***************************************************************************)
(* Every step of setup is a step of the ledger.                            *)
(***************************************************************************)
LedgerStep == [Ledger!Next]_(Ledger!vars)

LEMMA LedgerStutters ==
  ASSUME EffectiveNow' = EffectiveNow, Views' = Views
  PROVE  LedgerStep
BY DEF LedgerStep, Ledger!vars, Views

LEMMA LedgerForgets ==
  ASSUME NEW p \in Procs, EffectiveNow' = EffectiveNow, Forgets(p)
  PROVE  LedgerStep
<1>1. Ledger!Forget(p)
  BY DEF Ledger!Forget, Forgets, Views
<1> QED BY <1>1 DEF LedgerStep, Ledger!Next

LEMMA LedgerLooks ==
  ASSUME NEW p \in Procs, EffectiveNow' = EffectiveNow,
         Views' = [Views EXCEPT ![p] = Ledger!Now]
  PROVE  LedgerStep
<1>1. Ledger!Look(p)
  BY DEF Ledger!Look, Views
<1> QED BY <1>1 DEF LedgerStep, Ledger!Next

LEMMA LedgerRecords ==
  ASSUME IInv, ReadableInv, NEW entry \in Entries, EntryAllowed(entry), UNCHANGED sidecar,
         Views' = Views
  PROVE  LedgerStep
<1>1. /\ EffectiveNow'.entries = Append(EffectiveNow.entries, entry)
      /\ EffectiveNow'.pubs = EffectiveNow.pubs
      /\ \A i \in DOMAIN EffectiveNow.entries : EffectiveNow.entries[i].id # entry.id
      /\ entry.status = "pending" => \A l \in Ledger!Open : l.action # entry.action
  BY EntryRecorded
<1>2. Ledger!Record(entry)
  BY <1>1 DEF Ledger!Record, Views
<1>3. entry \in Ledger!ToSet(EffectiveNow.entries')
  <2>1. EffectiveNow.entries \in Seq(Entries)
    BY NowIsDocument DEF Documents
  <2> QED BY <1>1, <2>1 DEF Ledger!ToSet
<1> QED BY <1>2, <1>3 DEF LedgerStep, Ledger!Next

LEMMA LedgerPublishes ==
  ASSUME IInv, ReadableInv, NEW p \in Procs, PreparePublication(p), PublicationPossible(p),
         ~SameLinks(p), sidecar' = Written(p), Forgets(p)
  PROVE  LedgerStep
<1>1. PICK links \in SUBSET Ledger!Open :
        /\ EffectiveNow'.entries = EffectiveNow.entries
        /\ Len(EffectiveNow'.pubs) = Len(EffectiveNow.pubs) + 1
        /\ EffectiveNow'.pubs # <<>>
        /\ Last(EffectiveNow'.pubs).count = Len(EffectiveNow.entries)
        /\ ToSet(Last(EffectiveNow'.pubs).links) = links
  BY WrittenPublishes
<1>2. Views[p] = Ledger!Now
  <2>1. pc[p] = "prepare_publication"
    BY Zenon DEF PreparePublication
  <2>2. job[p].witness = EffectiveNow
    BY DEF PublicationPossible, ValidCompletion, EffectiveNow
  <2> QED BY <2>1, <2>2, ViewedOf DEF ViewOf, ViewingSteps, Ledger!Now
<1>3. Ledger!Publish(p, links)
  BY <1>1, <1>2 DEF Ledger!Publish, Views, Forgets
<1> QED BY <1>1, <1>3 DEF LedgerStep, Ledger!Next

LEMMA PublishStepsLedger ==
  ASSUME IInv, PublicationInv, ReadableInv, NEW p \in Procs, PublishNext(p)
  PROVE  LedgerStep
<1>1. ASSUME EffectiveNow' = EffectiveNow PROVE LedgerStep
  BY <1>1, PublishViews, LedgerStutters, LedgerForgets
<1>2. CASE Checkpoint(p)
  <2>1. UNCHANGED sidecar /\ (UNCHANGED receipt \/ CheckpointAllowed)
    BY <1>2, CheckpointSteps
  <2>2. UNCHANGED <<receipt, sidecar>> => EffectiveNow' = EffectiveNow
    BY DEF EffectiveNow, Document
  <2> QED BY <1>1, <1>2, <2>1, <2>2, CheckpointInvisible
<1>3. CASE RemoveSidecar(p)
  BY <1>1, <1>3, RemovalInvisible
<1>4. CASE PreparePublication(p)
  <2>1. UNCHANGED <<receipt, sidecar>> => EffectiveNow' = EffectiveNow
    BY DEF EffectiveNow, Document
  <2>2. UNCHANGED receipt
    BY <1>4, Zenon DEF PreparePublication
  <2>3. \/ UNCHANGED sidecar
        \/ PublicationPossible(p) /\ ~SameLinks(p) /\ sidecar' = Written(p)
    BY <1>4 DEF PreparePublication, PublishSidecar, Written
  <2> QED BY <1>1, <1>4, <2>1, <2>2, <2>3, PublishViews, LedgerPublishes
<1>5. CASE BeginPublication(p) \/ Recover(p) \/ PublishManifest(p)
  <2>1. UNCHANGED <<receipt, sidecar>>
    BY <1>5, Zenon DEF BeginPublication, Recover, PublishManifest
  <2> QED BY <1>1, <2>1 DEF EffectiveNow, Document
<1> QED BY <1>2, <1>3, <1>4, <1>5 DEF PublishNext

LEMMA ApplyStepsLedger ==
  ASSUME IInv, ReadableInv, NEW p \in Procs, ApplyNext(p)
  PROVE  LedgerStep
<1>1. UNCHANGED sidecar
  BY ApplyKeepsPublication
<1>2. UNCHANGED receipt => EffectiveNow' = EffectiveNow
  BY <1>1 DEF EffectiveNow, Document
<1>3. CASE CompleteExecution(p)
  <2>1. UNCHANGED receipt
    BY <1>3, Zenon DEF CompleteExecution
  <2> QED BY <1>2, <1>3, <2>1, CompleteViews, LedgerForgets, LedgerLooks
<1>4. CASE ~CompleteExecution(p)
  <2>1. Views' = Views
    BY <1>4, ApplyViews
  <2>2. UNCHANGED receipt \/ AppendEntry(p) \/ RecordPending(p)
    BY Zenon DEF ApplyNext, BeginApply, SkipDone, CreateIntent, WriteIntent, Execute, MarkSucceeded,
                 RetireEvidence, RetireIntent, CompleteExecution
  <2> QED BY <1>1, <1>2, <2>1, <2>2, EntrySteps, LedgerStutters, LedgerRecords
<1> QED BY <1>3, <1>4

LEMMA StepLedger == IInv /\ PublicationInv /\ ReadableInv /\ [Next]_vars => LedgerStep
<1> SUFFICES ASSUME IInv, PublicationInv, ReadableInv, [Next]_vars PROVE LedgerStep
  OBVIOUS
<1>1. ASSUME NEW p \in Procs, PrepareSetup(p) \/ ReadSnapshot(p) \/ ProbeAgain(p) \/ Crash(p)
      PROVE  LedgerStep
  <2>1. EffectiveNow' = EffectiveNow
    BY <1>1, IdleMoves DEF EffectiveNow, Document
  <2> QED BY <1>1, <2>1, IdleViews, LedgerStutters, LedgerForgets
<1>2. CASE Interfere \/ EditManifest \/ UNCHANGED vars
  <2>1. UNCHANGED <<receipt, sidecar, pc, job>>
    BY <1>2, Zenon DEF Interfere, EditManifest, vars
  <2>2. EffectiveNow' = EffectiveNow /\ Views' = Views
    BY <2>1 DEF EffectiveNow, Document, Views, Viewed
  <2> QED BY <2>2, LedgerStutters
<1> QED BY <1>1, <1>2, ApplyStepsLedger, PublishStepsLedger DEF Next, SetupStep

\* The receipt and its sidecar implement the effective ledger, whoever crashed,
\* failed or recovered: no publication closes over an entry or a publication that
\* the process publishing it has not seen.
THEOREM LedgerImplemented == Spec => ImplementsLedger
<1>1. Init => Ledger!Init
  <2>1. Init => Views = [q \in Procs |-> None]
    BY DEF Init, Views, Viewed
  <2>2. Init => EffectiveNow = EmptyDocument
    BY DEF Init, EffectiveNow, Effective, Document
  <2> QED BY <2>1, <2>2 DEF Ledger!Init, EmptyDocument, Views
<1>2. LedgerStep => [Ledger!Next]_(Ledger!vars)
  BY DEF LedgerStep
<1> QED BY <1>1, <1>2, StepLedger, Inductive, PublicationInductive, ReadableInductive, PTL
        DEF Spec, ImplementsLedger, Ledger!Spec
=============================================================================
