------------------------------- MODULE ApplyPlan -------------------------------
(***************************************************************************)
(* The durable apply protocol: apply_plan_with_runner                      *)
(* (src/src/setup/action/execution.rs) over a ReceiptApplySession          *)
(* (src/src/setup/receipt/mod.rs).  Under the receipt lock a process first *)
(* recovers the transaction intent an earlier process left, then takes the *)
(* plan's actions in order: an action to do is journalled as a prepared    *)
(* intent, executed, journalled as succeeded, appended to the receipt and  *)
(* only then forgotten by the journal; an action that needs a human is     *)
(* recorded as a pending occurrence.  The first error ends the session.    *)
(***************************************************************************)
EXTENDS SetupState

Torn(entry) == [phase |-> "torn", entry |-> entry]
Prepared(entry) == [phase |-> "prepared", entry |-> entry]
Succeeded(entry) == [phase |-> "succeeded", entry |-> entry]

PlannedItem(p) == job[p].plan[job[p].idx]
HeldAction(p) == job[p].held.action

\* The plan items an intent with this entry matches.
MatchingItem(p, entry) ==
  {i \in DOMAIN job[p].plan : /\ job[p].plan[i].action = entry.action
                              /\ job[p].plan[i].param = entry.param}

\* A prepared intent is retried only for the same action, still to be done.
MayRetry(p, entry) == \E i \in MatchingItem(p, entry) : Check(job[p].plan[i]) = "todo"

\* A new apply starts from the plan, the draft and the retries of the run alone.
FreshApply(j) == [IdleJob EXCEPT !.plan = j.plan, !.draft = j.draft, !.retries = j.retries]

(***************************************************************************)
(* What recovery does with an intent an earlier process left.  A torn file *)
(* does not parse.  A succeeded one is appended whatever the plan says.    *)
(***************************************************************************)
\* Seeded fault: what looks done is taken for the interrupted mutation.
RecoveryStepAdopting(p, intent) ==
  CASE intent.phase = "torn" -> "refuse"
    [] intent.phase = "succeeded" -> "append"
    [] intent.phase = "prepared" ->
         IF MayRetry(p, intent.entry) THEN "execute"
         ELSE IF MatchingItem(p, intent.entry) # {} THEN "bind" ELSE "refuse"

RecoveryStep(p, intent) ==
  CASE intent.phase = "torn" -> "refuse"
    [] intent.phase = "succeeded" -> "append"
    [] intent.phase = "prepared" -> IF MayRetry(p, intent.entry) THEN "execute" ELSE "refuse"

(***************************************************************************)
(* begin_apply and pending_intents: the lock, the receipt, and the intent  *)
(* to recover first.  More than one intent is a conflict.                  *)
(***************************************************************************)
BeginApply(p) ==
  /\ pc[p] = "begin_apply" /\ lock = None
  /\ \/ /\ ~LockedReadOK \/ Cardinality(intents) > 1
             \/ \E i \in intents : RecoveryStep(p, i) = "refuse"
        /\ End(p)
     \/ /\ LockedReadOK /\ intents = {}
        /\ Enter(p, "check", [FreshApply(job[p]) EXCEPT !.idx = 1])
     \/ /\ LockedReadOK /\ Cardinality(intents) = 1
        /\ \E i \in intents :
             /\ RecoveryStep(p, i) # "refuse"
             /\ Enter(p, RecoveryStep(p, i),
                      [FreshApply(job[p]) EXCEPT !.held = i.entry,
                                                 !.replay = (i.phase = "succeeded")])
  /\ UNCHANGED <<disk, res, nextId, budget, made>>

\* The action in hand is finished: on to the next one, the first after recovery.
NextAction(p) == Goto(p, "check", [job[p] EXCEPT !.idx = @ + 1, !.held = None, !.replay = FALSE])

SkipDone(p) ==
  /\ pc[p] = "check" /\ job[p].idx <= Len(job[p].plan)
  /\ Check(PlannedItem(p)) = "done"
  /\ NextAction(p)
  /\ UNCHANGED <<disk, res, nextId, budget, made>>

(***************************************************************************)
(* prepare_intent creates the file under its final name and then writes    *)
(* it, so that a crash in between leaves a torn one.  An error in between  *)
(* tries to remove it.                                                     *)
(***************************************************************************)
CreateIntent(p) ==
  /\ pc[p] = "check" /\ job[p].idx <= Len(job[p].plan)
  /\ Check(PlannedItem(p)) = "todo"
  /\ \E outcome \in {"ok", "failed_before"} :
       LET entry == [id |-> nextId, action |-> PlannedItem(p).action,
                     param |-> PlannedItem(p).param, status |-> "applied"]
       IN /\ Charge(outcome # "ok")
          /\ nextId' = nextId + 1
          /\ IF outcome = "ok"
             THEN /\ intents' = intents \union {Torn(entry)}
                  /\ Goto(p, "write_intent", [job[p] EXCEPT !.held = entry])
             ELSE UNCHANGED intents /\ End(p)
  /\ UNCHANGED <<receipt, sidecar, manifest, res, made>>

WriteIntent(p) ==
  /\ pc[p] = "write_intent"
  /\ \E outcome \in Outcomes : \E removed \in BOOLEAN :
       LET entry == job[p].held
           others == intents \ {Torn(entry)}
       IN /\ Charge(outcome # "ok")
          /\ outcome = "ok" => ~removed
          /\ intents' = IF removed THEN others
                        ELSE IF Happened(outcome) THEN others \union {Prepared(entry)}
                        ELSE intents
          /\ IF outcome = "ok" THEN Goto(p, "execute", job[p]) ELSE End(p)
  /\ UNCHANGED <<receipt, sidecar, manifest, res, nextId, made>>

(***************************************************************************)
(* The mutation.  Both kinds create without replacing, so that a resource  *)
(* somebody else made since the check ends in an error, not an adoption.   *)
(*   created        made, verified, bound to the intent next               *)
(*   created_late   a directory whose creation failed after it was made    *)
(*                  and whose retained evidence is bound all the same      *)
(*   unbound        made, then an error before anything was bound          *)
(*   not_created    an error that changed nothing                          *)
(* A directory somebody made late stays, but the evidence may stay beside  *)
(* it (unbound), as WorkerNode shows.                                      *)
(***************************************************************************)
MutationResults(a) ==
  IF res[a] = "absent"
  THEN {"created", "unbound", "not_created"} \union
       (IF a \in Directories THEN {"created_late"} ELSE {})
  ELSE IF a \in Directories /\ res[a] \in {"exact", "foreign"} THEN {"unbound", "not_created"}
  ELSE {"not_created"}

Execute(p) ==
  /\ pc[p] = "execute"
  /\ \E result \in MutationResults(HeldAction(p)) :
       LET a == HeldAction(p)
           mutated == result # "not_created"
       IN /\ Charge(result # "created" /\ res[a] = "absent")
          /\ res' = IF mutated
                    THEN [res EXCEPT ![a] = IF a \in Directories THEN "evidence" ELSE "exact"]
                    ELSE res
          /\ made' = IF mutated THEN made \union {job[p].held.id} ELSE made
          /\ IF result \in {"created", "created_late"}
             THEN Goto(p, "bind", [job[p] EXCEPT !.failing = (result = "created_late")])
             ELSE End(p)
  /\ UNCHANGED <<disk, nextId>>

\* mark_intent_succeeded: the intent is replaced by its succeeded phase.
MarkSucceeded(p) ==
  /\ pc[p] = "bind"
  /\ \E outcome \in Outcomes :
       LET entry == job[p].held
       IN /\ Charge(outcome # "ok")
          /\ intents' = IF Happened(outcome)
                        THEN (intents \ {Prepared(entry)}) \union {Succeeded(entry)}
                        ELSE intents
          /\ IF outcome = "ok" THEN Goto(p, "append", job[p]) ELSE End(p)
  /\ UNCHANGED <<receipt, sidecar, manifest, res, nextId, made>>

(***************************************************************************)
(* append_succeeded_intent.  An entry the receipt already holds is not     *)
(* appended again.  After a fresh mutation a failed append does not end    *)
(* the session at once (DurableReceiptBinding::SucceededOnly).             *)
(***************************************************************************)
\* Seeded fault: the append does not look for an earlier append of the entry.
RecordedForgetful(entry) == {}

Recorded(entry) == {i \in DOMAIN Document.entries : Document.entries[i].id = entry.id}

\* Seeded fault: after a failed append the intent is finished like any other.
AppendFailedUnkept(p) ==
  IF job[p].replay THEN End(p)
  ELSE Goto(p, "retire_evidence", [job[p] EXCEPT !.failing = TRUE])

AppendFailed(p) ==
  IF job[p].replay THEN End(p)
  ELSE Goto(p, "retire_evidence", [job[p] EXCEPT !.keeping = TRUE])

AppendEntry(p) ==
  /\ pc[p] = "append"
  /\ LET entry == job[p].held
         candidate == [Document EXCEPT !.entries = Append(@, entry)]
         allowed == SidecarReadOK /\ AppliedCandidateOK(Document, candidate, sidecar)
     IN \/ /\ Recorded(entry) # {}
           /\ IF \A i \in Recorded(entry) : Document.entries[i] = entry
              THEN Goto(p, "retire_evidence", job[p]) ELSE AppendFailed(p)
           /\ UNCHANGED <<receipt, budget>>
        \/ /\ Recorded(entry) = {} /\ ~allowed
           /\ AppendFailed(p)
           /\ UNCHANGED <<receipt, budget>>
        \/ /\ Recorded(entry) = {} /\ allowed
           /\ \E outcome \in Outcomes :
                /\ Charge(outcome # "ok")
                /\ receipt' = IF Happened(outcome) THEN candidate ELSE receipt
                /\ IF outcome = "ok" THEN Goto(p, "retire_evidence", job[p])
                   ELSE AppendFailed(p)
  /\ UNCHANGED <<intents, sidecar, manifest, res, nextId, made>>

(***************************************************************************)
(* The creation evidence of a directory is retired once the journal owns   *)
(* the directory: from the lease after a fresh mutation, and by            *)
(* retire_succeeded_worker_directory_evidence in a recovery, which needs   *)
(* the directory.  A failure keeps the succeeded intent.                   *)
(***************************************************************************)
\* Seeded fault: a directory whose evidence could not be retired is finished.
RetireEvidenceCareless(p) ==
  /\ pc[p] = "retire_evidence"
  /\ \E outcome \in Outcomes :
       /\ Charge(outcome # "ok")
       /\ res' = IF res[HeldAction(p)] = "evidence" /\ Happened(outcome)
                 THEN [res EXCEPT ![HeldAction(p)] = "owned"] ELSE res
       /\ IF job[p].keeping THEN End(p)
          ELSE Goto(p, "retire_intent", [job[p] EXCEPT !.failing = (outcome # "ok")])
  /\ UNCHANGED <<disk, nextId, made>>

RetireEvidence(p) ==
  /\ pc[p] = "retire_evidence"
  /\ LET a == HeldAction(p)
         directory == a \in Directories
         missing == directory /\ job[p].replay /\ res[a] \notin {"evidence", "owned"}
     IN \/ missing /\ End(p) /\ UNCHANGED <<res, budget>>
        \/ /\ ~missing
           /\ \E outcome \in (IF directory THEN Outcomes ELSE {"ok"}) :
                /\ Charge(outcome # "ok")
                /\ res' = IF directory /\ res[a] = "evidence" /\ Happened(outcome)
                          THEN [res EXCEPT ![a] = "owned"] ELSE res
                /\ IF outcome = "ok" /\ ~job[p].keeping
                   THEN Goto(p, "retire_intent", job[p]) ELSE End(p)
  /\ UNCHANGED <<disk, nextId, made>>

\* Seeded fault: the file is sought under the identity it had when prepared.
RetireIntentMissing(p) ==
  /\ pc[p] = "retire_intent"
  /\ intents' = intents \ {Prepared(job[p].held)}
  /\ IF job[p].failing THEN End(p) ELSE NextAction(p)
  /\ UNCHANGED <<receipt, sidecar, manifest, res, nextId, budget, made>>

\* retire_finalized_intent; an action that had failed late is reported now.
RetireIntent(p) ==
  /\ pc[p] = "retire_intent"
  /\ \E outcome \in Outcomes :
       /\ Charge(outcome # "ok")
       /\ intents' = IF Happened(outcome) THEN intents \ {Succeeded(job[p].held)} ELSE intents
       /\ IF outcome = "ok" /\ ~job[p].failing THEN NextAction(p) ELSE End(p)
  /\ UNCHANGED <<receipt, sidecar, manifest, res, nextId, made>>

(***************************************************************************)
(* record_pending.  The current occurrence is reused if its parameters are *)
(* the same; the same action with others is a conflict.                    *)
(***************************************************************************)
RecordedAs(link, item) ==
  \E i \in DOMAIN Document.entries :
    /\ Document.entries[i].id = link.entry
    /\ Document.entries[i].action = item.action
    /\ Document.entries[i].param = item.param

Noted(p, link) ==
  Goto(p, "check", [job[p] EXCEPT !.idx = @ + 1, !.occurrences = Append(@, link)])

ReuseOccurrence(p, item, link) ==
  /\ IF SidecarReadOK /\ RecordedAs(link, item) THEN Noted(p, link) ELSE End(p)
  /\ UNCHANGED <<receipt, nextId, budget>>

NewOccurrence(p, item) ==
  LET entry == [id |-> nextId, action |-> item.action, param |-> item.param,
                status |-> "pending"]
      candidate == [Document EXCEPT !.entries = Append(@, entry)]
  IN /\ nextId' = nextId + 1
     /\ IF SidecarReadOK /\ PendingCandidateOK(Document, candidate, sidecar)
        THEN \E outcome \in Outcomes :
               /\ Charge(outcome # "ok")
               /\ receipt' = IF Happened(outcome) THEN candidate ELSE receipt
               /\ IF outcome = "ok"
                  THEN Noted(p, [action |-> entry.action, entry |-> entry.id])
                  ELSE End(p)
        ELSE End(p) /\ UNCHANGED <<receipt, budget>>

RecordPending(p) ==
  /\ pc[p] = "check" /\ job[p].idx <= Len(job[p].plan)
  /\ LET item == PlannedItem(p)
         current == CurrentOccurrence(Document, item.action, sidecar)
     IN /\ Check(item) = "human"
        /\ IF current = {} THEN NewOccurrence(p, item)
           ELSE \E link \in current : ReuseOccurrence(p, item, link)
  /\ UNCHANGED <<intents, sidecar, manifest, res, made>>

(***************************************************************************)
(* complete_execution: the occurrences must still be the current ones, and *)
(* the effective document is the witness of what was applied.              *)
(***************************************************************************)
CompleteExecution(p) ==
  /\ pc[p] = "check" /\ job[p].idx > Len(job[p].plan)
  /\ IF SidecarReadOK /\ OccurrencesHold(p)
     THEN Leave(p, "applied", [job[p] EXCEPT !.witness = Effective(Document, sidecar)])
     ELSE End(p)
  /\ UNCHANGED <<disk, res, nextId, budget, made>>

ApplyNext(p) ==
  \/ BeginApply(p)
  \/ SkipDone(p)
  \/ CreateIntent(p)
  \/ WriteIntent(p)
  \/ Execute(p)
  \/ MarkSucceeded(p)
  \/ AppendEntry(p)
  \/ RetireEvidence(p)
  \/ RetireIntent(p)
  \/ RecordPending(p)
  \/ CompleteExecution(p)

=============================================================================
