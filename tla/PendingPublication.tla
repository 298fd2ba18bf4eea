-------------------------- MODULE PendingPublication --------------------------
(***************************************************************************)
(* The durable pending-publication protocol: publish_manifest in           *)
(* src/src/setup/pending.rs and ReceiptPendingPublicationSession in        *)
(* src/src/setup/receipt/mod.rs.  A completed apply publishes the manifest *)
(* with the pending actions it found, and a publication in the receipt     *)
(* that links each of them to its occurrence.  The two files are joined by *)
(* a sidecar written first and removed last; whoever publishes next        *)
(* finishes the publication a crash left behind.                           *)
(***************************************************************************)
EXTENDS SetupState

\* CONCURRENT_PUBLICATION_RETRIES
ConcurrentPublicationRetries == 1

\* Seeded fault: the occurrences are checked, the witness is not.
ValidCompletionUnwitnessed(p) == SidecarReadOK /\ OccurrencesHold(p)

\* validate_completed_execution: nothing was recorded since the apply ended.
ValidCompletion(p) ==
  /\ SidecarReadOK
  /\ job[p].witness = Effective(Document, sidecar)
  /\ OccurrencesHold(p)

(***************************************************************************)
(* completed_execution_is_stale_after_publication_append: only             *)
(* publications were added since, and the occurrences are still current.   *)
(***************************************************************************)
StaleCompletion(p) ==
  LET effective == Effective(Document, sidecar)
      witness == job[p].witness
  IN /\ SidecarReadOK
     /\ effective.entries = witness.entries
     /\ Len(effective.pubs) > Len(witness.pubs)
     /\ SubSeq(effective.pubs, 1, Len(witness.pubs)) = witness.pubs
     /\ OccurrencesHold(p)

(***************************************************************************)
(* begin_pending_publication and the first validation.  A stale witness is *)
(* answered, once, by applying the plan again (apply_rootless_setup).      *)
(***************************************************************************)
BeginPublication(p) ==
  /\ pc[p] = "begin_publication" /\ lock = None
  /\ \/ /\ LockedReadOK /\ ValidCompletion(p)
        /\ Enter(p, "recover", job[p])
     \/ /\ LockedReadOK /\ ~ValidCompletion(p) /\ StaleCompletion(p)
        /\ job[p].retries < ConcurrentPublicationRetries
        /\ Leave(p, "begin_apply", [job[p] EXCEPT !.retries = @ + 1])
     \/ /\ \/ ~LockedReadOK
           \/ ~ValidCompletion(p) /\ ~StaleCompletion(p)
           \/ ~ValidCompletion(p) /\ job[p].retries >= ConcurrentPublicationRetries
        /\ End(p)
  /\ UNCHANGED <<disk, res, nextId, budget, made>>

(***************************************************************************)
(* recover_pending_publication.  The manifest must be what it was before   *)
(* the interrupted publication, and is then replaced by the stored         *)
(* candidate, or already be that candidate.                                *)
(***************************************************************************)
\* Seeded fault: any manifest that is not the candidate is replaced by it.
StoredCandidateAppliesAlways == manifest # sidecar.after

StoredCandidateApplies == manifest # sidecar.after /\ manifest = sidecar.before

ReplaceManifest(p, candidate, next) ==
  \E outcome \in Outcomes :
    /\ Charge(outcome # "ok")
    /\ manifest' = IF Happened(outcome) THEN candidate ELSE manifest
    /\ IF outcome = "ok" THEN Goto(p, next, job[p]) ELSE End(p)

Recover(p) ==
  /\ pc[p] = "recover"
  /\ \/ /\ sidecar = None
        /\ Goto(p, "prepare_publication", job[p])
        /\ UNCHANGED <<manifest, budget>>
     \/ /\ sidecar # None /\ SidecarReadOK
        /\ \/ /\ manifest = sidecar.after
              /\ \/ Goto(p, "recover_checkpoint", job[p]) /\ UNCHANGED budget
                 \/ Charge(TRUE) /\ End(p)    \* its directory was not made durable
              /\ UNCHANGED manifest
           \/ /\ StoredCandidateApplies
              /\ ReplaceManifest(p, sidecar.after, "recover_checkpoint")
           \/ /\ manifest # sidecar.after /\ ~StoredCandidateApplies
              /\ End(p)
              /\ UNCHANGED <<manifest, budget>>
     \/ /\ ~SidecarReadOK
        /\ End(p)
        /\ UNCHANGED <<manifest, budget>>
  /\ UNCHANGED <<receipt, intents, sidecar, res, nextId, made>>

(***************************************************************************)
(* finalize_pending_publication: append the publication unless the receipt *)
(* has it, then remove the sidecar.  It ends a recovery and a publication. *)
(***************************************************************************)
\* Seeded fault: the checkpoint extends the receipt the intent captured.
CheckpointBaseCaptured == sidecar.prefix

CheckpointBase == Document

AfterCheckpoint(p) == IF pc[p] = "recover_checkpoint" THEN "recover_remove" ELSE "remove"

Checkpoint(p) ==
  /\ pc[p] \in {"recover_checkpoint", "checkpoint"}
  /\ LET next == AfterCheckpoint(p)
         base == CheckpointBase
         candidate == [base EXCEPT !.pubs = Append(@, sidecar.pub)]
         bound == BindingValid(sidecar, base)
         missing == Len(base.pubs) = sidecar.pubCount
     IN \/ /\ bound /\ ~missing
           /\ Goto(p, next, job[p])
           /\ UNCHANGED <<receipt, budget>>
        \/ /\ bound /\ missing /\ PublicationCandidateOK(base, candidate)
           /\ \E outcome \in Outcomes :
                /\ Charge(outcome # "ok")
                /\ receipt' = IF Happened(outcome) THEN candidate ELSE receipt
                /\ IF outcome = "ok" THEN Goto(p, next, job[p]) ELSE End(p)
        \/ /\ ~bound \/ (missing /\ ~PublicationCandidateOK(base, candidate))
           /\ End(p)
           /\ UNCHANGED <<receipt, budget>>
  /\ UNCHANGED <<intents, sidecar, manifest, res, nextId, made>>

RemoveSidecar(p) ==
  /\ pc[p] \in {"recover_remove", "remove"}
  /\ \E outcome \in Outcomes :
       /\ Charge(outcome # "ok")
       /\ sidecar' = IF Happened(outcome) THEN None ELSE sidecar
       /\ IF outcome = "ok" /\ pc[p] = "recover_remove"
          THEN Goto(p, "prepare_publication", job[p]) ELSE End(p)
  /\ UNCHANGED <<receipt, intents, manifest, res, nextId, made>>

(***************************************************************************)
(* The publication proper.  The candidate keeps the machine id on disk, or *)
(* mints one.  With the links of the last publication nothing is added to  *)
(* the receipt and the manifest is replaced without a sidecar.             *)
(***************************************************************************)
\* Seeded fault: a candidate with an id of its own.
CandidateReminted(p) ==
  [ mid |-> nextId,
    draft |-> job[p].draft,
    pending |-> [i \in DOMAIN job[p].occurrences |-> job[p].occurrences[i].action] ]

Candidate(p) ==
  [ mid |-> IF manifest = None THEN nextId ELSE manifest.mid,
    draft |-> job[p].draft,
    pending |-> [i \in DOMAIN job[p].occurrences |-> job[p].occurrences[i].action] ]

\* Seeded fault: as many pending actions as before are taken for the same.
SameLinksCounted(p) ==
  /\ Document.pubs # <<>>
  /\ Len(Last(Document.pubs).links) = Len(job[p].occurrences)

SameLinks(p) ==
  /\ Document.pubs # <<>>
  /\ Last(Document.pubs).links = job[p].occurrences

\* Seeded fault: the publication counts the entries it links, not those it covers.
NewPublicationLinked(p) ==
  [id |-> nextId + 1, count |-> Len(job[p].occurrences), links |-> job[p].occurrences]

NewPublication(p) ==
  [id |-> nextId + 1, count |-> Len(Document.entries), links |-> job[p].occurrences]

PublicationPossible(p) ==
  /\ ValidCompletion(p)
  /\ sidecar = None
  /\ SameLinks(p) \/ PublicationValid(NewPublication(p), Document.entries)

PublishSidecar(p) ==
  \E outcome \in Outcomes :
    /\ Charge(outcome # "ok")
    /\ sidecar' = IF Happened(outcome)
                  THEN [ pubCount |-> Len(Document.pubs),
                         prefix |-> Document,
                         pub |-> NewPublication(p),
                         before |-> manifest,
                         after |-> Candidate(p) ]
                  ELSE sidecar
    /\ IF outcome = "ok" THEN Goto(p, "replace_manifest", job[p]) ELSE End(p)

PreparePublication(p) ==
  /\ pc[p] = "prepare_publication"
  /\ \/ /\ ~PublicationPossible(p)
        /\ End(p)
        /\ UNCHANGED <<sidecar, manifest, nextId, budget>>
     \/ /\ PublicationPossible(p) /\ SameLinks(p)
        /\ IF manifest = Candidate(p)
           THEN End(p) /\ UNCHANGED <<manifest, budget>>
           ELSE \E outcome \in Outcomes :
                  /\ Charge(outcome # "ok")
                  /\ manifest' = IF Happened(outcome) THEN Candidate(p) ELSE manifest
                  /\ End(p)
        /\ nextId' = IF manifest = None THEN nextId + 1 ELSE nextId
        /\ UNCHANGED sidecar
     \/ /\ PublicationPossible(p) /\ ~SameLinks(p)
        /\ PublishSidecar(p)
        /\ nextId' = nextId + 2
        /\ UNCHANGED manifest
  /\ UNCHANGED <<receipt, intents, res, made>>

PublishManifest(p) ==
  /\ pc[p] = "replace_manifest"
  /\ IF sidecar.before = sidecar.after
     THEN Goto(p, "checkpoint", job[p]) /\ UNCHANGED <<manifest, budget>>
     ELSE ReplaceManifest(p, sidecar.after, "checkpoint")
  /\ UNCHANGED <<receipt, intents, sidecar, res, nextId, made>>

PublishNext(p) ==
  \/ BeginPublication(p)
  \/ Recover(p)
  \/ Checkpoint(p)
  \/ RemoveSidecar(p)
  \/ PreparePublication(p)
  \/ PublishManifest(p)

=============================================================================
