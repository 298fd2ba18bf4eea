----------------------------- MODULE EffectiveLedger -----------------------------
(***************************************************************************)
(* What the receipt and its sidecar promise together: a ledger that grows  *)
(* atomically.  Setup processes append entries to it; a process that has   *)
(* looked at the whole ledger may publish, and the publication takes place *)
(* only if the ledger is still what it looked at (compare and swap).  The  *)
(* publication chooses its links among the occurrences still open: those   *)
(* the last publication linked and those recorded since.                   *)
(*                                                                         *)
(* Crashes, failed writes, recoveries and retries do not appear here: the  *)
(* detailed specification must make them invisible.                        *)
(***************************************************************************)
EXTENDS Integers, Sequences, FiniteSets, SequencesExt

CONSTANTS Procs, Entries, None

VARIABLES
  entries,   \* the entries recorded, in order
  covered,   \* how many of them the last publication covers
  current,   \* the links of the last publication
  epoch,     \* the number of publications
  view       \* what each process has looked at, or None

vars == <<entries, covered, current, epoch, view>>

Link(e) == [action |-> e.action, entry |-> e.id]

\* Occurrences recorded since the last publication.
Fresh == {Link(entries[i]) : i \in {j \in (covered + 1)..Len(entries) :
                                       entries[j].status = "pending"}}
Open == current \union Fresh

Now == [entries |-> entries, epoch |-> epoch]

Init ==
  /\ entries = <<>> /\ covered = 0 /\ current = {} /\ epoch = 0
  /\ view = [p \in Procs |-> None]

\* One entry is added.  A pending action gets no second open occurrence.
Record(e) ==
  /\ \A i \in DOMAIN entries : entries[i].id # e.id
  /\ e.status = "pending" => \A l \in Open : l.action # e.action
  /\ entries' = Append(entries, e)
  /\ UNCHANGED <<covered, current, epoch, view>>

Look(p) == view' = [view EXCEPT ![p] = Now] /\ UNCHANGED <<entries, covered, current, epoch>>

Forget(p) == view' = [view EXCEPT ![p] = None] /\ UNCHANGED <<entries, covered, current, epoch>>

Publish(p, links) ==
  /\ view[p] = Now
  /\ current' = links /\ covered' = Len(entries) /\ epoch' = epoch + 1
  /\ view' = [view EXCEPT ![p] = None]
  /\ UNCHANGED entries

\* The entry is sought where it was added: Entries need not be finite.
Next ==
  \/ \E e \in ToSet(entries') : e \in Entries /\ Record(e)
  \/ \E p \in Procs : Look(p) \/ Forget(p)
  \/ \E p \in Procs, links \in SUBSET Open : Publish(p, links)

Spec == Init /\ [][Next]_vars

=============================================================================
