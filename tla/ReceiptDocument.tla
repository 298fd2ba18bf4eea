---------------------------- MODULE ReceiptDocument ----------------------------
(***************************************************************************)
(* The setup receipt as a value: an append-only list of entries and the    *)
(* list of pending publications over it (src/src/setup/receipt/mod.rs).    *)
(*                                                                         *)
(*   entry        [id, action, param, status]   status applied or pending  *)
(*   link         [action, entry]               entry: the id of an entry  *)
(*   publication  [id, count, links]            count: entries it covers   *)
(*   document     [entries, pubs]                                          *)
(*   intent       [pubCount, prefix, pub, before, after]                   *)
(*                the pending-publication sidecar; pub.count is also its   *)
(*                receipt_entry_count                                      *)
(*                                                                         *)
(* A digest of a document is the document itself: SHA-256 is taken to be   *)
(* injective.  Timestamps are left out: they are unique like the ids.      *)
(***************************************************************************)
EXTENDS Integers, Sequences, FiniteSets, SequencesExt

CONSTANT None      \* an absent file or value

EmptyDocument == [entries |-> <<>>, pubs |-> <<>>]

\* The indices in lo..hi of the pending entries of action a.
PendingAt(entries, a, lo, hi) ==
  {i \in lo..hi : entries[i].status = "pending" /\ entries[i].action = a}

(***************************************************************************)
(* Structure.                                                              *)
(***************************************************************************)
LinksDistinct(links) ==
  \A i, j \in DOMAIN links :
    \/ links[i].action = links[j].action
    \/ links[i].entry = links[j].entry
    => i = j

\* A link names the latest pending entry of its action among those covered.
LinkHitsTarget(link, entries, count) ==
  \E i \in PendingAt(entries, link.action, 1, count) :
    /\ entries[i].id = link.entry
    /\ PendingAt(entries, link.action, i + 1, count) = {}

PublicationValid(pub, entries) ==
  /\ \A i \in DOMAIN entries : entries[i].id # pub.id
  /\ pub.count <= Len(entries)
  /\ LinksDistinct(pub.links)
  /\ \A i \in DOMAIN pub.links : LinkHitsTarget(pub.links[i], entries, pub.count)

StructureValid(doc) ==
  /\ \A i, j \in DOMAIN doc.entries : doc.entries[i].id = doc.entries[j].id => i = j
  /\ \A k \in DOMAIN doc.pubs : PublicationValid(doc.pubs[k], doc.entries)
  /\ \A k, m \in DOMAIN doc.pubs :
       k < m => doc.pubs[k].count <= doc.pubs[m].count /\ doc.pubs[k].id # doc.pubs[m].id

(***************************************************************************)
(* Epochs.  Publication k closes epoch k: the entries after the one before *)
(* it.  An epoch opens with the links its predecessor left current, gets   *)
(* at most one pending entry of an action not already current, and its     *)
(* publication keeps some of the current links and adds some new entries.  *)
(* The entries after the last publication are an epoch still open.         *)
(***************************************************************************)
LinksBefore(doc, k) == IF k = 1 THEN {} ELSE ToSet(doc.pubs[k - 1].links)

EpochStart(doc, k) == 1 + (IF k = 1 THEN 0 ELSE doc.pubs[k - 1].count)
EpochEnd(doc, k) == IF k > Len(doc.pubs) THEN Len(doc.entries) ELSE doc.pubs[k].count

EpochPending(doc, k) ==
  {i \in EpochStart(doc, k)..EpochEnd(doc, k) : doc.entries[i].status = "pending"}

EpochValid(doc, k) ==
  LET new == EpochPending(doc, k)
      current == LinksBefore(doc, k)
      actionsOf(links) == {l.action : l \in links}
      fresh == {[action |-> doc.entries[i].action, entry |-> doc.entries[i].id] : i \in new}
  IN /\ \A i \in new : doc.entries[i].action \notin actionsOf(current)
     /\ \A i, j \in new : doc.entries[i].action = doc.entries[j].action => i = j
     /\ k <= Len(doc.pubs) => ToSet(doc.pubs[k].links) \subseteq current \union fresh

EpochsValid(doc) == \A k \in 1..(Len(doc.pubs) + 1) : EpochValid(doc, k)

DocumentValid(doc) == StructureValid(doc) /\ EpochsValid(doc)

(***************************************************************************)
(* The document with a pending-publication intent beside it.               *)
(***************************************************************************)
\* What the document will be once the intent is finalized.
Effective(doc, intent) ==
  IF intent # None /\ Len(doc.pubs) = intent.pubCount
  THEN [doc EXCEPT !.pubs = Append(@, intent.pub)]
  ELSE doc

ValidWithIntent(doc, intent) == StructureValid(doc) /\ EpochsValid(Effective(doc, intent))

Prefix(doc, entryCount, pubCount) ==
  [entries |-> SubSeq(doc.entries, 1, entryCount), pubs |-> SubSeq(doc.pubs, 1, pubCount)]

\* The intent captured exactly this prefix of the document.
PrefixMatches(intent, doc) ==
  /\ intent.pub.count <= Len(doc.entries)
  /\ intent.pubCount <= Len(doc.pubs)
  /\ LET prefix == Prefix(doc, intent.pub.count, intent.pubCount)
     IN DocumentValid(prefix) /\ prefix = intent.prefix

BindingValid(intent, doc) ==
  /\ Len(doc.pubs) <= intent.pubCount + 1
  /\ PrefixMatches(intent, doc)
  /\ PublicationValid(intent.pub, doc.entries)
  /\ DocumentValid([intent.prefix EXCEPT !.pubs = Append(@, intent.pub)])
  /\ Len(doc.pubs) = intent.pubCount + 1 => doc.pubs[intent.pubCount + 1] = intent.pub

\* A reader that sees this document and this intent accepts them.
Accepts(doc, intent) ==
  /\ intent # None => BindingValid(intent, doc)
  /\ ValidWithIntent(doc, intent)

(***************************************************************************)
(* The current occurrence of a pending action, as a set of at most one     *)
(* link.                                                                   *)
(***************************************************************************)
FirstPendingFrom(entries, a, lo) ==
  {[action |-> a, entry |-> entries[i].id] :
     i \in {j \in PendingAt(entries, a, lo, Len(entries)) :
              PendingAt(entries, a, lo, j - 1) = {}}}

CurrentOccurrence(doc, a, intent) ==
  IF intent = None /\ doc.pubs = <<>>
  THEN FirstPendingFrom(doc.entries, a, 1)
  ELSE LET latest == IF intent # None THEN intent.pub ELSE Last(doc.pubs)
           linked == {l \in ToSet(latest.links) : l.action = a}
       IN IF linked # {} THEN linked
          ELSE FirstPendingFrom(doc.entries, a, latest.count + 1)

(***************************************************************************)
(* The candidates a writer may publish over an existing document.          *)
(***************************************************************************)
KeepsIntentPrefix(doc, candidate, intent) ==
  intent # None =>
    /\ PublicationValid(intent.pub, candidate.entries)
    /\ PrefixMatches(intent, doc)
    /\ PrefixMatches(intent, candidate)

AppendCandidateOK(doc, candidate, intent) ==
  /\ ValidWithIntent(candidate, intent)
  /\ KeepsIntentPrefix(doc, candidate, intent)
  /\ candidate.entries = Append(doc.entries, Last(candidate.entries))
  /\ candidate.pubs = doc.pubs

AppliedCandidateOK(doc, candidate, intent) ==
  /\ AppendCandidateOK(doc, candidate, intent)
  /\ Last(candidate.entries).status = "applied"

PendingCandidateOK(doc, candidate, intent) ==
  /\ AppendCandidateOK(doc, candidate, intent)
  /\ Last(candidate.entries).status = "pending"
  /\ CurrentOccurrence(doc, Last(candidate.entries).action, intent) = {}

PublicationCandidateOK(doc, candidate) ==
  /\ DocumentValid(candidate)
  /\ candidate.entries = doc.entries
  /\ candidate.pubs = Append(doc.pubs, Last(candidate.pubs))

=============================================================================
