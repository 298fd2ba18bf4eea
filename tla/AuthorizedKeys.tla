---------------------------- MODULE AuthorizedKeys ----------------------------
(***************************************************************************)
(* src/setup/action/authorized_keys.rs: controller keys are authorized for *)
(* the current user in a file that ssh-copy-id, editors and humans write   *)
(* too. A missing file is published without replacing; to one that exists  *)
(* a stanza is appended in a single write.                                 *)
(***************************************************************************)
EXTENDS NoValue, Naturals, Sequences, SequencesExt, FiniteSets

CONSTANTS RequiredKeys,  \* the keys asked for: in which order is left open
          MaxLines,      \* MAX_BYTES
          MaxAttempts, MaxEdits, MaxShortWrites

ASSUME KeysAssumption == IsFiniteSet(RequiredKeys)

VARIABLES dir,        \* .ssh: "absent", "ready", or "conflict"
          path,       \* the file authorized_keys names, or None
          files,      \* the contents of the files there have been
          styrn,      \* the attempt
          editor,     \* what an editor has read, or None
          granted,    \* since the attempt wrote: were all keys authorized at once
          spare       \* what is left of the bounds

keysVars == <<dir, path, files, styrn, editor, granted, spare>>

(***************************************************************************)
(* Contents: lines, and whether the last one lacks its end.                *)
(***************************************************************************)
Line(what, keys) == [what |-> what, keys |-> keys]
Comment == Line("comment", {})
Broken == Line("broken", {})       \* a marker with something behind it

Active(text, what) == UNION {l.keys : l \in {m \in Range(text.lines) : m.what = what}}

\* What a line becomes when more is written behind it.
Glued(line) == CASE line.what \in {"begin", "end"} -> Broken
                 [] OTHER -> line

Written(text, lines) ==
  [lines |-> (IF text.cut THEN Front(text.lines) \o <<Glued(Last(text.lines))>> \o Tail(lines)
                          ELSE text.lines \o lines),
   cut |-> FALSE]

\* validate_owned_markers.
Closes(lines, i, j) ==
  /\ i < j
  /\ lines[i].what = "begin" /\ lines[j] = Line("end", lines[i].keys)
  /\ \A k \in (i + 1)..(j - 1) : lines[k].what = "key"
  /\ UNION {lines[k].keys : k \in (i + 1)..(j - 1)} = lines[i].keys

MarkersValid(lines) ==
  \A i \in DOMAIN lines :
    /\ lines[i].what # "broken"
    /\ lines[i].what = "begin" => \E j \in DOMAIN lines : Closes(lines, i, j)
    /\ lines[i].what = "end" => \E j \in DOMAIN lines : Closes(lines, j, i)

\* analyze_keys: a key that is only there with options is not styrn's to free.
Conflicting(text) ==
  \/ ~ MarkersValid(text.lines)
  \/ RequiredKeys \cap Active(text, "malformed") # {}
  \/ RequiredKeys \cap (Active(text, "constrained") \ Active(text, "key")) # {}

Missing(text) == RequiredKeys \ Active(text, "key")
Authorized(text) == ~ Conflicting(text) /\ Missing(text) = {}

KeyLines(keys) ==
  LET ordered == SetToSeq(keys) IN [i \in 1..Cardinality(keys) |-> Line("key", {ordered[i]})]
Stanza(keys) == <<Line("begin", keys)>> \o KeyLines(keys) \o <<Line("end", keys)>>

\* append_stanza puts an end of line first, so that the last line stays itself.
Appended(text, stanza) == [lines |-> text.lines \o stanza, cut |-> FALSE]

\* A full disk: part of what was to be written, n lines and the rest of one.
Rests == {<<>>, <<Comment>>, <<Broken>>}
ShortWrite(text, stanza, n, rest) ==
  [lines |-> text.lines \o SubSeq(stanza, 1, n) \o rest, cut |-> rest # <<>>]

\* read_keys: None, or what the name leads to.
At(name) == IF name = None THEN None ELSE files[name]
TooBig(text, added) == Len(text.lines) + Len(added) > MaxLines

(***************************************************************************)
(* Planning: build.                                                        *)
(***************************************************************************)
NoAttempt == [at |-> "idle", dir |-> "absent", initial |-> None, stanza |-> <<>>,
              conflict |-> FALSE]

PlanFor(name) ==
  LET text == At(name)
      payload == IF text = None THEN KeyLines(RequiredKeys)
                 ELSE IF Conflicting(text) \/ Missing(text) = {} THEN <<>>
                 ELSE Stanza(Missing(text))
  IN [at |-> "check_directory", dir |-> dir, initial |-> name, stanza |-> payload,
      conflict |-> \/ dir = "conflict"
                   \/ text # None /\ (Conflicting(text) \/ TooBig(text, payload))]

Plan ==
  /\ styrn.at \in {"idle", "done", "human", "failed", "applied"}
  /\ spare.attempts > 0
  /\ spare' = [spare EXCEPT !.attempts = @ - 1]
  /\ styrn' = PlanFor(IF dir = "ready" THEN path ELSE None)
  /\ granted' = FALSE
  /\ UNCHANGED <<dir, path, files, editor>>

Become(step) == styrn' = [styrn EXCEPT !.at = step] /\ UNCHANGED <<editor, spare>>
Stay == UNCHANGED <<dir, path, files, granted>>

(***************************************************************************)
(* The directory: Done or NeedsHuman, or an exclusive creation.            *)
(***************************************************************************)
CheckDirectory ==
  /\ styrn.at = "check_directory"
  /\ Become(IF dir = "absent" /\ styrn.dir = "absent" THEN "make_directory" ELSE "check_keys")
  /\ Stay

MakeSshDirectory ==
  /\ styrn.at = "make_directory"
  /\ \/ dir = "absent" /\ dir' = "ready" /\ Become("check_keys")
     \/ dir # "absent" /\ dir' = dir /\ Become("failed")
  /\ UNCHANGED <<path, files, granted>>

(***************************************************************************)
(* The keys.                                                               *)
(***************************************************************************)
KeysCheck ==
  LET text == IF dir = "absent" THEN None ELSE At(path) IN
  IF styrn.conflict \/ dir = "conflict" THEN "human"
  ELSE CASE styrn.initial = None /\ text = None /\ styrn.stanza # <<>> -> "create"
         [] styrn.initial = None /\ text # None /\ Authorized(text) -> "done"
         [] styrn.initial # None /\ text # None /\ styrn.initial = path /\ Authorized(text) ->
              "done"
         [] styrn.initial # None /\ text # None /\ styrn.initial = path
              /\ ~ Conflicting(text) /\ Missing(text) # {} /\ styrn.stanza # <<>> -> "open"
         [] OTHER -> "human"

CheckKeys == styrn.at = "check_keys" /\ Become(KeysCheck) /\ Stay

\* publish_keys: looked for again, and linked without replacing.
CreateKeys ==
  /\ styrn.at = "create"
  /\ Become(IF dir = "ready" /\ path = None THEN "link" ELSE "failed")
  /\ Stay

Fresh == [lines |-> styrn.stanza, cut |-> FALSE]
MayLink == path = None

Link ==
  /\ styrn.at = "link"
  /\ \/ /\ MayLink
        /\ files' = Append(files, Fresh)
        /\ path' = Len(files) + 1
        /\ granted' = TRUE
        /\ Become("read_back")
     \/ ~ MayLink /\ Become("failed") /\ UNCHANGED <<path, files, granted>>
  /\ UNCHANGED dir

ReadBack ==
  /\ styrn.at = "read_back"
  /\ Become(IF At(path) = Fresh THEN "applied" ELSE "failed")
  /\ Stay

\* The file is opened by the identity planned with, and read again.
Open ==
  /\ styrn.at = "open"
  /\ Become(IF /\ path = styrn.initial
               /\ ~ Conflicting(At(path)) /\ Missing(At(path)) # {}
               /\ ~ TooBig(At(path), styrn.stanza)
            THEN "append" ELSE "failed")
  /\ Stay

\* append_once: through the handle, whatever the name is by now.
AppendOnce ==
  LET id == styrn.initial IN
  /\ styrn.at = "append"
  /\ \/ /\ files' = [files EXCEPT ![id] = Appended(@, styrn.stanza)]
        /\ Become("verify")
     \/ /\ spare.short > 0
        /\ \E n \in 0..(Len(styrn.stanza) - 1), rest \in Rests :
             files' = [files EXCEPT ![id] = ShortWrite(@, styrn.stanza, n, rest)]
        /\ styrn' = [styrn EXCEPT !.at = "failed"]
        /\ spare' = [spare EXCEPT !.short = @ - 1]
        /\ UNCHANGED editor
  /\ granted' = (path = id /\ Authorized(files'[id]))
  /\ UNCHANGED <<dir, path>>

\* Seeded fault: the keys are verified through the handle.
VerifiedHandle == Authorized(At(styrn.initial))

KeysVerified == path = styrn.initial /\ Authorized(At(path))

Verify ==
  /\ styrn.at = "verify"
  /\ Become(IF KeysVerified THEN "applied" ELSE "failed")
  /\ Stay

Setup == \/ Plan \/ CheckDirectory \/ MakeSshDirectory \/ CheckKeys
         \/ CreateKeys \/ Link \/ ReadBack \/ Open \/ AppendOnce \/ Verify

(***************************************************************************)
(* Others: an append, an editor that reads, drops a line, and saves in     *)
(* place or by a rename, a removal, and a directory made or opened up.     *)
(***************************************************************************)
Others == UNCHANGED <<styrn>> /\ spare' = [spare EXCEPT !.edits = @ - 1] /\ spare.edits > 0
Noted == granted' = (granted \/ (path' # None /\ Authorized(files'[path'])))

OtherAppends ==
  /\ Others /\ dir = "ready"
  /\ \E what \in {"key", "constrained", "malformed"}, k \in RequiredKeys, cut \in BOOLEAN :
       LET line == Line(what, {k})
           old == IF path = None THEN [lines |-> <<>>, cut |-> FALSE] ELSE files[path]
           new == [Written(old, <<line>>) EXCEPT !.cut = cut]
       IN /\ files' = IF path = None THEN Append(files, new) ELSE [files EXCEPT ![path] = new]
          /\ path' = IF path = None THEN Len(files) + 1 ELSE path
  /\ Noted /\ UNCHANGED <<dir, editor>>

EditorReads ==
  /\ Others /\ path # None /\ editor = None
  /\ \E i \in DOMAIN files[path].lines :
       editor' = [lines |-> RemoveAt(files[path].lines, i), cut |-> FALSE]
  /\ UNCHANGED <<dir, path, files, granted>>

EditorSaves ==
  /\ editor # None /\ path # None
  /\ \/ files' = [files EXCEPT ![path] = editor] /\ path' = path
     \/ files' = Append(files, editor) /\ path' = Len(files) + 1
  /\ editor' = None
  /\ Noted /\ UNCHANGED <<dir, styrn, spare>>

OtherDirectory ==
  /\ Others
  /\ \/ dir = "absent" /\ dir' = "ready" /\ path' = path
     \/ dir = "ready" /\ dir' = "conflict" /\ path' = path
     \/ dir = "ready" /\ dir' = dir /\ path # None /\ path' = None
  /\ UNCHANGED <<files, editor, granted>>

KeysInit ==
  /\ dir \in {"absent", "ready"}
  /\ path = None /\ files = <<>>
  /\ styrn = NoAttempt /\ editor = None /\ granted = FALSE
  /\ spare = [attempts |-> MaxAttempts, edits |-> MaxEdits, short |-> MaxShortWrites]

KeysNext == Setup \/ OtherAppends \/ EditorReads \/ EditorSaves \/ OtherDirectory

KeysSpec == KeysInit /\ [][KeysNext]_keysVars

(***************************************************************************)
(* Setup takes nothing away: a step of it leaves every line there was as   *)
(* it was, in every file, and names no other file where one was named. And *)
(* it does not claim what is not so: an attempt that says the keys are     *)
(* applied wrote before a time at which sshd would have accepted them all. *)
(***************************************************************************)
KeysOnlyAdded ==
  [][/\ styrn' # styrn =>
          /\ \A f \in DOMAIN files : IsPrefix(files[f].lines, files'[f].lines)
          /\ path # None => path' = path
     /\ styrn'.at = "applied" => granted]_keysVars
=============================================================================
