------------------------------ MODULE PrivateFile ------------------------------
(***************************************************************************)
(* Private files of styrn, as src/platform publishes and removes them: the *)
(* names of one directory, as programs see them now and as a loss of power *)
(* leaves them, and the system calls of a publication that never replaces. *)
(* Receipts, sidecars, authorized_keys, replays and controller keys are    *)
(* all published this way.                                                 *)
(***************************************************************************)
EXTENDS NoValue, Naturals, Sequences

CONSTANT Torn      \* the content of a file whose data never reached the disk

(***************************************************************************)
(* A directory: now and disk map each name to a file or None, data maps    *)
(* each file to its content, and synced has the files whose data is on     *)
(* disk.                                                                   *)
(***************************************************************************)
EmptyDirectory(names) ==
  [now |-> [n \in names |-> None], disk |-> [n \in names |-> None],
   data |-> <<>>, synced |-> {}]

Has(dir, name) == dir.now[name] # None
Content(dir, name) == IF Has(dir, name) THEN dir.data[dir.now[name]] ELSE None
Bound(dir, name, file) == [dir EXCEPT !.now[name] = file]

\* create_private_file: an exclusive creation, and the writes that follow.
Create(dir, name, content) ==
  [Bound(dir, name, Len(dir.data) + 1) EXCEPT !.data = Append(@, content)]

\* sync_all of the handle.
SyncData(dir, name) == [dir EXCEPT !.synced = @ \cup {dir.now[name]}]

\* File::sync_all of the directory; sync_parent_directory does nothing on
\* windows, where the moves write through.
SyncNames(dir) == [dir EXCEPT !.disk = dir.now]
SyncParent(os, dir) == IF os = "windows" THEN dir ELSE SyncNames(dir)

\* A loss of power keeps or loses every change of a name that was not synced,
\* and the data of every file that was not.
AfterPowerLoss(dir) ==
  {[now |-> names, disk |-> names, synced |-> dir.synced,
    data |-> [f \in DOMAIN dir.data |-> IF f \in dir.synced THEN dir.data[f] ELSE Torn]] :
     names \in {m \in [DOMAIN dir.now -> {None} \cup DOMAIN dir.data] :
                  \A n \in DOMAIN m : m[n] \in {dir.now[n], dir.disk[n]}}}

(***************************************************************************)
(* The calls of publish_private_file_no_replace.                           *)
(***************************************************************************)
LinuxRemoval == <<"bury", "unlink">>
MacosRemoval == LinuxRemoval            \* renameatx_np in the place of renameat2
LinuxPublication == <<"verify_temporary", "link", "sync", "verify_destination">>
                    \o LinuxRemoval \o <<"sync">>
MacosPublication == <<"verify_temporary", "link", "sync", "verify_destination">>
                    \o MacosRemoval \o <<"sync">>
WindowsPublication == <<"verify_temporary", "move", "verify_destination">>

Publication(os) == CASE os = "linux" -> LinuxPublication
                     [] os = "macos" -> MacosPublication
                     [] os = "windows" -> WindowsPublication

\* A call that must find the destination free answers AlreadyExists otherwise.
Refused(dir, call, to) == call \in {"link", "move"} /\ Has(dir, to)

\* The identity of the temporary was taken from the handle that made it.
CallSucceeds(dir, call, from, to, file) ==
  CASE call = "verify_temporary" -> dir.now[from] = file
    [] call = "verify_destination" -> dir.now[to] = file
    [] call = "bury" -> dir.now[from] = file
    [] OTHER -> ~ Refused(dir, call, to)

\* The directory after the call. A buried file has a name nobody looks for.
AfterCall(dir, call, from, to) ==
  CASE call = "link" -> Bound(dir, to, dir.now[from])
    [] call = "bury" -> Bound(dir, from, None)
    [] call = "sync" -> SyncNames(dir)
    [] call = "move" -> [Bound(Bound(dir, to, dir.now[from]), from, None)
                           EXCEPT !.disk[to] = dir.now[from], !.disk[from] = None]
    [] OTHER -> dir
=============================================================================
