------------------------------- MODULE HostTable -------------------------------
(***************************************************************************)
(* What the controller's inventory promises to the commands that use it:   *)
(* one table of enrolled hosts.  A host is added only where neither its    *)
(* alias nor its machine id is taken; the only thing that ever changes of  *)
(* a host is the pinned key, by a compare-and-swap against the record the  *)
(* command looked at.  There are no files, locks, crashes or failures.     *)
(***************************************************************************)
CONSTANTS None, Procs, Hosts   \* Hosts: the records [name, mid, addr, pin]

VARIABLES table,  \* the enrolled hosts
          view    \* for each command the record it looked at, or None

Init == table = {} /\ view = [p \in Procs |-> None]

Look(p) ==
  /\ \E record \in table \cup {None} : view' = [view EXCEPT ![p] = record]
  /\ UNCHANGED table

\* The command that writes may be over with it.
Done(p) == view' = view \/ view' = [view EXCEPT ![p] = None]

Enroll(p) ==
  /\ \E host \in Hosts :
       /\ \A other \in table : other.name # host.name /\ other.mid # host.mid
       /\ table' = table \cup {host}
  /\ Done(p)

Trust(p) ==
  /\ view[p] \in table
  /\ \E host \in Hosts :
       /\ host = [view[p] EXCEPT !.pin = host.pin]
       /\ table' = (table \ {view[p]}) \cup {host}
  /\ Done(p)

Next == \E p \in Procs : Look(p) \/ Enroll(p) \/ Trust(p)

Spec == Init /\ [][Next]_<<table, view>>
=============================================================================
