-------------------------------- MODULE MCSetup --------------------------------
(***************************************************************************)
(* Small instances of Setup for TLC: one worker directory, one file        *)
(* (authorized_keys), one tool a human must install and the enrollment     *)
(* card.                                                                   *)
(***************************************************************************)
EXTENDS Setup, TLC

CONSTANTS dir, file, tool, card,   \* actions
          k1, k2,                  \* parameters
          p1, p2                   \* processes

\* Setup processes are interchangeable; the safety runs may use it.
Symmetry == Permutations(Procs)

Dir == [action |-> dir, param |-> k1, human |-> FALSE]
File(k) == [action |-> file, param |-> k, human |-> FALSE]
Tool == [action |-> tool, param |-> k1, human |-> TRUE]
CardItem(pending) == [action |-> card, param |-> k1, human |-> pending]

\* The card comes, goes and is not asked for: epochs in which it recurs.  With
\* the tool in its place the pending actions differ and their number does not.
RecurringPlans == {<<Dir, CardItem(TRUE)>>, <<Tool>>}

\* Two keys for one file, and a plan that does not mention the directory.
FaultPlans == {<<Dir, File(k1)>>, <<File(k2)>>}

\* The same setup, asked for again and again.
SamePlan == {<<Dir, Tool>>}

OnlyDir == {<<Dir>>}

=============================================================================
