----------------------------- MODULE WorkerResource -----------------------------
(***************************************************************************)
(* What ApplyPlan takes for granted of a worker directory and of the       *)
(* journal beside it: every operation of the platform in one step.         *)
(* WorkerNode, where each takes many, is shown to implement this.          *)
(***************************************************************************)
EXTENDS Naturals

VARIABLES keeps,   \* whether the system keeps creation evidence
          res,     \* the resource, as in SetupState
          journal, \* the intent on disk: "none", "prepared" or "succeeded"
          made,    \* history: a directory was created under the intent
          others   \* how often others changed the resource

resourceVars == <<keeps, res, journal, made, others>>

Untouched == UNCHANGED <<res, made>>

\* The intent is prepared after a check that saw nothing there.
Prepare == journal = "none" /\ ~made /\ journal' = "prepared" /\ Untouched

\* Only under an intent, and never half visible: done at once where no evidence is
\* kept, and a conflict until retirement elsewhere, even of what others have made
\* there since the check.
Create ==
  /\ journal = "prepared" /\ made' = TRUE /\ UNCHANGED journal
  /\ \/ keeps /\ res \in {"absent", "exact", "foreign"} /\ res' = "evidence"
     \/ ~keeps /\ res = "absent" /\ res' = "exact"

\* Only what was created under the intent is journalled as a success.
Succeed == journal = "prepared" /\ made /\ journal' = "succeeded" /\ Untouched

Retire == journal = "succeeded" /\ res = "evidence" /\ res' = "owned" /\ UNCHANGED <<journal, made>>

\* The intent is dropped when no active evidence needs it any more.
Forget ==
  /\ journal = "succeeded" /\ res # "evidence"
  /\ journal' = "none" /\ made' = FALSE /\ UNCHANGED res

Change ==
  /\ res' \in CASE res = "absent" -> {"exact", "foreign"}
                [] res \in {"exact", "foreign", "lost"} -> {"absent"}
                [] res = "evidence" -> {"lost", "absent"}
                [] res = "owned" -> {"lost"}
  /\ UNCHANGED <<journal, made>>

ResourceInit ==
  /\ keeps \in BOOLEAN /\ res = "absent" /\ journal = "none" /\ made = FALSE /\ others = 0

ResourceNext ==
  \/ /\ Prepare \/ Create \/ Succeed \/ Retire \/ Forget
     /\ UNCHANGED <<keeps, others>>
  \/ /\ Change \/ UNCHANGED <<res, journal, made>>
     /\ others' = others + 1 /\ UNCHANGED keeps

ResourceSpec == ResourceInit /\ [][ResourceNext]_resourceVars
=============================================================================
