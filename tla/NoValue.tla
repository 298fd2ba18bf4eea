------------------------------- MODULE NoValue -------------------------------
(***************************************************************************)
(* What is not there: an Option without a value, a file that is missing.   *)
(* Modules that are composed by extending them share it.                   *)
(***************************************************************************)
CONSTANT None
=============================================================================
