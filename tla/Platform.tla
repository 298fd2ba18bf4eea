------------------------------- MODULE Platform -------------------------------
(***************************************************************************)
(* The operating system that styrn runs on: it never changes, and every    *)
(* component of src/src/platform goes by it.                               *)
(***************************************************************************)
VARIABLE platform
=============================================================================
