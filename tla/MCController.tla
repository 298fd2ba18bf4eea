------------------------------ MODULE MCController ------------------------------
(***************************************************************************)
(* Small instances of Controller for TLC.  An alias may equal an address,  *)
(* and a worker may bear the name of another one.                          *)
(***************************************************************************)
EXTENDS Controller, TLC

CONSTANTS p1, p2, a1, a2, m1, m2, m3

Symmetry == Permutations(Procs)
=============================================================================
