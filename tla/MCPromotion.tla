------------------------------ MODULE MCPromotion ------------------------------
(***************************************************************************)
(* Small instances of Promotion for TLC.                                   *)
(***************************************************************************)
EXTENDS Promotion

CONSTANTS p1, p2, i1, i2
=============================================================================
