---------------------------- MODULE MCManifestStore ----------------------------
(***************************************************************************)
(* Small instances of ManifestStore for TLC.                               *)
(***************************************************************************)
EXTENDS ManifestStore, TLC

CONSTANTS s1, s2, init, u1, low, high, old, new

\* Servers are interchangeable, and so are policies and detected facts.
Symmetry == Permutations(Servers) \cup Permutations(Policies) \cup Permutations(Facts)
=============================================================================
