---------------------------- MODULE MCSessionStore ----------------------------
(* Instances of SessionStore for TLC.                                       *)
EXTENDS SessionStore, TLC

\* Windows are alike; no property of a run with this symmetry is temporal.
Symmetry == Permutations(Windows)
=============================================================================
