-------------------------- MODULE MCObjectVersions --------------------------
(* ObjectVersions on a small instance. *)
EXTENDS ObjectVersions, TLC

Symmetry == Permutations(Requests)
=============================================================================
