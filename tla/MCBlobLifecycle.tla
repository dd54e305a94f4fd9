-------------------------- MODULE MCBlobLifecycle --------------------------
(* Small instances for TLC.                                                *)
EXTENDS BlobLifecycle, TLC

CONSTANTS s1, k1, k2

\* Two versions in one space.
MCOneSpace == (k1 :> s1) @@ (k2 :> s1)

\* One version.
MCOneKey == k1 :> s1

MCSymmetry == Permutations(Writers)
=============================================================================
