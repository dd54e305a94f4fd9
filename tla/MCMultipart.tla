---------------------------- MODULE MCMultipart ----------------------------
(* Multipart on a small instance. *)
EXTENDS Multipart, TLC

Symmetry == Permutations(Sessions) \cup Permutations(Numbers) \cup Permutations(Requests)
            \cup Permutations(Digests) \cup Permutations(Tasks)
=============================================================================
