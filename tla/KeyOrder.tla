------------------------------ MODULE KeyOrder ------------------------------
(***************************************************************************)
(* Object keys as the tree and the listings compare them: sequences of     *)
(* bytes.                                                                  *)
(***************************************************************************)
EXTENDS Integers, Sequences

(* The order of keys: bytewise, a prefix first. *)
Less(a, b) ==
  \/ Len(a) < Len(b) /\ \A i \in 1..Len(a) : a[i] = b[i]
  \/ \E i \in 1..Len(a) : /\ i <= Len(b) /\ a[i] < b[i]
                          /\ \A j \in 1..(i - 1) : a[j] = b[j]

AtMost(a, b) == a = b \/ Less(a, b)

StartsWith(k, prefix) == Len(prefix) <= Len(k) /\ SubSeq(k, 1, Len(prefix)) = prefix

(* countPrefixLen *)
PrefixLen(a, b) ==
  CHOOSE n \in 0..Len(a) :
    /\ n <= Len(b) /\ \A i \in 1..n : a[i] = b[i]
    /\ n = Len(a) \/ n = Len(b) \/ a[n + 1] # b[n + 1]

(* The part of a key that a block spells out after the key before it, and *)
(* the key put together again (serializeNodeData, deserializeNodeData).   *)
Suffix(before, k) == SubSeq(k, PrefixLen(before, k) + 1, Len(k))
Joined(before, n, suffix) == SubSeq(before, 1, n) \o suffix
=============================================================================
