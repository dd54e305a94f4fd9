------------------------- MODULE ObjectListingProofs -------------------------
(***************************************************************************)
(* Proofs about ObjectListing: that keys are in a total order in which the *)
(* keys with a prefix are next to each other and common prefixes keep the  *)
(* order, that a page is exact for the root it reads, and that the pages   *)
(* of a listing together repeat and miss nothing.                          *)
(***************************************************************************)
EXTENDS ObjectListing, TLAPS, SequenceTheorems, NaturalsInduction, WellFoundedInduction

-----------------------------------------------------------------------------
(* The order of keys. *)

Strings == Seq(Nat)

\* Two keys part at their first different byte, or one goes on where the other ends.
Parts(a, b, i) == i \in 1..Len(a) /\ i <= Len(b) /\ a[i] < b[i] /\ \A j \in 1..(i - 1) : a[j] = b[j]
GoesOn(a, b) == Len(a) < Len(b) /\ \A i \in 1..Len(a) : a[i] = b[i]

LEMMA LessCases ==
    ASSUME NEW a, NEW b
    PROVE  Less(a, b) <=> (GoesOn(a, b) \/ \E i \in 1..Len(a) : Parts(a, b, i))
BY DEF Less, GoesOn, Parts

\* A set of naturals that is not empty has a least element.
LEMMA LeastOf ==
    ASSUME NEW S \in SUBSET Nat, S # {}
    PROVE  \E m \in S : \A x \in S : m <= x
<1>1. PICK m \in S : \A y \in S : ~(<<y, m>> \in OpToRel(<, Nat))
  BY NatLessThanWellFounded, WFMin
<1>2. \A y \in S : ~(y < m)
  BY <1>1 DEF OpToRel
<1>3. m \in Nat /\ \A y \in S : y \in Nat
  BY <1>1
<1>4. \A y \in S : m <= y
  BY <1>2, <1>3
<1>5. QED
  BY <1>1, <1>4

LEMMA LessIrreflexive ==
    ASSUME NEW a \in Strings
    PROVE  ~Less(a, a)
BY LessCases DEF GoesOn, Parts, Strings

LEMMA LessTransitive ==
    ASSUME NEW a \in Strings, NEW b \in Strings, NEW c \in Strings, Less(a, b), Less(b, c)
    PROVE  Less(a, c)
<1> DEFINE A(i) == i \in 1..Len(a) /\ Parts(a, b, i)
           B(i) == i \in 1..Len(b) /\ Parts(b, c, i)
<1>0. /\ Len(a) \in Nat /\ Len(b) \in Nat /\ Len(c) \in Nat
      /\ \A i \in 1..Len(a) : a[i] \in Nat
      /\ \A i \in 1..Len(b) : b[i] \in Nat
      /\ \A i \in 1..Len(c) : c[i] \in Nat
  BY DEF Strings
<1>1. CASE GoesOn(a, b) /\ GoesOn(b, c)
  <2>1. GoesOn(a, c)
    BY <1>0, <1>1 DEF GoesOn
  <2>2. QED
    BY <2>1, LessCases
<1>2. CASE GoesOn(a, b) /\ \E i \in 1..Len(b) : Parts(b, c, i)
  <2>1. PICK i \in 1..Len(b) : Parts(b, c, i)
    BY <1>2
  <2>2. CASE i <= Len(a)
    <3>1. Parts(a, c, i)
      BY <1>0, <1>2, <2>1, <2>2 DEF GoesOn, Parts
    <3>2. QED
      BY <3>1, <2>2, <2>1, <1>0, LessCases DEF Parts
  <2>3. CASE i > Len(a)
    <3>1. GoesOn(a, c)
      BY <1>0, <1>2, <2>1, <2>3 DEF GoesOn, Parts
    <3>2. QED
      BY <3>1, LessCases
  <2>4. QED
    BY <2>2, <2>3, <2>1, <1>0
<1>3. CASE (\E i \in 1..Len(a) : Parts(a, b, i)) /\ GoesOn(b, c)
  <2>1. PICK i \in 1..Len(a) : Parts(a, b, i)
    BY <1>3
  <2>2. Parts(a, c, i)
    BY <1>0, <1>3, <2>1 DEF GoesOn, Parts
  <2>3. QED
    BY <2>1, <2>2, LessCases
<1>4. CASE (\E i \in 1..Len(a) : Parts(a, b, i)) /\ (\E i \in 1..Len(b) : Parts(b, c, i))
  <2>1. PICK i \in 1..Len(a) : Parts(a, b, i)
    BY <1>4
  <2>2. PICK j \in 1..Len(b) : Parts(b, c, j)
    BY <1>4
  <2>3. CASE i <= j
    <3>1. Parts(a, c, i)
      BY SMTT(30), <1>0, <2>1, <2>2, <2>3 DEF Parts
    <3>2. QED
      BY <2>1, <3>1, LessCases
  <2>4. CASE j < i
    <3>1. Parts(a, c, j)
      BY <1>0, <2>1, <2>2, <2>4 DEF Parts
    <3>2. QED
      BY <3>1, LessCases DEF Parts
  <2>5. QED
    BY <2>3, <2>4, <2>1, <2>2, <1>0
<1>5. QED
  BY <1>1, <1>2, <1>3, <1>4, LessCases

LEMMA LessTotal ==
    ASSUME NEW a \in Strings, NEW b \in Strings
    PROVE  a = b \/ Less(a, b) \/ Less(b, a)
<1>0. /\ Len(a) \in Nat /\ Len(b) \in Nat
      /\ \A i \in 1..Len(a) : a[i] \in Nat
      /\ \A i \in 1..Len(b) : b[i] \in Nat
  BY DEF Strings
<1> DEFINE S == {i \in Nat : 1 <= i /\ i <= Len(a) /\ i <= Len(b) /\ a[i] # b[i]}
<1>1. CASE S = {}
  <2>1. \A i \in Nat : 1 <= i /\ i <= Len(a) /\ i <= Len(b) => a[i] = b[i]
    BY <1>1
  <2>2. CASE Len(a) = Len(b)
    <3>1. a = b
      BY <2>1, <2>2, <1>0, SeqEqual DEF Strings
    <3>2. QED
      BY <3>1
  <2>3. CASE Len(a) < Len(b)
    BY <2>1, <2>3, <1>0, LessCases DEF GoesOn
  <2>4. CASE Len(b) < Len(a)
    BY <2>1, <2>4, <1>0, LessCases DEF GoesOn
  <2>5. QED
    BY <2>2, <2>3, <2>4, <1>0
<1>2. CASE S # {}
  <2>1. PICK m \in S : \A x \in S : m <= x
    BY <1>2, LeastOf
  <2>2. /\ m \in 1..Len(a) /\ m \in 1..Len(b) /\ a[m] # b[m]
        /\ \A j \in 1..(m - 1) : a[j] = b[j]
    BY <2>1, <1>0
  <2>3. Parts(a, b, m) \/ Parts(b, a, m)
    BY <2>2, <1>0 DEF Parts
  <2>4. QED
    BY <2>2, <2>3, LessCases
<1>3. QED
  BY <1>1, <1>2

LEMMA AtMostLess ==
    ASSUME NEW a \in Strings, NEW b \in Strings, NEW c \in Strings
    PROVE  /\ AtMost(a, b) /\ Less(b, c) => Less(a, c)
           /\ Less(a, b) /\ AtMost(b, c) => Less(a, c)
           /\ AtMost(a, b) /\ AtMost(b, c) => AtMost(a, c)
           /\ ~(Less(a, b) /\ AtMost(b, a))
           /\ AtMost(a, b) \/ Less(b, a)
BY LessTransitive, LessIrreflexive, LessTotal DEF AtMost

-----------------------------------------------------------------------------
(* Keys in blocks. *)

\* Two keys have a length up to which they agree and after which they do not.
LEMMA PrefixLenIs ==
    ASSUME NEW a \in Strings, NEW b \in Strings
    PROVE  /\ PrefixLen(a, b) \in Nat /\ PrefixLen(a, b) <= Len(a) /\ PrefixLen(a, b) <= Len(b)
           /\ \A i \in 1..PrefixLen(a, b) : a[i] = b[i]
<1>0. Len(a) \in Nat /\ Len(b) \in Nat
  BY DEF Strings
<1> DEFINE Ends(n) == n = Len(a) \/ n = Len(b) \/ a[n + 1] # b[n + 1]
           S == {n \in Nat : n <= Len(a) /\ n <= Len(b) /\ Ends(n)}
<1>1. S # {}
  <2>1. CASE Len(a) <= Len(b)
    <3>1. Len(a) \in S
      BY <1>0, <2>1
    <3>2. QED
      BY <3>1
  <2>2. CASE Len(b) <= Len(a)
    <3>1. Len(b) \in S
      BY <1>0, <2>2
    <3>2. QED
      BY <3>1
  <2>3. QED
    BY <1>0, <2>1, <2>2
<1>2. PICK n \in S : \A m \in S : n <= m
  <2>1. S \in SUBSET Nat
    OBVIOUS
  <2> HIDE DEF S
  <2>2. QED
    BY <1>1, <2>1, LeastOf
<1>3. n \in Nat /\ n <= Len(a) /\ n <= Len(b) /\ Ends(n)
  BY <1>2
<1>4. ASSUME NEW i \in 1..n PROVE a[i] = b[i]
  <2>1. i - 1 \in Nat /\ i - 1 < n /\ (i - 1) + 1 = i
    BY <1>3
  <2>2. i - 1 \notin S
    BY <1>2, <1>3, <2>1
  <2>3. QED
    BY <1>0, <1>3, <2>1, <2>2
<1> DEFINE Fits(m) == /\ m <= Len(b) /\ \A i \in 1..m : a[i] = b[i]
                      /\ m = Len(a) \/ m = Len(b) \/ a[m + 1] # b[m + 1]
<1>5. n \in 0..Len(a) /\ Fits(n)
  BY <1>0, <1>3, <1>4
<1>6. PrefixLen(a, b) = CHOOSE m \in 0..Len(a) : Fits(m)
  BY DEF PrefixLen
<1>7. PrefixLen(a, b) \in 0..Len(a) /\ Fits(PrefixLen(a, b))
  <2> HIDE DEF Fits
  <2> QED
    BY <1>5, <1>6
<1>8. QED
  BY <1>0, <1>7

\* A key written after another as the length they share and the rest is read
\* back as it was (serializeNodeData, deserializeNodeData).
THEOREM KeysRoundTrip ==
    \A before, k \in Strings : Joined(before, PrefixLen(before, k), Suffix(before, k)) = k
<1> SUFFICES ASSUME NEW before \in Strings, NEW k \in Strings
             PROVE  Joined(before, PrefixLen(before, k), Suffix(before, k)) = k
  OBVIOUS
<1>0. Len(before) \in Nat /\ Len(k) \in Nat /\ before \in Seq(Nat) /\ k \in Seq(Nat)
  BY DEF Strings
<1>1. PICK p : p = PrefixLen(before, k)
  OBVIOUS
<1>2. p \in Nat /\ p <= Len(before) /\ p <= Len(k) /\ \A i \in 1..p : before[i] = k[i]
  BY <1>1, PrefixLenIs
<1>3. PICK s : s = SubSeq(before, 1, p)
  OBVIOUS
<1>4. s \in Seq(Nat) /\ Len(s) = p /\ \A i \in 1..p : s[i] = before[i]
  BY <1>0, <1>2, <1>3, SubSeqProperties
<1>5. PICK t : t = SubSeq(k, p + 1, Len(k))
  OBVIOUS
<1>6. t \in Seq(Nat) /\ Len(t) = Len(k) - p /\ \A i \in 1..(Len(k) - p) : t[i] = k[p + i]
  <2>1. p + 1 \in 1..(Len(k) + 1) /\ Len(k) \in p..Len(k)
    BY <1>0, <1>2
  <2>2. t \in Seq(Nat) /\ Len(t) = Len(k) - p
    BY <1>0, <1>2, <1>5, <2>1, SubSeqProperties
  <2>3. ASSUME NEW i \in 1..(Len(k) - p) PROVE t[i] = k[p + i]
    <3>1. i \in 1..(Len(k) - (p + 1) + 1) /\ p + 1 + i - 1 = p + i
      BY <1>0, <1>2
    <3>2. t[i] = k[p + 1 + i - 1]
      BY <1>0, <1>5, <2>1, <3>1, SubSeqProperties
    <3>3. QED
      BY <3>1, <3>2
  <2>4. QED
    BY <2>2, <2>3
<1>7. PICK u : u = s \o t
  OBVIOUS
<1>8. u \in Seq(Nat) /\ Len(u) = Len(k)
      /\ \A i \in 1..Len(k) : u[i] = IF i <= p THEN s[i] ELSE t[i - p]
  BY SMTT(30), <1>0, <1>2, <1>4, <1>6, <1>7, ConcatProperties
<1>9. ASSUME NEW i \in 1..Len(k) PROVE u[i] = k[i]
  <2>1. CASE i <= p
    <3>1. i \in 1..p
      BY <1>0, <1>2, <2>1
    <3>2. QED
      BY <1>2, <1>4, <1>8, <2>1, <3>1
  <2>2. CASE i > p
    <3>1. i - p \in 1..(Len(k) - p) /\ p + (i - p) = i /\ ~(i <= p)
      BY <1>0, <1>2, <2>2
    <3>2. QED
      BY <1>6, <1>8, <3>1
  <2>3. QED
    BY <1>0, <1>2, <2>1, <2>2
<1>10. u = k
  BY <1>0, <1>8, <1>9, SeqEqual
<1>11. QED
  BY <1>1, <1>3, <1>5, <1>7, <1>10 DEF Joined, Suffix

-----------------------------------------------------------------------------
(* Prefixes. *)

\* A key starts with a prefix that agrees with it byte by byte.
LEMMA StartsWithBytes ==
    ASSUME NEW k \in Strings, NEW p \in Strings
    PROVE  StartsWith(k, p) <=> (Len(p) <= Len(k) /\ \A i \in 1..Len(p) : k[i] = p[i])
<1>0. Len(p) \in Nat /\ Len(k) \in Nat
  BY DEF Strings
<1>1. ASSUME Len(p) <= Len(k)
      PROVE  /\ SubSeq(k, 1, Len(p)) \in Strings /\ Len(SubSeq(k, 1, Len(p))) = Len(p)
             /\ \A i \in 1..Len(p) : SubSeq(k, 1, Len(p))[i] = k[i]
  BY <1>0, <1>1, SubSeqProperties DEF Strings
<1>2. ASSUME StartsWith(k, p)
      PROVE  \A i \in 1..Len(p) : k[i] = p[i]
  BY <1>1, <1>2, <1>0 DEF StartsWith
<1>3. ASSUME Len(p) <= Len(k), \A i \in 1..Len(p) : k[i] = p[i]
      PROVE  StartsWith(k, p)
  <2>1. SubSeq(k, 1, Len(p)) = p
    BY <1>0, <1>1, <1>3, SeqEqual DEF Strings
  <2>2. QED
    BY <2>1, <1>3 DEF StartsWith
<1>4. QED
  BY <1>2, <1>3 DEF StartsWith

LEMMA PrefixFirst ==
    ASSUME NEW k \in Strings, NEW p \in Strings, StartsWith(k, p)
    PROVE  AtMost(p, k)
<1>0. Len(p) \in Nat /\ Len(k) \in Nat
  BY DEF Strings
<1>1. Len(p) <= Len(k) /\ \A i \in 1..Len(p) : k[i] = p[i]
  BY StartsWithBytes
<1>2. CASE Len(p) = Len(k)
  <2>1. p = k
    BY <1>0, <1>1, <1>2, SeqEqual DEF Strings
  <2>2. QED
    BY <2>1 DEF AtMost
<1>3. CASE Len(p) < Len(k)
  BY <1>0, <1>1, <1>3, LessCases DEF GoesOn, AtMost
<1>4. QED
  BY <1>0, <1>1, <1>2, <1>3

\* The keys with a prefix are next to each other.
LEMMA PrefixContiguous ==
    ASSUME NEW p \in Strings, NEW k \in Strings, NEW x \in Strings,
           AtMost(p, k), Less(k, x), StartsWith(x, p)
    PROVE  StartsWith(k, p)
<1>0. /\ Len(p) \in Nat /\ Len(k) \in Nat /\ Len(x) \in Nat
      /\ \A i \in 1..Len(p) : p[i] \in Nat
      /\ \A i \in 1..Len(k) : k[i] \in Nat
      /\ \A i \in 1..Len(x) : x[i] \in Nat
  BY DEF Strings
<1>1. Len(p) <= Len(x) /\ \A i \in 1..Len(p) : x[i] = p[i]
  BY StartsWithBytes
<1>2. CASE p = k
  BY <1>2, <1>0, StartsWithBytes
<1>3. CASE GoesOn(p, k)
  BY <1>3, <1>0, StartsWithBytes DEF GoesOn
<1>4. CASE \E i \in 1..Len(p) : Parts(p, k, i)
  <2>1. PICK i \in 1..Len(p) : Parts(p, k, i)
    BY <1>4
  <2>2. Parts(x, k, i)
    BY <2>1, <1>1, <1>0 DEF Parts
  <2>3. Less(x, k)
    BY <2>2, LessCases DEF Parts
  <2>4. QED
    BY <2>3, AtMostLess DEF AtMost
<1>5. QED
  BY <1>2, <1>3, <1>4, LessCases DEF AtMost

\* A marker with a low byte appended is the first key after the marker.
LEMMA JustPast ==
    ASSUME NEW m \in Strings, NEW k \in Seq(Nat \ {0})
    PROVE  /\ Append(m, 1) \in Strings
           /\ Less(m, Append(m, 1))
           /\ Less(m, k) => AtMost(Append(m, 1), k)
<1> DEFINE a == Append(m, 1)
<1>0. /\ Len(m) \in Nat /\ Len(k) \in Nat
      /\ \A i \in 1..Len(m) : m[i] \in Nat
      /\ \A i \in 1..Len(k) : k[i] \in Nat /\ k[i] >= 1
      /\ k \in Strings
  BY DEF Strings
<1>1. /\ a \in Strings /\ Len(a) = Len(m) + 1 /\ a[Len(m) + 1] = 1
      /\ \A i \in 1..Len(m) : a[i] = m[i]
  BY AppendProperties DEF Strings
<1> HIDE DEF a
<1>2. Less(m, a)
  BY <1>0, <1>1, LessCases DEF GoesOn
<1>3. ASSUME Less(m, k) PROVE AtMost(a, k)
  <2>1. CASE GoesOn(m, k)
    <3>1. CASE Len(k) = Len(m) + 1 /\ k[Len(m) + 1] = 1
      <4>1. \A i \in 1..Len(a) : a[i] = k[i]
        BY <1>0, <1>1, <2>1, <3>1 DEF GoesOn
      <4>2. a = k
        BY <1>0, <1>1, <3>1, <4>1, SeqEqual DEF Strings
      <4>3. QED
        BY <4>2 DEF AtMost
    <3>2. CASE Len(k) > Len(m) + 1 /\ k[Len(m) + 1] = 1
      <4>1. GoesOn(a, k)
        BY <1>0, <1>1, <2>1, <3>2 DEF GoesOn
      <4>2. QED
        BY <4>1, LessCases DEF AtMost
    <3>3. CASE k[Len(m) + 1] > 1
      <4>1. Parts(a, k, Len(m) + 1)
        BY <1>0, <1>1, <2>1, <3>3 DEF GoesOn, Parts
      <4>2. QED
        BY <4>1, LessCases DEF AtMost, Parts
    <3>4. Len(k) >= Len(m) + 1 /\ k[Len(m) + 1] \in Nat /\ k[Len(m) + 1] >= 1
      BY <1>0, <2>1 DEF GoesOn
    <3>5. QED
      BY <1>0, <3>1, <3>2, <3>3, <3>4
  <2>2. CASE \E i \in 1..Len(m) : Parts(m, k, i)
    <3>1. PICK i \in 1..Len(m) : Parts(m, k, i)
      BY <2>2
    <3>2. Parts(a, k, i)
      BY <3>1, <1>0, <1>1 DEF Parts
    <3>3. QED
      BY <3>2, LessCases DEF AtMost, Parts
  <2>3. QED
    BY <1>3, <2>1, <2>2, LessCases
<1>4. QED
  BY <1>1, <1>2, <1>3 DEF a

-----------------------------------------------------------------------------
(* What keys are listed as. *)

Asked == req.prefix \in Strings /\ req.delimiter \in Strings

\* Where the delimiter ends, byte by byte.
LEMMA EndsBytes ==
    ASSUME Asked, NEW k \in Strings, NEW n \in Nat
    PROVE  n \in DelimiterEnds(k) <=>
             /\ Len(req.prefix) + Len(req.delimiter) <= n /\ n <= Len(k)
             /\ \A i \in 1..Len(req.delimiter) : k[n - Len(req.delimiter) + i] = req.delimiter[i]
<1> DEFINE D == req.delimiter
           d == Len(D)
           p == Len(req.prefix)
<1>0. d \in Nat /\ p \in Nat /\ Len(k) \in Nat /\ D \in Seq(Nat) /\ k \in Seq(Nat)
  BY DEF Asked, Strings
<1>1. n \in DelimiterEnds(k) <=> p + d <= n /\ n <= Len(k) /\ SubSeq(k, n - d + 1, n) = D
  BY <1>0 DEF DelimiterEnds
<1> DEFINE s == SubSeq(k, n - d + 1, n)
<1> HIDE DEF D, d, p
<1>2. ASSUME p + d <= n, n <= Len(k)
      PROVE  s \in Seq(Nat) /\ Len(s) = d /\ \A i \in 1..d : s[i] = k[n - d + i]
  <2>1. n - d + 1 \in 1..(Len(k) + 1) /\ n \in (n - d)..Len(k)
    BY <1>0, <1>2
  <2>2. s \in Seq(Nat) /\ Len(s) = d
    BY <1>0, <1>2, <2>1, SubSeqProperties
  <2>3. ASSUME NEW i \in 1..d PROVE s[i] = k[n - d + i]
    <3>1. i \in 1..(n - (n - d + 1) + 1) /\ n - d + 1 + i - 1 = n - d + i
      BY <1>0
    <3>2. s[i] = k[n - d + 1 + i - 1]
      BY <1>0, <2>1, <3>1, SubSeqProperties
    <3>3. QED
      BY <3>1, <3>2
  <2>4. QED
    BY <2>2, <2>3
<1> HIDE DEF s
<1>3. ASSUME p + d <= n, n <= Len(k)
      PROVE  s = D <=> \A i \in 1..d : k[n - d + i] = D[i]
  <2>1. s \in Seq(Nat) /\ Len(s) = d /\ \A i \in 1..d : s[i] = k[n - d + i]
    BY <1>2, <1>3
  <2>2. ASSUME s = D PROVE \A i \in 1..d : k[n - d + i] = D[i]
    BY <2>1, <2>2
  <2>3. ASSUME \A i \in 1..d : k[n - d + i] = D[i] PROVE s = D
    <3>1. Len(D) = d
      BY DEF d
    <3>2. QED
      BY <1>0, <2>1, <2>3, <3>1, SeqEqual
  <2>4. QED
    BY <2>2, <2>3
<1>4. QED
  BY <1>1, <1>3 DEF s, D, d, p

\* A delimiter ends within the key, after the prefix.
LEMMA EndsWithin ==
    ASSUME Asked, NEW k \in Strings, NEW n \in DelimiterEnds(k)
    PROVE  n \in Nat /\ Len(req.prefix) + Len(req.delimiter) <= n /\ n <= Len(k)
<1>1. PICK p \in Nat : p = Len(req.prefix)
  BY DEF Asked, Strings
<1>2. PICK d \in Nat : d = Len(req.delimiter)
  BY DEF Asked, Strings
<1>3. Len(k) \in Nat
  BY DEF Strings
<1>4. n \in (p + d)..Len(k)
  BY <1>1, <1>2 DEF DelimiterEnds
<1>5. n \in Nat /\ p + d <= n /\ n <= Len(k)
  BY <1>3, <1>4
<1>6. QED
  BY <1>1, <1>2, <1>5

\* Two keys that agree up to the end of a delimiter both have it there.
LEMMA SameEnds ==
    ASSUME Asked, NEW k \in Strings, NEW x \in Strings, NEW n \in DelimiterEnds(k),
           n <= Len(x), \A i \in 1..n : k[i] = x[i]
    PROVE  n \in DelimiterEnds(x)
<1> DEFINE d == Len(req.delimiter)
<1>a. d \in Nat /\ Len(req.prefix) \in Nat
  BY DEF Asked, Strings
<1>0. n \in Nat /\ d \in Nat /\ Len(req.prefix) \in Nat
  BY <1>a, EndsWithin
<1>1. /\ Len(req.prefix) + d <= n
      /\ \A i \in 1..d : k[n - d + i] = req.delimiter[i]
  BY <1>0, EndsBytes
<1> HIDE DEF d
<1>2. \A i \in 1..d : n - d + i \in 1..n
  BY <1>0, <1>1
<1>3. \A i \in 1..d : x[n - d + i] = req.delimiter[i]
  BY <1>1, <1>2
<1>4. QED
  BY <1>0, <1>1, <1>3, EndsBytes DEF d

Cut(k) == CHOOSE n \in DelimiterEnds(k) : \A m \in DelimiterEnds(k) : n <= m

\* A group's name is the key up to the end of the first delimiter.
LEMMA CutFirst ==
    ASSUME Asked, NEW k \in Strings, Grouped(k)
    PROVE  /\ Cut(k) \in DelimiterEnds(k) /\ \A m \in DelimiterEnds(k) : Cut(k) <= m
           /\ Cut(k) \in Nat /\ Len(req.prefix) < Cut(k) /\ Cut(k) <= Len(k)
           /\ CommonPrefix(k) \in Strings /\ Len(CommonPrefix(k)) = Cut(k)
           /\ \A i \in 1..Cut(k) : CommonPrefix(k)[i] = k[i]
<1>0. /\ Len(req.prefix) \in Nat /\ Len(req.delimiter) \in Nat /\ Len(k) \in Nat
      /\ Len(req.delimiter) > 0
  BY EmptySeq DEF Asked, Strings, Grouped, None
<1>1. DelimiterEnds(k) \subseteq Nat /\ DelimiterEnds(k) # {}
  BY EndsWithin DEF Grouped
<1>2. \E n \in DelimiterEnds(k) : \A m \in DelimiterEnds(k) : n <= m
  BY <1>1, LeastOf
<1>3. Cut(k) \in DelimiterEnds(k) /\ \A m \in DelimiterEnds(k) : Cut(k) <= m
  BY <1>2 DEF Cut
<1> HIDE DEF Cut
<1>4. Cut(k) \in Nat /\ Len(req.prefix) < Cut(k) /\ Cut(k) <= Len(k)
  <2>1. Cut(k) \in Nat /\ Len(req.prefix) + Len(req.delimiter) <= Cut(k) /\ Cut(k) <= Len(k)
    BY <1>3, EndsWithin
  <2>2. \A p, d, n, l \in Nat : d > 0 /\ p + d <= n /\ n <= l => p < n /\ n <= l
    OBVIOUS
  <2>3. QED
    BY <1>0, <2>1, <2>2, Zenon
<1>5. CommonPrefix(k) = SubSeq(k, 1, Cut(k))
  BY DEF CommonPrefix, Cut
<1>6. QED
  BY <1>0, <1>3, <1>4, <1>5, SubSeqProperties DEF Strings

\* The item of a key is where the key starts, and starts with the prefix.
LEMMA ItemStarts ==
    ASSUME Asked, NEW k \in Strings, k # << >>, StartsWith(k, req.prefix)
    PROVE  /\ Item(k) \in Strings /\ Item(k) # << >>
           /\ StartsWith(k, Item(k)) /\ StartsWith(Item(k), req.prefix)
           /\ AtMost(Item(k), k) /\ AtMost(req.prefix, Item(k))
<1>0. Len(req.prefix) \in Nat /\ Len(k) \in Nat /\ req.prefix \in Strings
  BY DEF Asked, Strings
<1>1. Len(req.prefix) <= Len(k) /\ \A i \in 1..Len(req.prefix) : k[i] = req.prefix[i]
  BY <1>0, StartsWithBytes
<1>2. /\ Item(k) \in Strings /\ Item(k) # << >>
      /\ StartsWith(k, Item(k)) /\ StartsWith(Item(k), req.prefix)
  <2>1. CASE ~Grouped(k)
    <3>1. Item(k) = k
      BY <2>1 DEF Item
    <3>2. StartsWith(k, k)
      BY <1>0, StartsWithBytes
    <3>3. QED
      BY <3>1, <3>2
  <2>2. CASE Grouped(k)
    <3>1. Item(k) = CommonPrefix(k)
      BY <2>2 DEF Item
    <3>2. /\ Cut(k) \in Nat /\ Len(req.prefix) < Cut(k) /\ Cut(k) <= Len(k)
          /\ CommonPrefix(k) \in Strings /\ Len(CommonPrefix(k)) = Cut(k)
          /\ \A i \in 1..Cut(k) : CommonPrefix(k)[i] = k[i]
      BY <2>2, CutFirst
    <3> HIDE DEF Cut
    <3>3. CommonPrefix(k) # << >>
      BY <1>0, <3>2
    <3>4. StartsWith(k, CommonPrefix(k))
      BY <3>2, StartsWithBytes
    <3>5. StartsWith(CommonPrefix(k), req.prefix)
      BY <1>0, <1>1, <3>2, StartsWithBytes
    <3>6. QED
      BY <3>1, <3>2, <3>3, <3>4, <3>5
  <2>3. QED
    BY <2>1, <2>2
<1>3. QED
  BY <1>0, <1>2, PrefixFirst

\* Keys in order are listed in order.
LEMMA ItemMonotone ==
    ASSUME Asked, NEW k \in Strings, NEW x \in Strings, k # << >>, x # << >>,
           StartsWith(k, req.prefix), StartsWith(x, req.prefix), Less(k, x)
    PROVE  AtMost(Item(k), Item(x))
<1>0. /\ Len(k) \in Nat /\ Len(x) \in Nat
      /\ \A i \in 1..Len(k) : k[i] \in Nat
      /\ \A i \in 1..Len(x) : x[i] \in Nat
  BY DEF Strings
<1>1. /\ Item(k) \in Strings /\ Item(x) \in Strings
      /\ Item(k) # << >> /\ StartsWith(k, Item(k)) /\ StartsWith(x, Item(x))
      /\ AtMost(Item(k), k)
  BY ItemStarts
<1> DEFINE a == Item(k)
           b == Item(x)
<1>2. /\ Len(a) \in Nat /\ Len(a) <= Len(k) /\ \A i \in 1..Len(a) : k[i] = a[i]
      /\ Len(b) \in Nat /\ Len(b) <= Len(x) /\ \A i \in 1..Len(b) : x[i] = b[i]
  <2>1. Len(a) \in Nat /\ Len(b) \in Nat
    BY <1>1 DEF Strings
  <2>2. QED
    BY <1>1, <2>1, StartsWithBytes
<1>3. Grouped(k) => /\ Len(a) \in DelimiterEnds(k) /\ \A m \in DelimiterEnds(k) : Len(a) <= m
  BY CutFirst DEF Item
<1>4. Grouped(x) => /\ Len(b) \in DelimiterEnds(x) /\ \A m \in DelimiterEnds(x) : Len(b) <= m
  BY CutFirst DEF Item
<1>5. ~Grouped(x) => b = x
  BY DEF Item
<1>6. ~Grouped(k) => a = k
  BY DEF Item
<1>7. \A y \in Strings : Grouped(y) <=> req.delimiter # None /\ DelimiterEnds(y) # {}
  BY DEF Grouped
<1> HIDE DEF a, b
\* Where b ends, a delimiter ends in k too, if the keys agree so far.
<1>8. ASSUME Grouped(x), Len(b) <= Len(k), \A i \in 1..Len(b) : x[i] = k[i]
      PROVE  Len(a) <= Len(b) /\ Grouped(k)
  <2>1. Len(b) \in DelimiterEnds(k)
    BY <1>4, <1>8, SameEnds
  <2>2. QED
    BY <1>3, <1>7, <1>8, <2>1
<1>9. ASSUME Grouped(k), Len(a) <= Len(x), \A i \in 1..Len(a) : x[i] = k[i]
      PROVE  Len(b) <= Len(a) /\ Grouped(x)
  <2>1. Len(a) \in DelimiterEnds(x)
    BY <1>3, <1>9, SameEnds
  <2>2. QED
    BY <1>4, <1>7, <1>9, <2>1
<1>10. CASE GoesOn(k, x)
  <2>1. \A i \in 1..Len(a) : x[i] = a[i]
    BY <1>10, <1>0, <1>2 DEF GoesOn
  <2>2. CASE Len(a) <= Len(b)
    <3>1. StartsWith(b, a)
      BY <1>0, <1>1, <1>2, <2>1, <2>2, StartsWithBytes DEF a, b
    <3>2. QED
      BY <1>1, <3>1, PrefixFirst DEF a, b
  <2>3. CASE Len(b) < Len(a)
    <3>1. Grouped(x)
      BY <1>0, <1>2, <1>5, <1>10, <2>3 DEF GoesOn
    <3>2. \A i \in 1..Len(b) : x[i] = k[i]
      BY <1>0, <1>2, <1>10, <2>3 DEF GoesOn
    <3>3. QED
      BY <1>0, <1>2, <1>8, <2>3, <3>1, <3>2
  <2>4. QED
    BY <1>2, <2>2, <2>3
<1>11. CASE \E i \in 1..Len(k) : Parts(k, x, i)
  <2>1. PICK i \in 1..Len(k) : Parts(k, x, i)
    BY <1>11
  <2>2. i \in Nat /\ i <= Len(k) /\ i <= Len(x) /\ 1 <= i /\ \A j \in 1..(i - 1) : k[j] = x[j]
    BY <2>1, <1>0 DEF Parts
  <2>3. CASE i <= Len(a) /\ i <= Len(b)
    <3>1. Parts(a, b, i)
      BY <1>2, <2>1, <2>2, <2>3, <1>0 DEF Parts
    <3>2. QED
      BY <3>1, LessCases DEF AtMost, Parts, a, b
  <2>4. CASE Len(a) < i
    <3>1. Grouped(k)
      BY <1>6, <1>0, <2>2, <2>4
    <3>2. \A j \in 1..Len(a) : x[j] = k[j]
      BY <1>2, <2>2, <2>4
    <3>3. Len(b) <= Len(a) /\ Grouped(x)
      BY <1>9, <1>2, <1>0, <2>2, <2>4, <3>1, <3>2
    <3>4. \A j \in 1..Len(b) : x[j] = k[j]
      BY <3>2, <3>3, <1>2
    <3>5. Len(a) <= Len(b)
      BY <1>8, <3>3, <3>4, <1>2, <2>2, <2>4
    <3>6. \A j \in 1..Len(a) : b[j] = a[j]
      BY <1>2, <3>2, <3>5
    <3>7. StartsWith(b, a)
      BY <3>5, <3>6, <1>1, StartsWithBytes DEF a, b
    <3>8. QED
      BY <3>7, <1>1, PrefixFirst DEF a, b
  <2>5. CASE Len(b) < i /\ i <= Len(a)
    <3>1. Grouped(x)
      BY <1>5, <1>0, <2>2, <2>5
    <3>2. \A j \in 1..Len(b) : x[j] = k[j]
      BY <1>2, <2>2, <2>5
    <3>3. QED
      BY <1>8, <1>2, <2>2, <2>5, <3>1, <3>2
  <2>6. QED
    BY <2>2, <2>3, <2>4, <2>5, <1>2
<1>12. QED
  BY <1>10, <1>11, LessCases

\* Two keys with one item: the later of them is in a group.
LEMMA SameItemGrouped ==
    ASSUME Asked, NEW k \in Strings, NEW x \in Strings, k # << >>, x # << >>,
           StartsWith(k, req.prefix), StartsWith(x, req.prefix), Less(k, x), Item(k) = Item(x)
    PROVE  Grouped(x)
<1>1. AtMost(Item(k), k)
  BY ItemStarts
<1>2. ~Grouped(x) => Item(x) = x
  BY DEF Item
<1>3. QED
  BY <1>1, <1>2, AtMostLess

-----------------------------------------------------------------------------
(* Pages as sequences. *)

\* What a key or a common prefix may be.
Names == Seq(Nat) \ {None}

LEMMA RangeIs ==
    ASSUME NEW s \in Seq(Names)
    PROVE  Len(s) \in Nat /\ Range(s) = {s[i] : i \in 1..Len(s)} /\ \A i \in 1..Len(s) : s[i] \in Names
BY RangeEquality, LenProperties, ElementOfSeq

LEMMA AppendIncreases ==
    ASSUME NEW s \in Seq(Names), NEW e \in Names, Increasing(s), \A x \in Range(s) : Less(x, e)
    PROVE  Increasing(Append(s, e))
<1>1. /\ Len(s) \in Nat /\ Len(Append(s, e)) = Len(s) + 1
      /\ \A i \in 1..Len(s) : Append(s, e)[i] = s[i]
      /\ Append(s, e)[Len(s) + 1] = e
  BY AppendProperties
<1> DEFINE t == Append(s, e)
<1> HIDE DEF t
<1>2. ASSUME NEW i \in 1..Len(t), NEW j \in 1..Len(t), i < j
      PROVE  Less(t[i], t[j])
  <2>1. i \in 1..Len(s)
    BY <1>1, <1>2 DEF t
  <2>2. CASE j \in 1..Len(s)
    BY <1>1, <1>2, <2>1, <2>2 DEF t, Increasing
  <2>3. CASE j = Len(s) + 1
    <3>1. s[i] \in Range(s)
      BY <2>1, RangeIs
    <3>2. QED
      BY <1>1, <2>1, <2>3, <3>1 DEF t
  <2>4. QED
    BY <1>1, <2>2, <2>3 DEF t
<1>3. QED
  BY <1>2 DEF Increasing, t

LEMMA AppendRange ==
    ASSUME NEW s \in Seq(Names), NEW e \in Names
    PROVE  Append(s, e) \in Seq(Names) /\ Range(Append(s, e)) = Range(s) \cup {e}
<1>1. /\ Append(s, e) \in Seq(Names) /\ Len(s) \in Nat /\ Len(Append(s, e)) = Len(s) + 1
      /\ \A i \in 1..Len(s) : Append(s, e)[i] = s[i]
      /\ Append(s, e)[Len(s) + 1] = e
  BY AppendProperties
<1> DEFINE t == Append(s, e)
<1>2. Range(t) = {t[i] : i \in 1..Len(t)} /\ Range(s) = {s[i] : i \in 1..Len(s)}
  BY <1>1, RangeIs
<1> HIDE DEF t
<1>3. ASSUME NEW x \in Range(t) PROVE x \in Range(s) \cup {e}
  <2>1. PICK i \in 1..Len(t) : x = t[i]
    BY <1>2
  <2>2. i \in 1..Len(s) \/ i = Len(s) + 1
    BY <1>1 DEF t
  <2>3. QED
    BY <1>1, <1>2, <2>1, <2>2 DEF t
<1>4. ASSUME NEW x \in Range(s) PROVE x \in Range(t)
  <2>1. PICK i \in 1..Len(s) : x = s[i]
    BY <1>2
  <2>2. i \in 1..Len(t) /\ t[i] = s[i]
    BY <1>1 DEF t
  <2>3. QED
    BY <1>2, <2>1, <2>2
<1>5. e \in Range(t)
  <2>1. Len(s) + 1 \in 1..Len(t) /\ t[Len(s) + 1] = e
    BY <1>1 DEF t
  <2>2. QED
    BY <1>2, <2>1
<1>6. QED
  BY <1>1, <1>3, <1>4, <1>5 DEF t

\* A page put after others that it comes after.
LEMMA ConcatIncreases ==
    ASSUME NEW s \in Seq(Names), NEW t \in Seq(Names), Increasing(s), Increasing(t),
           \A x \in Range(s), y \in Range(t) : Less(x, y)
    PROVE  Increasing(s \o t)
<1>1. /\ Len(s) \in Nat /\ Len(t) \in Nat /\ Len(s \o t) = Len(s) + Len(t)
      /\ \A i \in 1..(Len(s) + Len(t)) : (s \o t)[i] = IF i <= Len(s) THEN s[i] ELSE t[i - Len(s)]
  BY ConcatProperties, LenProperties
<1> DEFINE u == s \o t
<1> HIDE DEF u
<1>2. ASSUME NEW i \in 1..Len(u), NEW j \in 1..Len(u), i < j
      PROVE  Less(u[i], u[j])
  <2>1. CASE j <= Len(s)
    <3>1. i \in 1..Len(s) /\ j \in 1..Len(s) /\ u[i] = s[i] /\ u[j] = s[j]
      BY <1>1, <1>2, <2>1 DEF u
    <3>2. QED
      BY <1>2, <3>1 DEF Increasing
  <2>2. CASE i > Len(s)
    <3>1. /\ i - Len(s) \in 1..Len(t) /\ j - Len(s) \in 1..Len(t) /\ i - Len(s) < j - Len(s)
          /\ u[i] = t[i - Len(s)] /\ u[j] = t[j - Len(s)]
      BY <1>1, <1>2, <2>2 DEF u
    <3>2. QED
      BY <3>1 DEF Increasing
  <2>3. CASE i <= Len(s) /\ j > Len(s)
    <3>1. i \in 1..Len(s) /\ j - Len(s) \in 1..Len(t) /\ u[i] = s[i] /\ u[j] = t[j - Len(s)]
      BY <1>1, <1>2, <2>3 DEF u
    <3>2. s[i] \in Range(s) /\ t[j - Len(s)] \in Range(t)
      BY <3>1, RangeIs
    <3>3. QED
      BY <3>1, <3>2
  <2>4. QED
    BY <1>1, <2>1, <2>2, <2>3 DEF u
<1>3. QED
  BY <1>2 DEF Increasing, u

LEMMA ConcatRange ==
    ASSUME NEW s \in Seq(Names), NEW t \in Seq(Names)
    PROVE  s \o t \in Seq(Names) /\ Range(s \o t) = Range(s) \cup Range(t)
BY RangeConcatenation, ConcatProperties

\* The last of a sequence in order comes after the others.
LEMMA LastIsGreatest ==
    ASSUME NEW s \in Seq(Names), s # << >>, Increasing(s)
    PROVE  s[Len(s)] \in Range(s) /\ \A x \in Range(s) : AtMost(x, s[Len(s)])
<1>1. Len(s) \in Nat /\ Len(s) >= 1 /\ Range(s) = {s[i] : i \in 1..Len(s)}
  BY EmptySeq, RangeIs
<1>2. ASSUME NEW x \in Range(s) PROVE AtMost(x, s[Len(s)])
  <2>1. PICK i \in 1..Len(s) : x = s[i]
    BY <1>1
  <2>2. i = Len(s) \/ (i < Len(s) /\ Len(s) \in 1..Len(s))
    BY <1>1
  <2>3. QED
    BY <2>1, <2>2 DEF Increasing, AtMost
<1>3. QED
  BY <1>1, <1>2

-----------------------------------------------------------------------------
(* Types. *)

LEMMA KeyTyped ==
    ASSUME NEW k \in Keys
    PROVE  k \in Strings /\ k \in Seq(Nat \ {0}) /\ k # << >>
<1>1. k \in Seq(Nat \ {0}) /\ k # << >>
  BY KeysAssumption
<1>2. Seq(Nat \ {0}) \subseteq Seq(Nat)
  BY SeqMonotonic
<1>3. QED
  BY <1>1, <1>2 DEF Strings

LEMMA AskTyped ==
    ASSUME TypeOK
    PROVE  /\ Asked /\ req.prefix \in Strings /\ req.after \in Strings /\ req.limit \in Nat
           /\ marker \in Strings /\ From \in Strings
<1>1. /\ req.prefix \in Strings /\ req.delimiter \in Strings /\ req.after \in Strings
      /\ req.limit \in Nat /\ marker \in Strings
  BY AskedAssumption DEF TypeOK, Asks, Strings
<1>2. Append(marker, 1) \in Strings
  BY <1>1, AppendProperties DEF Strings
<1>3. QED
  BY <1>1, <1>2 DEF Asked, From

LEMMA ItemTyped ==
    ASSUME TypeOK, NEW k \in Keys, StartsWith(k, req.prefix)
    PROVE  Item(k) \in Names /\ Item(k) \in Strings
<1>1. Item(k) \in Strings /\ Item(k) # << >>
  BY AskTyped, KeyTyped, ItemStarts
<1>2. QED
  BY <1>1 DEF Names, None, Strings

LEMMA PageTyped ==
    ASSUME TypeOK
    PROVE  /\ page.rest \in SUBSET Keys /\ page.shown \in SUBSET Keys
           /\ page.items \in Seq(Names) /\ listed \in Seq(Names)
BY DEF TypeOK, Pages, Names

LEMMA BlankTyped == Blank \in Pages /\ Blank.items = << >>
<1>1. << >> \in Seq(Seq(Nat) \ {None}) /\ None \in Seq(Nat)
  BY DEF None
<1>2. QED
  BY <1>1 DEF Blank, Pages

LEMMA TypeStep ==
    ASSUME TypeOK, [Next]_vars
    PROVE  TypeOK'
<1>1. CASE UNCHANGED vars
  BY <1>1 DEF vars, TypeOK
<1>2. ASSUME NEW prefix \in Prefixes, NEW delimiter \in Delimiters, NEW after \in Markers,
             NEW limit \in Limits, StartListing(prefix, delimiter, after, limit)
      PROVE  TypeOK'
  <2>1. req' \in Asks
    BY <1>2 DEF StartListing, Asks
  <2>2. marker' \in Seq(Nat) /\ kept' \in SUBSET Keys /\ writes' \in 0..MaxWrites
    BY <1>2, AskedAssumption, BoundsAssumption DEF StartListing, Visible
  <2>3. page' \in Pages /\ listed' \in Seq(Seq(Nat) \ {None})
    BY <1>2, BlankTyped DEF StartListing
  <2>4. QED
    BY <1>2, <2>1, <2>2, <2>3 DEF StartListing, TypeOK
<1>3. CASE ListNothing
  BY <1>3, BlankTyped DEF ListNothing, TypeOK
<1>4. CASE BeginWalk
  <2>1. page' \in Pages
    <3>1. {k \in Present : AtMost(From, k)} \in SUBSET Keys /\ Visible \in SUBSET Keys
      BY DEF Present, Visible
    <3>2. page' = [Blank EXCEPT !.rest = {k \in Present : AtMost(From, k)}, !.shown = Visible]
      BY <1>4 DEF BeginWalk
    <3>3. QED
      BY <3>1, <3>2, BlankTyped DEF Pages
  <2>2. QED
    BY <1>4, <2>1 DEF BeginWalk, TypeOK
<1>5. CASE WalkEnds
  BY <1>5 DEF WalkEnds, TypeOK
<1>6. CASE PageFails
  BY <1>6, BlankTyped DEF PageFails, TypeOK
<1>7. CASE NextPage
  <2>1. listed' \in Seq(Names) /\ marker' \in Seq(Nat)
    BY <1>7, PageTyped, ConcatRange DEF NextPage, TypeOK, Pages
  <2>2. QED
    BY <1>7, <2>1, BlankTyped DEF NextPage, TypeOK, Names
<1>8. CASE LastPage
  <2>1. listed' \in Seq(Names)
    BY <1>8, PageTyped, ConcatRange DEF LastPage
  <2>2. QED
    BY <1>8, <2>1, BlankTyped DEF LastPage, TypeOK, Names
<1>9. ASSUME NEW k \in Keys, PastPrefix(k) PROVE TypeOK'
  <2>1. page' \in Pages
    BY <1>9 DEF PastPrefix, TypeOK, Pages
  <2>2. QED
    BY <1>9, <2>1 DEF PastPrefix, TypeOK
<1>10. ASSUME NEW k \in Keys, SkipLeaf(k) PROVE TypeOK'
  <2>1. page' \in Pages
    BY <1>10 DEF SkipLeaf, TypeOK, Pages
  <2>2. QED
    BY <1>10, <2>1 DEF SkipLeaf, TypeOK
<1>11. ASSUME NEW k \in Keys, PageFull(k) PROVE TypeOK'
  <2>1. page' \in Pages
    BY <1>11 DEF PageFull, TypeOK, Pages
  <2>2. QED
    BY <1>11, <2>1 DEF PageFull, TypeOK
<1>12. ASSUME NEW k \in Keys, ListLeaf(k) PROVE TypeOK'
  <2>1. PICK item \in Names : item = Item(k)
    BY <1>12, ItemTyped DEF ListLeaf
  <2>2. Append(page.items, item) \in Seq(Names)
    BY PageTyped, AppendRange
  <2>3. page' = [page EXCEPT !.rest = page.rest \ {k}, !.items = Append(page.items, item),
                             !.next = item]
    BY <1>12, <2>1 DEF ListLeaf
  <2>4. page' \in Pages
    BY <2>2, <2>3 DEF TypeOK, Pages, Names
  <2>5. QED
    BY <1>12, <2>4 DEF ListLeaf, TypeOK
<1>13. ASSUME NEW k \in Keys, NEW state \in States, Write(k, state) PROVE TypeOK'
  <2>1. bucket' \in [Keys -> States] /\ writes' \in 0..MaxWrites /\ kept' \in SUBSET Keys
    BY <1>13, BoundsAssumption DEF Write, TypeOK
  <2>2. QED
    BY <1>13, <2>1 DEF Write, TypeOK
<1>14. QED
  BY <1>1, <1>2, <1>3, <1>4, <1>5, <1>6, <1>7, <1>8, <1>9, <1>10, <1>11, <1>12, <1>13 DEF Next

LEMMA TypeInit == Init => TypeOK
<1> SUFFICES ASSUME Init PROVE TypeOK
  OBVIOUS
<1>1. req \in Asks /\ req.after \in Markers
  BY DEF Init, Asks
<1>2. marker \in Seq(Nat) /\ page \in Pages /\ listed \in Seq(Seq(Nat) \ {None})
  BY <1>1, AskedAssumption, BlankTyped DEF Init
<1>3. writes \in 0..MaxWrites /\ kept \in SUBSET Keys
  BY BoundsAssumption DEF Init, Visible
<1>4. QED
  BY <1>1, <1>2, <1>3 DEF Init, TypeOK

\* Every request, page and listing is well typed, whatever was asked for and
\* however the bucket changes; an item is never empty.
THEOREM TypesHold == Spec => []TypeOK
<1>1. Init => TypeOK
  BY TypeInit
<1>2. TypeOK /\ [Next]_vars => TypeOK'
  BY TypeStep
<1>3. QED
  BY <1>1, <1>2, PTL DEF Spec

-----------------------------------------------------------------------------
(* Within a page. *)

\* What a walk has listed, and what it still owes: the items come from keys
\* before the rest of the walk, and a wanted key is listed or still ahead.
WalkInv ==
  phase = "walk" =>
    /\ req.limit > 0 /\ Len(page.items) <= req.limit /\ ~page.truncated
    /\ \A k \in page.rest : AtMost(From, k)
    /\ \A item \in Range(page.items) :
         \E x \in page.shown : Wanted(x) /\ item = Item(x) /\ \A y \in page.rest : Less(x, y)
    /\ \A k \in page.shown : Wanted(k) => k \in page.rest \/ Item(k) \in Range(page.items)
    /\ Increasing(page.items)
    /\ page.items # << >> => page.next = page.items[Len(page.items)]

Walking == TypeOK /\ WalkInv /\ phase = "walk"

\* What a key is listed as and whether it is wanted stay during a page.
LEMMA Frame ==
    ASSUME req' = req, marker' = marker
    PROVE  /\ \A k : Item(k)' = Item(k)
           /\ \A k : Wanted(k)' = Wanted(k)
           /\ From' = From
<1>1. \A k : Item(k)' = Item(k)
  BY DEF Item, Grouped, CommonPrefix, DelimiterEnds
<1>2. \A k : Wanted(k)' = Wanted(k)
  BY <1>1 DEF Wanted
<1>3. QED
  BY <1>1, <1>2 DEF From

LEMMA OwedFrame ==
    ASSUME req' = req, marker' = marker, page'.shown = page.shown
    PROVE  Owed' = Owed
<1>1. /\ \A k : Item(k)' = Item(k)
      /\ \A k : Wanted(k)' = Wanted(k)
  BY Frame
<1>2. QED
  BY <1>1 DEF Owed

\* A wanted key is where the walk comes by.
LEMMA WantedAhead ==
    ASSUME TypeOK, NEW k \in Keys, Wanted(k)
    PROVE  AtMost(From, k)
<1>1. k \in Strings /\ k \in Seq(Nat \ {0}) /\ k # << >> /\ StartsWith(k, req.prefix)
  BY KeyTyped DEF Wanted
<1>2. Asked /\ req.prefix \in Strings /\ marker \in Strings
  BY AskTyped
<1>3. Item(k) \in Strings /\ AtMost(Item(k), k)
  BY <1>1, <1>2, ItemStarts
<1>4. CASE marker # None /\ Less(req.prefix, marker)
  <2>1. Less(marker, k)
    BY <1>1, <1>2, <1>3, <1>4, AtMostLess DEF Wanted
  <2>2. QED
    BY <1>1, <1>2, <1>4, <2>1, JustPast DEF From
<1>5. CASE ~(marker # None /\ Less(req.prefix, marker))
  BY <1>1, <1>2, <1>5, PrefixFirst DEF From
<1>6. QED
  BY <1>4, <1>5

\* The walk begins at the prefix or after it.
LEMMA FromPrefix ==
    ASSUME TypeOK
    PROVE  AtMost(req.prefix, From)
<1>1. req.prefix \in Strings /\ marker \in Strings /\ From \in Strings
  BY AskTyped
<1>2. CASE marker # None /\ Less(req.prefix, marker)
  <2>1. Less(marker, Append(marker, 1)) /\ Append(marker, 1) \in Strings
    <3>1. << >> \in Seq(Nat \ {0})
      OBVIOUS
    <3>2. QED
      BY <1>1, <3>1, JustPast
  <2>2. QED
    BY <1>1, <1>2, <2>1, LessTransitive DEF From, AtMost
<1>3. CASE ~(marker # None /\ Less(req.prefix, marker))
  BY <1>3 DEF From, AtMost
<1>4. QED
  BY <1>2, <1>3

LEMMA RestLater ==
    ASSUME NEW k, Reached(k), NEW y \in page.rest, y # k
    PROVE  Less(k, y)
BY DEF Reached, AtMost

\* A leaf that is reached and not passed over is wanted.
LEMMA ReachedWanted ==
    ASSUME Walking, NEW k \in Keys, Reached(k), StartsWith(k, req.prefix), ~Passed(k)
    PROVE  Wanted(k)
<1>1. k \in Strings /\ k \in Seq(Nat \ {0}) /\ k # << >>
  BY KeyTyped
<1>2. Asked /\ req.prefix \in Strings /\ marker \in Strings /\ From \in Strings
  BY AskTyped DEF Walking
<1>3. Item(k) \in Strings
  BY <1>1, <1>2, ItemStarts
<1>4. AtMost(From, k)
  BY DEF Walking, WalkInv, Reached
<1>5. ASSUME marker # None, Less(req.prefix, marker)
      PROVE  Less(marker, Item(k))
  <2>1. From = Append(marker, 1)
    BY <1>5 DEF From
  <2>2. Less(marker, From)
    BY <1>1, <1>2, <2>1, JustPast
  <2>3. Less(marker, k)
    BY <1>1, <1>2, <1>4, <2>2, AtMostLess
  <2>4. CASE Grouped(k)
    <3>1. Item(k) = CommonPrefix(k) /\ ~AtMost(Item(k), marker)
      BY <1>5, <2>4 DEF Passed, Item
    <3>2. QED
      BY <1>2, <1>3, <3>1, AtMostLess
  <2>5. CASE ~Grouped(k)
    BY <2>3, <2>5 DEF Item
  <2>6. QED
    BY <2>4, <2>5
<1>6. QED
  BY <1>5 DEF Wanted

\* The item of a leaf that is reached and not skipped comes after the page so far.
LEMMA ReachedLater ==
    ASSUME Walking, NEW k \in Keys, Reached(k), StartsWith(k, req.prefix), ~Skipped(k)
    PROVE  \A item \in Range(page.items) : Less(item, Item(k))
<1> SUFFICES ASSUME NEW item \in Range(page.items) PROVE Less(item, Item(k))
  OBVIOUS
<1>1. PICK x \in page.shown : Wanted(x) /\ item = Item(x) /\ \A y \in page.rest : Less(x, y)
  BY DEF Walking, WalkInv
<1>2. x \in Keys /\ Less(x, k) /\ StartsWith(x, req.prefix)
  BY <1>1, PageTyped DEF Reached, Wanted, Walking
<1>3. k \in Strings /\ k # << >> /\ x \in Strings /\ x # << >> /\ Asked
  BY <1>2, KeyTyped, AskTyped DEF Walking
<1>4. AtMost(Item(x), Item(k))
  BY <1>2, <1>3, ItemMonotone
<1>5. ASSUME Item(x) = Item(k) PROVE FALSE
  <2>1. Grouped(k)
    BY <1>2, <1>3, <1>5, SameItemGrouped
  <2>2. CommonPrefix(k) \in Range(page.items)
    BY <1>1, <1>5, <2>1 DEF Item
  <2>3. QED
    BY <2>1, <2>2 DEF Skipped, Seen
<1>6. QED
  BY <1>1, <1>4, <1>5 DEF AtMost

\* Past the prefix, no key with the prefix is left.
LEMMA NoneLeft ==
    ASSUME Walking, NEW k \in Keys, Reached(k), ~StartsWith(k, req.prefix)
    PROVE  \A y \in page.rest : ~Wanted(y)
<1> SUFFICES ASSUME NEW y \in page.rest, StartsWith(y, req.prefix) PROVE FALSE
  BY DEF Wanted
<1>1. /\ k \in Strings /\ y \in Strings /\ From \in Strings /\ req.prefix \in Strings
  BY KeyTyped, AskTyped, PageTyped DEF Walking
<1>2. AtMost(From, k) /\ AtMost(req.prefix, From)
  BY FromPrefix DEF Walking, WalkInv, Reached
<1>3. AtMost(req.prefix, k)
  BY <1>1, <1>2, AtMostLess
<1>4. Less(k, y)
  BY RestLater
<1>5. QED
  BY <1>1, <1>3, <1>4, PrefixContiguous

\* A group that was passed over is not wanted: it is not after the marker.
LEMMA PassedUnwanted ==
    ASSUME TypeOK, NEW k \in Keys, Passed(k)
    PROVE  ~Wanted(k)
<1> SUFFICES ASSUME Wanted(k) PROVE FALSE
  OBVIOUS
<1>1. k \in Strings /\ k # << >> /\ StartsWith(k, req.prefix) /\ Grouped(k) /\ marker # None
  BY KeyTyped DEF Wanted, Passed
<1>2. Asked /\ req.prefix \in Strings /\ marker \in Strings
  BY AskTyped
<1>3. Item(k) = CommonPrefix(k) /\ AtMost(Item(k), marker)
  BY <1>1 DEF Passed, Item
<1>4. Item(k) \in Strings /\ AtMost(req.prefix, Item(k))
  BY <1>1, <1>2, ItemStarts
<1>5. req.prefix # Item(k)
  <2>1. Len(CommonPrefix(k)) = Cut(k) /\ Len(req.prefix) < Cut(k) /\ Cut(k) \in Nat
    BY <1>1, <1>2, CutFirst
  <2>2. Len(req.prefix) \in Nat
    BY <1>2 DEF Strings
  <2> HIDE DEF Cut
  <2>3. QED
    BY <1>3, <2>1, <2>2
<1>6. Less(req.prefix, marker)
  BY <1>2, <1>3, <1>4, <1>5, AtMostLess DEF AtMost
<1>7. Less(marker, Item(k))
  BY <1>1, <1>6 DEF Wanted
<1>8. QED
  BY <1>2, <1>3, <1>4, <1>7, AtMostLess

\* A step that leaves the listing as it is.
LEMMA PageFrame ==
    ASSUME WalkInv, PageExact, UNCHANGED <<req, marker, page, phase>>
    PROVE  WalkInv' /\ PageExact'
<1>1. /\ \A k : Item(k)' = Item(k)
      /\ \A k : Wanted(k)' = Wanted(k)
      /\ From' = From
  BY Frame
<1>2. Owed' = Owed
  BY OwedFrame
<1>3. WalkInv'
  BY <1>1 DEF WalkInv
<1>4. PageExact'
  BY <1>2 DEF PageExact
<1>5. QED
  BY <1>3, <1>4

LEMMA WalkBegins ==
    ASSUME TypeOK, BeginWalk
    PROVE  WalkInv'
<1>0. req' = req /\ marker' = marker /\ req.limit > 0
  BY DEF BeginWalk
<1>1. /\ \A k : Wanted(k)' = Wanted(k)
      /\ From' = From
  BY <1>0, Frame
<1>2. /\ page'.rest = {k \in Present : AtMost(From, k)} /\ page'.shown = Visible
      /\ page'.items = << >> /\ page'.truncated = FALSE
  BY DEF BeginWalk, Blank
<1>3. Range(<< >>) = {} /\ Len(<< >>) = 0 /\ Increasing(<< >>)
  BY DEF Range, Increasing
<1>4. \A k \in Visible : Wanted(k) => k \in page'.rest
  BY <1>2, WantedAhead DEF Visible, Present
<1>5. req.limit \in Nat
  BY AskTyped
<1>6. QED
  BY <1>0, <1>1, <1>2, <1>3, <1>4, <1>5 DEF WalkInv

LEMMA WalkSkips ==
    ASSUME Walking, NEW k \in Keys, SkipLeaf(k)
    PROVE  WalkInv'
<1>0. req' = req /\ marker' = marker /\ phase' = phase
  BY DEF SkipLeaf
<1>1. /\ \A x : Item(x)' = Item(x)
      /\ \A x : Wanted(x)' = Wanted(x)
      /\ From' = From
  BY <1>0, Frame
<1>2. /\ page'.rest = page.rest \ {k} /\ page'.shown = page.shown /\ page'.items = page.items
      /\ page'.truncated = page.truncated /\ page'.next = page.next
  BY DEF SkipLeaf, Walking, TypeOK, Pages
<1>3. ASSUME NEW x \in page.shown, Wanted(x), x \notin page'.rest
      PROVE  Item(x) \in Range(page.items)
  <2>1. CASE x = k
    <3>1. ~Passed(k) /\ k \in page.shown
      BY <1>3, <2>1, PassedUnwanted DEF Walking
    <3>2. Seen(k)
      BY <3>1 DEF SkipLeaf, Skipped
    <3>3. QED
      BY <2>1, <3>2 DEF Seen, Item
  <2>2. CASE x # k
    BY <1>2, <1>3, <2>2 DEF Walking, WalkInv
  <2>3. QED
    BY <2>1, <2>2
<1>4. QED
  BY <1>0, <1>1, <1>2, <1>3 DEF Walking, WalkInv

LEMMA WalkLists ==
    ASSUME Walking, NEW k \in Keys, ListLeaf(k)
    PROVE  WalkInv'
<1>0. /\ req' = req /\ marker' = marker /\ phase' = phase /\ Reached(k) /\ ~Skipped(k)
      /\ StartsWith(k, req.prefix) /\ Len(page.items) < req.limit
  BY DEF ListLeaf
<1>1. /\ \A x : Item(x)' = Item(x)
      /\ \A x : Wanted(x)' = Wanted(x)
      /\ From' = From
  BY <1>0, Frame
<1>2. /\ page'.rest = page.rest \ {k} /\ page'.shown = page.shown
      /\ page'.items = Append(page.items, Item(k))
      /\ page'.truncated = page.truncated /\ page'.next = Item(k)
  BY DEF ListLeaf, Walking, TypeOK, Pages
<1>3. /\ Wanted(k) /\ k \in page.shown
  BY <1>0, ReachedWanted DEF Skipped
<1>4. Item(k) \in Names /\ page.items \in Seq(Names) /\ req.limit \in Nat
  BY <1>0, ItemTyped, PageTyped, AskTyped DEF Walking
<1>5. \A item \in Range(page.items) : Less(item, Item(k))
  BY <1>0, ReachedLater
<1>6. /\ Increasing(page'.items) /\ Range(page'.items) = Range(page.items) \cup {Item(k)}
  BY <1>2, <1>4, <1>5, AppendIncreases, AppendRange DEF Walking, WalkInv
<1>7. /\ Len(page'.items) = Len(page.items) + 1 /\ page'.items[Len(page.items) + 1] = Item(k)
      /\ Len(page.items) \in Nat
  BY <1>2, <1>4, AppendProperties
<1>8. ASSUME NEW item \in Range(page'.items)
      PROVE  \E x \in page.shown : Wanted(x) /\ item = Item(x) /\ \A y \in page'.rest : Less(x, y)
  <2>1. CASE item \in Range(page.items)
    BY <1>2, <2>1 DEF Walking, WalkInv
  <2>2. CASE item = Item(k)
    <3>1. \A y \in page'.rest : Less(k, y)
      BY <1>0, <1>2, RestLater
    <3>2. QED
      BY <1>3, <2>2, <3>1
  <2>3. QED
    BY <1>6, <1>8, <2>1, <2>2
<1>9. ASSUME NEW x \in page.shown, Wanted(x), x \notin page'.rest
      PROVE  Item(x) \in Range(page'.items)
  BY <1>2, <1>6, <1>9 DEF Walking, WalkInv
<1>10. Len(page'.items) <= req.limit
  BY <1>0, <1>4, <1>7
<1>11. \A x \in page'.rest : AtMost(From, x)
  BY <1>2 DEF Walking, WalkInv
<1>12. page'.next = page'.items[Len(page'.items)]
  BY <1>2, <1>7
<1>13. QED
  BY <1>0, <1>1, <1>2, <1>6, <1>8, <1>9, <1>10, <1>11, <1>12 DEF Walking, WalkInv

\* A walk that ran to its end, or past the prefix, listed all it owes.
LEMMA AllListed ==
    ASSUME Walking, \A y \in page.rest : ~Wanted(y), phase' = "page", req' = req, marker' = marker,
           page'.items = page.items, page'.shown = page.shown, page'.truncated = page.truncated
    PROVE  PageExact'
<1>1. Owed' = Owed
  BY OwedFrame
<1>2. ASSUME NEW item \in Owed PROVE item \in Range(page.items)
  <2>1. PICK x \in page.shown : Wanted(x) /\ item = Item(x)
    BY DEF Owed
  <2>2. QED
    BY <2>1 DEF Walking, WalkInv
<1>3. ASSUME NEW item \in Range(page.items) PROVE item \in Owed
  BY DEF Walking, WalkInv, Owed
<1>4. /\ Increasing(page.items) /\ Len(page.items) <= req.limit /\ ~page.truncated
  BY DEF Walking, WalkInv
<1>5. QED
  BY <1>1, <1>2, <1>3, <1>4 DEF PageExact

LEMMA FullPage ==
    ASSUME Walking, NEW k \in Keys, PageFull(k)
    PROVE  PageExact'
<1>0. /\ req' = req /\ marker' = marker /\ Reached(k) /\ ~Skipped(k)
      /\ StartsWith(k, req.prefix) /\ Len(page.items) >= req.limit
  BY DEF PageFull
<1>1. /\ page'.shown = page.shown /\ page'.items = page.items /\ page'.next = page.next
      /\ page'.truncated = TRUE
  BY DEF PageFull, Walking, TypeOK, Pages
<1>2. Owed' = Owed
  BY <1>0, <1>1, OwedFrame
<1>3. Wanted(k) /\ k \in page.shown
  BY <1>0, ReachedWanted DEF Skipped
<1>4. /\ Asked /\ k \in Strings /\ k # << >> /\ Item(k) \in Strings /\ req.limit \in Nat
      /\ page.items \in Seq(Names)
  BY <1>0, KeyTyped, AskTyped, ItemTyped, PageTyped DEF Walking
<1>5. \A item \in Range(page.items) : item \in Strings /\ Less(item, Item(k))
  <2>1. \A item \in Range(page.items) : item \in Strings
    <3>1. Range(page.items) \subseteq Names
      BY <1>4, RangeOfSeq
    <3>2. QED
      BY <3>1 DEF Names, Strings
  <2>2. QED
    BY <2>1, <1>0, ReachedLater
<1>6. Item(k) \in Owed /\ Item(k) \notin Range(page.items)
  BY <1>3, <1>4, <1>5, LessIrreflexive DEF Owed
<1>7. ASSUME NEW item \in Owed, item \notin Range(page.items), NEW x \in Range(page.items)
      PROVE  Less(x, item)
  <2>1. PICK y \in page.shown : Wanted(y) /\ item = Item(y)
    BY <1>7 DEF Owed
  <2>2. y \in page.rest /\ y \in Keys /\ StartsWith(y, req.prefix)
    BY <1>7, <2>1, PageTyped DEF Walking, WalkInv, Wanted
  <2>3. y \in Strings /\ y # << >> /\ item \in Strings
    BY <2>1, <2>2, KeyTyped, ItemTyped DEF Walking
  <2>4. AtMost(Item(k), item)
    <3>1. CASE y = k
      BY <2>1, <3>1 DEF AtMost
    <3>2. CASE y # k
      <4>1. Less(k, y)
        BY <1>0, <2>2, <3>2, RestLater
      <4>2. QED
        BY <1>0, <1>4, <2>1, <2>2, <2>3, <4>1, ItemMonotone
    <3>3. QED
      BY <3>1, <3>2
  <2>5. QED
    BY <1>4, <1>5, <1>7, <2>3, <2>4, AtMostLess
<1>8. /\ Len(page.items) = req.limit /\ page.next = page.items[req.limit]
  <2>1. Len(page.items) \in Nat /\ Len(page.items) <= req.limit /\ req.limit > 0
    BY <1>4, RangeIs DEF Walking, WalkInv
  <2>2. Len(page.items) = req.limit /\ page.items # << >>
    BY <1>0, <1>4, <2>1
  <2>3. QED
    BY <2>2 DEF Walking, WalkInv
<1>9. \A item \in Range(page.items) : item \in Owed
  BY DEF Walking, WalkInv, Owed
<1>10. QED
  BY <1>0, <1>1, <1>2, <1>4, <1>6, <1>7, <1>8, <1>9 DEF PageExact, Walking, WalkInv

PageInv == WalkInv /\ PageExact

LEMMA PageStep ==
    ASSUME TypeOK, PageInv, [Next]_vars
    PROVE  PageInv'
<1> USE DEF PageInv
<1>1. CASE UNCHANGED vars
  BY <1>1, PageFrame DEF vars
<1>2. ASSUME NEW prefix \in Prefixes, NEW delimiter \in Delimiters, NEW after \in Markers,
             NEW limit \in Limits, StartListing(prefix, delimiter, after, limit)
      PROVE  PageInv'
  BY <1>2 DEF StartListing, WalkInv, PageExact
<1>3. CASE ListNothing
  <2>1. req' = req /\ req.limit = 0 /\ phase' = "page"
    BY <1>3 DEF ListNothing
  <2>2. QED
    BY <2>1 DEF WalkInv, PageExact
<1>4. CASE BeginWalk
  <2>1. phase' = "walk"
    BY <1>4 DEF BeginWalk
  <2>2. QED
    BY <1>4, <2>1, WalkBegins DEF PageExact
<1>5. CASE WalkEnds
  <2>1. Walking /\ phase' = "page"
    BY <1>5 DEF WalkEnds, Walking
  <2>2. PageExact'
    BY <1>5, <2>1, AllListed DEF WalkEnds
  <2>3. QED
    BY <2>1, <2>2 DEF WalkInv
<1>6. CASE PageFails
  BY <1>6 DEF PageFails, WalkInv, PageExact
<1>7. CASE NextPage
  BY <1>7 DEF NextPage, WalkInv, PageExact
<1>8. CASE LastPage
  BY <1>8 DEF LastPage, WalkInv, PageExact
<1>9. ASSUME NEW k \in Keys, PastPrefix(k) PROVE PageInv'
  <2>1. Walking /\ phase' = "page" /\ Reached(k) /\ ~StartsWith(k, req.prefix)
    BY <1>9 DEF PastPrefix, Walking, Reached
  <2>2. /\ req' = req /\ marker' = marker
        /\ page'.items = page.items /\ page'.shown = page.shown /\ page'.truncated = page.truncated
    BY <1>9 DEF PastPrefix, TypeOK, Pages
  <2>3. PageExact'
    BY <2>1, <2>2, NoneLeft, AllListed
  <2>4. QED
    BY <2>1, <2>3 DEF WalkInv
<1>10. ASSUME NEW k \in Keys, SkipLeaf(k) PROVE PageInv'
  <2>1. Walking /\ phase' = "walk"
    BY <1>10 DEF SkipLeaf, Walking, Reached
  <2>2. QED
    BY <1>10, <2>1, WalkSkips DEF PageExact
<1>11. ASSUME NEW k \in Keys, PageFull(k) PROVE PageInv'
  <2>1. Walking /\ phase' = "page"
    BY <1>11 DEF PageFull, Walking, Reached
  <2>2. QED
    BY <1>11, <2>1, FullPage DEF WalkInv
<1>12. ASSUME NEW k \in Keys, ListLeaf(k) PROVE PageInv'
  <2>1. Walking /\ phase' = "walk"
    BY <1>12 DEF ListLeaf, Walking, Reached
  <2>2. QED
    BY <1>12, <2>1, WalkLists DEF PageExact
<1>13. ASSUME NEW k \in Keys, NEW state \in States, Write(k, state) PROVE PageInv'
  BY <1>13, PageFrame DEF Write
<1>14. QED
  BY <1>1, <1>2, <1>3, <1>4, <1>5, <1>6, <1>7, <1>8, <1>9, <1>10, <1>11, <1>12, <1>13 DEF Next

LEMMA PageInit == Init => PageInv
BY DEF Init, PageInv, WalkInv, PageExact

\* A page is the first max-keys items after the marker of the root it reads,
\* and truncated exactly when there are more (listWalk), for any keys, prefix,
\* delimiter, marker and limit.
THEOREM PagesExact == Spec => []PageExact
<1>1. Init => PageInv
  BY PageInit
<1>2. TypeOK /\ PageInv /\ [Next]_vars => PageInv'
  BY PageStep
<1>3. PageInv => PageExact
  BY DEF PageInv
<1>4. QED
  BY <1>1, <1>2, <1>3, TypesHold, PTL DEF Spec

-----------------------------------------------------------------------------
(* Over the pages of a listing. *)

\* Between pages there is none, and max-keys=0 gives an empty one.
IdleInv == phase \in {"ask", "done"} \/ (phase = "page" /\ req.limit = 0) => page = Blank

\* What a listing must list.
Due(k) == StartsWith(k, req.prefix) /\ Less(req.after, Item(k))

\* A key that stayed visible is on the root that a page reads, and its item
\* was listed or comes after the marker.
KeptInv ==
  /\ kept \subseteq Visible
  /\ phase \in {"walk", "page"} /\ req.limit > 0 => kept \subseteq page.shown
  /\ phase # "done" => \A k \in kept : Due(k) => Item(k) \in Range(listed) \/ Less(marker, Item(k))
  /\ phase = "done" /\ req.limit > 0 => \A k \in kept : Due(k) => Item(k) \in Range(listed)

\* Pages of one key ended with the prefix.
Restarts == req.limit = 1 /\ req.prefix \in Range(listed)

\* The marker is the last that was listed.
OrderInv ==
  /\ Increasing(listed) \/ Restarts
  /\ phase # "done" /\ listed # << >> =>
       /\ marker = listed[Len(listed)]
       /\ Less(req.prefix, marker) \/ Restarts

LEMMA BlankItems ==
    ASSUME page = Blank
    PROVE  page.items = << >> /\ page.truncated = FALSE /\ Range(page.items) = {} /\ Increasing(page.items)
BY DEF Blank, Range, Increasing

\* The page, under way or returned, is in order and holds what is wanted.
LEMMA ItemsOrdered ==
    ASSUME TypeOK, PageInv, IdleInv
    PROVE  /\ Increasing(page.items)
           /\ \A item \in Range(page.items) : \E x \in Keys : Wanted(x) /\ item = Item(x)
<1>0. page.shown \in SUBSET Keys /\ req.limit \in Nat
  BY PageTyped, AskTyped
<1>1. CASE page = Blank
  BY <1>1, BlankItems
<1>2. CASE phase = "walk"
  BY <1>0, <1>2 DEF PageInv, WalkInv
<1>3. CASE phase = "page" /\ req.limit > 0
  <2>1. Increasing(page.items) /\ Range(page.items) \subseteq Owed
    BY <1>3 DEF PageInv, PageExact
  <2>2. QED
    BY <1>0, <2>1 DEF Owed
<1>4. phase \in {"ask", "walk", "page", "done"}
  BY DEF TypeOK
<1>5. QED
  BY <1>0, <1>1, <1>2, <1>3, <1>4 DEF IdleInv

\* What was listed and the page after it are in order.
LEMMA AllIncreasing ==
    ASSUME TypeOK, PageInv, IdleInv, OrderInv
    PROVE  \/ Increasing(listed \o page.items)
           \/ req.limit = 1 /\ req.prefix \in Range(listed \o page.items)
<1>1. page.items \in Seq(Names) /\ listed \in Seq(Names)
  BY PageTyped
<1>2. Range(listed \o page.items) = Range(listed) \cup Range(page.items)
  BY <1>1, ConcatRange
<1>3. CASE Restarts
  BY <1>2, <1>3 DEF Restarts
<1>4. CASE ~Restarts /\ listed = << >>
  <2>1. listed \o page.items = page.items
    BY <1>1, <1>4, ConcatEmptySeq
  <2>2. QED
    BY <2>1, ItemsOrdered
<1>5. CASE ~Restarts /\ listed # << >> /\ phase = "done"
  <2>1. page.items = << >>
    BY <1>5, BlankItems DEF IdleInv
  <2>2. listed \o page.items = listed
    BY <1>1, <2>1, ConcatEmptySeq
  <2>3. QED
    BY <1>5, <2>2 DEF OrderInv
<1>6. CASE ~Restarts /\ listed # << >> /\ phase # "done"
  <2>1. /\ Increasing(listed) /\ marker = listed[Len(listed)] /\ Less(req.prefix, marker)
    BY <1>6 DEF OrderInv
  <2>2. marker \in Range(listed) /\ \A x \in Range(listed) : AtMost(x, marker)
    BY <1>1, <1>6, <2>1, LastIsGreatest
  <2>3. /\ Range(listed) \subseteq Strings /\ Range(page.items) \subseteq Strings /\ marker # None
    <3>1. Range(listed) \subseteq Names /\ Range(page.items) \subseteq Names
      BY <1>1, RangeOfSeq
    <3>2. QED
      BY <2>2, <3>1 DEF Names, Strings
  <2>4. ASSUME NEW x \in Range(listed), NEW y \in Range(page.items) PROVE Less(x, y)
    <3>1. PICK k \in Keys : Wanted(k) /\ y = Item(k)
      BY ItemsOrdered
    <3>2. Less(marker, y)
      BY <2>1, <2>3, <3>1 DEF Wanted
    <3>3. QED
      BY <2>2, <2>3, <3>2, AtMostLess
  <2>5. QED
    BY <1>1, <2>1, <2>4, ItemsOrdered, ConcatIncreases
<1>7. QED
  BY <1>3, <1>4, <1>5, <1>6

ListInv == IdleInv /\ KeptInv /\ OrderInv

LEMMA DueFrame ==
    ASSUME req' = req, marker' = marker
    PROVE  \A k : Item(k)' = Item(k) /\ Due(k)' = Due(k)
<1>1. \A k : Item(k)' = Item(k)
  BY Frame
<1>2. QED
  BY <1>1 DEF Due

\* A step within a page.
LEMMA ListFrame ==
    ASSUME ListInv, UNCHANGED <<bucket, req, marker, listed, kept>>, phase # "done", phase' # "done",
           IdleInv', phase' \in {"walk", "page"} /\ req.limit > 0 => kept \subseteq page'.shown
    PROVE  ListInv'
<1>1. \A k : Item(k)' = Item(k) /\ Due(k)' = Due(k)
  BY DueFrame
<1>2. KeptInv'
  BY <1>1 DEF ListInv, KeptInv, Visible
<1>3. OrderInv'
  BY DEF ListInv, OrderInv, Restarts
<1>4. QED
  BY <1>2, <1>3 DEF ListInv

LEMMA KeptNextPage ==
    ASSUME TypeOK, PageInv, ListInv, NextPage
    PROVE  KeptInv'
<1>0. /\ phase = "page" /\ page.truncated /\ listed' = listed \o page.items /\ marker' = page.next
      /\ req' = req /\ phase' = "ask" /\ bucket' = bucket /\ kept' = kept
  BY DEF NextPage
<1>1. req.limit > 0 /\ req.limit \in Nat
  BY <1>0, AskTyped, BlankItems DEF ListInv, IdleInv
<1>2. \A k : Item(k)' = Item(k) /\ Due(k)' = Due(k)
  BY <1>0 DEF Due, Item, Grouped, CommonPrefix, DelimiterEnds
<1>3. Range(listed') = Range(listed) \cup Range(page.items)
  BY <1>0, PageTyped, ConcatRange
<1>4. ASSUME NEW k \in kept, Due(k), Item(k) \notin Range(listed')
      PROVE  Less(marker', Item(k))
  <2>1. k \in page.shown /\ Less(marker, Item(k))
    BY <1>0, <1>1, <1>3, <1>4 DEF ListInv, KeptInv
  <2>2. Wanted(k)
    BY <1>4, <2>1 DEF Wanted, Due
  <2>3. Item(k) \in Owed \ Range(page.items)
    BY <1>3, <1>4, <2>1, <2>2 DEF Owed
  <2>4. \A x \in Range(page.items) : Less(x, Item(k))
    BY <1>0, <1>1, <2>3 DEF PageInv, PageExact
  <2>5. marker' \in Range(page.items)
    <3>1. marker' = page.items[req.limit] /\ Len(page.items) = req.limit
      BY <1>0, <1>1 DEF PageInv, PageExact
    <3>2. QED
      BY <1>1, <3>1, PageTyped, RangeIs
  <2>6. QED
    BY <2>4, <2>5
<1>5. QED
  BY <1>0, <1>2, <1>4 DEF KeptInv, ListInv, Visible

LEMMA KeptLastPage ==
    ASSUME TypeOK, PageInv, ListInv, LastPage
    PROVE  KeptInv'
<1>0. /\ phase = "page" /\ listed' = listed \o page.items /\ marker' = marker
      /\ req' = req /\ phase' = "done" /\ bucket' = bucket /\ kept' = kept
      /\ ~(page.truncated /\ page.next # None)
  BY DEF LastPage
<1>1. \A k : Item(k)' = Item(k) /\ Due(k)' = Due(k)
  BY <1>0, DueFrame
<1>2. Range(listed') = Range(listed) \cup Range(page.items)
  BY <1>0, PageTyped, ConcatRange
<1>3. ASSUME req.limit > 0, NEW k \in kept, Due(k)
      PROVE  Item(k) \in Range(listed')
  <2>1. k \in page.shown /\ (Item(k) \in Range(listed) \/ Less(marker, Item(k)))
    BY <1>0, <1>3 DEF ListInv, KeptInv
  <2>2. ~page.truncated
    <3>1. SUFFICES ASSUME page.truncated PROVE FALSE
      OBVIOUS
    <3>2. page.next = page.items[req.limit] /\ Len(page.items) = req.limit /\ req.limit \in Nat
      BY <1>0, <1>3, <3>1, AskTyped DEF PageInv, PageExact
    <3>3. page.next \in Names
      BY <1>3, <3>2, PageTyped, RangeIs
    <3>4. QED
      BY <1>0, <3>1, <3>3 DEF Names
  <2>3. CASE Less(marker, Item(k))
    <3>1. Wanted(k)
      BY <1>3, <2>3 DEF Wanted, Due
    <3>2. Item(k) \in Owed
      BY <2>1, <3>1 DEF Owed
    <3>3. QED
      BY <1>0, <1>2, <1>3, <2>2, <3>2 DEF PageInv, PageExact
  <2>4. QED
    BY <1>2, <2>1, <2>3
<1>4. QED
  BY <1>0, <1>1, <1>3 DEF KeptInv, ListInv, Visible

\* The next marker is past the prefix, or the page of one key is the prefix.
LEMMA OrderNextPage ==
    ASSUME TypeOK, PageInv, ListInv, NextPage
    PROVE  OrderInv'
<1>0. /\ phase = "page" /\ page.truncated /\ listed' = listed \o page.items /\ marker' = page.next
      /\ req' = req /\ phase' = "ask"
  BY DEF NextPage
<1>1. req.limit > 0 /\ req.limit \in Nat /\ Asked /\ req.prefix \in Strings
  BY <1>0, AskTyped, BlankItems DEF ListInv, IdleInv
<1>2. page.items \in Seq(Names) /\ listed \in Seq(Names)
  BY PageTyped
<1>3. Range(listed') = Range(listed) \cup Range(page.items)
  BY <1>0, <1>2, ConcatRange
<1>4. marker' = page.items[req.limit] /\ Len(page.items) = req.limit
  BY <1>0, <1>1 DEF PageInv, PageExact
<1>5. Increasing(listed') \/ Restarts'
  BY <1>0, AllIncreasing DEF ListInv, Restarts
<1>6. marker' = listed'[Len(listed')]
  <2>1. /\ Len(listed') = Len(listed) + req.limit /\ Len(listed) \in Nat
    BY <1>0, <1>2, <1>4, ConcatProperties
  <2>2. Len(listed) + req.limit \in 1..(Len(listed) + Len(page.items))
    BY <1>1, <1>4, <2>1
  <2>3. listed'[Len(listed) + req.limit] = page.items[Len(listed) + req.limit - Len(listed)]
    BY <1>0, <1>1, <1>2, <2>1, <2>2, ConcatProperties
  <2>4. Len(listed) + req.limit - Len(listed) = req.limit
    BY <1>1, <2>1
  <2>5. QED
    BY <1>4, <2>1, <2>3, <2>4
<1>7. /\ Range(page.items) = {page.items[i] : i \in 1..req.limit}
      /\ \A x \in Range(page.items) : x \in Strings /\ AtMost(req.prefix, x)
  <2>1. Range(page.items) = {page.items[i] : i \in 1..req.limit}
    BY <1>2, <1>4, RangeIs
  <2>2. ASSUME NEW x \in Range(page.items) PROVE x \in Strings /\ AtMost(req.prefix, x)
    <3>1. PICK k \in Keys : Wanted(k) /\ x = Item(k)
      BY ItemsOrdered DEF ListInv
    <3>2. k \in Strings /\ k # << >> /\ StartsWith(k, req.prefix)
      BY <3>1, KeyTyped DEF Wanted
    <3>3. QED
      BY <1>1, <3>1, <3>2, ItemStarts
  <2>3. QED
    BY <2>1, <2>2
<1>8. Less(req.prefix, marker') \/ (req.limit = 1 /\ req.prefix \in Range(listed'))
  <2>1. marker' \in Range(page.items) /\ page.items[1] \in Range(page.items)
    BY <1>1, <1>4, <1>7
  <2>2. CASE req.prefix # marker'
    BY <1>7, <2>1, <2>2 DEF AtMost
  <2>3. CASE req.prefix = marker' /\ req.limit = 1
    BY <1>3, <2>1, <2>3
  <2>4. CASE req.prefix = marker' /\ req.limit > 1
    <3>1. Less(page.items[1], marker')
      <4>1. Increasing(page.items)
        BY ItemsOrdered DEF ListInv
      <4>2. 1 \in 1..Len(page.items) /\ req.limit \in 1..Len(page.items) /\ 1 < req.limit
        BY <1>1, <1>4, <2>4
      <4>3. QED
        BY <1>4, <4>1, <4>2 DEF Increasing
    <3>2. AtMost(req.prefix, page.items[1]) /\ page.items[1] \in Strings
      BY <1>7, <2>1
    <3>3. QED
      BY <1>1, <2>4, <3>1, <3>2, AtMostLess
  <2>5. QED
    BY <1>1, <2>2, <2>3, <2>4
<1>9. QED
  BY <1>0, <1>5, <1>6, <1>8 DEF OrderInv, Restarts

LEMMA ListStep ==
    ASSUME TypeOK, PageInv, ListInv, [Next]_vars
    PROVE  ListInv'
<1>1. CASE UNCHANGED vars
  <2>1. \A k : Item(k)' = Item(k) /\ Due(k)' = Due(k)
    BY <1>1, DueFrame DEF vars
  <2>2. IdleInv' /\ OrderInv'
    BY <1>1 DEF vars, ListInv, IdleInv, OrderInv, Restarts, Blank
  <2>3. KeptInv'
    BY <1>1, <2>1 DEF vars, ListInv, KeptInv, Visible
  <2>4. QED
    BY <2>2, <2>3 DEF ListInv
<1>2. ASSUME NEW prefix \in Prefixes, NEW delimiter \in Delimiters, NEW after \in Markers,
             NEW limit \in Limits, StartListing(prefix, delimiter, after, limit)
      PROVE  ListInv'
  <2>1. /\ phase' = "ask" /\ page' = Blank /\ listed' = << >> /\ kept' = Visible /\ bucket' = bucket
        /\ marker' = req'.after
    BY <1>2 DEF StartListing
  <2>2. IdleInv' /\ OrderInv'
    BY <2>1 DEF IdleInv, OrderInv, Increasing, Blank
  <2>3. KeptInv'
    BY <2>1 DEF KeptInv, Due, Visible
  <2>4. QED
    BY <2>2, <2>3 DEF ListInv
<1>3. CASE ListNothing
  <2>1. IdleInv' /\ req.limit = 0
    BY <1>3 DEF ListNothing, IdleInv, Blank
  <2>2. QED
    BY <1>3, <2>1, ListFrame DEF ListNothing
<1>4. CASE BeginWalk
  <2>1. IdleInv'
    BY <1>4 DEF BeginWalk, IdleInv
  <2>2. page'.shown = Visible /\ kept \subseteq Visible
    BY <1>4 DEF BeginWalk, Blank, ListInv, KeptInv
  <2>3. QED
    BY <1>4, <2>1, <2>2, ListFrame DEF BeginWalk
<1>5. CASE WalkEnds
  <2>1. req.limit > 0 /\ req.limit \in Nat
    BY <1>5, AskTyped DEF WalkEnds, PageInv, WalkInv
  <2>2. IdleInv'
    BY <1>5, <2>1 DEF WalkEnds, IdleInv
  <2>3. kept \subseteq page'.shown
    BY <1>5, <2>1 DEF WalkEnds, ListInv, KeptInv
  <2>4. QED
    BY <1>5, <2>2, <2>3, ListFrame DEF WalkEnds
<1>6. CASE PageFails
  <2>1. IdleInv'
    BY <1>6 DEF PageFails, IdleInv, Blank
  <2>2. QED
    BY <1>6, <2>1, ListFrame DEF PageFails
<1>7. CASE NextPage
  <2>1. IdleInv'
    BY <1>7 DEF NextPage, IdleInv, Blank
  <2>2. QED
    BY <1>7, <2>1, KeptNextPage, OrderNextPage DEF ListInv
<1>8. CASE LastPage
  <2>1. IdleInv'
    BY <1>8 DEF LastPage, IdleInv, Blank
  <2>2. OrderInv'
    BY <1>8, AllIncreasing DEF LastPage, ListInv, OrderInv, Restarts
  <2>3. QED
    BY <1>8, <2>1, <2>2, KeptLastPage DEF ListInv
<1>9. ASSUME NEW k \in Keys, PastPrefix(k) \/ SkipLeaf(k) \/ PageFull(k) \/ ListLeaf(k) PROVE ListInv'
  <2>1. /\ UNCHANGED <<bucket, req, marker, listed, kept>> /\ phase = "walk"
        /\ phase' \in {"walk", "page"} /\ page'.shown = page.shown
    BY <1>9 DEF PastPrefix, SkipLeaf, PageFull, ListLeaf, Reached, TypeOK, Pages
  <2>2. req.limit > 0 /\ req.limit \in Nat
    BY <2>1, AskTyped DEF PageInv, WalkInv
  <2>3. IdleInv'
    BY <2>1, <2>2 DEF IdleInv
  <2>4. kept \subseteq page'.shown
    BY <2>1, <2>2 DEF ListInv, KeptInv
  <2>5. QED
    BY <2>1, <2>3, <2>4, ListFrame
<1>10. ASSUME NEW k \in Keys, NEW state \in States, Write(k, state) PROVE ListInv'
  <2>1. UNCHANGED <<req, phase, marker, page, listed>>
    BY <1>10 DEF Write
  <2>2. \A x : Item(x)' = Item(x) /\ Due(x)' = Due(x)
    BY <2>1, DueFrame
  <2>3. kept' \subseteq kept
    BY <1>10 DEF Write
  <2>4. kept' \subseteq Visible'
    <3>1. SUFFICES ASSUME NEW x \in kept' PROVE x \in Keys /\ bucket'[x] = "object"
      BY DEF Visible
    <3>2. x \in Keys /\ bucket[x] = "object"
      BY <2>3 DEF ListInv, KeptInv, Visible
    <3>3. x = k => state = "object"
      BY <1>10 DEF Write
    <3>4. QED
      BY <1>10, <3>2, <3>3 DEF Write, TypeOK
  <2>5. KeptInv'
    BY <2>1, <2>2, <2>3, <2>4 DEF ListInv, KeptInv
  <2>6. IdleInv' /\ OrderInv'
    BY <2>1 DEF ListInv, IdleInv, OrderInv, Restarts, Blank
  <2>7. QED
    BY <2>5, <2>6 DEF ListInv
<1>11. QED
  BY <1>1, <1>2, <1>3, <1>4, <1>5, <1>6, <1>7, <1>8, <1>9, <1>10 DEF Next

LEMMA ListInit == Init => ListInv
<1> SUFFICES ASSUME Init PROVE ListInv
  OBVIOUS
<1>1. IdleInv /\ OrderInv
  BY DEF Init, IdleInv, OrderInv, Increasing
<1>2. KeptInv
  BY DEF Init, KeptInv, Due
<1>3. QED
  BY <1>1, <1>2 DEF ListInv

LEMMA ListImplies ==
    ASSUME TypeOK, PageInv, ListInv
    PROVE  ListingExact
<1>1. \/ Increasing(listed \o page.items)
      \/ req.limit = 1 /\ req.prefix \in Range(listed \o page.items)
  BY AllIncreasing DEF ListInv
<1>2. phase = "done" /\ req.limit > 0 => \A k \in kept : Due(k) => Item(k) \in Range(listed)
  BY DEF ListInv, KeptInv
<1>3. QED
  BY <1>1, <1>2 DEF ListingExact, Due

\* The pages of a listing, followed beside any writes, give nothing twice and
\* leave out no key that stayed visible (ListObjects, ListObjectsV2).
THEOREM ListingsExact == Spec => []ListingExact
<1>1. Init => PageInv /\ ListInv
  BY PageInit, ListInit
<1>2. TypeOK /\ PageInv /\ ListInv /\ [Next]_vars => PageInv' /\ ListInv'
  BY PageStep, ListStep
<1>3. TypeOK /\ PageInv /\ ListInv => ListingExact
  BY ListImplies
<1>4. QED
  BY <1>1, <1>2, <1>3, TypesHold, PTL DEF Spec

\* A page that is not the last moves the marker on.
LEMMA NextAdvances ==
    ASSUME TypeOK, PageInv, ListInv, NextPage
    PROVE  Less(marker, marker') \/ Restarts'
<1> SUFFICES ASSUME ~Restarts' PROVE Less(marker, marker')
  OBVIOUS
<1>0. /\ phase = "page" /\ page.truncated /\ listed' = listed \o page.items /\ marker' = page.next
      /\ req' = req /\ phase' = "ask"
  BY DEF NextPage
<1>1. req.limit > 0 /\ req.limit \in Nat /\ req.prefix \in Strings /\ marker \in Strings
  BY <1>0, AskTyped, BlankItems DEF ListInv, IdleInv
<1>2. marker' = page.items[req.limit] /\ Len(page.items) = req.limit
  BY <1>0, <1>1 DEF PageInv, PageExact
<1>3. marker' \in Range(page.items) /\ marker' \in Strings
  <2>1. page.items \in Seq(Names) /\ req.limit \in 1..Len(page.items)
    BY <1>1, <1>2, PageTyped
  <2>2. marker' \in Range(page.items) /\ marker' \in Names
    BY <1>2, <2>1, RangeIs
  <2>3. QED
    BY <2>2 DEF Names, Strings
<1>4. listed' # << >>
  <2>1. Range(listed') = Range(listed) \cup Range(page.items)
    BY <1>0, PageTyped, ConcatRange
  <2>2. Range(<< >>) = {}
    BY DEF Range
  <2>3. QED
    BY <1>3, <2>1, <2>2
<1>5. Less(req.prefix, marker')
  BY <1>0, <1>4, OrderNextPage DEF OrderInv
<1>6. CASE marker # None /\ Less(req.prefix, marker)
  <2>1. PICK k \in Keys : Wanted(k) /\ marker' = Item(k)
    BY <1>3, ItemsOrdered DEF ListInv
  <2>2. QED
    BY <1>6, <2>1 DEF Wanted
<1>7. CASE ~(marker # None /\ Less(req.prefix, marker))
  <2>1. ~Less(req.prefix, marker)
    <3>1. SUFFICES ASSUME marker = None PROVE ~Less(req.prefix, marker)
      BY <1>7
    <3>2. Len(marker) = 0 /\ Len(req.prefix) \in Nat
      BY <1>1, <3>1 DEF None, Strings
    <3>3. QED
      BY <3>2 DEF Less
  <2>2. AtMost(marker, req.prefix)
    BY <1>1, <2>1, LessTotal DEF AtMost
  <2>3. QED
    BY <1>1, <1>3, <1>5, <2>2, AtMostLess
<1>8. QED
  BY <1>6, <1>7

\* Following the markers always leads on: the marker of a page is after the
\* one it was asked with, so that a listing of finitely many keys ends, unless
\* pages of one key are asked for below a prefix that is itself a key.
THEOREM MarkersAdvance ==
    Spec => [][NextPage => \/ Less(marker, marker')
                           \/ req.limit = 1 /\ req.prefix \in Range(listed')]_vars
<1>1. Init => PageInv /\ ListInv
  BY PageInit, ListInit
<1>2. TypeOK /\ PageInv /\ ListInv /\ [Next]_vars => PageInv' /\ ListInv'
  BY PageStep, ListStep
<1>3. TypeOK /\ PageInv /\ ListInv /\ [Next]_vars
        => [NextPage => \/ Less(marker, marker')
                        \/ req.limit = 1 /\ req.prefix \in Range(listed')]_vars
  <2> SUFFICES ASSUME TypeOK, PageInv, ListInv, NextPage
               PROVE  Less(marker, marker') \/ (req.limit = 1 /\ req.prefix \in Range(listed'))
    OBVIOUS
  <2>1. req' = req
    BY DEF NextPage
  <2>2. QED
    BY <2>1, NextAdvances DEF Restarts
<1>4. QED
  BY <1>1, <1>2, <1>3, TypesHold, PTL DEF Spec
=============================================================================
