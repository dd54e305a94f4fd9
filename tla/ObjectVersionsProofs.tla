------------------------ MODULE ObjectVersionsProofs ------------------------
(***************************************************************************)
(* Proofs about ObjectVersions: types, that an id finds exactly its        *)
(* version, that a paged listing loses none, that the claims are those of  *)
(* the versions and of what a late delete left behind, and that leaves,    *)
(* prev trees and state trees implement a version history.                 *)
(***************************************************************************)
EXTENDS ObjectVersions, FiniteSetTheorems, NaturalsInduction, WellFoundedInduction, TLAPS

(* The number a Complete has reserved and not yet committed. *)
Holds(r, s) == req[r] = <<"complete", s>>

(* How the value is laid out: a key without versions has nothing, and a  *)
(* manifest is the only version of its key.                              *)
Layout ==
  /\ form = "absent" => current = NoVersion /\ prev = {} /\ nullSeq = 0
  /\ form = "manifest" => prev = {} /\ nullSeq = 0

(* The previous versions are older than the current one and keyed by      *)
(* their number, and an id that is not null carries the version's number. *)
Numbered ==
  /\ \A v \in prev : v.seq < current.seq
  /\ \A v, w \in prev : v.seq = w.seq => v = w
  /\ \A v \in Versions : v.id = Null \/ v.id = Mint(v.seq)

(* NullSeq names the previous null version, and there is none beside a *)
(* current null version.                                               *)
NullInv ==
  /\ nullSeq # 0 => \E v \in prev : v.seq = nullSeq /\ v.id = Null
  /\ \A v \in prev : v.id = Null => v.seq = nullSeq
  /\ form # "absent" /\ current.id = Null => nullSeq = 0

(* The bucket's counter is past every number in use, and a reserved number *)
(* belongs to one request, to no version and to nothing a listing has seen. *)
SeqInv ==
  /\ \A v \in Versions \cup list.owed : v.seq <= lastSeq
  /\ \A r \in Requests, s \in Seqs : Holds(r, s) =>
       /\ s <= lastSeq
       /\ \A v \in Versions \cup list.owed : v.seq # s
       /\ \A q \in Requests : Holds(q, s) => q = r

(* Lock state and tags are those of versions the key has. *)
MarksInv == locked \cup tagged \subseteq SeqsOf(Versions)

(* A version that a listing owes and that is still there comes below the *)
(* place where the next page starts.                                     *)
ListInv ==
  /\ list.page = "more" => \A v \in list.owed \cap Versions : v.seq < SeqBelow(list.marker)
  /\ ListingComplete

VInv == TypeOK /\ Layout /\ Numbered /\ NullInv /\ SeqInv /\ MarksInv /\ ListInv

(* The claims that a late delete left behind are of numbers that no version *)
(* has and no request has reserved.                                         *)
LeakInv ==
  \A c \in leaked :
    /\ c[1] <= lastSeq
    /\ \A v \in Versions : v.seq # c[1]
    /\ \A r \in Requests : ~Holds(r, c[1])

(* A bucket that was never versioned has one version of the key, a null one. *)
PlainInv ==
  versioning = "unversioned" => prev = {} /\ (form # "absent" => current.id = Null)

SInv == LeakInv /\ PlainInv /\ ClaimsExact

-----------------------------------------------------------------------------
(* Ids, numbers and requests. *)

(* A bounded set of numbers that is not empty has a largest one, so that *)
(* prevHead and a page of the listing find a newest version.             *)
LEMMA LargestExists ==
  ASSUME NEW n \in Nat, NEW S, S \subseteq 1..n, S # {}
  PROVE  \E m \in S : \A s \in S : s <= m
<1> DEFINE T == {n - s : s \in S}
<1>1. T \subseteq Nat /\ T # {}
  <2>1. \A s \in S : n - s \in Nat
    OBVIOUS
  <2>2. PICK s \in S : TRUE
    OBVIOUS
  <2>3. n - s \in T
    BY <2>2
  <2>4. QED
    BY <2>1, <2>3
<1>2. PICK x \in T : \A y \in T : ~(<<y, x>> \in OpToRel(<, Nat))
  <2> HIDE DEF T
  <2>1. QED
    BY NatLessThanWellFounded, <1>1, WFMin
<1>3. \A y \in T : ~(y < x)
  BY <1>1, <1>2 DEF OpToRel
<1>4. PICK m \in S : x = n - m
  OBVIOUS
<1>5. \A s \in S : s <= m
  <2> SUFFICES ASSUME NEW s \in S PROVE s <= m
    OBVIOUS
  <2>1. n - s \in T
    OBVIOUS
  <2>2. ~(n - s < n - m)
    BY <1>3, <1>4, <2>1
  <2>3. n \in Int /\ s \in Int /\ m \in Int
    OBVIOUS
  <2> HIDE DEF T
  <2>4. QED
    BY <2>2, <2>3
<1>6. QED
  BY <1>5

(* The newest of some versions is one of them and has the largest number. *)
LEMMA NewestIs ==
  ASSUME NEW vs \in SUBSET Version, vs # {}
  PROVE  /\ Newest(vs) \in vs
         /\ \A w \in vs : w.seq <= Newest(vs).seq
<1>1. SeqsOf(vs) \subseteq 1..MaxSeq /\ SeqsOf(vs) # {}
  BY DEF SeqsOf, Version, Seqs
<1>2. PICK m \in SeqsOf(vs) : \A s \in SeqsOf(vs) : s <= m
  BY <1>1, LargestExists, BoundAssumption
<1>3. PICK v \in vs : v.seq = m
  BY <1>2 DEF SeqsOf
<1>4. \A w \in vs : w.seq <= v.seq
  BY <1>2, <1>3 DEF SeqsOf
<1>5. QED
  BY <1>4 DEF Newest

(* The three kinds of ids are apart, and a minted id carries its number. *)
LEMMA Ids ==
  /\ Null # Latest /\ Null \notin Tokens /\ Latest \notin Tokens
  /\ \A t \in Tokens : t[1] \in Seqs /\ t # Null /\ t # Latest
  /\ \A s \in Seqs : Mint(s) \in Tokens /\ Mint(s) # Null /\ Mint(s)[1] = s
  /\ NoVersion.id # Null /\ NoVersion.seq = 0
  /\ \A s : s \in Seqs <=> s \in Nat /\ 1 <= s /\ s <= MaxSeq
  /\ 0 \notin Seqs
<1>1. \A s : s \in Seqs <=> s \in Nat /\ 1 <= s /\ s <= MaxSeq
  BY BoundAssumption DEF Seqs
<1>2. 0 \notin Seqs
  BY <1>1
<1> HIDE DEF Seqs
<1>3. Null # Latest /\ Null \notin Tokens /\ Latest \notin Tokens
  BY <1>2 DEF Null, Latest, Tokens
<1>4. \A t \in Tokens : t[1] \in Seqs /\ t # Null /\ t # Latest
  BY <1>3 DEF Tokens
<1>5. \A s \in Seqs : Mint(s) \in Tokens /\ Mint(s) # Null /\ Mint(s)[1] = s
  <2>1. \A s \in Seqs : Mint(s) \in Tokens /\ Mint(s)[1] = s
    BY DEF Mint, Tokens
  <2>2. QED
    BY <2>1, <1>4
<1>6. NoVersion.id # Null /\ NoVersion.seq = 0
  BY <1>3 DEF NoVersion
<1>7. QED
  BY <1>1, <1>2, <1>3, <1>4, <1>5, <1>6

(* The fields of a version. *)
LEMMA Fields ==
  /\ \A v \in Version : v.seq \in Seqs /\ v.id \in {Null} \cup Tokens /\ v.marker \in BOOLEAN
  /\ \A s \in Seqs, id \in {Null} \cup Tokens, m \in BOOLEAN :
       [seq |-> s, id |-> id, marker |-> m] \in Version
  BY DEF Version

(* The kinds of a request under way, told apart by their first element. *)
LEMMA Kinds ==
  ASSUME NEW x \in Request
  PROVE  /\ x[1] = "complete" => x = <<"complete", x[2]>> /\ x[2] \in 0..MaxSeq
         /\ x[1] = "delete" => x = <<"delete", x[2]>> /\ x[2] \in BOOLEAN
         /\ x[1] = "versioning" => x = <<"versioning", x[2]>> /\ x[2] \in {"enabled", "suspended"}
         /\ x[1] = "lock" => x = <<"lock">>
         /\ x[1] \in {"idle", "complete", "delete", "versioning", "lock"}
<1>1. CASE x = <<"idle">>
  BY <1>1
<1>2. CASE \E s \in 0..MaxSeq : x = <<"complete", s>>
  BY <1>2
<1>3. CASE \E c \in BOOLEAN : x = <<"delete", c>>
  BY <1>3
<1>4. CASE \E v \in {"enabled", "suspended"} : x = <<"versioning", v>>
  BY <1>4
<1>5. CASE x = <<"lock">>
  BY <1>5
<1>6. QED
  BY <1>1, <1>2, <1>3, <1>4, <1>5 DEF Request

(* Each request is one. *)
LEMMA Shapes ==
  /\ Idle \in Request
  /\ \A s \in 0..MaxSeq : <<"complete", s>> \in Request
  /\ \A c \in BOOLEAN : <<"delete", c>> \in Request
  /\ \A v \in {"enabled", "suspended"} : <<"versioning", v>> \in Request
  /\ <<"lock">> \in Request
  BY DEF Request, Idle

-----------------------------------------------------------------------------
(* What a commit does to the versions of the key. *)

New(s, id, m) == [seq |-> s, id |-> id, marker |-> m]

(* The versions that a version with this id replaces: the null one, by a null one. *)
Replaced(id) == {v \in Versions : id = Null /\ v.id = Null}

(* Versions, element by element. *)
LEMMA VersionsAre ==
  ASSUME TypeOK
  PROVE  /\ Versions \subseteq Version
         /\ \A v : v \in Versions <=> v \in prev \/ (form # "absent" /\ v = current)
  BY DEF TypeOK, Versions

(* No two versions of the key have the same number. *)
LEMMA NumberedApart ==
  ASSUME TypeOK, Numbered, NEW v \in Versions, NEW w \in Versions, v.seq = w.seq
  PROVE  v = w
<1>1. \A x : x \in Versions <=> x \in prev \/ (form # "absent" /\ x = current)
  BY VersionsAre
<1>2. v.seq \in Nat /\ w.seq \in Nat
  BY VersionsAre, Fields, Ids
<1>3. QED
  BY <1>1, <1>2 DEF Numbered

(* commitVersionAt discards exactly the versions that the new one replaces: *)
(* looking at the current version and at NullSeq finds the only null one.   *)
LEMMA DiscardedIs ==
  ASSUME TypeOK, Layout, Numbered, NullInv,
         NEW s \in Seqs, NEW id \in {Null, Mint(s)},
         id = Null <=> versioning # "enabled"
  PROVE  /\ Discarded(id) = Replaced(id)
         /\ KeptPrev \ Discarded(id) = Versions \ Replaced(id)
<1> USE Ids
<1>0. /\ \A v : v \in Versions <=> v \in prev \/ (form # "absent" /\ v = current)
      /\ \A v \in Versions : v \in Version /\ v.seq \in Seqs
  BY VersionsAre, Fields
<1>1. CASE id # Null
  <2>1. Discarded(id) = {} /\ Replaced(id) = {}
    BY <1>1 DEF Discarded, Replaced, Retains
  <2>2. KeptPrev = Versions
    BY <1>1, <1>0 DEF KeptPrev, Retains, Layout, Versions
  <2>3. QED
    BY <2>1, <2>2
<1>2. CASE id = Null /\ form # "absent" /\ current.id = Null
  <2>1. ~Retains /\ KeptNull = 0 /\ KeptPrev = prev
    BY <1>2 DEF Retains, KeptNull, KeptPrev, NullInv
  <2>2. Discarded(id) = {current}
    BY <2>1, <1>2 DEF Discarded
  <2>3. \A v \in prev : v.id # Null
    <3>1. \A v \in prev : v.id = Null => v.seq = 0
      BY <1>2 DEF NullInv
    <3>2. QED
      BY <3>1, <1>0
  <2>4. Replaced(id) = {current}
    BY <1>0, <1>2, <2>3 DEF Replaced
  <2>5. prev \ {current} = Versions \ {current}
    BY <1>0, <1>2
  <2>6. QED
    BY <2>1, <2>2, <2>4, <2>5
<1>3. CASE id = Null /\ form # "absent" /\ current.id # Null
  <2>1. Retains /\ KeptNull = nullSeq /\ KeptPrev = Versions
    BY <1>3 DEF Retains, KeptNull, KeptPrev, Versions
  <2>2. Discarded(id) = IF nullSeq # 0 THEN At(Versions, nullSeq) ELSE {}
    BY <2>1, <1>3 DEF Discarded
  <2>3. \A v \in Versions : v.id = Null => v \in prev /\ v.seq = nullSeq
    BY <1>0, <1>3 DEF NullInv
  <2>4. ASSUME nullSeq # 0, NEW v \in Versions, v.seq = nullSeq PROVE v.id = Null
    <3>1. PICK w \in prev : w.seq = nullSeq /\ w.id = Null
      BY <2>4 DEF NullInv
    <3>2. w = v
      BY <3>1, <2>4, <1>0, NumberedApart
    <3>3. QED
      BY <3>1, <3>2
  <2>5. Discarded(id) = Replaced(id)
    BY <2>2, <2>3, <2>4, <1>0, <1>3 DEF At, Replaced
  <2>6. QED
    BY <2>1, <2>5
<1>4. CASE id = Null /\ form = "absent"
  BY <1>4 DEF Layout, Versions, Retains, KeptNull, KeptPrev, Discarded, Replaced
<1>5. QED
  BY <1>1, <1>2, <1>3, <1>4

(* A version that may be committed next: its number is past every other,  *)
(* and it is null exactly when the bucket is not Enabled.                 *)
Fresh(s, id) ==
  /\ s \in Seqs /\ id \in {Null, Mint(s)}
  /\ (id = Null) <=> (versioning # "enabled")
  /\ \A v \in Versions : v.seq < s

Committed(s, id, m, sl, st) ==
  /\ current' = New(s, id, m) /\ current' \in Version
  /\ form' \in {"manifest", "leaf"}
  /\ prev' = Versions \ Replaced(id)
  /\ Versions' = prev' \cup {New(s, id, m)}
  /\ form' = "manifest" => prev' = {} /\ nullSeq' = 0
  /\ nullSeq' = IF id = Null THEN 0 ELSE KeptNull
  /\ locked' = (locked \ SeqsOf(Replaced(id))) \cup (IF sl THEN {s} ELSE {})
  /\ tagged' = (tagged \ SeqsOf(Replaced(id))) \cup (IF st THEN {s} ELSE {})
  /\ claims' = DropClaims(Replaced(id)) \cup ClaimIds({New(s, id, m)})
  /\ leaked' = leaked

(* What commitVersionAt leaves: the versions it did not replace are the *)
(* previous ones, under the new version.                                *)
LEMMA CommitEffect ==
  ASSUME TypeOK, Layout, Numbered, NullInv, NEW s, NEW id, NEW m \in BOOLEAN,
         NEW sl \in BOOLEAN, NEW st \in BOOLEAN, Fresh(s, id),
         CommitVersion(s, id, m, sl, st)
  PROVE  Committed(s, id, m, sl, st)
<1>0. /\ s \in Seqs /\ id \in {Null, Mint(s)}
      /\ (id = Null) <=> (versioning # "enabled")
  BY DEF Fresh
<1>1. /\ current' = New(s, id, m)
      /\ form' = IF form = "leaf" \/ Retains \/ sl \/ st THEN "leaf" ELSE "manifest"
      /\ prev' = KeptPrev \ Discarded(id)
      /\ nullSeq' = IF id = Null THEN 0 ELSE KeptNull
      /\ locked' = (locked \ SeqsOf(Discarded(id))) \cup (IF sl THEN {s} ELSE {})
      /\ tagged' = (tagged \ SeqsOf(Discarded(id))) \cup (IF st THEN {s} ELSE {})
      /\ claims' = DropClaims(Discarded(id)) \cup ClaimIds({New(s, id, m)})
      /\ leaked' = leaked
  BY DEF CommitVersion, New
<1>2. /\ Discarded(id) = Replaced(id)
      /\ KeptPrev \ Discarded(id) = Versions \ Replaced(id)
  BY DiscardedIs, <1>0
<1>3. New(s, id, m) \in Version
  BY Fields, Ids, <1>0 DEF New
<1>4. form' \in {"manifest", "leaf"}
  BY <1>1
<1>5. Versions' = prev' \cup {New(s, id, m)}
  BY <1>1, <1>4 DEF Versions
<1>6. ASSUME form' = "manifest" PROVE prev' = {} /\ nullSeq' = 0
  <2>1. form # "leaf" /\ ~Retains
    BY <1>1, <1>6
  <2>2. prev = {} /\ nullSeq = 0 /\ KeptPrev = {} /\ KeptNull = 0
    BY <2>1 DEF TypeOK, Layout, KeptPrev, KeptNull
  <2>3. QED
    BY <2>2, <1>1
<1>7. QED
  BY <1>1, <1>2, <1>3, <1>4, <1>5, <1>6 DEF Committed

(* A commit keeps the value laid out, numbered and with its null named. *)
LEMMA CommitValue ==
  ASSUME TypeOK, Layout, Numbered, NullInv, NEW s, NEW id, NEW m \in BOOLEAN,
         NEW sl \in BOOLEAN, NEW st \in BOOLEAN, Fresh(s, id),
         Committed(s, id, m, sl, st)
  PROVE  Layout' /\ Numbered' /\ NullInv'
<1>0. /\ current' = New(s, id, m)
      /\ form' \in {"manifest", "leaf"}
      /\ prev' = Versions \ Replaced(id)
      /\ Versions' = prev' \cup {New(s, id, m)}
      /\ form' = "manifest" => prev' = {} /\ nullSeq' = 0
      /\ nullSeq' = IF id = Null THEN 0 ELSE KeptNull
  BY DEF Committed
<1>f. /\ s \in Seqs /\ id \in {Null, Mint(s)}
      /\ (id = Null) <=> (versioning # "enabled")
      /\ \A v \in Versions : v.seq < s
  BY DEF Fresh
<1>1. New(s, id, m).seq = s /\ New(s, id, m).id = id
  BY DEF New
<1>v. /\ \A v : v \in Versions <=> v \in prev \/ (form # "absent" /\ v = current)
      /\ \A v \in Versions : v \in Version /\ v.seq \in Seqs
  BY VersionsAre, Fields
<1>2. Layout'
  BY <1>0 DEF Layout
<1>3. Numbered'
  <2>1. \A v \in prev' : v.seq < current'.seq
    BY <1>0, <1>1, <1>f
  <2>2. \A v, w \in prev' : v.seq = w.seq => v = w
    BY <1>0, NumberedApart
  <2>3. \A v \in Versions' : v.id = Null \/ v.id = Mint(v.seq)
    BY <1>0, <1>1, <1>f DEF Numbered
  <2>4. QED
    BY <2>1, <2>2, <2>3 DEF Numbered
<1>4. NullInv'
  <2>1. CASE id = Null
    BY <2>1, <1>0 DEF NullInv, Replaced
  <2>2. CASE id # Null
    <3>1. Replaced(id) = {} /\ prev' = Versions /\ nullSeq' = KeptNull /\ current'.id # Null
      BY <2>2, <1>0, <1>1 DEF Replaced
    <3>2. CASE form = "absent"
      BY <3>1, <3>2 DEF Layout, Retains, KeptNull, Versions, NullInv
    <3>3. CASE form # "absent" /\ current.id = Null
      <4>1. nullSeq' = current.seq /\ nullSeq = 0
        BY <3>1, <3>3, <2>2, <1>f DEF Retains, KeptNull, NullInv
      <4>2. \A v \in prev : v.id # Null
        BY <4>1, <1>v, Ids DEF NullInv
      <4>3. QED
        BY <3>1, <3>3, <4>1, <4>2, <1>v DEF NullInv
    <3>4. CASE form # "absent" /\ current.id # Null
      <4>1. nullSeq' = nullSeq
        BY <3>1, <3>4 DEF KeptNull
      <4>2. QED
        BY <3>1, <3>4, <4>1, <1>v DEF NullInv
    <3>5. QED
      BY <3>2, <3>3, <3>4
  <2>3. QED
    BY <2>1, <2>2
<1>5. QED
  BY <1>2, <1>3, <1>4

(* What taking one version out of the value leaves. *)
LEMMA UnlinkEffect ==
  ASSUME TypeOK, Layout, Numbered, NullInv, NEW t \in Versions, Unlink(t)
  PROVE  /\ Versions' = Versions \ {t}
         /\ Layout' /\ Numbered' /\ NullInv'
         /\ form' \in {form, "absent"}
         /\ current' \in Version \cup {NoVersion}
         /\ form' # "absent" => current' \in Version
         /\ prev' \subseteq prev
         /\ nullSeq' \in {0, nullSeq}
         /\ locked' = locked \ {t.seq} /\ tagged' = tagged \ {t.seq}
<1>v. /\ \A v : v \in Versions <=> v \in prev \/ (form # "absent" /\ v = current)
      /\ \A v \in Versions : v \in Version /\ v.seq \in Seqs /\ v.seq \in Nat
      /\ \A v, w \in Versions : v.seq = w.seq => v = w
      /\ form # "absent" /\ form \in {"manifest", "leaf"} /\ current \in Versions
      /\ \A v \in prev : v.seq < current.seq /\ v # current
  <2>1. /\ \A v : v \in Versions <=> v \in prev \/ (form # "absent" /\ v = current)
        /\ \A v \in Versions : v \in Version /\ v.seq \in Seqs /\ v.seq \in Nat
        /\ \A v, w \in Versions : v.seq = w.seq => v = w
    BY VersionsAre, Fields, NumberedApart, Ids
  <2>2. form # "absent" /\ form \in {"manifest", "leaf"}
    BY DEF Layout, Versions, TypeOK
  <2>3. \A v \in prev : v.seq < current.seq
    BY DEF Numbered
  <2>4. QED
    BY <2>1, <2>2, <2>3
<1>0. locked' = locked \ {t.seq} /\ tagged' = tagged \ {t.seq}
  BY DEF Unlink
<1>1. CASE t # current
  <2>0. /\ prev' = prev \ {t} /\ form' = form /\ current' = current
        /\ nullSeq' = IF t.seq = nullSeq THEN 0 ELSE nullSeq
        /\ t \in prev
    BY <1>1, <1>v DEF Unlink
  <2>1. Versions' = Versions \ {t}
    BY <2>0, <1>v, <1>1 DEF Versions
  <2>2. Layout'
    BY <2>0, <1>v DEF Layout
  <2>3. Numbered'
    BY <2>0, <2>1 DEF Numbered
  <2>4. NullInv'
    <3>1. \A v \in prev' : v.id = Null => v.seq = nullSeq'
      BY <2>0, <1>v DEF NullInv
    <3>2. nullSeq' # 0 => \E v \in prev' : v.seq = nullSeq' /\ v.id = Null
      BY <2>0, <1>v DEF NullInv
    <3>3. QED
      BY <3>1, <3>2, <2>0 DEF NullInv
  <2>5. QED
    BY <2>0, <2>1, <2>2, <2>3, <2>4, <1>0, <1>v
<1>2. CASE t = current /\ prev = {}
  <2>0. prev' = {} /\ form' = "absent" /\ current' = NoVersion /\ nullSeq' = 0
    BY <1>2 DEF Unlink
  <2>1. Versions' = {} /\ Versions = {t}
    BY <2>0, <1>v, <1>2 DEF Versions
  <2>2. Layout' /\ Numbered' /\ NullInv'
    BY <2>0, <2>1 DEF Layout, Numbered, NullInv
  <2>3. QED
    BY <2>0, <2>1, <2>2, <1>0
<1>3. CASE t = current /\ prev # {}
  <2> DEFINE head == Newest(prev)
  <2>0. /\ prev' = prev \ {head} /\ form' = form /\ current' = head
        /\ nullSeq' = IF head.seq = nullSeq THEN 0 ELSE nullSeq
    BY <1>3 DEF Unlink
  <2>h. head \in prev /\ head \in Version /\ head # current /\ \A w \in prev : w.seq <= head.seq
    BY <1>3, NewestIs, <1>v DEF TypeOK
  <2> HIDE DEF head
  <2>1. Versions' = Versions \ {t}
    BY <2>0, <2>h, <1>v, <1>3 DEF Versions
  <2>2. Layout'
    BY <2>0, <1>v, <1>3 DEF Layout
  <2>3. Numbered'
    <3>1. \A v \in prev' : v.seq < current'.seq
      BY <2>0, <2>h, <1>v
    <3>2. QED
      BY <3>1, <2>0, <2>1 DEF Numbered
  <2>4. NullInv'
    <3>1. \A v \in prev' : v.id = Null => v.seq = nullSeq'
      BY <2>0, <2>h, <1>v DEF NullInv
    <3>2. nullSeq' # 0 => \E v \in prev' : v.seq = nullSeq' /\ v.id = Null
      BY <2>0, <2>h, <1>v DEF NullInv
    <3>3. current'.id = Null => nullSeq' = 0
      BY <2>0, <2>h, <1>v DEF NullInv
    <3>4. QED
      BY <3>1, <3>2, <3>3 DEF NullInv
  <2>5. QED
    BY <2>0, <2>h, <2>1, <2>2, <2>3, <2>4, <1>0, <1>v
<1>4. QED
  BY <1>1, <1>2, <1>3

-----------------------------------------------------------------------------
(* Ids and listings. *)

(* A null marker stands for the null version, wherever it is kept; without *)
(* one the listing starts over (listversions.go).                          *)
LEMMA NullPlace ==
  ASSUME TypeOK, Layout, NullInv
  PROVE  /\ \A w \in Versions : w.id = Null => SeqBelow(Null) = w.seq
         /\ (\A w \in Versions : w.id # Null) => SeqBelow(Null) = MaxSeq + 1
<1>0. SeqBelow(Null) = IF current.id = Null THEN current.seq
                      ELSE IF nullSeq # 0 THEN nullSeq ELSE MaxSeq + 1
  BY Ids DEF SeqBelow
<1>v. /\ \A v : v \in Versions <=> v \in prev \/ (form # "absent" /\ v = current)
      /\ \A v \in prev : v.seq \in Seqs
  BY Fields DEF TypeOK, Versions
<1>1. CASE form = "absent"
  <2>1. current.id # Null /\ nullSeq = 0 /\ Versions = {}
    BY <1>1, Ids DEF Layout, Versions
  <2>2. QED
    BY <2>1, <1>0
<1>2. CASE form # "absent" /\ current.id = Null
  <2>1. nullSeq = 0
    BY <1>2 DEF NullInv
  <2>2. \A v \in prev : v.id # Null
    BY <2>1, <1>v, Ids DEF NullInv
  <2>3. QED
    BY <1>0, <1>2, <1>v, <2>2
<1>3. CASE form # "absent" /\ current.id # Null
  BY <1>0, <1>3, <1>v, Ids DEF NullInv
<1>4. QED
  BY <1>1, <1>2, <1>3

(* The same of the state after a step. *)
LEMMA NullPlaceAfter ==
  ASSUME TypeOK', Layout', NullInv'
  PROVE  /\ \A w \in Versions' : w.id = Null => SeqBelow(Null)' = w.seq
         /\ (\A w \in Versions' : w.id # Null) => SeqBelow(Null)' = MaxSeq + 1
<1>0. SeqBelow(Null)' = IF current'.id = Null THEN current'.seq
                      ELSE IF nullSeq' # 0 THEN nullSeq' ELSE MaxSeq + 1
  BY Ids DEF SeqBelow
<1>v. /\ \A v : v \in Versions' <=> v \in prev' \/ (form' # "absent" /\ v = current')
      /\ \A v \in prev' : v.seq \in Seqs
  BY Fields DEF TypeOK, Versions
<1>1. CASE form' = "absent"
  <2>1. current'.id # Null /\ nullSeq' = 0 /\ Versions' = {}
    BY <1>1, Ids DEF Layout, Versions
  <2>2. QED
    BY <2>1, <1>0
<1>2. CASE form' # "absent" /\ current'.id = Null
  <2>1. nullSeq' = 0
    BY <1>2 DEF NullInv
  <2>2. \A v \in prev' : v.id # Null
    BY <2>1, <1>v, Ids DEF NullInv
  <2>3. QED
    BY <1>0, <1>2, <1>v, <2>2
<1>3. CASE form' # "absent" /\ current'.id # Null
  BY <1>0, <1>3, <1>v, Ids DEF NullInv
<1>4. QED
  BY <1>1, <1>2, <1>3

(* Reads and scoped deletes find exactly the version with the id they are  *)
(* given (resolveVersionIn, mutateVersionState), since an id carries the   *)
(* number its version is stored under and NullSeq finds the only null one. *)
LEMMA IdsFound ==
  ASSUME TypeOK, Layout, Numbered, NullInv
  PROVE  IdsResolve
<1> SUFFICES ASSUME NEW id \in {Null} \cup Tokens
             PROVE  LET named == {v \in Versions : v.id = id}
                    IN Resolve(id) = named /\ Target(id) = named /\ Cardinality(named) <= 1
  BY DEF IdsResolve
<1> DEFINE named == {v \in Versions : v.id = id}
<1>v. /\ \A v : v \in Versions <=> v \in prev \/ (form # "absent" /\ v = current)
      /\ \A v \in Versions : v \in Version /\ v.seq \in Seqs /\ v.seq \in Nat
      /\ \A v, w \in Versions : v.seq = w.seq => v = w
      /\ id # Latest
      /\ id # Null => id \in Tokens /\ id[1] \in Seqs
      /\ \A v \in Versions : v.id = id /\ id # Null => v.seq = id[1]
  <2>1. /\ \A v : v \in Versions <=> v \in prev \/ (form # "absent" /\ v = current)
        /\ \A v \in Versions : v \in Version /\ v.seq \in Seqs /\ v.seq \in Nat
        /\ \A v, w \in Versions : v.seq = w.seq => v = w
    BY VersionsAre, Fields, Ids, NumberedApart
  <2>2. id # Latest /\ (id # Null => id \in Tokens /\ id[1] \in Seqs)
    BY Ids
  <2>3. ASSUME NEW v \in Versions, v.id = id, id # Null PROVE v.seq = id[1]
    <3>1. id = Mint(v.seq)
      BY <2>3 DEF Numbered
    <3>2. QED
      BY <3>1, <2>1, <2>3, Ids
  <2>4. QED
    BY <2>1, <2>2, <2>3
<1>c. Cardinality(named) <= 1
  <2>1. \A v, w \in named : v = w
    <3>1. CASE id = Null
      <4>1. \A v \in named : v.seq = SeqBelow(Null)
        BY <3>1, NullPlace
      <4>2. QED
        BY <4>1, <1>v
    <3>2. CASE id # Null
      BY <3>2, <1>v
    <3>3. QED
      BY <3>1, <3>2
  <2> HIDE DEF named
  <2>2. CASE named = {}
    BY <2>2, FS_EmptySet
  <2>3. CASE named # {}
    <3>1. PICK w : w \in named
      BY <2>3
    <3>2. named = {w}
      BY <3>1, <2>1
    <3>3. Cardinality({w}) = 1
      BY FS_Singleton
    <3>4. QED
      BY <3>2, <3>3
  <2>4. QED
    BY <2>2, <2>3
<1>1. CASE form = "absent"
  <2>1. named = {}
    BY <1>1 DEF Layout, Versions
  <2>2. Resolve(id) = {} /\ Target(id) = {}
    BY <1>1 DEF Resolve, Target
  <2>3. QED
    BY <2>1, <2>2, <1>c
<1>2. CASE form # "absent" /\ id = Null
  <2>1. Target(id) = IF current.id = Null THEN {current}
                     ELSE IF nullSeq = 0 THEN {} ELSE At(prev, nullSeq)
    BY <1>2, <1>v DEF Target
  <2>2. Resolve(id) = Target(id)
    <3>1. CASE form = "leaf"
      BY <3>1, <2>1, <1>2, <1>v DEF Resolve
    <3>2. CASE form = "manifest"
      BY <3>2, <2>1, <1>2, <1>v DEF Resolve, Layout
    <3>3. QED
      BY <3>1, <3>2, <1>2 DEF TypeOK
  <2>3. CASE current.id = Null
    <3>1. \A v \in prev : v.id # Null
      BY <1>2, <2>3, <1>v, Ids DEF NullInv
    <3>2. named = {current}
      BY <3>1, <2>3, <1>2, <1>v
    <3>3. QED
      BY <3>2, <2>1, <2>2, <2>3, <1>c
  <2>4. CASE current.id # Null /\ nullSeq = 0
    <3>1. named = {}
      BY <2>4, <1>2, <1>v, Ids DEF NullInv
    <3>2. QED
      BY <3>1, <2>1, <2>2, <2>4, <1>c
  <2>5. CASE current.id # Null /\ nullSeq # 0
    <3>1. PICK w \in prev : w.seq = nullSeq /\ w.id = Null
      BY <2>5 DEF NullInv
    <3>2. At(prev, nullSeq) = {w}
      BY <3>1, <1>v DEF At
    <3>3. named = {w}
      BY <3>1, <1>2, <2>5, <1>v DEF NullInv
    <3>4. QED
      BY <3>2, <3>3, <2>1, <2>2, <2>5, <1>c
  <2>6. QED
    BY <2>3, <2>4, <2>5
<1>3. CASE form # "absent" /\ id # Null
  <2>1. Target(id) = IF current.id = id THEN {current} ELSE {v \in At(prev, id[1]) : v.id = id}
    BY <1>3, <1>v DEF Target
  <2>2. Target(id) = named
    <3>1. CASE current.id = id
      <4>1. \A v \in named : v = current
        BY <3>1, <1>3, <1>v
      <4>2. QED
        BY <4>1, <3>1, <2>1, <1>3, <1>v
    <3>2. CASE current.id # id
      BY <3>2, <2>1, <1>3, <1>v DEF At
    <3>3. QED
      BY <3>1, <3>2
  <2>3. Resolve(id) = named
    <3>1. CASE form = "leaf"
      <4>1. Resolve(id) = IF current.seq = id[1] THEN {v \in {current} : v.id = id}
                          ELSE {v \in At(prev, id[1]) : v.id = id}
        BY <3>1, <1>3, <1>v DEF Resolve
      <4>2. CASE current.seq = id[1]
        <5>1. \A v \in named : v = current
          BY <4>2, <1>3, <1>v
        <5>2. QED
          BY <5>1, <4>1, <4>2, <1>3, <1>v
      <4>3. CASE current.seq # id[1]
        BY <4>1, <4>3, <1>3, <1>v DEF At
      <4>4. QED
        BY <4>2, <4>3
    <3>2. CASE form = "manifest"
      <4>1. Resolve(id) = IF current.id = id THEN {current} ELSE {}
        BY <3>2, <1>v DEF Resolve
      <4>2. Versions = {current}
        BY <3>2 DEF Layout, Versions
      <4>3. QED
        BY <4>1, <4>2
    <3>3. QED
      BY <3>1, <3>2, <1>3 DEF TypeOK
  <2>4. QED
    BY <2>2, <2>3, <1>c
<1>4. QED
  BY <1>1, <1>2, <1>3

(* Between two pages a listing loses nothing: the place it resumes at moves *)
(* only up, and what is committed meanwhile is not owed.                    *)
LEMMA ListingKept ==
  ASSUME TypeOK, Layout, Numbered, NullInv, ListInv,
         TypeOK', Layout', NullInv', list' = list, NEW n,
         Versions' \subseteq Versions \cup {n},
         n \in Versions \/ (n \notin list.owed /\ \A v \in Versions : v.seq < n.seq)
  PROVE  ListInv'
<1>1. ListingComplete'
  BY DEF ListInv, ListingComplete
<1>2. ASSUME list.page = "more", NEW v \in list.owed, v \in Versions'
      PROVE  v.seq < SeqBelow(list.marker)'
  <2>0. v \in Versions /\ v.seq < SeqBelow(list.marker) /\ v.seq \in Nat /\ v.seq <= MaxSeq
    <3>1. v \in Versions
      BY <1>2
    <3>2. v.seq < SeqBelow(list.marker)
      BY <3>1, <1>2 DEF ListInv
    <3>3. QED
      BY <3>1, <3>2, VersionsAre, Fields, Ids
  <2>1. CASE list.marker # Null
    <3>1. SeqBelow(list.marker)' = SeqBelow(list.marker)
      BY <2>1 DEF SeqBelow
    <3>2. QED
      BY <3>1, <2>0
  <2>2. CASE list.marker = Null
    <3>0. /\ \A w \in Versions : w.id = Null => SeqBelow(Null) = w.seq
          /\ \A w \in Versions' : w.id = Null => SeqBelow(Null)' = w.seq
          /\ (\A w \in Versions' : w.id # Null) => SeqBelow(Null)' = MaxSeq + 1
      BY NullPlace, NullPlaceAfter
    <3>1. CASE \E w \in Versions' : w.id = Null
      <4>1. PICK w \in Versions' : w.id = Null
        BY <3>1
      <4>2. SeqBelow(Null)' = w.seq
        BY <4>1, <3>0
      <4>3. CASE w \in Versions
        <5>1. SeqBelow(Null) = w.seq
          BY <4>1, <4>3, <3>0
        <5>2. QED
          BY <5>1, <4>2, <2>0, <2>2
      <4>4. CASE w \notin Versions
        <5>1. w = n /\ v.seq < n.seq
          BY <4>4, <2>0
        <5>2. QED
          BY <5>1, <4>2, <2>2
      <4>5. QED
        BY <4>3, <4>4
    <3>2. CASE \A w \in Versions' : w.id # Null
      <4>1. SeqBelow(Null)' = MaxSeq + 1
        BY <3>2, <3>0
      <4>2. v.seq < MaxSeq + 1
        BY <2>0, BoundAssumption
      <4>3. QED
        BY <4>1, <4>2, <2>2
    <3>3. QED
      BY <3>1, <3>2
  <2>3. QED
    BY <2>1, <2>2
<1>3. QED
  BY <1>1, <1>2 DEF ListInv

-----------------------------------------------------------------------------
(* The invariant: the shapes of a step. *)

(* The state after one request began or ended. *)
LEMMA ReqSet ==
  ASSUME TypeOK, NEW r \in Requests, NEW w \in Request, req' = [req EXCEPT ![r] = w]
  PROVE  /\ req' \in [Requests -> Request]
         /\ \A q \in Requests : req'[q] = IF q = r THEN w ELSE req[q]
  BY DEF TypeOK

(* A request that ended holds no number; the others hold what they held. *)
LEMMA Ended ==
  ASSUME TypeOK, NEW r \in Requests, End(r)
  PROVE  /\ req' \in [Requests -> Request]
         /\ \A q \in Requests : req'[q] = IF q = r THEN Idle ELSE req[q]
         /\ \A q \in Requests, x \in Seqs : Holds(q, x)' => Holds(q, x) /\ q # r
<1>1. /\ req' \in [Requests -> Request]
      /\ \A q \in Requests : req'[q] = IF q = r THEN Idle ELSE req[q]
  BY ReqSet, Shapes DEF End
<1>2. ASSUME NEW q \in Requests, NEW x \in Seqs, Holds(q, x)'
      PROVE  Holds(q, x) /\ q # r
  <2>1. req'[q] = <<"complete", x>>
    BY <1>2 DEF Holds
  <2>2. Idle # <<"complete", x>>
    BY DEF Idle
  <2>3. QED
    BY <1>1, <2>1, <2>2 DEF Holds
<1>3. QED
  BY <1>1, <1>2

(* The claims and numbers of typed versions are typed. *)
LEMMA IndexTypes ==
  ASSUME NEW vs \in SUBSET Version
  PROVE  ClaimIds(vs) \subseteq Seqs \X BOOLEAN /\ SeqsOf(vs) \subseteq Seqs
<1>1. \A v \in vs : v.seq \in Seqs /\ (v.id = Null) \in BOOLEAN
  BY Fields
<1>2. \A v \in vs : <<v.seq, v.id = Null>> \in Seqs \X BOOLEAN
  BY <1>1
<1>3. ClaimIds(vs) \subseteq Seqs \X BOOLEAN
  BY <1>2, Zenon DEF ClaimIds
<1>4. QED
  BY <1>1, <1>3 DEF SeqsOf

(* A commit keeps the types. *)
LEMMA CommitTyped ==
  ASSUME TypeOK, Layout, Numbered, NullInv, NEW s, NEW id, NEW m \in BOOLEAN,
         NEW sl \in BOOLEAN, NEW st \in BOOLEAN, Fresh(s, id),
         Committed(s, id, m, sl, st), UNCHANGED <<settings, list>>,
         lastSeq' \in 0..MaxSeq, req' \in [Requests -> Request]
  PROVE  TypeOK'
<1>0. /\ current' = New(s, id, m) /\ current' \in Version
      /\ form' \in {"manifest", "leaf"}
      /\ prev' = Versions \ Replaced(id)
      /\ nullSeq' = IF id = Null THEN 0 ELSE KeptNull
      /\ locked' = (locked \ SeqsOf(Replaced(id))) \cup (IF sl THEN {s} ELSE {})
      /\ tagged' = (tagged \ SeqsOf(Replaced(id))) \cup (IF st THEN {s} ELSE {})
      /\ claims' = DropClaims(Replaced(id)) \cup ClaimIds({New(s, id, m)})
      /\ leaked' = leaked
  BY DEF Committed
<1>1. s \in Seqs
  BY DEF Fresh
<1>2. prev' \subseteq Version
  BY <1>0, VersionsAre
<1>3. nullSeq' \in 0..MaxSeq
  <2>1. KeptNull \in 0..MaxSeq
    <3>1. form # "absent" => current.seq \in 1..MaxSeq
      BY Fields DEF TypeOK, Seqs
    <3>2. QED
      BY <3>1, BoundAssumption DEF KeptNull, Retains, TypeOK
  <2>2. QED
    BY <2>1, <1>0, BoundAssumption
<1>4. locked' \subseteq Seqs /\ tagged' \subseteq Seqs
  BY <1>0, <1>1 DEF TypeOK
<1>5. claims' \subseteq Seqs \X BOOLEAN
  <2>1. ClaimIds({New(s, id, m)}) \subseteq Seqs \X BOOLEAN
    BY <1>0, IndexTypes
  <2>2. QED
    BY <1>0, <2>1 DEF TypeOK, DropClaims
<1>6. QED
  BY <1>0, <1>2, <1>3, <1>4, <1>5 DEF TypeOK, settings

(* A commit of a version with a new number, or with one its request had. *)
LEMMA WriteStep ==
  ASSUME VInv, NEW s, NEW id, NEW m \in BOOLEAN, NEW sl \in BOOLEAN, NEW st \in BOOLEAN,
         Fresh(s, id), CommitVersion(s, id, m, sl, st), UNCHANGED <<settings, list>>,
         lastSeq' \in 0..MaxSeq, lastSeq <= lastSeq', s <= lastSeq',
         req' \in [Requests -> Request],
         \A q \in Requests, x \in Seqs : Holds(q, x)' => Holds(q, x) /\ x # s,
         \A v \in list.owed : v.seq # s
  PROVE  VInv'
<1> USE DEF VInv
<1>1. Committed(s, id, m, sl, st)
  BY CommitEffect
<1>2. TypeOK'
  BY <1>1, CommitTyped
<1>3. Layout' /\ Numbered' /\ NullInv'
  BY <1>1, CommitValue
<1>4. /\ prev' = Versions \ Replaced(id)
      /\ Versions' = prev' \cup {New(s, id, m)}
      /\ locked' \subseteq (locked \ SeqsOf(Replaced(id))) \cup {s}
      /\ tagged' \subseteq (tagged \ SeqsOf(Replaced(id))) \cup {s}
      /\ New(s, id, m).seq = s
      /\ Versions' \subseteq Versions \cup {New(s, id, m)}
      /\ list' = list
      /\ \A v \in Versions : v.seq < s
  <2>1. /\ prev' = Versions \ Replaced(id)
        /\ Versions' = prev' \cup {New(s, id, m)}
        /\ locked' = (locked \ SeqsOf(Replaced(id))) \cup (IF sl THEN {s} ELSE {})
        /\ tagged' = (tagged \ SeqsOf(Replaced(id))) \cup (IF st THEN {s} ELSE {})
    BY <1>1 DEF Committed
  <2>2. New(s, id, m).seq = s /\ \A v \in Versions : v.seq < s
    BY DEF New, Fresh
  <2>3. QED
    BY <2>1, <2>2
<1>t. /\ lastSeq \in Nat /\ lastSeq' \in Nat /\ s \in Nat
      /\ \A v \in Versions \cup list.owed : v.seq \in Nat
  <2>1. \A v \in Version : v.seq \in Nat
    BY Fields, Ids
  <2>2. list.owed \subseteq Version /\ lastSeq \in Nat
    BY DEF TypeOK
  <2>3. QED
    BY <2>1, <2>2, VersionsAre, Ids DEF Fresh
<1>5. SeqInv'
  <2>1. \A v \in Versions' \cup list'.owed : v.seq <= lastSeq'
    BY <1>4, <1>t DEF SeqInv
  <2>2. ASSUME NEW q \in Requests, NEW x \in Seqs, Holds(q, x)'
        PROVE  /\ x <= lastSeq'
               /\ \A v \in Versions' \cup list'.owed : v.seq # x
               /\ \A p \in Requests : Holds(p, x)' => p = q
    <3>1. Holds(q, x) /\ x # s /\ x \in Nat
      BY <2>2, Ids
    <3>2. /\ x <= lastSeq
          /\ \A v \in Versions \cup list.owed : v.seq # x
          /\ \A p \in Requests : Holds(p, x) => p = q
      BY <3>1 DEF SeqInv
    <3>3. x <= lastSeq'
      BY <3>1, <3>2, <1>t
    <3>4. \A v \in Versions' \cup list'.owed : v.seq # x
      BY <3>1, <3>2, <1>4
    <3>5. QED
      BY <3>2, <3>3, <3>4
  <2>3. QED
    BY <2>1, <2>2 DEF SeqInv
<1>6. MarksInv'
  <2>1. ASSUME NEW x \in locked \cup tagged, x \notin SeqsOf(Replaced(id))
        PROVE  x \in SeqsOf(Versions')
    <3>1. PICK v \in Versions : v.seq = x
      BY <2>1 DEF MarksInv, SeqsOf
    <3>2. v \notin Replaced(id)
      BY <3>1, <2>1 DEF SeqsOf
    <3>3. QED
      BY <3>1, <3>2, <1>4 DEF SeqsOf
  <2>2. s \in SeqsOf(Versions')
    BY <1>4 DEF SeqsOf
  <2>3. locked' \cup tagged' \subseteq SeqsOf(Versions')
    BY <2>1, <2>2, <1>4
  <2>4. SeqsOf(Versions)' = SeqsOf(Versions')
    BY DEF SeqsOf
  <2>5. QED
    BY <2>3, <2>4 DEF MarksInv
<1>7. ListInv'
  <2>1. New(s, id, m) \notin list.owed /\ \A v \in Versions : v.seq < New(s, id, m).seq
    BY <1>4
  <2>2. QED
    BY <2>1, <1>2, <1>3, <1>4, ListingKept
<1>8. QED
  BY <1>2, <1>3, <1>5, <1>6, <1>7

(* A step that only takes versions away, or only changes their marks. *)
LEMMA ShrinkStep ==
  ASSUME VInv, list' = list, lastSeq' = lastSeq, TypeOK', Layout', Numbered', NullInv',
         Versions' \subseteq Versions, MarksInv',
         \A q \in Requests, x \in Seqs : Holds(q, x)' => Holds(q, x)
  PROVE  VInv'
<1> USE DEF VInv
<1>1. SeqInv'
  BY DEF SeqInv
<1>2. ListInv'
  <2>1. CASE Versions = {}
    <3>1. Versions' = {}
      BY <2>1
    <3>2. QED
      BY <3>1 DEF ListInv, ListingComplete
  <2>2. CASE Versions # {}
    <3>1. PICK n \in Versions : TRUE
      BY <2>2
    <3>2. QED
      BY <3>1, ListingKept
  <2>3. QED
    BY <2>1, <2>2
<1>3. QED
  BY <1>1, <1>2

(* A step of a request that leaves the key alone and may take a number. *)
LEMMA RequestStep ==
  ASSUME VInv, UNCHANGED <<value, indexes, list>>,
         versioning' \in {"unversioned", "enabled", "suspended"}, lockConfig' \in BOOLEAN,
         lastSeq' \in 0..MaxSeq, lastSeq <= lastSeq', req' \in [Requests -> Request],
         \A q \in Requests, x \in Seqs : Holds(q, x)' =>
           \/ Holds(q, x)
           \/ /\ lastSeq < x /\ x <= lastSeq'
              /\ \A p \in Requests : Holds(p, x)' => p = q
  PROVE  VInv'
<1> USE DEF VInv, value, indexes
<1>1. TypeOK'
  BY DEF TypeOK
<1>2. Versions' = Versions
  BY DEF Versions
<1>3. Layout' /\ Numbered' /\ NullInv' /\ MarksInv'
  BY <1>2 DEF Layout, Numbered, NullInv, MarksInv, SeqsOf
<1>4. ListInv'
  BY <1>2 DEF ListInv, ListingComplete, SeqBelow
<1>t. /\ lastSeq \in Nat /\ lastSeq' \in Nat
      /\ \A v \in Versions \cup list.owed : v.seq \in Nat
  <2>1. \A v \in Version : v.seq \in Nat
    BY Fields, Ids
  <2>2. list.owed \subseteq Version /\ lastSeq \in Nat
    BY DEF TypeOK
  <2>3. QED
    BY <2>1, <2>2, VersionsAre
<1>5. SeqInv'
  <2>0. \A v \in Versions \cup list.owed : v.seq <= lastSeq
    BY DEF SeqInv
  <2>1. \A v \in Versions' \cup list'.owed : v.seq <= lastSeq'
    BY <2>0, <1>2, <1>t
  <2>2. ASSUME NEW q \in Requests, NEW x \in Seqs, Holds(q, x)'
        PROVE  /\ x <= lastSeq'
               /\ \A v \in Versions' \cup list'.owed : v.seq # x
               /\ \A p \in Requests : Holds(p, x)' => p = q
    <3>t. x \in Nat
      BY Ids
    <3>1. CASE Holds(q, x)
      <4>1. /\ x <= lastSeq
            /\ \A v \in Versions \cup list.owed : v.seq # x
            /\ \A p \in Requests : Holds(p, x) => p = q
        BY <3>1 DEF SeqInv
      <4>2. ASSUME NEW p \in Requests, Holds(p, x)' PROVE p = q
        <5>1. Holds(p, x)
          BY <4>1, <4>2, <1>t, <3>t
        <5>2. QED
          BY <5>1, <4>1
      <4>3. QED
        BY <4>1, <4>2, <1>2, <1>t, <3>t
    <3>2. CASE ~Holds(q, x)
      BY <3>2, <2>2, <2>0, <1>2, <1>t, <3>t
    <3>3. QED
      BY <3>1, <3>2
  <2>3. QED
    BY <2>1, <2>2 DEF SeqInv
<1>6. QED
  BY <1>1, <1>3, <1>4, <1>5

-----------------------------------------------------------------------------
(* The invariant: the steps. *)

(* The number a commit takes is new, and the id fits the bucket's settings. *)
LEMMA NextFresh ==
  ASSUME VInv, AllocVersionSeq
  PROVE  /\ Fresh(lastSeq + 1, NextId)
         /\ lastSeq' = lastSeq + 1 /\ lastSeq' \in 0..MaxSeq /\ lastSeq <= lastSeq'
         /\ \A v \in list.owed : v.seq # lastSeq + 1
         /\ \A q \in Requests, x \in Seqs : Holds(q, x) => x # lastSeq + 1
<1>1. /\ lastSeq \in Nat /\ lastSeq' = lastSeq + 1 /\ lastSeq' \in 0..MaxSeq
      /\ lastSeq + 1 \in Seqs
  BY BoundAssumption DEF AllocVersionSeq, VInv, TypeOK, Seqs
<1>2. \A v \in Versions \cup list.owed : v.seq \in Nat /\ v.seq <= lastSeq
  <2>1. \A v \in Version : v.seq \in Nat
    BY Fields, Ids
  <2>2. list.owed \subseteq Version
    BY DEF VInv, TypeOK
  <2>3. QED
    BY <2>1, <2>2, VersionsAre DEF VInv, SeqInv
<1>3. \A q \in Requests, x \in Seqs : Holds(q, x) => x <= lastSeq /\ x \in Nat
  BY Ids DEF VInv, SeqInv
<1>4. NextId \in {Null, Mint(lastSeq + 1)} /\ ((NextId = Null) <=> (versioning # "enabled"))
  BY <1>1, Ids DEF NextId
<1>5. \A v \in Versions : v.seq < lastSeq + 1
  BY <1>1, <1>2
<1>6. QED
  BY <1>1, <1>2, <1>3, <1>4, <1>5 DEF Fresh

(* PutObject keeps the invariant. *)
LEMMA VInvPut ==
  ASSUME VInv, NEW sl \in BOOLEAN, NEW st \in BOOLEAN, PutObject(sl, st)
  PROVE  VInv'
<1>1. /\ AllocVersionSeq
      /\ CommitVersion(lastSeq + 1, NextId, FALSE, sl, st)
      /\ UNCHANGED <<settings, list>> /\ req' = req
  BY DEF PutObject
<1>2. /\ Fresh(lastSeq + 1, NextId)
      /\ lastSeq' = lastSeq + 1 /\ lastSeq' \in 0..MaxSeq /\ lastSeq <= lastSeq'
      /\ \A v \in list.owed : v.seq # lastSeq + 1
      /\ \A q \in Requests, x \in Seqs : Holds(q, x) => x # lastSeq + 1
  BY <1>1, NextFresh
<1>3. req' \in [Requests -> Request]
  BY <1>1 DEF VInv, TypeOK
<1>4. \A q \in Requests, x \in Seqs : Holds(q, x)' => Holds(q, x) /\ x # lastSeq + 1
  BY <1>1, <1>2 DEF Holds
<1>5. lastSeq + 1 <= lastSeq'
  BY <1>2
<1>6. QED
  BY <1>1, <1>2, <1>3, <1>4, <1>5, WriteStep

(* A commit that fails keeps it: a gap in the numbers. *)
LEMMA VInvFail == ASSUME VInv, FailCommit PROVE VInv'
<1>1. lastSeq' \in 0..MaxSeq /\ lastSeq <= lastSeq'
  BY NextFresh DEF FailCommit
<1>2. UNCHANGED <<value, indexes, list>> /\ UNCHANGED settings /\ req' = req
  BY DEF FailCommit
<1>3. /\ versioning' \in {"unversioned", "enabled", "suspended"} /\ lockConfig' \in BOOLEAN
      /\ req' \in [Requests -> Request]
  BY <1>2 DEF settings, VInv, TypeOK
<1>4. \A q \in Requests, x \in Seqs : Holds(q, x)' => Holds(q, x)
  BY <1>2 DEF Holds
<1>5. QED
  BY <1>1, <1>2, <1>3, <1>4, RequestStep

(* An id finds only versions of the key. *)
LEMMA TargetIs ==
  ASSUME VInv, NEW id \in {Latest, Null} \cup Tokens
  PROVE  Target(id) \subseteq Versions
<1>1. CASE id = Latest
  <2>1. Target(id) \subseteq {current} /\ (form = "absent" => Target(id) = {})
    BY <1>1, Ids DEF Target
  <2>2. QED
    BY <2>1 DEF Versions
<1>2. CASE id \in {Null} \cup Tokens
  <2>1. IdsResolve
    BY IdsFound DEF VInv
  <2>2. QED
    BY <1>2, <2>1 DEF IdsResolve
<1>3. QED
  BY <1>1, <1>2

(* A scoped delete keeps the invariant. *)
LEMMA VInvScoped ==
  ASSUME VInv, NEW id \in {Null} \cup Tokens, DeleteVersionScoped(id)
  PROVE  VInv'
<1>1. PICK t \in Target(id) :
        Unlink(t) /\ claims' = DropClaims({t})
  BY DEF DeleteVersionScoped
<1>2. UNCHANGED settings /\ leaked' = leaked /\ lastSeq' = lastSeq /\ req' = req /\ list' = list
  BY DEF DeleteVersionScoped
<1>3. t \in Versions
  BY TargetIs, Ids
<1>4. /\ Versions' = Versions \ {t}
      /\ Layout' /\ Numbered' /\ NullInv'
      /\ form' \in {form, "absent"}
      /\ current' \in Version \cup {NoVersion}
      /\ form' # "absent" => current' \in Version
      /\ prev' \subseteq prev
      /\ nullSeq' \in {0, nullSeq}
      /\ locked' = locked \ {t.seq} /\ tagged' = tagged \ {t.seq}
  BY <1>1, <1>3, UnlinkEffect DEF VInv
<1>5. TypeOK'
  <2>1. /\ form' \in {"absent", "manifest", "leaf"} /\ prev' \subseteq Version
        /\ nullSeq' \in 0..MaxSeq
    BY <1>4, BoundAssumption DEF VInv, TypeOK
  <2>2. /\ locked' \subseteq Seqs /\ tagged' \subseteq Seqs
        /\ claims' \subseteq Seqs \X BOOLEAN
    BY <1>1, <1>4 DEF VInv, TypeOK, DropClaims
  <2>3. QED
    BY <1>2, <1>4, <2>1, <2>2 DEF VInv, TypeOK, settings
<1>6. MarksInv'
  <2>1. ASSUME NEW x \in locked \cup tagged, x # t.seq PROVE x \in SeqsOf(Versions')
    <3>1. PICK v \in Versions : v.seq = x
      BY <2>1 DEF VInv, MarksInv, SeqsOf
    <3>2. QED
      BY <3>1, <2>1, <1>4 DEF SeqsOf
  <2>2. locked' \cup tagged' \subseteq SeqsOf(Versions')
    BY <2>1, <1>4
  <2>3. SeqsOf(Versions)' = SeqsOf(Versions')
    BY DEF SeqsOf
  <2>4. QED
    BY <2>2, <2>3 DEF MarksInv
<1>7. \A q \in Requests, x \in Seqs : Holds(q, x)' => Holds(q, x)
  BY <1>2 DEF Holds
<1>8. QED
  BY <1>2, <1>4, <1>5, <1>6, <1>7, ShrinkStep

(* What a change of lock state or tags leaves alone. *)
LEMMA MarkEffect ==
  ASSUME VInv, NEW t \in Versions, StateWrite(t),
         locked' \cup tagged' \subseteq locked \cup tagged \cup {t.seq}
  PROVE  VInv' /\ Versions' = Versions
<1>1. /\ form' = "leaf" /\ current' = current /\ prev' = prev /\ nullSeq' = nullSeq
      /\ claims' = claims /\ leaked' = leaked /\ UNCHANGED settings
      /\ lastSeq' = lastSeq /\ req' = req /\ list' = list
  BY DEF StateWrite, indexes
<1>2. form # "absent" /\ current \in Version /\ t.seq \in Seqs
  <2>1. form # "absent"
    BY DEF VInv, Layout, Versions
  <2>2. QED
    BY <2>1, VersionsAre, Fields DEF VInv, TypeOK
<1>3. Versions' = Versions
  BY <1>1, <1>2 DEF Versions
<1>4. TypeOK'
  <2>1. locked' \subseteq Seqs /\ tagged' \subseteq Seqs
    BY <1>2 DEF VInv, TypeOK
  <2>2. QED
    BY <1>1, <1>2, <2>1 DEF VInv, TypeOK, settings
<1>5. Layout' /\ Numbered' /\ NullInv'
  BY <1>1, <1>2, <1>3 DEF VInv, Layout, Numbered, NullInv
<1>6. MarksInv'
  BY <1>3 DEF VInv, MarksInv, SeqsOf
<1>7. \A q \in Requests, x \in Seqs : Holds(q, x)' => Holds(q, x)
  BY <1>1 DEF Holds
<1>8. QED
  BY <1>1, <1>3, <1>4, <1>5, <1>6, <1>7, ShrinkStep

(* Lock state and tags keep the invariant. *)
LEMMA VInvMark ==
  ASSUME VInv, NEW id \in {Latest, Null} \cup Tokens,
         MutateVersionLock(id) \/ MutateVersionTags(id) \/ DeleteObjectTagging(id)
  PROVE  VInv'
<1>0. Target(id) \subseteq Versions
  BY TargetIs
<1>1. CASE MutateVersionLock(id)
  <2>1. PICK t \in Target(id) :
          StateWrite(t) /\ locked' = locked \cup {t.seq} /\ tagged' = tagged
    BY <1>1 DEF MutateVersionLock
  <2>2. QED
    BY <1>0, <2>1, MarkEffect
<1>2. CASE MutateVersionTags(id)
  <2>1. PICK t \in Target(id) :
          StateWrite(t) /\ tagged' = tagged \cup {t.seq} /\ locked' = locked
    BY <1>2 DEF MutateVersionTags
  <2>2. QED
    BY <1>0, <2>1, MarkEffect
<1>3. CASE DeleteObjectTagging(id)
  <2>1. PICK t \in Target(id) :
          StateWrite(t) /\ tagged' = tagged \ {t.seq} /\ locked' = locked
    BY <1>3 DEF DeleteObjectTagging
  <2>2. QED
    BY <1>0, <2>1, MarkEffect
<1>4. QED
  BY <1>1, <1>2, <1>3

(* A reservation keeps the invariant: its number is new and nobody else's. *)
LEMMA VInvReserve ==
  ASSUME VInv, NEW r \in Requests, ReserveVersion(r)
  PROVE  VInv'
<1>1. UNCHANGED <<value, indexes, list>> /\ UNCHANGED settings
  BY DEF ReserveVersion
<1>2. versioning' \in {"unversioned", "enabled", "suspended"} /\ lockConfig' \in BOOLEAN
  BY <1>1 DEF settings, VInv, TypeOK
<1>3. CASE versioning = "enabled"
  <2>1. AllocVersionSeq /\ req' = [req EXCEPT ![r] = <<"complete", lastSeq + 1>>]
    BY <1>3 DEF ReserveVersion, Begin
  <2>2. lastSeq' = lastSeq + 1 /\ lastSeq' \in 0..MaxSeq /\ lastSeq <= lastSeq' /\ lastSeq \in Nat
        /\ \A q \in Requests, x \in Seqs : Holds(q, x) => x # lastSeq + 1
    BY <2>1, NextFresh DEF VInv, TypeOK
  <2>3. /\ req' \in [Requests -> Request]
        /\ \A q \in Requests : req'[q] = IF q = r THEN <<"complete", lastSeq + 1>> ELSE req[q]
    <3>1. <<"complete", lastSeq + 1>> \in Request
      BY <2>2, Shapes
    <3>2. QED
      BY <3>1, <2>1, ReqSet DEF VInv
  <2>4. ASSUME NEW q \in Requests, NEW x \in Seqs, Holds(q, x)'
        PROVE  \/ Holds(q, x)
               \/ /\ lastSeq < x /\ x <= lastSeq'
                  /\ \A p \in Requests : Holds(p, x)' => p = q
    <3>1. req'[q] = <<"complete", x>>
      BY <2>4 DEF Holds
    <3>2. CASE q # r
      BY <3>1, <3>2, <2>3 DEF Holds
    <3>3. CASE q = r
      <4>1. x = lastSeq + 1
        BY <3>1, <3>3, <2>3
      <4>2. ASSUME NEW p \in Requests, Holds(p, x)' PROVE p = q
        <5>1. req'[p] = <<"complete", x>>
          BY <4>2 DEF Holds
        <5>2. p # r => Holds(p, x)
          BY <5>1, <2>3 DEF Holds
        <5>3. QED
          BY <5>2, <4>1, <2>2, <3>3
      <4>3. QED
        BY <4>1, <4>2, <2>2
    <3>4. QED
      BY <3>2, <3>3
  <2>5. QED
    BY <1>1, <1>2, <2>2, <2>3, <2>4, RequestStep
<1>4. CASE versioning # "enabled"
  <2>1. lastSeq' = lastSeq /\ req' = [req EXCEPT ![r] = <<"complete", 0>>]
    BY <1>4 DEF ReserveVersion, Begin
  <2>2. lastSeq' \in 0..MaxSeq /\ lastSeq <= lastSeq'
    BY <2>1 DEF VInv, TypeOK
  <2>3. /\ req' \in [Requests -> Request]
        /\ \A q \in Requests : req'[q] = IF q = r THEN <<"complete", 0>> ELSE req[q]
    <3>1. <<"complete", 0>> \in Request
      BY Shapes, BoundAssumption
    <3>2. QED
      BY <3>1, <2>1, ReqSet DEF VInv
  <2>4. \A q \in Requests, x \in Seqs : Holds(q, x)' => Holds(q, x)
    BY <2>3, Ids DEF Holds
  <2>5. QED
    BY <1>1, <1>2, <2>2, <2>3, <2>4, RequestStep
<1>5. QED
  BY <1>3, <1>4

(* A reserved version that is not superseded may be committed: its number *)
(* is still above every version of the key.                               *)
LEMMA ReservedFresh ==
  ASSUME VInv, NEW r \in Requests, CommitReserved(r)
  PROVE  /\ Fresh(req[r][2], Mint(req[r][2])) /\ req[r][2] \in Seqs
         /\ Holds(r, req[r][2])
         /\ req[r][2] <= lastSeq
         /\ \A v \in list.owed : v.seq # req[r][2]
         /\ \A q \in Requests : Holds(q, req[r][2]) => q = r
<1> DEFINE s == req[r][2]
<1>1. req[r] = <<"complete", s>> /\ s \in 0..MaxSeq /\ s # 0
  BY Kinds DEF CommitReserved, VInv, TypeOK
<1> HIDE DEF s
<1>2. s \in Seqs /\ s \in Nat /\ Holds(r, s)
  BY <1>1, BoundAssumption, Ids DEF Holds
<1>3. /\ s <= lastSeq
      /\ \A v \in Versions \cup list.owed : v.seq # s
      /\ \A q \in Requests : Holds(q, s) => q = r
  BY <1>2 DEF VInv, SeqInv
<1>4. versioning = "enabled" /\ (form # "absent" => current.seq <= s)
  BY DEF CommitReserved, s
<1>5. \A v \in Versions : v.seq < s
  <2>1. ASSUME NEW v \in Versions PROVE v.seq < s
    <3>1. form # "absent" /\ current \in Versions
      BY DEF VInv, Layout, Versions
    <3>2. v.seq \in Nat /\ current.seq \in Nat
      BY <3>1, VersionsAre, Fields, Ids DEF VInv
    <3>3. v = current \/ v.seq < current.seq
      BY <3>1, VersionsAre DEF VInv, Numbered
    <3>4. v.seq # s
      BY <1>3
    <3>5. QED
      BY <3>1, <3>2, <3>3, <3>4, <1>2, <1>4
  <2>2. QED
    BY <2>1
<1>6. Fresh(s, Mint(s))
  BY <1>2, <1>4, <1>5, Ids DEF Fresh
<1>7. QED
  BY <1>2, <1>3, <1>6 DEF s

(* The commit of a reserved version keeps the invariant. *)
LEMMA VInvReserved ==
  ASSUME VInv, NEW r \in Requests, CommitReserved(r)
  PROVE  VInv'
<1> DEFINE s == req[r][2]
<1>1. /\ CommitVersion(s, Mint(s), FALSE, FALSE, FALSE)
      /\ End(r) /\ UNCHANGED <<settings, list>> /\ lastSeq' = lastSeq
  BY DEF CommitReserved
<1>2. /\ Fresh(s, Mint(s)) /\ s \in Seqs /\ Holds(r, s) /\ s <= lastSeq
      /\ \A v \in list.owed : v.seq # s
      /\ \A q \in Requests : Holds(q, s) => q = r
  BY ReservedFresh
<1> HIDE DEF s
<1>3. lastSeq' \in 0..MaxSeq /\ lastSeq <= lastSeq' /\ s <= lastSeq'
  BY <1>1, <1>2 DEF VInv, TypeOK
<1>4. /\ req' \in [Requests -> Request]
      /\ \A q \in Requests, x \in Seqs : Holds(q, x)' => Holds(q, x) /\ q # r
  BY <1>1, Ended DEF VInv
<1>5. \A q \in Requests, x \in Seqs : Holds(q, x)' => Holds(q, x) /\ x # s
  BY <1>2, <1>4
<1>6. QED
  BY <1>1, <1>2, <1>3, <1>4, <1>5, WriteStep

(* A commit that takes its number as its request ends. *)
LEMMA WriteEnds ==
  ASSUME VInv, NEW r \in Requests, NEW m \in BOOLEAN, AllocVersionSeq, End(r),
         CommitVersion(lastSeq + 1, NextId, m, FALSE, FALSE), UNCHANGED <<settings, list>>
  PROVE  VInv'
<1>1. /\ Fresh(lastSeq + 1, NextId)
      /\ lastSeq' = lastSeq + 1 /\ lastSeq' \in 0..MaxSeq /\ lastSeq <= lastSeq'
      /\ \A v \in list.owed : v.seq # lastSeq + 1
      /\ \A q \in Requests, x \in Seqs : Holds(q, x) => x # lastSeq + 1
  BY NextFresh
<1>2. /\ req' \in [Requests -> Request]
      /\ \A q \in Requests, x \in Seqs : Holds(q, x)' => Holds(q, x) /\ q # r
  BY Ended DEF VInv
<1>3. \A q \in Requests, x \in Seqs : Holds(q, x)' => Holds(q, x) /\ x # lastSeq + 1
  BY <1>1, <1>2
<1>4. lastSeq + 1 <= lastSeq'
  BY <1>1
<1>5. CASE m = TRUE
  BY <1>1, <1>2, <1>3, <1>4, <1>5, WriteStep
<1>6. CASE m = FALSE
  BY <1>1, <1>2, <1>3, <1>4, <1>6, WriteStep
<1>7. QED
  BY <1>5, <1>6

(* The commit of a Complete that reported no id keeps it. *)
LEMMA VInvUnreported ==
  ASSUME VInv, NEW r \in Requests, CommitUnreported(r)
  PROVE  VInv'
<1>1. NextId = Null
  BY DEF CommitUnreported, NextId
<1>2. QED
  BY <1>1, WriteEnds DEF CommitUnreported

(* deleteObjectKey leaves no version. *)
LEMMA KeyGone ==
  ASSUME VInv, DeleteObjectKey, UNCHANGED <<settings, list>>, req' \in [Requests -> Request],
         \A q \in Requests, x \in Seqs : Holds(q, x)' => Holds(q, x)
  PROVE  VInv' /\ Versions' = {}
<1>1. /\ form' = "absent" /\ current' = NoVersion /\ prev' = {} /\ nullSeq' = 0
      /\ locked' = {} /\ tagged' = {} /\ lastSeq' = lastSeq
      /\ claims' \subseteq claims /\ leaked' = leaked \cup ClaimIds(prev)
  BY DEF DeleteObjectKey, DropClaims
<1>2. Versions' = {}
  BY <1>1 DEF Versions
<1>3. TypeOK'
  <2>1. ClaimIds(prev) \subseteq Seqs \X BOOLEAN
    BY IndexTypes DEF VInv, TypeOK
  <2>2. leaked' \subseteq Seqs \X BOOLEAN
    BY <1>1, <2>1 DEF VInv, TypeOK
  <2>3. QED
    BY <1>1, <2>2, BoundAssumption DEF VInv, TypeOK, settings
<1>4. Layout' /\ Numbered' /\ NullInv' /\ MarksInv'
  BY <1>1, <1>2 DEF Layout, Numbered, NullInv, MarksInv
<1>5. list' = list /\ Versions' \subseteq Versions
  BY <1>2
<1>6. VInv'
  BY <1>1, <1>3, <1>4, <1>5, ShrinkStep
<1>7. QED
  BY <1>2, <1>6

(* A delete without a version keeps it, as a marker and as a key that goes. *)
LEMMA VInvDelete ==
  ASSUME VInv, NEW r \in Requests, DeleteCommit(r)
  PROVE  VInv'
<1>1. End(r) /\ UNCHANGED <<settings, list>> /\ req[r][2] \in BOOLEAN
  BY Kinds DEF DeleteCommit, VInv, TypeOK
<1>2. /\ req' \in [Requests -> Request]
      /\ \A q \in Requests, x \in Seqs : Holds(q, x)' => Holds(q, x)
  BY <1>1, Ended DEF VInv
<1>3. CASE req[r][2]
  <2>1. InsertDeleteMarker
    BY <1>3 DEF DeleteCommit
  <2>2. QED
    BY <1>1, <2>1, WriteEnds DEF InsertDeleteMarker
<1>4. CASE ~req[r][2]
  <2>1. DeleteObjectKey
    BY <1>4 DEF DeleteCommit
  <2>2. QED
    BY <1>1, <1>2, <2>1, KeyGone
<1>5. QED
  BY <1>3, <1>4

(* The requests that only read or only change the settings, and the ones *)
(* cut off, keep the invariant.                                          *)
LEMMA VInvRequest ==
  ASSUME VInv, NEW r \in Requests, NEW v \in {"enabled", "suspended"},
         \/ Abandon(r) \/ DeleteRead(r) \/ PutVersioningRead(r, v) \/ PutVersioningSet(r)
         \/ PutLockRead(r) \/ PutLockSet(r)
  PROVE  VInv'
<1>t. /\ versioning \in {"unversioned", "enabled", "suspended"} /\ lockConfig \in BOOLEAN
      /\ lastSeq \in 0..MaxSeq /\ req[r] \in Request
      /\ req[r][1] = "versioning" => req[r][2] \in {"enabled", "suspended"}
  BY Kinds DEF VInv, TypeOK
<1>0. ASSUME NEW w \in Request, req' = [req EXCEPT ![r] = w], w[1] # "complete",
             UNCHANGED <<lastSeq, value, indexes, list>>,
             versioning' \in {"unversioned", "enabled", "suspended"}, lockConfig' \in BOOLEAN
      PROVE  VInv'
  <2>1. /\ req' \in [Requests -> Request]
        /\ \A q \in Requests : req'[q] = IF q = r THEN w ELSE req[q]
    BY <1>0, ReqSet DEF VInv
  <2>2. \A q \in Requests, x \in Seqs : Holds(q, x)' => Holds(q, x)
    BY <2>1, <1>0 DEF Holds
  <2>3. lastSeq' \in 0..MaxSeq /\ lastSeq <= lastSeq'
    BY <1>0, <1>t
  <2>4. QED
    BY <1>0, <2>1, <2>2, <2>3, RequestStep
<1>i. Idle \in Request /\ Idle[1] # "complete"
  BY Shapes DEF Idle
<1>1. CASE Abandon(r)
  BY <1>1, <1>0, <1>i, <1>t DEF Abandon, End, settings
<1>2. CASE DeleteRead(r)
  <2>1. <<"delete", versioning # "unversioned">> \in Request
    BY Shapes
  <2>2. <<"delete", versioning # "unversioned">>[1] # "complete"
    OBVIOUS
  <2>3. req' = [req EXCEPT ![r] = <<"delete", versioning # "unversioned">>]
    BY <1>2 DEF DeleteRead, Begin
  <2>4. UNCHANGED <<lastSeq, value, indexes, list>> /\ UNCHANGED <<versioning, lockConfig>>
    BY <1>2 DEF DeleteRead, settings
  <2>5. QED
    BY <2>1, <2>2, <2>3, <2>4, <1>0, <1>t
<1>3. CASE PutVersioningRead(r, v)
  <2>1. <<"versioning", v>> \in Request /\ <<"versioning", v>>[1] # "complete"
    BY Shapes
  <2>2. QED
    BY <1>3, <2>1, <1>0, <1>t DEF PutVersioningRead, Begin, settings
<1>4. CASE PutVersioningSet(r)
  BY <1>4, <1>0, <1>i, <1>t DEF PutVersioningSet, End
<1>5. CASE PutLockRead(r)
  <2>1. <<"lock">> \in Request /\ <<"lock">>[1] # "complete"
    BY Shapes
  <2>2. QED
    BY <1>5, <2>1, <1>0, <1>t DEF PutLockRead, Begin, settings
<1>6. CASE PutLockSet(r)
  BY <1>6, <1>0, <1>i, <1>t DEF PutLockSet, End
<1>7. QED
  BY <1>1, <1>2, <1>3, <1>4, <1>5, <1>6

(* The first page of a listing owes every version there is. *)
LEMMA VInvListStart == ASSUME VInv, ListVersionsStart PROVE VInv'
<1>1. /\ list' = [page |-> "more", marker |-> Latest, owed |-> Versions]
      /\ UNCHANGED value /\ UNCHANGED settings /\ UNCHANGED indexes
      /\ lastSeq' = lastSeq /\ req' = req
  BY DEF ListVersionsStart
<1>2. Versions' = Versions
  BY <1>1 DEF Versions, value
<1>3. Versions \subseteq Version
  BY VersionsAre DEF VInv
<1>4. TypeOK'
  <2>1. list' \in [page : {"new", "more", "end"}, marker : {Latest, Null} \cup Tokens,
                   owed : SUBSET Version]
    BY <1>1, <1>3
  <2>2. QED
    BY <1>1, <2>1 DEF VInv, TypeOK, value, settings, indexes
<1>5. Layout' /\ Numbered' /\ NullInv' /\ MarksInv'
  BY <1>1, <1>2 DEF VInv, Layout, Numbered, NullInv, MarksInv, SeqsOf, value
<1>6. SeqInv'
  <2>1. list'.owed = Versions
    BY <1>1
  <2>2. QED
    BY <1>1, <1>2, <2>1 DEF VInv, SeqInv, Holds
<1>7. ListInv'
  <2>1. SeqBelow(list.marker)' = MaxSeq + 1
    BY <1>1, Ids DEF SeqBelow
  <2>2. \A v \in Versions : v.seq < MaxSeq + 1
    BY <1>3, Fields, Ids, BoundAssumption
  <2>3. QED
    BY <1>1, <1>2, <2>1, <2>2 DEF ListInv, ListingComplete
<1>8. QED
  BY <1>4, <1>5, <1>6, <1>7 DEF VInv

(* A page shows the newest version below its place and resumes below it: *)
(* what is still owed lies there.                                        *)
LEMMA VInvListPage == ASSUME VInv, ListVersionsPage PROVE VInv'
<1> DEFINE left == {v \in Versions : v.seq < SeqBelow(list.marker)}
<1>1. /\ list.page = "more"
      /\ IF left = {}
         THEN list' = [list EXCEPT !.page = "end", !.owed = @ \cap Versions]
         ELSE LET v == Newest(left)
              IN list' = [page   |-> IF left = {v} THEN "end" ELSE "more",
                          marker |-> v.id,
                          owed   |-> (list.owed \cap Versions) \ {v}]
      /\ UNCHANGED value /\ UNCHANGED settings /\ UNCHANGED indexes
      /\ lastSeq' = lastSeq /\ req' = req
  BY DEF ListVersionsPage
<1>2. Versions' = Versions
  BY <1>1 DEF Versions, value
<1>3. /\ Versions \subseteq Version /\ left \subseteq Version /\ list.owed \subseteq Version
      /\ list.owed \cap Versions \subseteq left
      /\ \A v \in Version : v.seq \in Nat /\ v.seq \in Seqs /\ v.id \in {Null} \cup Tokens
  <2>1. Versions \subseteq Version /\ list.owed \subseteq Version
    BY VersionsAre DEF VInv, TypeOK
  <2>2. \A v \in list.owed \cap Versions : v.seq < SeqBelow(list.marker)
    BY <1>1 DEF VInv, ListInv
  <2>3. QED
    BY <2>1, <2>2, Fields, Ids
<1>l. /\ list \in [page : {"new", "more", "end"}, marker : {Latest, Null} \cup Tokens,
                   owed : SUBSET Version]
  BY DEF VInv, TypeOK
<1>4. /\ list' \in [page : {"new", "more", "end"}, marker : {Latest, Null} \cup Tokens,
                    owed : SUBSET Version]
      /\ list'.owed \subseteq Versions
      /\ list'.page = "end" => list'.owed = {}
      /\ list'.page = "more" => /\ list'.marker \in {Null} \cup Tokens
                                /\ \E v \in Versions : /\ v.id = list'.marker
                                                       /\ \A w \in list'.owed : w.seq < v.seq
  <2>1. CASE left = {}
    <3>1. list' = [list EXCEPT !.page = "end", !.owed = list.owed \cap Versions]
      BY <1>1, <2>1
    <3>2. list'.page = "end" /\ list'.owed = {} /\ list'.marker = list.marker
      BY <3>1, <2>1, <1>3, <1>l
    <3>3. QED
      BY <3>1, <3>2, <1>l
  <2>2. CASE left # {}
    <3> DEFINE v == Newest(left)
    <3>1. v \in left /\ \A w \in left : w.seq <= v.seq
      BY <2>2, <1>3, NewestIs
    <3>2. list' = [page   |-> IF left = {v} THEN "end" ELSE "more",
                   marker |-> v.id,
                   owed   |-> (list.owed \cap Versions) \ {v}]
      BY <1>1, <2>2
    <3> HIDE DEF v
    <3>3. v \in Versions /\ v \in Version
      BY <3>1, <1>3
    <3>4. list' \in [page : {"new", "more", "end"}, marker : {Latest, Null} \cup Tokens,
                     owed : SUBSET Version]
      BY <3>2, <3>3, <1>3
    <3>5. /\ list'.owed = (list.owed \cap Versions) \ {v}
          /\ list'.marker = v.id
          /\ list'.page = IF left = {v} THEN "end" ELSE "more"
      BY <3>2
    <3>6. ASSUME NEW w \in list'.owed PROVE w.seq < v.seq
      <4>1. w \in left /\ w \in Versions /\ w # v /\ w.seq <= v.seq
        BY <3>1, <3>5, <1>3
      <4>2. w.seq # v.seq
        BY <4>1, <3>3, NumberedApart DEF VInv
      <4>3. QED
        BY <4>1, <4>2, <3>3, <1>3
    <3>7. list'.page = "end" => list'.owed = {}
      BY <3>5, <1>3
    <3>8. QED
      BY <3>3, <3>4, <3>5, <3>6, <3>7, <1>3
  <2>3. QED
    BY <2>1, <2>2
<1>5. TypeOK'
  BY <1>1, <1>4 DEF VInv, TypeOK, value, settings, indexes
<1>6. Layout' /\ Numbered' /\ NullInv' /\ MarksInv'
  BY <1>1, <1>2 DEF VInv, Layout, Numbered, NullInv, MarksInv, SeqsOf, value
<1>7. SeqInv'
  <2>1. Versions' \cup list'.owed \subseteq Versions
    BY <1>2, <1>4
  <2>2. QED
    BY <1>1, <2>1 DEF VInv, SeqInv, Holds
<1>8. ListInv'
  <2>1. ASSUME list'.page = "more", NEW w \in list'.owed PROVE w.seq < SeqBelow(list.marker)'
    <3>1. PICK v \in Versions : v.id = list'.marker /\ \A x \in list'.owed : x.seq < v.seq
      BY <2>1, <1>4
    <3>2. SeqBelow(list.marker)' = v.seq
      <4>1. CASE list'.marker = Null
        <5>1. SeqBelow(Null)' = v.seq
          BY <3>1, <4>1, <1>2, <1>5, <1>6, NullPlaceAfter
        <5>2. QED
          BY <5>1, <4>1
      <4>2. CASE list'.marker \in Tokens
        <5>1. SeqBelow(list.marker)' = list'.marker[1]
          BY <4>2, Ids DEF SeqBelow
        <5>2. v.id = Mint(v.seq)
          BY <3>1, <4>2, Ids DEF VInv, Numbered
        <5>3. Mint(v.seq)[1] = v.seq
          BY <1>3, Ids
        <5>4. QED
          BY <5>1, <5>2, <5>3, <3>1
      <4>3. QED
        BY <4>1, <4>2, <2>1, <1>4
    <3>3. QED
      BY <3>1, <3>2
  <2>2. QED
    BY <2>1, <1>4 DEF ListInv, ListingComplete
<1>9. QED
  BY <1>5, <1>6, <1>7, <1>8 DEF VInv

(* The first state. *)
LEMMA VInvInit == Init => VInv
<1> SUFFICES ASSUME Init PROVE VInv
  OBVIOUS
<1>1. TypeOK
  <2>1. req \in [Requests -> Request]
    BY Shapes DEF Init
  <2>2. list \in [page : {"new", "more", "end"}, marker : {Latest, Null} \cup Tokens,
                 owed : SUBSET Version]
    BY DEF Init
  <2>3. lastSeq \in 0..MaxSeq /\ nullSeq \in 0..MaxSeq
    BY BoundAssumption DEF Init
  <2>4. QED
    BY <2>1, <2>2, <2>3 DEF Init, TypeOK
<1>2. Versions = {} /\ list.owed = {} /\ list.page = "new"
  BY DEF Init, Versions
<1>3. Layout /\ Numbered /\ NullInv /\ MarksInv /\ ListInv
  BY <1>2 DEF Init, Layout, Numbered, NullInv, MarksInv, ListInv, ListingComplete
<1>4. SeqInv
  <2>1. \A q \in Requests : \A x : ~Holds(q, x)
    BY DEF Init, Holds, Idle
  <2>2. QED
    BY <1>2, <2>1 DEF SeqInv
<1>5. QED
  BY <1>1, <1>3, <1>4 DEF VInv

(* Every step keeps the invariant. *)
LEMMA VInvNext == VInv /\ [Next]_vars => VInv'
<1> SUFFICES ASSUME VInv, [Next]_vars PROVE VInv'
  OBVIOUS
<1>1. CASE Commit
  <2>1. ASSUME NEW sl \in BOOLEAN, NEW st \in BOOLEAN, PutObject(sl, st) PROVE VInv'
    BY <2>1, VInvPut
  <2>2. CASE FailCommit
    BY <2>2, VInvFail
  <2>3. ASSUME NEW id \in {Null} \cup Tokens, DeleteVersionScoped(id) PROVE VInv'
    BY <2>3, VInvScoped
  <2>4. ASSUME NEW id \in {Latest, Null} \cup Tokens,
               MutateVersionLock(id) \/ MutateVersionTags(id) \/ DeleteObjectTagging(id)
        PROVE VInv'
    BY <2>4, VInvMark
  <2>5. QED
    BY <1>1, <2>1, <2>2, <2>3, <2>4 DEF Commit
<1>2. ASSUME NEW r \in Requests, Step(r) PROVE VInv'
  <2>1. CASE ReserveVersion(r)
    BY <2>1, VInvReserve
  <2>2. CASE CommitReserved(r)
    BY <2>2, VInvReserved
  <2>3. CASE CommitUnreported(r)
    BY <2>3, VInvUnreported
  <2>4. CASE DeleteCommit(r)
    BY <2>4, VInvDelete
  <2>5. CASE \E v \in {"enabled", "suspended"} : PutVersioningRead(r, v)
    BY <2>5, VInvRequest
  <2>6. CASE Abandon(r) \/ DeleteRead(r) \/ PutVersioningSet(r) \/ PutLockRead(r) \/ PutLockSet(r)
    <3>1. "enabled" \in {"enabled", "suspended"}
      OBVIOUS
    <3>2. QED
      BY <2>6, <3>1, VInvRequest
  <2>7. QED
    BY <1>2, <2>1, <2>2, <2>3, <2>4, <2>5, <2>6 DEF Step
<1>3. CASE ListVersionsStart
  BY <1>3, VInvListStart
<1>4. CASE ListVersionsPage
  BY <1>4, VInvListPage
<1>5. CASE UNCHANGED vars
  <2>1. Versions' = Versions
    BY <1>5 DEF vars, value, Versions
  <2>2. TypeOK' /\ Layout' /\ Numbered' /\ NullInv' /\ MarksInv'
    BY <1>5, <2>1 DEF vars, value, settings, indexes, VInv, TypeOK, Layout, Numbered,
                      NullInv, MarksInv, SeqsOf
  <2>3. SeqInv' /\ ListInv'
    BY <1>5, <2>1 DEF vars, value, VInv, SeqInv, Holds, ListInv, ListingComplete, SeqBelow
  <2>4. QED
    BY <2>2, <2>3 DEF VInv
<1>6. QED
  BY <1>1, <1>2, <1>3, <1>4, <1>5 DEF Next

(* The inductive invariant holds. *)
LEMMA VInvHolds == Spec => []VInv
  BY VInvInit, VInvNext, PTL DEF Spec

(* The key's value, its indexes, the requests and the listing always have *)
(* their types, whichever commits, settings and pages overlap.            *)
THEOREM TypesHold == Spec => []TypeOK
<1>1. VInv => TypeOK
  BY DEF VInv
<1>2. QED
  BY <1>1, VInvHolds, PTL

(* Whatever ids clients present, reads and scoped deletes find exactly the *)
(* version with that id (resolveVersionIn, mutateVersionState), also when  *)
(* settings change and commits of reserved numbers overlap in any way.     *)
THEOREM IdsAlwaysResolve == Spec => []IdsResolve
<1>1. VInv => IdsResolve
  BY IdsFound DEF VInv
<1>2. QED
  BY <1>1, VInvHolds, PTL

(* A paged ListObjectVersions that ended owes no version that was there *)
(* throughout, however the key changed between its pages.               *)
THEOREM ListingsAreComplete == Spec => []ListingComplete
<1>1. VInv => ListingComplete
  BY DEF VInv, ListInv
<1>2. QED
  BY <1>1, VInvHolds, PTL

-----------------------------------------------------------------------------
(* Claims and the history. *)

(* The claims and numbers of the versions that are left: no two versions *)
(* share any.                                                            *)
LEMMA IndexMinus ==
  ASSUME VInv, NEW gone \in SUBSET Versions
  PROVE  /\ ClaimIds(Versions \ gone) = ClaimIds(Versions) \ ClaimIds(gone)
         /\ SeqsOf(Versions \ gone) = SeqsOf(Versions) \ SeqsOf(gone)
<1>1. \A v, w \in Versions : v.seq = w.seq => v = w
  BY NumberedApart DEF VInv
<1>2. SeqsOf(Versions \ gone) = SeqsOf(Versions) \ SeqsOf(gone)
  BY <1>1 DEF SeqsOf
<1> DEFINE C(v) == <<v.seq, v.id = Null>>
<1>3. \A vs, c : c \in ClaimIds(vs) <=> \E v \in vs : ~v.marker /\ c = C(v)
  BY Zenon DEF ClaimIds
<1>4. ASSUME NEW v \in Versions, NEW w \in Versions, C(v) = C(w) PROVE v = w
  <2>1. v.seq = w.seq
    BY <1>4
  <2>2. QED
    BY <2>1, <1>1
<1> HIDE DEF C
<1>5. ASSUME NEW c, c \in ClaimIds(Versions \ gone)
      PROVE  c \in ClaimIds(Versions) \ ClaimIds(gone)
  <2>1. PICK v \in Versions \ gone : ~v.marker /\ c = C(v)
    BY <1>5, <1>3
  <2>2. c \in ClaimIds(Versions)
    BY <2>1, <1>3
  <2>3. ASSUME c \in ClaimIds(gone) PROVE FALSE
    <3>1. PICK w \in gone : ~w.marker /\ c = C(w)
      BY <2>3, <1>3
    <3>2. v = w
      BY <2>1, <3>1, <1>4
    <3>3. QED
      BY <2>1, <3>1, <3>2
  <2>4. QED
    BY <2>2, <2>3
<1>6. ASSUME NEW c, c \in ClaimIds(Versions) \ ClaimIds(gone)
      PROVE  c \in ClaimIds(Versions \ gone)
  <2>1. PICK v \in Versions : ~v.marker /\ c = C(v)
    BY <1>6, <1>3
  <2>2. v \notin gone
    BY <1>6, <2>1, <1>3
  <2>3. QED
    BY <2>1, <2>2, <1>3
<1>7. QED
  BY <1>2, <1>5, <1>6

(* The claims and numbers of some versions and more. *)
LEMMA IndexPlus ==
  ASSUME NEW A, NEW B
  PROVE  /\ ClaimIds(A \cup B) = ClaimIds(A) \cup ClaimIds(B)
         /\ SeqsOf(A \cup B) = SeqsOf(A) \cup SeqsOf(B)
<1> DEFINE C(v) == <<v.seq, v.id = Null>>
<1>1. \A vs, c : c \in ClaimIds(vs) <=> \E v \in vs : ~v.marker /\ c = C(v)
  BY Zenon DEF ClaimIds
<1> HIDE DEF C
<1>2. \A c : c \in ClaimIds(A \cup B) <=> c \in ClaimIds(A) \cup ClaimIds(B)
  BY <1>1
<1>3. ClaimIds(A \cup B) = ClaimIds(A) \cup ClaimIds(B)
  BY <1>2
<1>4. QED
  BY <1>3 DEF SeqsOf

(* A claim carries the number of its version. *)
LEMMA ClaimNumber ==
  ASSUME NEW vs, NEW c \in ClaimIds(vs)
  PROVE  \E v \in vs : v.seq = c[1]
<1>1. PICK v \in vs : ~v.marker /\ c = <<v.seq, v.id = Null>>
  BY Zenon DEF ClaimIds
<1>2. c[1] = v.seq
  BY <1>1
<1>3. QED
  BY <1>2

(* The claims left behind are of no version the key has. *)
LEMMA LeakApart ==
  ASSUME LeakInv, NEW gone \in SUBSET Versions
  PROVE  leaked \cap ClaimIds(gone) = {}
<1>1. ASSUME NEW c \in leaked, c \in ClaimIds(gone) PROVE FALSE
  BY <1>1, ClaimNumber DEF LeakInv
<1>2. QED
  BY <1>1

(* A step that leaves nothing more behind, and reserves only new numbers. *)
LEMMA LeakKept ==
  ASSUME TypeOK, LeakInv, leaked' = leaked, lastSeq' \in 0..MaxSeq, lastSeq <= lastSeq',
         \A v \in Versions' : v \in Versions \/ \A c \in leaked : v.seq # c[1],
         \A q \in Requests, x \in Seqs : Holds(q, x)' => Holds(q, x) \/ lastSeq < x
  PROVE  LeakInv'
<1>1. \A c \in leaked : c[1] \in Seqs /\ c[1] \in Nat
  BY BoundAssumption DEF TypeOK, Seqs
<1>2. lastSeq \in Nat /\ lastSeq' \in Nat
  BY BoundAssumption DEF TypeOK
<1>3. ASSUME NEW c \in leaked
      PROVE  /\ c[1] <= lastSeq'
             /\ \A v \in Versions' : v.seq # c[1]
             /\ \A r \in Requests : ~Holds(r, c[1])'
  <2>1. c[1] \in Seqs /\ c[1] \in Nat /\ c[1] <= lastSeq
    BY <1>1 DEF LeakInv
  <2>2. c[1] <= lastSeq'
    BY <1>2, <2>1
  <2>3. \A v \in Versions' : v.seq # c[1]
    BY DEF LeakInv
  <2>4. ASSUME NEW r \in Requests, Holds(r, c[1])' PROVE FALSE
    <3>1. Holds(r, c[1]) \/ lastSeq < c[1]
      BY <2>1, <2>4
    <3>2. ~(lastSeq < c[1])
      BY <1>2, <2>1
    <3>3. QED
      BY <3>1, <3>2 DEF LeakInv
  <2>5. QED
    BY <2>2, <2>3, <2>4
<1>4. QED
  BY <1>3 DEF LeakInv

(* A commit is a write of the history, with the claims that go with it. *)
LEMMA CommitWrites ==
  ASSUME VInv, SInv, NEW s, NEW id, NEW m \in BOOLEAN,
         NEW sl \in BOOLEAN, NEW st \in BOOLEAN,
         Fresh(s, id), CommitVersion(s, id, m, sl, st), UNCHANGED settings,
         Erasing' = Erasing, \A c \in leaked : c[1] # s,
         lastSeq' \in 0..MaxSeq, lastSeq <= lastSeq',
         \A q \in Requests, x \in Seqs : Holds(q, x)' => Holds(q, x) \/ lastSeq < x
  PROVE  SInv' /\ History!HNext
<1>0. LeakInv /\ PlainInv /\ ClaimsExact
  BY DEF SInv
<1>1. Committed(s, id, m, sl, st)
  BY CommitEffect DEF VInv
<1>2. /\ current' = New(s, id, m) /\ current' \in Version
      /\ prev' = Versions \ Replaced(id)
      /\ Versions' = prev' \cup {New(s, id, m)}
      /\ locked' = (locked \ SeqsOf(Replaced(id))) \cup (IF sl THEN {s} ELSE {})
      /\ tagged' = (tagged \ SeqsOf(Replaced(id))) \cup (IF st THEN {s} ELSE {})
      /\ claims' = DropClaims(Replaced(id)) \cup ClaimIds({New(s, id, m)})
      /\ leaked' = leaked
  BY <1>1 DEF Committed
<1>3. /\ New(s, id, m).seq = s /\ New(s, id, m).id = id
      /\ (id = Null) <=> (versioning # "enabled")
      /\ \A v \in Versions : v.seq < s
      /\ \A v \in Versions : v.seq # s
  <2>1. /\ New(s, id, m).seq = s /\ New(s, id, m).id = id
        /\ (id = Null) <=> (versioning # "enabled")
        /\ \A v \in Versions : v.seq < s
        /\ s \in Nat
    BY Ids DEF New, Fresh
  <2>2. QED
    BY <2>1
<1>4. Replaced(id) \subseteq Versions /\ s \notin SeqsOf(Replaced(id))
  BY <1>3 DEF Replaced, SeqsOf
<1>5. PlainInv'
  <2>1. CASE versioning = "unversioned"
    <3>1. id = Null /\ \A v \in Versions : v.id = Null
      BY <1>0, <2>1, <1>3 DEF PlainInv, Versions
    <3>2. prev' = {}
      BY <3>1, <1>2 DEF Replaced
    <3>3. QED
      BY <3>1, <3>2, <1>2, <1>3 DEF PlainInv
  <2>2. CASE versioning # "unversioned"
    BY <2>2 DEF PlainInv, settings
  <2>3. QED
    BY <2>1, <2>2
<1>6. ClaimsExact'
  <2>1. claims' = ClaimIds(Versions') \cup leaked
    <3>1. claims' = ((ClaimIds(Versions) \cup leaked) \ ClaimIds(Replaced(id)))
                    \cup ClaimIds({New(s, id, m)})
      BY <1>0, <1>2 DEF DropClaims, ClaimsExact
    <3>2. ClaimIds(Versions \ Replaced(id)) = ClaimIds(Versions) \ ClaimIds(Replaced(id))
      BY <1>4, IndexMinus
    <3>3. ClaimIds((Versions \ Replaced(id)) \cup {New(s, id, m)})
          = ClaimIds(Versions \ Replaced(id)) \cup ClaimIds({New(s, id, m)})
      BY IndexPlus
    <3>4. leaked \cap ClaimIds(Replaced(id)) = {}
      BY <1>0, <1>4, LeakApart
    <3>5. QED
      BY <3>1, <3>2, <3>3, <3>4, <1>2
  <2>2. ClaimIds(Versions)' = ClaimIds(Versions')
    BY DEF ClaimIds
  <2>3. QED
    BY <1>0, <1>2, <2>1, <2>2 DEF ClaimsExact, settings
<1>7. LeakInv'
  <2>1. \A v \in Versions' : v \in Versions \/ \A c \in leaked : v.seq # c[1]
    BY <1>2, <1>3
  <2>2. QED
    BY <1>0, <1>2, <2>1, LeakKept DEF VInv
<1>8. History!HNext
  <2> DEFINE v == New(s, id, m)
  <2>1. v \in Version /\ v.seq = s /\ v.id = id
    BY <1>2, <1>3
  <2>2. Versions' = {w \in Versions : ~(v.id = Null /\ w.id = Null)} \cup {v}
    BY <1>2, <2>1 DEF Replaced
  <2>3. ASSUME NEW X, NEW Y, X \subseteq SeqsOf(Versions),
               Y \ {s} = (X \ SeqsOf(Replaced(id))) \ {s}
        PROVE  Y \ {s} = X \cap (SeqsOf(Versions') \ {s})
    <3>1. SeqsOf(Versions') \ {s} = SeqsOf(Versions) \ SeqsOf(Replaced(id))
      <4>1. SeqsOf(Versions') = SeqsOf(Versions \ Replaced(id)) \cup SeqsOf({v})
        BY <1>2, IndexPlus
      <4>2. SeqsOf({v}) = {s}
        BY <2>1 DEF SeqsOf
      <4>3. SeqsOf(Versions \ Replaced(id)) = SeqsOf(Versions) \ SeqsOf(Replaced(id))
        BY <1>4, IndexMinus
      <4>4. s \notin SeqsOf(Versions)
        BY <1>3 DEF SeqsOf
      <4>5. QED
        BY <4>1, <4>2, <4>3, <4>4
    <3>2. QED
      BY <3>1, <2>3
  <2>4. /\ locked \subseteq SeqsOf(Versions) /\ tagged \subseteq SeqsOf(Versions)
        /\ s \notin locked /\ s \notin tagged
    BY <1>3 DEF VInv, MarksInv, SeqsOf
  <2>5. /\ locked' \ {s} = locked \cap (SeqsOf(Versions') \ {s})
        /\ tagged' \ {s} = tagged \cap (SeqsOf(Versions') \ {s})
    <3>1. /\ locked' \ {s} = (locked \ SeqsOf(Replaced(id))) \ {s}
          /\ tagged' \ {s} = (tagged \ SeqsOf(Replaced(id))) \ {s}
      BY <1>2
    <3>2. QED
      BY <3>1, <2>3, <2>4
  <2>6. s \in SeqsOf(Versions')
    BY <2>1, <2>2 DEF SeqsOf
  <2>7. locked' \cup tagged' \subseteq SeqsOf(Versions')
    BY <2>5, <2>6
  <2>8. History!SeqsOf({v}) = {s} /\ History!SeqsOf(Versions)' = SeqsOf(Versions')
    BY <2>1 DEF History!SeqsOf, SeqsOf
  <2>a. v \in Versions'
    BY <2>2
  <2> HIDE DEF v
  <2>9. History!MarksFollow({v})
    BY <2>4, <2>5, <2>7, <2>8 DEF History!MarksFollow
  <2>10. History!Write
    BY <2>1, <2>2, <2>9, <2>a, <1>3 DEF History!Write, settings
  <2>11. QED
    BY <2>10 DEF History!HNext
<1>9. QED
  BY <1>5, <1>6, <1>7, <1>8 DEF SInv

(* A version that goes takes its claims and its marks with it. *)
LEMMA GoneRemoves ==
  ASSUME VInv, SInv, NEW t \in Versions, UNCHANGED <<settings, lastSeq, req, leaked>>,
         Versions' = Versions \ {t}, prev' \subseteq prev,
         locked' = locked \ {t.seq}, tagged' = tagged \ {t.seq},
         claims' = DropClaims({t}),
         form' # "absent" => current' \in Versions'
  PROVE  SInv' /\ History!HNext
<1>i. LeakInv /\ PlainInv /\ ClaimsExact
  BY DEF SInv
<1>0. /\ ClaimIds(Versions \ {t}) = ClaimIds(Versions) \ ClaimIds({t})
      /\ SeqsOf(Versions \ {t}) = SeqsOf(Versions) \ SeqsOf({t})
      /\ SeqsOf({t}) = {t.seq}
      /\ leaked \cap ClaimIds({t}) = {}
  BY <1>i, IndexMinus, LeakApart DEF SeqsOf
<1>1. PlainInv'
  BY <1>i DEF PlainInv, settings, Versions
<1>2. ClaimsExact'
  <2>1. ClaimIds(Versions)' = ClaimIds(Versions')
    BY DEF ClaimIds
  <2>2. QED
    BY <1>i, <2>1, <1>0 DEF ClaimsExact, DropClaims, settings
<1>3. LeakInv'
  BY <1>i DEF LeakInv, Holds
<1>4. History!HNext
  <2>1. History!SeqsOf({}) = {} /\ History!SeqsOf(Versions)' = SeqsOf(Versions')
    BY DEF History!SeqsOf, SeqsOf
  <2>2. locked \subseteq SeqsOf(Versions) /\ tagged \subseteq SeqsOf(Versions)
    BY DEF VInv, MarksInv
  <2>3. History!MarksFollow({})
    <3>1. SeqsOf(Versions') = SeqsOf(Versions) \ {t.seq}
      BY <1>0
    <3>2. locked' = locked \cap SeqsOf(Versions') /\ tagged' = tagged \cap SeqsOf(Versions')
      BY <2>2, <3>1
    <3>3. QED
      BY <3>2, <2>1 DEF History!MarksFollow
  <2>4. History!Remove
    BY <2>3 DEF History!Remove, settings, Erasing
  <2>5. QED
    BY <2>4 DEF History!HNext
<1>5. QED
  BY <1>1, <1>2, <1>3, <1>4 DEF SInv

(* A step that leaves the versions, their marks and their claims alone. *)
LEMMA NothingGone ==
  ASSUME VInv, SInv, UNCHANGED <<value, indexes>>,
         versioning' \in {versioning, "enabled", "suspended"},
         lastSeq' \in 0..MaxSeq, lastSeq <= lastSeq',
         \A q \in Requests, x \in Seqs : Holds(q, x)' => Holds(q, x) \/ lastSeq < x
  PROVE  /\ SInv' /\ UNCHANGED <<Versions, locked, tagged>>
         /\ Erasing' = Erasing => [History!HNext]_History!hvars
<1>1. Versions' = Versions /\ locked' = locked /\ tagged' = tagged
  BY DEF value, Versions
<1>2. PlainInv' /\ ClaimsExact'
  BY <1>1 DEF SInv, PlainInv, ClaimsExact, value, indexes, ClaimIds
<1>3. LeakInv'
  BY <1>1, LeakKept DEF SInv, VInv, indexes
<1>4. ASSUME Erasing' = Erasing PROVE [History!HNext]_History!hvars
  <2>1. CASE versioning' = versioning
    BY <1>1, <1>4, <2>1 DEF History!hvars
  <2>2. CASE versioning' \in {"enabled", "suspended"}
    BY <1>1, <1>4, <2>2 DEF History!HNext, History!Configure
  <2>3. QED
    BY <2>1, <2>2
<1>5. QED
  BY <1>1, <1>2, <1>3, <1>4 DEF SInv

(* A delete that saw an unversioned bucket is told from the other requests. *)
LEMMA Heads ==
  /\ \A x : x = <<"delete", FALSE>> => x[1] = "delete"
  /\ <<"delete", TRUE>> # <<"delete", FALSE>>
  /\ Idle # <<"delete", FALSE>>
<1>1. <<"delete", TRUE>> # <<"delete", FALSE>>
  OBVIOUS
<1>2. <<"delete", FALSE>>[1] = "delete" /\ Idle[1] = "idle"
  BY DEF Idle
<1>3. \A x : x = <<"delete", FALSE>> => x[1] = "delete"
  BY <1>2, Zenon
<1>4. Idle # <<"delete", FALSE>>
  BY <1>2, <1>3, Zenon
<1>5. QED
  BY <1>1, <1>3, <1>4

(* A request that ends is no such delete any more. *)
LEMMA ErasingEnds ==
  ASSUME TypeOK, NEW r \in Requests, End(r)
  PROVE  Erasing' = Erasing \ {r}
<1>1. \A q \in Requests : req'[q] = IF q = r THEN Idle ELSE req[q]
  BY Ended
<1>2. \A q \in Requests : req'[q] = <<"delete", FALSE>> <=> q # r /\ req[q] = <<"delete", FALSE>>
  BY <1>1, Heads, Zenon
<1>3. Erasing' = {q \in Requests : req'[q] = <<"delete", FALSE>>}
  BY DEF Erasing
<1>4. QED
  BY <1>2, <1>3 DEF Erasing

(* A request that begins is one when it saw an unversioned bucket. *)
LEMMA ErasingBegins ==
  ASSUME TypeOK, NEW r \in Requests, NEW w \in Request, Begin(r, w)
  PROVE  /\ w # <<"delete", FALSE>> => Erasing' = Erasing
         /\ w = <<"delete", FALSE>> => Erasing' = Erasing \cup {r}
         /\ w[1] # "complete" => \A q \in Requests, x \in Seqs : Holds(q, x)' => Holds(q, x)
<1>1. \A q \in Requests : req'[q] = IF q = r THEN w ELSE req[q]
  BY ReqSet DEF Begin
<1>2. req[r] # <<"delete", FALSE>>
  BY Heads DEF Begin
<1>3. Erasing' = {q \in Requests : req'[q] = <<"delete", FALSE>>}
  BY DEF Erasing
<1>4. ASSUME w # <<"delete", FALSE>> PROVE Erasing' = Erasing
  <2>1. \A q \in Requests : req'[q] = <<"delete", FALSE>> <=> req[q] = <<"delete", FALSE>>
    BY <1>1, <1>2, <1>4, Zenon
  <2>2. QED
    BY <1>3, <2>1 DEF Erasing
<1>5. ASSUME w = <<"delete", FALSE>> PROVE Erasing' = Erasing \cup {r}
  <2>1. \A q \in Requests : req'[q] = <<"delete", FALSE>> <=> q = r \/ req[q] = <<"delete", FALSE>>
    BY <1>1, <1>5, Zenon
  <2>2. QED
    BY <1>3, <2>1 DEF Erasing
<1>6. ASSUME w[1] # "complete", NEW q \in Requests, NEW x \in Seqs, Holds(q, x)' PROVE Holds(q, x)
  BY <1>1, <1>6 DEF Holds
<1>7. QED
  BY <1>4, <1>5, <1>6

(* A commit of the bucket keeps the claims and the history. *)
LEMMA SInvCommit ==
  ASSUME VInv, SInv, Commit
  PROVE  SInv' /\ [History!HNext]_History!hvars
<1>0. lastSeq \in 0..MaxSeq /\ lastSeq <= lastSeq /\ LeakInv
  BY BoundAssumption DEF VInv, TypeOK, SInv
<1>1. ASSUME NEW sl \in BOOLEAN, NEW st \in BOOLEAN, PutObject(sl, st)
      PROVE  SInv' /\ [History!HNext]_History!hvars
  <2>1. /\ AllocVersionSeq /\ CommitVersion(lastSeq + 1, NextId, FALSE, sl, st)
        /\ UNCHANGED settings /\ req' = req
    BY <1>1 DEF PutObject
  <2>2. Fresh(lastSeq + 1, NextId) /\ lastSeq' \in 0..MaxSeq /\ lastSeq <= lastSeq'
    BY <2>1, NextFresh
  <2>3. \A c \in leaked : c[1] # lastSeq + 1
    <3>1. \A c \in leaked : c[1] \in Nat /\ c[1] <= lastSeq
      BY <1>0, BoundAssumption DEF LeakInv, VInv, TypeOK, Seqs
    <3>2. QED
      BY <1>0, <3>1, BoundAssumption
  <2>4. \A q \in Requests, x \in Seqs : Holds(q, x)' => Holds(q, x) \/ lastSeq < x
    BY <2>1 DEF Holds
  <2>5. Erasing' = Erasing
    BY <2>1 DEF Erasing
  <2>6. QED
    BY <2>1, <2>2, <2>3, <2>4, <2>5, CommitWrites
<1>2. CASE FailCommit
  <2>1. /\ UNCHANGED <<value, indexes>> /\ req' = req /\ versioning' = versioning
        /\ AllocVersionSeq
    BY <1>2 DEF FailCommit, settings
  <2>2. lastSeq' \in 0..MaxSeq /\ lastSeq <= lastSeq'
    BY <2>1, NextFresh
  <2>3. Erasing' = Erasing /\ \A q \in Requests, x \in Seqs : Holds(q, x)' => Holds(q, x)
    BY <2>1 DEF Erasing, Holds
  <2>4. QED
    BY <2>1, <2>2, <2>3, NothingGone
<1>3. ASSUME NEW id \in {Null} \cup Tokens, DeleteVersionScoped(id)
      PROVE  SInv' /\ [History!HNext]_History!hvars
  <2>1. PICK t \in Target(id) : Unlink(t) /\ claims' = DropClaims({t})
    BY <1>3 DEF DeleteVersionScoped
  <2>2. UNCHANGED <<settings, lastSeq, req, leaked>>
    BY <1>3 DEF DeleteVersionScoped
  <2>3. t \in Versions
    BY TargetIs, Ids
  <2>4. /\ Versions' = Versions \ {t} /\ prev' \subseteq prev
        /\ locked' = locked \ {t.seq} /\ tagged' = tagged \ {t.seq}
    BY <2>1, <2>3, UnlinkEffect DEF VInv
  <2>5. form' # "absent" => current' \in Versions'
    BY DEF Versions
  <2>6. QED
    BY <2>1, <2>2, <2>3, <2>4, <2>5, GoneRemoves
<1>4. ASSUME NEW id \in {Latest, Null} \cup Tokens,
             MutateVersionLock(id) \/ MutateVersionTags(id) \/ DeleteObjectTagging(id)
      PROVE  SInv' /\ [History!HNext]_History!hvars
  <2>1. PICK t \in Target(id) :
          /\ StateWrite(t)
          /\ \/ locked' = locked \cup {t.seq} /\ tagged' = tagged
             \/ tagged' = tagged \cup {t.seq} /\ locked' = locked
             \/ tagged' = tagged \ {t.seq} /\ locked' = locked
    BY <1>4 DEF MutateVersionLock, MutateVersionTags, DeleteObjectTagging
  <2>2. t \in Versions
    BY TargetIs
  <2>3. Versions' = Versions
    BY <2>1, <2>2, MarkEffect
  <2>4. /\ ~t.marker /\ form' = "leaf" /\ current' = current /\ prev' = prev
        /\ claims' = claims /\ leaked' = leaked /\ UNCHANGED settings
        /\ lastSeq' = lastSeq /\ req' = req
    BY <2>1 DEF StateWrite, indexes
  <2>5. PlainInv'
    <3>1. form # "absent"
      BY <2>2 DEF VInv, Layout, Versions
    <3>2. QED
      BY <2>4, <3>1 DEF SInv, PlainInv, settings
  <2>6. ClaimsExact' /\ LeakInv'
    BY <2>3, <2>4 DEF SInv, ClaimsExact, ClaimIds, LeakInv, Holds, settings
  <2>7. History!Mark
    BY <2>1, <2>2, <2>3, <2>4 DEF History!Mark, settings, Erasing
  <2>8. QED
    BY <2>5, <2>6, <2>7 DEF SInv, History!HNext
<1>5. QED
  BY <1>1, <1>2, <1>3, <1>4 DEF Commit

(* A commit that takes its number as its request, no late delete, ends. *)
LEMMA SInvWriteEnds ==
  ASSUME VInv, SInv, NEW r \in Requests, NEW m \in BOOLEAN, AllocVersionSeq, End(r),
         CommitVersion(lastSeq + 1, NextId, m, FALSE, FALSE), UNCHANGED settings, r \notin Erasing
  PROVE  SInv' /\ History!HNext
<1>1. Fresh(lastSeq + 1, NextId) /\ lastSeq' \in 0..MaxSeq /\ lastSeq <= lastSeq'
  BY NextFresh
<1>2. \A c \in leaked : c[1] # lastSeq + 1
  <2>1. \A c \in leaked : c[1] \in Nat /\ c[1] <= lastSeq
    BY BoundAssumption DEF SInv, LeakInv, VInv, TypeOK, Seqs
  <2>2. lastSeq \in Nat
    BY BoundAssumption DEF VInv, TypeOK
  <2>3. QED
    BY <2>1, <2>2
<1>3. \A q \in Requests, x \in Seqs : Holds(q, x)' => Holds(q, x) \/ lastSeq < x
  BY Ended DEF VInv
<1>4. Erasing' = Erasing
  BY ErasingEnds DEF VInv
<1>5. CASE m = TRUE
  BY <1>1, <1>2, <1>3, <1>4, <1>5, CommitWrites
<1>6. CASE m = FALSE
  BY <1>1, <1>2, <1>3, <1>4, <1>6, CommitWrites
<1>7. QED
  BY <1>5, <1>6

(* deleteObjectKey by a late delete: the previous versions' claims stay *)
(* behind, and the history is erased.                                   *)
LEMMA SInvErases ==
  ASSUME VInv, SInv, NEW r \in Requests, DeleteObjectKey, End(r), UNCHANGED settings,
         r \in Erasing
  PROVE  SInv' /\ History!HNext
<1>0. LeakInv /\ PlainInv /\ ClaimsExact /\ TypeOK /\ SeqInv
  BY DEF SInv, VInv
<1>1. /\ form' = "absent" /\ prev' = {} /\ locked' = {} /\ tagged' = {}
      /\ Versions' = {} /\ lastSeq' = lastSeq
      /\ claims' = DropClaims(IF form = "absent" THEN {} ELSE {current})
      /\ leaked' = leaked \cup ClaimIds(prev)
  BY DEF DeleteObjectKey, Versions
<1>2. PlainInv'
  BY <1>1 DEF PlainInv
<1> DEFINE cur == IF form = "absent" THEN {} ELSE {current}
<1>3. Versions = cur \cup prev /\ prev = Versions \ cur /\ cur \subseteq Versions
  <2>1. Versions = cur \cup prev
    BY DEF Versions
  <2>2. ASSUME form # "absent" PROVE current \notin prev
    <3>1. \A v \in prev : v.seq < current.seq
      BY DEF VInv, Numbered
    <3>2. current.seq \in Nat
      BY <2>2, Fields, Ids DEF VInv, TypeOK
    <3>3. QED
      BY <3>1, <3>2
  <2>3. QED
    BY <2>1, <2>2
<1> HIDE DEF cur
<1>4. ClaimIds(prev) = ClaimIds(Versions) \ ClaimIds(cur) /\ leaked \cap ClaimIds(cur) = {}
  BY <1>0, <1>3, IndexMinus, LeakApart
<1>5. ClaimsExact'
  <2>1. claims' = (ClaimIds(Versions) \cup leaked) \ ClaimIds(cur)
    BY <1>0, <1>1 DEF ClaimsExact, DropClaims, cur
  <2>2. claims' = leaked'
    BY <1>1, <1>4, <2>1
  <2>3. ClaimIds(Versions)' = {}
    BY <1>1 DEF ClaimIds
  <2>4. versioning' = "unversioned" => leaked' = {}
    <3>1. versioning = "unversioned" => leaked = {} /\ prev = {}
      BY <1>0 DEF ClaimsExact, PlainInv
    <3>2. ClaimIds({}) = {}
      BY DEF ClaimIds
    <3>3. QED
      BY <1>1, <3>1, <3>2 DEF settings
  <2>5. QED
    BY <2>2, <2>3, <2>4 DEF ClaimsExact
<1>6. LeakInv'
  <2>1. \A q \in Requests, x \in Seqs : Holds(q, x)' => Holds(q, x)
    BY <1>0, Ended
  <2>2. ASSUME NEW c \in leaked' PROVE c[1] <= lastSeq /\ \A q \in Requests : ~Holds(q, c[1])
    <3>1. CASE c \in leaked
      BY <1>0, <3>1 DEF LeakInv
    <3>2. CASE c \in ClaimIds(prev)
      <4>1. PICK v \in prev : v.seq = c[1]
        BY <3>2, ClaimNumber
      <4>2. v \in Versions /\ v.seq \in Seqs
        BY <1>3, Fields DEF VInv, TypeOK
      <4>3. QED
        BY <1>0, <4>1, <4>2 DEF SeqInv
    <3>3. QED
      BY <1>1, <3>1, <3>2
  <2>3. ASSUME NEW c \in leaked' PROVE c[1] \in Seqs
    <3>1. ClaimIds(prev) \subseteq Seqs \X BOOLEAN
      BY <1>0, IndexTypes DEF TypeOK
    <3>2. c \in Seqs \X BOOLEAN
      BY <1>0, <1>1, <3>1 DEF TypeOK
    <3>3. QED
      BY <3>2
  <2>4. QED
    BY <1>1, <2>1, <2>2, <2>3 DEF LeakInv
<1>7. Erasing' = Erasing \ {r}
  BY <1>0, ErasingEnds
<1>8. History!Erase(r)
  BY <1>1, <1>7 DEF History!Erase, settings
<1>9. QED
  BY <1>2, <1>5, <1>6, <1>8 DEF SInv, History!HNext

(* A step of a request keeps them. *)
LEMMA SInvStep ==
  ASSUME VInv, SInv, NEW r \in Requests, Step(r)
  PROVE  SInv' /\ [History!HNext]_History!hvars
<1>0. TypeOK /\ LeakInv /\ req[r] \in Request /\ lastSeq \in 0..MaxSeq /\ lastSeq \in Nat /\ lastSeq <= lastSeq
  BY BoundAssumption DEF SInv, VInv, TypeOK
<1>c. req[r][1] # "delete" => r \notin Erasing
  BY Heads, Zenon DEF Erasing
<1>e. ASSUME End(r) PROVE \A q \in Requests, x \in Seqs : Holds(q, x)' => Holds(q, x) \/ lastSeq < x
  BY <1>0, <1>e, Ended
<1>1. CASE ReserveVersion(r)
  <2>1. UNCHANGED <<value, indexes>> /\ versioning' = versioning
    BY <1>1 DEF ReserveVersion, settings
  <2>2. PICK s \in {0, lastSeq + 1} : Begin(r, <<"complete", s>>) /\ lastSeq' \in {lastSeq, s}
                                      /\ lastSeq' \in 0..MaxSeq /\ lastSeq <= lastSeq' /\ s \in 0..MaxSeq
    <3>1. CASE versioning = "enabled"
      <4>1. AllocVersionSeq /\ Begin(r, <<"complete", lastSeq + 1>>)
        BY <1>1, <3>1 DEF ReserveVersion
      <4>2. lastSeq' = lastSeq + 1 /\ lastSeq' \in 0..MaxSeq
        BY <4>1, NextFresh
      <4>3. QED
        BY <1>0, <4>1, <4>2
    <3>2. CASE versioning # "enabled"
      <4>1. lastSeq' = lastSeq /\ Begin(r, <<"complete", 0>>)
        BY <1>1, <3>2 DEF ReserveVersion
      <4>2. QED
        BY <1>0, <4>1, BoundAssumption
    <3>3. QED
      BY <3>1, <3>2
  <2>3. \A q \in Requests : req'[q] = IF q = r THEN <<"complete", s>> ELSE req[q]
    BY <1>0, <2>2, ReqSet, Shapes DEF Begin
  <2>4. ASSUME NEW q \in Requests, NEW x \in Seqs, Holds(q, x)' PROVE Holds(q, x) \/ lastSeq < x
    <3>1. CASE q = r
      <4>1. x = s
        BY <2>3, <2>4, <3>1 DEF Holds
      <4>2. x # 0
        BY BoundAssumption DEF Seqs
      <4>3. QED
        BY <1>0, <2>2, <4>1, <4>2
    <3>2. CASE q # r
      BY <2>3, <2>4, <3>2 DEF Holds
    <3>3. QED
      BY <3>1, <3>2
  <2>5. Erasing' = Erasing
    <3>1. <<"complete", s>> \in Request
      BY <2>2, Shapes
    <3>2. <<"complete", s>>[1] = "complete"
      OBVIOUS
    <3>3. <<"complete", s>> # <<"delete", FALSE>>
      BY <3>2, Heads
    <3>4. QED
      BY <1>0, <2>2, <3>1, <3>3, ErasingBegins
  <2>6. QED
    BY <2>1, <2>2, <2>4, <2>5, NothingGone
<1>2. CASE CommitReserved(r)
  <2>1. /\ CommitVersion(req[r][2], Mint(req[r][2]), FALSE, FALSE, FALSE)
        /\ End(r) /\ UNCHANGED settings /\ lastSeq' = lastSeq /\ req[r][1] = "complete"
    BY <1>2 DEF CommitReserved
  <2>2. Fresh(req[r][2], Mint(req[r][2])) /\ Holds(r, req[r][2])
    BY <1>2, ReservedFresh
  <2>3. \A c \in leaked : c[1] # req[r][2]
    BY <1>0, <2>2 DEF LeakInv
  <2>4. Erasing' = Erasing
    BY <1>0, <1>c, <2>1, ErasingEnds
  <2>5. lastSeq' \in 0..MaxSeq /\ lastSeq <= lastSeq'
    BY <1>0, <2>1
  <2>6. QED
    BY <1>e, <2>1, <2>2, <2>3, <2>4, <2>5, CommitWrites
<1>3. CASE CommitUnreported(r)
  <2>1. /\ CommitVersion(lastSeq + 1, NextId, FALSE, FALSE, FALSE)
        /\ End(r) /\ UNCHANGED settings /\ AllocVersionSeq
    BY <1>3 DEF CommitUnreported, NextId
  <2>2. req[r][1] = "complete"
    BY <1>3 DEF CommitUnreported
  <2>3. QED
    BY <1>c, <2>1, <2>2, SInvWriteEnds
<1>4. CASE Abandon(r)
  <2>1. UNCHANGED <<value, indexes>> /\ versioning' = versioning /\ lastSeq' = lastSeq /\ End(r)
    BY <1>4 DEF Abandon, settings
  <2>2. /\ SInv' /\ UNCHANGED <<Versions, locked, tagged>>
        /\ Erasing' = Erasing => [History!HNext]_History!hvars
    BY <1>0, <1>e, <2>1, NothingGone
  <2>3. Erasing' = Erasing \ {r}
    BY <1>0, <2>1, ErasingEnds
  <2>4. CASE r \in Erasing
    <3>1. History!Erase(r)
      BY <2>1, <2>2, <2>3, <2>4 DEF History!Erase
    <3>2. QED
      BY <2>2, <3>1 DEF History!HNext
  <2>5. CASE r \notin Erasing
    BY <2>2, <2>3, <2>5
  <2>6. QED
    BY <2>4, <2>5
<1>5. CASE DeleteCommit(r)
  <2>1. End(r) /\ UNCHANGED settings /\ req[r] = <<"delete", req[r][2]>> /\ req[r][2] \in BOOLEAN
    BY <1>5, <1>0, Kinds DEF DeleteCommit
  <2>2. CASE req[r][2]
    <3>1. AllocVersionSeq /\ CommitVersion(lastSeq + 1, NextId, TRUE, FALSE, FALSE)
      BY <1>5, <2>2 DEF DeleteCommit, InsertDeleteMarker
    <3>2. r \notin Erasing
      <4>1. req[r] = <<"delete", TRUE>>
        BY <2>1, <2>2
      <4>2. QED
        BY <4>1, Heads, Zenon DEF Erasing
    <3>3. QED
      BY <2>1, <3>1, <3>2, SInvWriteEnds
  <2>3. CASE ~req[r][2]
    <3>1. DeleteObjectKey
      BY <1>5, <2>3 DEF DeleteCommit
    <3>2. r \in Erasing
      <4>1. req[r] = <<"delete", FALSE>>
        BY <2>1, <2>3
      <4>2. QED
        BY <4>1 DEF Erasing
    <3>3. QED
      BY <2>1, <3>1, <3>2, SInvErases
  <2>4. QED
    BY <2>1, <2>2, <2>3
<1>6. CASE DeleteRead(r)
  <2>1. UNCHANGED <<value, indexes>> /\ versioning' = versioning /\ lastSeq' = lastSeq
    BY <1>6 DEF DeleteRead, settings
  <2>2. CASE versioning = "unversioned"
    <3>1. Begin(r, <<"delete", FALSE>>)
      BY <1>6, <2>2 DEF DeleteRead
    <3>2. <<"delete", FALSE>> \in Request /\ <<"delete", FALSE>>[1] # "complete"
      BY Shapes
    <3>3. /\ Erasing' = Erasing \cup {r}
          /\ \A q \in Requests, x \in Seqs : Holds(q, x)' => Holds(q, x)
      BY <1>0, <3>1, <3>2, ErasingBegins
    <3>4. SInv' /\ UNCHANGED <<Versions, locked, tagged>>
      BY <1>0, <2>1, <3>3, NothingGone
    <3>5. History!Come(r)
      BY <2>1, <2>2, <3>3, <3>4 DEF History!Come
    <3>6. QED
      BY <3>4, <3>5 DEF History!HNext
  <2>3. CASE versioning # "unversioned"
    <3>1. Begin(r, <<"delete", TRUE>>)
      BY <1>6, <2>3 DEF DeleteRead
    <3>2. <<"delete", TRUE>> \in Request /\ <<"delete", TRUE>>[1] # "complete"
      BY Shapes
    <3>3. /\ Erasing' = Erasing
          /\ \A q \in Requests, x \in Seqs : Holds(q, x)' => Holds(q, x)
      BY <1>0, <3>1, <3>2, Heads, ErasingBegins
    <3>4. QED
      BY <1>0, <2>1, <3>3, NothingGone
  <2>4. QED
    BY <2>2, <2>3
<1>7. ASSUME NEW v \in {"enabled", "suspended"}, PutVersioningRead(r, v) \/ PutLockRead(r)
      PROVE  SInv' /\ [History!HNext]_History!hvars
  <2>1. UNCHANGED <<value, indexes>> /\ versioning' = versioning /\ lastSeq' = lastSeq
    BY <1>7 DEF PutVersioningRead, PutLockRead, settings
  <2>2. PICK w \in {<<"versioning", v>>, <<"lock">>} : Begin(r, w)
    BY <1>7 DEF PutVersioningRead, PutLockRead
  <2>3. w \in Request /\ w[1] \in {"versioning", "lock"}
    BY Shapes
  <2>4. w # <<"delete", FALSE>>
    BY <2>3, Heads
  <2>5. /\ Erasing' = Erasing
        /\ \A q \in Requests, x \in Seqs : Holds(q, x)' => Holds(q, x)
    BY <1>0, <2>2, <2>3, <2>4, ErasingBegins
  <2>6. QED
    BY <1>0, <2>1, <2>5, NothingGone
<1>8. CASE PutVersioningSet(r) \/ PutLockSet(r)
  <2>1. UNCHANGED <<value, indexes>> /\ lastSeq' = lastSeq /\ End(r) /\ req[r][1] \in {"versioning", "lock"}
    BY <1>8 DEF PutVersioningSet, PutLockSet
  <2>2. versioning' \in {versioning, "enabled", "suspended"}
    BY <1>0, <1>8, Kinds DEF PutVersioningSet, PutLockSet
  <2>3. Erasing' = Erasing
    BY <1>0, <1>c, <2>1, ErasingEnds
  <2>4. QED
    BY <1>0, <1>e, <2>1, <2>2, <2>3, NothingGone
<1>9. QED
  <2>1. "enabled" \in {"enabled", "suspended"}
    OBVIOUS
  <2>2. QED
    BY <2>1, <1>1, <1>2, <1>3, <1>4, <1>5, <1>6, <1>7, <1>8 DEF Step

(* Every step keeps them and is a step of the history or leaves it alone. *)
LEMMA SInvNext == VInv /\ SInv /\ [Next]_vars => SInv' /\ [History!HNext]_History!hvars
<1> SUFFICES ASSUME VInv, SInv, [Next]_vars
             PROVE  SInv' /\ [History!HNext]_History!hvars
  OBVIOUS
<1>1. CASE Commit
  BY <1>1, SInvCommit
<1>2. ASSUME NEW r \in Requests, Step(r) PROVE SInv' /\ [History!HNext]_History!hvars
  BY <1>2, SInvStep
<1>3. CASE ListVersionsStart \/ ListVersionsPage \/ UNCHANGED vars
  <2>1. UNCHANGED <<value, indexes>> /\ req' = req /\ versioning' = versioning /\ lastSeq' = lastSeq
    BY <1>3 DEF ListVersionsStart, ListVersionsPage, vars, settings
  <2>2. Erasing' = Erasing /\ \A q \in Requests, x \in Seqs : Holds(q, x)' => Holds(q, x)
    BY <2>1 DEF Erasing, Holds
  <2>3. lastSeq' \in 0..MaxSeq /\ lastSeq <= lastSeq'
    BY <2>1, BoundAssumption DEF VInv, TypeOK
  <2>4. QED
    BY <2>1, <2>2, <2>3, NothingGone
<1>4. QED
  BY <1>1, <1>2, <1>3 DEF Next

(* The first state is one of the history, and nothing is under way. *)
LEMMA SInvInit == Init => SInv /\ History!HInit
<1> SUFFICES ASSUME Init PROVE SInv /\ History!HInit
  OBVIOUS
<1>1. Versions = {}
  BY DEF Init, Versions
<1>2. \A q \in Requests : req[q] = Idle
  BY DEF Init
<1>3. Erasing = {}
  BY <1>2, Heads, Zenon DEF Erasing
<1>4. LeakInv /\ PlainInv /\ ClaimsExact
  BY <1>1 DEF LeakInv, PlainInv, ClaimsExact, ClaimIds, Init
<1>5. QED
  BY <1>1, <1>3, <1>4 DEF SInv, History!HInit, Init

(* What is said of the claims holds. *)
LEMMA SInvHolds == Spec => []SInv
  BY VInvHolds, SInvInit, SInvNext, PTL DEF Spec

(* No version is left unclaimed and no discarded one claimed, but for the  *)
(* previous versions that a delete takes that read the bucket's settings   *)
(* before it was versioned, whatever requests change the settings meanwhile *)
(* (commitVersionAt, deleteVersionScoped, deleteObjectKey).                *)
THEOREM ClaimsAreExact == Spec => []ClaimsExact
<1>1. SInv => ClaimsExact
  BY DEF SInv
<1>2. QED
  BY <1>1, SInvHolds, PTL

(* The leaf, its prev tree, NullSeq and its state tree implement a version  *)
(* history: every commit extends it at its new end, a write loses nothing   *)
(* but the null version that a null version replaces, lock state and tags   *)
(* stay with their version, and the whole of it goes only with a delete     *)
(* that came while the bucket was unversioned, once for each.               *)
THEOREM HistoryIsImplemented == Spec => ImplementsHistory
<1>1. Init => History!HInit
  BY SInvInit
<1>2. VInv /\ SInv /\ [Next]_vars => [History!HNext]_History!hvars
  BY SInvNext
<1>3. QED
  BY <1>1, <1>2, VInvHolds, SInvHolds, PTL DEF Spec, ImplementsHistory, History!HSpec
=============================================================================
