--------------------------- MODULE ObjectVersions ---------------------------
(***************************************************************************)
(* The versions of one object key.  The key's value is a manifest as long  *)
(* as it has had one version and no state; from then on a leaf: a current  *)
(* version, a tree of previous ones keyed by their inverted sequence       *)
(* number, the number of the previous null version, and a tree of lock     *)
(* state and tags (version.go, objectlock.go).  Commits hold the bucket's  *)
(* lock and are one step; what a request reads before it takes the lock    *)
(* (the bucket's settings, a reserved number) is a step of its own.  The   *)
(* claims that a commit carries are kept beside the value; the rows of the *)
(* registration outbox are those of module Registrations; gc_candidates,   *)
(* which nothing reads, is left out.                                       *)
(***************************************************************************)
EXTENDS Naturals, FiniteSets

CONSTANTS Requests,   \* requests that read first and commit later
          MaxSeq      \* bound: sequence numbers the bucket hands out

ASSUME BoundAssumption == MaxSeq \in Nat

VARIABLES
  versioning,  \* buckets.versioning: "unversioned", "enabled" or "suspended"
  lockConfig,  \* whether the bucket has an object-lock configuration
  lastSeq,     \* buckets.next_version_seq: the last number handed out
  form,        \* the key's value: "absent", "manifest" or "leaf"
  current,     \* its current version (ObjectLeaf.Current), or NoVersion
  prev,        \* its previous versions (ObjectLeaf.Prev)
  nullSeq,     \* ObjectLeaf.NullSeq, 0 for none
  locked,      \* the versions whose state block has retention or a hold
  tagged,      \* the versions whose state block has tags
  claims,      \* the blob_refs rows of the key's bodies
  leaked,      \* history: the claims of versions that a delete by a stale
               \* reading of the settings dropped with the leaf
  req,         \* the requests between their read and their commit
  list         \* one paged ListObjectVersions

settings == <<versioning, lockConfig>>
value    == <<form, current, prev, nullSeq, locked, tagged>>
indexes  == <<claims, leaked>>
vars     == <<settings, lastSeq, value, indexes, req, list>>

Seqs   == 1..MaxSeq
Null   == <<0, TRUE>>            \* the id "null" (registry.NullVersionID)
Latest == <<0, FALSE>>           \* no version id in the request
Tokens == Seqs \X BOOLEAN        \* well-formed ids: any time, and a number
Mint(s) == <<s, TRUE>>           \* mintVersionID: the time of the commit, and s

Version   == [seq : Seqs, id : {Null} \cup Tokens, marker : BOOLEAN]
NoVersion == [seq |-> 0, id |-> Latest, marker |-> FALSE]

Request ==
  {<<"idle">>} \cup
  {<<"complete", s>> : s \in 0..MaxSeq} \cup
  {<<"delete", c>> : c \in BOOLEAN} \cup
  {<<"versioning", v>> : v \in {"enabled", "suspended"}} \cup
  {<<"lock">>}

Idle == <<"idle">>

SeqsOf(vs)   == {v.seq : v \in vs}
At(vs, s)    == {v \in vs : v.seq = s}
ClaimIds(vs) == {<<v.seq, v.id = Null>> : v \in {w \in vs : ~w.marker}}

(* Every version the key has. *)
Versions == (IF form = "absent" THEN {} ELSE {current}) \cup prev

Newest(vs) == CHOOSE v \in vs : \A w \in vs : w.seq <= v.seq

Init ==
  /\ versioning = "unversioned" /\ lockConfig = FALSE
  /\ lastSeq = 0
  /\ form = "absent" /\ current = NoVersion /\ prev = {} /\ nullSeq = 0
  /\ locked = {} /\ tagged = {}
  /\ claims = {} /\ leaked = {}
  /\ req = [r \in Requests |-> Idle]
  /\ list = [page |-> "new", marker |-> Latest, owed |-> {}]

-----------------------------------------------------------------------------
(* The version a request's id names. *)

(* The locate step of deleteVersionScoped and mutateVersionState. *)
Target(id) ==
  IF form = "absent" THEN {}
  ELSE CASE id = Latest -> {current}
         [] id = Null -> IF current.id = Null THEN {current}
                         ELSE IF nullSeq = 0 THEN {} ELSE At(prev, nullSeq)
         [] OTHER -> IF current.id = id THEN {current}
                     ELSE {v \in At(prev, id[1]) : v.id = id}

(* resolveVersionIn: what GetObject, HeadObject and the lock and tag reads see. *)
Resolve(id) ==
  CASE form = "absent" -> {}
    [] form = "manifest" -> IF id = Latest \/ current.id = id THEN {current} ELSE {}
    [] form = "leaf" /\ id = Latest -> {current}
    [] form = "leaf" /\ id = Null ->
         IF current.id = Null THEN {current}
         ELSE IF nullSeq = 0 THEN {} ELSE At(prev, nullSeq)
    [] OTHER ->
         IF current.seq = id[1] THEN {v \in {current} : v.id = id}
         ELSE {v \in At(prev, id[1]) : v.id = id}

-----------------------------------------------------------------------------
(* Commits. *)

(* Mutant: a bucket that is not Enabled replaces numbered versions too. *)
RetainsEnabled == form # "absent" /\ versioning = "enabled"

(* What commitVersionAt does with the version it supersedes: keep it, *)
(* or discard a null one that a bucket that is not Enabled replaces.  *)
Retains == form # "absent" /\ (versioning = "enabled" \/ current.id # Null)

(* Mutant: a null version that is kept is not recorded. *)
ForgottenNull == nullSeq

(* The previous versions and the null's number once the current one is kept. *)
KeptPrev == IF Retains THEN prev \cup {current} ELSE prev
KeptNull == IF Retains /\ current.id = Null THEN current.seq ELSE nullSeq

(* The versions that a write with this id removes: the null current it *)
(* replaces, and the previous null that a new null evicts.             *)
Discarded(id) ==
  (IF form # "absent" /\ ~Retains THEN {current} ELSE {})
  \cup (IF id = Null /\ KeptNull # 0 THEN At(KeptPrev, KeptNull) ELSE {})

(* Mutant: the claim ids of null versions carry no number, so that the *)
(* drop of a replaced null version finds no row.                       *)
DropNumbered(vs) == claims \ ClaimIds({v \in vs : v.id # Null})

(* dropClaims: the claims that go with discarded versions. *)
DropClaims(vs) == claims \ ClaimIds(vs)

(* commitVersionAt: the value and the claims of one commit. *)
CommitVersion(s, id, marker, stampLock, stampTags) ==
  LET new == [seq |-> s, id |-> id, marker |-> marker]
      gone == Discarded(id)
  IN /\ form' = IF form = "leaf" \/ Retains \/ stampLock \/ stampTags
                THEN "leaf" ELSE "manifest"
     /\ current' = new
     /\ prev' = KeptPrev \ gone
     /\ nullSeq' = IF id = Null THEN 0 ELSE KeptNull
     /\ locked' = (locked \ SeqsOf(gone)) \cup (IF stampLock THEN {s} ELSE {})
     /\ tagged' = (tagged \ SeqsOf(gone)) \cup (IF stampTags THEN {s} ELSE {})
     /\ claims' = DropClaims(gone) \cup ClaimIds({new})
     /\ UNCHANGED leaked

(* AllocVersionSeq: a statement of its own, which no failure takes back. *)
AllocVersionSeq == lastSeq < MaxSeq /\ lastSeq' = lastSeq + 1

NextId == IF versioning = "enabled" THEN Mint(lastSeq + 1) ELSE Null

(* PutObject, CopyObject's destination, and a Complete that has no part *)
(* left to accept: a number, an id and the version in one commit.       *)
PutObject(stampLock, stampTags) ==
  /\ stampLock => lockConfig
  /\ AllocVersionSeq
  /\ CommitVersion(lastSeq + 1, NextId, FALSE, stampLock, stampTags)
  /\ UNCHANGED <<settings, req, list>>

(* A commit that fails after it has its number, at a precondition or at *)
(* the root swap: a gap.                                                *)
FailCommit ==
  /\ AllocVersionSeq
  /\ UNCHANGED <<settings, value, indexes, req, list>>

(* insertDeleteMarker: a marker, even over a key that does not exist. *)
InsertDeleteMarker ==
  /\ AllocVersionSeq
  /\ CommitVersion(lastSeq + 1, NextId, TRUE, FALSE, FALSE)

(* deleteObjectKey: the value goes, whatever it is, and the claims of its *)
(* current version; a leaf's previous versions go without their claims.   *)
DeleteObjectKey ==
  /\ form' = "absent" /\ current' = NoVersion /\ prev' = {} /\ nullSeq' = 0
  /\ locked' = {} /\ tagged' = {}
  /\ claims' = DropClaims(IF form = "absent" THEN {} ELSE {current})
  /\ leaked' = leaked \cup ClaimIds(prev)
  /\ UNCHANGED lastSeq

(* Mutant: a leaf outlives its last version. *)
LeafOutlives(id) ==
  /\ id # Latest
  /\ \E t \in Target(id) :
       /\ t = current /\ prev = {}
       /\ current' = NoVersion /\ nullSeq' = 0
       /\ locked' = {} /\ tagged' = {}
       /\ claims' = {}
  /\ UNCHANGED <<settings, form, prev, leaked, lastSeq, req, list>>

(* The value without the version t: the newest previous version takes the *)
(* place of a current one (prevHead, spliceLeaf), and a key without       *)
(* versions goes; the state of t goes with it (pruneVersionState).        *)
Unlink(t) ==
  /\ IF t # current
     THEN /\ prev' = prev \ {t}
          /\ nullSeq' = IF t.seq = nullSeq THEN 0 ELSE nullSeq
          /\ UNCHANGED <<form, current>>
     ELSE IF prev = {}
     THEN /\ form' = "absent" /\ current' = NoVersion /\ prev' = {} /\ nullSeq' = 0
     ELSE LET head == Newest(prev)
          IN /\ current' = head
             /\ prev' = prev \ {head}
             /\ nullSeq' = IF head.seq = nullSeq THEN 0 ELSE nullSeq
             /\ UNCHANGED form
  /\ locked' = locked \ {t.seq}
  /\ tagged' = tagged \ {t.seq}

(* deleteVersionScoped: one version for good, with its claims. *)
DeleteVersionScoped(id) ==
  /\ id # Latest
  /\ \E t \in Target(id) :
       /\ Unlink(t)
       /\ claims' = DropClaims({t})
  /\ UNCHANGED <<settings, lastSeq, leaked, req, list>>

(* A state write of mutateVersionState to the version t: the key becomes a leaf. *)
StateWrite(t) ==
  /\ ~t.marker
  /\ form' = "leaf"
  /\ UNCHANGED <<settings, lastSeq, current, prev, nullSeq, indexes, req, list>>

(* PutObjectRetention and PutObjectLegalHold, with the lock-enabled gate. *)
MutateVersionLock(id) ==
  \E t \in Target(id) :
    /\ lockConfig
    /\ StateWrite(t)
    /\ locked' = locked \cup {t.seq}
    /\ UNCHANGED tagged

(* PutObjectTagging, which no setting gates. *)
MutateVersionTags(id) ==
  \E t \in Target(id) :
    /\ StateWrite(t)
    /\ tagged' = tagged \cup {t.seq}
    /\ UNCHANGED locked

(* DeleteObjectTagging; without tags to remove there is nothing to write. *)
DeleteObjectTagging(id) ==
  \E t \in Target(id) :
    /\ t.seq \in tagged
    /\ StateWrite(t)
    /\ tagged' = tagged \ {t.seq}
    /\ UNCHANGED locked

-----------------------------------------------------------------------------
(* Requests that read before the lock. *)

Begin(r, what) ==
  /\ req[r] = Idle
  /\ req' = [req EXCEPT ![r] = what]

End(r) == req' = [req EXCEPT ![r] = Idle]

(* CompleteMultipartUpload with parts left to accept reports its version  *)
(* before it commits it (reserveVersion), or reports that it has no id.   *)
ReserveVersion(r) ==
  /\ IF versioning = "enabled"
     THEN AllocVersionSeq /\ Begin(r, <<"complete", lastSeq + 1>>)
     ELSE UNCHANGED lastSeq /\ Begin(r, <<"complete", 0>>)
  /\ UNCHANGED <<settings, value, indexes, list>>

(* commitVersionAt of a reserved version, unless it is superseded. *)
CommitReserved(r) ==
  /\ req[r][1] = "complete" /\ req[r][2] # 0
  /\ versioning = "enabled"
  /\ form # "absent" => current.seq <= req[r][2]
  /\ CommitVersion(req[r][2], Mint(req[r][2]), FALSE, FALSE, FALSE)
  /\ End(r)
  /\ UNCHANGED <<settings, lastSeq, list>>

(* commitVersionAt of a Complete that reported no id. *)
CommitUnreported(r) ==
  /\ req[r] = <<"complete", 0>>
  /\ versioning # "enabled"
  /\ AllocVersionSeq
  /\ CommitVersion(lastSeq + 1, Null, FALSE, FALSE, FALSE)
  /\ End(r)
  /\ UNCHANGED <<settings, list>>

(* A commit refused (errReservationSuperseded), or any request cut off. *)
Abandon(r) ==
  /\ req[r] # Idle
  /\ End(r)
  /\ UNCHANGED <<settings, lastSeq, value, indexes, list>>

(* DeleteObject and DeleteObjects without a version read the versioning... *)
DeleteRead(r) ==
  /\ Begin(r, <<"delete", versioning # "unversioned">>)
  /\ UNCHANGED <<settings, lastSeq, value, indexes, list>>

(* ...and delete by what they read. *)
DeleteCommit(r) ==
  /\ req[r][1] = "delete"
  /\ IF req[r][2] THEN InsertDeleteMarker ELSE DeleteObjectKey
  /\ End(r)
  /\ UNCHANGED <<settings, list>>

(* PutBucketVersioning reads the settings and refuses to suspend a bucket *)
(* with a lock configuration...                                           *)
PutVersioningRead(r, v) ==
  /\ v = "suspended" => ~lockConfig
  /\ Begin(r, <<"versioning", v>>)
  /\ UNCHANGED <<settings, lastSeq, value, indexes, list>>

(* ...and SetVersioning writes without looking again. *)
PutVersioningSet(r) ==
  /\ req[r][1] = "versioning"
  /\ versioning' = req[r][2]
  /\ End(r)
  /\ UNCHANGED <<lockConfig, lastSeq, value, indexes, list>>

(* PutObjectLockConfiguration needs an Enabled bucket when it looks... *)
PutLockRead(r) ==
  /\ versioning = "enabled"
  /\ Begin(r, <<"lock">>)
  /\ UNCHANGED <<settings, lastSeq, value, indexes, list>>

(* ...and SetObjectLockConfig writes without looking again. *)
PutLockSet(r) ==
  /\ req[r] = <<"lock">>
  /\ lockConfig' = TRUE
  /\ End(r)
  /\ UNCHANGED <<versioning, lastSeq, value, indexes, list>>

-----------------------------------------------------------------------------
(* ListObjectVersions, one version to a page, resumed after its marker. *)

(* Mutant: a null marker whose version is gone ends the key. *)
SeqBelowEnds(marker) ==
  CASE marker = Latest -> MaxSeq + 1
    [] marker = Null -> IF current.id = Null THEN current.seq ELSE nullSeq
    [] OTHER -> marker[1]

(* owed holds the versions that were there at the first page, still are, *)
(* and have not been shown.                                              *)

(* The number below which a page resumes; a null marker whose version is *)
(* gone has no place, and the key's versions come again.                 *)
SeqBelow(marker) ==
  CASE marker = Latest -> MaxSeq + 1
    [] marker = Null -> IF current.id = Null THEN current.seq
                        ELSE IF nullSeq # 0 THEN nullSeq ELSE MaxSeq + 1
    [] OTHER -> marker[1]

ListVersionsStart ==
  /\ list.page = "new"
  /\ list' = [page |-> "more", marker |-> Latest, owed |-> Versions]
  /\ UNCHANGED <<settings, lastSeq, value, indexes, req>>

ListVersionsPage ==
  /\ list.page = "more"
  /\ LET left == {v \in Versions : v.seq < SeqBelow(list.marker)}
     IN IF left = {}
        THEN list' = [list EXCEPT !.page = "end", !.owed = @ \cap Versions]
        ELSE LET v == Newest(left)
             IN list' = [page   |-> IF left = {v} THEN "end" ELSE "more",
                         marker |-> v.id,
                         owed   |-> (list.owed \cap Versions) \ {v}]
  /\ UNCHANGED <<settings, lastSeq, value, indexes, req>>

-----------------------------------------------------------------------------

Commit ==
  \/ \E stampLock, stampTags \in BOOLEAN : PutObject(stampLock, stampTags)
  \/ FailCommit
  \/ \E id \in {Null} \cup Tokens : DeleteVersionScoped(id)
  \/ \E id \in {Latest, Null} \cup Tokens :
       MutateVersionLock(id) \/ MutateVersionTags(id) \/ DeleteObjectTagging(id)

Step(r) ==
  \/ ReserveVersion(r) \/ CommitReserved(r) \/ CommitUnreported(r)
  \/ Abandon(r)
  \/ DeleteRead(r) \/ DeleteCommit(r)
  \/ \E v \in {"enabled", "suspended"} : PutVersioningRead(r, v)
  \/ PutVersioningSet(r)
  \/ PutLockRead(r) \/ PutLockSet(r)

Next ==
  \/ Commit
  \/ \E r \in Requests : Step(r)
  \/ ListVersionsStart \/ ListVersionsPage

Spec == Init /\ [][Next]_vars

-----------------------------------------------------------------------------
(* Properties. *)

TypeOK ==
  /\ versioning \in {"unversioned", "enabled", "suspended"}
  /\ lockConfig \in BOOLEAN
  /\ lastSeq \in 0..MaxSeq
  /\ form \in {"absent", "manifest", "leaf"}
  /\ current \in Version \cup {NoVersion}
  /\ form # "absent" => current \in Version
  /\ prev \subseteq Version
  /\ nullSeq \in 0..MaxSeq
  /\ locked \subseteq Seqs /\ tagged \subseteq Seqs
  /\ claims \subseteq Seqs \X BOOLEAN
  /\ leaked \subseteq Seqs \X BOOLEAN
  /\ req \in [Requests -> Request]
  /\ list \in [page : {"new", "more", "end"}, marker : {Latest, Null} \cup Tokens,
               owed : SUBSET Version]

(* Whatever ids clients present, with numbers of other versions in them   *)
(* included, a read and a scoped delete find exactly the version that has *)
(* that id, although the trees are searched by number and the null        *)
(* version through NullSeq (version.go resolveVersionIn, objectlock.go    *)
(* mutateVersionState).                                                   *)
IdsResolve ==
  \A id \in {Null} \cup Tokens :
    LET named == {v \in Versions : v.id = id}
    IN Resolve(id) = named /\ Target(id) = named /\ Cardinality(named) <= 1

(* The claims of the key are those of the bodies of the versions it has:  *)
(* none unclaimed, and none of a discarded version left behind to keep    *)
(* its blobs for good (object.go: "a crash can neither leave a version    *)
(* unclaimed nor a discarded one claimed").  The one exception is a       *)
(* delete that acts on a reading from before the bucket was versioned     *)
(* (object.go DeleteObject): it drops the previous versions of a leaf     *)
(* with their claims left behind, and that never happens while the bucket *)
(* is unversioned.                                                        *)
ClaimsExact ==
  /\ claims = ClaimIds(Versions) \cup leaked
  /\ versioning = "unversioned" => leaked = {}

(* A listing that ended owes no version that was there from its first     *)
(* page to its last, however the key changed between its pages            *)
(* (listversions.go: "a duplicate page is possible, data loss is not").   *)
ListingComplete == list.page = "end" => list.owed = {}

(* Reads of the leaf and its trees are reads of a version history: writes *)
(* extend it at its new end, only a null version is ever replaced, lock   *)
(* state and tags stay with their version, and the whole of it goes only  *)
(* with a delete that came while the bucket was unversioned.              *)
Erasing == {r \in Requests : req[r] = <<"delete", FALSE>>}
History == INSTANCE VersionHistory WITH
             status <- versioning, history <- Versions, Deletes <- Requests, erasing <- Erasing
ImplementsHistory == History!HSpec
=============================================================================
