--------------------------- MODULE BlobLifecycle ---------------------------
(***************************************************************************)
(* The life of an object body's blobs (s3frontend/object.go, version.go,   *)
(* copy.go, localblobs.go; registry/stores_postgres.go): a PUT spools the  *)
(* bytes, uploads them and commits a version that claims them; an          *)
(* overwrite or a delete drops the claim and records a deferred release; a *)
(* copy pins a claim; releases run in the background and take the blob     *)
(* from the provider, the registry and the disk.                           *)
(*                                                                         *)
(* Bodies are stored as received, so two objects with the same bytes share *)
(* one blob: its digest.  An encrypted body is the case where no two       *)
(* writes have the same digest.  A body is one blob.  A version and its    *)
(* claim commit in one transaction, so claims stands for both; a retained  *)
(* version of a versioned bucket is a key of its own.  Times (the release  *)
(* grace, residency, orphan age) are arbitrary delays.                     *)
(***************************************************************************)
EXTENDS Naturals

CONSTANTS
    Spaces,         \* the spaces of the buckets on this node
    Digests,        \* what bodies may hold
    Keys,           \* object versions, across the buckets
    SpaceOf,        \* SpaceOf[k]: the space of k's bucket
    Writers,        \* PutObject and CopyObject requests under way
    Releasers,      \* who runs releases: the sweeper, DeleteBucket's drain,
                    \* an Abort's releaseNow
    None,           \* no key, no digest
    FailSteps,      \* the steps of a release that may fail
    DropAccepted    \* Deps.DropAcceptedBodies: written bodies are not cached

ASSUME SpaceOfAssumption == SpaceOf \in [Keys -> Spaces]
ASSUME NoneAssumption    == None \notin Keys /\ None \notin Digests
ASSUME DropAssumption    == DropAccepted \in BOOLEAN
ASSUME FailAssumption    == "idle" \notin FailSteps

Blob == Spaces \X Digests

VARIABLES
    \* Postgres
    claims,     \* blob_refs: the digest each live version claims
    record,     \* blob_release_intents: absent, pending or started
    intent,     \* upload_intents.state
    located,    \* blob_locations
    \* the provider
    stored,     \* the blobs it holds, by the space they are registered in
    \* the node's disk
    spool,      \* digests with a file in the spool
    cache,      \* digests with a file in the cache
    \* the process
    writer,     \* the write requests under way
    releaser,   \* the releases under way
    sweep,      \* the local blob sweeper: the digest it is about to remove
    \* history
    rerun       \* blobs whose release was run twice: by two runners at once, or
                \* by one that failed past its location delete, under a write

dbVars  == <<claims, record, intent, located>>
fsVars  == <<spool, cache>>
vars    == <<dbVars, stored, fsVars, writer, releaser, sweep, rerun>>

IdleWriter   == [pc |-> "idle", key |-> None, digest |-> None, waited |-> FALSE]
IdleReleaser == [pc |-> "idle", blob |-> None, started |-> FALSE, others |-> FALSE]

BlobOf(w) == <<SpaceOf[writer[w].key], writer[w].digest>>

-----------------------------------------------------------------------------
(* What the process keeps in memory about a write: its hold on the spool   *)
(* file (Spool.Hold) and the lock on its blob (Backend.blobKeys).          *)

UploadSteps == {"settle", "locate", "reuse", "mark", "send", "record", "accept"}
LockSteps   == UploadSteps \cup {"cache", "drop"}
HoldSteps   == {"spooled", "queued"} \cup UploadSteps

HeldBy(b) == \E w \in Writers : writer[w].pc \in HoldSteps /\ BlobOf(w) = b

Held(d)   == \E s \in Spaces : HeldBy(<<s, d>>)

Locked(b) == \E w \in Writers : writer[w].pc \in LockSteps /\ BlobOf(w) = b

-----------------------------------------------------------------------------
(* The registry's statements.                                              *)

Claimed(cl, b) == \E k \in Keys : SpaceOf[k] = b[1] /\ cl[k] = b[2]

OtherIntents(b) == \E s \in Spaces \ {b[1]} : intent[<<s, b[2]>>] # "none"

\* An existing record keeps its start (and the later not_before).
EnqueueRelease(b) == IF record[b] = "none" THEN "pending" ELSE record[b]

\* Mutant: a claim is taken on a blob without a location row.
ClaimUnlocated(b) == record[b] = "started"

\* addClaims' refusal: a started release holds the blob, or it has no location.
ClaimRefused(b) == record[b] = "started" \/ b \notin located

\* pinClaim's refusal: the space holds no claim to borrow from.
PinRefused(b) == ~Claimed(claims, b)

\* CommitRoot: version k now claims d (None: it is deleted), and the digest it
\* claimed before is released when this drops the space's last claim on it.
Swap(k, d) ==
    LET old == <<SpaceOf[k], claims[k]>> IN
    /\ claims' = [claims EXCEPT ![k] = d]
    /\ record' = IF claims[k] # None /\ ~Claimed(claims', old)
                 THEN [record EXCEPT ![old] = EnqueueRelease(old)]
                 ELSE record

-----------------------------------------------------------------------------
(* The node's files.                                                       *)

\* removeLocal, for a file no write holds.
RemoveLocal(d) ==
    /\ spool' = spool \ {d}
    /\ cache' = cache \ {d}

\* removeLocal: a file some write holds stays (ErrHeld).
RemoveUnheld(d) == IF Held(d) THEN UNCHANGED fsVars ELSE RemoveLocal(d)

-----------------------------------------------------------------------------
(* PutObject.                                                              *)

WriterStep(w, from, to) ==
    /\ writer[w].pc = from
    /\ writer' = [writer EXCEPT ![w].pc = to]

\* splitSpool: the body's file is published in the spool, held.
Spool(w, k, d) ==
    /\ writer[w].pc = "idle"
    /\ writer' = [writer EXCEPT ![w] = [IdleWriter EXCEPT !.pc = "spooled",
                                                          !.key = k, !.digest = d]]
    /\ spool' = spool \cup {d}
    /\ UNCHANGED <<dbVars, stored, cache, releaser, sweep, rerun>>

\* The upsert resets whatever state an earlier write of the bytes reached.
PutIntent(w) ==
    /\ WriterStep(w, "spooled", "queued")
    /\ intent' = [intent EXCEPT ![BlobOf(w)] = "spooled"]
    /\ UNCHANGED <<claims, record, located, stored, fsVars, releaser, sweep, rerun>>

\* uploadBlob: one write of these bytes at a time.
LockBlob(w) ==
    /\ WriterStep(w, "queued", "settle")
    /\ ~Locked(BlobOf(w))
    /\ UNCHANGED <<dbVars, stored, fsVars, releaser, sweep, rerun>>

\* settleRelease: no record, or the one waited out is gone.
Settle(w) ==
    /\ WriterStep(w, "settle", "locate")
    /\ record[BlobOf(w)] = "none"
    /\ UNCHANGED <<dbVars, stored, fsVars, releaser, sweep, rerun>>

\* settleRelease: a pending record is cancelled, and the blob may be reused.
CancelRelease(w) ==
    /\ writer[w].pc = "settle"
    /\ record[BlobOf(w)] = "pending"
    /\ writer' = [writer EXCEPT ![w].pc = "locate", ![w].waited = FALSE]
    /\ record' = [record EXCEPT ![BlobOf(w)] = "none"]
    /\ UNCHANGED <<claims, intent, located, stored, fsVars, releaser, sweep, rerun>>

\* settleRelease: a started release is waited out.
AwaitRelease(w) ==
    /\ writer[w].pc = "settle" /\ ~writer[w].waited
    /\ record[BlobOf(w)] = "started"
    /\ writer' = [writer EXCEPT ![w].waited = TRUE]
    /\ UNCHANGED <<dbVars, stored, fsVars, releaser, sweep, rerun>>

\* uploadBlob: a located blob is reused unless a release was waited out.
Locate(w) ==
    /\ WriterStep(w, "locate",
            IF BlobOf(w) \in located /\ ~writer[w].waited THEN "reuse" ELSE "mark")
    /\ UNCHANGED <<dbVars, stored, fsVars, releaser, sweep, rerun>>

\* The intent is marked before the first network call; one that a release
\* deleted fails the write.
MarkUploading(w) ==
    /\ WriterStep(w, "mark", "send")
    /\ intent[BlobOf(w)] # "none"
    /\ intent' = [intent EXCEPT ![BlobOf(w)] = "uploading"]
    /\ UNCHANGED <<claims, record, located, stored, fsVars, releaser, sweep, rerun>>

\* UploadBlob: the provider takes the spooled file.
Upload(w) ==
    /\ WriterStep(w, "send", "record")
    /\ writer[w].digest \in spool
    /\ stored' = stored \cup {BlobOf(w)}
    /\ UNCHANGED <<dbVars, fsVars, releaser, sweep, rerun>>

\* The provider took the file and the answer was lost.
UploadLost(w) ==
    /\ writer[w].pc = "send" /\ writer[w].digest \in spool
    /\ writer' = [writer EXCEPT ![w] = IdleWriter]
    /\ stored' = stored \cup {BlobOf(w)}
    /\ UNCHANGED <<dbVars, fsVars, releaser, sweep, rerun>>

\* recordAccepted: the location first.
RecordLocation(w) ==
    /\ WriterStep(w, "record", "accept")
    /\ located' = located \cup {BlobOf(w)}
    /\ UNCHANGED <<claims, record, intent, stored, fsVars, releaser, sweep, rerun>>

\* recordAccepted, and the reuse of a located blob: the intent is accepted
\* and the hold ends.
MarkAccepted(w) ==
    /\ WriterStep(w, "accept", "cache") \/ WriterStep(w, "reuse", "cache")
    /\ intent[BlobOf(w)] # "none"
    /\ intent' = [intent EXCEPT ![BlobOf(w)] = "accepted"]
    /\ UNCHANGED <<claims, record, located, stored, fsVars, releaser, sweep, rerun>>

\* Mutant: Take moves the file whoever holds it.
TakeUnasked(w) ==
    LET d == writer[w].digest IN
    /\ ~DropAccepted /\ WriterStep(w, "cache", "commit")
    /\ cache' = IF d \in spool THEN cache \cup {d} ELSE cache
    /\ spool' = spool \ {d}
    /\ UNCHANGED <<dbVars, stored, releaser, sweep, rerun>>

\* cacheHeld: the file moves from the spool into the cache, unless another
\* write holds it by now.
Take(w) ==
    LET d == writer[w].digest IN
    /\ ~DropAccepted /\ WriterStep(w, "cache", "commit")
    /\ cache' = IF d \in spool /\ ~Held(d) THEN cache \cup {d} ELSE cache
    /\ spool' = IF Held(d) THEN spool ELSE spool \ {d}
    /\ UNCHANGED <<dbVars, stored, releaser, sweep, rerun>>

\* dropLocalCopy counts the other spaces' intents ...
CountCopies(w) ==
    /\ DropAccepted
    /\ WriterStep(w, "cache", IF OtherIntents(BlobOf(w)) THEN "commit" ELSE "drop")
    /\ UNCHANGED <<dbVars, stored, fsVars, releaser, sweep, rerun>>

\* ... and with none removes the file, unless a write holds it by now.
DropCopy(w) ==
    /\ WriterStep(w, "drop", "commit")
    /\ RemoveUnheld(writer[w].digest)
    /\ UNCHANGED <<dbVars, stored, releaser, sweep, rerun>>

\* A failure here is logged, and the write goes on.
KeepCopy(w) ==
    /\ WriterStep(w, "cache", "commit") \/ WriterStep(w, "drop", "commit")
    /\ UNCHANGED <<dbVars, stored, fsVars, releaser, sweep, rerun>>

\* commitVersion: the claim lands with the root, or nothing does.
Commit(w) ==
    /\ writer[w].pc = "commit"
    /\ ~ClaimRefused(BlobOf(w))
    /\ Swap(writer[w].key, writer[w].digest)
    /\ intent' = [intent EXCEPT ![BlobOf(w)] =
                      IF @ = "none" THEN @ ELSE "published"]
    /\ writer' = [writer EXCEPT ![w] = IdleWriter]
    /\ UNCHANGED <<located, stored, fsVars, releaser, sweep, rerun>>

\* The request fails: an error of any step, a lost connection, a refused
\* claim or pin, a wait on a release past its limit (SlowDown).  Its holds
\* and its lock end; its rows and files stay.
Fail(w) ==
    /\ writer[w].pc # "idle"
    /\ writer' = [writer EXCEPT ![w] = IdleWriter]
    /\ UNCHANGED <<dbVars, stored, fsVars, releaser, sweep, rerun>>

-----------------------------------------------------------------------------
(* CopyObject within a space, and deletes.                                 *)

\* Mutant: a source that was deleted resolves too.
ResolveDeleted(w, src, dst) ==
    /\ writer[w].pc = "idle" /\ SpaceOf[src] = SpaceOf[dst]
    /\ writer' = [writer EXCEPT ![w] = [IdleWriter EXCEPT !.pc = "pin",
                                           !.key = dst, !.digest = claims[src]]]
    /\ UNCHANGED <<dbVars, stored, fsVars, releaser, sweep, rerun>>

\* The source's manifest is resolved, outside the bucket lock.
ResolveSource(w, src, dst) ==
    /\ writer[w].pc = "idle"
    /\ claims[src] # None /\ SpaceOf[src] = SpaceOf[dst]
    /\ writer' = [writer EXCEPT ![w] = [IdleWriter EXCEPT !.pc = "pin",
                                           !.key = dst, !.digest = claims[src]]]
    /\ UNCHANGED <<dbVars, stored, fsVars, releaser, sweep, rerun>>

\* The copy's commit: its claim is pinned to one the space still holds.
Pin(w) ==
    /\ writer[w].pc = "pin"
    /\ ~PinRefused(BlobOf(w))
    /\ Swap(writer[w].key, writer[w].digest)
    /\ writer' = [writer EXCEPT ![w] = IdleWriter]
    /\ UNCHANGED <<intent, located, stored, fsVars, releaser, sweep, rerun>>

\* deleteVersionScoped, and an unversioned DeleteObject.
DeleteVersion(k) ==
    /\ claims[k] # None
    /\ Swap(k, None)
    /\ UNCHANGED <<intent, located, stored, fsVars, writer, releaser, sweep, rerun>>

-----------------------------------------------------------------------------
(* Releases.                                                               *)

ReleaserStep(e, from, to) ==
    /\ releaser[e].pc = from
    /\ releaser' = [releaser EXCEPT ![e].pc = to]

\* A release's steps between its location delete and the end of its record.
LateSteps == {"local", "unlink", "forget"}

\* e has b's release in hand.
Runs(e, b) == releaser[e].pc # "idle" /\ releaser[e].blob = b

EndRelease(e) == releaser' = [releaser EXCEPT ![e] = IdleReleaser]

\* Mutant: a release already started is not listed again.
ListPending(e, b) ==
    /\ releaser[e].pc = "idle" /\ record[b] = "pending"
    /\ releaser' = [releaser EXCEPT ![e] = [IdleReleaser EXCEPT !.pc = "check",
                        !.blob = b]]
    /\ UNCHANGED <<dbVars, stored, fsVars, writer, sweep, rerun>>

\* A due record is listed as it stands (ListDueReleases, ListReleasesBySpace,
\* or the records an Abort enqueued), and run some time later.
ListRelease(e, b) ==
    /\ releaser[e].pc = "idle" /\ record[b] # "none"
    /\ releaser' = [releaser EXCEPT ![e] = [IdleReleaser EXCEPT !.pc = "check",
                        !.blob = b, !.started = (record[b] = "started")]]
    /\ rerun' = IF \E f \in Releasers : Runs(f, b) THEN rerun \cup {b} ELSE rerun
    /\ UNCHANGED <<dbVars, stored, fsVars, writer, sweep>>

\* runRelease: a release not yet started waits for a write that holds the file.
CheckHold(e) ==
    /\ ReleaserStep(e, "check",
            IF ~releaser[e].started /\ HeldBy(releaser[e].blob) THEN "defer" ELSE "start")
    /\ UNCHANGED <<dbVars, stored, fsVars, writer, sweep, rerun>>

\* SweepPendingReleases puts a deferred record back, or back again.
Defer(e) ==
    /\ releaser[e].pc = "defer"
    /\ record' = [record EXCEPT ![releaser[e].blob] = EnqueueRelease(releaser[e].blob)]
    /\ EndRelease(e)
    /\ UNCHANGED <<claims, intent, located, stored, fsVars, writer, sweep, rerun>>

\* StartRelease, under the claim-key lock: the blob is this release's.
StartRelease(e) ==
    LET b == releaser[e].blob IN
    /\ ReleaserStep(e, "start", "locate")
    /\ record[b] = "started" \/ (record[b] = "pending" /\ ~Claimed(claims, b))
    /\ record' = [record EXCEPT ![b] = "started"]
    /\ UNCHANGED <<claims, intent, located, stored, fsVars, writer, sweep, rerun>>

\* StartRelease: cancelled by a write, or claimed again and deleted as stale.
DropStale(e) ==
    LET b == releaser[e].blob IN
    /\ releaser[e].pc = "start"
    /\ record[b] = "none" \/ (record[b] = "pending" /\ Claimed(claims, b))
    /\ record' = [record EXCEPT ![b] = "none"]
    /\ EndRelease(e)
    /\ UNCHANGED <<claims, intent, located, stored, fsVars, writer, sweep, rerun>>

\* executeRelease reads the location row.
ReadLocation(e) ==
    /\ ReleaserStep(e, "locate",
            IF releaser[e].blob \in located THEN "remove" ELSE "intent")
    /\ UNCHANGED <<dbVars, stored, fsVars, writer, sweep, rerun>>

\* With no row, an intent still spooled says the blob never left.
ReadIntent(e) ==
    /\ ReleaserStep(e, "intent",
            IF intent[releaser[e].blob] = "spooled" THEN "unlocate" ELSE "remove")
    /\ UNCHANGED <<dbVars, stored, fsVars, writer, sweep, rerun>>

\* RemoveBlob.
RemoveBlob(e) ==
    /\ ReleaserStep(e, "remove", "unlocate")
    /\ stored' = stored \ {releaser[e].blob}
    /\ UNCHANGED <<dbVars, fsVars, writer, sweep, rerun>>

\* The provider removed the blob and the answer was lost.
RemoveLost(e) ==
    /\ releaser[e].pc = "remove"
    /\ stored' = stored \ {releaser[e].blob}
    /\ EndRelease(e)
    /\ UNCHANGED <<dbVars, fsVars, writer, sweep, rerun>>

DeleteLocation(e) ==
    /\ ReleaserStep(e, "unlocate", "local")
    /\ located' = located \ {releaser[e].blob}
    /\ UNCHANGED <<claims, record, intent, stored, fsVars, writer, sweep, rerun>>

\* DeleteRelease alone: the intent and the file are a write's.
DeleteRelease(e) ==
    /\ record' = [record EXCEPT ![releaser[e].blob] = "none"]
    /\ EndRelease(e)
    /\ UNCHANGED <<claims, intent, located, stored, fsVars, writer, sweep, rerun>>

\* A write of this space holds the file: only the record goes.
LeaveToWrite(e) ==
    /\ releaser[e].pc = "local" /\ HeldBy(releaser[e].blob)
    /\ DeleteRelease(e)

\* Nobody here does: count the other spaces' intents.
CountOthers(e) ==
    /\ releaser[e].pc = "local" /\ ~HeldBy(releaser[e].blob)
    /\ releaser' = [releaser EXCEPT ![e].pc = "unlink",
                                     ![e].others = OtherIntents(releaser[e].blob)]
    /\ UNCHANGED <<dbVars, stored, fsVars, writer, sweep, rerun>>

\* The file goes, unless another space's intent or any write needs it.
Unlink(e) ==
    LET d == releaser[e].blob[2] IN
    /\ ReleaserStep(e, "unlink", "forget")
    /\ IF releaser[e].others THEN UNCHANGED fsVars ELSE RemoveUnheld(d)
    /\ UNCHANGED <<dbVars, stored, writer, sweep, rerun>>

\* A write of this space took the file between the check and the unlink.
UnlinkHeld(e) ==
    /\ releaser[e].pc = "unlink" /\ ~releaser[e].others
    /\ HeldBy(releaser[e].blob)
    /\ DeleteRelease(e)

\* DeleteIntentAndRelease, one transaction.  With no intent left, the file
\* kept for one is this release's to take.
Forget(e) ==
    LET b == releaser[e].blob IN
    /\ releaser[e].pc = "forget"
    /\ intent' = [intent EXCEPT ![b] = "none"]
    /\ record' = [record EXCEPT ![b] = "none"]
    /\ IF ~OtherIntents(b) /\ (releaser[e].others \/ Held(b[2]))
       THEN releaser' = [releaser EXCEPT ![e].pc = "last"]
       ELSE EndRelease(e)
    /\ UNCHANGED <<claims, located, stored, fsVars, writer, sweep, rerun>>

UnlinkLast(e) ==
    /\ releaser[e].pc = "last"
    /\ RemoveUnheld(releaser[e].blob[2])
    /\ EndRelease(e)
    /\ UNCHANGED <<dbVars, stored, writer, sweep, rerun>>

\* A step fails; a record still there is retried.
ReleaseFails(e) ==
    /\ releaser[e].pc \in FailSteps
    /\ rerun' = IF releaser[e].pc \in LateSteps /\ HeldBy(releaser[e].blob)
                THEN rerun \cup {releaser[e].blob} ELSE rerun
    /\ EndRelease(e)
    /\ UNCHANGED <<dbVars, stored, fsVars, writer, sweep>>

-----------------------------------------------------------------------------
(* The local blob sweeper and the process.                                 *)

\* evictToBudget lists a blob the provider is on record to hold.
ListEvictable(b) ==
    /\ sweep = None /\ b[2] \in spool \cup cache
    /\ intent[b] \in {"accepted", "published"} /\ b \in located
    /\ \A s \in Spaces : intent[<<s, b[2]>>] \notin {"spooled", "uploading"}
    /\ sweep' = b[2]
    /\ UNCHANGED <<dbVars, stored, fsVars, writer, releaser, rerun>>

\* removeOrphans lists a spool file no intent names.
ListOrphan(d) ==
    /\ sweep = None /\ d \in spool
    /\ \A s \in Spaces : intent[<<s, d>>] = "none"
    /\ sweep' = d
    /\ UNCHANGED <<dbVars, stored, fsVars, writer, releaser, rerun>>

\* The file listed before goes, unless a write holds it by now.
RemoveListed ==
    /\ sweep # None
    /\ RemoveUnheld(sweep)
    /\ sweep' = None
    /\ UNCHANGED <<dbVars, stored, writer, releaser, rerun>>

\* The process dies and restarts: Postgres, the provider and the files stay.
Crash ==
    /\ \/ \E w \in Writers : writer[w].pc # "idle"
       \/ \E e \in Releasers : releaser[e].pc # "idle"
    /\ writer' = [w \in Writers |-> IdleWriter]
    /\ releaser' = [e \in Releasers |-> IdleReleaser]
    /\ sweep' = None
    /\ UNCHANGED <<dbVars, stored, fsVars, rerun>>

-----------------------------------------------------------------------------
Init ==
    /\ claims = [k \in Keys |-> None]
    /\ record = [b \in Blob |-> "none"]
    /\ intent = [b \in Blob |-> "none"]
    /\ located = {} /\ stored = {} /\ spool = {} /\ cache = {}
    /\ writer = [w \in Writers |-> IdleWriter]
    /\ releaser = [e \in Releasers |-> IdleReleaser]
    /\ sweep = None /\ rerun = {}

Write(w) ==
    \/ \E k \in Keys, d \in Digests : Spool(w, k, d)
    \/ PutIntent(w) \/ LockBlob(w) \/ Settle(w) \/ CancelRelease(w)
    \/ AwaitRelease(w) \/ Locate(w) \/ MarkUploading(w) \/ Upload(w) \/ UploadLost(w)
    \/ RecordLocation(w) \/ MarkAccepted(w) \/ Take(w)
    \/ CountCopies(w) \/ DropCopy(w) \/ KeepCopy(w) \/ Commit(w)
    \/ \E src, dst \in Keys : ResolveSource(w, src, dst)
    \/ Pin(w) \/ Fail(w)

\* The steps of a release that goes through.
Release(e) ==
    \/ \E b \in Blob : ListRelease(e, b)
    \/ CheckHold(e) \/ Defer(e) \/ StartRelease(e) \/ DropStale(e)
    \/ ReadLocation(e) \/ ReadIntent(e) \/ RemoveBlob(e) \/ DeleteLocation(e)
    \/ LeaveToWrite(e) \/ CountOthers(e) \/ Unlink(e) \/ UnlinkHeld(e)
    \/ Forget(e) \/ UnlinkLast(e)

Next ==
    \/ \E w \in Writers : Write(w)
    \/ \E k \in Keys : DeleteVersion(k)
    \/ \E e \in Releasers : Release(e) \/ RemoveLost(e) \/ ReleaseFails(e)
    \/ \E b \in Blob : ListEvictable(b)
    \/ \E d \in Digests : ListOrphan(d)
    \/ RemoveListed \/ Crash

Spec == Init /\ [][Next]_vars

\* The sweeper keeps coming back and, of the steps that can fail, each in the
\* end succeeds; a write's steps are not assumed to.
LiveSpec ==
    /\ Spec
    /\ \A e \in Releasers :
        /\ \A b \in Blob : SF_vars(ListRelease(e, b))
        /\ SF_vars(CheckHold(e)) /\ SF_vars(StartRelease(e))
        /\ WF_vars(Defer(e) \/ DropStale(e) \/ UnlinkLast(e))
        /\ SF_vars(ReadLocation(e)) /\ SF_vars(ReadIntent(e))
        /\ SF_vars(RemoveBlob(e)) /\ SF_vars(DeleteLocation(e))
        /\ SF_vars(LeaveToWrite(e) \/ CountOthers(e))
        /\ SF_vars(Unlink(e) \/ UnlinkHeld(e)) /\ SF_vars(Forget(e))

-----------------------------------------------------------------------------
(* Properties.                                                             *)

WriterSteps   == {"idle", "commit", "pin"} \cup HoldSteps \cup LockSteps
ReleaserSteps == {"idle", "check", "defer", "start", "locate", "intent", "remove",
                  "unlocate", "local", "unlink", "forget", "last"}

Request == [pc : WriterSteps, key : Keys \cup {None}, digest : Digests \cup {None},
            waited : BOOLEAN]
Run     == [pc : ReleaserSteps, blob : Blob \cup {None}, started : BOOLEAN,
            others : BOOLEAN]

\* Every row, file set and request is well typed.
TypeOK ==
    /\ claims \in [Keys -> Digests \cup {None}]
    /\ record \in [Blob -> {"none", "pending", "started"}]
    /\ intent \in [Blob -> {"none", "spooled", "uploading", "accepted", "published"}]
    /\ located \subseteq Blob /\ stored \subseteq Blob
    /\ spool \subseteq Digests /\ cache \subseteq Digests
    /\ sweep \in Digests \cup {None} /\ rerun \subseteq Blob
    /\ writer \in [Writers -> Request]
    /\ \A w \in Writers : writer[w].pc # "idle" =>
            writer[w].key \in Keys /\ writer[w].digest \in Digests
    /\ releaser \in [Releasers -> Run]
    /\ \A e \in Releasers : releaser[e].pc # "idle" => releaser[e].blob \in Blob

\* No version commits, or stays committed, over a blob the provider no longer
\* holds or the registry cannot locate, however writes, copies, deletes,
\* releases and crashes interleave (settleRelease, StartRelease, addClaims).
\* The exceptions are the blobs of rerun: a second run of the release that the
\* write waited for can delete what the write has stored since.
ClaimedStored ==
    \A k \in Keys : claims[k] # None =>
        <<SpaceOf[k], claims[k]>> \in rerun \cup (stored \cap located)

\* A write that holds a blob finds the file it spooled in the spool when it
\* uploads, whatever releases, cache moves and sweeps of the same digest did
\* (Spool.Hold, Remove, BlobCache.Take).
UploadFindsFile ==
    \A w \in Writers : writer[w].pc \in HoldSteps => writer[w].digest \in spool

\* A started release runs to its end, so a write that waits for it (settle)
\* is not refused for ever.
StartedReleaseEnds ==
    \A b \in Blob : record[b] = "started" ~> record[b] # "started"
=============================================================================
