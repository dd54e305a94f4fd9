# A TLA+ model of ingot

ingot is an S3 gateway in front of Forge storage. Object bodies are blobs in a
bucket's space; the bucket's catalog (a Merkle search tree of manifests) is kept
in a local log whose segments ship to Forge in the background; Postgres holds
the bucket root, the segment rows, a journal of catalog blocks not yet shipped,
and the claims and releases of blobs.

## Inventory

| component | state | operations | interacts with |
|---|---|---|---|
| catalog log (`logstore/`) | open segment, sealed segments, flush queue, CAR/.idx/.ops files | append, seal, ship, retain, close, recover | registry rows, Forge, bucket transactions |
| segment rows and journal (`registry/segments.go`) | `segments`, `op_roots`, `catalog_journal`, `segment_seq` | insert, seal, ship, retire, delete, rehydrate, move journal | catalog log, root commit |
| bucket registry (`registry/postgres.go`) | root, forge root, settings | create, commit root, empty root, delete | bucket transactions, DeleteBucket |
| block locator (`registry/locallocator.go`) | locations, inclusions | locate | reads |
| bucket transactions (`bucketop/`) | bucket lock, staged blocks | begin, commit, discard | log, registry |
| bucket deletion (`s3frontend/bucket.go`) | none of its own | delete | all of the above, tenant service |
| blob claims and releases (`registry/stores*.go`) | claims, releases, intents, parks, locations | claim, pin, drop, start and finish a release, accept | object writes, sweepers |
| object writes (`s3frontend/object.go`, `copy.go`) | requests in flight | put, copy, delete, release | claims, uploader, spool |
| deferred accept (`s3frontend/acceptor.go`) | queue of parked uploads | accept, quiesce | parks, locations |
| multipart (`s3frontend/multipart.go`, `uploadsweep.go`) | sessions, parts | create, put part, complete, abort, sweep | claims, releases |
| local blobs (`blockstore/spool.go`, `blobdir.go`, `localblob_sweep.go`) | spooled and cached files | write, read, evict | intents, claims |
| upload registrations (`registry/uploadreg.go`) | outbox of object-count changes | enqueue, drain | root commit |
| versioning, object lock (`s3frontend/version.go`, `objectlock.go`) | leaves, manifests | put, delete, retain, hold | bucket transactions |
| merkle search tree (`mst/`) | a tree of blocks per bucket root | add, update, delete, walk, diff | bucket transactions, listings |
| object listing (`s3frontend/object.go`) | none of its own: the marker is the client's | list pages | tree, commits between the pages |
| access (`iam/`, `revocation/`) | proof and key caches, a revocation cursor | authorise, revoke | every request, tenant service, firehose |

What is hard: the process may die between any two writes to disk, Postgres and
Forge; ships, retention and deletes run beside writes; a full queue, a failed
unlink or a failed stamp leaves a segment half way; a volume may be missing at
one start and back at the next; a release races a write that wants the same
blob. The hazards are listed, each at its line, in `PROJECT.json`.

The properties that make each part correct:

- catalog log, rows and journal: a committed catalog never depends on the local
  disk alone, is readable while the log runs, and its journal drains; every blob
  a ship registered has a row that names it until DeleteBucket has released it;
- bucket registry: the root only moves by compare and swap, `forge_root_cid`
  only to a committed root;
- blob claims and releases, object writes: a version's blob stays with the
  provider for as long as the version lives; a write finds the file it spooled;
  a release that has started ends;
- deferred accept, multipart: one Complete wins or the upload is discarded, never
  both; the object is made of the parts as they stood; its blobs are not released
  under it;
- local blobs: byte counts match the files, usage returns to the budget, an
  evicted row has no file, a file that moves is still found;
- upload registrations: the service's entries converge to the versions there
  are, and no row blocks its key for ever;
- versioning, object lock: every id names one version, claims are those of the
  versions there are, locks and tags stay with their version, a listing skips
  nothing;
- merkle search tree, listing: the tree is a function of the map, reads, walks
  and diffs agree with the map, pages neither repeat nor skip;
- access: a revoked grant is not served from a cache, and every revocation takes.

## Modules

| module | models | proofs | model checking |
|---|---|---|---|
| `CatalogLog` | one bucket's catalog log, its rows, its CARs on Forge, DeleteBucket's catalog part | `CatalogLogProofs` | `MCCatalogLog` |
| `BlobLifecycle` | the blobs of object bodies, from PUT to release | `BlobLifecycleProofs` | `MCBlobLifecycle` |
| `UploadSessions` | abstract: what a multipart upload promises its client | | through `Multipart` |
| `Multipart` | sessions, parts, parks, the acceptor, Complete, Abort, sweep, releases | `MultipartProofs` | `MCMultipart` |
| `VersionHistory` | abstract: what versioning and object lock promise of a key | | through `ObjectVersions` |
| `ObjectVersions` | a key's manifest or leaf, previous versions, lock and tag state, settings, version listing | `ObjectVersionsProofs` | `MCObjectVersions` |
| `Registrations` | the outbox of object-count changes | `RegistrationsProofs` | `MCRegistrations` |
| `KeyOrder` | keys as the tree and the listings compare, compress and cut them | `ObjectListingProofs` | through the next two |
| `MerkleSearchTree` | the tree of a bucket's keys, as operators over nodes | | `MCMerkleSearchTree` |
| `ObjectListing` | ListObjects and ListObjectsV2: pages, the client that follows their markers, writes beside them | `ObjectListingProofs` | `MCObjectListing` |
| `Access` | one access key: local authorization against revocation | `AccessProofs` | `MCAccess` |
| `LocalBlobs` | the spool and cache directories, their counts, the sweeper | `LocalBlobsProofs` | `MCLocalBlobs` |

`PROJECT.json` maps each definition to the lines it stands for. The operators
whose comment begins with "Mutant" are wrong variants of the definition that
follows them, one for each property, used to show that the property can fail.

### CatalogLog

State, in the order of the VARIABLES: Postgres (`root`, `forgeRoot`, `bucket`,
`rows` for `ingot.segments` with the op-roots left in the segment's file,
`seqNext`, `journal`, `located`, `inclusion`); Forge (`space`, `forge`,
`forgeIdx`); the data volume (`file`: a segment's CAR, .ops and .idx; `aside`: a
volume that is not mounted); the process (`log`, recovery's work lists, the
`PlaneLog` fields, the queue, the flush goroutine, the bucket transaction and
DeleteBucket under way). A crash keeps the first three groups and resets the last.

Catalogs are content addressed, so a root is a set of blocks (`Tree`) and a CAR
is identified with the blocks in it. Frames, offsets and index formats do not
matter to any property and are left out.

| actions | code |
|---|---|
| `AppendBatch`, `CommitRoot`, `CommitFails` | `bucketop.Tx.Commit`, `PlaneLog.AppendBatch`, `Postgres.CommitRoot` with `journalBlocks` |
| `SealOpen` | `sealOpenIfDue`, `sealLocked`; the .idx or the row may fail to be written |
| `TakeQueued`, `StartSweep`, `SweepNext`, `SweepClosed` | `flushLoop`, `enqueueFlush`, `retryUnshipped` |
| `FlushSeal` ... `FlushStamp`, `FlushRetry`, `FlushGivesUp` | `flushOne`, the bucket flush function, `SubmitShard`, `MarkSegmentShipped`, one action per call that leaves the process |
| `RetireFiles`, `RetireRows` | `retain`, `Segment.retire`, `RetireSegments` |
| `OpenLog`, `Recover*`, `ForceSeal`, `Rebuild*`, `PruneRow` | `recovery.go`, one action per segment and phase, so that a crash can fall between any two |
| `EmptyRoot`, `Quiesce`, `Release*`, `ListShipped`, `DeleteSpace`, `DropBucket`, `RemoveBucketLog`, `DeleteFails` | `Backend.DeleteBucket` |
| `Crash`, `DiskFault`, `DamageFiles`, `VolumeMissing`, `VolumeBack` | the environment: what recovery's branches are written for |

### BlobLifecycle

State: Postgres (`claims`, `record` for `blob_release_intents`, `intent`,
`located`), the provider (`stored`), the disk (`spool`, `cache`), the process
(`writer`, `releaser`, `sweep`), and as history the blobs whose release was run
twice (`rerun`). A version and its claim commit in one
transaction, so `claims` stands for both; a retained version of a versioned
bucket is a key of its own. Locks and holds are derived from where a write is
(`LockSteps`, `HoldSteps`) because the process keeps them in memory only.

| actions | code |
|---|---|
| `Spool`, `PutIntent`, `LockBlob`, `Settle`, `CancelRelease`, `AwaitRelease` | `splitSpool`, `PutIntent`, `uploadBlob`, `settleRelease` |
| `Locate`, `MarkUploading`, `Upload`, `UploadLost`, `RecordLocation`, `MarkAccepted` | `uploadBlob` |
| `Take`, `CountCopies`, `DropCopy`, `KeepCopy` | the move of an accepted body into the cache, or its removal with `DropAcceptedBodies` |
| `Commit`, `ResolveSource`, `Pin`, `DeleteVersion`, `Fail` | `CommitRoot` with its claims, `CopyObject`, `DeleteObject`, a request that fails at any step |
| `ListRelease`, `CheckHold`, `Defer`, `StartRelease`, `DropStale` | the release sweep, `runRelease`, `StartRelease` |
| `ReadLocation` ... `Forget`, `UnlinkLast`, `RemoveLost`, `ReleaseFails` | `executeRelease`, one action per call |
| `ListEvictable`, `ListOrphan`, `RemoveListed` | `localblob_sweep.go` |
| `Crash` | the process dies; `NewSpool` recovers the directory |

### Multipart and UploadSessions

State: Postgres (`session`, `part`, `intent`, `park`, `located`, `record`,
`object` and `claimed` for the committed object and its claims), the provider
(`alloc`, `stored`), the process (`proc`: requests and the acceptor's pass of
each upload; `releaser`), and `rerun` as in `BlobLifecycle`. Part uploads, copies, completions, aborts and the
sweeper are processes that take one action per database statement or call, and
share the conclude steps as the code does. A part has one blob.

`UploadSessions` has three variables: whether the upload is open, committed or
discarded, its parts, and the object it became. `Multipart` maps
`session` and `object` to the first, the part rows of a live session to the
second; `ImplementsSessions` checks that every step is one of the abstract ones
or changes nothing a client sees.

### ObjectVersions and VersionHistory

State: the bucket's settings and number allocator, the key's value (`form`,
`current`, `prev`, `nullSeq`, and the state tree as `locked` and `tagged`), the
claims its commits carry, with those a stale delete leaves behind (`leaked`, a
history variable), the requests that read before
they lock, one listing. Commits hold the bucket lock, so each is one step;
what a request reads before (settings, a reserved number) is a step of its own.
Version ids are pairs of a number and whether the time in the id is the one it
was minted with, so that clients may present ids with right numbers and wrong
times. `VersionHistory` is a set of versions with marks; the refinement maps
the current version and the previous tree to that set.

### Registrations

State: the versions there are, `rows` of `upload_registrations`, the service's
`entries`, the sweep and the drain in progress. `CommitVersion` and
`DeleteVersion` queue rows as the commit's transaction does; `SweepBegin`,
`Prepare`, `Send`, `Settle` are `applyRegistrations` cut at each call that
leaves the process; `Die` ends a run anywhere. A row without authority to capture is
skipped (`Queue`). `drift` remembers the versions a change of which was skipped or
dead-lettered, or was in the hands of the sweep and the drain at once.

### MerkleSearchTree and ObjectListing

The tree operations are recursive operators on nodes `[layer, entries]`, with
`Save` and `Load` as the conversion to the block that stores them: a loaded node
does not know its layer and keys are stored as prefix length and rest. The state
machine starts from every assignment of layers to keys (`zeros` for the leading
zeros of a hash) and applies adds, updates and deletes, saving after each step.
The layers chosen by the reference tree `TreeOf` come straight from `zeros`.
`DiffTrees` is modelled with the rest of the package, though nothing in the
repository calls it.

`ObjectListing` is a state machine: the keys' current versions (`bucket`), the
client's request and how far it has got (`req`, `marker`, `listed`), the page
under way (`page`: what is left of the walk, the items so far, `nextKey`,
`truncated`). `BeginWalk` reads the root, once per page; blocks never change, so
the walk then visits the keys of that root in order whatever is committed
meanwhile, which is what `ReadsExact` says of the tree. `PastPrefix`, `SkipLeaf`,
`PageFull` and `ListLeaf` are the four things `listWalk`'s callback does with a
leaf; `PageFails` is a block or row that cannot be read, after which the client
asks again; `NextPage` and `LastPage` are the client's; `Write` is a commit of
another current version. `kept` has the keys that were visible all along.
ListObjects (V1) without a delimiter names no NextMarker and its client takes the
last key, which is the same key.

### Access

State: the tenant service (`grant`, `write`, `published`), the process's caches
(`stores`, `bound`, `revoked`, `cached`), requests, the consumer with its
cursor. A request takes one action per lock it takes and call it makes. Grants
are numbered as issued, which makes the firehose's records a prefix of the
numbers. A restart loses the caches and keeps the cursor row, which may not be
readable at the next start; `Forget` is an entry of the revoked set that expires.
`applied` and `lapsed` are history: the records some process has applied, and the
grants a process lost track of while they could still be used.

### LocalBlobs

State: the two directories and the byte counts kept beside them, intent rows
reduced to what eviction asks of them, recency, writes, a read, the removals of
a release and of the sweeper, the sweeper with its page and stage, the scan of
its orphan pass. Actions are cut where a lock is released. Simplifications:
whether a row is inside the residency window is open whenever the sweeper asks;
`recent` stands for the recency map; a read is recorded at once, and one that
loses its copy to a removal is followed no further; a write's rename and the end
of its flight are one step; the orphan pass checks its candidates after the
scan; the release is the part of `BlobLifecycle`'s that touches files.

### How the modules meet

The modules do not share variables. A commit is one Postgres transaction that
swaps the root, journals blocks (`CatalogLog`), adds and drops claims
(`BlobLifecycle`, `Multipart`, `ObjectVersions`) and queues registrations
(`Registrations`); each module has it as one atomic step with its own part. The
release path is whole in `BlobLifecycle`; `Multipart` repeats it without files
and other spaces and with parks and live parts, `LocalBlobs` with files only.
The proof modules follow the same lines: each proves about its own component, and
no theorem spans two.
The catalog's CARs are never claimed or released through `blob_refs`, and a
body's blob is never journaled.

## Runs

Twelve runs, listed in `PROJECT.json`; each explores all states of its instance.

| run | checks | shows |
|---|---|---|
| `catalog_crash` | `TypeOK`, `DurableCatalog`, `ReadableCatalog`, `JournalAwaitsShip`, `ForgeRootFollowsRoot` | with one crash anywhere, files lost, an index lost, a sealed CAR damaged or the volume not mounted at a start, a committed block is journaled or on Forge, readable once the log runs, and no journal row outlives its ship |
| `catalog_delete` | `CarsRecorded`, `CarsReleased`, `DurableCatalog` | with ships in flight, two crashes and retries, DeleteBucket releases every CAR before it deletes the space |
| `catalog_live` | `JournalDrains` | a full queue and failing attempts delay a segment, and never for ever |
| `blob_share` | `TypeOK`, `ClaimedStored`, `UploadFindsFile` | two requests and a releaser on the same bytes in one space, any step of the release failing |
| `blob_live` | `StartedReleaseEnds` | a started release is retried, through any failure and crash, until it ends |
| `multipart` | `TypeOK`, `ClaimsHeld`, `ImplementsSessions` | part uploads, completions, aborts, sweeps, the acceptor and releases of the same digests, with crashes, keep the promise of `UploadSessions` and the blobs of a committed object |
| `versions` | `TypeOK`, `IdsResolve`, `ClaimsExact`, `ListingComplete`, `ImplementsHistory` | whatever is written, reserved, suspended, deleted, by a stale reading too, and marked, the leaf is the history of the key |
| `registrations` | `TypeOK`, `CountSettles`, `OutboxDrains` | a sweep beside a drain, a lost, partial or repeated batch, a row not queued, a dead letter or a dying run: the entries converge and the outbox drains |
| `mst` | `RootCanonical`, `ReadsExact`, `DiffExact` | the tree of every map of four keys is the canonical one; reads, walks and diffs agree with the map |
| `listing` | `TypeOK`, `PageExact`, `ListingExact` | every page is exactly the next items of the root it read; the pages of a listing, with failures and a write between or under them, give each key that stayed once and in order |
| `access` | `TypeOK`, `StoreClean`, `RevokedRefused`, `RevocationsTake` | requests, rotations, deletions, failed commits, the consumer, entries that expire and a restart with or without its cursor |
| `local_blobs` | `TypeOK`, `CountExact`, `EvictedGone`, `LookupFinds`, `BudgetKept` | writes, moves, removals, reads, evictions and scans side by side, with outside changes, time limits and a restart |

### Bounds

Catalog: two blocks and two roots, the second root sharing a node with the first
(`MCTree`), so that a commit may write no new block, a block may sit in two
segments and a root may span them; one root and one block where the question is
about registrations rather than trees. `MaxSeq = 2` segments: one ships or is
lost while the other is open, and with `Retain = 0` every shipped segment is
retired at once, which is the hardest setting for reads. `QueueCap` is 1, or 0
where every segment has to be found by the sweep. `MaxCrashes` is 1 or 2 in the
safety runs: the second is what a crash during recovery from the first needs. The
liveness runs have none; a crashed process is restarted by its operator. `DiskFaults` names
the faults allowed while the process is down: all files lost, an index lost, a
CAR damaged, a volume missing at one start and back at the next.
`catalog_delete` leaves "damage" out and `UnlinkMayFail` is false: the code does
not keep the properties with them (see Disagreements). Runs of this module do not check for deadlock: with seqs and crashes bounded, a behaviour
that has used them up may stop.

Blobs: one digest, since blobs with different digests share nothing but the
process; two keys in one space (one key and one writer in `blob_live`); two writers
(one uploads while the other waits, commits or fails) and one releaser. `FailSteps`
names the steps of a release that may fail: all of them. Accepted bodies move to the cache in
`blob_share` and are dropped in `blob_live`. Nothing else is bounded: requests,
crashes and retries repeat for ever. Writers are interchangeable, which the
symmetry set says; the liveness run does not use it. Spaces that share a file on
disk and releasers side by side are left to the theorems `ClaimsSafe` and
`FilesAreFound`, which are about any number of them: two spaces, or two releasers,
take millions of states to say no more.

Multipart: one upload, two part numbers and two digests, so that a part is
replaced by other bytes, by the same bytes, or two parts hold the same digest;
two requests at a time, three in all (`MaxRequests`), beside the acceptor and a
releaser; one allocation (`Tasks`), enough to be parked, concluded or aborted once.
`Outlive` lets a Complete outlive the sweeper's TTL. Crashes are unbounded. Several
releasers are left to `ClaimsAreHeld`.

Versions: three numbers (`MaxSeq`), so that a current, a previous and a discarded
version exist together in every order of null and numbered, with two requests:
two settings changes, or one and a delete that read the settings before it, overlap
as they may.

Registrations: one key, since order is owed within a key; two versions, hence
up to four rows; one fault (a row not queued, authority refused, a lost or partial
batch, a death) and one try, so that the fault can be the one that ends in a dead
letter. The sweep and the drain overlap freely. `CountsSettle` is about any number
of each.

Trees: four keys of which two are prefixes of others, two values, layers 0 to 2:
deep enough for a split that reaches down a layer, for a delete that merges two
subtrees and for one that empties the top. `ReadsExact` walks from every place a
listing may start: a key, the empty prefix, just past a key.

Listings: five keys, of which two are prefixes of others, one is a common prefix
itself and one begins with the delimiter; no prefix or one that is a key;
no delimiter, one of one byte and one of two; starting anywhere or after
a key or a common prefix; limits 0, 1 and 2, so that pages end inside, before and
after a group. One write beside the listing: it hides, adds or removes a key
ahead of the walk, behind it or under the marker. `MaxListed` stops the client
that would go round for ever (Disagreements).

Access: two grants (a rotation, then a deletion or a second rotation whose
commit fails), three stores (one bound, one evicted and still in a request's hands,
one after that), one request, whose answers come late at every step, and one restart,
at any time. Entries expire at any time. Requests beside each other, more grants and
restarts are left to the theorems of `AccessProofs`; a second request takes the run
past ten million states.

Local blobs: two bodies of sizes 1 and 2 and a budget of 2: each fits alone,
both do not, and the smaller alone leaves room that is not enough for the
other. One is cached before the start. Three changes of rows, one fault.

Runs that bound requests, numbers or faults do not check for deadlock, since a
behaviour that has used them up may stop.

### Fairness

`CatalogLog!LiveSpec`: the seal ticker, the sweep and the flush goroutine run
while the process does (weak fairness). Each step of a ship is strongly fair:
attempts may fail any number of times, and the retry sweep tries again for as
long as the segment is unshipped, so a step that keeps being tried succeeds once
Postgres and Forge answer. Nothing is assumed of writes, crashes or deletes.
`BlobLifecycle!LiveSpec`: the sweeper keeps listing records and each step of a
release in the end succeeds (strong fairness); the steps that put a record back or
drop it do not fail and are taken (weak fairness). Writers are under no fairness: a
request may hang where it is.
`Registrations!Spec`: the sweeper's ticker starts runs, a run goes on to its
next step, and a row's back-off elapses. Faults are bounded, which says that the
service and the database answer in the end (a row the service refuses for ever is
retried for ever, `s3frontend/uploadsweep.go:214`); a drain is never obliged to start.
`Access!Spec`: the consumer reconnects, reads its next record and finishes with
it; nothing is assumed of requests, of Hilt, of idle eviction or of entries expiring.
`LocalBlobs!Spec`: the sweeper takes its next step (it has a ticker), and removals
under way finish. Writes, reads and releases may stop where they are.

## Disagreements

Where the code and what its comments, docs or tests say of it part. Those of the
first group are behaviours of the models. Most of them happen in the runs above and
in the specifications the theorems are about; a history variable (`rerun`,
`leaked`, `drift`, `lapsed`) remembers where, the property excepts exactly what it
names, and fails without the exception. Two of the catalog's are kept out of the
runs by a constant. The second group was seen while modelling and is outside the
models.

Shown by the models:

- `s3frontend/object.go:842`: `runRelease` looks for holds before it starts the
  record, and a started record is retried without looking. A release that deleted
  the location row, failed and is retried removes the blob a write, settled before
  the release started, has uploaded in between; the write then commits. The
  comment at 838-840 says no write commits a manifest over a blob being removed.
  (`BlobLifecycle`, in `blob_share`: the blob joins `rerun` when its release fails
  past the location delete with a write of the bytes under way, and `ClaimedStored`
  excepts `rerun`.)
- `registry/stores_postgres.go:1767`: a second runner of a started release is
  answered ReleaseStarted too. When the first has finished, a write stores the
  bytes again and commits, and the second removes them. `registry/stores.go:396`
  says that no claim can land meanwhile. (`BlobLifecycle` and `Multipart` with two
  `Releasers`: a blob that two of them have in hand at once joins `rerun`, which
  `ClaimedStored` and `ClaimsHeld` except.)
- `logstore/segment.go:433`: `retire` closes the descriptors before it unlinks;
  when the unlink fails the segment stays in the read tier and its reads fail
  although its blocks are on Forge. `logstore/README.md:183` says retention never
  retires what the read tier cannot resolve. (`UnlinkMayFail` TRUE in
  `catalog_crash`; `ReadableCatalog` fails.)
- `logstore/recovery.go:105`: a sealed, unshipped segment whose files come back
  damaged after its row was retired is rebuilt shorter, and its new row no longer
  names the CAR an earlier attempt registered; 227 says DeleteBucket still
  releases whatever its ship registered. ("damage" in the `DiskFaults` of
  `catalog_delete`; `CarsRecorded` fails.)
- `s3frontend/object.go:1780`: DeleteObject and DeleteObjects act on a versioning
  state read before the bucket lock. A bucket enabled in between loses a leaf
  with its previous versions, whose claims stay; `object.go:680-682` says a
  discarded version is never left claimed. (In `versions`: the claims left behind
  are `leaked`, which `ClaimsExact` excepts, and `VersionHistory` has the late
  erasure as `Erase`.)
- `s3frontend/bucket.go:174`: PutBucketVersioning(Suspended) and
  PutObjectLockConfiguration, each having read the other's setting, leave a lock
  bucket suspended; the comment at 158-160 and `docs/s3-object-lock.md:265` call
  the opposite an invariant. (In `versions`: PutVersioningRead of
  a suspension and PutLockRead, then PutVersioningSet and PutLockSet. No property is
  stated of it, for the code keeps no weaker one; as an invariant,
  `lockConfig => versioning = "enabled"` fails.)
- `s3frontend/uploadsweep.go:281`: the drain of a bucket's deletion beside a sweep
  that has sent an addition leaves the root counted. (In `registrations`: a version
  whose changes the two have in hand at once joins `drift`, which `CountSettles`
  excepts, as it does a version whose row was skipped for want of authority,
  `s3frontend/version.go:648`, or dead-lettered.)
- `revocation/consumer.go:11`: a restart between the revocation of a Hilt write
  and its commit caches the old grant again, from an answer made before the
  commit, and no record will come for it. (In `access`: a grant still in use when a
  process begins after its record joins `lapsed`, which `RevokedRefused` and
  `RevocationsTake` except.)
- `iam/keyproofs.go:52`: an entry of the revoked set lasts `revokedTTL`, 48 hours
  from the last refusal. A grant that Hilt goes on serving after a failed write,
  or that an answer brings later, is cached again and authorizes locally, where
  `iam/revoker.go` says that a request after Revoke "cannot authorize locally";
  `keyproofs.go:101-103` says that it happens. (`Forget` in `access`: the grant
  joins `lapsed` if it can still be used when its entry expires.)
- `s3frontend/object.go:2048`: the walk starts after the marker only if the marker
  is greater than the prefix. With a key equal to the prefix, a page that ends
  with that key repeats for ever at max-keys 1, and start-after = prefix lists the
  prefix key, where the comment says "list strictly after this key".
  (`ListingExact` excepts limit 1 with the prefix among the keys, and `Wanted` in
  `PageExact` a marker that is not past the prefix; without the exceptions they
  fail. The theorem `MarkersAdvance` says that no other listing goes round.)

Outside the models:

- `logstore/manager.go:331`: a ship that failed between registering its blobs and
  the stamp leaves an index blob that DeleteBucket does not list (272 says "every
  blob"), and the tenant service refuses to delete a space with a registration.
- `s3frontend/bucket.go:442`: a DeleteBucket that fails between the tenant
  service's delete and the registry's answers NoSuchBucket for ever; 331 says it
  deletes on retry.
- `s3frontend/multipart.go:1270`: a part that takes its hold after a running
  release looked for holds may record a location the release then outdates; its
  commit is refused while the record stands, and later writes reuse the location.
- `registry/stores.go:31` and `40`: `PutIntent` resets an uploading or published
  intent to spooled when the same bytes are written again, though published
  "never changes" and spooled "never left this node"; a release may then skip
  the network remove, a leak.
- A write that cancelled a pending release and dies before its commit leaves the
  blob with neither claim nor record (`object.go:964`); a cached file can lose its
  intent (`localblob_sweep.go:564` says it cannot); a write that spools an evicted
  digest and fails before `PutIntent` leaves a file under the evicted row.
- `iam/proofcache.go:291`: an action set from a delayed answer outlives the grant
  it was reported for until the next one.
- `registry/registry.go:72`: `forge_root_cid` moves to a root part of whose tree
  is in an older segment that has not shipped; `bucketop/bucketop.go:367`: an
  op-root of a failed commit never moves it, though the comment says it will.
- `docs/diagrams.md`: `mutateVersionState` queues a value block for collection
  that lives on as the state's base; `mst`: `deleteRecurse` and `appendMerge`
  rewrite cached entry slices in place, which no caller observes today.

## Proofs

Thirty-three theorems in eight modules. Every safety invariant, action property and
refinement a run checks is one of them, for every value of the constants, except
those of `MerkleSearchTree`, whose operators are recursive. Each inductive invariant was
also model-checked, on the instance of its component's run.

`CatalogLogProofs` proves, for every catalog, number of segments, queue length
and number of crashes:

- `TypeCorrect`: `Spec => []TypeOK`. `TypeOK` says more than types where the
  actions read through a pointer: which segment the flusher, the rebuild and
  the transaction are on in each of their phases.
- `ForgeRootGuarded`: `forge_root_cid` moves only to the committed root. Only
  the stamp and the emptying of the root touch it; every other action is shown
  to leave it alone.

and that the catalog outlives the disk:

- `InvariantHolds`, `CatalogIsDurable`: `Spec => []DurableCatalog`, for any tree,
  crashes, disk faults and retries.
- `JournalIsAwaited`: `Spec => []JournalAwaitsShip`.
- `CatalogIsReadable`: under `~UnlinkMayFail`, `Spec => []ReadableCatalog`.
- `CarsStayRecorded`, `CarsAreReleased`: with "damage" outside `DiskFaults`,
  `Spec => []CarsRecorded` and `Spec => []CarsReleased`.

`DurableCatalog` speaks of Postgres and Forge only, but what keeps it true is
spread over memory and disk. `IInv` therefore says where a block is while it
waits: `WriterInv`, a batch appended and not committed is in its segment's files,
or on Forge if the segment shipped meanwhile; `JournalInv`, a journaled block is
in the files of a segment that has not shipped, mounted or aside, and recovery
has that segment on one of its lists; `FlusherInv`, how much of the ship each
phase has behind it; `SegmentInv` and `RecoveryInv`, which segments memory knows
in each phase and that a fresh one is known to nobody else; `DeleterInv`, a
delete has emptied the root and works with the log closed. `CInv` adds for the
CARs that a sealed row's digest is that of the CAR it stands for, wherever the
CAR is (`RowsMatch`), that a ship starts once the seal is recorded (`RowsKnown`),
and that the CARs a delete has still to release are on its list (`SpaceInv`). The
two provisos are faults of the Disagreements, and the only ones the proofs need.

`BlobLifecycleProofs` proves, for every set of spaces, digests, keys, writers and
releasers:

- `BlobTypeCorrect`: `Spec => []TypeOK`.
- `ClaimsSafe`: `Spec => []ClaimedStored`, with any number of releasers side by
  side and any of their steps failing. The blobs of `rerun` are the first two
  disagreements above, so in this model those two windows are the only ways a
  version loses its blob. A crash past the location delete is not one of them: it
  kills the writes as well.
- `FilesAreFound`: `Spec => []UploadFindsFile`. It is inductive beside `TypeOK`: every removal of a file and every move of one looks for
  holds in the step that touches it.

`ClaimedStored` is not inductive. The invariant `IInv` adds, for the blobs outside
`rerun`: `OneRun`, one runner has a blob's release in hand; `ClaimsStand`, no started record stands over a claim, because a started release
goes ahead without looking again; `OwnedStarted` and `ListedStarted`, a runner's
record is still started, so that a claim landing under it is refused;
`LostStarted`, a location whose blob is gone belongs to a started release that
has yet to delete it, so a reused location is a real one; `OneUpload`, the blob
lock; `UploadStored`, an upload whose location is about to be written is there;
`UploadOwned`, a release that runs under an upload is past its network remove;
`UploadAhead` and `WaitClear`, a runner between its hold check and its start
finds the record cancelled, or already started, when a write got ahead of it;
`WaitedLocked`, only a write that has the lock has waited. `IInv` was
model-checked on the instance of `blob_share` before it was proved.
Writer steps are proved through one lemma (`WriterMoves`) and releaser steps
through another (`RunnerMoves`), each stating what such a step may change.

`AccessProofs` proves, for every set of requests and number of grants, stores and
restarts:

- `AccessTypeCorrect`: `Spec => []TypeOK`, together with `Ordered`: Hilt publishes
  no further than the grant it serves, and the consumer is never ahead of the
  firehose.
- `StoreStaysClean`: `Spec => []StoreClean`, through `Swept`: while the consumer
  looks for the holders of a record, that record alone is excepted.
- `RevokedStaysRefused`: `Spec => []RevokedRefused`, with entries that expire and
  processes that begin with or without their cursor. The invariant says that a
  record is passed only when it is in the revoked set (`Recorded`), that a grant up
  to the consumer's place is in that set, lapsed, or gone, served, cached and
  carried by nobody (`Forgotten`), the same of the cursor row and the records some
  process has applied (`Passed`), and that a chain was chosen after the records its
  request has to respect (`Chosen`). `Passed` is what a restart falls back on.

Every step of a request after its arrival goes through one lemma,
`RequestMoves`: it changes its own record, and a store only by a grant it carries
that is not revoked.

`ObjectVersionsProofs` proves, for every set of requests and number of versions:

- `TypesHold`, `IdsAlwaysResolve` and `ListingsAreComplete` whatever overlaps.
  Their invariant `VInv` says how a value is laid out (`Layout`), that previous
  versions are older than the current one and numbered apart (`Numbered`), that
  `NullSeq` names the null version (`NullInv`), that numbers reserved by a
  Complete are nobody else's (`SeqInv`), that marks belong to versions
  (`MarksInv`), and that what a listing owes lies below its marker (`ListInv`).
- `ClaimsAreExact` and `HistoryIsImplemented` (the refinement of
  `VersionHistory`), whatever overlaps as well. `SInv` adds that a leaked claim is of
  a version the key no longer has, with a number nobody will be given again
  (`LeakInv`), and that a bucket never versioned has one null version (`PlainInv`),
  so that only a stale delete leaves claims behind.

`MultipartProofs` proves, for any uploads, parts, processes and crashes:

- `TypesHold`, and `SessionsAreImplemented`: `Spec => ImplementsSessions`, the
  refinement of `UploadSessions`. `LInv` is about the latch: at most one
  completion has it, what that one compared with its client's list stays as it
  was until its commit, and a teardown works on a session no completion can latch.
- `ClaimsAreHeld`: `Spec => []ClaimsHeld`, with any number of releasers; outside
  `rerun` one runner is past StartRelease and has its record started, so that a
  commit is refused (`RunInv`).

`LocalBlobsProofs` proves, for any finite sets of files and writers, any sizes and
budget and any page size (`FiniteAssumption`, `BoundsAssumption`):

- `TypesHold` (no count falls below zero), `CountsAreExact`, `EvictedAreGone` and
  `LookupsFind`. The counts are exact only where nothing outside changed the
  files, which is not inductive: `Counted` says that a count always covers its
  files and is exact unless in doubt, and that a scan nothing touched has counted
  what it has not still to visit (`ScanCounted`). `EvictInv` follows the eviction
  of one row: behind the directories it has been through there are only files
  that came since, which `MarkEvicted`'s asOf leaves unmarked.
- Sums over finite sets are proved by least counterexample among the subsets
  (`WFMin`), since the library's induction rules cannot be instantiated here. A
  page of the sweeper's listing is described by what it contains (`Pages`)
  rather than built by recursion, for the same reason.

`RegistrationsProofs` proves, for any keys, versions, tries and faults:

- `TypesHold`.
- `CountsSettle`: `Spec => []CountSettles`, a sweep beside a drain included: but for
  drift the two have different versions in hand (`Apart`). `QueueInv` is about
  the rows: a number is one row's (`OneRow`), a retraction is of a version that is
  gone (`Retracted`) and is queued after its addition (`InOrder`), what is given
  up is drift (`DeadDrifts`). `SettleInv` is about the runs: a retraction a run
  has read waits for its addition, which is in the same run and on its way, or
  whose key is held (`HoldInv`), so that a retraction is sent only when no addition
  is queued (`SentInv`); a version that is there has an addition queued or is
  counted (`LiveCounted`), and one that is gone without a retraction queued is
  neither counted nor about to be (`GoneUncounted`).

`ObjectListingProofs` proves, for any set of keys without a NUL byte, any
prefixes, delimiters of any length, markers and limits and any number of writes:

- `KeysRoundTrip`: `Joined(a, PrefixLen(a, k), Suffix(a, k)) = k`, that is, a key
  compressed in a block against the key before it is read back as it was.
- `TypesHold`: `Spec => []TypeOK`, nothing empty is listed.
- `PagesExact`: `Spec => []PageExact`.
- `ListingsExact`: `Spec => []ListingExact`.
- `MarkersAdvance`: every page that has a next one moves the marker strictly
  forward, but for the listing of the Disagreements.

They rest on lemmas about the order of keys: it is a strict total order; the
keys with a prefix follow that prefix without a gap, so the first key that lacks
it ends the walk rightly; `Item` is monotone, so that a group's keys come together
and a page's items grow; a key that follows a marker and is not the marker is at or
past the marker with byte 1 appended, which is where `KeysAssumption` needs keys
without NUL (`mst.IsValidKey`). The invariant of one page, `WalkInv`, says that
each item is that of a wanted key that comes before what is left of the walk, that
a wanted key is listed or still ahead, and that `nextKey` is the last item. `KeptInv` carries
a listing across pages: each key kept since the start is listed already or still
ahead of the marker, and in the root a page reads, since a root read later than
the start still shows it. `OrderInv` says that what was listed is in order and ends
at the marker, so that a page's items come after it; `Restarts` is the exception, a page of
one key that ends with the prefix itself. That a listing finds in the tree exactly
the keys of the map is not proved but checked (`ReadsExact`).

Assumptions: the named ASSUMEs of the modules, which TLC evaluates in every run
of a module that extends them, and the two conditions of the catalog's theorems
(`~UnlinkMayFail`, no "damage"), each a behaviour listed under Disagreements. The
other theorems have no condition: what they except is in their properties, by the
history variables of the Disagreements. What the specifications leave out, and the
theorems with them, is listed under Not modelled.

Only model-checked: the liveness properties (`JournalDrains`,
`StartedReleaseEnds`, `OutboxDrains`, `RevocationsTake`, `BudgetKept`), which are
out of this prover's reach; and the algorithms of the tree (`RootCanonical`,
`ReadsExact`, `DiffExact`). Those recurse down trees of any depth, so that what they
compute for every tree needs an induction over data, which the prover cannot
instantiate; of the tree, the compression of keys in a block is proved.

## Not modelled

In `CatalogLog`: Postgres restored to an older snapshot, an open segment's CAR
losing bytes that were fsynced (only a sealed CAR is damaged, and its .idx goes with
it), dead-byte accounting, the locator's caches.
In `BlobLifecycle` and `Multipart`: bodies streamed to the provider while they
spool (stream rows, touches, the stale-stream sweeper, a streamed park),
encryption parameters, bodies and parts of several blobs, the grace of readers
that began before a release, a Complete whose commit took and whose answer was
lost, so that it reverts the session to open (`s3frontend/multipart.go:823`).
In `ObjectVersions`: retention dates and the governance bypass, several keys.
In `Access`: signatures, expiry of keys and delegations, the token file; when an
entry of the revoked set expires is open, renewals only put it off.
In `LocalBlobs`: temp files, `dropLocalCopy`, the startup pass over released
blobs, several spaces (`BlobLifecycle` has them).
Byte formats, hashing (BLAKE3 trees, multipart trees), encryption, RPC clients,
in-memory test stores, generated encoders, bucket settings that are one row
(tags, CORS), configuration and telemetry are left out for good;
`PROJECT.json` lists each with its reason.

## Plan

1. Streams: `stream.go` and the uploader's stream, as processes of `Multipart`
   and `BlobLifecycle`.
2. `CatalogLog`: an abstract durable catalog (commit, lose disk, read) and the log
   shown to implement it; the two missing faults.
3. Proofs: the tree, in a prover with induction over data, from the order of keys
   that `ObjectListingProofs` has; and the composition of the release path of
   `BlobLifecycle` with `Multipart`'s.
