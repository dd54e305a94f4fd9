----------------------------- MODULE CatalogLog -----------------------------
(***************************************************************************)
(* One bucket's catalog log (logstore/), with the registry rows it keeps   *)
(* (registry/segments.go, registry/postgres.go), the CARs it ships to      *)
(* Forge and the part of DeleteBucket that takes it apart.                 *)
(*                                                                         *)
(* A write appends its catalog blocks to the open segment on disk, then    *)
(* swaps the bucket root in Postgres and journals the blocks in the same   *)
(* transaction.  Segments seal, ship in the background, lose their journal *)
(* rows when the ship is stamped, and are retired.  The process may crash  *)
(* anywhere and recovers from what disk and Postgres hold.                 *)
(*                                                                         *)
(* Catalogs are content addressed: Tree[r] is the set of blocks a root r   *)
(* reaches, and a CAR's digest is identified with the set of blocks in it. *)
(***************************************************************************)
EXTENDS Naturals, FiniteSets

CONSTANTS
    Blocks,         \* catalog blocks (MST nodes and manifests), by CID
    Roots,          \* MST root CIDs
    NoRoot,         \* the empty tree (root_cid NULL)
    Tree,           \* Tree[r]: the blocks reachable from r
    Leafless,       \* the roots whose tree holds no leaf (an emptied bucket)
    MaxSeq,         \* bound: segment seqs are 1..MaxSeq
    Retain,         \* PlaneConfig.Retain, shipped segments kept on disk
    QueueCap,       \* capacity of flushQ (64 in the code)
    MaxCrashes,     \* bound: crashes of the process
    DiskFaults,     \* the faults the data volume may have (see Fault)
    UnlinkMayFail   \* whether retention's unlink may fail

ASSUME NoRootAssumption == NoRoot \notin Roots
ASSUME TreeAssumption   == /\ Tree \in [Roots \cup {NoRoot} -> SUBSET Blocks]
                           /\ Tree[NoRoot] = {}
ASSUME LeaflessAssumption == Leafless \subseteq Roots
ASSUME BoundsAssumption == /\ MaxSeq \in Nat /\ Retain \in Nat
                           /\ QueueCap \in Nat /\ MaxCrashes \in Nat
                           /\ UnlinkMayFail \in BOOLEAN
ASSUME FaultsAssumption == DiskFaults \subseteq {"lost", "index", "damage", "mount"}

Seqs   == 1..MaxSeq
NoSeq  == 0
Digest == SUBSET Blocks     \* a CAR's digest, identified with its content

VARIABLES
    \* Postgres
    root,       \* buckets.root_cid
    forgeRoot,  \* buckets.forge_root_cid
    bucket,     \* "live", or "deleted" once the bucket row is gone
    rows,       \* ingot.segments
    seqNext,    \* ingot.segment_seq
    journal,    \* ingot.catalog_journal: <<segment, block>>
    located,    \* ingot.blob_locations, of shard CARs
    inclusion,  \* ingot.shard_inclusions: block -> shard ({}: no row)
    \* Forge
    space,      \* the bucket's space: "live", or "deleted" by the tenant service
    forge,      \* the CARs registered in the bucket's space
    forgeIdx,   \* the index blobs registered there, by their CAR
    \* the data volume
    file,       \* a segment's files
    aside,      \* the volume that failed to mount, when one did
    \* the process
    log,        \* life cycle of the bucket's PlaneLog
    todo,       \* recovery: segment files still to reconcile
    opens,      \* recovery: segments to force-seal
    rebuild,    \* recovery: the segment journaled blocks are rebuilt into
    open,       \* PlaneLog.open
    sealed,     \* PlaneLog.sealed
    recorded,   \* segments with sealRecorded
    shipped,    \* segments with shippedAt
    wedged,     \* segments whose fds a failed retire closed
    queue,      \* flushQ
    pending,    \* the retry sweep's remaining segments
    flusher,    \* the flush goroutine: segment and step of flushOne
    writer,     \* the bucket transaction under way (bucketop.Tx)
    deleter,    \* DeleteBucket under way
    crashes      \* how often the process died

pgVars    == <<root, forgeRoot, bucket, rows, seqNext, journal, located, inclusion>>
forgeVars == <<space, forge, forgeIdx>>
diskVars  == <<file, aside>>
recVars   == <<todo, opens, rebuild>>
memVars   == <<open, sealed, recorded, shipped, wedged, queue, pending, flusher>>
opVars    == <<writer, deleter>>
vars      == <<pgVars, forgeVars, diskVars, log, recVars, memVars, opVars, crashes>>

-----------------------------------------------------------------------------
(* Rows, files and the registry's statements on them.                      *)

NoRow == [state |-> "none", sha |-> {}, shipped |-> FALSE,
          indexed |-> FALSE, retired |-> FALSE]
Row   == [state : {"none", "open", "sealed"}, sha : Digest, shipped : BOOLEAN,
          indexed : BOOLEAN, retired : BOOLEAN]

NoFile == [car |-> "none", blocks |-> {}, ops |-> {}, idx |-> FALSE]
File   == [car : {"none", "ok", "damaged"}, blocks : SUBSET Blocks,
           ops : SUBSET Roots, idx : BOOLEAN]

\* ON CONFLICT (seq) DO NOTHING
InsertSegmentOpen(rs, s) ==
    IF rs[s].state = "none" THEN [rs EXCEPT ![s] = [NoRow EXCEPT !.state = "open"]]
                            ELSE rs

\* Only a row still open is stamped; a missing or sealed one is a no-op.
MarkSegmentSealed(rs, s, sha) ==
    IF rs[s].state = "open"
    THEN [rs EXCEPT ![s].state = "sealed", ![s].sha = sha]
    ELSE rs

\* The first stamp counts; a missing row is a no-op.
MarkSegmentShipped(rs, s, indexed) ==
    IF rs[s].state # "none" /\ ~rs[s].shipped
    THEN [rs EXCEPT ![s].shipped = TRUE, ![s].indexed = indexed]
    ELSE rs

\* The row keeps recording what the segment registered in the space.
RetireSegments(rs, S) ==
    [s \in Seqs |-> IF s \in S /\ rs[s].state # "none"
                    THEN [rs[s] EXCEPT !.retired = TRUE] ELSE rs[s]]

DeleteSegment(rs, s) == [rs EXCEPT ![s] = NoRow]

RehydrateSegment(rs, s, sha) ==
    [rs EXCEPT ![s] = [NoRow EXCEPT !.state = "sealed", !.sha = sha]]

HasRow(s)     == rows[s].state # "none" /\ ~rows[s].retired
OnDisk        == {s \in Seqs : file[s].car # "none"}
Journaled(s)  == {b \in Blocks : <<s, b>> \in journal}
DropJournal(s) == {e \in journal : e[1] # s}

(***************************************************************************)
(* LocalLocator: a block resolves on Forge through its inclusion row to    *)
(* the location of a shard that the space still holds.                     *)
(***************************************************************************)
Resolvable(b) == /\ b \in inclusion[b]
                 /\ inclusion[b] \in located
                 /\ inclusion[b] \in forge

\* enqueueFlush: a full queue turns the segment away.
Enqueue(q, s) == IF Cardinality(q) < QueueCap THEN q \cup {s} ELSE q

\* The n newest of a set of segments.
Newest(S, n) == {s \in S : Cardinality({t \in S : t > s}) < n}

Idle     == [seq |-> NoSeq, phase |-> "idle", sweep |-> FALSE, gone |-> {}]
NoWrite  == [pc |-> "idle", seg |-> NoSeq, batch |-> {}, expect |-> NoRoot, next |-> NoRoot]
NoDelete == [pc |-> "idle", todo |-> {}]
NoBuild  == [cur |-> NoSeq, from |-> NoSeq, chunk |-> {}]

Phases == {"idle", "seal", "submit", "locate", "include", "stamp", "retain", "retired"}

TypeOK ==
    /\ root \in Roots \cup {NoRoot}
    /\ forgeRoot \in Roots \cup {NoRoot}
    /\ bucket \in {"live", "deleted"}
    /\ rows \in [Seqs -> Row]
    /\ seqNext \in 1..(MaxSeq + 1)
    /\ journal \subseteq Seqs \X Blocks
    /\ located \subseteq Digest
    /\ inclusion \in [Blocks -> Digest]
    /\ space \in {"live", "deleted"}
    /\ forge \subseteq Digest
    /\ forgeIdx \subseteq Digest
    /\ file \in [Seqs -> File]
    /\ aside \in [Seqs -> File]
    /\ log \in {"down", "scan", "seal", "rebuild", "prune", "running", "closing", "closed"}
    /\ todo \subseteq Seqs
    /\ opens \subseteq Seqs
    /\ rebuild \in [cur : Seqs \cup {NoSeq}, from : Seqs \cup {NoSeq}, chunk : SUBSET Blocks]
    /\ open \in Seqs \cup {NoSeq}
    /\ sealed \subseteq Seqs
    /\ recorded \subseteq Seqs
    /\ shipped \subseteq Seqs
    /\ wedged \subseteq Seqs
    /\ queue \subseteq Seqs
    /\ pending \subseteq Seqs
    /\ flusher \in [seq : Seqs \cup {NoSeq}, phase : Phases, sweep : BOOLEAN, gone : SUBSET Seqs]
    /\ writer \in [pc : {"idle", "appended"}, seg : Seqs \cup {NoSeq}, batch : SUBSET Blocks,
                   expect : Roots \cup {NoRoot}, next : Roots \cup {NoRoot}]
    /\ deleter \in [pc : {"idle", "emptied", "quiesced", "listed", "spaceless", "cleanup"},
                    todo : SUBSET Seqs]
    /\ crashes \in 0..MaxCrashes
    \* what is under way names the segment it works on
    /\ writer.pc = "appended" => writer.seg \in Seqs
    /\ flusher.phase # "idle" => flusher.seq \in Seqs
    /\ rebuild.from # NoSeq => rebuild.cur \in Seqs

Init ==
    /\ root = NoRoot /\ forgeRoot = NoRoot /\ bucket = "live"
    /\ rows = [s \in Seqs |-> NoRow] /\ seqNext = 1
    /\ journal = {} /\ located = {} /\ inclusion = [b \in Blocks |-> {}]
    /\ space = "live" /\ forge = {} /\ forgeIdx = {}
    /\ file = [s \in Seqs |-> NoFile] /\ aside = [s \in Seqs |-> NoFile]
    /\ log = "running"
    /\ todo = {} /\ opens = {} /\ rebuild = NoBuild
    /\ open = NoSeq /\ sealed = {} /\ recorded = {} /\ shipped = {} /\ wedged = {}
    /\ queue = {} /\ pending = {} /\ flusher = Idle
    /\ writer = NoWrite /\ deleter = NoDelete
    /\ crashes = 0

-----------------------------------------------------------------------------
(* Writes: bucketop.Tx.Commit, under the bucket lock.                      *)

BucketLockFree == writer.pc = "idle" /\ deleter.pc = "idle"

\* A request is authorised through the bucket's space (bucketauthority).
Writable == bucket = "live" /\ space = "live" /\ BucketLockFree

\* The batch holds every block of the new tree the old one lacks.
Batches(r) == {bs \in SUBSET Tree[r] : Tree[r] \ Tree[root] \subseteq bs}

\* The segment a batch goes into: the open one, or a new one.
AppendSeq == IF open # NoSeq THEN open ELSE seqNext

\* Segment.append on the segment's files: the blocks and the op-root, fsynced.
Appended(f, bs, ops) == [f EXCEPT !.car = "ok", !.blocks = @ \cup bs, !.ops = @ \cup ops]

(***************************************************************************)
(* PlaneLog.Append: a new segment (files, then row) when none is open, the *)
(* blocks and the op-root fsynced before it returns.                       *)
(***************************************************************************)
AppendBatch(r, bs) ==
    /\ log = "running" /\ Writable
    /\ bs \in Batches(r)
    /\ AppendSeq \in Seqs
    /\ seqNext' = IF open # NoSeq THEN seqNext ELSE seqNext + 1
    /\ rows' = InsertSegmentOpen(rows, AppendSeq)
    /\ file' = [file EXCEPT ![AppendSeq] = Appended(@, bs, {r})]
    /\ open' = AppendSeq
    /\ writer' = [pc |-> "appended", seg |-> AppendSeq, batch |-> bs,
                  expect |-> root, next |-> r]
    /\ UNCHANGED <<root, forgeRoot, bucket, journal, located, inclusion, forgeVars, aside,
                   log, recVars, sealed, recorded, shipped, wedged, queue, pending, flusher,
                   deleter, crashes>>

\* Mutants: journal only while the segment is open; always.
JournalOfOpenOnly(s, bs) == IF rows[s].state = "open" THEN {s} \X bs ELSE {}
JournalOfAlways(s, bs) == {s} \X bs

\* journalBlocks: nothing for a segment that has shipped or has no row.
JournalOf(s, bs) ==
    IF rows[s].state = "none" \/ rows[s].shipped THEN {} ELSE {s} \X bs

(***************************************************************************)
(* CommitRoot: the root swap and the journaled blocks, one transaction.    *)
(***************************************************************************)
CommitRoot ==
    /\ writer.pc = "appended"
    /\ root = writer.expect
    /\ journal' = journal \cup JournalOf(writer.seg, writer.batch)
    /\ root' = writer.next
    /\ writer' = NoWrite
    /\ UNCHANGED <<forgeRoot, bucket, rows, seqNext, located, inclusion, forgeVars, diskVars,
                   log, recVars, memVars, deleter, crashes>>

\* The transaction fails: the op-root stays in the log, the root does not move.
CommitFails ==
    /\ writer.pc = "appended"
    /\ writer' = NoWrite
    /\ UNCHANGED <<pgVars, forgeVars, diskVars, log, recVars, memVars, deleter, crashes>>

-----------------------------------------------------------------------------
(* Sealing.                                                                *)

\* How far Segment.seal gets once the segment is frozen.
SealOutcomes == {"frozen", "indexed", "recorded"}

SealFile(f, how) == IF how = "frozen" THEN f ELSE [f EXCEPT !.idx = TRUE]

SealRow(s, how) ==
    IF how = "recorded" THEN MarkSegmentSealed(rows, s, file[s].blocks) ELSE rows

(***************************************************************************)
(* sealOpenIfDue: a segment that froze moves to the sealed list and to the *)
(* queue whether or not its seal was recorded.                             *)
(***************************************************************************)
SealOpen(how) ==
    /\ log = "running" /\ open # NoSeq
    /\ file' = [file EXCEPT ![open] = SealFile(@, how)]
    /\ rows' = SealRow(open, how)
    /\ recorded' = IF how = "recorded" THEN recorded \cup {open} ELSE recorded
    /\ sealed' = sealed \cup {open}
    /\ queue' = Enqueue(queue, open)
    /\ open' = NoSeq
    /\ UNCHANGED <<root, forgeRoot, bucket, seqNext, journal, located, inclusion, forgeVars,
                   aside, log, recVars, shipped, wedged, pending, flusher, opVars, crashes>>

-----------------------------------------------------------------------------
(* Shipping: the flush goroutine.                                          *)

Working == log \in {"running", "closing"}

\* flushOne leaves a segment that has already shipped alone.
StartFlush(s, sweep) ==
    flusher' = IF s \in shipped THEN Idle
               ELSE [seq |-> s, phase |-> "seal", sweep |-> sweep, gone |-> {}]

\* flushLoop takes a queued segment.
TakeQueued(s) ==
    /\ Working /\ flusher.phase = "idle" /\ pending = {}
    /\ s \in queue
    /\ queue' = queue \ {s}
    /\ StartFlush(s, FALSE)
    /\ UNCHANGED <<pgVars, forgeVars, diskVars, log, recVars, open, sealed, recorded, shipped,
                   wedged, pending, opVars, crashes>>

\* Mutant: the sweep passes over segments not yet recorded.
StartSweepRecorded ==
    /\ log = "running" /\ flusher.phase = "idle" /\ pending = {}
    /\ (sealed \cap recorded) \ shipped # {}
    /\ pending' = (sealed \cap recorded) \ shipped
    /\ UNCHANGED <<pgVars, forgeVars, diskVars, log, recVars, open, sealed, recorded, shipped,
                   wedged, queue, flusher, opVars, crashes>>

\* retryUnshipped snapshots the unshipped segments ...
StartSweep ==
    /\ log = "running" /\ flusher.phase = "idle" /\ pending = {}
    /\ sealed \ shipped # {}
    /\ pending' = sealed \ shipped
    /\ UNCHANGED <<pgVars, forgeVars, diskVars, log, recVars, open, sealed, recorded, shipped,
                   wedged, queue, flusher, opVars, crashes>>

\* ... and tries each once, oldest first.
SweepNext(s) ==
    /\ log = "running" /\ flusher.phase = "idle"
    /\ s \in pending /\ \A t \in pending : s <= t
    /\ pending' = pending \ {s}
    /\ StartFlush(s, TRUE)
    /\ UNCHANGED <<pgVars, forgeVars, diskVars, log, recVars, open, sealed, recorded, shipped,
                   wedged, queue, opVars, crashes>>

\* A sweep ends between segments when the log closes.
SweepClosed ==
    /\ log = "closing" /\ flusher.phase = "idle" /\ pending # {}
    /\ pending' = {}
    /\ UNCHANGED <<pgVars, forgeVars, diskVars, log, recVars, open, sealed, recorded, shipped,
                   wedged, queue, flusher, opVars, crashes>>

At(phase) == Working /\ flusher.phase = phase
Goto(phase) == flusher' = [flusher EXCEPT !.phase = phase]

\* Mutant: ships without recording the seal.
FlushSealSkipped ==
    /\ At("seal")
    /\ Goto("submit")
    /\ UNCHANGED <<pgVars, forgeVars, diskVars, log, recVars, open, sealed, recorded, shipped,
                   wedged, queue, pending, opVars, crashes>>

\* A seal that failed to record is recorded before the ship.
FlushSeal ==
    /\ At("seal")
    /\ IF flusher.seq \in recorded
       THEN UNCHANGED <<rows, file, recorded>>
       ELSE /\ file' = [file EXCEPT ![flusher.seq] = SealFile(@, "recorded")]
            /\ rows' = SealRow(flusher.seq, "recorded")
            /\ recorded' = recorded \cup {flusher.seq}
    /\ Goto("submit")
    /\ UNCHANGED <<root, forgeRoot, bucket, seqNext, journal, located, inclusion, forgeVars,
                   aside, log, recVars, open, sealed, shipped, wedged, queue, pending, opVars,
                   crashes>>

\* The CAR the flush goroutine is shipping.
Shard == file[flusher.seq].blocks

\* A header-only CAR and a deleted bucket's segment ship nothing.
FlushTrivial ==
    /\ At("submit")
    /\ Shard = {} \/ bucket = "deleted"
    /\ Goto("stamp")
    /\ UNCHANGED <<pgVars, forgeVars, diskVars, log, recVars, open, sealed, recorded, shipped,
                   wedged, queue, pending, opVars, crashes>>

\* SubmitShard registers the CAR, then its index blob (best effort).
FlushSubmit(indexed) ==
    /\ At("submit")
    /\ Shard # {} /\ bucket = "live" /\ space = "live"
    /\ forge' = forge \cup {Shard}
    /\ forgeIdx' = IF indexed THEN forgeIdx \cup {Shard} ELSE forgeIdx
    /\ Goto("locate")
    /\ UNCHANGED <<pgVars, space, diskVars, log, recVars, open, sealed, recorded, shipped, wedged,
                   queue, pending, opVars, crashes>>

FlushLocate ==
    /\ At("locate")
    /\ located' = located \cup {Shard}
    /\ Goto("include")
    /\ UNCHANGED <<root, forgeRoot, bucket, rows, seqNext, journal, inclusion, forgeVars,
                   diskVars, log, recVars, open, sealed, recorded, shipped, wedged, queue,
                   pending, opVars, crashes>>

FlushInclude ==
    /\ At("include")
    /\ inclusion' = [b \in Blocks |-> IF b \in Shard THEN Shard ELSE inclusion[b]]
    /\ Goto("stamp")
    /\ UNCHANGED <<root, forgeRoot, bucket, rows, seqNext, journal, located, forgeVars,
                   diskVars, log, recVars, open, sealed, recorded, shipped, wedged, queue,
                   pending, opVars, crashes>>

\* Mutant: no guard on root_cid.
ForgeRootAfterUnguarded(s) ==
    IF rows[s].state # "none" /\ ~rows[s].shipped /\ file[s].ops # {}
    THEN CHOOSE r \in file[s].ops : TRUE ELSE forgeRoot

\* MarkSegmentShipped's forge_root_cid: guarded on root_cid, first stamp only.
ForgeRootAfter(s) ==
    IF rows[s].state # "none" /\ ~rows[s].shipped /\ root \in file[s].ops
    THEN root ELSE forgeRoot

(***************************************************************************)
(* MarkSegmentShipped, in one transaction: the stamp (with the index       *)
(* digest when something was submitted), the guarded forge_root_cid and    *)
(* the segment's journal rows.  Only then the segment counts as shipped.   *)
(***************************************************************************)
FlushStamp ==
    /\ At("stamp")
    /\ LET s == flusher.seq IN
       /\ forgeRoot' = ForgeRootAfter(s)
       /\ rows' = MarkSegmentShipped(rows, s, Shard # {} /\ bucket = "live")
       /\ journal' = DropJournal(s)
       /\ shipped' = shipped \cup {s}
    /\ Goto("retain")
    /\ UNCHANGED <<root, bucket, seqNext, located, inclusion, forgeVars, diskVars, log, recVars,
                   open, sealed, recorded, wedged, queue, pending, opVars, crashes>>

(***************************************************************************)
(* An attempt fails.  A queued ship starts over (unless only the stamp     *)
(* failed, which is retried as it is) or runs out of attempts; a sweep's   *)
(* single attempt ends the sweep; a closing log stops trying.              *)
(***************************************************************************)
FlushRetry ==
    /\ At(flusher.phase) /\ flusher.phase \in {"submit", "locate", "include"}
    /\ ~flusher.sweep
    /\ Goto("seal")
    /\ UNCHANGED <<pgVars, forgeVars, diskVars, log, recVars, open, sealed, recorded, shipped,
                   wedged, queue, pending, opVars, crashes>>

FlushGivesUp ==
    /\ At(flusher.phase) /\ flusher.phase \in {"seal", "submit", "locate", "include", "stamp"}
    /\ flusher' = Idle
    /\ pending' = {}
    /\ UNCHANGED <<pgVars, forgeVars, diskVars, log, recVars, open, sealed, recorded, shipped,
                   wedged, queue, opVars, crashes>>

-----------------------------------------------------------------------------
(* Retention.                                                              *)

ToRetire == LET done == sealed \cap shipped IN done \ Newest(done, Retain)

\* Mutant: the closed segments stay in the read tier.
RetireFilesKept(gone) ==
    /\ At("retain")
    /\ gone = ToRetire
    /\ wedged' = wedged \cup gone
    /\ flusher' = [flusher EXCEPT !.phase = "retired", !.gone = gone]
    /\ UNCHANGED <<pgVars, forgeVars, diskVars, log, recVars, open, sealed, recorded, shipped,
                   queue, pending, opVars, crashes>>

(***************************************************************************)
(* runRetention closes and unlinks the shipped segments beyond Retain.  A  *)
(* failed unlink leaves the segment in the read tier with its fds closed.  *)
(***************************************************************************)
RetireFiles(gone) ==
    /\ At("retain")
    /\ gone \subseteq ToRetire
    /\ UnlinkMayFail \/ gone = ToRetire
    /\ file' = [s \in Seqs |-> IF s \in gone THEN NoFile ELSE file[s]]
    /\ sealed' = sealed \ gone
    /\ wedged' = (wedged \cup ToRetire) \ gone
    /\ flusher' = [flusher EXCEPT !.phase = "retired", !.gone = gone]
    /\ UNCHANGED <<pgVars, forgeVars, aside, log, recVars, open, recorded, shipped, queue,
                   pending, opVars, crashes>>

\* ... then stamps their rows; a stamp that fails is left to recovery.
RetireRows(stamped) ==
    /\ At("retired")
    /\ stamped \subseteq flusher.gone
    /\ rows' = RetireSegments(rows, stamped)
    /\ flusher' = Idle
    /\ UNCHANGED <<root, forgeRoot, bucket, seqNext, journal, located, inclusion, forgeVars,
                   diskVars, log, recVars, open, sealed, recorded, shipped, wedged, queue,
                   pending, opVars, crashes>>

-----------------------------------------------------------------------------
(* Opening the log: PlaneLog.recover.                                      *)

Recovering == log \in {"scan", "seal", "rebuild", "prune"}

\* Mutant: unconditional, and one too far.
EnsureSegmentSeqTooFar == IF OnDisk # {}
                          THEN 2 + CHOOSE m \in OnDisk : \A s \in OnDisk : s <= m
                          ELSE seqNext

\* OpenManager first moves the allocator past every seq on disk.
EnsureSegmentSeqAbove == IF \E s \in OnDisk : s >= seqNext
                         THEN 1 + CHOOSE m \in OnDisk : \A s \in OnDisk : s <= m
                         ELSE seqNext

\* A start of the process, or the first write after QuiesceBucketLog.
OpenLog ==
    /\ \/ log = "down" /\ seqNext' = EnsureSegmentSeqAbove
       \/ log = "closed" /\ BucketLockFree /\ bucket = "live" /\ UNCHANGED seqNext
    /\ log' = "scan"
    /\ todo' = OnDisk
    /\ UNCHANGED <<root, forgeRoot, bucket, rows, journal, located, inclusion, forgeVars,
                   diskVars, opens, rebuild, memVars, opVars, crashes>>

Reconcile(s) == log = "scan" /\ s \in todo /\ todo' = todo \ {s}

\* A segment recovered sealed, shipped as its row says.
LoadSealed(s, isShipped) ==
    /\ sealed' = sealed \cup {s}
    /\ recorded' = recorded \cup {s}
    /\ shipped' = IF isShipped THEN shipped \cup {s} ELSE shipped
    /\ UNCHANGED <<open, wedged, queue, pending, flusher>>

RetiredShipped(s) == rows[s].retired /\ rows[s].shipped

\* Files an interrupted retire left behind: they go, the row stays.
RecoverRetired(s) ==
    /\ Reconcile(s) /\ RetiredShipped(s)
    /\ file' = [file EXCEPT ![s] = NoFile]
    /\ UNCHANGED <<pgVars, forgeVars, aside, log, opens, rebuild, memVars, opVars, crashes>>

(***************************************************************************)
(* sealedRow: loaded from its .idx, or rebuilt from a CAR that still       *)
(* matches the row, which writes the .idx again.                           *)
(***************************************************************************)
RecoverSealedRow(s) ==
    /\ Reconcile(s) /\ HasRow(s) /\ rows[s].state = "sealed"
    /\ file[s].idx \/ (file[s].car = "ok" /\ file[s].blocks = rows[s].sha)
    /\ file' = [file EXCEPT ![s].idx = TRUE]
    /\ LoadSealed(s, rows[s].shipped)
    /\ UNCHANGED <<pgVars, forgeVars, aside, log, opens, rebuild, opVars, crashes>>

Damaged(s) == ~file[s].idx /\ (file[s].car = "damaged" \/ file[s].blocks # rows[s].sha)

\* A damaged CAR whose blocks are on Forge or journaled is set aside.
RecoverSetAside(s) ==
    /\ Reconcile(s) /\ HasRow(s) /\ rows[s].state = "sealed" /\ Damaged(s)
    /\ rows[s].shipped \/ Journaled(s) # {}
    /\ file' = [file EXCEPT ![s] = NoFile]
    /\ UNCHANGED <<pgVars, forgeVars, aside, log, opens, rebuild, memVars, opVars, crashes>>

\* sealedFromIdx: the seal was not recorded, or the row is gone or retired.
RecoverFromIdx(s) ==
    /\ Reconcile(s) /\ ~(HasRow(s) /\ rows[s].state = "sealed") /\ ~RetiredShipped(s)
    /\ file[s].idx
    /\ rows' = IF HasRow(s) THEN MarkSegmentSealed(rows, s, file[s].blocks)
                            ELSE RehydrateSegment(rows, s, file[s].blocks)
    /\ LoadSealed(s, FALSE)
    /\ UNCHANGED <<root, forgeRoot, bucket, seqNext, journal, located, inclusion, forgeVars,
                   diskVars, log, opens, rebuild, opVars, crashes>>

(***************************************************************************)
(* Open at the crash: rebuilt from the CAR, cut off at its first bad frame *)
(* when it is damaged, its row seeded if missing.                          *)
(***************************************************************************)
RecoverOpen(s, kept) ==
    /\ Reconcile(s) /\ ~(HasRow(s) /\ rows[s].state = "sealed") /\ ~RetiredShipped(s)
    /\ ~file[s].idx
    /\ kept \subseteq file[s].blocks
    /\ file[s].car = "ok" => kept = file[s].blocks
    /\ file' = [file EXCEPT ![s].car = "ok", ![s].blocks = kept]
    /\ rows' = InsertSegmentOpen(rows, s)
    /\ opens' = opens \cup {s}
    /\ UNCHANGED <<root, forgeRoot, bucket, seqNext, journal, located, inclusion, forgeVars,
                   aside, log, rebuild, memVars, opVars, crashes>>

\* A damaged, unshipped segment the journal holds nothing for fails the start.
RecoverRefuses(s) ==
    /\ log = "scan" /\ s \in todo
    /\ HasRow(s) /\ rows[s].state = "sealed" /\ Damaged(s)
    /\ ~rows[s].shipped /\ Journaled(s) = {}
    /\ log' = "down" /\ todo' = {} /\ opens' = {}
    /\ sealed' = {} /\ recorded' = {} /\ shipped' = {}
    /\ UNCHANGED <<pgVars, forgeVars, diskVars, rebuild, open, wedged, queue, pending, flusher,
                   opVars, crashes>>

ScanDone ==
    /\ log = "scan" /\ todo = {}
    /\ log' = "seal"
    /\ UNCHANGED <<pgVars, forgeVars, diskVars, recVars, memVars, opVars, crashes>>

\* Every segment found open is sealed, so a new one takes the next write.
ForceSeal(s) ==
    /\ log = "seal" /\ s \in opens
    /\ opens' = opens \ {s}
    /\ file' = [file EXCEPT ![s].idx = TRUE]
    /\ rows' = MarkSegmentSealed(rows, s, file[s].blocks)
    /\ LoadSealed(s, FALSE)
    /\ UNCHANGED <<root, forgeRoot, bucket, seqNext, journal, located, inclusion, forgeVars,
                   aside, log, todo, rebuild, opVars, crashes>>

SealDone ==
    /\ log = "seal" /\ opens = {}
    /\ log' = "rebuild"
    /\ UNCHANGED <<pgVars, forgeVars, diskVars, recVars, memVars, opVars, crashes>>

\* The segments the journal files blocks under whose CAR is gone.
Lost == {s \in Seqs : Journaled(s) # {} /\ file[s].car = "none"}

RebuildSeq == IF rebuild.cur # NoSeq THEN rebuild.cur ELSE seqNext

(***************************************************************************)
(* rebuildFromJournal: a run of a lost segment's blocks is fsynced into a  *)
(* new segment without op-roots ...                                        *)
(***************************************************************************)
RebuildAppend(from, chunk) ==
    /\ log = "rebuild" /\ rebuild.from = NoSeq
    /\ from \in Lost /\ chunk \in SUBSET Journaled(from) /\ chunk # {}
    /\ RebuildSeq \in Seqs
    /\ seqNext' = IF rebuild.cur # NoSeq THEN seqNext ELSE seqNext + 1
    /\ rows' = InsertSegmentOpen(rows, RebuildSeq)
    /\ file' = [file EXCEPT ![RebuildSeq] = Appended(@, chunk, {})]
    /\ rebuild' = [cur |-> RebuildSeq, from |-> from, chunk |-> chunk]
    /\ UNCHANGED <<root, forgeRoot, bucket, journal, located, inclusion, forgeVars, aside, log,
                   todo, opens, memVars, opVars, crashes>>

\* ... and MoveJournal re-files its journal rows, unless the target shipped.
RebuildMove ==
    /\ log = "rebuild" /\ rebuild.from # NoSeq
    /\ journal' = (journal \ ({rebuild.from} \X rebuild.chunk))
                    \cup IF rows[rebuild.cur].shipped THEN {} ELSE {rebuild.cur} \X rebuild.chunk
    /\ rebuild' = [rebuild EXCEPT !.from = NoSeq, !.chunk = {}]
    /\ UNCHANGED <<root, forgeRoot, bucket, rows, seqNext, located, inclusion, forgeVars,
                   diskVars, log, todo, opens, memVars, opVars, crashes>>

\* A rebuilt segment seals once it is full or nothing is left.
RebuildSeal ==
    /\ log = "rebuild" /\ rebuild.from = NoSeq /\ rebuild.cur # NoSeq
    /\ file' = [file EXCEPT ![rebuild.cur].idx = TRUE]
    /\ rows' = MarkSegmentSealed(rows, rebuild.cur, file[rebuild.cur].blocks)
    /\ LoadSealed(rebuild.cur, FALSE)
    /\ rebuild' = NoBuild
    /\ UNCHANGED <<root, forgeRoot, bucket, seqNext, journal, located, inclusion, forgeVars,
                   aside, log, todo, opens, opVars, crashes>>

RebuildDone ==
    /\ log = "rebuild" /\ Lost = {} /\ rebuild = NoBuild
    /\ log' = "prune"
    /\ UNCHANGED <<pgVars, forgeVars, diskVars, recVars, memVars, opVars, crashes>>

Fileless == {s \in Seqs : HasRow(s) /\ file[s].car = "none"}

\* A row without a CAR: a sealed one is retired, an open one deleted.
PruneRow(s) ==
    /\ log = "prune" /\ s \in Fileless
    /\ rows' = IF rows[s].state = "sealed" THEN RetireSegments(rows, {s})
                                           ELSE DeleteSegment(rows, s)
    /\ UNCHANGED <<root, forgeRoot, bucket, seqNext, journal, located, inclusion, forgeVars,
                   diskVars, log, recVars, memVars, opVars, crashes>>

\* The unshipped segments are queued, newest first, as far as the queue goes.
RecoverDone ==
    /\ log = "prune" /\ Fileless = {}
    /\ log' = "running"
    /\ queue' = Newest(sealed \ shipped, QueueCap)
    /\ UNCHANGED <<pgVars, forgeVars, diskVars, recVars, open, sealed, recorded, shipped,
                   wedged, pending, flusher, opVars, crashes>>

-----------------------------------------------------------------------------
(* DeleteBucket, as far as it touches the catalog, under the bucket lock.  *)

\* Mutant: the root keeps naming blocks about to be released.
EmptyRootKept ==
    /\ log \in {"running", "closed"} /\ bucket = "live" /\ BucketLockFree
    /\ root \in Leafless \cup {NoRoot}
    /\ deleter' = [pc |-> "emptied", todo |-> {}]
    /\ UNCHANGED <<pgVars, forgeVars, diskVars, log, recVars, memVars, writer, crashes>>

\* The bucket holds no object: the empty tree is committed first.
EmptyRoot ==
    /\ log \in {"running", "closed"} /\ bucket = "live" /\ BucketLockFree
    /\ root \in Leafless \cup {NoRoot}
    /\ root' = NoRoot /\ forgeRoot' = NoRoot /\ journal' = {}
    /\ deleter' = [pc |-> "emptied", todo |-> {}]
    /\ UNCHANGED <<bucket, rows, seqNext, located, inclusion, forgeVars, diskVars, log, recVars,
                   memVars, writer, crashes>>

(***************************************************************************)
(* QuiesceBucketLog: Close seals the open segment and signals the flush    *)
(* goroutine.  A segment whose seal fails is dropped from memory.          *)
(***************************************************************************)
Quiesce(how) ==
    /\ deleter.pc = "emptied" /\ log = "running"
    /\ log' = "closing"
    /\ open' = NoSeq
    /\ IF open = NoSeq
       THEN UNCHANGED <<file, rows, recorded, sealed, queue>>
       ELSE /\ file' = [file EXCEPT ![open] = SealFile(@, how)]
            /\ rows' = SealRow(open, how)
            /\ recorded' = IF how = "recorded" THEN recorded \cup {open} ELSE recorded
            /\ sealed' = IF how = "recorded" THEN sealed \cup {open} ELSE sealed
            /\ queue' = IF how = "recorded" THEN Enqueue(queue, open) ELSE queue
    /\ UNCHANGED <<root, forgeRoot, bucket, seqNext, journal, located, inclusion, forgeVars,
                   aside, recVars, shipped, wedged, pending, flusher, opVars, crashes>>

ForgetMemory ==
    /\ open' = NoSeq /\ sealed' = {} /\ recorded' = {} /\ shipped' = {} /\ wedged' = {}
    /\ queue' = {} /\ pending' = {} /\ flusher' = Idle

\* wg.Wait: the flush goroutine has ended, whatever is left in the queue.
QuiesceDone ==
    /\ deleter.pc = "emptied"
    /\ \/ log = "closing" /\ flusher.phase = "idle" /\ pending = {}
       \/ log = "closed"
    /\ log' = "closed"
    /\ ForgetMemory
    /\ deleter' = [pc |-> "quiesced", todo |-> {}]
    /\ UNCHANGED <<pgVars, forgeVars, diskVars, recVars, writer, crashes>>

\* registeredDigests: the CAR of a sealed row, its index blob once shipped.
ReleaseRow(s) ==
    /\ forge' = IF rows[s].state = "sealed" THEN forge \ {rows[s].sha} ELSE forge
    /\ forgeIdx' = IF rows[s].state = "sealed" /\ rows[s].shipped /\ rows[s].indexed
                   THEN forgeIdx \ {rows[s].sha} ELSE forgeIdx
    /\ UNCHANGED space

\* ReleaseRetiredSegments: each retired row goes once its blobs are released.
ReleaseRetired(s) ==
    /\ deleter.pc = "quiesced" /\ rows[s].retired
    /\ ReleaseRow(s)
    /\ rows' = DeleteSegment(rows, s)
    /\ UNCHANGED <<root, forgeRoot, bucket, seqNext, journal, located, inclusion, diskVars, log,
                   recVars, memVars, opVars, crashes>>

\* Mutant: only the rows stamped shipped.
ListShippedStamped ==
    /\ deleter.pc = "quiesced" /\ \A s \in Seqs : ~rows[s].retired
    /\ deleter' = [pc |-> "listed", todo |-> {s \in Seqs : HasRow(s) /\ rows[s].shipped}]
    /\ UNCHANGED <<pgVars, forgeVars, diskVars, log, recVars, memVars, writer, crashes>>

\* ShippedSegmentDigests lists the unretired rows ...
ListShipped ==
    /\ deleter.pc = "quiesced" /\ \A s \in Seqs : ~rows[s].retired
    /\ deleter' = [pc |-> "listed", todo |-> {s \in Seqs : HasRow(s)}]
    /\ UNCHANGED <<pgVars, forgeVars, diskVars, log, recVars, memVars, writer, crashes>>

\* ... and their blobs are released one by one; the rows stay.
ReleaseShipped(s) ==
    /\ deleter.pc = "listed" /\ s \in deleter.todo
    /\ ReleaseRow(s)
    /\ deleter' = [deleter EXCEPT !.todo = @ \ {s}]
    /\ UNCHANGED <<pgVars, diskVars, log, recVars, memVars, writer, crashes>>

Releasing == deleter.pc = "listed" /\ deleter.todo = {}

\* The tenant service deletes the space, which it refuses while the space
\* holds a registration; a space already gone answers not found.
DeleteSpace ==
    /\ Releasing /\ space = "live" /\ forge = {} /\ forgeIdx = {}
    /\ space' = "deleted"
    /\ deleter' = [pc |-> "spaceless", todo |-> {}]
    /\ UNCHANGED <<pgVars, forge, forgeIdx, diskVars, log, recVars, memVars, writer, crashes>>

\* The bucket row goes, its journal rows with it.
DropBucket ==
    /\ deleter.pc = "spaceless"
    /\ bucket' = "deleted" /\ root' = NoRoot /\ forgeRoot' = NoRoot /\ journal' = {}
    /\ deleter' = [pc |-> "cleanup", todo |-> {}]
    /\ UNCHANGED <<rows, seqNext, located, inclusion, forgeVars, diskVars, log, recVars,
                   memVars, writer, crashes>>

RemoveBucketLog ==
    /\ deleter.pc = "cleanup"
    /\ file' = [s \in Seqs |-> NoFile]
    /\ rows' = [s \in Seqs |-> NoRow]
    /\ deleter' = NoDelete
    /\ UNCHANGED <<root, forgeRoot, bucket, seqNext, journal, located, inclusion, forgeVars,
                   aside, log, recVars, memVars, writer, crashes>>

\* Any later step of the delete fails: the bucket lists empty and stays.
DeleteFails ==
    /\ deleter.pc \in {"quiesced", "listed", "spaceless", "cleanup"}
    /\ deleter' = NoDelete
    /\ UNCHANGED <<pgVars, forgeVars, diskVars, log, recVars, memVars, writer, crashes>>

-----------------------------------------------------------------------------
(* Faults.                                                                 *)

ProcessDies ==
    /\ crashes < MaxCrashes /\ crashes' = crashes + 1
    /\ log' = "down"
    /\ todo' = {} /\ opens' = {} /\ rebuild' = NoBuild
    /\ ForgetMemory
    /\ writer' = NoWrite /\ deleter' = NoDelete

Crash ==
    /\ log # "down"
    /\ ProcessDies
    /\ UNCHANGED <<pgVars, forgeVars, diskVars>>

(***************************************************************************)
(* The process dies inside an append: the row may be missing, and any part *)
(* of the batch and its op-root may have reached the disk.                 *)
(***************************************************************************)
TornAppend(r, part, ops, hasRow) ==
    /\ log = "running" /\ Writable
    /\ AppendSeq \in Seqs
    /\ part \subseteq Tree[r] /\ ops \subseteq {r}
    /\ hasRow \/ (open = NoSeq /\ part = {} /\ ops = {})
    /\ seqNext' = IF open # NoSeq THEN seqNext ELSE seqNext + 1
    /\ rows' = IF hasRow THEN InsertSegmentOpen(rows, AppendSeq) ELSE rows
    /\ file' = [file EXCEPT ![AppendSeq] = Appended(@, part, ops)]
    /\ ProcessDies
    /\ UNCHANGED <<root, forgeRoot, bucket, journal, located, inclusion, forgeVars, aside>>

DiskFault(kind) ==
    /\ log = "down" /\ kind \in DiskFaults
    /\ UNCHANGED <<pgVars, forgeVars, log, recVars, memVars, opVars, crashes>>

\* Segment files are lost for good.
LoseFiles(S) ==
    /\ DiskFault("lost")
    /\ S \subseteq OnDisk /\ S # {}
    /\ file' = [s \in Seqs |-> IF s \in S THEN NoFile ELSE file[s]]
    /\ UNCHANGED aside

\* A sealed segment loses its .idx, or that and its CAR's integrity.  An open
\* segment's CAR is not damaged, and no CAR without its .idx.
DamageFiles(s, car) ==
    /\ DiskFault(IF car = "ok" THEN "index" ELSE "damage")
    /\ HasRow(s) /\ rows[s].state = "sealed" /\ file[s].car = "ok"
    /\ file' = [file EXCEPT ![s].idx = FALSE, ![s].car = car]
    /\ UNCHANGED aside

\* The volume fails to mount, so the process starts on an empty directory ...
VolumeMissing ==
    /\ DiskFault("mount")
    /\ OnDisk # {} /\ aside = [s \in Seqs |-> NoFile]
    /\ aside' = file /\ file' = [s \in Seqs |-> NoFile]

\* ... and is back at a later start, hiding what was written meanwhile.
VolumeBack ==
    /\ DiskFault("mount")
    /\ aside # [s \in Seqs |-> NoFile]
    /\ file' = aside /\ aside' = [s \in Seqs |-> NoFile]

-----------------------------------------------------------------------------

Write == \/ \E r \in Roots : \E bs \in SUBSET Tree[r] : AppendBatch(r, bs)
         \/ CommitRoot
         \/ CommitFails

Ship == \/ \E s \in Seqs : TakeQueued(s) \/ SweepNext(s)
        \/ StartSweep \/ SweepClosed
        \/ FlushSeal \/ FlushTrivial \/ FlushLocate \/ FlushInclude \/ FlushStamp
        \/ \E indexed \in BOOLEAN : FlushSubmit(indexed)
        \/ FlushRetry \/ FlushGivesUp
        \/ \E gone \in SUBSET Seqs : RetireFiles(gone) \/ RetireRows(gone)

Recover == \/ OpenLog \/ ScanDone \/ SealDone
           \/ \E s \in Seqs : \/ RecoverRetired(s) \/ RecoverSealedRow(s) \/ RecoverSetAside(s)
                              \/ RecoverFromIdx(s) \/ RecoverRefuses(s)
                              \/ ForceSeal(s) \/ PruneRow(s)
           \/ \E s \in Seqs : \E kept \in SUBSET file[s].blocks : RecoverOpen(s, kept)
           \/ \E s \in Seqs : \E bs \in SUBSET Journaled(s) : RebuildAppend(s, bs)
           \/ RebuildMove \/ RebuildSeal \/ RebuildDone \/ RecoverDone

Delete == \/ EmptyRoot \/ QuiesceDone \/ ListShipped \/ DeleteSpace \/ DropBucket \/ RemoveBucketLog
          \/ DeleteFails
          \/ \E how \in SealOutcomes : Quiesce(how)
          \/ \E s \in Seqs : ReleaseRetired(s) \/ ReleaseShipped(s)

Fault == \/ Crash
         \/ \E r \in Roots : \E part \in SUBSET Tree[r], ops \in SUBSET {r}, hasRow \in BOOLEAN :
                TornAppend(r, part, ops, hasRow)
         \/ \E S \in SUBSET Seqs : LoseFiles(S)
         \/ \E s \in Seqs : \E car \in {"ok", "damaged"} : DamageFiles(s, car)
         \/ VolumeMissing \/ VolumeBack

Next == \/ Write
        \/ \E how \in SealOutcomes : SealOpen(how)
        \/ Ship \/ Recover \/ Delete \/ Fault

Spec == Init /\ [][Next]_vars

(***************************************************************************)
(* The seal ticker and the flush goroutine run for as long as the process  *)
(* does (weak fairness).  An attempt may fail any number of times, but not *)
(* for ever: each step of a ship that keeps being tried succeeds once      *)
(* Postgres and Forge answer again (strong fairness).                      *)
(***************************************************************************)
Fairness ==
    /\ WF_vars(\E how \in SealOutcomes : SealOpen(how))
    /\ WF_vars(StartSweep)
    /\ WF_vars(\E s \in Seqs : TakeQueued(s) \/ SweepNext(s))
    /\ SF_vars(FlushSeal)
    /\ SF_vars(FlushTrivial \/ \E indexed \in BOOLEAN : FlushSubmit(indexed))
    /\ SF_vars(FlushLocate)
    /\ SF_vars(FlushInclude)
    /\ SF_vars(FlushStamp)
    /\ WF_vars(\E gone \in SUBSET Seqs : RetireFiles(gone) \/ RetireRows(gone))

LiveSpec == Spec /\ Fairness

-----------------------------------------------------------------------------
(* Properties.                                                             *)

(***************************************************************************)
(* Every block the committed root reaches is journaled in Postgres or      *)
(* resolves on Forge, whatever the local disk holds: the commit journals   *)
(* its blocks, and a ship drops journal rows only for blocks it made       *)
(* resolvable (CommitRoot, MarkSegmentShipped, rebuildFromJournal).        *)
(***************************************************************************)
DurableCatalog ==
    \A b \in Tree[root] : (\E s \in Seqs : <<s, b>> \in journal) \/ Resolvable(b)

\* The local segments a read of b consults: open first, then newest first.
Holders(b) == {s \in sealed \cup {open} : s # NoSeq /\ b \in file[s].blocks}

\* PlaneLog.Get, then the network tier: an error from a segment ends the read.
Served(b) == IF Holders(b) = {} THEN Resolvable(b)
             ELSE (CHOOSE s \in Holders(b) : \A t \in Holders(b) : t <= s) \notin wedged

(***************************************************************************)
(* While the log runs, every block of the committed root is readable: a    *)
(* local segment serves it, or it is on Forge (Segment.get, retention).    *)
(***************************************************************************)
ReadableCatalog == log = "running" => \A b \in Tree[root] : Served(b)

(***************************************************************************)
(* No journal row outlives its segment's ship (journalBlocks,              *)
(* MarkSegmentShipped): the journal never holds rows of a shipped segment, *)
(* and while the log runs every row belongs to a segment that holds its    *)
(* block and is still going to ship.                                       *)
(***************************************************************************)
JournalAwaitsShip ==
    \A e \in journal :
        /\ ~rows[e[1]].shipped
        /\ log = "running" => /\ e[1] \in sealed \cup {open}
                              /\ e[1] \notin shipped
                              /\ e[2] \in file[e[1]].blocks

(***************************************************************************)
(* Every CAR the bucket's space holds has a sealed row recording its       *)
(* digest, so DeleteBucket can find it (flushOne, PruneRow, retention).    *)
(***************************************************************************)
CarsRecorded ==
    \A d \in forge : \E s \in Seqs : rows[s].state = "sealed" /\ rows[s].sha = d

(***************************************************************************)
(* When DeleteBucket asks the tenant service to delete the space, every    *)
(* CAR the log registered has been released (QuiesceBucketLog,             *)
(* ReleaseRetiredSegments, ShippedSegmentDigests).                         *)
(***************************************************************************)
CarsReleased == Releasing => forge = {}

(***************************************************************************)
(* forge_root_cid moves only to the root the bucket has committed, or back *)
(* to the empty tree with it (the orphan-root guard of MarkSegmentShipped) *)
(***************************************************************************)
ForgeRootFollowsRoot == [][forgeRoot' # forgeRoot => forgeRoot' = root']_vars

(***************************************************************************)
(* Every journaled block leaves the journal: its segment seals and ships,  *)
(* also when the flush queue turned it away and attempts failed            *)
(* (sealOpenIfDue, enqueueFlush, retryUnshipped, flushOne).                *)
(***************************************************************************)
JournalDrains ==
    \A s \in Seqs, b \in Blocks : <<s, b>> \in journal ~> <<s, b>> \notin journal
=============================================================================
