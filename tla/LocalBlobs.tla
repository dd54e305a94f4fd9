----------------------------- MODULE LocalBlobs -----------------------------
(***************************************************************************)
(* The node's two blob directories, the spool and the cache, and what      *)
(* bounds them (blockstore/blobdir.go, spool.go, blobcache.go, recency.go; *)
(* s3frontend/localblobs.go, localblob_sweep.go).  Writes, cache moves,    *)
(* releases, reads and the local blob sweeper go on side by side; each     *)
(* directory keeps a byte count of its files by itself, which an hourly    *)
(* scan corrects when something outside the process changed them.          *)
(*                                                                         *)
(* One space.  A digest's intent row is reduced to whether the provider    *)
(* holds the blob ("held") and whether a release has taken that away       *)
(* ("released"); updated_at is a clock of its own.  Whether a row is inside *)
(* cache_min_residency is open whenever the sweeper asks; recent holds the  *)
(* blobs whose last read is remembered and inside cache_read_retention.     *)
(* Leftover temp files are in no count and are left out.                    *)
(***************************************************************************)
EXTENDS Integers, Sequences, FiniteSets, FiniteSetsExt

CONSTANTS Digests,      \* what bodies may hold
          Size,         \* Size[d]: the bytes of d's file
          Writers,      \* writes under way
          Kept,         \* a blob cached before the node started
          Asked,        \* the blobs reads ask for
          Budget,       \* local_blob_max_bytes
          Batch,        \* rows a pass reads at a time
          MaxClock,     \* bound: changes of rows
          MaxFaults     \* bound: time limits, changes from outside, restarts

ASSUME SizeAssumption == Size \in [Digests -> Nat \ {0}]
ASSUME FiniteAssumption == IsFiniteSet(Digests) /\ IsFiniteSet(Writers)
ASSUME KeptAssumption == Kept \in Digests /\ Asked \subseteq Digests
ASSUME BoundsAssumption == {Budget, Batch, MaxFaults} \subseteq Nat /\ MaxClock \in Nat \ {0}

VARIABLES
  spool, cache,  \* the digests with a file in each directory
  bytes,         \* the byte counts: of the spool, the cache, and writes in flight
  row,           \* the intent rows
  clock,         \* the registry's clock
  recent,        \* the blobs whose last read counts
  writer,        \* the writes
  reader,        \* a read of local blobs
  remover,       \* removeLocal as a release and as the sweeper run it
  sweep,         \* the local blob sweeper
  scan,          \* the scan of its orphan pass
  strays,        \* files a write left without recording its intent
  doubt,         \* directories something outside has changed since they were measured
  faults         \* the faults so far

dirs == <<spool, cache, bytes, scan>>
rows == <<row, clock>>
vars == <<dirs, rows, recent, writer, reader, remover, sweep, strays, doubt, faults>>

Row   == [state : {"none", "spooled", "held", "released"}, at : 0..MaxClock, evicted : BOOLEAN]
NoRow == [state |-> "none", at |-> 0, evicted |-> FALSE]

Free  == [at |-> "idle", d |-> "none"]
Rest  == [at |-> "rest", stage |-> "both", page |-> << >>, cursor |-> 0, skipped |-> FALSE, orphans |-> {}]
NoScan == [dir |-> "none", todo |-> {}, total |-> 0, touched |-> FALSE, outside |-> FALSE]

Total(f, S) == MapThenSumSet(LAMBDA x : f[x], S)
Sum(files)  == Total(Size, files)

Held(d) == \E w \in Writers : writer[w].d = d /\ writer[w].at \in {"spooled", "queued"}

(* localUsage: the sum the budget bounds. *)
Usage == bytes.spool + bytes.cache + bytes.flight

(* Whether a removal holds the cache directory, shared. *)
Shared == \E a \in {"release", "sweep"} : remover[a].at = "unlink"

Init ==
  /\ spool = {} /\ cache = {Kept} /\ bytes = [spool |-> 0, cache |-> Size[Kept], flight |-> 0]
  /\ row = [d \in Digests |-> IF d = Kept THEN [state |-> "held", at |-> 1, evicted |-> FALSE] ELSE NoRow]
  /\ clock = 1 /\ recent = {}
  /\ writer = [w \in Writers |-> Free]
  /\ reader = Free
  /\ remover = [a \in {"release", "sweep"} |-> Free]
  /\ sweep = Rest /\ scan = NoScan
  /\ strays = {} /\ doubt = {}
  /\ faults = 0

(* The files of the directories change.  A read in the middle of its lookups *)
(* that loses a copy to a removal is followed no further: what it finds then *)
(* is anyone's guess.  A scan of a directory the process changes learns so.  *)
Lost(newSpool, newCache) == (cache \ newCache) \cup (spool \ (newSpool \cup newCache))

Files(newSpool, newCache) ==
  /\ spool' = newSpool /\ cache' = newCache
  /\ reader' = IF reader.at \in {"spool", "again"} /\ reader.d \in Lost(newSpool, newCache) THEN Free ELSE reader

Touch(changed) == scan' = [scan EXCEPT !.touched = @ \/ scan.dir \in changed]

-----------------------------------------------------------------------------
(* Writes. *)

Go(w, from, to) ==
  /\ writer[w].at = from
  /\ writer' = [writer EXCEPT ![w].at = to]

(* Spool.writeBlob: each byte counts as in flight... *)
WriteBlob(w, d) ==
  /\ writer[w].at = "idle" /\ clock < MaxClock
  /\ writer' = [writer EXCEPT ![w] = [at |-> "temp", d |-> d]]
  /\ bytes' = [bytes EXCEPT !.flight = @ + Size[d]]
  /\ UNCHANGED <<spool, cache, scan, rows, recent, reader, remover, sweep, strays, doubt, faults>>

(* ...and stops being however the write ends. *)
WriteFails(w) ==
  /\ writer[w].at = "temp"
  /\ writer' = [writer EXCEPT ![w] = Free]
  /\ bytes' = [bytes EXCEPT !.flight = @ - Size[writer[w].d]]
  /\ UNCHANGED <<spool, cache, scan, rows, recent, reader, remover, sweep, strays, doubt, faults>>

(* Spool.commit: the file gets its name, held, and is counted unless an *)
(* identical one sat there.                                             *)
Commit(w) ==
  LET d == writer[w].d IN
  /\ Go(w, "temp", "spooled")
  /\ Files(spool \cup {d}, cache)
  /\ bytes' = [bytes EXCEPT !.spool = @ + (IF d \in spool THEN 0 ELSE Size[d]), !.flight = @ - Size[d]]
  /\ Touch({"spool"})
  /\ UNCHANGED <<rows, recent, remover, sweep, strays, doubt, faults>>

SetRow(d, r) ==
  /\ clock < MaxClock
  /\ clock' = clock + 1
  /\ row' = [row EXCEPT ![d] = [r EXCEPT !.at = clock + 1]]

(* The upsert clears the evicted mark: the file is back. *)
PutIntent(w) ==
  /\ Go(w, "spooled", "queued")
  /\ SetRow(writer[w].d, [state |-> "spooled", at |-> 0, evicted |-> FALSE])
  /\ strays' = strays \ {writer[w].d}
  /\ UNCHANGED <<dirs, recent, reader, remover, sweep, doubt, faults>>

(* The provider has the blob and its row says so; the hold ends. *)
Accept(w) ==
  LET d == writer[w].d IN
  /\ Go(w, "queued", "cache")
  /\ row[d].state # "none"
  /\ SetRow(d, [row[d] EXCEPT !.state = "held"])
  /\ UNCHANGED <<dirs, recent, reader, remover, sweep, strays, doubt, faults>>

(* BlobCache.Take, with both directories: the file moves unless another *)
(* write holds it, and replaces a copy already there.                   *)
Take(w) ==
  LET d == writer[w].d IN
  /\ writer[w].at = "cache" /\ ~Shared
  /\ writer' = [writer EXCEPT ![w] = Free]
  /\ IF d \in spool /\ ~Held(d)
     THEN /\ Files(spool \ {d}, cache \cup {d})
          /\ bytes' = [bytes EXCEPT !.spool = @ - Size[d], !.cache = @ + (IF d \in cache THEN 0 ELSE Size[d])]
          /\ Touch({"spool", "cache"})
     ELSE UNCHANGED <<dirs, reader>>
  /\ UNCHANGED <<rows, recent, remover, sweep, strays, doubt, faults>>

(* The write fails; its file and its row stay. *)
Fail(w) ==
  /\ writer[w].at \in {"spooled", "queued", "cache"}
  /\ writer' = [writer EXCEPT ![w] = Free]
  /\ strays' = IF writer[w].at = "spooled" THEN strays \cup {writer[w].d} ELSE strays
  /\ UNCHANGED <<dirs, rows, recent, reader, remover, sweep, doubt, faults>>

-----------------------------------------------------------------------------
(* removeLocal. *)

(* Spool.Remove, with the directory: a held blob stays... *)
RemoveSpool(a) ==
  LET d == remover[a].d IN
  /\ remover[a].at = "spool"
  /\ remover' = [remover EXCEPT ![a].at = IF Held(d) THEN "held" ELSE "stat"]
  /\ IF d \in spool /\ ~Held(d)
     THEN /\ Files(spool \ {d}, cache)
          /\ bytes' = [bytes EXCEPT !.spool = @ - Size[d]]
          /\ Touch({"spool"})
     ELSE UNCHANGED <<dirs, reader>>
  /\ UNCHANGED <<rows, recent, writer, sweep, strays, doubt, faults>>

(* A file that cannot be removed is left, and the caller told. *)
RemoveFails(a) ==
  /\ remover[a].at = "spool" /\ ~Held(remover[a].d) /\ faults < MaxFaults
  /\ remover' = [remover EXCEPT ![a].at = "failed"]
  /\ faults' = faults + 1
  /\ UNCHANGED <<dirs, rows, recent, writer, reader, sweep, strays, doubt>>

(* ...then BlobCache.Remove, which shares the directory with other removals: *)
(* it looks, unlinks what it saw if that is still there, and counts it; a    *)
(* concurrent removal that was first has counted it.                         *)
StatCache(a) ==
  /\ remover[a].at = "stat"
  /\ remover' = [remover EXCEPT ![a].at = IF remover[a].d \in cache THEN "unlink" ELSE "gone"]
  /\ UNCHANGED <<dirs, rows, recent, writer, reader, sweep, strays, doubt, faults>>

(* Mutant: what the other removal unlinked is counted again. *)
UnlinkUnasked(a) ==
  LET d == remover[a].d IN
  /\ remover[a].at = "unlink"
  /\ remover' = [remover EXCEPT ![a].at = "gone"]
  /\ Files(spool, cache \ {d})
  /\ bytes' = [bytes EXCEPT !.cache = @ - Size[d]]
  /\ Touch({"cache"})
  /\ recent' = recent \ {d}
  /\ UNCHANGED <<rows, writer, sweep, strays, doubt, faults>>

UnlinkCache(a) ==
  LET d == remover[a].d IN
  /\ remover[a].at = "unlink"
  /\ remover' = [remover EXCEPT ![a].at = "gone"]
  /\ IF d \in cache
     THEN /\ Files(spool, cache \ {d})
          /\ bytes' = [bytes EXCEPT !.cache = @ - Size[d]]
          /\ Touch({"cache"})
     ELSE UNCHANGED <<dirs, reader>>
  /\ recent' = recent \ {d}
  /\ UNCHANGED <<rows, writer, sweep, strays, doubt, faults>>

Begin(a, d) == remover' = [remover EXCEPT ![a] = [at |-> "spool", d |-> d]]
End(a)      == remover' = [remover EXCEPT ![a] = Free]

(* executeRelease: the location is gone and the local copy is next, unless *)
(* a write of the bytes needs it.                                          *)
Release(d) ==
  /\ remover["release"] = Free
  /\ row[d].state \in {"held", "released"} /\ ~Held(d)
  /\ row' = [row EXCEPT ![d].state = "released"]
  /\ Begin("release", d)
  /\ UNCHANGED <<dirs, clock, recent, writer, reader, sweep, strays, doubt, faults>>

(* DeleteIntentAndRelease, once the copy is gone. *)
DeleteIntent ==
  /\ remover["release"].at = "gone"
  /\ row' = [row EXCEPT ![remover["release"].d] = NoRow]
  /\ End("release")
  /\ UNCHANGED <<dirs, clock, recent, writer, reader, sweep, strays, doubt, faults>>

(* A write took the file, and it and the row are that write's; or the *)
(* release is retried.                                                *)
LeaveToWrite ==
  /\ remover["release"].at \in {"held", "failed"}
  /\ End("release")
  /\ UNCHANGED <<dirs, rows, recent, writer, reader, sweep, strays, doubt, faults>>
-----------------------------------------------------------------------------
(* The local blob sweeper: evictToBudget. *)

(* The low watermark for the budget pass, the budget for a forced stage. *)
Target == IF sweep.stage = "both" THEN (Budget * 90) \div 100 ELSE Budget

Evictable == {d \in Digests : row[d].state = "held" /\ ~row[d].evicted}

(* ListEvictable: the rows after the cursor, by their last change, a limited *)
(* number of them.                                                           *)
After(cursor) == {d \in Evictable : row[d].at > cursor}
Entry(d)      == [d |-> d, at |-> row[d].at]
Pages(S) ==
  {page \in UNION {[1..n -> {Entry(d) : d \in S}] : n \in 0..Batch} :
     /\ \A i, j \in DOMAIN page : i < j => page[i].at < page[j].at
     /\ \A d \in S : \/ \E i \in DOMAIN page : page[i].d = d
                     \/ Len(page) = Batch /\ \A i \in DOMAIN page : page[i].at < row[d].at}

(* Mutant: a pass that met the residency window leaves it at that. *)
StoppedShort(why, skipped) ==
  sweep' = IF Usage > Budget /\ why = "exhausted" /\ skipped THEN [Rest EXCEPT !.at = "list", !.stage = "none"]
           ELSE [Rest EXCEPT !.at = "orphans"]

(* How a stage that stopped goes on: over budget still, a budget pass that  *)
(* met the residency window or passed rows over is followed by the forced   *)
(* stages; one that ran out of rows otherwise has nothing left to evict.    *)
Stage(stage) == [Rest EXCEPT !.at = "list", !.stage = stage]
Orphans      == [Rest EXCEPT !.at = "orphans"]

Stopped(why, skipped) ==
  sweep' = CASE Usage <= Budget                         -> Orphans
             [] sweep.stage = "both" /\ why = "residency" -> Stage("read")
             [] sweep.stage = "both" /\ why = "exhausted" /\ skipped -> Stage("none")
             [] sweep.stage = "read" /\ why = "exhausted" -> Stage("none")
             [] OTHER                                    -> Orphans

(* SweepLocalBlobs: over budget, the budget pass; then the orphan pass. *)
SweepBegin ==
  /\ sweep = Rest
  /\ sweep' = IF Usage > Budget THEN Stage("both") ELSE Orphans
  /\ UNCHANGED <<dirs, rows, recent, writer, reader, remover, strays, doubt, faults>>

List ==
  /\ sweep.at = "list"
  /\ \E page \in Pages(After(sweep.cursor)) :
        IF Usage <= Target THEN Stopped("watermark", sweep.skipped)
        ELSE IF page = << >> THEN Stopped("exhausted", sweep.skipped)
        ELSE sweep' = [sweep EXCEPT !.at = "row", !.page = page]
  /\ UNCHANGED <<dirs, rows, recent, writer, reader, remover, strays, doubt, faults>>

(* A pass runs out of time or a query of it fails, before a page or when the *)
(* mark is due; so may the orphan pass.                                       *)
TimeLimit ==
  /\ faults < MaxFaults
  /\ faults' = faults + 1
  /\ \/ /\ sweep.at = "list" \/ (sweep.at = "evict" /\ remover["sweep"].at = "gone")
        /\ sweep' = Orphans /\ End("sweep") /\ UNCHANGED scan
     \/ /\ sweep.at \in {"scan", "check"}
        /\ sweep' = Rest /\ scan' = NoScan /\ UNCHANGED remover
  /\ UNCHANGED <<spool, cache, bytes, rows, recent, writer, reader, strays, doubt>>

Listed == Head(sweep.page)

(* The pass moves past the row it is at. *)
PastRow(skipped) ==
  sweep' = [sweep EXCEPT !.at = IF Len(sweep.page) = 1 THEN "list" ELSE "row",
                         !.page = Tail(@), !.cursor = Listed.at, !.skipped = @ \/ skipped]

(* Each row of the page, read when it was listed: the windows as the stage *)
(* honours them, then the removal.                                         *)
Consider ==
  /\ sweep.at = "row"
  /\ LET d == Listed.d
         read == sweep.stage # "none" /\ d \in recent
     IN \/ /\ Usage <= Target
           /\ Stopped("watermark", sweep.skipped) /\ UNCHANGED remover
        \/ /\ Usage > Target /\ sweep.stage = "both"
           /\ Stopped("residency", sweep.skipped) /\ UNCHANGED remover
        \/ /\ Usage > Target /\ read
           /\ PastRow(TRUE) /\ UNCHANGED remover
        \/ /\ Usage > Target /\ ~read
           /\ Begin("sweep", d)
           /\ sweep' = [sweep EXCEPT !.at = "evict"]
  /\ UNCHANGED <<dirs, rows, recent, writer, reader, strays, doubt, faults>>

(* A write took the file since the listing, or it could not be removed. *)
EvictHeld ==
  /\ sweep.at = "evict" /\ remover["sweep"].at \in {"held", "failed"}
  /\ PastRow(remover["sweep"].at = "held") /\ End("sweep")
  /\ UNCHANGED <<dirs, rows, recent, writer, reader, strays, doubt, faults>>

(* Mutant: the row is marked as it is by now. *)
MarkAnyway ==
  /\ sweep.at = "evict" /\ remover["sweep"].at = "gone"
  /\ row' = [row EXCEPT ![Listed.d].evicted = row[Listed.d].state # "none"]
  /\ PastRow(FALSE) /\ End("sweep")
  /\ UNCHANGED <<dirs, clock, recent, writer, reader, strays, doubt, faults>>

(* MarkEvicted, as of the listing. *)
MarkEvicted ==
  /\ sweep.at = "evict" /\ remover["sweep"].at = "gone"
  /\ row' = [row EXCEPT ![Listed.d].evicted =
                 @ \/ (row[Listed.d].state # "none" /\ row[Listed.d].at <= Listed.at)]
  /\ PastRow(FALSE) /\ End("sweep")
  /\ UNCHANGED <<dirs, clock, recent, writer, reader, strays, doubt, faults>>

-----------------------------------------------------------------------------
(* The orphan pass: a scan of each directory that also measures it. *)

Dir(name) == IF name = "spool" THEN spool ELSE cache

Measure(name) == scan' = [NoScan EXCEPT !.dir = name, !.todo = Dir(name)]

(* Hourly: many sweeps go by without it. *)
OrphansNotDue ==
  /\ sweep.at = "orphans"
  /\ sweep' = Rest
  /\ UNCHANGED <<dirs, rows, recent, writer, reader, remover, strays, doubt, faults>>

OrphansBegin ==
  /\ sweep.at = "orphans"
  /\ sweep' = [sweep EXCEPT !.at = "scan"]
  /\ Measure("spool")
  /\ UNCHANGED <<spool, cache, bytes, rows, recent, writer, reader, remover, strays, doubt, faults>>

(* walk, visit: the listed files one by one, without the directory's lock; *)
(* one that is gone is skipped.  An old spool file is kept to be checked:  *)
(* no write is between its spooling and its intent that long.              *)
Visit(d) ==
  /\ sweep.at = "scan" /\ d \in scan.todo
  /\ scan' = [scan EXCEPT !.todo = @ \ {d},
                          !.total = @ + (IF d \in Dir(scan.dir) THEN Size[d] ELSE 0)]
  /\ \E old \in BOOLEAN :
        /\ old => scan.dir = "spool" /\ d \in spool /\ ~Held(d)
        /\ sweep' = IF old THEN [sweep EXCEPT !.orphans = @ \cup {d}] ELSE sweep
  /\ UNCHANGED <<spool, cache, bytes, rows, recent, writer, reader, remover, strays, doubt, faults>>

(* Mutant: the scan's total is taken whatever happened meanwhile. *)
CorrectAnyway ==
  /\ sweep.at = "scan" /\ scan.todo = {} /\ ~(scan.dir = "cache" /\ Shared)
  /\ bytes' = [bytes EXCEPT ![scan.dir] = scan.total]
  /\ doubt' = IF scan.outside THEN doubt ELSE doubt \ {scan.dir}
  /\ scan' = NoScan
  /\ sweep' = IF scan.dir = "spool" THEN [sweep EXCEPT !.at = "check"] ELSE Rest
  /\ UNCHANGED <<spool, cache, rows, recent, writer, reader, remover, strays, faults>>

(* ScanAndCorrect, with the directory: the total is exact, and the count *)
(* takes it, if nothing in the process changed the files meanwhile.      *)
Correct ==
  /\ sweep.at = "scan" /\ scan.todo = {} /\ ~(scan.dir = "cache" /\ Shared)
  /\ bytes' = IF scan.touched THEN bytes ELSE [bytes EXCEPT ![scan.dir] = scan.total]
  /\ doubt' = IF scan.touched \/ scan.outside THEN doubt ELSE doubt \ {scan.dir}
  /\ scan' = NoScan
  /\ sweep' = IF scan.dir = "spool" THEN [sweep EXCEPT !.at = "check"] ELSE Rest
  /\ UNCHANGED <<spool, cache, rows, recent, writer, reader, remover, strays, faults>>

(* checkBlobs: MissingIntents, then each file it names. *)
Check ==
  /\ sweep.at = "check"
  /\ sweep' = [sweep EXCEPT !.at = "purge", !.orphans = {d \in @ : row[d].state = "none"}]
  /\ UNCHANGED <<dirs, rows, recent, writer, reader, remover, strays, doubt, faults>>

Purge(d) ==
  /\ sweep.at = "purge" /\ d \in sweep.orphans /\ remover["sweep"] = Free
  /\ Begin("sweep", d)
  /\ sweep' = [sweep EXCEPT !.orphans = @ \ {d}]
  /\ UNCHANGED <<dirs, rows, recent, writer, reader, strays, doubt, faults>>

Purged ==
  /\ sweep.at = "purge" /\ remover["sweep"].at \in {"gone", "held", "failed"}
  /\ End("sweep")
  /\ UNCHANGED <<dirs, rows, recent, writer, reader, sweep, strays, doubt, faults>>

(* The spool is done; the cache is scanned for its count alone. *)
ScanCache ==
  /\ sweep.at = "purge" /\ sweep.orphans = {} /\ remover["sweep"] = Free
  /\ sweep' = [sweep EXCEPT !.at = "scan"]
  /\ Measure("cache")
  /\ UNCHANGED <<spool, cache, bytes, rows, recent, writer, reader, remover, strays, doubt, faults>>

-----------------------------------------------------------------------------
(* Reads of local blobs: localLookup. *)

(* The cache, which records the read; a read of a blob that is nowhere *)
(* misses without further ado...                                       *)
LookCache(d) ==
  /\ reader.at = "idle" /\ d \in spool \cup cache
  /\ IF d \in cache THEN recent' = recent \cup {d} /\ UNCHANGED reader
     ELSE reader' = [at |-> "spool", d |-> d] /\ UNCHANGED recent
  /\ UNCHANGED <<dirs, rows, writer, remover, sweep, strays, doubt, faults>>

(* Mutant: the spool is the last place looked in. *)
LookSpoolLast ==
  /\ reader.at = "spool"
  /\ IF reader.d \in spool THEN reader' = Free ELSE reader' = [reader EXCEPT !.at = "miss"]
  /\ UNCHANGED <<dirs, rows, recent, writer, remover, sweep, strays, doubt, faults>>

(* ...the spool... *)
LookSpool ==
  /\ reader.at = "spool"
  /\ IF reader.d \in spool THEN reader' = Free ELSE reader' = [reader EXCEPT !.at = "again"]
  /\ UNCHANGED <<dirs, rows, recent, writer, remover, sweep, strays, doubt, faults>>

(* ...and the cache once more. *)
LookAgain ==
  /\ reader.at = "again"
  /\ IF reader.d \in cache THEN recent' = recent \cup {reader.d} /\ reader' = Free
     ELSE reader' = [reader EXCEPT !.at = "miss"] /\ UNCHANGED recent
  /\ UNCHANGED <<dirs, rows, writer, remover, sweep, strays, doubt, faults>>

-----------------------------------------------------------------------------
(* Time, the world outside, and restarts. *)

(* A remembered read leaves the retention window, or the bounded map needs *)
(* its place.                                                              *)
ReadAges(d) ==
  /\ d \in recent
  /\ recent' = recent \ {d}
  /\ UNCHANGED <<dirs, rows, writer, reader, remover, sweep, strays, doubt, faults>>

(* An operator removes a body no write holds from the spool, the way stalled *)
(* uploads are reclaimed.                                                     *)
Outside(d) ==
  /\ faults < MaxFaults /\ d \in spool /\ ~Held(d)
  /\ faults' = faults + 1
  /\ Files(spool \ {d}, cache)
  /\ doubt' = doubt \cup {"spool"}
  /\ scan' = [scan EXCEPT !.outside = @ \/ scan.dir = "spool"]
  /\ UNCHANGED <<bytes, rows, recent, writer, remover, sweep, strays>>

(* recoverDir: the directories are measured anew before anything runs. *)
Restart ==
  /\ faults < MaxFaults
  /\ faults' = faults + 1
  /\ strays' = strays \cup {writer[w].d : w \in {v \in Writers : writer[v].at = "spooled"}}
  /\ bytes' = [spool |-> Sum(spool), cache |-> Sum(cache), flight |-> 0]
  /\ doubt' = {} /\ scan' = NoScan
  /\ recent' = {} /\ reader' = Free /\ sweep' = Rest
  /\ writer' = [w \in Writers |-> Free]
  /\ remover' = [a \in {"release", "sweep"} |-> Free]
  /\ UNCHANGED <<spool, cache, rows>>

-----------------------------------------------------------------------------
Write ==
  \E w \in Writers :
     \/ \E d \in Digests : WriteBlob(w, d)
     \/ WriteFails(w) \/ Commit(w) \/ PutIntent(w) \/ Accept(w) \/ Take(w) \/ Fail(w)

Remove == \E a \in {"release", "sweep"} : RemoveSpool(a) \/ RemoveFails(a) \/ StatCache(a) \/ UnlinkCache(a)

ReleaseStep == DeleteIntent \/ LeaveToWrite \/ \E d \in Digests : Release(d)

Evict == SweepBegin \/ List \/ Consider \/ EvictHeld \/ MarkEvicted

OrphanPass ==
  \/ OrphansBegin \/ Correct \/ Check \/ Purged \/ ScanCache
  \/ \E d \in Digests : Visit(d) \/ Purge(d)

Read == LookSpool \/ LookAgain \/ \E d \in Asked : LookCache(d)

Environment ==
  \/ TimeLimit \/ OrphansNotDue \/ Restart
  \/ \E d \in Digests : ReadAges(d) \/ Outside(d)

Next == Write \/ Remove \/ ReleaseStep \/ Evict \/ OrphanPass \/ Read \/ Environment

(* The sweeper runs every minute for as long as the node does, and a removal *)
(* that began ends; writes, releases and reads come as they come.            *)
Removing(a) == RemoveSpool(a) \/ StatCache(a) \/ UnlinkCache(a)

Fairness ==
  /\ WF_vars(Evict \/ OrphanPass \/ OrphansNotDue \/ Removing("sweep"))
  /\ WF_vars(Removing("release"))

Spec == Init /\ [][Next]_vars /\ Fairness

-----------------------------------------------------------------------------
(* Every variable has its type; in particular no byte count ever falls     *)
(* below zero, which would hide that much of the budget (usage.Add in      *)
(* blobdir.go Remove, spool.go commit and blobcache.go Take).              *)
TypeOK ==
  /\ spool \in SUBSET Digests /\ cache \in SUBSET Digests /\ strays \in SUBSET Digests
  /\ bytes \in [spool : Nat, cache : Nat, flight : Nat]
  /\ row \in [Digests -> Row] /\ clock \in 0..MaxClock /\ recent \in SUBSET Digests
  /\ \A w \in Writers : writer[w].at \in {"idle", "temp", "spooled", "queued", "cache"}
  /\ reader.at \in {"idle", "spool", "again", "miss"}
  /\ \A a \in {"release", "sweep"} : remover[a].at \in {"idle", "spool", "stat", "unlink", "held", "failed", "gone"}
  /\ sweep.at \in {"rest", "list", "row", "evict", "orphans", "scan", "check", "purge"}
  /\ sweep.orphans \in SUBSET Digests /\ sweep.cursor \in 0..MaxClock
  /\ scan.dir \in {"none", "spool", "cache"} /\ scan.total \in Nat
  /\ doubt \in SUBSET {"spool", "cache"}

(* The bytes each write has in flight. *)
InFlight == [w \in Writers |-> IF writer[w].at = "temp" THEN Size[writer[w].d] ELSE 0]

(* Each directory's byte count is the size of its files, whatever writes,  *)
(* moves, removals and scans run side by side, unless something outside    *)
(* changed the files since they were last measured (blobdir.go usage,      *)
(* ScanAndCorrect; "the bytes come off one count, once").                  *)
CountExact ==
  /\ \A name \in {"spool", "cache"} : name \in doubt \/ bytes[name] = Sum(Dir(name))
  /\ bytes.flight = Total(InFlight, Writers)

(* A row marked evicted has no local file, but for one a write has spooled *)
(* and not recorded: a file under an evicted mark is one the sweeper never *)
(* lists again (localblob_sweep.go evictToBudget, MarkEvicted's asOf).     *)
EvictedGone ==
  \A d \in Digests :
     row[d].evicted /\ d \in spool \cup cache
        => d \in strays \/ \E w \in Writers : writer[w].d = d /\ writer[w].at = "spooled"

(* A read of a blob that is in a directory, and that no removal takes from   *)
(* it, finds it: a move to the cache in the middle of the lookups never      *)
(* hides it (blobcache.go localLookup).                                      *)
LookupFinds == reader.at # "miss"

(* Over budget, the sweeper gets the directories back under it, or to where *)
(* no file whose blob the provider holds is left to evict: the retention    *)
(* windows, rows passed over and passes cut short only delay it             *)
(* (localblob_sweep.go SweepLocalBlobs, evictToBudget, forcedPass).         *)
BudgetKept ==
  Usage > Budget ~> \/ Usage <= Budget
                    \/ \A d \in Evictable : d \notin spool \cup cache \/ Held(d)
=============================================================================
