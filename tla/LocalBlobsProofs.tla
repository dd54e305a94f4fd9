--------------------------- MODULE LocalBlobsProofs ---------------------------
(***************************************************************************)
(* Proofs about LocalBlobs: the byte counts are exact, a file under an      *)
(* evicted mark is one some write has yet to record, and a read of a blob   *)
(* nothing removes finds it.  The counts are sums over sets of files: what  *)
(* the proof needs of sums is proved first, by least counterexample among   *)
(* the subsets of a finite set.                                             *)
(***************************************************************************)
EXTENDS LocalBlobs, FiniteSetTheorems, WellFoundedInduction, TLAPS

-----------------------------------------------------------------------------
(* The inductive invariant. *)

WriterSteps  == {"idle", "temp", "spooled", "queued", "cache"}
RemoverSteps == {"idle", "spool", "stat", "unlink", "held", "failed", "gone"}
SweepSteps   == {"rest", "list", "row", "evict", "orphans", "scan", "check", "purge"}
Removers     == {"release", "sweep"}

\* The types of what the files, the rows and the actors are, byte counts apart.
FilesTyped   ==
    /\ spool \subseteq Digests /\ cache \subseteq Digests
    /\ recent \subseteq Digests /\ strays \subseteq Digests
RowsTyped    ==
    /\ row \in [Digests -> Row] /\ clock \in 0..MaxClock
    /\ \A d \in Digests : row[d].at <= clock
WriterTyped  ==
    /\ writer \in [Writers -> [at : WriterSteps, d : Digests \cup {"none"}]]
    /\ \A w \in Writers : writer[w].at # "idle" => writer[w].d \in Digests
RemoverTyped ==
    /\ remover \in [Removers -> [at : RemoverSteps, d : Digests \cup {"none"}]]
    /\ \A a \in Removers : remover[a].at # "idle" => remover[a].d \in Digests
ReaderTyped  == reader \in [at : {"idle", "spool", "again", "miss"}, d : Digests \cup {"none"}]

\* A page holds rows as they were listed.
SweepTyped   ==
    /\ sweep \in [at : SweepSteps, stage : {"both", "read", "none"},
                  page : Seq([d : Digests, at : 0..MaxClock]), cursor : 0..MaxClock,
                  skipped : BOOLEAN, orphans : SUBSET Digests]
    /\ \A i \in 1..Len(sweep.page) : sweep.page[i].at <= clock
    /\ sweep.at \in {"row", "evict"} => sweep.page # << >>

Typed == /\ FilesTyped /\ RowsTyped /\ WriterTyped /\ RemoverTyped /\ ReaderTyped /\ SweepTyped

\* A read that has seen no copy in the cache has one to find still.
ReadInv ==
    /\ reader.at = "spool" => reader.d \in spool \cup cache
    /\ reader.at = "again" => reader.d \in cache
    /\ LookupFinds

\* A file of d is one no mark of a listing as of asOf may cover: a write has
\* recorded it since, or is yet to.
Unmarked(d, asOf) ==
    \/ row[d].state = "none" \/ row[d].at > asOf
    \/ d \in strays
    \/ \E w \in Writers : writer[w].d = d /\ writer[w].at = "spooled"

\* The eviction of the row a pass is at: what it has been through already has
\* nothing left but files that came since.
EvictInv ==
    sweep.at = "evict" =>
        LET d == remover["sweep"].d
            at == remover["sweep"].at
        IN /\ at # "idle" => d = Listed.d
           /\ at \in {"stat", "unlink"} /\ d \in spool => Unmarked(d, Listed.at)
           /\ at = "gone" /\ d \in spool \cup cache => Unmarked(d, Listed.at)

\* A sum of bytes is enough for the files of S, and exact when it is sure.
Covers(S, n, sure) == n \in Nat /\ Sum(S) <= n /\ (sure => n = Sum(S))

CountTyped ==
    /\ bytes \in [spool : Nat, cache : Nat, flight : Nat]
    /\ scan \in [dir : {"none", "spool", "cache"}, todo : SUBSET Digests, total : Nat,
                 touched : BOOLEAN, outside : BOOLEAN]
    /\ doubt \subseteq {"spool", "cache"}
    /\ sweep.at = "scan" => scan.dir # "none"

\* The counts cover the files, and the writes; in doubt they may be too large.
SpoolCounted  == Covers(spool, bytes.spool, "spool" \notin doubt)
CacheCounted  == Covers(cache, bytes.cache, "cache" \notin doubt)
FlightCounted == bytes.flight = Total(InFlight, Writers)

\* A scan of a directory the process leaves alone has counted what it has not
\* still to visit.
ScanCounted ==
    scan.dir # "none" =>
        /\ scan.outside => scan.dir \in doubt
        /\ ~scan.touched => Covers(Dir(scan.dir), scan.total + Sum(scan.todo \cap Dir(scan.dir)),
                                   ~scan.outside)

Counted == CountTyped /\ SpoolCounted /\ CacheCounted /\ FlightCounted /\ ScanCounted

Inv == Typed /\ ReadInv /\ EvictInv /\ EvictedGone

-----------------------------------------------------------------------------
(* The operators the actions share. *)

LEMMA SeqOf ==
    ASSUME NEW T, NEW n \in Nat, NEW p \in [1..n -> T]
    PROVE  p \in Seq(T) /\ Len(p) = n
OBVIOUS

LEMMA SeqElements ==
    ASSUME NEW T, NEW p \in Seq(T)
    PROVE  /\ \A i \in 1..Len(p) : p[i] \in T
           /\ p # << >> => Len(p) \in Nat \ {0} /\ Head(p) = p[1] /\ Head(p) \in T
           /\ Len(p) \in Nat \ {0} => p # << >>
OBVIOUS

\* A page lists rows of the table, as they are.
LEMMA PageTyped ==
    ASSUME RowsTyped, NEW S \in SUBSET Digests, NEW page \in Pages(S)
    PROVE  /\ page \in Seq([d : Digests, at : 0..MaxClock])
           /\ \A i \in 1..Len(page) : page[i].at <= clock
<1>1. PICK n \in 0..Batch : page \in [1..n -> {Entry(d) : d \in S}]
  BY DEF Pages
<1>2. n \in Nat
  BY <1>1, BoundsAssumption
<1>3. \A i \in 1..n : page[i] \in [d : Digests, at : 0..MaxClock] /\ page[i].at <= clock
  BY <1>1 DEF Entry, RowsTyped, Row
<1>4. page \in [1..n -> [d : Digests, at : 0..MaxClock]]
  BY <1>1, <1>3
<1>5. page \in Seq([d : Digests, at : 0..MaxClock]) /\ Len(page) = n
  BY <1>2, <1>4, SeqOf
<1>6. QED
  BY <1>3, <1>5

\* A stage that stops is followed by another, or by the orphan pass.
LEMMA StoppedTo ==
    ASSUME NEW why, NEW skipped, Stopped(why, skipped)
    PROVE  sweep' \in {Orphans, Stage("read"), Stage("none")}
BY DEF Stopped

\* Where a sweep begins or ends a stage, it has no page.
LEMMA StageTyped ==
    ASSUME sweep' \in {Rest, Orphans, Stage("both"), Stage("read"), Stage("none")}
    PROVE  SweepTyped' /\ sweep'.at \notin {"row", "evict"}
<1> DEFINE Fresh(x, y) == [at |-> x, stage |-> y, page |-> << >>, cursor |-> 0,
                           skipped |-> FALSE, orphans |-> {}]
<1>1. PICK x \in {"rest", "orphans", "list"}, y \in {"both", "read", "none"} : sweep' = Fresh(x, y)
  <2>1. ASSUME NEW r, r = Rest PROVE r = Fresh("rest", "both")
    BY <2>1 DEF Rest
  <2>2. ASSUME NEW r, r = Orphans PROVE r = Fresh("orphans", "both")
    BY <2>2 DEF Rest, Orphans
  <2>3. ASSUME NEW r, NEW y, r = Stage(y) PROVE r = Fresh("list", y)
    BY <2>3 DEF Rest, Stage
  <2> HIDE DEF Fresh
  <2>4. QED
    BY <2>1, <2>2, <2>3
<1>3. 0 \in 0..MaxClock
  BY BoundsAssumption
<1>4. << >> \in Seq([d : Digests, at : 0..MaxClock]) /\ Len(<< >>) = 0
  OBVIOUS
<1>5. QED
  BY <1>1, <1>3, <1>4 DEF SweepTyped, SweepSteps

\* A row that changes, no later than the clock says.
LEMMA RowTyped ==
    ASSUME RowsTyped, NEW d \in Digests, NEW r \in Row,
           row' = [row EXCEPT ![d] = r], clock' \in 0..MaxClock, clock <= clock', r.at <= clock'
    PROVE  RowsTyped'
<1>1. row' \in [Digests -> Row]
  BY DEF RowsTyped
<1>2. ASSUME NEW e \in Digests PROVE row'[e].at <= clock'
  <2>1. row[e].at \in Int /\ clock \in Int /\ clock' \in Int /\ row[e].at <= clock
    BY BoundsAssumption DEF RowsTyped, Row
  <2>2. row'[e] = IF e = d THEN r ELSE row[e]
    BY DEF RowsTyped
  <2>3. QED
    BY <2>1, <2>2
<1>3. QED
  BY <1>1, <1>2 DEF RowsTyped

\* The registry stamps a row with the next tick.
LEMMA SetRowTyped ==
    ASSUME RowsTyped, NEW d \in Digests, NEW r \in Row, SetRow(d, r)
    PROVE  /\ RowsTyped' /\ clock' = clock + 1 /\ clock \in Nat
           /\ row' = [row EXCEPT ![d] = [r EXCEPT !.at = clock + 1]]
<1>1. clock \in 0..MaxClock /\ clock < MaxClock /\ MaxClock \in Nat /\ clock' = clock + 1
  BY BoundsAssumption DEF SetRow, RowsTyped
<1>2. clock' \in 0..MaxClock /\ clock <= clock' /\ clock \in Nat
  BY <1>1
<1>3. [r EXCEPT !.at = clock + 1] \in Row /\ [r EXCEPT !.at = clock + 1].at = clock + 1
  BY <1>1, <1>2 DEF Row
<1>4. row' = [row EXCEPT ![d] = [r EXCEPT !.at = clock + 1]]
  BY DEF SetRow
<1> DEFINE x == [r EXCEPT !.at = clock + 1]
<1>5. x \in Row /\ x.at <= clock' /\ row' = [row EXCEPT ![d] = x]
  BY <1>1, <1>2, <1>3, <1>4
<1> HIDE DEF x
<1>6. RowsTyped'
  BY <1>2, <1>5, RowTyped
<1>7. QED
  BY <1>1, <1>2, <1>4, <1>6

\* What a page lists stays no later than the clock.
LEMMA ClockTyped ==
    ASSUME SweepTyped, RowsTyped, sweep' = sweep, clock' = clock + 1
    PROVE  SweepTyped'
<1>1. ASSUME NEW i \in 1..Len(sweep.page) PROVE sweep.page[i].at <= clock'
  <2>1. sweep.page[i].at <= clock /\ sweep.page[i] \in [d : Digests, at : 0..MaxClock]
    BY SeqElements DEF SweepTyped
  <2>2. clock \in Int /\ sweep.page[i].at \in Int
    BY <2>1, BoundsAssumption DEF RowsTyped
  <2>3. QED
    BY <2>1, <2>2
<1>2. QED
  BY <1>1 DEF SweepTyped

\* The row a pass is at, and the one it moves on to.
LEMMA ListedTyped ==
    ASSUME SweepTyped, sweep.at \in {"row", "evict"}
    PROVE  Listed \in [d : Digests, at : 0..MaxClock] /\ Listed.at <= clock
<1> DEFINE T == [d : Digests, at : 0..MaxClock]
<1>1. sweep.page \in Seq(T) /\ sweep.page # << >> /\ \A i \in 1..Len(sweep.page) : sweep.page[i].at <= clock
  BY DEF SweepTyped
<1> HIDE DEF T
<1>2. Len(sweep.page) \in Nat \ {0} /\ Listed = sweep.page[1] /\ Listed \in T
  BY <1>1, SeqElements DEF Listed
<1>3. QED
  BY <1>1, <1>2 DEF T

LEMMA PastRowTyped ==
    ASSUME SweepTyped, sweep.at \in {"row", "evict"}, NEW skipped \in BOOLEAN,
           PastRow(skipped), clock' = clock
    PROVE  SweepTyped' /\ sweep'.at \in {"list", "row"}
<1> DEFINE T == [d : Digests, at : 0..MaxClock]
<1>1. sweep.page \in Seq(T) /\ sweep.page # << >>
  BY DEF SweepTyped
<1> HIDE DEF T
<1>2. /\ Tail(sweep.page) \in Seq(T) /\ Len(sweep.page) \in Nat /\ Len(sweep.page) > 0
      /\ Len(Tail(sweep.page)) = Len(sweep.page) - 1
      /\ \A i \in 1..Len(Tail(sweep.page)) : Tail(sweep.page)[i] = sweep.page[i + 1]
  BY <1>1
<1>3. \A i \in 1..Len(Tail(sweep.page)) : Tail(sweep.page)[i].at <= clock
  <2>1. \A i \in 1..Len(Tail(sweep.page)) : i + 1 \in 1..Len(sweep.page)
    BY <1>2
  <2>2. QED
    BY <1>2, <2>1 DEF SweepTyped
<1>4. /\ sweep' \in [at : SweepSteps, stage : {"both", "read", "none"}, page : Seq(T),
                     cursor : 0..MaxClock, skipped : BOOLEAN, orphans : SUBSET Digests]
      /\ sweep'.page = Tail(sweep.page)
      /\ sweep'.at = IF Len(sweep.page) = 1 THEN "list" ELSE "row"
  BY <1>2, ListedTyped DEF PastRow, SweepTyped, SweepSteps, T
<1>5. sweep'.at = "row" => sweep'.page # << >>
  <2>1. sweep'.at = "row" => Len(Tail(sweep.page)) \in Nat \ {0}
    BY <1>2, <1>4
  <2>2. QED
    BY <1>2, <1>4, <2>1, SeqElements
<1>6. QED
  BY <1>3, <1>4, <1>5 DEF SweepTyped, T

-----------------------------------------------------------------------------
(* Types. *)

LEMMA TypeWriteBlob ==
    ASSUME Typed, NEW w \in Writers, NEW d \in Digests, WriteBlob(w, d)
    PROVE  Typed'
<1>1. WriterTyped'
  BY DEF WriteBlob, dirs, rows, Typed, WriterTyped, Free, WriterSteps
<1>2. QED
  BY <1>1 DEF WriteBlob, dirs, rows, Typed, FilesTyped, RowsTyped, RemoverTyped, ReaderTyped,
     SweepTyped

LEMMA TypeWriteFails ==
    ASSUME Typed, NEW w \in Writers, WriteFails(w)
    PROVE  Typed'
<1>1. WriterTyped'
  BY DEF WriteFails, dirs, rows, Typed, WriterTyped, Free, WriterSteps
<1>2. QED
  BY <1>1 DEF WriteFails, dirs, rows, Typed, FilesTyped, RowsTyped, RemoverTyped, ReaderTyped,
     SweepTyped

LEMMA TypeCommit ==
    ASSUME Typed, NEW w \in Writers, Commit(w)
    PROVE  Typed'
<1>1. FilesTyped'
  BY DEF Commit, Go, Files, dirs, rows, Typed, FilesTyped, WriterTyped, RemoverTyped,
     ReaderTyped, Free, Removers
<1>2. WriterTyped'
  BY DEF Commit, Go, Files, dirs, rows, Typed, WriterTyped, Free, WriterSteps
<1>3. ReaderTyped'
  BY DEF Commit, Go, Files, dirs, rows, Typed, FilesTyped, WriterTyped, RemoverTyped,
     ReaderTyped, Free
<1>4. QED
  BY <1>1, <1>2, <1>3 DEF Commit, Go, Files, dirs, rows, Typed, RowsTyped, RemoverTyped,
     SweepTyped

LEMMA TypePutIntent ==
    ASSUME Typed, NEW w \in Writers, PutIntent(w)
    PROVE  Typed'
<1> USE DEF Typed
<1>1. FilesTyped'
  BY DEF PutIntent, Go, SetRow, dirs, rows, Typed, FilesTyped, WriterTyped, RemoverTyped,
     ReaderTyped, Free, Removers
<1>2. RowsTyped'
  <2>1. writer[w].d \in Digests
    BY DEF PutIntent, Go, WriterTyped
  <2>2. [state |-> "spooled", at |-> 0, evicted |-> FALSE] \in Row
    BY BoundsAssumption DEF Row
  <2>3. QED
    BY <2>1, <2>2, SetRowTyped DEF PutIntent
<1>3. WriterTyped'
  BY DEF PutIntent, Go, SetRow, dirs, rows, Typed, WriterTyped, Free, WriterSteps
<1>4. SweepTyped'
  <2>1. sweep' = sweep /\ clock' = clock + 1
    BY DEF PutIntent, SetRow
  <2>2. QED
    BY <2>1, ClockTyped
<1>5. QED
  BY <1>1, <1>2, <1>3, <1>4 DEF PutIntent, Go, SetRow, dirs, rows, Typed, RemoverTyped,
     ReaderTyped

LEMMA TypeAccept ==
    ASSUME Typed, NEW w \in Writers, Accept(w)
    PROVE  Typed'
<1> USE DEF Typed
<1>1. RowsTyped'
  <2>1. writer[w].d \in Digests
    BY DEF Accept, Go, WriterTyped
  <2>2. [row[writer[w].d] EXCEPT !.state = "held"] \in Row
    BY <2>1 DEF Row, RowsTyped
  <2>3. QED
    BY <2>1, <2>2, SetRowTyped DEF Accept
<1>2. WriterTyped'
  BY DEF Accept, Go, SetRow, dirs, rows, Typed, WriterTyped, Free, WriterSteps
<1>3. SweepTyped'
  <2>1. sweep' = sweep /\ clock' = clock + 1
    BY DEF Accept, SetRow
  <2>2. QED
    BY <2>1, ClockTyped
<1>4. QED
  BY <1>1, <1>2, <1>3 DEF Accept, Go, SetRow, dirs, rows, Typed, FilesTyped, RemoverTyped,
     ReaderTyped

LEMMA TypeTake ==
    ASSUME Typed, NEW w \in Writers, Take(w)
    PROVE  Typed'
<1>1. FilesTyped'
  BY DEF Take, Files, dirs, rows, Typed, FilesTyped, WriterTyped, RemoverTyped, ReaderTyped,
     Free, Removers
<1>2. WriterTyped'
  BY DEF Take, Files, dirs, rows, Typed, WriterTyped, Free, WriterSteps
<1>3. ReaderTyped'
  BY DEF Take, Files, dirs, rows, Typed, FilesTyped, WriterTyped, RemoverTyped, ReaderTyped, Free
<1>4. QED
  BY <1>1, <1>2, <1>3 DEF Take, Files, dirs, rows, Typed, RowsTyped, RemoverTyped, SweepTyped

LEMMA TypeFail ==
    ASSUME Typed, NEW w \in Writers, Fail(w)
    PROVE  Typed'
<1>1. FilesTyped'
  BY DEF Fail, dirs, rows, Typed, FilesTyped, WriterTyped, RemoverTyped, ReaderTyped, Free,
     Removers
<1>2. WriterTyped'
  BY DEF Fail, dirs, rows, Typed, WriterTyped, Free, WriterSteps
<1>3. QED
  BY <1>1, <1>2 DEF Fail, dirs, rows, Typed, RowsTyped, RemoverTyped, ReaderTyped, SweepTyped

LEMMA TypeRemoveSpool ==
    ASSUME Typed, NEW a \in Removers, RemoveSpool(a)
    PROVE  Typed'
<1>1. FilesTyped'
  BY DEF RemoveSpool, Files, dirs, rows, Typed, FilesTyped, WriterTyped, RemoverTyped,
     ReaderTyped, Free, Removers
<1>2. RemoverTyped'
  BY DEF RemoveSpool, Files, dirs, rows, Typed, FilesTyped, WriterTyped, RemoverTyped,
     ReaderTyped, Free, RemoverSteps, Removers
<1>3. ReaderTyped'
  BY DEF RemoveSpool, Files, dirs, rows, Typed, FilesTyped, WriterTyped, RemoverTyped,
     ReaderTyped, Free
<1>4. QED
  BY <1>1, <1>2, <1>3 DEF RemoveSpool, Files, dirs, rows, Typed, RowsTyped, WriterTyped,
     SweepTyped

LEMMA TypeRemoveFails ==
    ASSUME Typed, NEW a \in Removers, RemoveFails(a)
    PROVE  Typed'
<1>1. RemoverTyped'
  BY DEF RemoveFails, dirs, rows, Typed, FilesTyped, WriterTyped, RemoverTyped, ReaderTyped,
     Free, RemoverSteps, Removers
<1>2. QED
  BY <1>1 DEF RemoveFails, dirs, rows, Typed, FilesTyped, RowsTyped, WriterTyped, ReaderTyped,
     SweepTyped

LEMMA TypeStatCache ==
    ASSUME Typed, NEW a \in Removers, StatCache(a)
    PROVE  Typed'
<1>1. RemoverTyped'
  BY DEF StatCache, dirs, rows, Typed, FilesTyped, WriterTyped, RemoverTyped, ReaderTyped, Free,
     RemoverSteps, Removers
<1>2. QED
  BY <1>1 DEF StatCache, dirs, rows, Typed, FilesTyped, RowsTyped, WriterTyped, ReaderTyped,
     SweepTyped

LEMMA TypeUnlinkCache ==
    ASSUME Typed, NEW a \in Removers, UnlinkCache(a)
    PROVE  Typed'
<1>1. FilesTyped'
  BY DEF UnlinkCache, Files, dirs, rows, Typed, FilesTyped, WriterTyped, RemoverTyped,
     ReaderTyped, Free, Removers
<1>2. RemoverTyped'
  BY DEF UnlinkCache, Files, dirs, rows, Typed, FilesTyped, WriterTyped, RemoverTyped,
     ReaderTyped, Free, RemoverSteps, Removers
<1>3. ReaderTyped'
  BY DEF UnlinkCache, Files, dirs, rows, Typed, FilesTyped, WriterTyped, RemoverTyped,
     ReaderTyped, Free
<1>4. QED
  BY <1>1, <1>2, <1>3 DEF UnlinkCache, Files, dirs, rows, Typed, RowsTyped, WriterTyped,
     SweepTyped

LEMMA TypeDeleteIntent ==
    ASSUME Typed, DeleteIntent
    PROVE  Typed'
<1> USE DEF Typed
<1>1. RowsTyped'
  <2>1. remover["release"].d \in Digests
    BY DEF DeleteIntent, RemoverTyped, Removers
  <2>2. NoRow \in Row /\ NoRow.at = 0 /\ clock \in 0..MaxClock /\ 0 <= clock /\ clock <= clock
    BY BoundsAssumption DEF NoRow, Row, RowsTyped
  <2>3. QED
    BY <2>1, <2>2, RowTyped DEF DeleteIntent
<1>2. RemoverTyped'
  BY DEF DeleteIntent, End, dirs, rows, Typed, FilesTyped, WriterTyped, RemoverTyped,
     ReaderTyped, Free, RemoverSteps, Removers
<1>3. QED
  BY <1>1, <1>2 DEF DeleteIntent, End, dirs, rows, Typed, FilesTyped, WriterTyped, ReaderTyped,
     SweepTyped

LEMMA TypeLeaveToWrite ==
    ASSUME Typed, LeaveToWrite
    PROVE  Typed'
<1>1. RemoverTyped'
  BY DEF LeaveToWrite, End, dirs, rows, Typed, FilesTyped, WriterTyped, RemoverTyped,
     ReaderTyped, Free, RemoverSteps, Removers
<1>2. QED
  BY <1>1 DEF LeaveToWrite, End, dirs, rows, Typed, FilesTyped, RowsTyped, WriterTyped,
     ReaderTyped, SweepTyped

LEMMA TypeRelease ==
    ASSUME Typed, NEW d \in Digests, Release(d)
    PROVE  Typed'
<1> USE DEF Typed
<1>1. RowsTyped'
  <2> DEFINE x == [row[d] EXCEPT !.state = "released"]
  <2>1. d \in Digests
    BY DEF Release
  <2>2. x \in Row /\ x.at = row[d].at
    BY <2>1 DEF RowsTyped, Row
  <2>3. clock \in 0..MaxClock /\ x.at <= clock /\ clock <= clock
    BY <2>1, <2>2, BoundsAssumption DEF RowsTyped
  <2>4. row' = [row EXCEPT ![d] = x] /\ clock' = clock
    BY DEF Release
  <2> HIDE DEF x
  <2>5. QED
    BY <2>1, <2>2, <2>3, <2>4, RowTyped
<1>2. RemoverTyped'
  BY DEF Release, Begin, dirs, rows, Typed, FilesTyped, WriterTyped, RemoverTyped, ReaderTyped,
     Free, RemoverSteps, Removers
<1>3. QED
  BY <1>1, <1>2 DEF Release, Begin, dirs, rows, Typed, FilesTyped, WriterTyped, ReaderTyped,
     SweepTyped

LEMMA TypeSweepBegin ==
    ASSUME Typed, SweepBegin
    PROVE  Typed'
<1> USE DEF Typed
<1>1. SweepTyped'
  BY StageTyped DEF SweepBegin
<1>2. QED
  BY <1>1 DEF SweepBegin, dirs, rows, Typed, FilesTyped, RowsTyped, WriterTyped, RemoverTyped,
     ReaderTyped

LEMMA TypeList ==
    ASSUME Typed, List
    PROVE  Typed'
<1> USE DEF Typed
<1>1. SweepTyped'
  <2>1. PICK page \in Pages(After(sweep.cursor)) :
          \/ sweep' \in {Orphans, Stage("read"), Stage("none")}
          \/ page # << >> /\ sweep' = [sweep EXCEPT !.at = "row", !.page = page]
    BY StoppedTo DEF List
  <2>2. CASE sweep' \in {Orphans, Stage("read"), Stage("none")}
    BY <2>2, StageTyped
  <2>3. CASE page # << >> /\ sweep' = [sweep EXCEPT !.at = "row", !.page = page]
    <3>1. After(sweep.cursor) \in SUBSET Digests
      BY DEF After, Evictable
    <3>2. /\ page \in Seq([d : Digests, at : 0..MaxClock])
          /\ \A i \in 1..Len(page) : page[i].at <= clock
      BY <3>1, PageTyped
    <3>3. clock' = clock /\ sweep'.page = page
      BY <2>3 DEF List, rows, SweepTyped
    <3>4. sweep' \in [at : SweepSteps, stage : {"both", "read", "none"},
                      page : Seq([d : Digests, at : 0..MaxClock]), cursor : 0..MaxClock,
                      skipped : BOOLEAN, orphans : SUBSET Digests]
      BY <2>3, <3>2 DEF SweepTyped, SweepSteps
    <3>5. QED
      BY <2>3, <3>2, <3>3, <3>4 DEF SweepTyped
  <2>4. QED
    BY <2>1, <2>2, <2>3
<1>2. QED
  BY <1>1 DEF List, dirs, rows, Typed, FilesTyped, RowsTyped, WriterTyped, RemoverTyped,
     ReaderTyped

LEMMA TypeConsider ==
    ASSUME Typed, Consider
    PROVE  Typed'
<1> USE DEF Typed
<1>1. RemoverTyped'
  <2>1. Listed.d \in Digests
    BY ListedTyped DEF Consider
  <2>2. remover' = remover \/ remover' = [remover EXCEPT !["sweep"] = [at |-> "spool", d |-> Listed.d]]
    BY DEF Consider, Begin
  <2>3. QED
    BY <2>1, <2>2 DEF RemoverTyped, RemoverSteps, Removers
<1>2. SweepTyped'
  <2>1. clock' = clock /\ sweep.at = "row"
    BY DEF Consider, rows
  <2>2. CASE sweep' \in {Orphans, Stage("read"), Stage("none")}
    BY <2>2, StageTyped
  <2>3. CASE PastRow(TRUE)
    BY <2>1, <2>3, PastRowTyped
  <2>4. CASE sweep' = [sweep EXCEPT !.at = "evict"]
    BY <2>1, <2>4 DEF SweepTyped, SweepSteps
  <2>5. QED
    BY <2>2, <2>3, <2>4, StoppedTo DEF Consider
<1>3. QED
  BY <1>1, <1>2 DEF Consider, Begin, PastRow, Listed, dirs, rows, Typed, FilesTyped, RowsTyped,
     WriterTyped, ReaderTyped

LEMMA TypeEvictHeld ==
    ASSUME Typed, EvictHeld
    PROVE  Typed'
<1> USE DEF Typed
<1>1. RemoverTyped'
  BY DEF EvictHeld, End, PastRow, Listed, dirs, rows, Typed, FilesTyped, WriterTyped,
     RemoverTyped, ReaderTyped, Free, RemoverSteps, Removers
<1>2. SweepTyped'
  <2>1. clock' = clock /\ sweep.at = "evict"
    BY DEF EvictHeld, rows
  <2>2. QED
    BY <2>1, PastRowTyped DEF EvictHeld
<1>3. QED
  BY <1>1, <1>2 DEF EvictHeld, End, PastRow, Listed, dirs, rows, Typed, FilesTyped, RowsTyped,
     WriterTyped, ReaderTyped

LEMMA TypeMarkEvicted ==
    ASSUME Typed, MarkEvicted
    PROVE  Typed'
<1> USE DEF Typed
<1>1. RowsTyped'
  <2> DEFINE x == [row[Listed.d] EXCEPT !.evicted = @ \/ (row[Listed.d].state # "none" /\ row[Listed.d].at <= Listed.at)]
  <2>1. Listed.d \in Digests
    BY ListedTyped DEF MarkEvicted
  <2>2. x \in Row /\ x.at = row[Listed.d].at
    BY <2>1 DEF RowsTyped, Row
  <2>3. clock \in 0..MaxClock /\ x.at <= clock /\ clock <= clock
    BY <2>1, <2>2, BoundsAssumption DEF RowsTyped
  <2>4. row' = [row EXCEPT ![Listed.d] = x] /\ clock' = clock
    BY DEF MarkEvicted
  <2> HIDE DEF x
  <2>5. QED
    BY <2>1, <2>2, <2>3, <2>4, RowTyped
<1>2. RemoverTyped'
  BY DEF MarkEvicted, End, PastRow, Listed, dirs, rows, Typed, FilesTyped, WriterTyped,
     RemoverTyped, ReaderTyped, Free, RemoverSteps, Removers
<1>3. SweepTyped'
  <2>1. clock' = clock /\ sweep.at = "evict"
    BY DEF MarkEvicted
  <2>2. QED
    BY <2>1, PastRowTyped DEF MarkEvicted
<1>4. QED
  BY <1>1, <1>2, <1>3 DEF MarkEvicted, End, PastRow, Listed, dirs, rows, Typed, FilesTyped,
     WriterTyped, ReaderTyped

LEMMA TypeOrphansBegin ==
    ASSUME Typed, OrphansBegin
    PROVE  Typed'
<1>1. SweepTyped'
  BY DEF OrphansBegin, dirs, rows, Typed, SweepTyped, SweepSteps
<1>2. QED
  BY <1>1 DEF OrphansBegin, dirs, rows, Typed, FilesTyped, RowsTyped, WriterTyped, RemoverTyped,
     ReaderTyped

LEMMA TypeCorrect ==
    ASSUME Typed, Correct
    PROVE  Typed'
<1> USE DEF Typed
<1>1. SweepTyped'
  <2>1. CASE sweep' = Rest
    BY <2>1, StageTyped
  <2>2. CASE sweep' = [sweep EXCEPT !.at = "check"]
    BY <2>2 DEF Correct, rows, SweepTyped, SweepSteps
  <2>3. QED
    BY <2>1, <2>2 DEF Correct
<1>2. QED
  BY <1>1 DEF Correct, dirs, rows, Typed, FilesTyped, RowsTyped, WriterTyped, RemoverTyped,
     ReaderTyped

LEMMA TypeCheck ==
    ASSUME Typed, Check
    PROVE  Typed'
<1>1. SweepTyped'
  BY DEF Check, dirs, rows, Typed, SweepTyped, SweepSteps
<1>2. QED
  BY <1>1 DEF Check, dirs, rows, Typed, FilesTyped, RowsTyped, WriterTyped, RemoverTyped,
     ReaderTyped

LEMMA TypePurged ==
    ASSUME Typed, Purged
    PROVE  Typed'
<1>1. RemoverTyped'
  BY DEF Purged, End, dirs, rows, Typed, FilesTyped, WriterTyped, RemoverTyped, ReaderTyped,
     Free, RemoverSteps, Removers
<1>2. QED
  BY <1>1 DEF Purged, End, dirs, rows, Typed, FilesTyped, RowsTyped, WriterTyped, ReaderTyped,
     SweepTyped

LEMMA TypeScanCache ==
    ASSUME Typed, ScanCache
    PROVE  Typed'
<1>1. SweepTyped'
  BY DEF ScanCache, dirs, rows, Typed, SweepTyped, SweepSteps
<1>2. QED
  BY <1>1 DEF ScanCache, dirs, rows, Typed, FilesTyped, RowsTyped, WriterTyped, RemoverTyped,
     ReaderTyped

LEMMA TypeVisit ==
    ASSUME Typed, NEW d \in Digests, Visit(d)
    PROVE  Typed'
<1>1. SweepTyped'
  BY DEF Visit, dirs, rows, Typed, SweepTyped, SweepSteps
<1>2. QED
  BY <1>1 DEF Visit, dirs, rows, Typed, FilesTyped, RowsTyped, WriterTyped, RemoverTyped,
     ReaderTyped

LEMMA TypePurge ==
    ASSUME Typed, NEW d \in Digests, Purge(d)
    PROVE  Typed'
<1>1. RemoverTyped'
  BY DEF Purge, Begin, dirs, rows, Typed, FilesTyped, WriterTyped, RemoverTyped, ReaderTyped,
     Free, RemoverSteps, Removers
<1>2. SweepTyped'
  BY DEF Purge, Begin, dirs, rows, Typed, SweepTyped, SweepSteps
<1>3. QED
  BY <1>1, <1>2 DEF Purge, Begin, dirs, rows, Typed, FilesTyped, RowsTyped, WriterTyped,
     ReaderTyped

LEMMA TypeLookSpool ==
    ASSUME Typed, LookSpool
    PROVE  Typed'
<1>1. ReaderTyped'
  BY DEF LookSpool, dirs, rows, Typed, FilesTyped, WriterTyped, RemoverTyped, ReaderTyped, Free
<1>2. QED
  BY <1>1 DEF LookSpool, dirs, rows, Typed, FilesTyped, RowsTyped, WriterTyped, RemoverTyped,
     SweepTyped

LEMMA TypeLookAgain ==
    ASSUME Typed, LookAgain
    PROVE  Typed'
<1>1. FilesTyped'
  BY DEF LookAgain, dirs, rows, Typed, FilesTyped, WriterTyped, RemoverTyped, ReaderTyped, Free,
     Removers
<1>2. ReaderTyped'
  BY DEF LookAgain, dirs, rows, Typed, FilesTyped, WriterTyped, RemoverTyped, ReaderTyped, Free
<1>3. QED
  BY <1>1, <1>2 DEF LookAgain, dirs, rows, Typed, RowsTyped, WriterTyped, RemoverTyped, SweepTyped

LEMMA TypeLookCache ==
    ASSUME Typed, NEW d \in Asked, LookCache(d)
    PROVE  Typed'
<1>1. FilesTyped'
  BY DEF LookCache, dirs, rows, Typed, FilesTyped, WriterTyped, RemoverTyped, ReaderTyped, Free,
     Removers
<1>2. ReaderTyped'
  BY DEF LookCache, dirs, rows, Typed, FilesTyped, WriterTyped, RemoverTyped, ReaderTyped, Free
<1>3. QED
  BY <1>1, <1>2 DEF LookCache, dirs, rows, Typed, RowsTyped, WriterTyped, RemoverTyped, SweepTyped

LEMMA TypeTimeLimit ==
    ASSUME Typed, TimeLimit
    PROVE  Typed'
<1> USE DEF Typed
<1>1. RemoverTyped'
  BY DEF TimeLimit, End, dirs, rows, Typed, FilesTyped, WriterTyped, RemoverTyped, ReaderTyped,
     Free, RemoverSteps, Removers
<1>2. SweepTyped'
  BY StageTyped DEF TimeLimit
<1>3. QED
  BY <1>1, <1>2 DEF TimeLimit, End, dirs, rows, Typed, FilesTyped, RowsTyped, WriterTyped,
     ReaderTyped

LEMMA TypeOrphansNotDue ==
    ASSUME Typed, OrphansNotDue
    PROVE  Typed'
<1> USE DEF Typed
<1>1. SweepTyped'
  BY StageTyped DEF OrphansNotDue
<1>2. QED
  BY <1>1 DEF OrphansNotDue, dirs, rows, Typed, FilesTyped, RowsTyped, WriterTyped,
     RemoverTyped, ReaderTyped

LEMMA TypeRestart ==
    ASSUME Typed, Restart
    PROVE  Typed'
<1> USE DEF Typed
<1>1. FilesTyped'
  BY DEF Restart, dirs, rows, Typed, FilesTyped, WriterTyped, RemoverTyped, ReaderTyped, Free,
     Removers
<1>2. WriterTyped'
  BY DEF Restart, dirs, rows, Typed, WriterTyped, Free, WriterSteps
<1>3. RemoverTyped'
  BY DEF Restart, dirs, rows, Typed, FilesTyped, WriterTyped, RemoverTyped, ReaderTyped, Free,
     RemoverSteps, Removers
<1>4. ReaderTyped'
  BY DEF Restart, dirs, rows, Typed, FilesTyped, WriterTyped, RemoverTyped, ReaderTyped, Free
<1>5. SweepTyped'
  BY StageTyped DEF Restart
<1>6. QED
  BY <1>1, <1>2, <1>3, <1>4, <1>5 DEF Restart, dirs, rows, Typed, RowsTyped

LEMMA TypeReadAges ==
    ASSUME Typed, NEW d \in Digests, ReadAges(d)
    PROVE  Typed'
<1>1. FilesTyped'
  BY DEF ReadAges, dirs, rows, Typed, FilesTyped, WriterTyped, RemoverTyped, ReaderTyped, Free,
     Removers
<1>2. QED
  BY <1>1 DEF ReadAges, dirs, rows, Typed, RowsTyped, WriterTyped, RemoverTyped, ReaderTyped,
     SweepTyped

LEMMA TypeOutside ==
    ASSUME Typed, NEW d \in Digests, Outside(d)
    PROVE  Typed'
<1>1. FilesTyped'
  BY DEF Outside, Files, dirs, rows, Typed, FilesTyped, WriterTyped, RemoverTyped, ReaderTyped,
     Free, Removers
<1>2. ReaderTyped'
  BY DEF Outside, Files, dirs, rows, Typed, FilesTyped, WriterTyped, RemoverTyped, ReaderTyped,
     Free
<1>3. QED
  BY <1>1, <1>2 DEF Outside, Files, dirs, rows, Typed, RowsTyped, WriterTyped, RemoverTyped,
     SweepTyped

-----------------------------------------------------------------------------
(* What a step does to the row and the files of a digest. *)

\* A write has spooled d and its intent is not recorded, now or ever.
Awaited(d) ==
    \/ d \in strays
    \/ \E w \in Writers : writer[w].d = d /\ writer[w].at = "spooled"

\* A file comes to the spool by a write, and to the cache from the spool.
FileMoves(d) ==
    /\ d \in spool' => d \in spool \/ Awaited(d)'
    /\ d \in cache' => d \in cache \cup spool

\* A row goes, is stamped anew, or keeps its time; only MarkEvicted marks it.
RowMoves(d) ==
    /\ \/ row'[d].state = "none"
       \/ row'[d].at = clock + 1
       \/ row'[d].at = row[d].at /\ row[d].state # "none"
    /\ row'[d].evicted => row[d].evicted \/ (MarkEvicted /\ d = Listed.d)

\* What is awaited stays so until an intent is recorded.
AwaitMoves(d) == Awaited(d) => Awaited(d)' \/ (row'[d].at = clock + 1 /\ ~row'[d].evicted)

Moves(d) == FileMoves(d) /\ RowMoves(d) /\ AwaitMoves(d)

LEMMA QuietMoves ==
    ASSUME NEW d \in Digests, UNCHANGED <<spool, cache, row, strays, writer>>
    PROVE  Moves(d)
BY DEF Moves, FileMoves, RowMoves, AwaitMoves, Awaited

\* The files change, and nothing else does that matters to a row.
LEMMA FileStep ==
    ASSUME NEW d \in Digests, UNCHANGED <<row, strays, writer>>,
           spool' \subseteq spool, cache' \subseteq cache
    PROVE  Moves(d)
BY DEF Moves, FileMoves, RowMoves, AwaitMoves, Awaited

LEMMA MovesWriteBlob ==
    ASSUME Typed, NEW d \in Digests, NEW w \in Writers, NEW e \in Digests, WriteBlob(w, e)
    PROVE  Moves(d)
<1>1. UNCHANGED <<spool, cache, row, strays>>
  BY DEF WriteBlob, rows
<1>2. ASSUME NEW v \in Writers, writer[v].at = "spooled" PROVE writer'[v] = writer[v]
  BY <1>2 DEF WriteBlob, Typed, WriterTyped
<1>3. QED
  BY <1>1, <1>2 DEF Moves, FileMoves, RowMoves, AwaitMoves, Awaited

LEMMA MovesWriteFails ==
    ASSUME Typed, NEW d \in Digests, NEW w \in Writers, WriteFails(w)
    PROVE  Moves(d)
<1>1. UNCHANGED <<spool, cache, row, strays>>
  BY DEF WriteFails, rows
<1>2. ASSUME NEW v \in Writers, writer[v].at = "spooled" PROVE writer'[v] = writer[v]
  BY <1>2 DEF WriteFails, Typed, WriterTyped
<1>3. QED
  BY <1>1, <1>2 DEF Moves, FileMoves, RowMoves, AwaitMoves, Awaited

LEMMA MovesCommit ==
    ASSUME Typed, NEW d \in Digests, NEW w \in Writers, Commit(w)
    PROVE  Moves(d)
<1>1. UNCHANGED <<cache, row, strays>> /\ spool' = spool \cup {writer[w].d}
  BY DEF Commit, Files, rows
<1>2. ASSUME NEW v \in Writers, writer[v].at = "spooled" PROVE writer'[v] = writer[v]
  BY <1>2 DEF Commit, Go, Typed, WriterTyped
<1>3. writer'[w].d = writer[w].d /\ writer'[w].at = "spooled"
  BY DEF Commit, Go, Typed, WriterTyped
<1>4. QED
  BY <1>1, <1>2, <1>3 DEF Moves, FileMoves, RowMoves, AwaitMoves, Awaited

LEMMA MovesPutIntent ==
    ASSUME Typed, NEW d \in Digests, NEW w \in Writers, PutIntent(w)
    PROVE  Moves(d)
<1> DEFINE e == writer[w].d
<1>1. UNCHANGED <<spool, cache>> /\ strays' = strays \ {e}
  BY DEF PutIntent, dirs
<1>2. e \in Digests /\ row \in [Digests -> Row]
  BY DEF PutIntent, Go, Typed, WriterTyped, RowsTyped
<1>3. /\ e = d => row'[d].at = clock + 1 /\ row'[d].evicted = FALSE
      /\ e # d => row'[d] = row[d]
  BY <1>2 DEF PutIntent, SetRow
<1>4. ASSUME NEW v \in Writers, writer[v].at = "spooled", v # w PROVE writer'[v] = writer[v]
  BY <1>4 DEF PutIntent, Go, Typed, WriterTyped
<1>5. QED
  BY <1>1, <1>2, <1>3, <1>4 DEF Moves, FileMoves, RowMoves, AwaitMoves, Awaited

LEMMA MovesAccept ==
    ASSUME Typed, NEW d \in Digests, NEW w \in Writers, Accept(w)
    PROVE  Moves(d)
<1> DEFINE e == writer[w].d
<1>1. UNCHANGED <<spool, cache, strays>>
  BY DEF Accept, dirs
<1>2. e \in Digests /\ row \in [Digests -> Row]
  BY DEF Accept, Go, Typed, WriterTyped, RowsTyped
<1>3. /\ e = d => row'[d].at = clock + 1 /\ row'[d].evicted = row[d].evicted
      /\ e # d => row'[d] = row[d]
  BY <1>2 DEF Accept, SetRow, Row
<1>4. ASSUME NEW v \in Writers, writer[v].at = "spooled" PROVE writer'[v] = writer[v]
  BY <1>4 DEF Accept, Go, Typed, WriterTyped
<1>5. QED
  BY <1>1, <1>2, <1>3, <1>4 DEF Moves, FileMoves, RowMoves, AwaitMoves, Awaited

LEMMA MovesTake ==
    ASSUME Typed, NEW d \in Digests, NEW w \in Writers, Take(w)
    PROVE  Moves(d)
<1>1. UNCHANGED <<row, strays>> /\ spool' \subseteq spool /\ cache' \subseteq cache \cup spool
  BY DEF Take, Files, rows, dirs
<1>2. ASSUME NEW v \in Writers, writer[v].at = "spooled" PROVE writer'[v] = writer[v]
  BY <1>2 DEF Take, Typed, WriterTyped
<1>3. QED
  BY <1>1, <1>2 DEF Moves, FileMoves, RowMoves, AwaitMoves, Awaited

LEMMA MovesFail ==
    ASSUME Typed, NEW d \in Digests, NEW w \in Writers, Fail(w)
    PROVE  Moves(d)
<1>1. UNCHANGED <<spool, cache, row>> /\ strays \subseteq strays'
  BY DEF Fail, dirs, rows
<1>2. ASSUME NEW v \in Writers, writer[v].at = "spooled", v # w PROVE writer'[v] = writer[v]
  BY <1>2 DEF Fail, Typed, WriterTyped
<1>3. writer[w].at = "spooled" => writer[w].d \in strays'
  BY DEF Fail
<1>4. QED
  BY <1>1, <1>2, <1>3 DEF Moves, FileMoves, RowMoves, AwaitMoves, Awaited

LEMMA MovesRemoveSpool ==
    ASSUME Typed, NEW d \in Digests, NEW a \in Removers, RemoveSpool(a)
    PROVE  Moves(d)
<1>1. UNCHANGED <<row, strays, writer>> /\ spool' \subseteq spool /\ cache' \subseteq cache
  BY DEF RemoveSpool, Files, rows, dirs
<1>2. QED
  BY <1>1, FileStep

LEMMA MovesUnlinkCache ==
    ASSUME Typed, NEW d \in Digests, NEW a \in Removers, UnlinkCache(a)
    PROVE  Moves(d)
<1>1. UNCHANGED <<row, strays, writer>> /\ spool' \subseteq spool /\ cache' \subseteq cache
  BY DEF UnlinkCache, Files, rows, dirs
<1>2. QED
  BY <1>1, FileStep

LEMMA MovesDeleteIntent ==
    ASSUME Typed, NEW d \in Digests, DeleteIntent
    PROVE  Moves(d)
<1>1. UNCHANGED <<spool, cache, strays, writer>>
  BY DEF DeleteIntent, dirs
<1>2. row'[d] = row[d] \/ (row'[d].state = "none" /\ row'[d].evicted = FALSE)
  BY DEF DeleteIntent, NoRow, Typed, RowsTyped
<1>3. QED
  BY <1>1, <1>2 DEF Moves, FileMoves, RowMoves, AwaitMoves, Awaited

LEMMA MovesRelease ==
    ASSUME Typed, NEW d \in Digests, NEW e \in Digests, Release(e)
    PROVE  Moves(d)
<1>1. UNCHANGED <<spool, cache, strays, writer>>
  BY DEF Release, dirs
<1>2. /\ row'[d].at = row[d].at /\ row'[d].evicted = row[d].evicted
      /\ row[d].state = "none" => row'[d].state = "none"
  BY DEF Release, Typed, RowsTyped, Row
<1>3. QED
  BY <1>1, <1>2 DEF Moves, FileMoves, RowMoves, AwaitMoves, Awaited

LEMMA MovesMarkEvicted ==
    ASSUME Typed, NEW d \in Digests, MarkEvicted
    PROVE  Moves(d)
<1>1. UNCHANGED <<spool, cache, strays, writer>>
  BY DEF MarkEvicted, dirs
<1>2. /\ row'[d].at = row[d].at /\ row'[d].state = row[d].state
      /\ d # Listed.d => row'[d] = row[d]
  BY DEF MarkEvicted, Typed, RowsTyped, Row
<1>3. QED
  BY <1>1, <1>2 DEF Moves, FileMoves, RowMoves, AwaitMoves, Awaited

LEMMA MovesRestart ==
    ASSUME Typed, NEW d \in Digests, Restart
    PROVE  Moves(d)
<1>1. UNCHANGED <<spool, cache, row>> /\ strays \subseteq strays'
  BY DEF Restart, rows
<1>2. ASSUME NEW v \in Writers, writer[v].at = "spooled" PROVE writer[v].d \in strays'
  BY <1>2 DEF Restart
<1>3. QED
  BY <1>1, <1>2 DEF Moves, FileMoves, RowMoves, AwaitMoves, Awaited

LEMMA MovesOutside ==
    ASSUME Typed, NEW d \in Digests, NEW e \in Digests, Outside(e)
    PROVE  Moves(d)
<1>1. UNCHANGED <<row, strays, writer>> /\ spool' \subseteq spool /\ cache' \subseteq cache
  BY DEF Outside, Files, rows, dirs
<1>2. QED
  BY <1>1, FileStep

LEMMA EveryStepMoves ==
    ASSUME Typed, [Next]_vars, NEW d \in Digests
    PROVE  Moves(d)
<1>1. ASSUME NEW w \in Writers, NEW e \in Digests, WriteBlob(w, e) PROVE Moves(d)
  BY <1>1, MovesWriteBlob
<1>2. ASSUME NEW w \in Writers, WriteFails(w) PROVE Moves(d)
  BY <1>2, MovesWriteFails
<1>3. ASSUME NEW w \in Writers, Commit(w) PROVE Moves(d)
  BY <1>3, MovesCommit
<1>4. ASSUME NEW w \in Writers, PutIntent(w) PROVE Moves(d)
  BY <1>4, MovesPutIntent
<1>5. ASSUME NEW w \in Writers, Accept(w) PROVE Moves(d)
  BY <1>5, MovesAccept
<1>6. ASSUME NEW w \in Writers, Take(w) PROVE Moves(d)
  BY <1>6, MovesTake
<1>7. ASSUME NEW w \in Writers, Fail(w) PROVE Moves(d)
  BY <1>7, MovesFail
<1>8. ASSUME NEW a \in Removers, RemoveSpool(a) PROVE Moves(d)
  BY <1>8, MovesRemoveSpool
<1>9. ASSUME NEW a \in Removers, RemoveFails(a) PROVE Moves(d)
  BY <1>9, QuietMoves DEF RemoveFails, dirs, rows
<1>10. ASSUME NEW a \in Removers, StatCache(a) PROVE Moves(d)
  BY <1>10, QuietMoves DEF StatCache, dirs, rows
<1>11. ASSUME NEW a \in Removers, UnlinkCache(a) PROVE Moves(d)
  BY <1>11, MovesUnlinkCache
<1>12. CASE DeleteIntent
  BY <1>12, MovesDeleteIntent
<1>13. CASE LeaveToWrite
  BY <1>13, QuietMoves DEF LeaveToWrite, dirs, rows
<1>14. ASSUME NEW e \in Digests, Release(e) PROVE Moves(d)
  BY <1>14, MovesRelease
<1>15. CASE SweepBegin
  BY <1>15, QuietMoves DEF SweepBegin, dirs, rows
<1>16. CASE List
  BY <1>16, QuietMoves DEF List, dirs, rows
<1>17. CASE Consider
  BY <1>17, QuietMoves DEF Consider, dirs, rows
<1>18. CASE EvictHeld
  BY <1>18, QuietMoves DEF EvictHeld, dirs, rows
<1>19. CASE MarkEvicted
  BY <1>19, MovesMarkEvicted
<1>20. CASE OrphansBegin
  BY <1>20, QuietMoves DEF OrphansBegin, dirs, rows
<1>21. CASE Correct
  BY <1>21, QuietMoves DEF Correct, dirs, rows
<1>22. CASE Check
  BY <1>22, QuietMoves DEF Check, dirs, rows
<1>23. CASE Purged
  BY <1>23, QuietMoves DEF Purged, dirs, rows
<1>24. CASE ScanCache
  BY <1>24, QuietMoves DEF ScanCache, dirs, rows
<1>25. ASSUME NEW e \in Digests, Visit(e) PROVE Moves(d)
  BY <1>25, QuietMoves DEF Visit, dirs, rows
<1>26. ASSUME NEW e \in Digests, Purge(e) PROVE Moves(d)
  BY <1>26, QuietMoves DEF Purge, dirs, rows
<1>27. CASE LookSpool
  BY <1>27, QuietMoves DEF LookSpool, dirs, rows
<1>28. CASE LookAgain
  BY <1>28, QuietMoves DEF LookAgain, dirs, rows
<1>29. ASSUME NEW e \in Asked, LookCache(e) PROVE Moves(d)
  BY <1>29, QuietMoves DEF LookCache, dirs, rows
<1>30. CASE TimeLimit
  BY <1>30, QuietMoves DEF TimeLimit, dirs, rows
<1>31. CASE OrphansNotDue
  BY <1>31, QuietMoves DEF OrphansNotDue, dirs, rows
<1>32. CASE Restart
  BY <1>32, MovesRestart
<1>33. ASSUME NEW e \in Digests, ReadAges(e) PROVE Moves(d)
  BY <1>33, QuietMoves DEF ReadAges, dirs, rows
<1>34. ASSUME NEW e \in Digests, Outside(e) PROVE Moves(d)
  BY <1>34, MovesOutside
<1>35. CASE UNCHANGED vars
  BY <1>35, QuietMoves DEF vars, dirs, rows
<1>36. QED
  BY <1>1, <1>2, <1>3, <1>4, <1>5, <1>6, <1>7, <1>8, <1>9, <1>10, <1>11, <1>12, <1>13, <1>14,
     <1>15, <1>16, <1>17, <1>18, <1>19, <1>20, <1>21, <1>22, <1>23, <1>24, <1>25, <1>26, <1>27, <1>28, <1>29, <1>30, <1>31, <1>32, <1>33, <1>34, <1>35
  DEF Next, Write, Remove, ReleaseStep, Evict, OrphanPass, Read, Environment, Removers

-----------------------------------------------------------------------------
(* Evicted marks. *)

LEMMA UnmarkedStays ==
    ASSUME Typed, NEW d \in Digests, NEW asOf \in Int, asOf <= clock, Moves(d),
           Unmarked(d, asOf)
    PROVE  Unmarked(d, asOf)'
<1>1. clock \in Int
  BY BoundsAssumption DEF Typed, RowsTyped
<1>2. clock + 1 > asOf
  BY <1>1
<1>3. QED
  BY <1>2 DEF Moves, RowMoves, AwaitMoves, Awaited, Unmarked

LEMMA EvictedStep ==
    ASSUME Inv, \A d \in Digests : Moves(d)
    PROVE  EvictedGone'
<1> SUFFICES ASSUME NEW d \in Digests, row'[d].evicted, d \in spool' \cup cache'
             PROVE  Awaited(d)'
  BY DEF EvictedGone, Awaited
<1>1. Moves(d)
  OBVIOUS
<1>2. CASE d \notin spool \cup cache
  BY <1>1, <1>2 DEF Moves, FileMoves
<1>3. CASE d \in spool \cup cache /\ row[d].evicted
  BY <1>1, <1>3 DEF Moves, AwaitMoves, Inv, EvictedGone, Awaited
<1>4. CASE d \in spool \cup cache /\ ~row[d].evicted
  <2>1. MarkEvicted /\ d = Listed.d
    BY <1>1, <1>4 DEF Moves, RowMoves
  <2>2. sweep.at = "evict" /\ remover["sweep"].at = "gone" /\ d = remover["sweep"].d
    BY <2>1 DEF MarkEvicted, Inv, EvictInv
  <2>3. Unmarked(d, Listed.at)
    BY <1>4, <2>2 DEF Inv, EvictInv
  <2>4. row[d].state # "none" /\ row[d].at <= Listed.at
    BY <1>4, <2>1 DEF MarkEvicted, Inv, Typed, RowsTyped, Row
  <2>5. row[d].at \in Int /\ Listed.at \in Int
    BY <2>2, ListedTyped DEF Inv, Typed, RowsTyped, Row
  <2>6. Awaited(d)
    BY <2>3, <2>4, <2>5 DEF Unmarked, Awaited
  <2>7. QED
    BY <2>1, <2>6 DEF MarkEvicted, Awaited
<1>5. QED
  BY <1>2, <1>3, <1>4

\* The sweeper's eviction goes on as it was.
LEMMA EvictionWaits ==
    ASSUME Inv, \A d \in Digests : Moves(d), sweep' = sweep, remover'["sweep"] = remover["sweep"]
    PROVE  EvictInv'
<1> SUFFICES ASSUME sweep.at = "evict" PROVE EvictInv'
  BY DEF EvictInv
<1>1. Listed \in [d : Digests, at : 0..MaxClock] /\ Listed.at <= clock /\ Listed' = Listed
  BY ListedTyped DEF Inv, Typed, Listed
<1>2. PICK d, asOf : d = Listed.d /\ asOf = Listed.at
  OBVIOUS
<1>3. d \in Digests /\ asOf \in Int /\ asOf <= clock
  BY <1>1, <1>2
<1>4. Unmarked(d, asOf) => Unmarked(d, asOf)'
  BY <1>3, UnmarkedStays DEF Inv
<1>5. /\ d \in spool' => d \in spool \/ Unmarked(d, asOf)'
      /\ d \in cache' => d \in cache \cup spool
  BY <1>3 DEF Moves, FileMoves, Awaited, Unmarked
<1>6. QED
  BY <1>1, <1>2, <1>4, <1>5 DEF Inv, EvictInv, Unmarked

\* ... or takes a step of removeLocal.
LEMMA EvictionRemoves ==
    ASSUME Inv, \A d \in Digests : Moves(d), sweep' = sweep, remover["sweep"].at # "idle",
           remover'["sweep"].d = remover["sweep"].d,
           LET d == remover["sweep"].d IN
           \/ remover'["sweep"].at \in {"held", "failed"}
           \/ remover["sweep"].at = "spool" /\ remover'["sweep"].at = "stat" /\ d \notin spool'
           \/ /\ remover["sweep"].at = "stat"
              /\ \/ remover'["sweep"].at = "unlink"
                 \/ remover'["sweep"].at = "gone" /\ d \notin cache'
           \/ /\ remover["sweep"].at = "unlink" /\ remover'["sweep"].at = "gone"
              /\ d \notin cache'
    PROVE  EvictInv'
<1> SUFFICES ASSUME sweep.at = "evict" PROVE EvictInv'
  BY DEF EvictInv
<1>1. Listed \in [d : Digests, at : 0..MaxClock] /\ Listed.at <= clock /\ Listed' = Listed
  BY ListedTyped DEF Inv, Typed, Listed
<1>2. PICK d, asOf : d = Listed.d /\ asOf = Listed.at
  OBVIOUS
<1>3. d \in Digests /\ asOf \in Int /\ asOf <= clock
  BY <1>1, <1>2
<1>4. Unmarked(d, asOf) => Unmarked(d, asOf)'
  BY <1>3, UnmarkedStays DEF Inv
<1>5. d \in spool' => d \in spool \/ Unmarked(d, asOf)'
  BY <1>3 DEF Moves, FileMoves, Awaited, Unmarked
<1>6. remover["sweep"].d = d
  BY <1>2 DEF Inv, EvictInv
<1>7. QED
  BY <1>1, <1>2, <1>4, <1>5, <1>6 DEF Inv, EvictInv, Unmarked

LEMMA EvictStep ==
    ASSUME Inv, [Next]_vars
    PROVE  EvictInv'
<1>1. ASSUME NEW w \in Writers, NEW d \in Digests, WriteBlob(w, d) PROVE EvictInv'
  BY <1>1, EvictionWaits, EveryStepMoves DEF WriteBlob, dirs, rows, Inv
<1>2. ASSUME NEW w \in Writers, WriteFails(w) PROVE EvictInv'
  BY <1>2, EvictionWaits, EveryStepMoves DEF WriteFails, dirs, rows, Inv
<1>3. ASSUME NEW w \in Writers, Commit(w) PROVE EvictInv'
  BY <1>3, EvictionWaits, EveryStepMoves DEF Commit, dirs, rows, Inv
<1>4. ASSUME NEW w \in Writers, PutIntent(w) PROVE EvictInv'
  BY <1>4, EvictionWaits, EveryStepMoves DEF PutIntent, dirs, rows, Inv
<1>5. ASSUME NEW w \in Writers, Accept(w) PROVE EvictInv'
  BY <1>5, EvictionWaits, EveryStepMoves DEF Accept, dirs, rows, Inv
<1>6. ASSUME NEW w \in Writers, Take(w) PROVE EvictInv'
  BY <1>6, EvictionWaits, EveryStepMoves DEF Take, dirs, rows, Inv
<1>7. ASSUME NEW w \in Writers, Fail(w) PROVE EvictInv'
  BY <1>7, EvictionWaits, EveryStepMoves DEF Fail, dirs, rows, Inv
<1>8. ASSUME NEW a \in Removers, RemoveSpool(a) PROVE EvictInv'
  <2>1. CASE a = "release"
    BY <1>8, <2>1, EvictionWaits, EveryStepMoves DEF RemoveSpool, Inv, Typed, RemoverTyped,
       Removers
  <2>2. CASE a = "sweep"
    <3>1. remover'["sweep"] = [remover["sweep"] EXCEPT !.at = remover'["sweep"].at]
      BY <1>8, <2>2 DEF RemoveSpool, Inv, Typed, RemoverTyped, Removers
    <3>2. QED
      BY <1>8, <2>2, <3>1, EvictionRemoves, EveryStepMoves DEF RemoveSpool, Files, dirs, Inv,
         Typed, RemoverTyped, Removers
  <2>3. QED
    BY <2>1, <2>2 DEF Removers
<1>9. ASSUME NEW a \in Removers, RemoveFails(a) PROVE EvictInv'
  <2>1. CASE a = "release"
    BY <1>9, <2>1, EvictionWaits, EveryStepMoves DEF RemoveFails, Inv, Typed, RemoverTyped,
       Removers
  <2>2. CASE a = "sweep"
    <3>1. remover'["sweep"] = [remover["sweep"] EXCEPT !.at = remover'["sweep"].at]
      BY <1>9, <2>2 DEF RemoveFails, Inv, Typed, RemoverTyped, Removers
    <3>2. QED
      BY <1>9, <2>2, <3>1, EvictionRemoves, EveryStepMoves DEF RemoveFails, Files, dirs, Inv,
         Typed, RemoverTyped, Removers
  <2>3. QED
    BY <2>1, <2>2 DEF Removers
<1>10. ASSUME NEW a \in Removers, StatCache(a) PROVE EvictInv'
  <2>1. CASE a = "release"
    BY <1>10, <2>1, EvictionWaits, EveryStepMoves DEF StatCache, Inv, Typed, RemoverTyped,
       Removers
  <2>2. CASE a = "sweep"
    <3>1. remover'["sweep"] = [remover["sweep"] EXCEPT !.at = remover'["sweep"].at]
      BY <1>10, <2>2 DEF StatCache, Inv, Typed, RemoverTyped, Removers
    <3>2. QED
      BY <1>10, <2>2, <3>1, EvictionRemoves, EveryStepMoves DEF StatCache, Files, dirs, Inv,
         Typed, RemoverTyped, Removers
  <2>3. QED
    BY <2>1, <2>2 DEF Removers
<1>11. ASSUME NEW a \in Removers, UnlinkCache(a) PROVE EvictInv'
  <2>1. CASE a = "release"
    BY <1>11, <2>1, EvictionWaits, EveryStepMoves DEF UnlinkCache, Inv, Typed, RemoverTyped,
       Removers
  <2>2. CASE a = "sweep"
    <3>1. remover'["sweep"] = [remover["sweep"] EXCEPT !.at = remover'["sweep"].at]
      BY <1>11, <2>2 DEF UnlinkCache, Inv, Typed, RemoverTyped, Removers
    <3>2. QED
      BY <1>11, <2>2, <3>1, EvictionRemoves, EveryStepMoves DEF UnlinkCache, Files, dirs, Inv,
         Typed, RemoverTyped, Removers
  <2>3. QED
    BY <2>1, <2>2 DEF Removers
<1>12. CASE DeleteIntent
  BY <1>12, EvictionWaits, EveryStepMoves DEF DeleteIntent, End, dirs, rows, Inv, Typed,
     RemoverTyped, Removers
<1>13. CASE LeaveToWrite
  BY <1>13, EvictionWaits, EveryStepMoves DEF LeaveToWrite, End, dirs, rows, Inv, Typed,
     RemoverTyped, Removers
<1>14. ASSUME NEW d \in Digests, Release(d) PROVE EvictInv'
  BY <1>14, EvictionWaits, EveryStepMoves DEF Release, Begin, dirs, rows, Inv, Typed,
     RemoverTyped, Removers
<1>15. CASE SweepBegin
  <2>1. sweep'.at # "evict"
    BY <1>15, StoppedTo, StageTyped DEF SweepBegin, Inv, Typed, SweepTyped
  <2>2. QED
    BY <2>1 DEF EvictInv
<1>16. CASE List
  <2>1. sweep'.at # "evict"
    BY <1>16, StoppedTo, StageTyped DEF List, Inv, Typed, SweepTyped
  <2>2. QED
    BY <2>1 DEF EvictInv
<1>17. CASE Consider
  <2>1. CASE sweep' \in {Orphans, Stage("read"), Stage("none")} \/ PastRow(TRUE)
    <3>1. sweep'.at # "evict"
      BY <1>17, <2>1, StageTyped, PastRowTyped DEF Consider, rows, Inv, Typed
    <3>2. QED
      BY <3>1 DEF EvictInv
  <2>2. CASE Begin("sweep", Listed.d) /\ sweep' = [sweep EXCEPT !.at = "evict"]
    <3>1. Listed' = Listed /\ remover'["sweep"] = [at |-> "spool", d |-> Listed.d]
      BY <2>2 DEF Begin, Listed, Inv, Typed, SweepTyped, RemoverTyped, Removers
    <3>2. QED
      BY <3>1 DEF EvictInv
  <2>3. QED
    BY <1>17, <2>1, <2>2, StoppedTo DEF Consider
<1>18. CASE EvictHeld
  <2>1. sweep'.at # "evict"
    BY <1>18, PastRowTyped DEF EvictHeld, rows, Inv, Typed
  <2>2. QED
    BY <2>1 DEF EvictInv
<1>19. CASE MarkEvicted
  <2>1. sweep'.at # "evict"
    BY <1>19, PastRowTyped DEF MarkEvicted, rows, Inv, Typed
  <2>2. QED
    BY <2>1 DEF EvictInv
<1>20. CASE OrphansBegin
  <2>1. sweep'.at # "evict"
    BY <1>20, StoppedTo, StageTyped DEF OrphansBegin, Inv, Typed, SweepTyped
  <2>2. QED
    BY <2>1 DEF EvictInv
<1>21. CASE Correct
  <2>1. sweep'.at # "evict"
    BY <1>21, StoppedTo, StageTyped DEF Correct, Inv, Typed, SweepTyped
  <2>2. QED
    BY <2>1 DEF EvictInv
<1>22. CASE Check
  <2>1. sweep'.at # "evict"
    BY <1>22, StoppedTo, StageTyped DEF Check, Inv, Typed, SweepTyped
  <2>2. QED
    BY <2>1 DEF EvictInv
<1>23. CASE Purged
  <2>1. sweep'.at # "evict"
    BY <1>23, StoppedTo, StageTyped DEF Purged, Inv, Typed, SweepTyped
  <2>2. QED
    BY <2>1 DEF EvictInv
<1>24. CASE ScanCache
  <2>1. sweep'.at # "evict"
    BY <1>24, StoppedTo, StageTyped DEF ScanCache, Inv, Typed, SweepTyped
  <2>2. QED
    BY <2>1 DEF EvictInv
<1>25. ASSUME NEW d \in Digests, Visit(d) PROVE EvictInv'
  <2>1. sweep'.at # "evict"
    BY <1>25, StoppedTo, StageTyped DEF Visit, Inv, Typed, SweepTyped
  <2>2. QED
    BY <2>1 DEF EvictInv
<1>26. ASSUME NEW d \in Digests, Purge(d) PROVE EvictInv'
  <2>1. sweep'.at # "evict"
    BY <1>26, StoppedTo, StageTyped DEF Purge, Inv, Typed, SweepTyped
  <2>2. QED
    BY <2>1 DEF EvictInv
<1>27. CASE LookSpool
  BY <1>27, EvictionWaits, EveryStepMoves DEF LookSpool, dirs, rows, Inv
<1>28. CASE LookAgain
  BY <1>28, EvictionWaits, EveryStepMoves DEF LookAgain, dirs, rows, Inv
<1>29. ASSUME NEW d \in Asked, LookCache(d) PROVE EvictInv'
  BY <1>29, EvictionWaits, EveryStepMoves DEF LookCache, dirs, rows, Inv
<1>30. CASE TimeLimit
  <2>1. sweep'.at # "evict"
    BY <1>30, StoppedTo, StageTyped DEF TimeLimit, Inv, Typed, SweepTyped
  <2>2. QED
    BY <2>1 DEF EvictInv
<1>31. CASE OrphansNotDue
  <2>1. sweep'.at # "evict"
    BY <1>31, StoppedTo, StageTyped DEF OrphansNotDue, Inv, Typed, SweepTyped
  <2>2. QED
    BY <2>1 DEF EvictInv
<1>32. CASE Restart
  <2>1. sweep'.at # "evict"
    BY <1>32, StoppedTo, StageTyped DEF Restart, Inv, Typed, SweepTyped
  <2>2. QED
    BY <2>1 DEF EvictInv
<1>33. ASSUME NEW d \in Digests, ReadAges(d) PROVE EvictInv'
  BY <1>33, EvictionWaits, EveryStepMoves DEF ReadAges, dirs, rows, Inv
<1>34. ASSUME NEW d \in Digests, Outside(d) PROVE EvictInv'
  BY <1>34, EvictionWaits, EveryStepMoves DEF Outside, dirs, rows, Inv
<1>35. CASE UNCHANGED vars
  BY <1>35, EvictionWaits, EveryStepMoves DEF vars, Inv
<1>36. QED
  BY <1>1, <1>2, <1>3, <1>4, <1>5, <1>6, <1>7, <1>8, <1>9, <1>10, <1>11, <1>12, <1>13, <1>14,
     <1>15, <1>16, <1>17, <1>18, <1>19, <1>20, <1>21, <1>22, <1>23, <1>24, <1>25, <1>26, <1>27, <1>28, <1>29, <1>30, <1>31, <1>32, <1>33, <1>34, <1>35
  DEF Next, Write, Remove, ReleaseStep, Evict, OrphanPass, Read, Environment, Removers

-----------------------------------------------------------------------------
(* Reads. *)

LEMMA ReadFiles ==
    ASSUME ReadInv, ReaderTyped, NEW S, NEW C, Files(S, C)
    PROVE  ReadInv'
BY DEF ReadInv, ReaderTyped, Files, Lost, Free, LookupFinds

LEMMA ReadStays ==
    ASSUME ReadInv, UNCHANGED <<spool, cache, reader>>
    PROVE  ReadInv'
BY DEF ReadInv, LookupFinds

LEMMA ReadStep ==
    ASSUME Inv, [Next]_vars
    PROVE  ReadInv'
<1>1. ASSUME NEW w \in Writers, NEW d \in Digests, WriteBlob(w, d) PROVE ReadInv'
  BY <1>1, ReadStays DEF WriteBlob, dirs, Inv
<1>2. ASSUME NEW w \in Writers, WriteFails(w) PROVE ReadInv'
  BY <1>2, ReadStays DEF WriteFails, dirs, Inv
<1>3. ASSUME NEW w \in Writers, Commit(w) PROVE ReadInv'
  BY <1>3, ReadFiles, ReadStays DEF Commit, dirs, Inv, Typed
<1>4. ASSUME NEW w \in Writers, PutIntent(w) PROVE ReadInv'
  BY <1>4, ReadStays DEF PutIntent, dirs, Inv
<1>5. ASSUME NEW w \in Writers, Accept(w) PROVE ReadInv'
  BY <1>5, ReadStays DEF Accept, dirs, Inv
<1>6. ASSUME NEW w \in Writers, Take(w) PROVE ReadInv'
  BY <1>6, ReadFiles, ReadStays DEF Take, dirs, Inv, Typed
<1>7. ASSUME NEW w \in Writers, Fail(w) PROVE ReadInv'
  BY <1>7, ReadStays DEF Fail, dirs, Inv
<1>8. ASSUME NEW a \in Removers, RemoveSpool(a) PROVE ReadInv'
  BY <1>8, ReadFiles, ReadStays DEF RemoveSpool, dirs, Inv, Typed
<1>9. ASSUME NEW a \in Removers, RemoveFails(a) PROVE ReadInv'
  BY <1>9, ReadStays DEF RemoveFails, dirs, Inv
<1>10. ASSUME NEW a \in Removers, StatCache(a) PROVE ReadInv'
  BY <1>10, ReadStays DEF StatCache, dirs, Inv
<1>11. ASSUME NEW a \in Removers, UnlinkCache(a) PROVE ReadInv'
  BY <1>11, ReadFiles, ReadStays DEF UnlinkCache, dirs, Inv, Typed
<1>12. CASE DeleteIntent
  BY <1>12, ReadStays DEF DeleteIntent, dirs, Inv
<1>13. CASE LeaveToWrite
  BY <1>13, ReadStays DEF LeaveToWrite, dirs, Inv
<1>14. ASSUME NEW d \in Digests, Release(d) PROVE ReadInv'
  BY <1>14, ReadStays DEF Release, dirs, Inv
<1>15. CASE SweepBegin
  BY <1>15, ReadStays DEF SweepBegin, dirs, Inv
<1>16. CASE List
  BY <1>16, ReadStays DEF List, dirs, Inv
<1>17. CASE Consider
  BY <1>17, ReadStays DEF Consider, dirs, Inv
<1>18. CASE EvictHeld
  BY <1>18, ReadStays DEF EvictHeld, dirs, Inv
<1>19. CASE MarkEvicted
  BY <1>19, ReadStays DEF MarkEvicted, dirs, Inv
<1>20. CASE OrphansBegin
  BY <1>20, ReadStays DEF OrphansBegin, dirs, Inv
<1>21. CASE Correct
  BY <1>21, ReadStays DEF Correct, dirs, Inv
<1>22. CASE Check
  BY <1>22, ReadStays DEF Check, dirs, Inv
<1>23. CASE Purged
  BY <1>23, ReadStays DEF Purged, dirs, Inv
<1>24. CASE ScanCache
  BY <1>24, ReadStays DEF ScanCache, dirs, Inv
<1>25. ASSUME NEW d \in Digests, Visit(d) PROVE ReadInv'
  BY <1>25, ReadStays DEF Visit, dirs, Inv
<1>26. ASSUME NEW d \in Digests, Purge(d) PROVE ReadInv'
  BY <1>26, ReadStays DEF Purge, dirs, Inv
<1>27. CASE LookSpool
  BY <1>27 DEF LookSpool, dirs, Inv, ReadInv, Typed, ReaderTyped, LookupFinds, Free
<1>28. CASE LookAgain
  BY <1>28 DEF LookAgain, dirs, Inv, ReadInv, Typed, ReaderTyped, LookupFinds, Free
<1>29. ASSUME NEW d \in Asked, LookCache(d) PROVE ReadInv'
  BY <1>29 DEF LookCache, dirs, Inv, ReadInv, Typed, ReaderTyped, LookupFinds, Free
<1>30. CASE TimeLimit
  BY <1>30, ReadStays DEF TimeLimit, dirs, Inv
<1>31. CASE OrphansNotDue
  BY <1>31, ReadStays DEF OrphansNotDue, dirs, Inv
<1>32. CASE Restart
  BY <1>32 DEF Restart, dirs, Inv, ReadInv, Typed, ReaderTyped, LookupFinds, Free
<1>33. ASSUME NEW d \in Digests, ReadAges(d) PROVE ReadInv'
  BY <1>33, ReadStays DEF ReadAges, dirs, Inv
<1>34. ASSUME NEW d \in Digests, Outside(d) PROVE ReadInv'
  BY <1>34, ReadFiles, ReadStays DEF Outside, dirs, Inv, Typed
<1>35. CASE UNCHANGED vars
  BY <1>35, ReadStays DEF vars, dirs, rows, Inv
<1>36. QED
  BY <1>1, <1>2, <1>3, <1>4, <1>5, <1>6, <1>7, <1>8, <1>9, <1>10, <1>11, <1>12, <1>13, <1>14,
     <1>15, <1>16, <1>17, <1>18, <1>19, <1>20, <1>21, <1>22, <1>23, <1>24, <1>25, <1>26, <1>27, <1>28, <1>29, <1>30, <1>31, <1>32, <1>33, <1>34, <1>35
  DEF Next, Write, Remove, ReleaseStep, Evict, OrphanPass, Read, Environment, Removers

-----------------------------------------------------------------------------

LEMMA TypeStep ==
    ASSUME Typed, [Next]_vars
    PROVE  Typed'
<1>1. ASSUME NEW w \in Writers, NEW d \in Digests, WriteBlob(w, d) PROVE Typed'
  BY <1>1, TypeWriteBlob
<1>2. ASSUME NEW w \in Writers, WriteFails(w) PROVE Typed'
  BY <1>2, TypeWriteFails
<1>3. ASSUME NEW w \in Writers, Commit(w) PROVE Typed'
  BY <1>3, TypeCommit
<1>4. ASSUME NEW w \in Writers, PutIntent(w) PROVE Typed'
  BY <1>4, TypePutIntent
<1>5. ASSUME NEW w \in Writers, Accept(w) PROVE Typed'
  BY <1>5, TypeAccept
<1>6. ASSUME NEW w \in Writers, Take(w) PROVE Typed'
  BY <1>6, TypeTake
<1>7. ASSUME NEW w \in Writers, Fail(w) PROVE Typed'
  BY <1>7, TypeFail
<1>8. ASSUME NEW a \in Removers, RemoveSpool(a) PROVE Typed'
  BY <1>8, TypeRemoveSpool
<1>9. ASSUME NEW a \in Removers, RemoveFails(a) PROVE Typed'
  BY <1>9, TypeRemoveFails
<1>10. ASSUME NEW a \in Removers, StatCache(a) PROVE Typed'
  BY <1>10, TypeStatCache
<1>11. ASSUME NEW a \in Removers, UnlinkCache(a) PROVE Typed'
  BY <1>11, TypeUnlinkCache
<1>12. CASE DeleteIntent
  BY <1>12, TypeDeleteIntent
<1>13. CASE LeaveToWrite
  BY <1>13, TypeLeaveToWrite
<1>14. ASSUME NEW d \in Digests, Release(d) PROVE Typed'
  BY <1>14, TypeRelease
<1>15. CASE SweepBegin
  BY <1>15, TypeSweepBegin
<1>16. CASE List
  BY <1>16, TypeList
<1>17. CASE Consider
  BY <1>17, TypeConsider
<1>18. CASE EvictHeld
  BY <1>18, TypeEvictHeld
<1>19. CASE MarkEvicted
  BY <1>19, TypeMarkEvicted
<1>20. CASE OrphansBegin
  BY <1>20, TypeOrphansBegin
<1>21. CASE Correct
  BY <1>21, TypeCorrect
<1>22. CASE Check
  BY <1>22, TypeCheck
<1>23. CASE Purged
  BY <1>23, TypePurged
<1>24. CASE ScanCache
  BY <1>24, TypeScanCache
<1>25. ASSUME NEW d \in Digests, Visit(d) PROVE Typed'
  BY <1>25, TypeVisit
<1>26. ASSUME NEW d \in Digests, Purge(d) PROVE Typed'
  BY <1>26, TypePurge
<1>27. CASE LookSpool
  BY <1>27, TypeLookSpool
<1>28. CASE LookAgain
  BY <1>28, TypeLookAgain
<1>29. ASSUME NEW d \in Asked, LookCache(d) PROVE Typed'
  BY <1>29, TypeLookCache
<1>30. CASE TimeLimit
  BY <1>30, TypeTimeLimit
<1>31. CASE OrphansNotDue
  BY <1>31, TypeOrphansNotDue
<1>32. CASE Restart
  BY <1>32, TypeRestart
<1>33. ASSUME NEW d \in Digests, ReadAges(d) PROVE Typed'
  BY <1>33, TypeReadAges
<1>34. ASSUME NEW d \in Digests, Outside(d) PROVE Typed'
  BY <1>34, TypeOutside
<1>35. CASE UNCHANGED vars
  BY <1>35 DEF vars, dirs, rows, Typed, FilesTyped, RowsTyped, WriterTyped, RemoverTyped,
     ReaderTyped, SweepTyped
<1>36. QED
  BY <1>1, <1>2, <1>3, <1>4, <1>5, <1>6, <1>7, <1>8, <1>9, <1>10, <1>11, <1>12, <1>13, <1>14,
     <1>15, <1>16, <1>17, <1>18, <1>19, <1>20, <1>21, <1>22, <1>23, <1>24, <1>25, <1>26, <1>27, <1>28, <1>29, <1>30, <1>31, <1>32, <1>33, <1>34, <1>35
  DEF Next, Write, Remove, ReleaseStep, Evict, OrphanPass, Read, Environment, Removers

LEMMA InitInv == Init => Inv
<1> SUFFICES ASSUME Init PROVE Inv
  OBVIOUS
<1>1. FilesTyped /\ WriterTyped /\ RemoverTyped /\ ReaderTyped
  BY KeptAssumption DEF Init, Free, FilesTyped, WriterTyped, RemoverTyped, ReaderTyped,
     WriterSteps,
     RemoverSteps, Removers
<1>2. RowsTyped
  BY BoundsAssumption, KeptAssumption DEF Init, RowsTyped, Row, NoRow
<1>3. SweepTyped
  BY BoundsAssumption DEF Init, SweepTyped, SweepSteps, Rest
<1>4. ReadInv /\ EvictInv
  BY DEF Init, ReadInv, EvictInv, LookupFinds, Free, Rest
<1>5. EvictedGone
  BY <1>2 DEF Init, EvictedGone, NoRow
<1>6. QED
  BY <1>1, <1>2, <1>3, <1>4, <1>5 DEF Inv, Typed

LEMMA InvStep == Inv /\ [Next]_vars => Inv'
<1> SUFFICES ASSUME Inv, [Next]_vars PROVE Inv'
  OBVIOUS
<1>1. \A d \in Digests : Moves(d)
  BY EveryStepMoves DEF Inv
<1>2. Typed'
  BY TypeStep DEF Inv
<1>3. EvictedGone'
  BY <1>1, EvictedStep
<1>4. EvictInv' /\ ReadInv'
  BY EvictStep, ReadStep
<1>5. QED
  BY <1>2, <1>3, <1>4 DEF Inv

\* A row marked evicted has no local file but one a write has yet to record,
\* for any writes, page size and number of rows, however releases, sweeps,
\* operators and restarts come between (evictToBudget, MarkEvicted's asOf).
THEOREM EvictedAreGone == Spec => []EvictedGone
<1>1. Inv => EvictedGone
  BY DEF Inv
<1>2. QED
  BY <1>1, InitInv, InvStep, PTL DEF Spec

\* A read of a blob that nothing removes never misses it, whatever moves
\* between the directories meanwhile (localLookup).
THEOREM LookupsFind == Spec => []LookupFinds
<1>1. Inv => LookupFinds
  BY DEF Inv, ReadInv
<1>2. QED
  BY <1>1, InitInv, InvStep, PTL DEF Spec

-----------------------------------------------------------------------------
(* Sums over finite sets. *)

Chosen(s)     == CHOOSE x \in s : TRUE
Adds(f, S, g) == g = [s \in SUBSET S |-> IF s = {} THEN 0 ELSE f[Chosen(s)] + g[s \ {Chosen(s)}]]
Adder(f, S)   == CHOOSE g : Adds(f, S, g)

LEMMA TotalIsAdder == ASSUME NEW f, NEW S PROVE Total(f, S) = Adder(f, S)[S]
BY DEF Total, MapThenSumSet, MapThenFoldSet, Adder, Adds, Chosen

LEMMA ChosenIn == ASSUME NEW s, s # {} PROVE Chosen(s) \in s
BY DEF Chosen

\* A set of subsets of a finite set has a member none of whose strict subsets
\* is in it.
LEMMA LeastSubset ==
    ASSUME NEW S, IsFiniteSet(S), NEW T, T \subseteq SUBSET S, T # {}
    PROVE  \E x \in T : \A y \in SUBSET x : y \in T => y = x
<1>1. IsWellFoundedOn(StrictSubsetOrdering(S), FiniteSubsetsOf(S))
  BY FS_StrictSubsetOrderingWellFounded
<1>2. FiniteSubsetsOf(S) = SUBSET S
  BY FS_FiniteSubsetsOfFinite
<1>3. PICK x \in T : \A y \in T : ~(<<y, x>> \in StrictSubsetOrdering(S))
  BY <1>1, <1>2, WFMin
<1>4. QED
  BY <1>3 DEF StrictSubsetOrdering

\* Two adders agree where what they add does.
LEMMA AddersAgree ==
    ASSUME NEW f, NEW S, NEW g, Adds(f, S, g),
           NEW e, NEW R, NEW h, Adds(e, R, h),
           NEW s, s \subseteq S, s \subseteq R, IsFiniteSet(s), \A x \in s : f[x] = e[x]
    PROVE  g[s] = h[s]
<1> DEFINE T == {t \in SUBSET s : g[t] # h[t]}
<1> SUFFICES ASSUME T # {} PROVE FALSE
  OBVIOUS
<1>1. PICK t \in T : \A y \in SUBSET t : y \in T => y = t
  <2>1. T \subseteq SUBSET s
    OBVIOUS
  <2> HIDE DEF T
  <2>2. QED
    BY <2>1, LeastSubset
<1>2. t \in SUBSET S /\ t \in SUBSET R
  OBVIOUS
<1>3. g[t] = IF t = {} THEN 0 ELSE f[Chosen(t)] + g[t \ {Chosen(t)}]
  BY <1>2 DEF Adds
<1>4. h[t] = IF t = {} THEN 0 ELSE e[Chosen(t)] + h[t \ {Chosen(t)}]
  BY <1>2 DEF Adds
<1>5. CASE t = {}
  BY <1>3, <1>4, <1>5
<1>6. CASE t # {}
  <2>1. Chosen(t) \in t
    BY <1>6, ChosenIn
  <2>2. g[t \ {Chosen(t)}] = h[t \ {Chosen(t)}]
    BY <1>1, <2>1
  <2>3. f[Chosen(t)] = e[Chosen(t)]
    BY <2>1
  <2>4. QED
    BY <1>3, <1>4, <1>6, <2>2, <2>3
<1>7. QED
  BY <1>5, <1>6

\* There is an adder for every finite set of natural weights.
LEMMA AdderAdds ==
    ASSUME NEW S, IsFiniteSet(S), NEW f, \A x \in S : f[x] \in Nat
    PROVE  Adds(f, S, Adder(f, S)) /\ \A s \in SUBSET S : Adder(f, S)[s] \in Nat
<1> DEFINE Good(R) == Adds(f, R, Adder(f, R)) /\ \A s \in SUBSET R : Adder(f, R)[s] \in Nat
           T       == {R \in SUBSET S : ~Good(R)}
<1> SUFFICES ASSUME T # {} PROVE FALSE
  OBVIOUS
<1>1. PICK R \in T : \A y \in SUBSET R : y \in T => y = R
  <2>1. T \subseteq SUBSET S
    OBVIOUS
  <2> HIDE DEF T
  <2>2. QED
    BY <2>1, LeastSubset
<1>2. \A s \in SUBSET R : s # R => Good(s)
  BY <1>1
<1>3. \A s \in SUBSET R : IsFiniteSet(s)
  BY FS_Subset
<1> DEFINE D    == Chosen(R)
           h[s \in SUBSET R] ==
             IF s = R THEN (IF R = {} THEN 0 ELSE f[D] + Adder(f, R \ {D})[R \ {D}])
                      ELSE Adder(f, s)[s]
<1> HIDE DEF Good
<1>4. ASSUME NEW s \in SUBSET R, s # R, s # {}
      PROVE  h[s] = f[Chosen(s)] + h[s \ {Chosen(s)}]
  <2>1. Chosen(s) \in s
    BY <1>4, ChosenIn
  <2> DEFINE t == s \ {Chosen(s)}
  <2>2. t \in SUBSET R /\ t # R /\ t \subseteq s /\ IsFiniteSet(t)
    BY <1>3, <1>4, <2>1
  <2>3. Adds(f, s, Adder(f, s)) /\ Adds(f, t, Adder(f, t))
    BY <1>2, <1>4, <2>2 DEF Good
  <2>4. Adder(f, s)[t] = Adder(f, t)[t]
    BY <2>2, <2>3, AddersAgree
  <2>5. s \in SUBSET s
    OBVIOUS
  <2>6. Adder(f, s)[s] = f[Chosen(s)] + Adder(f, s)[t]
    BY <1>4, <2>3, <2>5 DEF Adds
  <2>7. h[s] = Adder(f, s)[s] /\ h[t] = Adder(f, t)[t]
    BY <1>4, <2>2
  <2>8. QED
    BY <2>4, <2>6, <2>7
<1>5. R # {} => h[R] = f[D] + h[R \ {D}]
  <2> SUFFICES ASSUME R # {} PROVE h[R] = f[D] + h[R \ {D}]
    OBVIOUS
  <2>1. D \in R
    BY ChosenIn
  <2>2. R \ {D} \in SUBSET R /\ R \ {D} # R /\ R \in SUBSET R
    BY <2>1
  <2>3. QED
    BY <2>2
<1>6. h[{}] = 0
  <2>1. CASE R = {}
    BY <2>1
  <2>2. CASE R # {}
    <3>1. {} \in SUBSET R /\ {} # R /\ {} \in SUBSET {}
      BY <2>2
    <3>2. Adder(f, {})[{}] = 0
      BY <1>2, <3>1 DEF Good, Adds
    <3>3. QED
      BY <3>1, <3>2
  <2>3. QED
    BY <2>1, <2>2
<1>7. Adds(f, R, h)
  <2>1. \A s \in SUBSET R : h[s] = IF s = {} THEN 0 ELSE f[Chosen(s)] + h[s \ {Chosen(s)}]
    BY <1>4, <1>5, <1>6
  <2>2. h = [s \in SUBSET R |-> h[s]]
    OBVIOUS
  <2> HIDE DEF h
  <2>3. QED
    BY <2>1, <2>2 DEF Adds
<1>8. Adds(f, R, Adder(f, R))
  BY <1>7 DEF Adder
<1>9. ASSUME NEW s \in SUBSET R PROVE Adder(f, R)[s] \in Nat
  <2>1. CASE s = {}
    BY <1>8, <2>1 DEF Adds
  <2>2. CASE s # {}
    <3>1. Chosen(s) \in s
      BY <2>2, ChosenIn
    <3> DEFINE t == s \ {Chosen(s)}
    <3>2. t \in SUBSET R /\ t # R /\ IsFiniteSet(t) /\ t \in SUBSET t
      BY <1>3, <3>1
    <3>3. Adds(f, t, Adder(f, t)) /\ Adder(f, t)[t] \in Nat
      BY <1>2, <3>2 DEF Good
    <3>4. Adder(f, R)[t] = Adder(f, t)[t]
      BY <1>8, <3>2, <3>3, AddersAgree
    <3>5. Adder(f, R)[s] = f[Chosen(s)] + Adder(f, R)[t]
      BY <1>8, <2>2 DEF Adds
    <3>6. f[Chosen(s)] \in Nat
      BY <3>1
    <3>7. QED
      BY <3>3, <3>4, <3>5, <3>6
  <2>3. QED
    BY <2>1, <2>2
<1>10. QED
  BY <1>1, <1>8, <1>9 DEF Good

\* A total is a natural number,
LEMMA TotalNat ==
    ASSUME NEW S, IsFiniteSet(S), NEW f, \A x \in S : f[x] \in Nat
    PROVE  Total(f, S) \in Nat
<1>1. S \in SUBSET S
  OBVIOUS
<1>2. QED
  BY <1>1, AdderAdds, TotalIsAdder

\* zero over nothing,
LEMMA TotalEmpty == ASSUME NEW f PROVE Total(f, {}) = 0
<1>1. IsFiniteSet({}) /\ \A x \in {} : f[x] \in Nat
  BY FS_EmptySet
<1>2. Adds(f, {}, Adder(f, {})) /\ {} \in SUBSET {}
  BY <1>1, AdderAdds
<1>3. QED
  BY <1>2, TotalIsAdder DEF Adds

\* the same wherever the weights are,
LEMMA TotalSame ==
    ASSUME NEW S, IsFiniteSet(S), NEW f, NEW e, \A x \in S : f[x] \in Nat /\ e[x] = f[x]
    PROVE  Total(f, S) = Total(e, S)
<1>1. Adds(f, S, Adder(f, S)) /\ Adds(e, S, Adder(e, S))
  BY AdderAdds
<1>2. QED
  BY <1>1, AddersAgree, TotalIsAdder

\* and each member adds its weight, in whatever order they are taken.
LEMMA TotalOf ==
    ASSUME NEW S, IsFiniteSet(S), NEW f, \A x \in S : f[x] \in Nat, NEW x \in S
    PROVE  Total(f, S) = f[x] + Total(f, S \ {x})
<1> DEFINE g == Adder(f, S)
           T == {s \in SUBSET S : \E y \in s : g[s] # f[y] + g[s \ {y}]}
<1>1. Adds(f, S, g) /\ \A s \in SUBSET S : g[s] \in Nat
  BY AdderAdds
<1>2. T = {}
  <2> SUFFICES ASSUME T # {} PROVE FALSE
    OBVIOUS
  <2>1. PICK s \in T : \A y \in SUBSET s : y \in T => y = s
    <3>1. T \subseteq SUBSET S
      OBVIOUS
    <3> HIDE DEF T
    <3>2. QED
      BY <3>1, LeastSubset
  <2>2. PICK y \in s : g[s] # f[y] + g[s \ {y}]
    BY <2>1
  <2> HIDE DEF g
  <2> DEFINE z == Chosen(s)
             r == (s \ {y}) \ {z}
  <2>3. z \in s /\ s \in SUBSET S
    BY <2>2, ChosenIn
  <2>4. g[s] = f[z] + g[s \ {z}]
    BY <1>1, <2>2, <2>3 DEF Adds
  <2>5. z # y
    BY <2>2, <2>4
  <2>6. /\ s \ {z} \in SUBSET S /\ s \ {y} \in SUBSET S /\ s \ {z} # s /\ s \ {y} # s
        /\ s \ {z} \in SUBSET s /\ s \ {y} \in SUBSET s
    BY <2>3
  <2>7. s \ {z} \notin T /\ s \ {y} \notin T
    <3> HIDE DEF T, z
    <3> QED
      BY <2>1, <2>6
  <2>8. y \in s \ {z} /\ z \in s \ {y}
    BY <2>3, <2>5
  <2>9. g[s \ {z}] = f[y] + g[(s \ {z}) \ {y}] /\ g[s \ {y}] = f[z] + g[r]
    BY <2>6, <2>7, <2>8
  <2>10. (s \ {z}) \ {y} = r /\ r \in SUBSET S
    BY <2>3
  <2>11. f[y] \in Nat /\ f[z] \in Nat /\ g[r] \in Nat
    BY <1>1, <2>3, <2>10
  <2>12. g[s] = f[y] + g[s \ {y}]
    <3>1. g[s \ {z}] = f[y] + g[r]
      BY <2>9, <2>10
    <3> HIDE DEF r, z
    <3>2. QED
      BY <2>4, <2>9, <2>11, <3>1
  <2>13. QED
    BY <2>2, <2>12
<1>3. g[S] = f[x] + g[S \ {x}]
  BY <1>2
<1> DEFINE R == S \ {x}
<1>4. IsFiniteSet(R) /\ R \subseteq S
  BY FS_Subset
<1>5. Adds(f, R, Adder(f, R))
  BY <1>4, AdderAdds
<1>6. g[R] = Adder(f, R)[R]
  <2> HIDE DEF g, R
  <2> QED
    BY <1>1, <1>4, <1>5, AddersAgree
<1>7. QED
  BY <1>3, <1>6, TotalIsAdder

LEMMA TotalZero ==
    ASSUME NEW S, IsFiniteSet(S), NEW f, \A x \in S : f[x] = 0
    PROVE  Total(f, S) = 0
<1> DEFINE T == {s \in SUBSET S : Total(f, s) # 0}
<1> SUFFICES ASSUME T # {} PROVE FALSE
  OBVIOUS
<1>1. PICK s \in T : \A y \in SUBSET s : y \in T => y = s
  <2>1. T \subseteq SUBSET S
    OBVIOUS
  <2> HIDE DEF T
  <2>2. QED
    BY <2>1, LeastSubset
<1>2. s # {}
  BY TotalEmpty
<1>3. PICK x \in s : TRUE
  BY <1>2
<1>4. Total(f, s \ {x}) = 0
  BY <1>1, <1>3
<1>5. IsFiniteSet(s) /\ \A y \in s : f[y] \in Nat
  BY FS_Subset
<1>6. Total(f, s) = f[x] + Total(f, s \ {x})
  BY <1>5, TotalOf
<1>7. QED
  BY <1>3, <1>4, <1>6

LEMMA SizeNat == ASSUME NEW d \in Digests PROVE Size[d] \in Nat
BY SizeAssumption

LEMMA SumNat == ASSUME NEW S \in SUBSET Digests PROVE Sum(S) \in Nat
BY FiniteAssumption, FS_Subset, SizeNat, TotalNat DEF Sum

\* A file that comes, and one that goes.
LEMMA SumWith ==
    ASSUME NEW S \in SUBSET Digests, NEW d \in Digests, d \notin S
    PROVE  Sum(S \cup {d}) = Sum(S) + Size[d]
<1> DEFINE R == S \cup {d}
<1>1. IsFiniteSet(R) /\ R \subseteq Digests /\ d \in R /\ R \ {d} = S
  BY FiniteAssumption, FS_Subset
<1> HIDE DEF R
<1>2. Total(Size, R) = Size[d] + Total(Size, R \ {d})
  BY <1>1, SizeNat, TotalOf
<1>3. Sum(R) = Size[d] + Sum(S)
  BY <1>1, <1>2 DEF Sum
<1>4. QED
  BY <1>3, SumNat, SizeNat DEF R

LEMMA SumWithout ==
    ASSUME NEW S \in SUBSET Digests, NEW d \in S
    PROVE  Sum(S) = Sum(S \ {d}) + Size[d]
<1>1. S \ {d} \in SUBSET Digests /\ d \in Digests /\ (S \ {d}) \cup {d} = S
  OBVIOUS
<1> DEFINE R == S \ {d}
<1>2. d \notin R
  OBVIOUS
<1> HIDE DEF R
<1>3. Sum(R \cup {d}) = Sum(R) + Size[d]
  BY <1>1, <1>2, SumWith DEF R
<1>4. QED
  BY <1>1, <1>3 DEF R

\* Counts as files come and go.
LEMMA CoversWith ==
    ASSUME NEW S \in SUBSET Digests, NEW n, NEW sure \in BOOLEAN, Covers(S, n, sure), NEW d \in Digests
    PROVE  Covers(S \cup {d}, n + (IF d \in S THEN 0 ELSE Size[d]), sure)
<1>1. CASE d \in S
  <2>1. S \cup {d} = S
    BY <1>1
  <2>2. QED
    BY <1>1, <2>1 DEF Covers
<1>2. CASE d \notin S
  <2>1. Sum(S \cup {d}) = Sum(S) + Size[d] /\ Sum(S) \in Nat /\ Size[d] \in Nat
    BY <1>2, SumWith, SumNat, SizeNat
  <2>2. QED
    BY <1>2, <2>1 DEF Covers
<1>3. QED
  BY <1>1, <1>2

LEMMA CoversWithout ==
    ASSUME NEW S \in SUBSET Digests, NEW n, NEW sure \in BOOLEAN, Covers(S, n, sure), NEW d \in S
    PROVE  Covers(S \ {d}, n - Size[d], sure) /\ Covers(S \ {d}, n, FALSE)
<1>1. Sum(S) = Sum(S \ {d}) + Size[d] /\ Sum(S \ {d}) \in Nat /\ Size[d] \in Nat
  BY SumWithout, SumNat, SizeNat
<1>2. QED
  BY <1>1 DEF Covers

\* What a write has in flight changes with that write alone.
LEMMA FlightMoves ==
    ASSUME NEW w \in Writers, \A v \in Writers : InFlight[v] \in Nat /\ InFlight'[v] \in Nat,
           \A v \in Writers \ {w} : InFlight'[v] = InFlight[v]
    PROVE  /\ Total(InFlight, Writers) \in Nat
           /\ Total(InFlight, Writers) >= InFlight[w]
           /\ Total(InFlight', Writers) = Total(InFlight, Writers) - InFlight[w] + InFlight'[w]
<1>1. PICK f, e : f = InFlight /\ e = InFlight'
  OBVIOUS
<1> DEFINE R == Writers \ {w}
<1>2. IsFiniteSet(R) /\ IsFiniteSet(Writers)
  BY FiniteAssumption, FS_Subset
<1>3. (\A v \in Writers : f[v] \in Nat /\ e[v] \in Nat) /\ \A v \in R : f[v] \in Nat /\ e[v] = f[v]
  BY <1>1
<1>4. Total(f, Writers) = f[w] + Total(f, R) /\ Total(e, Writers) = e[w] + Total(e, R)
  BY <1>2, <1>3, TotalOf
<1> HIDE DEF R
<1>5. Total(f, R) = Total(e, R) /\ Total(f, R) \in Nat
  BY <1>2, <1>3, TotalSame, TotalNat DEF R
<1>6. Total(f, Writers) \in Nat /\ f[w] \in Nat /\ e[w] \in Nat
  BY <1>3, <1>4, <1>5
<1>7. Total(f, Writers) >= f[w] /\ Total(e, Writers) = Total(f, Writers) - f[w] + e[w]
  BY <1>4, <1>5, <1>6
<1>8. QED
  BY <1>1, <1>6, <1>7

LEMMA FlightNat ==
    ASSUME WriterTyped, NEW v \in Writers
    PROVE  InFlight[v] \in Nat /\ (writer[v].at = "temp" => InFlight[v] = Size[writer[v].d])
           /\ (writer[v].at # "temp" => InFlight[v] = 0)
BY SizeNat DEF InFlight, WriterTyped

LEMMA FlightSame ==
    ASSUME WriterTyped, UNCHANGED bytes, FlightCounted, WriterTyped',
           \A v \in Writers : writer[v].at = "temp" \/ writer'[v].at = "temp" => writer'[v] = writer[v]
    PROVE  FlightCounted'
<1>1. InFlight' = InFlight
  BY DEF InFlight
<1>2. QED
  BY <1>1 DEF FlightCounted

-----------------------------------------------------------------------------
(* The counts, step by step. *)

\* What the process touches is scanned in vain; the rest is as it was.
LEMMA ScanTouched ==
    ASSUME CountTyped, ScanCounted, NEW changed, Touch(changed), UNCHANGED <<doubt, sweep>>,
           bytes' \in [spool : Nat, cache : Nat, flight : Nat],
           "spool" \in changed \/ spool' = spool, "cache" \in changed \/ cache' = cache
    PROVE  CountTyped' /\ ScanCounted'
<1>1. /\ scan' \in [dir : {"none", "spool", "cache"}, todo : SUBSET Digests, total : Nat,
                    touched : BOOLEAN, outside : BOOLEAN]
      /\ scan'.dir = scan.dir /\ scan'.todo = scan.todo /\ scan'.total = scan.total
      /\ scan'.outside = scan.outside /\ scan'.touched = (scan.touched \/ scan.dir \in changed)
  BY DEF Touch, CountTyped
<1>2. ~scan'.touched /\ scan.dir # "none" => Dir(scan.dir)' = Dir(scan.dir)
  BY <1>1 DEF Dir, CountTyped
<1>3. CountTyped'
  BY <1>1 DEF CountTyped
<1>4. ASSUME scan'.dir # "none", ~scan'.touched
      PROVE  Covers(Dir(scan.dir), scan.total + Sum(scan.todo \cap Dir(scan.dir)), ~scan.outside)'
  <2>1. Covers(Dir(scan.dir), scan.total + Sum(scan.todo \cap Dir(scan.dir)), ~scan.outside)
    BY <1>1, <1>4 DEF ScanCounted
  <2>2. PICK S : S = Dir(scan.dir) /\ S = Dir(scan.dir)'
    BY <1>1, <1>2, <1>4
  <2>3. QED
    BY <1>1, <2>1, <2>2 DEF Covers, Sum
<1>5. QED
  BY <1>1, <1>3, <1>4 DEF ScanCounted

LEMMA CountQuiet ==
    ASSUME Typed, Typed', Counted, UNCHANGED <<dirs, doubt>>,
           sweep'.at = "scan" => sweep.at = "scan",
           \A v \in Writers : writer[v].at = "temp" \/ writer'[v].at = "temp" => writer'[v] = writer[v]
    PROVE  Counted'
<1>1. FlightCounted'
  BY FlightSame DEF Typed, Counted, dirs
<1>2. QED
  BY <1>1 DEF Counted, CountTyped, SpoolCounted, CacheCounted, ScanCounted, dirs, Dir, Covers, Sum

LEMMA CountWriteBlob ==
    ASSUME Typed, Typed', Counted, NEW w \in Writers, NEW d \in Digests, WriteBlob(w, d)
    PROVE  Counted'
<1>1. /\ InFlight[w] = 0 /\ InFlight'[w] = Size[d] /\ Size[d] \in Nat
      /\ \A v \in Writers \ {w} : writer'[v] = writer[v]
      /\ \A v \in Writers \ {w} : InFlight'[v] = InFlight[v]
  BY SizeNat DEF WriteBlob, InFlight, Typed, WriterTyped
<1>2. \A v \in Writers : InFlight[v] \in Nat /\ InFlight'[v] \in Nat
  BY <1>1, FlightNat DEF Typed
<1>3. /\ Total(InFlight, Writers) \in Nat
      /\ Total(InFlight', Writers) = Total(InFlight, Writers) + Size[d]
  BY <1>1, <1>2, FlightMoves
<1>4. /\ bytes' \in [spool : Nat, cache : Nat, flight : Nat]
      /\ bytes'.spool = bytes.spool /\ bytes'.cache = bytes.cache
      /\ bytes'.flight = bytes.flight + Size[d]
  BY <1>1 DEF WriteBlob, Counted, CountTyped
<1>5. FlightCounted'
  BY <1>3, <1>4 DEF Counted, FlightCounted
<1>6. UNCHANGED <<spool, cache, scan, sweep, doubt>>
  BY DEF WriteBlob
<1>7. QED
  BY <1>4, <1>5, <1>6 DEF Counted, CountTyped, SpoolCounted, CacheCounted, ScanCounted, Dir,
     Covers, Sum

\* A write that stops being in flight.
LEMMA Landed ==
    ASSUME Typed, Typed', Counted, NEW w \in Writers, writer[w].at = "temp", writer'[w].at # "temp",
           \A v \in Writers \ {w} : writer'[v] = writer[v]
    PROVE  /\ bytes.flight - Size[writer[w].d] \in Nat /\ writer[w].d \in Digests
           /\ bytes'.flight = bytes.flight - Size[writer[w].d] => FlightCounted'
<1>1. /\ InFlight[w] = Size[writer[w].d] /\ InFlight'[w] = 0
      /\ \A v \in Writers \ {w} : InFlight'[v] = InFlight[v]
      /\ writer[w].d \in Digests
  BY DEF InFlight, Typed, WriterTyped
<1>2. \A v \in Writers : InFlight[v] \in Nat /\ InFlight'[v] \in Nat
  BY <1>1, FlightNat DEF Typed
<1>3. /\ Total(InFlight, Writers) \in Nat /\ Size[writer[w].d] \in Nat
      /\ Total(InFlight, Writers) >= Size[writer[w].d]
      /\ Total(InFlight', Writers) = Total(InFlight, Writers) - Size[writer[w].d]
  BY <1>1, <1>2, FlightMoves, SizeNat
<1>4. QED
  BY <1>1, <1>3 DEF Counted, FlightCounted

LEMMA CountWriteFails ==
    ASSUME Typed, Typed', Counted, NEW w \in Writers, WriteFails(w)
    PROVE  Counted'
<1>1. writer[w].at = "temp" /\ writer'[w].at # "temp" /\ \A v \in Writers \ {w} : writer'[v] = writer[v]
  BY DEF WriteFails, Free, Typed, WriterTyped
<1>2. /\ bytes.flight - Size[writer[w].d] \in Nat
      /\ bytes'.flight = bytes.flight - Size[writer[w].d] => FlightCounted'
  BY <1>1, Landed
<1>3. /\ bytes' \in [spool : Nat, cache : Nat, flight : Nat]
      /\ bytes'.spool = bytes.spool /\ bytes'.cache = bytes.cache
      /\ bytes'.flight = bytes.flight - Size[writer[w].d]
  BY <1>2 DEF WriteFails, Counted, CountTyped
<1>4. UNCHANGED <<spool, cache, scan, sweep, doubt>>
  BY DEF WriteFails
<1>5. QED
  BY <1>2, <1>3, <1>4 DEF Counted, CountTyped, SpoolCounted, CacheCounted, ScanCounted, Dir,
     Covers, Sum

LEMMA CountCommit ==
    ASSUME Typed, Typed', Counted, NEW w \in Writers, Commit(w)
    PROVE  Counted'
<1> DEFINE d == writer[w].d
           n == IF d \in spool THEN 0 ELSE Size[d]
<1>1. writer[w].at = "temp" /\ writer'[w].at # "temp" /\ \A v \in Writers \ {w} : writer'[v] = writer[v]
  BY DEF Commit, Go, Typed, WriterTyped
<1>2. /\ bytes.flight - Size[d] \in Nat /\ d \in Digests
      /\ bytes'.flight = bytes.flight - Size[d] => FlightCounted'
  BY <1>1, Landed
<1>3. n \in Nat
  BY <1>2, SizeNat
<1>4. /\ bytes' \in [spool : Nat, cache : Nat, flight : Nat]
      /\ bytes'.spool = bytes.spool + n /\ bytes'.cache = bytes.cache
      /\ bytes'.flight = bytes.flight - Size[d]
  <2>1. PICK x \in Nat, y \in Nat : x = bytes.spool + n /\ y = bytes.flight - Size[d]
    <3>1. bytes.spool \in Nat
      BY DEF Counted, CountTyped
    <3>2. bytes.spool + n \in Nat
      BY <1>3, <3>1
    <3>3. QED
      BY <1>2, <3>2
  <2>2. bytes' = [bytes EXCEPT !.spool = x, !.flight = y]
    BY <2>1 DEF Commit
  <2>3. QED
    BY <2>1, <2>2 DEF Counted, CountTyped
<1>5. UNCHANGED <<cache, sweep, doubt>> /\ Touch({"spool"}) /\ spool' = spool \cup {d}
  BY DEF Commit, Files
<1>6. CountTyped' /\ ScanCounted'
  BY <1>4, <1>5, ScanTouched DEF Counted
<1>7. SpoolCounted'
  <2>1. Covers(spool \cup {d}, bytes.spool + n, "spool" \notin doubt)
    BY <1>2, CoversWith DEF Counted, SpoolCounted, Typed, FilesTyped
  <2> HIDE DEF n, d
  <2>2. QED
    BY <1>4, <1>5, <2>1 DEF SpoolCounted, Covers, Sum
<1>8. CacheCounted'
  BY <1>4, <1>5 DEF Counted, CacheCounted, Covers, Sum
<1>9. QED
  BY <1>2, <1>4, <1>6, <1>7, <1>8 DEF Counted

LEMMA CountTake ==
    ASSUME Typed, Typed', Counted, NEW w \in Writers, Take(w)
    PROVE  Counted'
<1> DEFINE d == writer[w].d
           n == IF d \in cache THEN 0 ELSE Size[d]
<1>1. \A v \in Writers : writer[v].at = "temp" \/ writer'[v].at = "temp" => writer'[v] = writer[v]
  BY DEF Take, Free, Typed, WriterTyped
<1>2. UNCHANGED <<sweep, doubt>>
  BY DEF Take
<1>3. CASE d \in spool /\ ~Held(d)
  <2>1. /\ spool' = spool \ {d} /\ cache' = cache \cup {d} /\ Touch({"spool", "cache"})
        /\ bytes' = [bytes EXCEPT !.spool = @ - Size[d], !.cache = @ + n]
    BY <1>3 DEF Take, Files
  <2>2. d \in Digests /\ Size[d] \in Nat /\ n \in Nat
    BY <1>3, SizeNat DEF Typed, FilesTyped
  <2>3. Covers(spool', bytes.spool - Size[d], "spool" \notin doubt)
    BY <1>3, <2>1, CoversWithout DEF Counted, SpoolCounted, Typed, FilesTyped
  <2>4. Covers(cache', bytes.cache + n, "cache" \notin doubt)
    BY <2>1, <2>2, CoversWith DEF Counted, CacheCounted, Typed, FilesTyped
  <2>5. /\ bytes' \in [spool : Nat, cache : Nat, flight : Nat]
        /\ bytes'.spool = bytes.spool - Size[d] /\ bytes'.cache = bytes.cache + n
        /\ bytes'.flight = bytes.flight
    BY <2>1, <2>2, <2>3, <2>4 DEF Counted, CountTyped, Covers
  <2>6. CountTyped' /\ ScanCounted'
    BY <1>2, <2>1, <2>5, ScanTouched DEF Counted
  <2>7. InFlight' = InFlight
    BY <1>1 DEF InFlight
  <2>8. SpoolCounted' /\ CacheCounted' /\ FlightCounted'
    BY <1>2, <2>3, <2>4, <2>5, <2>7 DEF Counted, SpoolCounted, CacheCounted, FlightCounted,
       Covers, Sum
  <2>9. QED
    BY <2>6, <2>8 DEF Counted
<1>4. CASE ~(d \in spool /\ ~Held(d))
  BY <1>1, <1>2, <1>4, CountQuiet DEF Take
<1>5. QED
  BY <1>3, <1>4

LEMMA CountRemoveSpool ==
    ASSUME Typed, Typed', Counted, NEW a \in Removers, RemoveSpool(a)
    PROVE  Counted'
<1> DEFINE d == remover[a].d
<1>1. UNCHANGED <<sweep, doubt, writer>>
  BY DEF RemoveSpool
<1>2. CASE d \in spool /\ ~Held(d)
  <2>1. /\ spool' = spool \ {d} /\ cache' = cache /\ Touch({"spool"})
        /\ bytes' = [bytes EXCEPT !.spool = @ - Size[d]]
    BY <1>2 DEF RemoveSpool, Files
  <2>2. Covers(spool', bytes.spool - Size[d], "spool" \notin doubt)
    BY <1>2, <2>1, CoversWithout DEF Counted, SpoolCounted, Typed, FilesTyped
  <2>3. /\ bytes' \in [spool : Nat, cache : Nat, flight : Nat]
        /\ bytes'.spool = bytes.spool - Size[d] /\ bytes'.cache = bytes.cache
        /\ bytes'.flight = bytes.flight
    BY <2>1, <2>2 DEF Counted, CountTyped, Covers
  <2>4. CountTyped' /\ ScanCounted'
    BY <1>1, <2>1, <2>3, ScanTouched DEF Counted
  <2>5. SpoolCounted' /\ CacheCounted' /\ FlightCounted'
    BY <1>1, <2>1, <2>2, <2>3 DEF Counted, SpoolCounted, CacheCounted, FlightCounted, InFlight,
       Covers, Sum
  <2>6. QED
    BY <2>4, <2>5 DEF Counted
<1>3. CASE ~(d \in spool /\ ~Held(d))
  BY <1>1, <1>3, CountQuiet DEF RemoveSpool
<1>4. QED
  BY <1>2, <1>3

LEMMA CountUnlinkCache ==
    ASSUME Typed, Typed', Counted, NEW a \in Removers, UnlinkCache(a)
    PROVE  Counted'
<1> DEFINE d == remover[a].d
<1>1. UNCHANGED <<sweep, doubt, writer>>
  BY DEF UnlinkCache
<1>2. CASE d \in cache
  <2>1. /\ cache' = cache \ {d} /\ spool' = spool /\ Touch({"cache"})
        /\ bytes' = [bytes EXCEPT !.cache = @ - Size[d]]
    BY <1>2 DEF UnlinkCache, Files
  <2>2. Covers(cache', bytes.cache - Size[d], "cache" \notin doubt)
    BY <1>2, <2>1, CoversWithout DEF Counted, CacheCounted, Typed, FilesTyped
  <2>3. /\ bytes' \in [spool : Nat, cache : Nat, flight : Nat]
        /\ bytes'.cache = bytes.cache - Size[d] /\ bytes'.spool = bytes.spool
        /\ bytes'.flight = bytes.flight
    BY <2>1, <2>2 DEF Counted, CountTyped, Covers
  <2>4. CountTyped' /\ ScanCounted'
    BY <1>1, <2>1, <2>3, ScanTouched DEF Counted
  <2>5. SpoolCounted' /\ CacheCounted' /\ FlightCounted'
    BY <1>1, <2>1, <2>2, <2>3 DEF Counted, SpoolCounted, CacheCounted, FlightCounted, InFlight,
       Covers, Sum
  <2>6. QED
    BY <2>4, <2>5 DEF Counted
<1>3. CASE d \notin cache
  BY <1>1, <1>3, CountQuiet DEF UnlinkCache
<1>4. QED
  BY <1>2, <1>3

\* The scans.
LEMMA CountScan ==
    ASSUME Typed, Typed', Counted, UNCHANGED <<spool, cache, bytes, writer, doubt>>,
           scan' \in [dir : {"none", "spool", "cache"}, todo : SUBSET Digests, total : Nat,
                      touched : BOOLEAN, outside : BOOLEAN],
           sweep'.at = "scan" => scan'.dir # "none", ScanCounted'
    PROVE  Counted'
BY DEF Counted, CountTyped, SpoolCounted, CacheCounted, FlightCounted, InFlight, Covers, Sum

LEMMA Measured ==
    ASSUME Typed, Counted, UNCHANGED <<spool, cache, doubt>>, NEW name \in {"spool", "cache"},
           Measure(name)
    PROVE  /\ scan' \in [dir : {"none", "spool", "cache"}, todo : SUBSET Digests, total : Nat,
                         touched : BOOLEAN, outside : BOOLEAN]
           /\ scan'.dir = name /\ ScanCounted'
<1>1. PICK S : S = Dir(name)
  OBVIOUS
<1>2. S \in SUBSET Digests /\ S \cap S = S
  BY <1>1 DEF Dir, Typed, FilesTyped
<1>3. /\ scan' = [dir |-> name, todo |-> S, total |-> 0, touched |-> FALSE, outside |-> FALSE]
      /\ Dir(name)' = S
  <2>1. PICK r : r = [NoScan EXCEPT !.dir = name, !.todo = S]
    OBVIOUS
  <2>2. r = [dir |-> name, todo |-> S, total |-> 0, touched |-> FALSE, outside |-> FALSE]
    BY <2>1 DEF NoScan
  <2>3. QED
    BY <1>1, <2>1, <2>2 DEF Measure, Dir
<1>4. Sum(S) \in Nat
  BY <1>2, SumNat
<1>5. Covers(S, 0 + Sum(S), TRUE)
  BY <1>4 DEF Covers
<1>6. ScanCounted'
  BY <1>2, <1>3, <1>5 DEF ScanCounted, Covers, Sum, Dir
<1>7. QED
  BY <1>2, <1>3, <1>6

LEMMA CountOrphansBegin ==
    ASSUME Typed, Typed', Counted, OrphansBegin
    PROVE  Counted'
<1>1. UNCHANGED <<spool, cache, bytes, writer, doubt>> /\ Measure("spool")
  BY DEF OrphansBegin
<1>2. QED
  BY <1>1, Measured, CountScan

LEMMA CountScanCache ==
    ASSUME Typed, Typed', Counted, ScanCache
    PROVE  Counted'
<1>1. UNCHANGED <<spool, cache, bytes, writer, doubt>> /\ Measure("cache")
  BY DEF ScanCache
<1>2. QED
  BY <1>1, Measured, CountScan

LEMMA CountTimeLimit ==
    ASSUME Typed, Typed', Counted, TimeLimit
    PROVE  Counted'
<1>1. UNCHANGED <<spool, cache, bytes, writer, doubt>>
  BY DEF TimeLimit
<1>2. sweep'.at # "scan"
  BY DEF TimeLimit, Rest, Orphans
<1>3. CASE scan' = scan
  BY <1>1, <1>2, <1>3, CountQuiet DEF dirs
<1>4. CASE scan' = NoScan
  BY <1>1, <1>2, <1>4, CountScan DEF NoScan, ScanCounted
<1>5. QED
  BY <1>3, <1>4 DEF TimeLimit

LEMMA CountVisit ==
    ASSUME Typed, Typed', Counted, NEW d \in Digests, Visit(d)
    PROVE  Counted'
<1>1. UNCHANGED <<spool, cache, bytes, writer, doubt>> /\ d \in scan.todo /\ sweep.at = "scan"
  BY DEF Visit
<1> DEFINE S == Dir(scan.dir)
           n == IF d \in S THEN Size[d] ELSE 0
<1>2. scan.dir \in {"spool", "cache"} /\ S \in SUBSET Digests /\ n \in Nat
  BY <1>1, SizeNat DEF Counted, CountTyped, Dir, Typed, FilesTyped
<1>3. /\ scan' \in [dir : {"none", "spool", "cache"}, todo : SUBSET Digests, total : Nat,
                    touched : BOOLEAN, outside : BOOLEAN]
      /\ scan'.dir = scan.dir /\ scan'.todo = scan.todo \ {d} /\ scan'.total = scan.total + n
      /\ scan'.outside = scan.outside /\ scan'.touched = scan.touched /\ scan.total \in Nat
      /\ scan.todo \in SUBSET Digests
  <2>1. scan.total \in Nat /\ scan.todo \in SUBSET Digests
    BY DEF Counted, CountTyped
  <2>2. PICK x \in Nat, y \in SUBSET Digests : x = scan.total + n /\ y = scan.todo \ {d}
    <3>1. scan.total + n \in Nat
      BY <1>2, <2>1
    <3>2. QED
      BY <2>1, <3>1
  <2>3. scan' = [scan EXCEPT !.todo = y, !.total = x]
    BY <2>2 DEF Visit
  <2>4. QED
    BY <2>1, <2>2, <2>3 DEF Counted, CountTyped
<1>4. scan.total + Sum(scan.todo \cap S) = scan.total + n + Sum((scan.todo \ {d}) \cap S)
  <2>1. CASE d \in S
    <3>1. (scan.todo \ {d}) \cap S = (scan.todo \cap S) \ {d}
      OBVIOUS
    <3>2. Sum(scan.todo \cap S) = Sum((scan.todo \cap S) \ {d}) + Size[d]
      BY <1>1, <1>2, <2>1, SumWithout
    <3>3. Sum((scan.todo \cap S) \ {d}) \in Nat /\ Size[d] \in Nat
      BY <1>2, SumNat, SizeNat
    <3>4. n = Size[d]
      BY <2>1
    <3>5. PICK x : x = Sum((scan.todo \cap S) \ {d})
      OBVIOUS
    <3>6. Sum((scan.todo \ {d}) \cap S) = x
      BY <3>1, <3>5
    <3>7. scan.total + (x + Size[d]) = scan.total + Size[d] + x
      BY <1>3, <3>3, <3>5
    <3>8. QED
      BY <3>2, <3>4, <3>5, <3>6, <3>7
  <2>2. CASE d \notin S
    <3>1. (scan.todo \ {d}) \cap S = scan.todo \cap S /\ n = 0
      BY <2>2
    <3>2. QED
      BY <1>3, <3>1
  <2>3. QED
    BY <2>1, <2>2
<1>5. Dir(scan.dir)' = S
  BY <1>1, <1>3 DEF Dir
<1>6. ScanCounted'
  <2>1. scan.outside => scan.dir \in doubt
    BY <1>2 DEF Counted, ScanCounted
  <2>2. ~scan.touched => Covers(S, scan.total + n + Sum((scan.todo \ {d}) \cap S), ~scan.outside)
    BY <1>2, <1>4 DEF Counted, ScanCounted
  <2> HIDE DEF S, n
  <2>3. QED
    BY <1>1, <1>3, <1>5, <2>1, <2>2 DEF ScanCounted, Covers, Sum
<1>7. QED
  BY <1>1, <1>2, <1>3, <1>6, CountScan

LEMMA CountCorrect ==
    ASSUME Typed, Typed', Counted, Correct
    PROVE  Counted'
<1>1. UNCHANGED <<spool, cache, writer>> /\ scan' = NoScan /\ scan.todo = {} /\ sweep.at = "scan"
  BY DEF Correct
<1>2. scan.dir \in {"spool", "cache"} /\ scan.total \in Nat
  BY <1>1 DEF Counted, CountTyped
<1>3. sweep'.at # "scan"
  BY DEF Correct, Rest, Typed, SweepTyped
<1>4. ~scan.touched => Covers(Dir(scan.dir), scan.total, ~scan.outside)
  <2>1. scan.todo \cap Dir(scan.dir) = {} /\ Sum({}) = 0
    BY <1>1, TotalEmpty DEF Sum
  <2>2. scan.total + 0 = scan.total
    BY <1>2
  <2>3. QED
    BY <1>2, <2>1, <2>2 DEF Counted, ScanCounted
<1>5. scan.outside => scan.dir \in doubt
  BY <1>2 DEF Counted, ScanCounted
<1>6. CASE scan.touched
  <2>1. bytes' = bytes /\ doubt' = doubt
    BY <1>6 DEF Correct
  <2>2. QED
    BY <1>1, <1>3, <2>1, CountScan DEF NoScan, ScanCounted
<1>7. CASE ~scan.touched
  <2>1. /\ bytes' = [bytes EXCEPT ![scan.dir] = scan.total]
        /\ doubt' = IF scan.outside THEN doubt ELSE doubt \ {scan.dir}
    BY <1>7 DEF Correct
  <2>2. /\ bytes' \in [spool : Nat, cache : Nat, flight : Nat] /\ bytes'.flight = bytes.flight
        /\ scan.dir = "spool" => bytes'.spool = scan.total /\ bytes'.cache = bytes.cache
        /\ scan.dir = "cache" => bytes'.cache = scan.total /\ bytes'.spool = bytes.spool
    <3>1. CASE scan.dir = "spool"
      BY <1>2, <2>1, <3>1 DEF Counted, CountTyped
    <3>2. CASE scan.dir = "cache"
      BY <1>2, <2>1, <3>2 DEF Counted, CountTyped
    <3>3. QED
      BY <1>2, <3>1, <3>2
  <2>3. SpoolCounted' /\ CacheCounted'
    BY <1>1, <1>2, <1>4, <1>5, <1>7, <2>1, <2>2 DEF Counted, SpoolCounted, CacheCounted, Covers,
       Sum, Dir
  <2>4. FlightCounted'
    BY <1>1, <2>2 DEF Counted, FlightCounted, InFlight
  <2>5. CountTyped' /\ ScanCounted'
    BY <1>1, <1>3, <2>1, <2>2 DEF Counted, CountTyped, NoScan, ScanCounted
  <2>6. QED
    BY <2>3, <2>4, <2>5 DEF Counted
<1>8. QED
  BY <1>6, <1>7

\* From outside, and anew.
LEMMA CountOutside ==
    ASSUME Typed, Typed', Counted, NEW d \in Digests, Outside(d)
    PROVE  Counted'
<1>1. /\ UNCHANGED <<cache, bytes, writer, sweep>> /\ spool' = spool \ {d} /\ d \in spool
      /\ doubt' = doubt \cup {"spool"}
  BY DEF Outside, Files
<1>2. /\ scan' \in [dir : {"none", "spool", "cache"}, todo : SUBSET Digests, total : Nat,
                    touched : BOOLEAN, outside : BOOLEAN]
      /\ scan'.dir = scan.dir /\ scan'.todo = scan.todo /\ scan'.total = scan.total
      /\ scan'.touched = scan.touched /\ scan'.outside = (scan.outside \/ scan.dir = "spool")
  BY DEF Outside, Counted, CountTyped
<1>3. CountTyped'
  BY <1>1, <1>2 DEF Counted, CountTyped
<1>4. SpoolCounted'
  BY <1>1, CoversWithout DEF Counted, SpoolCounted, Typed, FilesTyped, Covers, Sum
<1>5. CacheCounted' /\ FlightCounted'
  BY <1>1 DEF Counted, CacheCounted, FlightCounted, InFlight, Covers, Sum
<1>6. ScanCounted'
  <2>1. CASE scan.dir = "spool" /\ ~scan.touched
    <3>1. Covers(spool, scan.total + Sum(scan.todo \cap spool), ~scan.outside)
      BY <2>1 DEF Counted, ScanCounted, Dir
    <3>2. /\ Sum(spool) = Sum(spool \ {d}) + Size[d] /\ Sum(spool \ {d}) \in Nat
          /\ Size[d] \in Nat
          /\ Sum(scan.todo \cap spool) \in Nat /\ Sum((scan.todo \cap spool) \ {d}) \in Nat
          /\ scan.total \in Nat
      BY <1>1, SumWithout, SumNat, SizeNat DEF Typed, FilesTyped, Counted, CountTyped
    <3>3. Sum(scan.todo \cap spool) <= Sum((scan.todo \cap spool) \ {d}) + Size[d]
      <4>1. CASE d \in scan.todo
        <5>1. Sum(scan.todo \cap spool) = Sum((scan.todo \cap spool) \ {d}) + Size[d]
          BY <1>1, <4>1, SumWithout DEF Typed, FilesTyped
        <5>2. QED
          BY <3>2, <5>1
      <4>2. CASE d \notin scan.todo
        <5>1. Sum((scan.todo \cap spool) \ {d}) = Sum(scan.todo \cap spool)
          <6>1. (scan.todo \cap spool) \ {d} = scan.todo \cap spool
            BY <4>2
          <6>2. QED
            BY <6>1
        <5>2. QED
          BY <3>2, <5>1
      <4>3. QED
        BY <4>1, <4>2
    <3>4. (scan.todo \cap spool) \ {d} = scan.todo \cap (spool \ {d})
      OBVIOUS
    <3>5. Covers(spool \ {d}, scan.total + Sum((scan.todo \cap spool) \ {d}), FALSE)
      BY <3>1, <3>2, <3>3 DEF Covers
    <3>6. QED
      BY <1>1, <1>2, <2>1, <3>4, <3>5 DEF ScanCounted, Dir, Covers, Sum
  <2>2. CASE scan.dir = "spool" /\ scan.touched
    BY <1>1, <1>2, <2>2 DEF ScanCounted
  <2>3. CASE scan.dir = "cache"
    BY <1>1, <1>2, <2>3 DEF Counted, ScanCounted, Dir, Covers, Sum
  <2>4. CASE scan.dir = "none"
    BY <1>2, <2>4 DEF ScanCounted
  <2>5. QED
    BY <2>1, <2>2, <2>3, <2>4 DEF Counted, CountTyped
<1>7. QED
  BY <1>3, <1>4, <1>5, <1>6 DEF Counted

LEMMA CountRestart ==
    ASSUME Typed, Typed', Counted, Restart
    PROVE  Counted'
<1>1. /\ UNCHANGED <<spool, cache>> /\ doubt' = {} /\ scan' = NoScan
      /\ bytes' = [spool |-> Sum(spool), cache |-> Sum(cache), flight |-> 0]
      /\ sweep'.at # "scan"
  BY DEF Restart, Rest
<1>2. Sum(spool) \in Nat /\ Sum(cache) \in Nat
  BY SumNat DEF Typed, FilesTyped
<1>3. SpoolCounted' /\ CacheCounted'
  BY <1>1, <1>2 DEF SpoolCounted, CacheCounted, Covers, Sum
<1>4. FlightCounted'
  <2>1. PICK f : f = InFlight'
    OBVIOUS
  <2>2. \A w \in Writers : f[w] = 0
    BY <2>1 DEF Restart, InFlight, Free
  <2>3. Total(f, Writers) = 0
    BY <2>2, TotalZero, FiniteAssumption
  <2>4. QED
    BY <1>1, <2>1, <2>3 DEF FlightCounted
<1>5. CountTyped' /\ ScanCounted'
  BY <1>1, <1>2 DEF CountTyped, ScanCounted, NoScan
<1>6. QED
  BY <1>3, <1>4, <1>5 DEF Counted

LEMMA CountStep ==
    ASSUME Typed, Typed', Counted, [Next]_vars
    PROVE  Counted'
<1>1. ASSUME NEW w \in Writers, NEW d \in Digests, WriteBlob(w, d) PROVE Counted'
  BY <1>1, CountWriteBlob
<1>2. ASSUME NEW w \in Writers, WriteFails(w) PROVE Counted'
  BY <1>2, CountWriteFails
<1>3. ASSUME NEW w \in Writers, Commit(w) PROVE Counted'
  BY <1>3, CountCommit
<1>4. ASSUME NEW w \in Writers, PutIntent(w) PROVE Counted'
  BY <1>4, CountQuiet DEF PutIntent, Typed, WriterTyped, Go, dirs
<1>5. ASSUME NEW w \in Writers, Accept(w) PROVE Counted'
  BY <1>5, CountQuiet DEF Accept, Typed, WriterTyped, Go, dirs
<1>6. ASSUME NEW w \in Writers, Take(w) PROVE Counted'
  BY <1>6, CountTake
<1>7. ASSUME NEW w \in Writers, Fail(w) PROVE Counted'
  BY <1>7, CountQuiet DEF Fail, Typed, WriterTyped, Free, dirs
<1>8. ASSUME NEW a \in Removers, RemoveSpool(a) PROVE Counted'
  BY <1>8, CountRemoveSpool
<1>9. ASSUME NEW a \in Removers, RemoveFails(a) PROVE Counted'
  BY <1>9, CountQuiet DEF RemoveFails, dirs
<1>10. ASSUME NEW a \in Removers, StatCache(a) PROVE Counted'
  BY <1>10, CountQuiet DEF StatCache, dirs
<1>11. ASSUME NEW a \in Removers, UnlinkCache(a) PROVE Counted'
  BY <1>11, CountUnlinkCache
<1>12. CASE DeleteIntent
  BY <1>12, CountQuiet DEF DeleteIntent, dirs
<1>13. CASE LeaveToWrite
  BY <1>13, CountQuiet DEF LeaveToWrite, dirs
<1>14. ASSUME NEW d \in Digests, Release(d) PROVE Counted'
  BY <1>14, CountQuiet DEF Release, dirs
<1>15. CASE SweepBegin
  BY <1>15, CountQuiet DEF SweepBegin, Orphans, Stage, Rest, dirs
<1>16. CASE List
  <2>1. sweep'.at # "scan"
    BY <1>16, StoppedTo, StageTyped, PastRowTyped DEF List, rows, Typed, SweepTyped, Orphans,
       Stage, Rest
  <2>2. QED
    BY <1>16, <2>1, CountQuiet DEF List
<1>17. CASE Consider
  <2>1. sweep'.at # "scan"
    BY <1>17, StoppedTo, StageTyped, PastRowTyped DEF Consider, rows, Typed, SweepTyped,
       Orphans, Stage, Rest
  <2>2. QED
    BY <1>17, <2>1, CountQuiet DEF Consider
<1>18. CASE EvictHeld
  <2>1. sweep'.at # "scan"
    BY <1>18, PastRowTyped DEF EvictHeld, rows, Typed
  <2>2. QED
    BY <1>18, <2>1, CountQuiet DEF EvictHeld
<1>19. CASE MarkEvicted
  <2>1. sweep'.at # "scan"
    BY <1>19, PastRowTyped DEF MarkEvicted, rows, Typed
  <2>2. QED
    BY <1>19, <2>1, CountQuiet DEF MarkEvicted
<1>20. CASE OrphansBegin
  BY <1>20, CountOrphansBegin
<1>21. CASE Correct
  BY <1>21, CountCorrect
<1>22. CASE Check
  BY <1>22, CountQuiet DEF Check, Typed, SweepTyped, dirs
<1>23. CASE Purged
  BY <1>23, CountQuiet DEF Purged, dirs
<1>24. CASE ScanCache
  BY <1>24, CountScanCache
<1>25. ASSUME NEW d \in Digests, Visit(d) PROVE Counted'
  BY <1>25, CountVisit
<1>26. ASSUME NEW d \in Digests, Purge(d) PROVE Counted'
  BY <1>26, CountQuiet DEF Purge, Typed, SweepTyped, dirs
<1>27. CASE LookSpool
  BY <1>27, CountQuiet DEF LookSpool, dirs
<1>28. CASE LookAgain
  BY <1>28, CountQuiet DEF LookAgain, dirs
<1>29. ASSUME NEW d \in Asked, LookCache(d) PROVE Counted'
  BY <1>29, CountQuiet DEF LookCache, dirs
<1>30. CASE TimeLimit
  BY <1>30, CountTimeLimit
<1>31. CASE OrphansNotDue
  BY <1>31, CountQuiet DEF OrphansNotDue, Rest, dirs
<1>32. CASE Restart
  BY <1>32, CountRestart
<1>33. ASSUME NEW d \in Digests, ReadAges(d) PROVE Counted'
  BY <1>33, CountQuiet DEF ReadAges, dirs
<1>34. ASSUME NEW d \in Digests, Outside(d) PROVE Counted'
  BY <1>34, CountOutside
<1>35. CASE UNCHANGED vars
  BY <1>35, CountQuiet DEF vars, dirs
<1>36. QED
  BY <1>1, <1>2, <1>3, <1>4, <1>5, <1>6, <1>7, <1>8, <1>9, <1>10, <1>11, <1>12, <1>13, <1>14,
     <1>15, <1>16, <1>17, <1>18, <1>19, <1>20, <1>21, <1>22, <1>23, <1>24, <1>25, <1>26, <1>27, <1>28, <1>29, <1>30, <1>31, <1>32, <1>33, <1>34, <1>35
  DEF Next, Write, Remove, ReleaseStep, Evict, OrphanPass, Read, Environment, Removers

LEMMA InitCounted == Init /\ Typed => Counted
<1> SUFFICES ASSUME Init, Typed PROVE Counted
  OBVIOUS
<1>1. Sum({}) = 0
  BY TotalEmpty DEF Sum
<1>2. Sum({Kept}) = Size[Kept] /\ Size[Kept] \in Nat
  <2>1. {} \cup {Kept} = {Kept} /\ Kept \notin {} /\ Kept \in Digests /\ {} \in SUBSET Digests
    BY KeptAssumption
  <2>2. Sum({} \cup {Kept}) = Sum({}) + Size[Kept]
    BY <2>1, SumWith
  <2>3. QED
    BY <1>1, <2>1, <2>2, SizeNat
<1>3. SpoolCounted /\ CacheCounted
  BY <1>1, <1>2 DEF Init, SpoolCounted, CacheCounted, Covers
<1>4. FlightCounted
  <2>1. \A w \in Writers : InFlight[w] = 0
    BY DEF Init, InFlight, Free
  <2>2. QED
    BY <2>1, TotalZero, FiniteAssumption DEF FlightCounted, Init
<1>5. CountTyped /\ ScanCounted
  BY <1>2 DEF Init, CountTyped, ScanCounted, NoScan, Rest
<1>6. QED
  BY <1>3, <1>4, <1>5 DEF Counted

\* Every reachable state is well typed, and no byte count falls below zero,
\* for any files, sizes, writes and budgets (usage.Add in blobdir.go).
THEOREM TypesHold == Spec => []TypeOK
<1>1. Inv /\ Counted => TypeOK
  BY DEF Inv, Typed, Counted, CountTyped, TypeOK, FilesTyped, RowsTyped, WriterTyped,
     RemoverTyped,
     ReaderTyped, SweepTyped, WriterSteps, RemoverSteps, SweepSteps, Removers
<1>2. Init => Inv /\ Counted
  BY InitInv, InitCounted DEF Inv
<1>3. Inv /\ Counted /\ [Next]_vars => Inv' /\ Counted'
  BY InvStep, CountStep DEF Inv
<1>4. QED
  BY <1>1, <1>2, <1>3, PTL DEF Spec

\* The byte count of a directory nothing outside has changed is the size of
\* its files, and that of writes in flight the size of theirs, for any number
\* of files, writes, moves, removals, scans and restarts (blobdir.go usage,
\* ScanAndCorrect).
THEOREM CountsAreExact == Spec => []CountExact
<1>1. Inv /\ Counted => CountExact
  BY DEF Counted, SpoolCounted, CacheCounted, FlightCounted, Covers, CountExact, CountTyped, Dir
<1>2. Init => Inv /\ Counted
  BY InitInv, InitCounted DEF Inv
<1>3. Inv /\ Counted /\ [Next]_vars => Inv' /\ Counted'
  BY InvStep, CountStep DEF Inv
<1>4. QED
  BY <1>1, <1>2, <1>3, PTL DEF Spec
=============================================================================
