-------------------------- MODULE CatalogLogProofs --------------------------
(* Proofs about CatalogLog: its types, the root that Forge is told, and    *)
(* that the catalog outlives the disk.                                     *)
EXTENDS CatalogLog, TLAPS, WellFoundedInduction

\* A nonempty set of segments has a newest one.
LEMMA NewestExists ==
    ASSUME NEW n \in Nat, NEW S, S \subseteq 1..n, S # {}
    PROVE  \E m \in S : \A s \in S : s <= m
<1> DEFINE T == {n - s : s \in S}
<1>1. T \subseteq Nat /\ T # {}
  <2>1. \A s \in S : n - s \in Nat
    OBVIOUS
  <2>2. PICK s \in S : TRUE
    OBVIOUS
  <2>3. n - s \in T
    BY <2>2
  <2>4. QED
    BY <2>1, <2>3
<1>2. PICK x \in T : \A y \in T : ~(<<y, x>> \in OpToRel(<, Nat))
  <2>1. IsWellFoundedOn(OpToRel(<, Nat), Nat)
    BY NatLessThanWellFounded
  <2> HIDE DEF T
  <2>2. QED
    BY <2>1, <1>1, WFMin
<1>3. \A y \in T : ~(y < x)
  BY <1>1, <1>2 DEF OpToRel
<1>4. PICK m \in S : x = n - m
  OBVIOUS
<1>5. QED
  BY SMTT(30), <1>3, <1>4

-----------------------------------------------------------------------------
(* Type correctness.                                                       *)

\* The registry's statements keep the segments table well typed.
LEMMA RowsTyped ==
    ASSUME NEW rs \in [Seqs -> Row], NEW s \in Seqs, NEW d \in Digest
    PROVE  /\ InsertSegmentOpen(rs, s) \in [Seqs -> Row]
           /\ MarkSegmentSealed(rs, s, d) \in [Seqs -> Row]
           /\ DeleteSegment(rs, s) \in [Seqs -> Row]
           /\ RehydrateSegment(rs, s, d) \in [Seqs -> Row]
<1>1. NoRow \in Row
  BY DEF NoRow, Row, Digest
<1>2. InsertSegmentOpen(rs, s) \in [Seqs -> Row]
  <2>1. [NoRow EXCEPT !.state = "open"] \in Row
    BY DEF NoRow, Row, Digest
  <2>2. QED
    BY <2>1 DEF InsertSegmentOpen
<1>3. MarkSegmentSealed(rs, s, d) \in [Seqs -> Row]
  BY DEF MarkSegmentSealed, Row
<1>4. DeleteSegment(rs, s) \in [Seqs -> Row]
  BY <1>1 DEF DeleteSegment
<1>5. RehydrateSegment(rs, s, d) \in [Seqs -> Row]
  <2>1. [NoRow EXCEPT !.state = "sealed", !.sha = d] \in Row
    BY DEF NoRow, Row
  <2>2. QED
    BY <2>1 DEF RehydrateSegment
<1>6. QED
  BY <1>2, <1>3, <1>4, <1>5

LEMMA RetireTyped ==
    ASSUME NEW rs \in [Seqs -> Row], NEW S
    PROVE  RetireSegments(rs, S) \in [Seqs -> Row]
BY DEF RetireSegments, Row

LEMMA StampTyped ==
    ASSUME NEW rs \in [Seqs -> Row], NEW s \in Seqs, NEW indexed \in BOOLEAN
    PROVE  MarkSegmentShipped(rs, s, indexed) \in [Seqs -> Row]
BY DEF MarkSegmentShipped, Row

\* So do the operators on a segment's files.
LEMMA FilesTyped ==
    ASSUME NEW f \in File, NEW bs \in SUBSET Blocks, NEW ops \in SUBSET Roots, NEW how
    PROVE  /\ NoFile \in File
           /\ Appended(f, bs, ops) \in File
           /\ SealFile(f, how) \in File
BY DEF NoFile, File, Appended, SealFile

LEMMA EditsTyped ==
    ASSUME NEW fs \in [Seqs -> File], NEW s \in Seqs, NEW bs \in SUBSET Blocks,
           NEW car \in {"ok", "damaged"}
    PROVE  /\ [fs EXCEPT ![s].idx = TRUE] \in [Seqs -> File]
           /\ [fs EXCEPT ![s].idx = FALSE, ![s].car = car] \in [Seqs -> File]
           /\ [fs EXCEPT ![s].car = "ok", ![s].blocks = bs] \in [Seqs -> File]
<1>1. [fs EXCEPT ![s].idx = TRUE] \in [Seqs -> File]
  BY DEF File
<1>2. [fs EXCEPT ![s].idx = FALSE, ![s].car = car] \in [Seqs -> File]
  BY DEF File
<1>3. [fs EXCEPT ![s].car = "ok", ![s].blocks = bs] \in [Seqs -> File]
  BY DEF File
<1>4. QED
  BY <1>1, <1>2, <1>3

LEMMA TypeInit == Init => TypeOK
<1> SUFFICES ASSUME Init PROVE TypeOK
  OBVIOUS
<1>1. NoRow \in Row /\ NoFile \in File
  BY DEF NoRow, Row, NoFile, File, Digest
<1>2. QED
  BY <1>1, BoundsAssumption DEF Init, TypeOK, Digest, Idle, NoWrite, NoDelete, NoBuild, NoSeq, Phases
\* A step of a write keeps TypeOK.
LEMMA TypeWrite == TypeOK /\ Write => TypeOK'
<1> SUFFICES ASSUME TypeOK, Write PROVE TypeOK'
  OBVIOUS
<1> USE DEF pgVars, forgeVars, diskVars, recVars, memVars, opVars
<1>1. ASSUME NEW r \in Roots, NEW bs \in SUBSET Tree[r], AppendBatch(r, bs) PROVE TypeOK'
  <2>1. bs \subseteq Blocks /\ AppendSeq \in Seqs
    BY <1>1, TreeAssumption DEF AppendBatch
  <2>2. rows' \in [Seqs -> Row]
    BY <1>1, <2>1, RowsTyped DEF AppendBatch, TypeOK, Digest
  <2>3. file' \in [Seqs -> File]
    BY <1>1, <2>1, FilesTyped DEF AppendBatch, TypeOK
  <2>4. seqNext' \in 1..(MaxSeq + 1)
    BY <1>1, <2>1, BoundsAssumption DEF AppendBatch, TypeOK, AppendSeq, Seqs
  <2>5. QED
    BY <1>1, <2>1, <2>2, <2>3, <2>4 DEF AppendBatch, TypeOK
<1>2. CASE CommitRoot
  <2>1. writer.seg \in Seqs /\ writer.batch \subseteq Blocks /\ writer.next \in Roots \cup {NoRoot}
    BY <1>2 DEF CommitRoot, TypeOK
  <2>2. journal' \subseteq Seqs \X Blocks
    BY <1>2, <2>1 DEF CommitRoot, JournalOf, TypeOK
  <2>3. QED
    BY <1>2, <2>1, <2>2 DEF CommitRoot, NoWrite, NoSeq, TypeOK
<1>3. CASE CommitFails
  BY <1>3 DEF CommitFails, NoWrite, NoSeq, TypeOK
<1>4. QED
  BY <1>1, <1>2, <1>3 DEF Write

\* The seal of the open segment keeps TypeOK.
LEMMA TypeSeal ==
    ASSUME TypeOK, NEW how \in SealOutcomes, SealOpen(how)
    PROVE  TypeOK'
<1> USE DEF pgVars, forgeVars, diskVars, recVars, memVars, opVars
<1>1. open \in Seqs /\ file[open] \in File /\ file[open].blocks \in Digest
  BY DEF SealOpen, TypeOK, File, Digest
<1>2. rows' \in [Seqs -> Row]
  BY <1>1, RowsTyped DEF SealOpen, SealRow, TypeOK
<1>3. file' \in [Seqs -> File]
  BY <1>1, FilesTyped DEF SealOpen, TypeOK
<1>4. QED
  BY <1>1, <1>2, <1>3 DEF SealOpen, Enqueue, TypeOK

\* A step of the flush goroutine keeps TypeOK.
LEMMA TypeShip == TypeOK /\ Ship => TypeOK'
<1> SUFFICES ASSUME TypeOK, Ship PROVE TypeOK'
  OBVIOUS
<1> USE DEF pgVars, forgeVars, diskVars, recVars, memVars, opVars, At, Goto, Phases
<1>1. ASSUME NEW s \in Seqs, TakeQueued(s) PROVE TypeOK'
  BY <1>1 DEF TakeQueued, StartFlush, Idle, NoSeq, TypeOK
<1>2. ASSUME NEW s \in Seqs, SweepNext(s) PROVE TypeOK'
  BY <1>2 DEF SweepNext, StartFlush, Idle, NoSeq, TypeOK
<1>3. CASE StartSweep
  BY <1>3 DEF StartSweep, TypeOK
<1>4. CASE SweepClosed
  BY <1>4 DEF SweepClosed, TypeOK
<1>5. CASE FlushSeal
  <2>1. flusher.seq \in Seqs /\ file[flusher.seq] \in File /\ file[flusher.seq].blocks \in Digest
    BY <1>5 DEF FlushSeal, TypeOK, File, Digest
  <2>2. rows' \in [Seqs -> Row]
    <3>1. rows' = rows \/ rows' = MarkSegmentSealed(rows, flusher.seq, file[flusher.seq].blocks)
      BY <1>5 DEF FlushSeal, SealRow
    <3>2. QED
      BY <2>1, <3>1, RowsTyped DEF TypeOK
  <2>3. file' \in [Seqs -> File]
    <3>1. SealFile(file[flusher.seq], "recorded") \in File
      BY <2>1, FilesTyped
    <3>2. file' = file \/ file' = [file EXCEPT ![flusher.seq] = SealFile(@, "recorded")]
      BY <1>5 DEF FlushSeal
    <3>3. QED
      BY <2>1, <3>1, <3>2 DEF TypeOK
  <2>4. recorded' \subseteq Seqs
    BY <1>5, <2>1 DEF FlushSeal, TypeOK
  <2>5. flusher' \in [seq : Seqs \cup {NoSeq}, phase : Phases, sweep : BOOLEAN, gone : SUBSET Seqs]
        /\ flusher'.seq \in Seqs
    BY <1>5, <2>1 DEF FlushSeal, TypeOK
  <2>6. QED
    BY <1>5, <2>2, <2>3, <2>4, <2>5 DEF FlushSeal, TypeOK
<1>6. CASE FlushTrivial
  BY <1>6 DEF FlushTrivial, TypeOK
<1>7. ASSUME NEW indexed \in BOOLEAN, FlushSubmit(indexed) PROVE TypeOK'
  <2>1. Shard \in Digest
    BY <1>7 DEF FlushSubmit, Shard, TypeOK, File, Digest
  <2>2. QED
    BY <1>7, <2>1 DEF FlushSubmit, TypeOK
<1>8. CASE FlushLocate
  <2>1. Shard \in Digest
    BY <1>8 DEF FlushLocate, Shard, TypeOK, File, Digest
  <2>2. QED
    BY <1>8, <2>1 DEF FlushLocate, TypeOK
<1>9. CASE FlushInclude
  <2>1. Shard \in Digest
    BY <1>9 DEF FlushInclude, Shard, TypeOK, File, Digest
  <2>2. QED
    BY <1>9, <2>1 DEF FlushInclude, TypeOK
<1>10. CASE FlushStamp
  <2>1. flusher.seq \in Seqs
    BY <1>10 DEF FlushStamp, TypeOK
  <2>2. rows' \in [Seqs -> Row]
    <3>1. PICK indexed \in BOOLEAN : rows' = MarkSegmentShipped(rows, flusher.seq, indexed)
      BY <1>10, Zenon DEF FlushStamp
    <3>2. QED
      BY <2>1, <3>1, StampTyped DEF TypeOK
  <2>3. forgeRoot' \in Roots \cup {NoRoot}
    BY <1>10 DEF FlushStamp, ForgeRootAfter, TypeOK
  <2>4. journal' \subseteq Seqs \X Blocks /\ shipped' \subseteq Seqs
    BY <1>10, <2>1 DEF FlushStamp, DropJournal, TypeOK
  <2>5. flusher' \in [seq : Seqs \cup {NoSeq}, phase : Phases, sweep : BOOLEAN, gone : SUBSET Seqs]
        /\ flusher'.seq \in Seqs
    BY <1>10, <2>1 DEF FlushStamp, TypeOK
  <2>6. QED
    BY <1>10, <2>2, <2>3, <2>4, <2>5 DEF FlushStamp, TypeOK
<1>11. CASE FlushRetry
  BY <1>11 DEF FlushRetry, TypeOK
<1>12. CASE FlushGivesUp
  BY <1>12 DEF FlushGivesUp, Idle, NoSeq, TypeOK
<1>13. ASSUME NEW gone \in SUBSET Seqs, RetireFiles(gone) PROVE TypeOK'
  <2>1. file' \in [Seqs -> File]
    BY <1>13, FilesTyped DEF RetireFiles, TypeOK, NoFile, File
  <2>2. ToRetire \subseteq Seqs
    BY DEF ToRetire, TypeOK
  <2>3. flusher' \in [seq : Seqs \cup {NoSeq}, phase : Phases, sweep : BOOLEAN, gone : SUBSET Seqs]
        /\ flusher'.seq \in Seqs
    BY <1>13 DEF RetireFiles, TypeOK
  <2>4. QED
    BY <1>13, <2>1, <2>2, <2>3 DEF RetireFiles, TypeOK
<1>14. ASSUME NEW gone \in SUBSET Seqs, RetireRows(gone) PROVE TypeOK'
  <2>1. rows' \in [Seqs -> Row]
    BY <1>14, RetireTyped DEF RetireRows, TypeOK
  <2>2. QED
    BY <1>14, <2>1 DEF RetireRows, Idle, NoSeq, TypeOK
<1>15. QED
  BY <1>1, <1>2, <1>3, <1>4, <1>5, <1>6, <1>7, <1>8, <1>9, <1>10, <1>11, <1>12, <1>13, <1>14
     DEF Ship
\* The allocator stays within its bound when it moves past what is on disk.
LEMMA SeqAboveTyped ==
    ASSUME TypeOK
    PROVE  EnsureSegmentSeqAbove \in 1..(MaxSeq + 1)
<1>1. CASE \E s \in OnDisk : s >= seqNext
  <2> DEFINE m == CHOOSE m \in OnDisk : \A s \in OnDisk : s <= m
  <2>1. OnDisk \subseteq 1..MaxSeq /\ OnDisk # {}
    BY <1>1 DEF OnDisk, Seqs
  <2>2. \E n \in OnDisk : \A s \in OnDisk : s <= n
    BY <2>1, NewestExists, BoundsAssumption
  <2>3. m \in OnDisk
    BY <2>2
  <2> HIDE DEF m
  <2>4. 1 + m \in 1..(MaxSeq + 1)
    BY <2>1, <2>3, BoundsAssumption
  <2>5. QED
    BY <1>1, <2>4 DEF EnsureSegmentSeqAbove, m
<1>2. CASE ~ \E s \in OnDisk : s >= seqNext
  BY <1>2 DEF EnsureSegmentSeqAbove, TypeOK
<1>3. QED
  BY <1>1, <1>2

\* A step of recovery keeps TypeOK.
LEMMA TypeRecover == TypeOK /\ Recover => TypeOK'
<1> SUFFICES ASSUME TypeOK, Recover PROVE TypeOK'
  OBVIOUS
<1> USE DEF pgVars, forgeVars, diskVars, recVars, memVars, opVars, Reconcile, LoadSealed
<1>0. ASSUME NEW s \in Seqs
      PROVE  /\ file[s] \in File /\ file[s].blocks \in Digest /\ NoFile \in File
             /\ SealFile(file[s], "indexed") \in File
  BY FilesTyped DEF TypeOK, File, Digest
<1>1. CASE OpenLog
  BY <1>1, SeqAboveTyped DEF OpenLog, OnDisk, TypeOK
<1>2. CASE ScanDone
  BY <1>2 DEF ScanDone, TypeOK
<1>3. CASE SealDone
  BY <1>3 DEF SealDone, TypeOK
<1>4. ASSUME NEW s \in Seqs, RecoverRetired(s) PROVE TypeOK'
  BY <1>4, <1>0 DEF RecoverRetired, TypeOK
<1>5. ASSUME NEW s \in Seqs, RecoverSealedRow(s) PROVE TypeOK'
  <2>1. file' \in [Seqs -> File]
    BY <1>5, EditsTyped DEF RecoverSealedRow, TypeOK
  <2>2. QED
    BY <1>5, <2>1 DEF RecoverSealedRow, TypeOK
<1>6. ASSUME NEW s \in Seqs, RecoverSetAside(s) PROVE TypeOK'
  BY <1>6, <1>0 DEF RecoverSetAside, TypeOK
<1>7. ASSUME NEW s \in Seqs, RecoverFromIdx(s) PROVE TypeOK'
  <2>1. rows' \in [Seqs -> Row]
    BY <1>7, <1>0, RowsTyped DEF RecoverFromIdx, TypeOK
  <2>2. QED
    BY <1>7, <2>1 DEF RecoverFromIdx, TypeOK
<1>8. ASSUME NEW s \in Seqs, NEW kept \in SUBSET file[s].blocks, RecoverOpen(s, kept) PROVE TypeOK'
  <2>1. rows' \in [Seqs -> Row]
    BY <1>8, <1>0, RowsTyped DEF RecoverOpen, TypeOK
  <2>2. file' \in [Seqs -> File]
    BY <1>8, <1>0, EditsTyped DEF RecoverOpen, TypeOK, Digest
  <2>3. QED
    BY <1>8, <2>1, <2>2 DEF RecoverOpen, TypeOK
<1>9. ASSUME NEW s \in Seqs, RecoverRefuses(s) PROVE TypeOK'
  BY <1>9 DEF RecoverRefuses, TypeOK
<1>10. ASSUME NEW s \in Seqs, ForceSeal(s) PROVE TypeOK'
  <2>1. rows' \in [Seqs -> Row]
    BY <1>10, <1>0, RowsTyped DEF ForceSeal, TypeOK
  <2>2. file' \in [Seqs -> File]
    BY <1>10, EditsTyped DEF ForceSeal, TypeOK
  <2>3. QED
    BY <1>10, <2>1, <2>2 DEF ForceSeal, TypeOK
<1>11. ASSUME NEW s \in Seqs, PruneRow(s) PROVE TypeOK'
  <2>1. rows' \in [Seqs -> Row]
    BY <1>11, <1>0, RowsTyped, RetireTyped DEF PruneRow, TypeOK
  <2>2. UNCHANGED <<root, forgeRoot, bucket, seqNext, journal, located, inclusion, forgeVars,
                    diskVars, log, recVars, memVars, opVars, crashes>>
    BY <1>11 DEF PruneRow
  <2>3. QED
    BY <2>1, <2>2 DEF TypeOK
<1>12. ASSUME NEW s \in Seqs, NEW bs \in SUBSET Journaled(s), RebuildAppend(s, bs) PROVE TypeOK'
  <2>1. bs \subseteq Blocks /\ RebuildSeq \in Seqs
    BY <1>12 DEF RebuildAppend, Journaled
  <2>2. rows' \in [Seqs -> Row]
    BY <1>12, <2>1, RowsTyped DEF RebuildAppend, TypeOK, Digest
  <2>3. file' \in [Seqs -> File]
    BY <1>12, <2>1, FilesTyped DEF RebuildAppend, TypeOK
  <2>4. seqNext' \in 1..(MaxSeq + 1)
    BY <1>12, <2>1, BoundsAssumption DEF RebuildAppend, TypeOK, RebuildSeq, Seqs
  <2>5. QED
    BY <1>12, <2>1, <2>2, <2>3, <2>4 DEF RebuildAppend, TypeOK
<1>13. CASE RebuildMove
  <2>1. rebuild.cur \in Seqs /\ rebuild.chunk \subseteq Blocks
    BY <1>13 DEF RebuildMove, TypeOK
  <2>2. journal' \subseteq Seqs \X Blocks
    BY <1>13, <2>1 DEF RebuildMove, TypeOK
  <2>3. QED
    <3>1. rebuild' \in [cur : Seqs \cup {NoSeq}, from : Seqs \cup {NoSeq}, chunk : SUBSET Blocks]
          /\ rebuild'.cur \in Seqs
      BY <1>13, <2>1 DEF RebuildMove, TypeOK
    <3>2. QED
      BY <1>13, <2>2, <3>1 DEF RebuildMove, TypeOK
<1>14. CASE RebuildSeal
  <2>1. rebuild.cur \in Seqs
    BY <1>14 DEF RebuildSeal, TypeOK
  <2>2. rows' \in [Seqs -> Row]
    BY <1>14, <1>0, <2>1, RowsTyped DEF RebuildSeal, TypeOK
  <2>3. file' \in [Seqs -> File]
    BY <1>14, <2>1, EditsTyped DEF RebuildSeal, TypeOK
  <2>4. QED
    BY <1>14, <2>1, <2>2, <2>3 DEF RebuildSeal, NoBuild, NoSeq, TypeOK
<1>15. CASE RebuildDone
  BY <1>15 DEF RebuildDone, TypeOK
<1>16. CASE RecoverDone
  BY <1>16 DEF RecoverDone, Newest, TypeOK
<1>17. QED
  BY <1>1, <1>2, <1>3, <1>4, <1>5, <1>6, <1>7, <1>8, <1>9, <1>10, <1>11, <1>12, <1>13, <1>14,
     <1>15, <1>16 DEF Recover

\* A step of DeleteBucket keeps TypeOK.
LEMMA TypeDelete == TypeOK /\ Delete => TypeOK'
<1> SUFFICES ASSUME TypeOK, Delete PROVE TypeOK'
  OBVIOUS
<1> USE DEF pgVars, forgeVars, diskVars, recVars, memVars, opVars
<1>1. CASE EmptyRoot
  BY <1>1 DEF EmptyRoot, TypeOK
<1>2. CASE QuiesceDone
  BY <1>2 DEF QuiesceDone, ForgetMemory, Idle, NoSeq, Phases, TypeOK
<1>3. CASE ListShipped
  BY <1>3 DEF ListShipped, TypeOK
<1>4. CASE DeleteSpace
  BY <1>4 DEF DeleteSpace, TypeOK
<1>5. CASE DropBucket
  BY <1>5 DEF DropBucket, TypeOK
<1>6. CASE RemoveBucketLog
  <2>1. NoRow \in Row /\ NoFile \in File
    BY DEF NoRow, Row, NoFile, File, Digest
  <2>2. QED
    BY <1>6, <2>1 DEF RemoveBucketLog, NoDelete, TypeOK
<1>7. CASE DeleteFails
  BY <1>7 DEF DeleteFails, NoDelete, TypeOK
<1>8. ASSUME NEW how \in SealOutcomes, Quiesce(how) PROVE TypeOK'
  <2>1. CASE open = NoSeq
    BY <1>8, <2>1 DEF Quiesce, TypeOK
  <2>2. CASE open # NoSeq
    <3>1. open \in Seqs /\ file[open] \in File /\ file[open].blocks \in Digest
      BY <2>2 DEF TypeOK, File, Digest
    <3>2. rows' \in [Seqs -> Row]
      BY <1>8, <2>2, <3>1, RowsTyped DEF Quiesce, SealRow, TypeOK
    <3>3. file' \in [Seqs -> File]
      <4>1. SealFile(file[open], how) \in File
        BY <3>1, FilesTyped
      <4>2. QED
        BY <1>8, <2>2, <3>1, <4>1 DEF Quiesce, TypeOK
    <3>4. QED
      BY <1>8, <2>2, <3>1, <3>2, <3>3 DEF Quiesce, Enqueue, TypeOK
  <2>3. QED
    BY <2>1, <2>2
<1>9. ASSUME NEW s \in Seqs, ReleaseRetired(s) PROVE TypeOK'
  <2>1. rows' \in [Seqs -> Row]
    BY <1>9, RowsTyped DEF ReleaseRetired, TypeOK, Row
  <2>2. QED
    BY <1>9, <2>1 DEF ReleaseRetired, ReleaseRow, TypeOK
<1>10. ASSUME NEW s \in Seqs, ReleaseShipped(s) PROVE TypeOK'
  BY <1>10 DEF ReleaseShipped, ReleaseRow, TypeOK
<1>11. QED
  BY <1>1, <1>2, <1>3, <1>4, <1>5, <1>6, <1>7, <1>8, <1>9, <1>10 DEF Delete

\* A fault keeps TypeOK.
LEMMA TypeFault == TypeOK /\ Fault => TypeOK'
<1> SUFFICES ASSUME TypeOK, Fault PROVE TypeOK'
  OBVIOUS
<1> USE DEF pgVars, forgeVars, diskVars, recVars, memVars, opVars
<1>0. NoFile \in File
  BY DEF NoFile, File
<1>1. CASE Crash
  BY <1>1, BoundsAssumption DEF Crash, ProcessDies, ForgetMemory, Idle, NoSeq, NoBuild, NoWrite,
     NoDelete, Phases, TypeOK
<1>2. ASSUME NEW r \in Roots, NEW part \in SUBSET Tree[r], NEW ops \in SUBSET {r},
             NEW hasRow \in BOOLEAN, TornAppend(r, part, ops, hasRow)
      PROVE  TypeOK'
  <2>1. part \subseteq Blocks /\ ops \subseteq Roots /\ AppendSeq \in Seqs
    BY <1>2, TreeAssumption DEF TornAppend
  <2>2. rows' \in [Seqs -> Row]
    BY <1>2, <2>1, RowsTyped DEF TornAppend, TypeOK, Digest
  <2>3. file' \in [Seqs -> File]
    BY <1>2, <2>1, FilesTyped DEF TornAppend, TypeOK
  <2>4. seqNext' \in 1..(MaxSeq + 1)
    BY <1>2, <2>1, BoundsAssumption DEF TornAppend, TypeOK, AppendSeq, Seqs
  <2>5. ProcessDies
    BY <1>2 DEF TornAppend
  <2>6. QED
    BY <1>2, <2>2, <2>3, <2>4, <2>5, BoundsAssumption DEF TornAppend, ProcessDies, ForgetMemory,
       Idle, NoSeq, NoBuild, NoWrite, NoDelete, Phases, TypeOK
<1>3. ASSUME NEW S \in SUBSET Seqs, LoseFiles(S) PROVE TypeOK'
  BY <1>3, <1>0 DEF LoseFiles, DiskFault, TypeOK
<1>4. ASSUME NEW s \in Seqs, NEW car \in {"ok", "damaged"}, DamageFiles(s, car) PROVE TypeOK'
  <2>1. file' \in [Seqs -> File]
    BY <1>4, EditsTyped DEF DamageFiles, TypeOK
  <2>2. QED
    BY <1>4, <2>1 DEF DamageFiles, DiskFault, TypeOK
<1>5. CASE VolumeMissing
  BY <1>5, <1>0 DEF VolumeMissing, DiskFault, TypeOK
<1>6. CASE VolumeBack
  BY <1>6, <1>0 DEF VolumeBack, DiskFault, TypeOK
<1>7. QED
  BY <1>1, <1>2, <1>3, <1>4, <1>5, <1>6 DEF Fault

LEMMA TypeStep == TypeOK /\ [Next]_vars => TypeOK'
<1> SUFFICES ASSUME TypeOK, [Next]_vars PROVE TypeOK'
  OBVIOUS
<1>1. CASE UNCHANGED vars
  BY <1>1 DEF vars, pgVars, forgeVars, diskVars, recVars, memVars, opVars, TypeOK
<1>2. CASE Next
  BY <1>2, TypeWrite, TypeSeal, TypeShip, TypeRecover, TypeDelete, TypeFault DEF Next
<1>3. QED
  BY <1>1, <1>2

(***************************************************************************)
(* Every reachable state is well typed, for any catalogs, any number of    *)
(* segments and any number of crashes: in particular the allocator never   *)
(* leaves its bound when recovery moves it past the disk.                  *)
(***************************************************************************)
THEOREM TypeCorrect == Spec => []TypeOK
BY TypeInit, TypeStep, PTL DEF Spec
-----------------------------------------------------------------------------
(* The forge root.                                                         *)

\* What one step may do to forge_root_cid.
LEMMA ForgeRootStep == Next => (forgeRoot' # forgeRoot => forgeRoot' = root')
<1> SUFFICES ASSUME Next, forgeRoot' # forgeRoot PROVE forgeRoot' = root'
  OBVIOUS
<1> USE DEF pgVars
<1>1. ~Write
  BY DEF Write, AppendBatch, CommitRoot, CommitFails
<1>2. ASSUME NEW how \in SealOutcomes PROVE ~SealOpen(how)
  BY DEF SealOpen
<1>3. CASE Ship
  <2>1. CASE FlushStamp
    BY <2>1 DEF FlushStamp, ForgeRootAfter
  <2>2. CASE ~FlushStamp
    BY <1>3, <2>2 DEF Ship, TakeQueued, SweepNext, StartSweep, SweepClosed, FlushSeal,
       FlushTrivial, FlushSubmit, FlushLocate, FlushInclude, FlushRetry, FlushGivesUp,
       RetireFiles, RetireRows
  <2>3. QED
    BY <2>1, <2>2
<1>4. ~Recover
  BY DEF Recover, OpenLog, ScanDone, SealDone, RecoverRetired, RecoverSealedRow,
     RecoverSetAside, RecoverFromIdx, RecoverOpen, RecoverRefuses, ForceSeal, PruneRow,
     RebuildAppend, RebuildMove, RebuildSeal, RebuildDone, RecoverDone
<1>5. CASE Delete
  BY <1>5 DEF Delete, EmptyRoot, QuiesceDone, ListShipped, DeleteSpace, DropBucket,
     RemoveBucketLog, DeleteFails, Quiesce, ReleaseRetired, ReleaseShipped
<1>6. ~Fault
  BY DEF Fault, Crash, TornAppend, LoseFiles, DamageFiles, VolumeMissing, VolumeBack, DiskFault
<1>7. QED
  BY <1>1, <1>2, <1>3, <1>4, <1>5, <1>6 DEF Next

(***************************************************************************)
(* MarkSegmentShipped's guard holds for every history: forge_root_cid only *)
(* ever moves to the root the bucket has committed, never to the op-root   *)
(* of a commit that failed.                                                *)
(***************************************************************************)
THEOREM ForgeRootGuarded == Spec => ForgeRootFollowsRoot
<1>1. [Next]_vars => [forgeRoot' # forgeRoot => forgeRoot' = root']_vars
  BY ForgeRootStep
<1>2. QED
  BY <1>1, PTL DEF Spec, ForgeRootFollowsRoot

-----------------------------------------------------------------------------
(* The inductive invariant.                                                *)

\* A write under way: its batch is in the segment's files, or on Forge once
\* the segment has shipped.
WriterInv ==
    writer.pc = "appended" =>
        /\ log = "running" /\ bucket = "live" /\ deleter.pc = "idle"
        /\ writer.expect = root
        /\ Tree[writer.next] \ Tree[root] \subseteq writer.batch
        /\ rows[writer.seg].state # "none"
        /\ rows[writer.seg].shipped => \A b \in writer.batch : Resolvable(b)
        /\ ~rows[writer.seg].shipped =>
              /\ writer.seg \in sealed \cup {open}
              /\ writer.batch \subseteq file[writer.seg].blocks
              /\ aside[writer.seg] = NoFile

\* A delete under way has emptied the root; it releases with the log closed.
DeleterInv ==
    /\ deleter.pc # "idle" => /\ root = NoRoot /\ journal = {}
                              /\ log \in {"running", "closing", "closed"}
    /\ deleter.pc \in {"quiesced", "listed", "spaceless", "cleanup"} => log = "closed"
    /\ bucket = "deleted" => root = NoRoot /\ journal = {}

\* How far the ship under way has got.
FlusherInv ==
    /\ log \notin {"running", "closing"} => flusher.phase = "idle"
    /\ flusher.phase \in {"seal", "submit", "locate", "include", "stamp"}
          => flusher.seq \in sealed
    /\ flusher.phase \in {"locate", "include"} => Shard \in forge
    /\ flusher.phase = "include" => Shard \in located
    /\ flusher.phase = "stamp" /\ bucket = "live" => \A b \in Shard : Resolvable(b)
    /\ flusher.phase = "retired" => flusher.gone \subseteq shipped
    /\ queue \cup pending \subseteq sealed \cup shipped

\* A segment just created, which nothing but its row and its files knows.
Fresh(s) ==
    /\ s < seqNext /\ s \notin sealed \cup shipped
    /\ file[s].car = "ok" /\ aside[s] = NoFile
    /\ rows[s].state # "none" /\ ~rows[s].shipped

\* The segments memory knows, and the ones not allocated yet.
SegmentInv ==
    /\ open # NoSeq => Fresh(open)
    /\ \A s \in sealed : file[s].car = "ok"
    /\ \A s \in Seqs : file[s].car = "damaged" => ~file[s].idx
    /\ \A s \in Seqs : aside[s].car = "damaged" => ~aside[s].idx
    /\ \A s \in shipped : rows[s].state = "none" \/ rows[s].shipped
    /\ \A s \in Seqs : s >= seqNext =>
          rows[s] = NoRow /\ file[s] = NoFile /\ aside[s] = NoFile /\ s \notin sealed \cup shipped

\* Where recovery stands.
RecoveryInv ==
    /\ log # "scan" => todo = {}
    /\ log \notin {"scan", "seal"} => opens = {}
    /\ log # "rebuild" => rebuild = NoBuild
    /\ log \in {"down", "closed"} => sealed = {} /\ shipped = {}
    /\ log \notin {"running"} => open = NoSeq
    /\ todo \cup opens \subseteq OnDisk
    /\ todo \cap (opens \cup sealed \cup shipped) = {}
    /\ opens \cap (sealed \cup shipped) = {} /\ \A s \in opens : file[s].car = "ok"
    /\ rebuild.cur # NoSeq => Fresh(rebuild.cur)
    /\ rebuild.from # NoSeq => /\ rebuild.from # rebuild.cur /\ bucket = "live"
                               /\ rebuild.chunk \subseteq file[rebuild.cur].blocks
    /\ log = "prune" => Lost = {}
    /\ log \notin {"running", "closing"} => queue = {} /\ pending = {}

\* Every journaled block is in its segment's files, wherever those are.
JournalInv ==
    \A s \in Seqs, b \in Blocks : <<s, b>> \in journal =>
        /\ ~rows[s].shipped /\ s \notin shipped /\ s < seqNext
        /\ file[s].car = "ok" => b \in file[s].blocks
        /\ aside[s].car = "ok" => b \in aside[s].blocks
        /\ file[s].car = "damaged" \/ aside[s].car = "damaged"
              => HasRow(s) /\ rows[s].state = "sealed"
        /\ log = "running" => s \in sealed \cup {open}
        /\ Recovering /\ file[s].car # "none"
              => s \in todo \cup opens \cup sealed \cup {rebuild.cur}

IInv == /\ TypeOK /\ WriterInv /\ DeleterInv /\ FlusherInv /\ SegmentInv /\ RecoveryInv
        /\ JournalInv /\ DurableCatalog

-----------------------------------------------------------------------------
(* What the registry's statements change, row by row.                      *)

\* What the steps below need of TypeOK.
Typed ==
    /\ Seqs \subseteq Nat /\ NoSeq \notin Seqs /\ seqNext \in Nat
    /\ sealed \subseteq Seqs /\ shipped \subseteq Seqs /\ todo \subseteq Seqs
    /\ opens \subseteq Seqs /\ open \in Seqs \cup {NoSeq}
    /\ rebuild.cur \in Seqs \cup {NoSeq} /\ rebuild.from \in Seqs \cup {NoSeq}
    /\ flusher.phase # "idle" => flusher.seq \in Seqs
    /\ writer.pc = "appended" => writer.seg \in Seqs /\ writer.batch \subseteq Blocks
    /\ journal \subseteq Seqs \X Blocks
    /\ \A s \in Seqs : /\ file[s].car \in {"none", "ok", "damaged"}
                       /\ file[s].blocks \subseteq Blocks
    /\ Tree[root] \subseteq Blocks

\* TypeOK gives what the steps below need.
LEMMA TypedState == TypeOK => Typed
BY BoundsAssumption, TreeAssumption DEF TypeOK, Typed, Seqs, NoSeq, File

\* The same after a step.
LEMMA TypedNext == TypeOK' => Typed'
BY BoundsAssumption, TreeAssumption DEF TypeOK, Typed, Seqs, NoSeq, File

\* A step that at most seals rows, one that at most indexes the files of S, one
\* that at most unlinks the files of S, and one that appends bs to segment s.
RowsSealed ==
    \A t \in Seqs : /\ rows'[t].shipped = rows[t].shipped /\ rows'[t].retired = rows[t].retired
                    /\ rows'[t].state = "none" <=> rows[t].state = "none"
                    /\ rows[t].state = "sealed" => rows'[t].state = "sealed"
                    /\ rows[t] = NoRow => rows'[t] = NoRow

FilesIndexed(S) ==
    \A t \in Seqs : /\ file'[t].car = file[t].car /\ file'[t].blocks = file[t].blocks
                    /\ t \notin S => file'[t] = file[t]

FilesGone(S) ==
    \A t \in Seqs : /\ t \in S => file'[t] = NoFile
                    /\ t \notin S => file'[t] = file[t]

Grows(s, bs) ==
    /\ \A t \in Seqs : t # s => rows'[t] = rows[t] /\ file'[t] = file[t]
    /\ file'[s].car = "ok" /\ file'[s].blocks = file[s].blocks \cup bs
    /\ rows[s].state # "none" => rows'[s] = rows[s]
    /\ rows[s].state = "none" => ~rows'[s].shipped

\* A segment an append may go into: just created, or the next one.
Growable(s) ==
    /\ s \in Seqs
    /\ \/ s < seqNext /\ Fresh(s)
       \/ /\ s = seqNext /\ rows[s] = NoRow /\ file[s] = NoFile /\ aside[s] = NoFile
          /\ s \notin sealed \cup shipped

\* MarkSegmentSealed changes the state and the digest of an open row, no more.
LEMMA SealedRows ==
    ASSUME NEW s \in Seqs, NEW d, rows \in [Seqs -> Row],
           rows' = MarkSegmentSealed(rows, s, d)
    PROVE  RowsSealed
<1>1. CASE rows[s].state = "open"
  <2>1. rows' = [rows EXCEPT ![s].state = "sealed", ![s].sha = d]
    BY <1>1 DEF MarkSegmentSealed
  <2>2. \A t \in Seqs : t # s => rows'[t] = rows[t]
    BY <2>1
  <2>3. /\ rows'[s].shipped = rows[s].shipped /\ rows'[s].retired = rows[s].retired
        /\ rows'[s].state = "sealed" /\ rows[s] # NoRow
    BY <1>1, <2>1 DEF Row, NoRow
  <2>4. QED
    BY <1>1, <2>2, <2>3 DEF RowsSealed
<1>2. CASE rows[s].state # "open"
  BY <1>2 DEF MarkSegmentSealed, RowsSealed
<1>3. QED
  BY <1>1, <1>2

\* A statement that touches no row at most seals rows.
LEMMA SameRows == ASSUME rows' = rows PROVE RowsSealed
BY DEF RowsSealed

\* Writing a segment's .idx leaves its blocks alone.
LEMMA IndexedFiles ==
    ASSUME NEW s \in Seqs, file \in [Seqs -> File],
           file' = file \/ file' = [file EXCEPT ![s].idx = TRUE]
    PROVE  FilesIndexed({s})
BY DEF FilesIndexed, File

\* Segment.append, with the row of a segment it creates.
LEMMA GrownSegment ==
    ASSUME NEW s \in Seqs, NEW bs, NEW ops, file \in [Seqs -> File], rows \in [Seqs -> Row],
           file' = [file EXCEPT ![s] = Appended(@, bs, ops)],
           \/ rows' = InsertSegmentOpen(rows, s)
           \/ rows' = rows /\ s = seqNext /\ rows[s] = NoRow
    PROVE  Grows(s, bs)
<1>1. file'[s] = Appended(file[s], bs, ops)
  OBVIOUS
<1>2. file'[s].car = "ok" /\ file'[s].blocks = file[s].blocks \cup bs
  BY <1>1 DEF Appended, File
<1>3. \A t \in Seqs : t # s => file'[t] = file[t]
  OBVIOUS
<1>4. CASE rows' = InsertSegmentOpen(rows, s)
  <2>1. CASE rows[s].state = "none"
    <3>1. rows' = [rows EXCEPT ![s] = [NoRow EXCEPT !.state = "open"]]
      BY <1>4, <2>1 DEF InsertSegmentOpen
    <3>2. rows'[s] = [NoRow EXCEPT !.state = "open"] /\ \A t \in Seqs : t # s => rows'[t] = rows[t]
      BY <3>1
    <3>3. rows'[s].state # "none" /\ ~rows'[s].shipped
      BY <3>2 DEF NoRow
    <3>4. QED
      BY <1>2, <1>3, <2>1, <3>2, <3>3 DEF Grows
  <2>2. CASE rows[s].state # "none"
    BY <1>2, <1>3, <1>4, <2>2 DEF InsertSegmentOpen, Grows
  <2>3. QED
    BY <2>1, <2>2
<1>5. CASE rows' = rows /\ s = seqNext /\ rows[s] = NoRow
  BY <1>2, <1>3, <1>5 DEF Grows, NoRow
<1>6. QED
  BY <1>4, <1>5

\* InsertSegmentOpen leaves a row, whether or not it inserted it.
LEMMA InsertedRow ==
    ASSUME NEW s \in Seqs, rows \in [Seqs -> Row], rows' = InsertSegmentOpen(rows, s)
    PROVE  rows'[s].state # "none"
BY DEF InsertSegmentOpen, NoRow, Row

\* MarkSegmentShipped stamps one row and keeps its state, digest and retirement.
LEMMA ShippedRows ==
    ASSUME NEW rs \in [Seqs -> Row], NEW s \in Seqs, NEW indexed, NEW t \in Seqs
    PROVE  LET r == MarkSegmentShipped(rs, s, indexed)
           IN  /\ t # s => r[t] = rs[t]
               /\ r[t].state = rs[t].state /\ r[t].retired = rs[t].retired /\ r[t].sha = rs[t].sha
               /\ r[s].state = "none" \/ r[s].shipped
BY DEF MarkSegmentShipped, Row

\* RetireSegments only stamps existing rows of the set it is given.
LEMMA RetiredRows ==
    ASSUME NEW rs \in [Seqs -> Row], NEW S, NEW t \in Seqs
    PROVE  LET r == RetireSegments(rs, S)
           IN  /\ t \notin S => r[t] = rs[t]
               /\ r[t].state = rs[t].state /\ r[t].shipped = rs[t].shipped /\ r[t].sha = rs[t].sha
               /\ rs[t].state = "none" => r[t] = rs[t]
BY DEF RetireSegments, Row

\* The next seq, and a segment just created, can take an append.
LEMMA NextGrows == ASSUME SegmentInv, Typed, seqNext \in Seqs PROVE Growable(seqNext)
BY DEF SegmentInv, Growable, Typed

\* So can a segment just created.
LEMMA FreshGrows == ASSUME NEW s \in Seqs, Fresh(s) PROVE Growable(s)
BY DEF Growable, Fresh


\* A step of a write keeps the invariant.
LEMMA KeepWrite == IInv /\ Write => IInv'
<1> SUFFICES ASSUME IInv, Write PROVE IInv'
  OBVIOUS
<1> USE DEF IInv, pgVars, forgeVars, diskVars, recVars, memVars, opVars
<1>a. TypeOK' /\ Typed /\ Typed'
  BY TypeWrite, TypedState, TypedNext
<1>1. ASSUME NEW r \in Roots, NEW bs \in SUBSET Tree[r], AppendBatch(r, bs) PROVE IInv'
  <2>1. /\ log = "running" /\ bucket = "live" /\ deleter.pc = "idle" /\ writer.pc = "idle"
        /\ Tree[r] \ Tree[root] \subseteq bs /\ bs \subseteq Blocks
    BY <1>1, TreeAssumption DEF AppendBatch, Writable, BucketLockFree, Batches
  <2>2. Growable(AppendSeq)
    BY <1>1, <1>a, NextGrows, FreshGrows DEF AppendBatch, AppendSeq, SegmentInv, Typed
  <2>3. Grows(AppendSeq, bs) /\ rows'[AppendSeq].state # "none"
    BY <1>1, <2>2, GrownSegment, InsertedRow DEF AppendBatch, Growable, TypeOK
  <2>4. /\ open' = AppendSeq /\ open \in {AppendSeq, NoSeq}
        /\ seqNext' >= seqNext /\ AppendSeq < seqNext'
        /\ writer'.pc = "appended" /\ writer'.seg = AppendSeq /\ writer'.batch = bs
        /\ writer'.expect = root /\ writer'.next = r
    BY <1>1, <1>a, <2>2 DEF AppendBatch, AppendSeq, SegmentInv, Fresh, Typed
  <2>5. UNCHANGED <<root, bucket, journal, located, inclusion, forgeVars, aside, log, recVars,
                    sealed, shipped, queue, pending, flusher, deleter>>
    BY <1>1 DEF AppendBatch
  <2>6. WriterInv'
    BY <2>1, <2>2, <2>3, <2>4, <2>5, <1>a DEF WriterInv, Resolvable, Typed, NoFile, NoRow,
       NoBuild, NoSeq, Grows, Growable, Fresh
  <2>7. DeleterInv'
    BY <2>1, <2>2, <2>3, <2>4, <2>5, <1>a DEF DeleterInv, Typed, NoFile, NoRow, NoBuild, NoSeq,
       Grows, Growable, Fresh
  <2>8. FlusherInv'
    BY <2>1, <2>2, <2>3, <2>4, <2>5, <1>a DEF FlusherInv, Shard, Resolvable, Typed, NoFile,
       NoRow, NoBuild, NoSeq, Grows, Growable, Fresh
  <2>9. SegmentInv'
    <3>1. Fresh(open)'
      BY <1>a, <2>2, <2>3, <2>4, <2>5 DEF Fresh, Grows, Growable, NoRow, Typed
    <3>2. \A s \in Seqs : s >= seqNext' => s # AppendSeq /\ s >= seqNext
      BY <1>a, <2>2, <2>4 DEF Growable, Typed
    <3>3. AppendSeq \notin sealed \cup shipped
      BY <2>2 DEF Growable, Fresh
    <3>4. QED
      BY <1>a, <2>3, <2>5, <3>1, <3>2, <3>3 DEF SegmentInv, Grows, Typed
  <2>10. RecoveryInv'
    BY <2>1, <2>2, <2>3, <2>4, <2>5, <1>a DEF RecoveryInv, Fresh, OnDisk, Lost, Journaled,
       Typed, NoFile, NoRow, NoBuild, NoSeq, Grows, Growable
  <2>11. JournalInv'
    <3>1. /\ AppendSeq \notin shipped /\ aside[AppendSeq].car = "none"
          /\ ~rows'[AppendSeq].shipped
          /\ AppendSeq < seqNext => file[AppendSeq].car = "ok"
      BY <1>a, <2>2, <2>3 DEF Growable, Fresh, Grows, NoRow, NoFile, Typed
    <3>2. QED
      BY <1>a, <2>1, <2>2, <2>3, <2>4, <2>5, <3>1 DEF JournalInv, HasRow, Recovering, Grows,
         Growable, Typed
  <2>12. DurableCatalog'
    BY <2>1, <2>2, <2>3, <2>4, <2>5, <1>a DEF DurableCatalog, Resolvable, Typed, NoFile, NoRow,
       NoBuild, NoSeq, Grows, Growable, Fresh
  <2>13. QED
    BY <1>a, <2>6, <2>7, <2>8, <2>9, <2>10, <2>11, <2>12
<1>2. CASE CommitRoot
  <2>1. /\ log = "running" /\ bucket = "live" /\ deleter.pc = "idle" /\ rebuild = NoBuild
        /\ writer.seg \in Seqs /\ Tree[writer.next] \ Tree[root] \subseteq writer.batch
    BY <1>2, <1>a DEF CommitRoot, WriterInv, RecoveryInv, Typed
  <2>2. \A t \in Seqs, b \in Blocks :
           <<t, b>> \in journal' <=>
              \/ <<t, b>> \in journal
              \/ /\ t = writer.seg /\ b \in writer.batch
                 /\ rows[t].state # "none" /\ ~rows[t].shipped
    BY <1>2, <2>1 DEF CommitRoot, JournalOf
  <2>3. ~rows[writer.seg].shipped =>
           /\ writer.seg \in sealed \cup {open} /\ writer.seg \notin shipped
           /\ writer.seg < seqNext
           /\ file[writer.seg].car = "ok" /\ aside[writer.seg].car = "none"
           /\ writer.batch \subseteq file[writer.seg].blocks
    <3> SUFFICES ASSUME ~rows[writer.seg].shipped
                 PROVE  /\ writer.seg \in sealed \cup {open} /\ writer.seg \notin shipped
                        /\ writer.seg < seqNext
                        /\ file[writer.seg].car = "ok" /\ aside[writer.seg].car = "none"
                        /\ writer.batch \subseteq file[writer.seg].blocks
      OBVIOUS
    <3>1. /\ writer.seg \in sealed \cup {open} /\ writer.batch \subseteq file[writer.seg].blocks
          /\ aside[writer.seg] = NoFile /\ rows[writer.seg].state # "none"
      BY <1>2 DEF CommitRoot, WriterInv
    <3>2. writer.seg < seqNext /\ file[writer.seg].car = "ok"
      <4>1. CASE writer.seg \in sealed
        <5>1. ~(writer.seg >= seqNext) /\ file[writer.seg].car = "ok"
          BY <2>1, <4>1 DEF SegmentInv
        <5>2. writer.seg \in Nat /\ seqNext \in Nat
          BY <1>a, <2>1 DEF Typed
        <5>3. QED
          BY <5>1, <5>2
      <4>2. CASE writer.seg = open
        <5>1. Fresh(open)
          BY <1>a, <2>1, <4>2 DEF SegmentInv, Typed
        <5>2. QED
          BY <4>2, <5>1 DEF Fresh
      <4>3. QED
        BY <3>1, <4>1, <4>2
    <3>3. QED
      BY <2>1, <3>1, <3>2 DEF SegmentInv, NoFile
  <2>4. \A b \in writer.batch : <<writer.seg, b>> \in journal' \/ Resolvable(b)
    BY <1>2, <1>a, <2>1, <2>2 DEF CommitRoot, WriterInv, Typed
  <2>5. /\ root' = writer.next /\ writer'.pc = "idle"
        /\ UNCHANGED <<bucket, rows, seqNext, located, inclusion, forgeVars, diskVars, log,
                       recVars, memVars, deleter>>
    BY <1>2 DEF CommitRoot, NoWrite
  <2>6. WriterInv'
    BY <2>1, <2>2, <2>3, <2>4, <2>5, <1>a DEF WriterInv, Resolvable, Typed, NoFile, NoRow,
       NoBuild, NoSeq
  <2>7. DeleterInv'
    BY <2>1, <2>2, <2>3, <2>4, <2>5, <1>a DEF DeleterInv, Typed, NoFile, NoRow, NoBuild, NoSeq
  <2>8. FlusherInv'
    BY <2>1, <2>2, <2>3, <2>4, <2>5, <1>a DEF FlusherInv, Shard, Resolvable, Typed, NoFile,
       NoRow, NoBuild, NoSeq
  <2>9. SegmentInv'
    BY <2>1, <2>2, <2>3, <2>4, <2>5, <1>a DEF SegmentInv, Fresh, Typed, NoFile, NoRow, NoBuild,
       NoSeq
  <2>10. RecoveryInv'
    BY <2>1, <2>2, <2>3, <2>4, <2>5, <1>a DEF RecoveryInv, Fresh, OnDisk, Lost, Journaled,
       Typed, NoFile, NoRow, NoBuild, NoSeq
  <2>11. JournalInv'
    BY ZenonT(60), <2>1, <2>2, <2>3, <2>4, <2>5, <1>a DEF JournalInv, HasRow, Recovering, Typed,
       NoFile,
       NoRow, NoBuild, NoSeq
  <2>12. DurableCatalog'
    BY <2>1, <2>2, <2>3, <2>4, <2>5, <1>a DEF DurableCatalog, Resolvable, Typed, NoFile, NoRow,
       NoBuild, NoSeq
  <2>13. QED
    BY <1>a, <2>6, <2>7, <2>8, <2>9, <2>10, <2>11, <2>12
<1>3. CASE CommitFails
  <2>1. WriterInv'
    BY <1>3 DEF WriterInv, Resolvable, CommitFails, NoWrite
  <2>2. DeleterInv'
    BY <1>3 DEF DeleterInv, CommitFails, NoWrite
  <2>3. FlusherInv'
    BY <1>3 DEF FlusherInv, Shard, Resolvable, CommitFails, NoWrite
  <2>4. SegmentInv'
    BY <1>3 DEF SegmentInv, Fresh, CommitFails, NoWrite
  <2>5. RecoveryInv'
    BY <1>3 DEF RecoveryInv, Fresh, OnDisk, Lost, Journaled, CommitFails, NoWrite
  <2>6. JournalInv'
    BY <1>3 DEF JournalInv, HasRow, Recovering, CommitFails, NoWrite
  <2>7. DurableCatalog'
    BY <1>3 DEF DurableCatalog, Resolvable, CommitFails, NoWrite
  <2>8. QED
    BY <1>a, <2>1, <2>2, <2>3, <2>4, <2>5, <2>6, <2>7
<1>4. QED
  BY <1>1, <1>2, <1>3 DEF Write

\* The seal of the open segment keeps the invariant.
LEMMA KeepSeal ==
    ASSUME IInv, NEW how \in SealOutcomes, SealOpen(how)
    PROVE  IInv'
<1> USE DEF IInv, pgVars, forgeVars, diskVars, recVars, memVars, opVars
<1>a. TypeOK' /\ Typed /\ Typed'
  BY TypeSeal, TypedState, TypedNext
<1>1. IInv'
  <2>1. open \in Seqs /\ Fresh(open) /\ log = "running"
    BY <1>a DEF SealOpen, SegmentInv, Typed
  <2>2. RowsSealed
    BY <2>1, SealedRows, SameRows DEF SealOpen, SealRow, TypeOK
  <2>3. FilesIndexed({open})
    BY <2>1, IndexedFiles DEF SealOpen, SealFile, TypeOK
  <2>4. /\ sealed' = sealed \cup {open} /\ open' = NoSeq /\ queue' \subseteq queue \cup {open}
        /\ UNCHANGED <<root, bucket, seqNext, journal, located, inclusion, forgeVars, aside, log,
                       recVars, shipped, pending, flusher, opVars>>
    BY DEF SealOpen, Enqueue
  <2>5. WriterInv'
    BY <2>1, <2>2, <2>3, <2>4, <1>a DEF WriterInv, Resolvable, Typed, NoFile, NoRow, NoBuild,
       NoSeq, RowsSealed, FilesIndexed, Fresh
  <2>6. DeleterInv'
    BY <2>1, <2>2, <2>3, <2>4, <1>a DEF DeleterInv, Typed, NoFile, NoRow, NoBuild, NoSeq,
       RowsSealed, FilesIndexed, Fresh
  <2>7. FlusherInv'
    BY <2>1, <2>2, <2>3, <2>4, <1>a DEF FlusherInv, Shard, Resolvable, Typed, NoFile, NoRow,
       NoBuild, NoSeq, RowsSealed, FilesIndexed, Fresh
  <2>8. SegmentInv'
    BY <2>1, <2>2, <2>3, <2>4, <1>a DEF SegmentInv, Fresh, Typed, NoFile, NoRow, NoBuild, NoSeq,
       RowsSealed, FilesIndexed
  <2>9. RecoveryInv'
    BY <2>1, <2>2, <2>3, <2>4, <1>a DEF RecoveryInv, Fresh, OnDisk, Lost, Journaled, Typed,
       NoFile, NoRow, NoBuild, NoSeq, RowsSealed, FilesIndexed
  <2>10. JournalInv'
    BY <2>1, <2>2, <2>3, <2>4, <1>a DEF JournalInv, HasRow, Recovering, Typed, NoFile, NoRow,
       NoBuild, NoSeq, RowsSealed, FilesIndexed, Fresh
  <2>11. DurableCatalog'
    BY <2>1, <2>2, <2>3, <2>4, <1>a DEF DurableCatalog, Resolvable, Typed, NoFile, NoRow,
       NoBuild, NoSeq, RowsSealed, FilesIndexed, Fresh
  <2>12. QED
    BY <1>a, <2>5, <2>6, <2>7, <2>8, <2>9, <2>10, <2>11
<1>2. QED
  BY <1>1

\* A step of the flush goroutine keeps the invariant.
LEMMA KeepShip == IInv /\ Ship => IInv'
<1> SUFFICES ASSUME IInv, Ship PROVE IInv'
  OBVIOUS
<1> USE DEF IInv, pgVars, forgeVars, diskVars, recVars, memVars, opVars
<1>a. TypeOK' /\ Typed /\ Typed'
  BY TypeShip, TypedState, TypedNext
<1>1. ASSUME NEW s \in Seqs, TakeQueued(s) PROVE IInv'
  <2>1. WriterInv'
    BY <1>1 DEF WriterInv, Resolvable, TakeQueued, StartFlush, Idle, Working
  <2>2. DeleterInv'
    BY <1>1 DEF DeleterInv, TakeQueued, StartFlush, Idle, Working
  <2>3. FlusherInv'
    BY <1>1 DEF FlusherInv, Shard, Resolvable, TakeQueued, StartFlush, Idle, Working
  <2>4. SegmentInv'
    BY <1>1 DEF SegmentInv, Fresh, TakeQueued, StartFlush, Idle, Working
  <2>5. RecoveryInv'
    BY <1>1 DEF RecoveryInv, Fresh, OnDisk, Lost, Journaled, TakeQueued, StartFlush, Idle,
       Working
  <2>6. JournalInv'
    BY <1>1 DEF JournalInv, HasRow, Recovering, TakeQueued, StartFlush, Idle, Working
  <2>7. DurableCatalog'
    BY <1>1 DEF DurableCatalog, Resolvable, TakeQueued, StartFlush, Idle, Working
  <2>8. QED
    BY <1>a, <2>1, <2>2, <2>3, <2>4, <2>5, <2>6, <2>7
<1>2. ASSUME NEW s \in Seqs, SweepNext(s) PROVE IInv'
  <2>1. WriterInv'
    BY <1>2 DEF WriterInv, Resolvable, SweepNext, StartFlush, Idle
  <2>2. DeleterInv'
    BY <1>2 DEF DeleterInv, SweepNext, StartFlush, Idle
  <2>3. FlusherInv'
    BY <1>2 DEF FlusherInv, Shard, Resolvable, SweepNext, StartFlush, Idle
  <2>4. SegmentInv'
    BY <1>2 DEF SegmentInv, Fresh, SweepNext, StartFlush, Idle
  <2>5. RecoveryInv'
    BY <1>2 DEF RecoveryInv, Fresh, OnDisk, Lost, Journaled, SweepNext, StartFlush, Idle
  <2>6. JournalInv'
    BY <1>2 DEF JournalInv, HasRow, Recovering, SweepNext, StartFlush, Idle
  <2>7. DurableCatalog'
    BY <1>2 DEF DurableCatalog, Resolvable, SweepNext, StartFlush, Idle
  <2>8. QED
    BY <1>a, <2>1, <2>2, <2>3, <2>4, <2>5, <2>6, <2>7
<1>3. CASE StartSweep
  <2>1. WriterInv'
    BY <1>3 DEF WriterInv, Resolvable, StartSweep
  <2>2. DeleterInv'
    BY <1>3 DEF DeleterInv, StartSweep
  <2>3. FlusherInv'
    BY <1>3 DEF FlusherInv, Shard, Resolvable, StartSweep
  <2>4. SegmentInv'
    BY <1>3 DEF SegmentInv, Fresh, StartSweep
  <2>5. RecoveryInv'
    BY <1>3 DEF RecoveryInv, Fresh, OnDisk, Lost, Journaled, StartSweep
  <2>6. JournalInv'
    BY <1>3 DEF JournalInv, HasRow, Recovering, StartSweep
  <2>7. DurableCatalog'
    BY <1>3 DEF DurableCatalog, Resolvable, StartSweep
  <2>8. QED
    BY <1>a, <2>1, <2>2, <2>3, <2>4, <2>5, <2>6, <2>7
<1>4. CASE SweepClosed
  <2>1. WriterInv'
    BY <1>4 DEF WriterInv, Resolvable, SweepClosed
  <2>2. DeleterInv'
    BY <1>4 DEF DeleterInv, SweepClosed
  <2>3. FlusherInv'
    BY <1>4 DEF FlusherInv, Shard, Resolvable, SweepClosed
  <2>4. SegmentInv'
    BY <1>4 DEF SegmentInv, Fresh, SweepClosed
  <2>5. RecoveryInv'
    BY <1>4 DEF RecoveryInv, Fresh, OnDisk, Lost, Journaled, SweepClosed
  <2>6. JournalInv'
    BY <1>4 DEF JournalInv, HasRow, Recovering, SweepClosed
  <2>7. DurableCatalog'
    BY <1>4 DEF DurableCatalog, Resolvable, SweepClosed
  <2>8. QED
    BY <1>a, <2>1, <2>2, <2>3, <2>4, <2>5, <2>6, <2>7
<1>5. CASE FlushSeal
  <2>1. /\ flusher.seq \in Seqs /\ flusher.seq \in sealed /\ file[flusher.seq].car = "ok"
        /\ log \in {"running", "closing"}
    BY <1>5 DEF FlushSeal, At, Working, FlusherInv, SegmentInv, TypeOK
  <2>2. RowsSealed
    BY <1>5, <2>1, SealedRows, SameRows DEF FlushSeal, SealRow, TypeOK
  <2>3. FilesIndexed({flusher.seq})
    BY <1>5, <2>1, IndexedFiles DEF FlushSeal, SealFile, TypeOK
  <2>4. /\ UNCHANGED <<root, bucket, seqNext, journal, located, inclusion, forgeVars, aside, log,
                       recVars, open, sealed, shipped, queue, pending, opVars>>
        /\ flusher'.seq = flusher.seq /\ flusher'.gone = flusher.gone /\ flusher'.phase = "submit"
    BY <1>5 DEF FlushSeal, At, Goto, TypeOK
  <2>5. WriterInv'
    BY <2>1, <2>2, <2>3, <2>4, <1>a DEF WriterInv, Resolvable, Typed, NoFile, NoRow, NoBuild,
       NoSeq, RowsSealed, FilesIndexed, Fresh
  <2>6. DeleterInv'
    BY <2>1, <2>2, <2>3, <2>4, <1>a DEF DeleterInv, Typed, NoFile, NoRow, NoBuild, NoSeq,
       RowsSealed, FilesIndexed, Fresh
  <2>7. FlusherInv'
    BY <2>1, <2>2, <2>3, <2>4, <1>a DEF FlusherInv, Shard, Resolvable, Typed, NoFile, NoRow,
       NoBuild, NoSeq, RowsSealed, FilesIndexed, Fresh
  <2>8. SegmentInv'
    BY <2>1, <2>2, <2>3, <2>4, <1>a DEF SegmentInv, Fresh, Typed, NoFile, NoRow, NoBuild, NoSeq,
       RowsSealed, FilesIndexed
  <2>9. RecoveryInv'
    BY <2>1, <2>2, <2>3, <2>4, <1>a DEF RecoveryInv, Fresh, OnDisk, Lost, Journaled, Typed,
       NoFile, NoRow, NoBuild, NoSeq, RowsSealed, FilesIndexed
  <2>10. JournalInv'
    BY ZenonT(60), <2>1, <2>2, <2>3, <2>4, <1>a DEF JournalInv, HasRow, Recovering, Typed, NoFile,
       NoRow,
       NoBuild, NoSeq, RowsSealed, FilesIndexed, Fresh
  <2>11. DurableCatalog'
    BY <2>1, <2>2, <2>3, <2>4, <1>a DEF DurableCatalog, Resolvable, Typed, NoFile, NoRow,
       NoBuild, NoSeq, RowsSealed, FilesIndexed, Fresh
  <2>12. QED
    BY <1>a, <2>5, <2>6, <2>7, <2>8, <2>9, <2>10, <2>11
<1>6. CASE FlushTrivial
  <2>1. WriterInv'
    BY <1>6 DEF WriterInv, Resolvable, FlushTrivial, At, Goto, Working
  <2>2. DeleterInv'
    BY <1>6 DEF DeleterInv, FlushTrivial, At, Goto, Working
  <2>3. FlusherInv'
    BY <1>6 DEF FlusherInv, Shard, Resolvable, FlushTrivial, At, Goto, Working
  <2>4. SegmentInv'
    BY <1>6 DEF SegmentInv, Fresh, FlushTrivial, At, Goto, Working
  <2>5. RecoveryInv'
    BY <1>6 DEF RecoveryInv, Fresh, OnDisk, Lost, Journaled, FlushTrivial, At, Goto, Working
  <2>6. JournalInv'
    BY <1>6 DEF JournalInv, HasRow, Recovering, FlushTrivial, At, Goto, Working
  <2>7. DurableCatalog'
    BY <1>6 DEF DurableCatalog, Resolvable, FlushTrivial, At, Goto, Working
  <2>8. QED
    BY <1>a, <2>1, <2>2, <2>3, <2>4, <2>5, <2>6, <2>7
<1>7. ASSUME NEW indexed \in BOOLEAN, FlushSubmit(indexed) PROVE IInv'
  <2>1. WriterInv'
    BY <1>7 DEF WriterInv, Resolvable, FlushSubmit, At, Goto, Working
  <2>2. DeleterInv'
    BY <1>7 DEF DeleterInv, FlushSubmit, At, Goto, Working
  <2>3. FlusherInv'
    BY <1>7 DEF FlusherInv, Shard, Resolvable, FlushSubmit, At, Goto, Working
  <2>4. SegmentInv'
    BY <1>7 DEF SegmentInv, Fresh, FlushSubmit, At, Goto, Working
  <2>5. RecoveryInv'
    BY <1>7 DEF RecoveryInv, Fresh, OnDisk, Lost, Journaled, FlushSubmit, At, Goto, Working
  <2>6. JournalInv'
    BY <1>7 DEF JournalInv, HasRow, Recovering, FlushSubmit, At, Goto, Working
  <2>7. DurableCatalog'
    BY <1>7 DEF DurableCatalog, Resolvable, FlushSubmit, At, Goto, Working
  <2>8. QED
    BY <1>a, <2>1, <2>2, <2>3, <2>4, <2>5, <2>6, <2>7
<1>8. CASE FlushLocate
  <2>1. WriterInv'
    BY <1>8 DEF WriterInv, Resolvable, FlushLocate, At, Goto, Working
  <2>2. DeleterInv'
    BY <1>8 DEF DeleterInv, FlushLocate, At, Goto, Working
  <2>3. FlusherInv'
    BY <1>8 DEF FlusherInv, Shard, Resolvable, FlushLocate, At, Goto, Working
  <2>4. SegmentInv'
    BY <1>8 DEF SegmentInv, Fresh, FlushLocate, At, Goto, Working
  <2>5. RecoveryInv'
    BY <1>8 DEF RecoveryInv, Fresh, OnDisk, Lost, Journaled, FlushLocate, At, Goto, Working
  <2>6. JournalInv'
    BY <1>8 DEF JournalInv, HasRow, Recovering, FlushLocate, At, Goto, Working
  <2>7. DurableCatalog'
    BY <1>8 DEF DurableCatalog, Resolvable, FlushLocate, At, Goto, Working
  <2>8. QED
    BY <1>a, <2>1, <2>2, <2>3, <2>4, <2>5, <2>6, <2>7
<1>9. CASE FlushInclude
  <2>1. Shard \in forge /\ Shard \in located /\ Shard \subseteq Blocks /\ flusher.seq \in Seqs
    BY <1>9 DEF FlushInclude, At, FlusherInv, TypeOK, Shard, File
  <2>2. \A b \in Blocks : b \in Shard \/ Resolvable(b) => Resolvable(b)'
    BY <1>9, <2>1 DEF FlushInclude, Resolvable, TypeOK
  <2>3. Shard' = Shard
    BY <1>9, <2>1 DEF FlushInclude, Goto, Shard, TypeOK
  <2>4. WriterInv'
    BY <1>9, <2>2 DEF WriterInv, FlushInclude, TypeOK
  <2>5. DeleterInv'
    BY <1>9, <2>1, <2>2, <2>3 DEF DeleterInv, FlushInclude, At, Goto, Working
  <2>6. FlusherInv'
    BY <1>9, <2>1, <2>2, <2>3 DEF FlusherInv, FlushInclude, At, Goto, Working, TypeOK
  <2>7. SegmentInv'
    BY <1>9, <2>1, <2>2, <2>3 DEF SegmentInv, Fresh, FlushInclude, At, Goto, Working
  <2>8. RecoveryInv'
    BY <1>9, <2>1, <2>2, <2>3 DEF RecoveryInv, Fresh, OnDisk, Lost, Journaled, FlushInclude, At,
       Goto, Working
  <2>9. JournalInv'
    BY <1>9, <2>1, <2>2, <2>3 DEF JournalInv, HasRow, Recovering, FlushInclude, At, Goto,
       Working
  <2>10. DurableCatalog'
    BY <1>9, <2>2, TreeAssumption DEF DurableCatalog, FlushInclude, TypeOK
  <2>11. QED
    BY <1>a, <2>4, <2>5, <2>6, <2>7, <2>8, <2>9, <2>10
<1>10. CASE FlushStamp
  <2> DEFINE s == flusher.seq
  <2>1. /\ s \in Seqs /\ s \in sealed /\ file[s].car = "ok" /\ Shard = file[s].blocks
        /\ bucket = "live" => \A b \in Shard : Resolvable(b)
    BY <1>10 DEF FlushStamp, At, FlusherInv, SegmentInv, TypeOK, Shard
  <2>2. \A t \in Seqs : /\ t # s => rows'[t] = rows[t]
                        /\ rows'[t].state = rows[t].state /\ rows'[t].retired = rows[t].retired
                        /\ rows'[s].state = "none" \/ rows'[s].shipped
    <3>1. PICK indexed \in BOOLEAN : rows' = MarkSegmentShipped(rows, s, indexed)
      BY <1>10, Zenon DEF FlushStamp
    <3>2. QED
      BY <2>1, <3>1, ShippedRows DEF TypeOK
  <2>3. /\ \A t \in Seqs, b \in Blocks : <<t, b>> \in journal' <=> <<t, b>> \in journal /\ t # s
        /\ journal' \subseteq journal
    BY <1>10 DEF FlushStamp, DropJournal
  <2>4. UNCHANGED <<root, bucket, seqNext, located, inclusion, forgeVars, diskVars, log, recVars,
                    open, sealed, queue, pending, opVars>>
        /\ shipped' = shipped \cup {s}
        /\ flusher'.seq = s /\ flusher'.phase = "retain" /\ log \in {"running", "closing"}
    BY <1>10 DEF FlushStamp, At, Working, Goto, TypeOK
  <2> HIDE DEF s
  <2>5. WriterInv'
    BY ZenonT(60), <2>1, <2>2, <2>3, <2>4, <1>a DEF WriterInv, Resolvable, Typed, NoFile, NoRow,
       NoBuild,
       NoSeq
  <2>6. DeleterInv'
    BY <2>1, <2>2, <2>3, <2>4, <1>a DEF DeleterInv, Typed, NoFile, NoRow, NoBuild, NoSeq
  <2>7. FlusherInv'
    BY <2>1, <2>2, <2>3, <2>4, <1>a DEF FlusherInv, Shard, Resolvable, Typed, NoFile, NoRow,
       NoBuild, NoSeq
  <2>8. SegmentInv'
    <3>1. open # NoSeq => open # s /\ open \in Seqs
      BY <1>a, <2>1 DEF SegmentInv, Fresh, Typed
    <3>2. open # NoSeq => Fresh(open)'
      BY <2>2, <2>4, <3>1 DEF SegmentInv, Fresh
    <3>3. \A t \in Seqs : t >= seqNext => t # s
      BY <2>1 DEF SegmentInv
    <3>4. \A t \in shipped' : rows'[t].state = "none" \/ rows'[t].shipped
      BY <1>a, <2>1, <2>2, <2>4 DEF SegmentInv, Typed
    <3>5. QED
      BY <2>1, <2>2, <2>4, <3>2, <3>3, <3>4 DEF SegmentInv
  <2>9. RecoveryInv'
    BY <2>1, <2>2, <2>3, <2>4, <1>a DEF RecoveryInv, Fresh, OnDisk, Lost, Journaled, Typed,
       NoFile, NoRow, NoBuild, NoSeq
  <2>10. JournalInv'
    <3>1. \A t \in Seqs, b \in Blocks : <<t, b>> \in journal' => <<t, b>> \in journal /\ t # s
      BY <2>3
    <3>2. QED
      BY <2>2, <2>4, <3>1 DEF JournalInv, HasRow, Recovering
  <2>11. DurableCatalog'
    <3>1. CASE bucket = "deleted"
      BY <2>4, <3>1, TreeAssumption DEF DurableCatalog, DeleterInv
    <3>2. CASE bucket = "live"
      <4>1. \A b \in Blocks : <<s, b>> \in journal => Resolvable(b)
        BY <2>1, <3>2 DEF JournalInv
      <4>2. \A b \in Blocks : Resolvable(b)' = Resolvable(b)
        BY <2>4 DEF Resolvable
      <4>3. QED
        BY <1>a, <2>3, <2>4, <4>1, <4>2 DEF DurableCatalog, Typed
    <3>3. QED
      BY <3>1, <3>2 DEF TypeOK
  <2>12. QED
    BY <1>a, <2>5, <2>6, <2>7, <2>8, <2>9, <2>10, <2>11
<1>11. CASE FlushRetry
  <2>1. WriterInv'
    BY <1>11 DEF WriterInv, Resolvable, FlushRetry, At, Goto, Working
  <2>2. DeleterInv'
    BY <1>11 DEF DeleterInv, FlushRetry, At, Goto, Working
  <2>3. FlusherInv'
    BY <1>11 DEF FlusherInv, Shard, Resolvable, FlushRetry, At, Goto, Working
  <2>4. SegmentInv'
    BY <1>11 DEF SegmentInv, Fresh, FlushRetry, At, Goto, Working
  <2>5. RecoveryInv'
    BY <1>11 DEF RecoveryInv, Fresh, OnDisk, Lost, Journaled, FlushRetry, At, Goto, Working
  <2>6. JournalInv'
    BY <1>11 DEF JournalInv, HasRow, Recovering, FlushRetry, At, Goto, Working
  <2>7. DurableCatalog'
    BY <1>11 DEF DurableCatalog, Resolvable, FlushRetry, At, Goto, Working
  <2>8. QED
    BY <1>a, <2>1, <2>2, <2>3, <2>4, <2>5, <2>6, <2>7
<1>12. CASE FlushGivesUp
  <2>1. WriterInv'
    BY <1>12 DEF WriterInv, Resolvable, FlushGivesUp, At, Idle, Working
  <2>2. DeleterInv'
    BY <1>12 DEF DeleterInv, FlushGivesUp, At, Idle, Working
  <2>3. FlusherInv'
    BY <1>12 DEF FlusherInv, Shard, Resolvable, FlushGivesUp, At, Idle, Working
  <2>4. SegmentInv'
    BY <1>12 DEF SegmentInv, Fresh, FlushGivesUp, At, Idle, Working
  <2>5. RecoveryInv'
    BY <1>12 DEF RecoveryInv, Fresh, OnDisk, Lost, Journaled, FlushGivesUp, At, Idle, Working
  <2>6. JournalInv'
    BY <1>12 DEF JournalInv, HasRow, Recovering, FlushGivesUp, At, Idle, Working
  <2>7. DurableCatalog'
    BY <1>12 DEF DurableCatalog, Resolvable, FlushGivesUp, At, Idle, Working
  <2>8. QED
    BY <1>a, <2>1, <2>2, <2>3, <2>4, <2>5, <2>6, <2>7
<1>13. ASSUME NEW gone \in SUBSET Seqs, RetireFiles(gone) PROVE IInv'
  <2>1. gone \subseteq sealed /\ gone \subseteq shipped /\ log \in {"running", "closing"}
    BY <1>13 DEF RetireFiles, ToRetire, At, Working
  <2>2. FilesGone(gone)
    BY <1>13 DEF RetireFiles, FilesGone
  <2>3. /\ sealed' = sealed \ gone /\ flusher'.phase = "retired" /\ flusher'.gone = gone
        /\ UNCHANGED <<pgVars, forgeVars, aside, log, recVars, open, shipped, queue, pending,
                       opVars>>
    BY <1>13 DEF RetireFiles, TypeOK
  <2>4. WriterInv'
    BY <2>1, <2>2, <2>3, <1>a DEF WriterInv, Resolvable, Typed, NoFile, NoRow, NoBuild, NoSeq,
       FilesGone, SegmentInv
  <2>5. DeleterInv'
    BY <2>1, <2>2, <2>3, <1>a DEF DeleterInv, Typed, NoFile, NoRow, NoBuild, NoSeq, FilesGone,
       Fresh
  <2>6. FlusherInv'
    BY <2>1, <2>2, <2>3, <1>a DEF FlusherInv, Shard, Resolvable, Typed, NoFile, NoRow, NoBuild,
       NoSeq, FilesGone, Fresh
  <2>7. SegmentInv'
    BY <2>1, <2>2, <2>3, <1>a DEF SegmentInv, Fresh, Typed, NoFile, NoRow, NoBuild, NoSeq,
       FilesGone
  <2>8. RecoveryInv'
    BY <2>1, <2>2, <2>3, <1>a DEF RecoveryInv, Fresh, OnDisk, Lost, Journaled, Typed, NoFile,
       NoRow, NoBuild, NoSeq, FilesGone
  <2>9. JournalInv'
    BY <2>1, <2>2, <2>3, <1>a DEF JournalInv, HasRow, Recovering, Typed, NoFile, NoRow, NoBuild,
       NoSeq, FilesGone, Fresh
  <2>10. DurableCatalog'
    BY <2>1, <2>2, <2>3, <1>a DEF DurableCatalog, Resolvable, Typed, NoFile, NoRow, NoBuild,
       NoSeq, FilesGone, Fresh
  <2>11. QED
    BY <1>a, <2>4, <2>5, <2>6, <2>7, <2>8, <2>9, <2>10
<1>14. ASSUME NEW gone \in SUBSET Seqs, RetireRows(gone) PROVE IInv'
  <2>1. gone \subseteq shipped /\ log \in {"running", "closing"}
    BY <1>14 DEF RetireRows, At, Working, FlusherInv
  <2>2. \A t \in Seqs : /\ t \notin gone => rows'[t] = rows[t]
                        /\ rows'[t].state = rows[t].state /\ rows'[t].shipped = rows[t].shipped
                        /\ rows[t].state = "none" => rows'[t] = rows[t]
    BY <1>14, RetiredRows DEF RetireRows, TypeOK
  <2>3. /\ flusher'.phase = "idle"
        /\ UNCHANGED <<root, bucket, seqNext, journal, located, inclusion, forgeVars, diskVars,
                       log, recVars, open, sealed, shipped, queue, pending, opVars>>
    BY <1>14 DEF RetireRows, Idle
  <2>4. WriterInv'
    BY <2>1, <2>2, <2>3, <1>a DEF WriterInv, Resolvable, Typed, NoFile, NoRow, NoBuild, NoSeq
  <2>5. DeleterInv'
    BY <2>1, <2>2, <2>3, <1>a DEF DeleterInv, Typed, NoFile, NoRow, NoBuild, NoSeq
  <2>6. FlusherInv'
    BY <2>1, <2>2, <2>3, <1>a DEF FlusherInv, Shard, Resolvable, Typed, NoFile, NoRow, NoBuild,
       NoSeq
  <2>7. SegmentInv'
    BY <2>1, <2>2, <2>3, <1>a DEF SegmentInv, Fresh, Typed, NoFile, NoRow, NoBuild, NoSeq
  <2>8. RecoveryInv'
    BY <2>1, <2>2, <2>3, <1>a DEF RecoveryInv, Fresh, OnDisk, Lost, Journaled, Typed, NoFile,
       NoRow, NoBuild, NoSeq
  <2>9. JournalInv'
    BY ZenonT(60), <2>1, <2>2, <2>3, <1>a DEF JournalInv, HasRow, Recovering, Typed, NoFile,
       NoRow, NoBuild,
       NoSeq
  <2>10. DurableCatalog'
    BY <2>1, <2>2, <2>3, <1>a DEF DurableCatalog, Resolvable, Typed, NoFile, NoRow, NoBuild,
       NoSeq
  <2>11. QED
    BY <1>a, <2>4, <2>5, <2>6, <2>7, <2>8, <2>9, <2>10
<1>15. QED
  BY <1>1, <1>2, <1>3, <1>4, <1>5, <1>6, <1>7, <1>8, <1>9, <1>10, <1>11, <1>12, <1>13,
     <1>14 DEF Ship

\* A step of recovery keeps the invariant.
LEMMA KeepRecover == IInv /\ Recover => IInv'
<1> SUFFICES ASSUME IInv, Recover PROVE IInv'
  OBVIOUS
<1> USE DEF IInv, pgVars, forgeVars, diskVars, recVars, memVars, opVars
<1>a. TypeOK' /\ Typed /\ Typed'
  BY TypeRecover, TypedState, TypedNext
<1>1. CASE OpenLog
  <2>1. /\ log \in {"down", "closed"} /\ sealed = {} /\ shipped = {} /\ open = NoSeq
        /\ opens = {} /\ rebuild = NoBuild /\ flusher.phase = "idle" /\ queue = {} /\ pending = {}
        /\ deleter.pc = "idle" /\ writer.pc # "appended"
    BY <1>1 DEF OpenLog, BucketLockFree, RecoveryInv, FlusherInv, DeleterInv, WriterInv
  <2>2. seqNext' = seqNext
    <3>1. ~ \E s \in OnDisk : s >= seqNext
      BY DEF SegmentInv, OnDisk, NoFile
    <3>2. QED
      BY <1>1, <3>1 DEF OpenLog, EnsureSegmentSeqAbove
  <2>3. /\ log' = "scan" /\ todo' = OnDisk
        /\ UNCHANGED <<root, bucket, rows, journal, located, inclusion, forgeVars, diskVars,
                       opens, rebuild, memVars, opVars>>
    BY <1>1 DEF OpenLog
  <2>4. WriterInv'
    BY <2>1, <2>2, <2>3, <1>a DEF WriterInv, Resolvable, Typed, NoFile, NoRow, NoBuild, NoSeq
  <2>5. DeleterInv'
    BY <2>1, <2>2, <2>3, <1>a DEF DeleterInv, Typed, NoFile, NoRow, NoBuild, NoSeq
  <2>6. FlusherInv'
    BY <2>1, <2>2, <2>3, <1>a DEF FlusherInv, Shard, Resolvable, Typed, NoFile, NoRow, NoBuild,
       NoSeq
  <2>7. SegmentInv'
    BY <2>1, <2>2, <2>3, <1>a DEF SegmentInv, Fresh, Typed, NoFile, NoRow, NoBuild, NoSeq,
       OnDisk
  <2>8. RecoveryInv'
    BY <2>1, <2>2, <2>3, <1>a DEF RecoveryInv, Fresh, OnDisk, Lost, Journaled, Typed, NoFile,
       NoRow, NoBuild, NoSeq
  <2>9. JournalInv'
    BY <2>1, <2>2, <2>3, <1>a DEF JournalInv, HasRow, Recovering, Typed, NoFile, NoRow, NoBuild,
       NoSeq, OnDisk
  <2>10. DurableCatalog'
    BY <2>1, <2>2, <2>3, <1>a DEF DurableCatalog, Resolvable, Typed, NoFile, NoRow, NoBuild,
       NoSeq
  <2>11. QED
    BY <1>a, <2>4, <2>5, <2>6, <2>7, <2>8, <2>9, <2>10
<1>2. CASE ScanDone
  <2>1. WriterInv'
    BY <1>2 DEF WriterInv, Resolvable, ScanDone
  <2>2. DeleterInv'
    BY <1>2 DEF DeleterInv, ScanDone
  <2>3. FlusherInv'
    BY <1>2 DEF FlusherInv, Shard, Resolvable, ScanDone
  <2>4. SegmentInv'
    BY <1>2 DEF SegmentInv, Fresh, ScanDone
  <2>5. RecoveryInv'
    BY <1>2 DEF RecoveryInv, Fresh, OnDisk, Lost, Journaled, ScanDone
  <2>6. JournalInv'
    BY <1>2 DEF JournalInv, HasRow, Recovering, ScanDone
  <2>7. DurableCatalog'
    BY <1>2 DEF DurableCatalog, Resolvable, ScanDone
  <2>8. QED
    BY <1>a, <2>1, <2>2, <2>3, <2>4, <2>5, <2>6, <2>7
<1>3. CASE SealDone
  <2>1. WriterInv'
    BY <1>3 DEF WriterInv, Resolvable, SealDone
  <2>2. DeleterInv'
    BY <1>3 DEF DeleterInv, SealDone
  <2>3. FlusherInv'
    BY <1>3 DEF FlusherInv, Shard, Resolvable, SealDone
  <2>4. SegmentInv'
    BY <1>3 DEF SegmentInv, Fresh, SealDone
  <2>5. RecoveryInv'
    BY <1>3 DEF RecoveryInv, Fresh, OnDisk, Lost, Journaled, SealDone
  <2>6. JournalInv'
    BY <1>3 DEF JournalInv, HasRow, Recovering, SealDone
  <2>7. DurableCatalog'
    BY <1>3 DEF DurableCatalog, Resolvable, SealDone
  <2>8. QED
    BY <1>a, <2>1, <2>2, <2>3, <2>4, <2>5, <2>6, <2>7
<1>4. ASSUME NEW s \in Seqs, RecoverRetired(s) PROVE IInv'
  <2>1. /\ log = "scan" /\ s \in todo /\ file[s].car # "none"
        /\ s \notin opens \cup sealed \cup shipped
        /\ rebuild = NoBuild /\ open = NoSeq /\ writer.pc # "appended" /\ flusher.phase = "idle"
        /\ \A b \in Blocks : <<s, b>> \notin journal
    BY <1>4 DEF RecoverRetired, Reconcile, RetiredShipped, RecoveryInv, WriterInv, FlusherInv,
       JournalInv, OnDisk
  <2>2. FilesGone({s})
    BY <1>4 DEF RecoverRetired, FilesGone, TypeOK
  <2>3. /\ todo' = todo \ {s}
        /\ UNCHANGED <<pgVars, forgeVars, aside, log, opens, rebuild, memVars, opVars>>
    BY <1>4 DEF RecoverRetired, Reconcile
  <2>4. WriterInv'
    BY <2>1, <2>2, <2>3, <1>a DEF WriterInv, Resolvable, Typed, NoFile, NoRow, NoBuild, NoSeq,
       FilesGone
  <2>5. DeleterInv'
    BY <2>1, <2>2, <2>3, <1>a DEF DeleterInv, Typed, NoFile, NoRow, NoBuild, NoSeq, FilesGone
  <2>6. FlusherInv'
    BY <2>1, <2>2, <2>3, <1>a DEF FlusherInv, Shard, Resolvable, Typed, NoFile, NoRow, NoBuild,
       NoSeq, FilesGone
  <2>7. SegmentInv'
    BY <2>1, <2>2, <2>3, <1>a DEF SegmentInv, Fresh, Typed, NoFile, NoRow, NoBuild, NoSeq,
       FilesGone
  <2>8. RecoveryInv'
    BY <2>1, <2>2, <2>3, <1>a DEF RecoveryInv, Fresh, OnDisk, Lost, Journaled, Typed, NoFile,
       NoRow, NoBuild, NoSeq, FilesGone
  <2>9. JournalInv'
    BY <2>1, <2>2, <2>3, <1>a DEF JournalInv, HasRow, Recovering, Typed, NoFile, NoRow, NoBuild,
       NoSeq, FilesGone
  <2>10. DurableCatalog'
    BY <2>1, <2>2, <2>3, <1>a DEF DurableCatalog, Resolvable, Typed, NoFile, NoRow, NoBuild,
       NoSeq, FilesGone
  <2>11. QED
    BY <1>a, <2>4, <2>5, <2>6, <2>7, <2>8, <2>9, <2>10
<1>5. ASSUME NEW s \in Seqs, RecoverSealedRow(s) PROVE IInv'
  <2>1. /\ log = "scan" /\ s \in todo /\ file[s].car = "ok"
        /\ s \notin opens \cup sealed \cup shipped
        /\ rebuild = NoBuild /\ open = NoSeq /\ writer.pc # "appended" /\ flusher.phase = "idle"
        /\ s < seqNext
    <3>1. /\ log = "scan" /\ s \in todo /\ file[s].car # "none"
          /\ s \notin opens \cup sealed \cup shipped
          /\ file[s].idx \/ file[s].car = "ok"
      BY <1>5 DEF RecoverSealedRow, Reconcile, RecoveryInv, OnDisk
    <3>2. file[s].car = "ok" /\ s < seqNext
      BY <1>a, <3>1 DEF SegmentInv, Typed, NoFile
    <3>3. QED
      BY <3>1, <3>2 DEF RecoveryInv, WriterInv, FlusherInv
  <2>2. FilesIndexed({s})
    BY <1>5, IndexedFiles DEF RecoverSealedRow, TypeOK
  <2>3. /\ todo' = todo \ {s} /\ sealed' = sealed \cup {s}
        /\ shipped \subseteq shipped' /\ shipped' \subseteq shipped \cup {s}
        /\ s \in shipped' => rows[s].shipped
        /\ UNCHANGED <<pgVars, forgeVars, aside, log, opens, rebuild, open, queue, pending,
                       flusher, opVars>>
    BY <1>5, <2>1 DEF RecoverSealedRow, Reconcile, LoadSealed
  <2>4. WriterInv'
    BY <2>1, <2>2, <2>3, <1>a DEF WriterInv, Resolvable, Typed, NoFile, NoRow, NoBuild, NoSeq,
       FilesIndexed
  <2>5. DeleterInv'
    BY <2>1, <2>2, <2>3, <1>a DEF DeleterInv, Typed, NoFile, NoRow, NoBuild, NoSeq, FilesIndexed
  <2>6. FlusherInv'
    BY <2>1, <2>2, <2>3, <1>a DEF FlusherInv, Shard, Resolvable, Typed, NoFile, NoRow, NoBuild,
       NoSeq, FilesIndexed
  <2>7. SegmentInv'
    BY <2>1, <2>2, <2>3, <1>a DEF SegmentInv, Fresh, Typed, NoFile, NoRow, NoBuild, NoSeq,
       FilesIndexed
  <2>8. RecoveryInv'
    BY <2>1, <2>2, <2>3, <1>a DEF RecoveryInv, Fresh, OnDisk, Lost, Journaled, Typed, NoFile,
       NoRow, NoBuild, NoSeq, FilesIndexed
  <2>9. JournalInv'
    <3>1. \A b \in Blocks : <<s, b>> \in journal => s \notin shipped'
      BY <2>3 DEF JournalInv
    <3>2. \A t \in Seqs : t # s => (t \in shipped' <=> t \in shipped)
      BY <2>3
    <3>3. QED
      BY <2>1, <2>2, <2>3, <3>1, <3>2 DEF JournalInv, HasRow, Recovering, FilesIndexed
  <2>10. DurableCatalog'
    BY <2>1, <2>2, <2>3, <1>a DEF DurableCatalog, Resolvable, Typed, NoFile, NoRow, NoBuild,
       NoSeq, FilesIndexed
  <2>11. QED
    BY <1>a, <2>4, <2>5, <2>6, <2>7, <2>8, <2>9, <2>10
<1>6. ASSUME NEW s \in Seqs, RecoverSetAside(s) PROVE IInv'
  <2>1. /\ log = "scan" /\ s \in todo /\ file[s].car # "none"
        /\ s \notin opens \cup sealed \cup shipped
        /\ rebuild = NoBuild /\ open = NoSeq /\ writer.pc # "appended" /\ flusher.phase = "idle"
    BY <1>6 DEF RecoverSetAside, Reconcile, RecoveryInv, WriterInv, FlusherInv, OnDisk
  <2>2. FilesGone({s})
    BY <1>6 DEF RecoverSetAside, FilesGone, TypeOK
  <2>3. /\ todo' = todo \ {s}
        /\ UNCHANGED <<pgVars, forgeVars, aside, log, opens, rebuild, memVars, opVars>>
    BY <1>6 DEF RecoverSetAside, Reconcile
  <2>4. WriterInv'
    BY <2>1, <2>2, <2>3, <1>a DEF WriterInv, Resolvable, Typed, NoFile, NoRow, NoBuild, NoSeq,
       FilesGone
  <2>5. DeleterInv'
    BY <2>1, <2>2, <2>3, <1>a DEF DeleterInv, Typed, NoFile, NoRow, NoBuild, NoSeq, FilesGone
  <2>6. FlusherInv'
    BY <2>1, <2>2, <2>3, <1>a DEF FlusherInv, Shard, Resolvable, Typed, NoFile, NoRow, NoBuild,
       NoSeq, FilesGone
  <2>7. SegmentInv'
    BY <2>1, <2>2, <2>3, <1>a DEF SegmentInv, Fresh, Typed, NoFile, NoRow, NoBuild, NoSeq,
       FilesGone
  <2>8. RecoveryInv'
    BY <2>1, <2>2, <2>3, <1>a DEF RecoveryInv, Fresh, OnDisk, Lost, Journaled, Typed, NoFile,
       NoRow, NoBuild, NoSeq, FilesGone
  <2>9. JournalInv'
    BY <2>1, <2>2, <2>3, <1>a DEF JournalInv, HasRow, Recovering, Typed, NoFile, NoRow, NoBuild,
       NoSeq, FilesGone
  <2>10. DurableCatalog'
    BY <2>1, <2>2, <2>3, <1>a DEF DurableCatalog, Resolvable, Typed, NoFile, NoRow, NoBuild,
       NoSeq, FilesGone
  <2>11. QED
    BY <1>a, <2>4, <2>5, <2>6, <2>7, <2>8, <2>9, <2>10
<1>7. ASSUME NEW s \in Seqs, RecoverFromIdx(s) PROVE IInv'
  <2>1. /\ log = "scan" /\ s \in todo /\ file[s].car = "ok"
        /\ s \notin opens \cup sealed \cup shipped
        /\ rebuild = NoBuild /\ open = NoSeq /\ writer.pc # "appended" /\ flusher.phase = "idle"
        /\ s < seqNext /\ ~(HasRow(s) /\ rows[s].state = "sealed")
    <3>1. /\ log = "scan" /\ s \in todo /\ file[s].car # "none"
          /\ s \notin opens \cup sealed \cup shipped
          /\ file[s].idx /\ ~(HasRow(s) /\ rows[s].state = "sealed")
      BY <1>7 DEF RecoverFromIdx, Reconcile, RecoveryInv, OnDisk
    <3>2. file[s].car = "ok" /\ s < seqNext
      BY <1>a, <3>1 DEF SegmentInv, Typed, NoFile
    <3>3. QED
      BY <3>1, <3>2 DEF RecoveryInv, WriterInv, FlusherInv
  <2>2. /\ \A t \in Seqs : t # s => rows'[t] = rows[t]
        /\ rows'[s].shipped => rows[s].shipped
        /\ rows'[s].state # "none"
    <3>1. CASE HasRow(s)
      <4>1. rows' = MarkSegmentSealed(rows, s, file[s].blocks)
        BY <1>7, <3>1 DEF RecoverFromIdx
      <4>2. RowsSealed /\ \A t \in Seqs : t # s => rows'[t] = rows[t]
        BY <4>1, SealedRows DEF MarkSegmentSealed, TypeOK
      <4>3. QED
        BY <3>1, <4>2 DEF RowsSealed, HasRow
    <3>2. CASE ~HasRow(s)
      <4>1. rows' = [rows EXCEPT ![s] = [NoRow EXCEPT !.state = "sealed", !.sha = file[s].blocks]]
        BY <1>7, <3>2 DEF RecoverFromIdx, RehydrateSegment
      <4>2. /\ rows'[s] = [NoRow EXCEPT !.state = "sealed", !.sha = file[s].blocks]
            /\ \A t \in Seqs : t # s => rows'[t] = rows[t]
        BY <4>1 DEF TypeOK
      <4>3. QED
        BY <4>2 DEF NoRow
    <3>3. QED
      BY <3>1, <3>2
  <2>3. /\ todo' = todo \ {s} /\ sealed' = sealed \cup {s} /\ shipped' = shipped
        /\ UNCHANGED <<root, bucket, seqNext, journal, located, inclusion, forgeVars, diskVars, log,
                       opens, rebuild, open, queue, pending, flusher, opVars>>
    BY <1>7 DEF RecoverFromIdx, Reconcile, LoadSealed
  <2>4. WriterInv'
    BY <2>1, <2>2, <2>3, <1>a DEF WriterInv, Resolvable, Typed, NoFile, NoRow, NoBuild, NoSeq
  <2>5. DeleterInv'
    BY <2>1, <2>2, <2>3, <1>a DEF DeleterInv, Typed, NoFile, NoRow, NoBuild, NoSeq
  <2>6. FlusherInv'
    BY <2>1, <2>2, <2>3, <1>a DEF FlusherInv, Shard, Resolvable, Typed, NoFile, NoRow, NoBuild,
       NoSeq
  <2>7. SegmentInv'
    BY <2>1, <2>2, <2>3, <1>a DEF SegmentInv, Fresh, Typed, NoFile, NoRow, NoBuild, NoSeq
  <2>8. RecoveryInv'
    BY <2>1, <2>2, <2>3, <1>a DEF RecoveryInv, Fresh, OnDisk, Lost, Journaled, Typed, NoFile,
       NoRow, NoBuild, NoSeq
  <2>9. JournalInv'
    BY <2>1, <2>2, <2>3, <1>a DEF JournalInv, HasRow, Recovering, Typed, NoFile, NoRow, NoBuild,
       NoSeq
  <2>10. DurableCatalog'
    BY <2>1, <2>2, <2>3, <1>a DEF DurableCatalog, Resolvable, Typed, NoFile, NoRow, NoBuild,
       NoSeq
  <2>11. QED
    BY <1>a, <2>4, <2>5, <2>6, <2>7, <2>8, <2>9, <2>10
<1>8. ASSUME NEW s \in Seqs, NEW kept \in SUBSET file[s].blocks, RecoverOpen(s, kept) PROVE IInv'
  <2>1. /\ log = "scan" /\ s \in todo /\ file[s].car # "none"
        /\ s \notin opens \cup sealed \cup shipped
        /\ rebuild = NoBuild /\ open = NoSeq /\ writer.pc # "appended" /\ flusher.phase = "idle"
        /\ s < seqNext /\ ~(HasRow(s) /\ rows[s].state = "sealed")
        /\ file[s].car = "ok" => kept = file[s].blocks
    <3>1. /\ log = "scan" /\ s \in todo /\ file[s].car # "none"
          /\ s \notin opens \cup sealed \cup shipped
          /\ ~(HasRow(s) /\ rows[s].state = "sealed")
          /\ file[s].car = "ok" => kept = file[s].blocks
      BY <1>8 DEF RecoverOpen, Reconcile, RecoveryInv, OnDisk
    <3>2. s < seqNext
      BY <1>a, <3>1 DEF SegmentInv, Typed, NoFile
    <3>3. QED
      BY <3>1, <3>2 DEF RecoveryInv, WriterInv, FlusherInv
  <2>2. /\ \A t \in Seqs : t # s => rows'[t] = rows[t]
        /\ rows'[s].shipped => rows[s].shipped
    <3>1. CASE rows[s].state = "none"
      <4>1. /\ rows'[s] = [NoRow EXCEPT !.state = "open"]
            /\ \A t \in Seqs : t # s => rows'[t] = rows[t]
        BY <1>8, <3>1 DEF RecoverOpen, InsertSegmentOpen, TypeOK
      <4>2. QED
        BY <4>1 DEF NoRow
    <3>2. CASE rows[s].state # "none"
      BY <1>8, <3>2 DEF RecoverOpen, InsertSegmentOpen
    <3>3. QED
      BY <3>1, <3>2
  <2>3. /\ \A t \in Seqs : t # s => file'[t] = file[t]
        /\ file'[s].car = "ok" /\ file'[s].blocks = kept
    BY <1>8 DEF RecoverOpen, TypeOK, File
  <2>4. /\ todo' = todo \ {s} /\ opens' = opens \cup {s}
        /\ UNCHANGED <<root, bucket, seqNext, journal, located, inclusion, forgeVars, aside, log,
                       rebuild, memVars, opVars>>
    BY <1>8 DEF RecoverOpen, Reconcile
  <2>5. WriterInv'
    BY <2>1, <2>2, <2>3, <2>4, <1>a DEF WriterInv, Resolvable, Typed, NoFile, NoRow, NoBuild,
       NoSeq
  <2>6. DeleterInv'
    BY <2>1, <2>2, <2>3, <2>4, <1>a DEF DeleterInv, Typed, NoFile, NoRow, NoBuild, NoSeq
  <2>7. FlusherInv'
    BY <2>1, <2>2, <2>3, <2>4, <1>a DEF FlusherInv, Shard, Resolvable, Typed, NoFile, NoRow,
       NoBuild, NoSeq
  <2>8. SegmentInv'
    BY <2>1, <2>2, <2>3, <2>4, <1>a DEF SegmentInv, Fresh, Typed, NoFile, NoRow, NoBuild, NoSeq
  <2>9. RecoveryInv'
    BY <2>1, <2>2, <2>3, <2>4, <1>a DEF RecoveryInv, Fresh, OnDisk, Lost, Journaled, Typed,
       NoFile, NoRow, NoBuild, NoSeq
  <2>10. JournalInv'
    BY <2>1, <2>2, <2>3, <2>4, <1>a DEF JournalInv, HasRow, Recovering, Typed, NoFile, NoRow,
       NoBuild, NoSeq
  <2>11. DurableCatalog'
    BY <2>1, <2>2, <2>3, <2>4, <1>a DEF DurableCatalog, Resolvable, Typed, NoFile, NoRow,
       NoBuild, NoSeq
  <2>12. QED
    BY <1>a, <2>5, <2>6, <2>7, <2>8, <2>9, <2>10, <2>11
<1>9. ASSUME NEW s \in Seqs, RecoverRefuses(s) PROVE IInv'
  <2>1. WriterInv'
    BY <1>9 DEF WriterInv, Resolvable, RecoverRefuses
  <2>2. DeleterInv'
    BY <1>9 DEF DeleterInv, RecoverRefuses
  <2>3. FlusherInv'
    BY <1>9 DEF FlusherInv, Shard, Resolvable, RecoverRefuses, RecoveryInv
  <2>4. SegmentInv'
    BY <1>9 DEF SegmentInv, Fresh, RecoverRefuses
  <2>5. RecoveryInv'
    BY <1>9 DEF RecoveryInv, Fresh, OnDisk, Lost, Journaled, RecoverRefuses
  <2>6. JournalInv'
    BY <1>9 DEF JournalInv, HasRow, Recovering, RecoverRefuses
  <2>7. DurableCatalog'
    BY <1>9 DEF DurableCatalog, Resolvable, RecoverRefuses
  <2>8. QED
    BY <1>a, <2>1, <2>2, <2>3, <2>4, <2>5, <2>6, <2>7
<1>10. ASSUME NEW s \in Seqs, ForceSeal(s) PROVE IInv'
  <2>1. /\ log = "seal" /\ s \in opens /\ file[s].car = "ok" /\ s \notin sealed \cup shipped
        /\ todo = {} /\ rebuild = NoBuild /\ open = NoSeq /\ writer.pc # "appended"
        /\ flusher.phase = "idle" /\ s < seqNext
    <3>1. /\ log = "seal" /\ s \in opens /\ file[s].car = "ok"
      BY <1>10 DEF ForceSeal, RecoveryInv
    <3>2. s < seqNext
      BY <1>a, <3>1 DEF SegmentInv, Typed, NoFile
    <3>3. QED
      BY <3>1, <3>2 DEF RecoveryInv, WriterInv, FlusherInv
  <2>2. RowsSealed
    BY <1>10, SealedRows DEF ForceSeal, TypeOK
  <2>3. FilesIndexed({s})
    BY <1>10, IndexedFiles DEF ForceSeal, TypeOK
  <2>4. /\ opens' = opens \ {s} /\ sealed' = sealed \cup {s} /\ shipped' = shipped
        /\ UNCHANGED <<root, bucket, seqNext, journal, located, inclusion, forgeVars, aside, log,
                       todo, rebuild, open, queue, pending, flusher, opVars>>
    BY <1>10 DEF ForceSeal, LoadSealed
  <2>5. WriterInv'
    BY <2>1, <2>2, <2>3, <2>4, <1>a DEF WriterInv, Resolvable, Typed, NoFile, NoRow, NoBuild,
       NoSeq, FilesIndexed, RowsSealed, Fresh
  <2>6. DeleterInv'
    BY <2>1, <2>2, <2>3, <2>4, <1>a DEF DeleterInv, Typed, NoFile, NoRow, NoBuild, NoSeq,
       FilesIndexed, RowsSealed, Fresh
  <2>7. FlusherInv'
    BY <2>1, <2>2, <2>3, <2>4, <1>a DEF FlusherInv, Shard, Resolvable, Typed, NoFile, NoRow,
       NoBuild, NoSeq, FilesIndexed, RowsSealed, Fresh
  <2>8. SegmentInv'
    BY <2>1, <2>2, <2>3, <2>4, <1>a DEF SegmentInv, Fresh, Typed, NoFile, NoRow, NoBuild, NoSeq,
       FilesIndexed, RowsSealed
  <2>9. RecoveryInv'
    BY <2>1, <2>2, <2>3, <2>4, <1>a DEF RecoveryInv, Fresh, OnDisk, Lost, Journaled, Typed,
       NoFile, NoRow, NoBuild, NoSeq, FilesIndexed, RowsSealed
  <2>10. JournalInv'
    BY <2>1, <2>2, <2>3, <2>4, <1>a DEF JournalInv, HasRow, Recovering, Typed, NoFile, NoRow,
       NoBuild, NoSeq, FilesIndexed, RowsSealed, Fresh
  <2>11. DurableCatalog'
    BY <2>1, <2>2, <2>3, <2>4, <1>a DEF DurableCatalog, Resolvable, Typed, NoFile, NoRow,
       NoBuild, NoSeq, FilesIndexed, RowsSealed, Fresh
  <2>12. QED
    BY <1>a, <2>5, <2>6, <2>7, <2>8, <2>9, <2>10, <2>11
<1>11. ASSUME NEW s \in Seqs, PruneRow(s) PROVE IInv'
  <2>1. /\ log = "prune" /\ rows[s].state # "none" /\ file[s].car = "none" /\ rebuild = NoBuild
        /\ open = NoSeq /\ writer.pc # "appended" /\ flusher.phase = "idle"
        /\ \A b \in Blocks : <<s, b>> \notin journal
    BY <1>11 DEF PruneRow, Fileless, HasRow, RecoveryInv, WriterInv, FlusherInv, Lost, Journaled
  <2>2. /\ \A t \in Seqs : t # s => rows'[t] = rows[t]
        /\ rows'[s].state # "none" => rows'[s].shipped = rows[s].shipped
    <3>1. CASE rows' = RetireSegments(rows, {s})
      BY <3>1, RetiredRows DEF TypeOK
    <3>2. CASE rows' = DeleteSegment(rows, s)
      BY <3>2 DEF DeleteSegment, NoRow, TypeOK
    <3>3. QED
      BY <1>11, <3>1, <3>2 DEF PruneRow
  <2>3. UNCHANGED <<root, bucket, seqNext, journal, located, inclusion, forgeVars, diskVars, log,
                    recVars, memVars, opVars>>
    BY <1>11 DEF PruneRow
  <2>4. WriterInv'
    BY <2>1, <2>2, <2>3, <1>a DEF WriterInv, Resolvable, Typed, NoFile, NoRow, NoBuild, NoSeq
  <2>5. DeleterInv'
    BY <2>1, <2>2, <2>3, <1>a DEF DeleterInv, Typed, NoFile, NoRow, NoBuild, NoSeq
  <2>6. FlusherInv'
    BY <2>1, <2>2, <2>3, <1>a DEF FlusherInv, Shard, Resolvable, Typed, NoFile, NoRow, NoBuild,
       NoSeq
  <2>7. SegmentInv'
    BY <2>1, <2>2, <2>3, <1>a DEF SegmentInv, Fresh, Typed, NoFile, NoRow, NoBuild, NoSeq
  <2>8. RecoveryInv'
    BY <2>1, <2>2, <2>3, <1>a DEF RecoveryInv, Fresh, OnDisk, Lost, Journaled, Typed, NoFile,
       NoRow, NoBuild, NoSeq
  <2>9. JournalInv'
    BY <2>1, <2>2, <2>3, <1>a DEF JournalInv, HasRow, Recovering, Typed, NoFile, NoRow, NoBuild,
       NoSeq
  <2>10. DurableCatalog'
    BY <2>1, <2>2, <2>3, <1>a DEF DurableCatalog, Resolvable, Typed, NoFile, NoRow, NoBuild,
       NoSeq
  <2>11. QED
    BY <1>a, <2>4, <2>5, <2>6, <2>7, <2>8, <2>9, <2>10
<1>12. ASSUME NEW s \in Seqs, NEW bs \in SUBSET Journaled(s), RebuildAppend(s, bs) PROVE IInv'
  <2>1. /\ log = "rebuild" /\ s \in Seqs /\ file[s].car = "none" /\ s < seqNext
        /\ bs \subseteq Blocks
        /\ \E b \in Blocks : <<s, b>> \in journal
        /\ bucket = "live" /\ open = NoSeq /\ writer.pc # "appended" /\ flusher.phase = "idle"
        /\ rebuild.cur # NoSeq => Fresh(rebuild.cur)
    <3>1. PICK b \in Blocks : <<s, b>> \in journal
      BY <1>12 DEF RebuildAppend, Lost, Journaled
    <3>2. /\ log = "rebuild" /\ file[s].car = "none" /\ bs \subseteq Blocks
      BY <1>12 DEF RebuildAppend, Lost, Journaled
    <3>3. s < seqNext
      BY <3>1 DEF JournalInv
    <3>4. bucket = "live"
      BY <3>1 DEF DeleterInv, TypeOK
    <3>5. QED
      BY <3>1, <3>2, <3>3, <3>4 DEF RecoveryInv, WriterInv, FlusherInv
  <2>2. Growable(RebuildSeq) /\ s # RebuildSeq
    <3>1. CASE rebuild.cur # NoSeq
      <4>1. RebuildSeq = rebuild.cur /\ rebuild.cur \in Seqs /\ Fresh(rebuild.cur)
        BY <1>a, <2>1, <3>1 DEF RebuildSeq, Typed
      <4>2. QED
        BY <2>1, <4>1, FreshGrows DEF Fresh
    <3>2. CASE rebuild.cur = NoSeq
      <4>1. RebuildSeq = seqNext /\ seqNext \in Seqs
        BY <1>12, <3>2 DEF RebuildSeq, RebuildAppend
      <4>2. QED
        BY <1>a, <2>1, <4>1, NextGrows DEF Typed
    <3>3. QED
      BY <3>1, <3>2
  <2>3. Grows(RebuildSeq, bs) /\ rows'[RebuildSeq].state # "none"
    BY <1>12, <2>2, GrownSegment, InsertedRow DEF RebuildAppend, Growable, TypeOK
  <2>4. /\ seqNext' >= seqNext /\ RebuildSeq < seqNext' /\ rebuild.cur \in {NoSeq, RebuildSeq}
        /\ rebuild'.cur = RebuildSeq /\ rebuild'.from = s /\ rebuild'.chunk = bs
    BY <1>12, <1>a, <2>1, <2>2 DEF RebuildAppend, RebuildSeq, Fresh, Typed
  <2>5. UNCHANGED <<root, bucket, journal, located, inclusion, forgeVars, aside, log, todo, opens,
                    memVars, opVars>>
    BY <1>12 DEF RebuildAppend
  <2>6. /\ RebuildSeq \notin sealed \cup shipped /\ aside[RebuildSeq].car = "none"
        /\ ~rows'[RebuildSeq].shipped /\ aside[RebuildSeq] = NoFile
        /\ RebuildSeq < seqNext => file[RebuildSeq].car = "ok"
    BY <1>a, <2>2, <2>3 DEF Growable, Fresh, Grows, NoRow, NoFile, Typed
  <2>7. \A t \in Seqs : t >= seqNext' => t # RebuildSeq /\ t >= seqNext
    BY <1>a, <2>2, <2>4 DEF Growable, Typed
  <2>8. WriterInv'
    BY <2>1, <2>2, <2>3, <2>4, <2>5, <2>6, <2>7, <1>a DEF WriterInv, Resolvable, Typed, NoFile,
       NoRow, NoBuild, NoSeq, Grows
  <2>9. DeleterInv'
    BY <2>1, <2>2, <2>3, <2>4, <2>5, <2>6, <2>7, <1>a DEF DeleterInv, Typed, NoFile, NoRow,
       NoBuild, NoSeq, Grows
  <2>10. FlusherInv'
    BY <2>1, <2>2, <2>3, <2>4, <2>5, <2>6, <2>7, <1>a DEF FlusherInv, Shard, Resolvable, Typed,
       NoFile, NoRow, NoBuild, NoSeq, Grows
  <2>11. SegmentInv'
    BY <2>1, <2>2, <2>3, <2>4, <2>5, <2>6, <2>7, <1>a DEF SegmentInv, Fresh, Typed, NoFile,
       NoRow, NoBuild, NoSeq, Grows
  <2>12. RecoveryInv'
    BY <2>1, <2>2, <2>3, <2>4, <2>5, <2>6, <2>7, <1>a DEF RecoveryInv, Fresh, OnDisk, Lost,
       Journaled, Typed, NoFile, NoRow, NoBuild, NoSeq, Grows, Growable
  <2>13. JournalInv'
    BY <2>1, <2>2, <2>3, <2>4, <2>5, <2>6, <2>7, <1>a DEF JournalInv, HasRow, Recovering, Typed,
       NoFile, NoRow, NoBuild, NoSeq, Grows, Growable
  <2>14. DurableCatalog'
    BY <2>1, <2>2, <2>3, <2>4, <2>5, <2>6, <2>7, <1>a DEF DurableCatalog, Resolvable, Typed,
       NoFile, NoRow, NoBuild, NoSeq, Grows
  <2>15. QED
    BY <1>a, <2>8, <2>9, <2>10, <2>11, <2>12, <2>13, <2>14
<1>13. CASE RebuildMove
  <2>1. /\ log = "rebuild" /\ rebuild.cur \in Seqs /\ rebuild.from \in Seqs /\ Fresh(rebuild.cur)
        /\ rebuild.chunk \subseteq file[rebuild.cur].blocks /\ bucket = "live"
        /\ deleter.pc = "idle"
        /\ open = NoSeq /\ writer.pc # "appended" /\ flusher.phase = "idle"
    BY <1>13, <1>a DEF RebuildMove, RecoveryInv, WriterInv, FlusherInv, DeleterInv, TypeOK, Typed
  <2>2. \A t \in Seqs, b \in Blocks :
           <<t, b>> \in journal' <=>
              \/ <<t, b>> \in journal /\ ~(t = rebuild.from /\ b \in rebuild.chunk)
              \/ t = rebuild.cur /\ b \in rebuild.chunk
    BY <1>13, <2>1 DEF RebuildMove, Fresh
  <2>3. /\ rebuild'.cur = rebuild.cur /\ rebuild'.from = NoSeq
        /\ UNCHANGED <<root, bucket, rows, seqNext, located, inclusion, forgeVars, diskVars, log,
                       todo, opens, memVars, opVars>>
    BY <1>13 DEF RebuildMove, TypeOK
  <2>4. WriterInv'
    BY <2>1, <2>2, <2>3, <1>a DEF WriterInv, Resolvable, Typed, NoFile, NoRow, NoBuild, NoSeq
  <2>5. DeleterInv'
    BY <2>1, <2>2, <2>3, <1>a DEF DeleterInv, Typed, NoFile, NoRow, NoBuild, NoSeq
  <2>6. FlusherInv'
    BY <2>1, <2>2, <2>3, <1>a DEF FlusherInv, Shard, Resolvable, Typed, NoFile, NoRow, NoBuild,
       NoSeq
  <2>7. SegmentInv'
    BY <2>1, <2>2, <2>3, <1>a DEF SegmentInv, Fresh, Typed, NoFile, NoRow, NoBuild, NoSeq
  <2>8. RecoveryInv'
    BY <2>1, <2>2, <2>3, <1>a DEF RecoveryInv, Fresh, OnDisk, Lost, Journaled, Typed, NoFile,
       NoRow, NoBuild, NoSeq
  <2>9. JournalInv'
    BY <2>1, <2>2, <2>3, <1>a DEF JournalInv, HasRow, Recovering, Typed, NoFile, NoRow, NoBuild,
       NoSeq, Fresh
  <2>10. DurableCatalog'
    BY <2>1, <2>2, <2>3, <1>a DEF DurableCatalog, Resolvable, Typed, NoFile, NoRow, NoBuild,
       NoSeq
  <2>11. QED
    BY <1>a, <2>4, <2>5, <2>6, <2>7, <2>8, <2>9, <2>10
<1>14. CASE RebuildSeal
  <2>1. /\ log = "rebuild" /\ rebuild.cur \in Seqs /\ rebuild.from = NoSeq /\ Fresh(rebuild.cur)
        /\ todo = {} /\ opens = {} /\ open = NoSeq /\ writer.pc # "appended"
        /\ flusher.phase = "idle"
    BY <1>14, <1>a DEF RebuildSeal, RecoveryInv, WriterInv, FlusherInv, Typed
  <2>2. RowsSealed
    BY <1>14, <2>1, SealedRows DEF RebuildSeal, TypeOK
  <2>3. FilesIndexed({rebuild.cur})
    BY <1>14, <2>1, IndexedFiles DEF RebuildSeal, TypeOK
  <2>4. /\ sealed' = sealed \cup {rebuild.cur} /\ shipped' = shipped /\ rebuild' = NoBuild
        /\ UNCHANGED <<root, bucket, seqNext, journal, located, inclusion, forgeVars, aside, log,
                       todo, opens, open, queue, pending, flusher, opVars>>
    BY <1>14 DEF RebuildSeal, LoadSealed
  <2>5. WriterInv'
    BY <2>1, <2>2, <2>3, <2>4, <1>a DEF WriterInv, Resolvable, Typed, NoFile, NoRow, NoBuild,
       NoSeq, FilesIndexed, RowsSealed, Fresh
  <2>6. DeleterInv'
    BY <2>1, <2>2, <2>3, <2>4, <1>a DEF DeleterInv, Typed, NoFile, NoRow, NoBuild, NoSeq,
       FilesIndexed, RowsSealed, Fresh
  <2>7. FlusherInv'
    BY <2>1, <2>2, <2>3, <2>4, <1>a DEF FlusherInv, Shard, Resolvable, Typed, NoFile, NoRow,
       NoBuild, NoSeq, FilesIndexed, RowsSealed, Fresh
  <2>8. SegmentInv'
    <3>1. file[rebuild.cur].car = "ok" /\ rebuild.cur < seqNext
      BY <2>1 DEF Fresh
    <3>2. \A t \in Seqs : t >= seqNext => t # rebuild.cur
      BY <1>a, <2>1, <3>1 DEF Typed
    <3>3. \A t \in Seqs : file'[t].car = "damaged" => ~file'[t].idx
      BY <2>3, <3>1 DEF SegmentInv, FilesIndexed
    <3>4. \A t \in Seqs : t >= seqNext =>
             /\ rows'[t] = NoRow /\ file'[t] = NoFile /\ aside[t] = NoFile
             /\ t \notin sealed' \cup shipped
      BY <2>2, <2>3, <2>4, <3>2 DEF SegmentInv, RowsSealed, FilesIndexed
    <3>5. QED
      BY ZenonT(60), <1>a, <2>1, <2>2, <2>3, <2>4, <3>1, <3>3, <3>4 DEF SegmentInv, RowsSealed,
         FilesIndexed, Typed
  <2>9. RecoveryInv'
    BY <2>1, <2>2, <2>3, <2>4, <1>a DEF RecoveryInv, Fresh, OnDisk, Lost, Journaled, Typed,
       NoFile, NoRow, NoBuild, NoSeq, FilesIndexed, RowsSealed
  <2>10. JournalInv'
    BY <2>1, <2>2, <2>3, <2>4, <1>a DEF JournalInv, HasRow, Recovering, Typed, NoFile, NoRow,
       NoBuild, NoSeq, FilesIndexed, RowsSealed, Fresh
  <2>11. DurableCatalog'
    BY <2>1, <2>2, <2>3, <2>4, <1>a DEF DurableCatalog, Resolvable, Typed, NoFile, NoRow,
       NoBuild, NoSeq, FilesIndexed, RowsSealed, Fresh
  <2>12. QED
    BY <1>a, <2>5, <2>6, <2>7, <2>8, <2>9, <2>10, <2>11
<1>15. CASE RebuildDone
  <2>1. WriterInv'
    BY <1>15 DEF WriterInv, Resolvable, RebuildDone
  <2>2. DeleterInv'
    BY <1>15 DEF DeleterInv, RebuildDone
  <2>3. FlusherInv'
    BY <1>15 DEF FlusherInv, Shard, Resolvable, RebuildDone
  <2>4. SegmentInv'
    BY <1>15 DEF SegmentInv, Fresh, RebuildDone
  <2>5. RecoveryInv'
    BY <1>15 DEF RecoveryInv, Fresh, OnDisk, Lost, Journaled, RebuildDone
  <2>6. JournalInv'
    BY <1>15 DEF JournalInv, HasRow, Recovering, RebuildDone
  <2>7. DurableCatalog'
    BY <1>15 DEF DurableCatalog, Resolvable, RebuildDone
  <2>8. QED
    BY <1>a, <2>1, <2>2, <2>3, <2>4, <2>5, <2>6, <2>7
<1>16. CASE RecoverDone
  <2>1. /\ log = "prune" /\ todo = {} /\ opens = {} /\ rebuild.cur = NoSeq /\ open = NoSeq
        /\ \A t \in Seqs, b \in Blocks : <<t, b>> \in journal => file[t].car # "none"
    BY <1>16 DEF RecoverDone, RecoveryInv, NoBuild, Lost, Journaled
  <2>2. /\ log' = "running" /\ queue' \subseteq sealed
        /\ UNCHANGED <<pgVars, forgeVars, diskVars, recVars, open, sealed, shipped, pending,
                       flusher, opVars>>
    BY <1>16 DEF RecoverDone, Newest
  <2>3. WriterInv'
    BY <2>1, <2>2, <1>a DEF WriterInv, Resolvable, Typed, NoFile, NoRow, NoBuild, NoSeq
  <2>4. DeleterInv'
    BY <2>1, <2>2, <1>a DEF DeleterInv, Typed, NoFile, NoRow, NoBuild, NoSeq
  <2>5. FlusherInv'
    BY <2>1, <2>2, <1>a DEF FlusherInv, Shard, Resolvable, Typed, NoFile, NoRow, NoBuild, NoSeq
  <2>6. SegmentInv'
    BY <2>1, <2>2, <1>a DEF SegmentInv, Fresh, Typed, NoFile, NoRow, NoBuild, NoSeq
  <2>7. RecoveryInv'
    BY <2>1, <2>2, <1>a DEF RecoveryInv, Fresh, OnDisk, Lost, Journaled, Typed, NoFile, NoRow,
       NoBuild, NoSeq
  <2>8. JournalInv'
    BY <2>1, <2>2, <1>a DEF JournalInv, HasRow, Recovering, Typed, NoFile, NoRow, NoBuild, NoSeq
  <2>9. DurableCatalog'
    BY <2>1, <2>2, <1>a DEF DurableCatalog, Resolvable, Typed, NoFile, NoRow, NoBuild, NoSeq
  <2>10. QED
    BY <1>a, <2>3, <2>4, <2>5, <2>6, <2>7, <2>8, <2>9
<1>17. QED
  BY <1>1, <1>2, <1>3, <1>4, <1>5, <1>6, <1>7, <1>8, <1>9, <1>10, <1>11, <1>12, <1>13, <1>14,
     <1>15, <1>16 DEF Recover

\* A step of DeleteBucket keeps the invariant.
LEMMA KeepDelete == IInv /\ Delete => IInv'
<1> SUFFICES ASSUME IInv, Delete PROVE IInv'
  OBVIOUS
<1> USE DEF IInv, pgVars, forgeVars, diskVars, recVars, memVars, opVars
<1>a. TypeOK' /\ Typed /\ Typed'
  BY TypeDelete, TypedState, TypedNext
<1>1. CASE EmptyRoot
  <2>1. /\ log \in {"running", "closed"} /\ writer.pc # "appended" /\ rebuild = NoBuild
    BY <1>1 DEF EmptyRoot, BucketLockFree, RecoveryInv
  <2>2. WriterInv'
    BY <1>1, <2>1 DEF WriterInv, Resolvable, EmptyRoot, BucketLockFree
  <2>3. DeleterInv'
    BY <1>1, <2>1 DEF DeleterInv, EmptyRoot, BucketLockFree
  <2>4. FlusherInv'
    BY <1>1, <2>1 DEF FlusherInv, Shard, Resolvable, EmptyRoot, BucketLockFree
  <2>5. SegmentInv'
    BY <1>1, <2>1 DEF SegmentInv, Fresh, EmptyRoot, BucketLockFree
  <2>6. RecoveryInv'
    BY <1>1, <2>1 DEF RecoveryInv, Fresh, OnDisk, Lost, Journaled, EmptyRoot, BucketLockFree
  <2>7. JournalInv'
    BY <1>1, <2>1 DEF JournalInv, HasRow, Recovering, EmptyRoot, BucketLockFree
  <2>8. DurableCatalog'
    BY <1>1, <2>1, TreeAssumption DEF DurableCatalog, Resolvable, EmptyRoot, BucketLockFree
  <2>9. QED
    BY <1>a, <2>2, <2>3, <2>4, <2>5, <2>6, <2>7, <2>8
<1>2. CASE QuiesceDone
  <2>1. WriterInv'
    BY <1>2 DEF WriterInv, Resolvable, QuiesceDone, ForgetMemory, Idle
  <2>2. DeleterInv'
    BY <1>2 DEF DeleterInv, QuiesceDone, ForgetMemory, Idle
  <2>3. FlusherInv'
    BY <1>2 DEF FlusherInv, Shard, Resolvable, QuiesceDone, ForgetMemory, Idle
  <2>4. SegmentInv'
    BY <1>2 DEF SegmentInv, Fresh, QuiesceDone, ForgetMemory, Idle
  <2>5. RecoveryInv'
    BY <1>2 DEF RecoveryInv, Fresh, OnDisk, Lost, Journaled, QuiesceDone, ForgetMemory, Idle
  <2>6. JournalInv'
    BY <1>2 DEF JournalInv, HasRow, Recovering, QuiesceDone, ForgetMemory, Idle
  <2>7. DurableCatalog'
    BY <1>2 DEF DurableCatalog, Resolvable, QuiesceDone, ForgetMemory, Idle
  <2>8. QED
    BY <1>a, <2>1, <2>2, <2>3, <2>4, <2>5, <2>6, <2>7
<1>3. CASE ListShipped
  <2>1. WriterInv'
    BY <1>3 DEF WriterInv, Resolvable, ListShipped
  <2>2. DeleterInv'
    BY <1>3 DEF DeleterInv, ListShipped
  <2>3. FlusherInv'
    BY <1>3 DEF FlusherInv, Shard, Resolvable, ListShipped
  <2>4. SegmentInv'
    BY <1>3 DEF SegmentInv, Fresh, ListShipped
  <2>5. RecoveryInv'
    BY <1>3 DEF RecoveryInv, Fresh, OnDisk, Lost, Journaled, ListShipped
  <2>6. JournalInv'
    BY <1>3 DEF JournalInv, HasRow, Recovering, ListShipped
  <2>7. DurableCatalog'
    BY <1>3 DEF DurableCatalog, Resolvable, ListShipped
  <2>8. QED
    BY <1>a, <2>1, <2>2, <2>3, <2>4, <2>5, <2>6, <2>7
<1>4. CASE DeleteSpace
  <2>1. WriterInv'
    BY <1>4 DEF WriterInv, Resolvable, DeleteSpace, Releasing
  <2>2. DeleterInv'
    BY <1>4 DEF DeleterInv, DeleteSpace, Releasing
  <2>3. FlusherInv'
    BY <1>4 DEF FlusherInv, Shard, Resolvable, DeleteSpace, Releasing
  <2>4. SegmentInv'
    BY <1>4 DEF SegmentInv, Fresh, DeleteSpace, Releasing
  <2>5. RecoveryInv'
    BY <1>4 DEF RecoveryInv, Fresh, OnDisk, Lost, Journaled, DeleteSpace, Releasing
  <2>6. JournalInv'
    BY <1>4 DEF JournalInv, HasRow, Recovering, DeleteSpace, Releasing
  <2>7. DurableCatalog'
    BY <1>4 DEF DurableCatalog, Resolvable, DeleteSpace, Releasing
  <2>8. QED
    BY <1>a, <2>1, <2>2, <2>3, <2>4, <2>5, <2>6, <2>7
<1>5. CASE DropBucket
  <2>1. WriterInv'
    BY <1>5 DEF WriterInv, Resolvable, DropBucket
  <2>2. DeleterInv'
    BY <1>5 DEF DeleterInv, DropBucket
  <2>3. FlusherInv'
    BY <1>5 DEF FlusherInv, Shard, Resolvable, DropBucket
  <2>4. SegmentInv'
    BY <1>5 DEF SegmentInv, Fresh, DropBucket
  <2>5. RecoveryInv'
    BY <1>5 DEF RecoveryInv, Fresh, OnDisk, Lost, Journaled, DropBucket, DeleterInv, NoBuild,
       NoSeq
  <2>6. JournalInv'
    BY <1>5 DEF JournalInv, HasRow, Recovering, DropBucket
  <2>7. DurableCatalog'
    BY <1>5, TreeAssumption DEF DurableCatalog, Resolvable, DropBucket
  <2>8. QED
    BY <1>a, <2>1, <2>2, <2>3, <2>4, <2>5, <2>6, <2>7
<1>6. CASE RemoveBucketLog
  <2>1. /\ deleter.pc # "idle" /\ log = "closed" /\ root = NoRoot /\ journal = {}
        /\ sealed = {} /\ shipped = {} /\ open = NoSeq /\ todo = {} /\ opens = {}
        /\ rebuild = NoBuild /\ flusher.phase = "idle" /\ queue = {} /\ pending = {}
        /\ writer.pc # "appended"
    BY <1>6 DEF RemoveBucketLog, DeleterInv, RecoveryInv, FlusherInv, WriterInv
  <2>2. \A t \in Seqs : file'[t] = NoFile /\ rows'[t] = NoRow
    BY <1>6 DEF RemoveBucketLog
  <2>3. /\ deleter'.pc = "idle"
        /\ UNCHANGED <<root, bucket, seqNext, journal, located, inclusion, forgeVars, aside, log,
                       recVars, memVars, writer>>
    BY <1>6 DEF RemoveBucketLog, NoDelete
  <2>4. WriterInv'
    BY <2>1, <2>2, <2>3, <1>a DEF WriterInv, Resolvable, Typed, NoFile, NoRow, NoBuild, NoSeq
  <2>5. DeleterInv'
    BY <2>1, <2>2, <2>3, <1>a DEF DeleterInv, Typed, NoFile, NoRow, NoBuild, NoSeq
  <2>6. FlusherInv'
    BY <2>1, <2>2, <2>3, <1>a DEF FlusherInv, Shard, Resolvable, Typed, NoFile, NoRow, NoBuild,
       NoSeq
  <2>7. SegmentInv'
    <3>1. \A t \in Seqs : file'[t].car = "none"
      BY <2>2 DEF NoFile
    <3>2. QED
      BY <2>1, <2>2, <2>3, <3>1 DEF SegmentInv
  <2>8. RecoveryInv'
    BY <2>1, <2>2, <2>3, <1>a DEF RecoveryInv, Fresh, OnDisk, Lost, Journaled, Typed, NoFile,
       NoRow, NoBuild, NoSeq
  <2>9. JournalInv'
    BY <2>1, <2>2, <2>3, <1>a DEF JournalInv, HasRow, Recovering, Typed, NoFile, NoRow, NoBuild,
       NoSeq
  <2>10. DurableCatalog'
    BY <2>1, <2>2, <2>3, <1>a, TreeAssumption DEF DurableCatalog, Resolvable, Typed, NoFile,
       NoRow, NoBuild, NoSeq
  <2>11. QED
    BY <1>a, <2>4, <2>5, <2>6, <2>7, <2>8, <2>9, <2>10
<1>7. CASE DeleteFails
  <2>1. WriterInv'
    BY <1>7 DEF WriterInv, Resolvable, DeleteFails, NoDelete
  <2>2. DeleterInv'
    BY <1>7 DEF DeleterInv, DeleteFails, NoDelete
  <2>3. FlusherInv'
    BY <1>7 DEF FlusherInv, Shard, Resolvable, DeleteFails, NoDelete
  <2>4. SegmentInv'
    BY <1>7 DEF SegmentInv, Fresh, DeleteFails, NoDelete
  <2>5. RecoveryInv'
    BY <1>7 DEF RecoveryInv, Fresh, OnDisk, Lost, Journaled, DeleteFails, NoDelete
  <2>6. JournalInv'
    BY <1>7 DEF JournalInv, HasRow, Recovering, DeleteFails, NoDelete
  <2>7. DurableCatalog'
    BY <1>7 DEF DurableCatalog, Resolvable, DeleteFails, NoDelete
  <2>8. QED
    BY <1>a, <2>1, <2>2, <2>3, <2>4, <2>5, <2>6, <2>7
<1>8. ASSUME NEW how \in SealOutcomes, Quiesce(how) PROVE IInv'
  <2>1. /\ deleter.pc = "emptied" /\ log = "running" /\ root = NoRoot /\ journal = {}
        /\ todo = {} /\ opens = {} /\ rebuild = NoBuild /\ writer.pc # "appended"
    BY <1>8 DEF Quiesce, DeleterInv, RecoveryInv, WriterInv
  <2>2. open # NoSeq => open \in Seqs /\ Fresh(open)
    BY <1>a DEF SegmentInv, Typed
  <2>3. RowsSealed
    BY <1>8, <2>2, SealedRows, SameRows DEF Quiesce, SealRow, TypeOK
  <2>4. FilesIndexed({open})
    <3>1. CASE open = NoSeq
      BY <1>8, <3>1 DEF Quiesce, FilesIndexed
    <3>2. CASE open # NoSeq
      BY <1>8, <2>2, <3>2, IndexedFiles DEF Quiesce, SealFile, TypeOK
    <3>3. QED
      BY <3>1, <3>2
  <2>5. /\ sealed \subseteq sealed' /\ open' = NoSeq /\ log' = "closing"
        /\ sealed' \subseteq sealed \cup {open} /\ queue' \subseteq queue \cup sealed'
        /\ UNCHANGED <<root, bucket, seqNext, journal, located, inclusion, forgeVars, aside,
                       recVars, shipped, pending, flusher, opVars>>
    BY <1>8 DEF Quiesce, Enqueue
  <2>6. \A t \in Seqs : t \in sealed' => t \in sealed \/ (t = open /\ open # NoSeq)
    BY <1>a, <2>5 DEF Typed
  <2>7. WriterInv'
    BY <2>1, <2>2, <2>3, <2>4, <2>5, <2>6, <1>a DEF WriterInv, Resolvable, Typed, NoFile, NoRow,
       NoBuild, NoSeq, FilesIndexed, RowsSealed, Fresh
  <2>8. DeleterInv'
    BY <2>1, <2>2, <2>3, <2>4, <2>5, <2>6, <1>a DEF DeleterInv, Typed, NoFile, NoRow, NoBuild,
       NoSeq, FilesIndexed, RowsSealed, Fresh
  <2>9. FlusherInv'
    BY <2>1, <2>2, <2>3, <2>4, <2>5, <2>6, <1>a DEF FlusherInv, Shard, Resolvable, Typed,
       NoFile, NoRow, NoBuild, NoSeq, FilesIndexed, RowsSealed, Fresh
  <2>10. SegmentInv'
    BY <2>1, <2>2, <2>3, <2>4, <2>5, <2>6, <1>a DEF SegmentInv, Fresh, Typed, NoFile, NoRow,
       NoBuild, NoSeq, FilesIndexed, RowsSealed
  <2>11. RecoveryInv'
    BY <2>1, <2>2, <2>3, <2>4, <2>5, <2>6, <1>a DEF RecoveryInv, Fresh, OnDisk, Lost, Journaled,
       Typed, NoFile, NoRow, NoBuild, NoSeq, FilesIndexed, RowsSealed
  <2>12. JournalInv'
    BY <2>1, <2>2, <2>3, <2>4, <2>5, <2>6, <1>a DEF JournalInv, HasRow, Recovering, Typed,
       NoFile, NoRow, NoBuild, NoSeq, FilesIndexed, RowsSealed, Fresh
  <2>13. DurableCatalog'
    BY <2>1, <2>2, <2>3, <2>4, <2>5, <2>6, <1>a, TreeAssumption DEF DurableCatalog, Resolvable,
       Typed, NoFile, NoRow, NoBuild, NoSeq, FilesIndexed, RowsSealed, Fresh
  <2>14. QED
    BY <1>a, <2>7, <2>8, <2>9, <2>10, <2>11, <2>12, <2>13
<1>9. ASSUME NEW s \in Seqs, ReleaseRetired(s) PROVE IInv'
  <2>1. /\ deleter.pc # "idle" /\ log = "closed" /\ root = NoRoot /\ journal = {}
        /\ sealed = {} /\ shipped = {} /\ open = NoSeq /\ todo = {} /\ opens = {}
        /\ rebuild = NoBuild /\ flusher.phase = "idle" /\ queue = {} /\ pending = {}
        /\ writer.pc # "appended"
    BY <1>9 DEF ReleaseRetired, DeleterInv, RecoveryInv, FlusherInv, WriterInv
  <2>2. \A t \in Seqs : rows'[t] = NoRow \/ rows'[t] = rows[t]
    BY <1>9 DEF ReleaseRetired, DeleteSegment, TypeOK
  <2>3. UNCHANGED <<root, bucket, seqNext, journal, located, inclusion, diskVars, log, recVars,
                    memVars, opVars>>
    BY <1>9 DEF ReleaseRetired
  <2>4. WriterInv'
    BY <2>1, <2>2, <2>3, <1>a DEF WriterInv, Resolvable, Typed, NoFile, NoRow, NoBuild, NoSeq
  <2>5. DeleterInv'
    BY <2>1, <2>2, <2>3, <1>a DEF DeleterInv, Typed, NoFile, NoRow, NoBuild, NoSeq
  <2>6. FlusherInv'
    BY <2>1, <2>2, <2>3, <1>a DEF FlusherInv, Shard, Resolvable, Typed, NoFile, NoRow, NoBuild,
       NoSeq
  <2>7. SegmentInv'
    BY <2>1, <2>2, <2>3 DEF SegmentInv
  <2>8. RecoveryInv'
    BY <2>1, <2>2, <2>3, <1>a DEF RecoveryInv, Fresh, OnDisk, Lost, Journaled, Typed, NoFile,
       NoRow, NoBuild, NoSeq
  <2>9. JournalInv'
    BY <2>1, <2>2, <2>3, <1>a DEF JournalInv, HasRow, Recovering, Typed, NoFile, NoRow, NoBuild,
       NoSeq
  <2>10. DurableCatalog'
    BY <2>1, <2>2, <2>3, <1>a, TreeAssumption DEF DurableCatalog, Resolvable, Typed, NoFile,
       NoRow, NoBuild, NoSeq
  <2>11. QED
    BY <1>a, <2>4, <2>5, <2>6, <2>7, <2>8, <2>9, <2>10
<1>10. ASSUME NEW s \in Seqs, ReleaseShipped(s) PROVE IInv'
  <2>1. /\ deleter.pc # "idle" /\ log = "closed" /\ root = NoRoot /\ journal = {}
        /\ sealed = {} /\ shipped = {} /\ open = NoSeq /\ todo = {} /\ opens = {}
        /\ rebuild = NoBuild /\ flusher.phase = "idle" /\ queue = {} /\ pending = {}
        /\ writer.pc # "appended"
    BY <1>10 DEF ReleaseShipped, DeleterInv, RecoveryInv, FlusherInv, WriterInv
  <2>2. /\ deleter'.pc = "listed"
        /\ UNCHANGED <<pgVars, diskVars, log, recVars, memVars, writer>>
    BY <1>10 DEF ReleaseShipped, TypeOK
  <2>3. WriterInv'
    BY <2>1, <2>2, <1>a DEF WriterInv, Resolvable, Typed, NoFile, NoRow, NoBuild, NoSeq
  <2>4. DeleterInv'
    BY <2>1, <2>2, <1>a DEF DeleterInv, Typed, NoFile, NoRow, NoBuild, NoSeq
  <2>5. FlusherInv'
    BY <2>1, <2>2, <1>a DEF FlusherInv, Shard, Resolvable, Typed, NoFile, NoRow, NoBuild, NoSeq
  <2>6. SegmentInv'
    BY <2>1, <2>2, <1>a DEF SegmentInv, Fresh, Typed, NoFile, NoRow, NoBuild, NoSeq
  <2>7. RecoveryInv'
    BY <2>1, <2>2, <1>a DEF RecoveryInv, Fresh, OnDisk, Lost, Journaled, Typed, NoFile, NoRow,
       NoBuild, NoSeq
  <2>8. JournalInv'
    BY <2>1, <2>2, <1>a DEF JournalInv, HasRow, Recovering, Typed, NoFile, NoRow, NoBuild, NoSeq
  <2>9. DurableCatalog'
    BY <2>1, <2>2, <1>a, TreeAssumption DEF DurableCatalog, Resolvable, Typed, NoFile, NoRow,
       NoBuild, NoSeq
  <2>10. QED
    BY <1>a, <2>3, <2>4, <2>5, <2>6, <2>7, <2>8, <2>9
<1>11. QED
  BY <1>1, <1>2, <1>3, <1>4, <1>5, <1>6, <1>7, <1>8, <1>9, <1>10 DEF Delete

\* A fault keeps the invariant.
LEMMA KeepFault == IInv /\ Fault => IInv'
<1> SUFFICES ASSUME IInv, Fault PROVE IInv'
  OBVIOUS
<1> USE DEF IInv, pgVars, forgeVars, diskVars, recVars, memVars, opVars
<1>a. TypeOK' /\ Typed /\ Typed'
  BY TypeFault, TypedState, TypedNext
<1>1. CASE Crash
  <2>1. /\ log' = "down" /\ todo' = {} /\ opens' = {} /\ rebuild' = NoBuild /\ open' = NoSeq
        /\ sealed' = {} /\ shipped' = {} /\ queue' = {} /\ pending' = {}
        /\ flusher'.phase = "idle" /\ writer'.pc = "idle" /\ deleter'.pc = "idle"
        /\ UNCHANGED <<pgVars, forgeVars, diskVars>>
    BY <1>1 DEF Crash, ProcessDies, ForgetMemory, Idle, NoWrite, NoDelete
  <2>2. WriterInv'
    BY <2>1, <1>a DEF WriterInv, Resolvable, Typed, NoFile, NoRow, NoBuild, NoSeq
  <2>3. DeleterInv'
    BY <2>1, <1>a DEF DeleterInv, Typed, NoFile, NoRow, NoBuild, NoSeq
  <2>4. FlusherInv'
    BY <2>1, <1>a DEF FlusherInv, Shard, Resolvable, Typed, NoFile, NoRow, NoBuild, NoSeq
  <2>5. SegmentInv'
    BY <2>1, <1>a DEF SegmentInv, Fresh, Typed, NoFile, NoRow, NoBuild, NoSeq
  <2>6. RecoveryInv'
    BY <2>1, <1>a DEF RecoveryInv, Fresh, OnDisk, Lost, Journaled, Typed, NoFile, NoRow,
       NoBuild, NoSeq
  <2>7. JournalInv'
    BY <2>1, <1>a DEF JournalInv, HasRow, Recovering, Typed, NoFile, NoRow, NoBuild, NoSeq
  <2>8. DurableCatalog'
    BY <2>1, <1>a DEF DurableCatalog, Resolvable, Typed, NoFile, NoRow, NoBuild, NoSeq
  <2>9. QED
    BY <1>a, <2>2, <2>3, <2>4, <2>5, <2>6, <2>7, <2>8
<1>2. ASSUME NEW r \in Roots, NEW part \in SUBSET Tree[r], NEW ops \in SUBSET {r},
             NEW hasRow \in BOOLEAN, TornAppend(r, part, ops, hasRow)
      PROVE  IInv'
  <2>1. /\ log' = "down" /\ todo' = {} /\ opens' = {} /\ rebuild' = NoBuild /\ open' = NoSeq
        /\ sealed' = {} /\ shipped' = {} /\ queue' = {} /\ pending' = {}
        /\ flusher'.phase = "idle" /\ writer'.pc = "idle" /\ deleter'.pc = "idle"
        /\ UNCHANGED <<root, bucket, journal, located, inclusion, forgeVars, aside>>
    BY <1>2 DEF TornAppend, ProcessDies, ForgetMemory, Idle, NoWrite, NoDelete
  <2>2. Growable(AppendSeq)
    BY <1>2, <1>a, NextGrows, FreshGrows DEF TornAppend, AppendSeq, SegmentInv, Typed
  <2>3. Grows(AppendSeq, part)
    <3>1. \/ rows' = InsertSegmentOpen(rows, AppendSeq)
          \/ rows' = rows /\ AppendSeq = seqNext /\ rows[AppendSeq] = NoRow
      BY <1>2, <1>a, <2>2 DEF TornAppend, AppendSeq, Growable, Fresh, Typed
    <3>2. QED
      BY <1>2, <2>2, <3>1, GrownSegment DEF TornAppend, Growable, TypeOK
  <2>4. seqNext' >= seqNext /\ AppendSeq < seqNext' /\ AppendSeq \in Seqs
    BY <1>2, <1>a, <2>2 DEF TornAppend, AppendSeq, SegmentInv, Fresh, Typed
  <2>5. /\ aside[AppendSeq] = NoFile /\ aside[AppendSeq].car = "none" /\ ~rows'[AppendSeq].shipped
        /\ AppendSeq < seqNext => file[AppendSeq].car = "ok"
    BY <1>a, <2>2, <2>3 DEF Growable, Fresh, Grows, NoRow, NoFile, Typed
  <2>6. \A t \in Seqs : t >= seqNext' => t # AppendSeq /\ t >= seqNext
    <3>1. Seqs \subseteq Nat /\ seqNext \in Nat /\ seqNext' \in Nat
      BY <1>a DEF Typed
    <3>2. QED
      BY <2>4, <3>1
  <2>7. WriterInv'
    BY <2>1, <2>2, <2>3, <2>4, <2>5, <2>6, <1>a DEF WriterInv, Resolvable, Typed, NoFile, NoRow,
       NoBuild, NoSeq, Grows
  <2>8. DeleterInv'
    BY <2>1, <2>2, <2>3, <2>4, <2>5, <2>6, <1>a DEF DeleterInv, Typed, NoFile, NoRow, NoBuild,
       NoSeq, Grows
  <2>9. FlusherInv'
    BY <2>1, <2>2, <2>3, <2>4, <2>5, <2>6, <1>a DEF FlusherInv, Shard, Resolvable, Typed,
       NoFile, NoRow, NoBuild, NoSeq, Grows
  <2>10. SegmentInv'
    BY <2>1, <2>2, <2>3, <2>4, <2>5, <2>6, <1>a DEF SegmentInv, Fresh, Typed, NoFile, NoRow,
       NoBuild, NoSeq, Grows
  <2>11. RecoveryInv'
    BY <2>1, <2>2, <2>3, <2>4, <2>5, <2>6, <1>a DEF RecoveryInv, Fresh, OnDisk, Lost, Journaled,
       Typed, NoFile, NoRow, NoBuild, NoSeq, Grows
  <2>12. JournalInv'
    BY <2>1, <2>2, <2>3, <2>4, <2>5, <2>6, <1>a DEF JournalInv, HasRow, Recovering, Typed,
       NoFile, NoRow, NoBuild, NoSeq, Grows
  <2>13. DurableCatalog'
    BY <2>1, <2>2, <2>3, <2>4, <2>5, <2>6, <1>a DEF DurableCatalog, Resolvable, Typed, NoFile,
       NoRow, NoBuild, NoSeq, Grows
  <2>14. QED
    BY <1>a, <2>7, <2>8, <2>9, <2>10, <2>11, <2>12, <2>13
<1>3. ASSUME NEW S \in SUBSET Seqs, LoseFiles(S) PROVE IInv'
  <2>1. /\ log = "down" /\ sealed = {} /\ shipped = {} /\ open = NoSeq /\ todo = {} /\ opens = {}
        /\ rebuild = NoBuild /\ flusher.phase = "idle" /\ writer.pc # "appended" /\ queue = {}
        /\ pending = {}
    BY <1>3 DEF LoseFiles, DiskFault, RecoveryInv, FlusherInv, WriterInv
  <2>2. UNCHANGED <<pgVars, forgeVars, log, recVars, memVars, opVars>>
    BY <1>3 DEF LoseFiles, DiskFault
  <2>3. FilesGone(S) /\ aside' = aside
    BY <1>3 DEF LoseFiles, FilesGone
  <2>4. WriterInv'
    BY <2>1, <2>2, <2>3, <1>a DEF WriterInv, Resolvable, Typed, NoFile, NoRow, NoBuild, NoSeq,
       FilesGone
  <2>5. DeleterInv'
    BY <2>1, <2>2, <2>3, <1>a DEF DeleterInv, Typed, NoFile, NoRow, NoBuild, NoSeq, FilesGone
  <2>6. FlusherInv'
    BY <2>1, <2>2, <2>3, <1>a DEF FlusherInv, Shard, Resolvable, Typed, NoFile, NoRow, NoBuild,
       NoSeq, FilesGone
  <2>7. SegmentInv'
    BY <2>1, <2>2, <2>3, <1>a DEF SegmentInv, Fresh, Typed, NoFile, NoRow, NoBuild, NoSeq,
       FilesGone
  <2>8. RecoveryInv'
    BY <2>1, <2>2, <2>3, <1>a DEF RecoveryInv, Fresh, OnDisk, Lost, Journaled, Typed, NoFile,
       NoRow, NoBuild, NoSeq, FilesGone
  <2>9. JournalInv'
    BY <2>1, <2>2, <2>3, <1>a DEF JournalInv, HasRow, Recovering, Typed, NoFile, NoRow, NoBuild,
       NoSeq, FilesGone
  <2>10. DurableCatalog'
    BY <2>1, <2>2, <2>3, <1>a DEF DurableCatalog, Resolvable, Typed, NoFile, NoRow, NoBuild,
       NoSeq, FilesGone
  <2>11. QED
    BY <1>a, <2>4, <2>5, <2>6, <2>7, <2>8, <2>9, <2>10
<1>4. ASSUME NEW s \in Seqs, NEW car \in {"ok", "damaged"}, DamageFiles(s, car) PROVE IInv'
  <2>1. /\ log = "down" /\ sealed = {} /\ shipped = {} /\ open = NoSeq /\ todo = {} /\ opens = {}
        /\ rebuild = NoBuild /\ flusher.phase = "idle" /\ writer.pc # "appended" /\ queue = {}
        /\ pending = {}
    BY <1>4 DEF DamageFiles, DiskFault, RecoveryInv, FlusherInv, WriterInv
  <2>2. UNCHANGED <<pgVars, forgeVars, log, recVars, memVars, opVars>>
    BY <1>4 DEF DamageFiles, DiskFault
  <2>3. /\ \A t \in Seqs : t # s => file'[t] = file[t]
        /\ file'[s].car = car /\ file'[s].blocks = file[s].blocks /\ ~file'[s].idx
        /\ aside' = aside /\ HasRow(s) /\ rows[s].state = "sealed" /\ file[s].car = "ok"
    BY <1>4 DEF DamageFiles, TypeOK, File
  <2>4. WriterInv'
    BY <2>1, <2>2, <2>3, <1>a DEF WriterInv, Resolvable, Typed, NoFile, NoRow, NoBuild, NoSeq
  <2>5. DeleterInv'
    BY <2>1, <2>2, <2>3, <1>a DEF DeleterInv, Typed, NoFile, NoRow, NoBuild, NoSeq
  <2>6. FlusherInv'
    BY <2>1, <2>2, <2>3, <1>a DEF FlusherInv, Shard, Resolvable, Typed, NoFile, NoRow, NoBuild,
       NoSeq
  <2>7. SegmentInv'
    BY <2>1, <2>2, <2>3, <1>a DEF SegmentInv, Fresh, Typed, NoFile, NoRow, NoBuild, NoSeq
  <2>8. RecoveryInv'
    BY <2>1, <2>2, <2>3, <1>a DEF RecoveryInv, Fresh, OnDisk, Lost, Journaled, Typed, NoFile,
       NoRow, NoBuild, NoSeq
  <2>9. JournalInv'
    BY <2>1, <2>2, <2>3, <1>a DEF JournalInv, HasRow, Recovering, Typed, NoFile, NoRow, NoBuild,
       NoSeq
  <2>10. DurableCatalog'
    BY <2>1, <2>2, <2>3, <1>a DEF DurableCatalog, Resolvable, Typed, NoFile, NoRow, NoBuild,
       NoSeq
  <2>11. QED
    BY <1>a, <2>4, <2>5, <2>6, <2>7, <2>8, <2>9, <2>10
<1>5. CASE VolumeMissing
  <2>1. /\ log = "down" /\ sealed = {} /\ shipped = {} /\ open = NoSeq /\ todo = {} /\ opens = {}
        /\ rebuild = NoBuild /\ flusher.phase = "idle" /\ writer.pc # "appended" /\ queue = {}
        /\ pending = {}
    BY <1>5 DEF VolumeMissing, DiskFault, RecoveryInv, FlusherInv, WriterInv
  <2>2. UNCHANGED <<pgVars, forgeVars, log, recVars, memVars, opVars>>
    BY <1>5 DEF VolumeMissing, DiskFault
  <2>3. \A t \in Seqs : aside[t] = NoFile /\ file'[t] = NoFile /\ aside'[t] = file[t]
    BY <1>5 DEF VolumeMissing
  <2>4. WriterInv'
    BY <2>1, <2>2, <2>3, <1>a DEF WriterInv, Resolvable, Typed, NoFile, NoRow, NoBuild, NoSeq
  <2>5. DeleterInv'
    BY <2>1, <2>2, <2>3, <1>a DEF DeleterInv, Typed, NoFile, NoRow, NoBuild, NoSeq
  <2>6. FlusherInv'
    BY <2>1, <2>2, <2>3, <1>a DEF FlusherInv, Shard, Resolvable, Typed, NoFile, NoRow, NoBuild,
       NoSeq
  <2>7. SegmentInv'
    BY <2>1, <2>2, <2>3, <1>a DEF SegmentInv, Fresh, Typed, NoFile, NoRow, NoBuild, NoSeq
  <2>8. RecoveryInv'
    BY <2>1, <2>2, <2>3, <1>a DEF RecoveryInv, Fresh, OnDisk, Lost, Journaled, Typed, NoFile,
       NoRow, NoBuild, NoSeq
  <2>9. JournalInv'
    BY <2>1, <2>2, <2>3, <1>a DEF JournalInv, HasRow, Recovering, Typed, NoFile, NoRow, NoBuild,
       NoSeq
  <2>10. DurableCatalog'
    BY <2>1, <2>2, <2>3, <1>a DEF DurableCatalog, Resolvable, Typed, NoFile, NoRow, NoBuild,
       NoSeq
  <2>11. QED
    BY <1>a, <2>4, <2>5, <2>6, <2>7, <2>8, <2>9, <2>10
<1>6. CASE VolumeBack
  <2>1. /\ log = "down" /\ sealed = {} /\ shipped = {} /\ open = NoSeq /\ todo = {} /\ opens = {}
        /\ rebuild = NoBuild /\ flusher.phase = "idle" /\ writer.pc # "appended" /\ queue = {}
        /\ pending = {}
    BY <1>6 DEF VolumeBack, DiskFault, RecoveryInv, FlusherInv, WriterInv
  <2>2. UNCHANGED <<pgVars, forgeVars, log, recVars, memVars, opVars>>
    BY <1>6 DEF VolumeBack, DiskFault
  <2>3. \A t \in Seqs : file'[t] = aside[t] /\ aside'[t] = NoFile
    BY <1>6 DEF VolumeBack
  <2>4. WriterInv'
    BY <2>1, <2>2, <2>3, <1>a DEF WriterInv, Resolvable, Typed, NoFile, NoRow, NoBuild, NoSeq
  <2>5. DeleterInv'
    BY <2>1, <2>2, <2>3, <1>a DEF DeleterInv, Typed, NoFile, NoRow, NoBuild, NoSeq
  <2>6. FlusherInv'
    BY <2>1, <2>2, <2>3, <1>a DEF FlusherInv, Shard, Resolvable, Typed, NoFile, NoRow, NoBuild,
       NoSeq
  <2>7. SegmentInv'
    BY <2>1, <2>2, <2>3, <1>a DEF SegmentInv, Fresh, Typed, NoFile, NoRow, NoBuild, NoSeq
  <2>8. RecoveryInv'
    BY <2>1, <2>2, <2>3, <1>a DEF RecoveryInv, Fresh, OnDisk, Lost, Journaled, Typed, NoFile,
       NoRow, NoBuild, NoSeq
  <2>9. JournalInv'
    BY <2>1, <2>2, <2>3, <1>a DEF JournalInv, HasRow, Recovering, Typed, NoFile, NoRow, NoBuild,
       NoSeq
  <2>10. DurableCatalog'
    BY <2>1, <2>2, <2>3, <1>a DEF DurableCatalog, Resolvable, Typed, NoFile, NoRow, NoBuild,
       NoSeq
  <2>11. QED
    BY <1>a, <2>4, <2>5, <2>6, <2>7, <2>8, <2>9, <2>10
<1>7. QED
  BY <1>1, <1>2, <1>3, <1>4, <1>5, <1>6 DEF Fault

\* A new bucket satisfies the invariant.
LEMMA KeepInit == Init => IInv
<1> SUFFICES ASSUME Init PROVE IInv
  OBVIOUS
<1>1. TypeOK
  BY TypeInit
<1>2. /\ root = NoRoot /\ bucket = "live" /\ journal = {} /\ seqNext = 1 /\ log = "running"
      /\ todo = {} /\ opens = {} /\ rebuild = NoBuild /\ open = NoSeq /\ sealed = {}
      /\ shipped = {} /\ queue = {} /\ pending = {}
      /\ flusher.phase = "idle" /\ writer.pc = "idle" /\ deleter.pc = "idle"
      /\ \A s \in Seqs : rows[s] = NoRow /\ file[s] = NoFile /\ aside[s] = NoFile
  BY DEF Init, Idle, NoWrite, NoDelete
<1>3. \A s \in Seqs : file[s].car = "none" /\ aside[s].car = "none"
  BY <1>2 DEF NoFile
<1>4. rebuild.cur = NoSeq /\ rebuild.from = NoSeq
  BY <1>2 DEF NoBuild
<1>5. SegmentInv
  BY <1>2, <1>3 DEF SegmentInv
<1>6. QED
  BY <1>1, <1>2, <1>3, <1>4, <1>5, TreeAssumption DEF IInv, WriterInv, DeleterInv, FlusherInv,
     RecoveryInv, JournalInv, DurableCatalog

\* A step that leaves every variable alone keeps the invariant.
LEMMA KeepStutter == IInv /\ UNCHANGED vars => IInv'
<1> SUFFICES ASSUME IInv, UNCHANGED vars PROVE IInv'
  OBVIOUS
<1> USE DEF IInv, vars, pgVars, forgeVars, diskVars, recVars, memVars, opVars
<1>1. TypeOK'
  BY DEF TypeOK
<1>2. WriterInv'
  BY DEF WriterInv, Resolvable
<1>3. DeleterInv'
  BY DEF DeleterInv
<1>4. FlusherInv'
  BY DEF FlusherInv, Shard, Resolvable
<1>5. SegmentInv'
  BY DEF SegmentInv, Fresh
<1>6. RecoveryInv'
  BY DEF RecoveryInv, Fresh, OnDisk, Lost, Journaled
<1>7. JournalInv'
  BY DEF JournalInv, HasRow, Recovering
<1>8. DurableCatalog'
  BY DEF DurableCatalog, Resolvable
<1>9. QED
  BY <1>1, <1>2, <1>3, <1>4, <1>5, <1>6, <1>7, <1>8

(***************************************************************************)
(* The invariant holds in every state, over any number of crashes, disk    *)
(* faults, failed commits and retried ships.                               *)
(***************************************************************************)
THEOREM InvariantHolds == Spec => []IInv
<1>1. IInv /\ [Next]_vars => IInv'
  <2> SUFFICES ASSUME IInv, [Next]_vars PROVE IInv'
    OBVIOUS
  <2>1. ASSUME NEW how \in SealOutcomes, SealOpen(how) PROVE IInv'
    BY <2>1, KeepSeal
  <2>2. QED
    BY <2>1, KeepWrite, KeepShip, KeepRecover, KeepDelete, KeepFault, KeepStutter DEF Next
<1>2. QED
  BY <1>1, KeepInit, PTL DEF Spec

(***************************************************************************)
(* For every catalog, bound and fault: each block the committed root       *)
(* reaches is journaled in Postgres or resolves on Forge.  CommitRoot      *)
(* journals in the transaction of the swap, MarkSegmentShipped drops rows  *)
(* only after their shard's inclusion rows are written, and MoveJournal    *)
(* re-files rows only to a segment that holds the blocks.                  *)
(***************************************************************************)
THEOREM CatalogIsDurable == Spec => []DurableCatalog
<1>1. IInv => DurableCatalog
  BY DEF IInv
<1>2. QED
  BY <1>1, InvariantHolds, PTL

\* While the log runs, a journaled block is in a segment memory knows.
LEMMA JournalHeld ==
    ASSUME IInv, log = "running", NEW s \in Seqs, NEW b \in Blocks, <<s, b>> \in journal
    PROVE  s \in sealed \cup {open} /\ file[s].car = "ok" /\ b \in file[s].blocks
<1>1. s \in sealed \cup {open} /\ Typed
  BY TypedState DEF IInv, JournalInv
<1>2. file[s].car = "ok"
  <2>1. CASE s \in sealed
    BY <2>1 DEF IInv, SegmentInv
  <2>2. CASE s = open
    BY <1>1, <2>2 DEF IInv, SegmentInv, Fresh, Typed
  <2>3. QED
    BY <1>1, <2>1, <2>2
<1>3. QED
  BY <1>1, <1>2 DEF IInv, JournalInv

(***************************************************************************)
(* Journal rows and ships never cross: journalBlocks and MoveJournal file  *)
(* no row under a shipped segment, and while the log runs every journal    *)
(* row's segment is in the read tier, unshipped, with the block in it.     *)
(***************************************************************************)
THEOREM JournalIsAwaited == Spec => []JournalAwaitsShip
<1>1. IInv => JournalAwaitsShip
  <2> SUFFICES ASSUME IInv, NEW e \in journal
               PROVE  /\ ~rows[e[1]].shipped
                      /\ log = "running" => /\ e[1] \in sealed \cup {open}
                                            /\ e[1] \notin shipped
                                            /\ e[2] \in file[e[1]].blocks
    BY DEF JournalAwaitsShip
  <2>1. e[1] \in Seqs /\ e[2] \in Blocks /\ <<e[1], e[2]>> \in journal
    BY DEF IInv, TypeOK
  <2>2. ~rows[e[1]].shipped /\ e[1] \notin shipped
    BY <2>1 DEF IInv, JournalInv
  <2>3. QED
    BY <2>1, <2>2, JournalHeld
<1>2. QED
  BY <1>1, InvariantHolds, PTL

-----------------------------------------------------------------------------
(* Reads, when no unlink fails.                                            *)

\* Retention has left no segment in the read tier with its fds closed.
NoneWedged == ~UnlinkMayFail => wedged = {}

\* When no unlink fails, runRetention closes no segment it keeps.
LEMMA WedgedStep == NoneWedged /\ [Next]_vars => NoneWedged'
<1> SUFFICES ASSUME ~UnlinkMayFail, wedged = {}, [Next]_vars PROVE wedged' = {}
  BY DEF NoneWedged
<1> USE DEF pgVars, forgeVars, diskVars, recVars, memVars, opVars
<1>1. CASE Write
  BY <1>1 DEF Write, AppendBatch, CommitRoot, CommitFails
<1>2. ASSUME NEW how \in SealOutcomes, SealOpen(how) PROVE wedged' = {}
  BY <1>2 DEF SealOpen
<1>3. CASE Ship
  <2>1. ASSUME NEW gone \in SUBSET Seqs, RetireFiles(gone) PROVE wedged' = {}
    BY <2>1 DEF RetireFiles
  <2>2. QED
    BY <1>3, <2>1 DEF Ship, TakeQueued, SweepNext, StartSweep, SweepClosed, FlushSeal,
       FlushTrivial,
       FlushSubmit, FlushLocate, FlushInclude, FlushStamp, FlushRetry, FlushGivesUp, RetireRows
<1>4. CASE Recover
  BY <1>4 DEF Recover, OpenLog, ScanDone, SealDone, RecoverRetired, RecoverSealedRow,
     RecoverSetAside, RecoverFromIdx, RecoverOpen, RecoverRefuses, ForceSeal, PruneRow,
     RebuildAppend, RebuildMove, RebuildSeal, RebuildDone, RecoverDone, LoadSealed
<1>5. CASE Delete
  BY <1>5 DEF Delete, EmptyRoot, QuiesceDone, ListShipped, DeleteSpace, DropBucket,
     RemoveBucketLog, DeleteFails, Quiesce, ReleaseRetired, ReleaseShipped, ForgetMemory
<1>6. CASE Fault
  BY <1>6 DEF Fault, Crash, TornAppend, LoseFiles, DamageFiles, VolumeMissing, VolumeBack,
     DiskFault, ProcessDies, ForgetMemory
<1>7. QED
  BY <1>1, <1>2, <1>3, <1>4, <1>5, <1>6 DEF Next, vars

(***************************************************************************)
(* While the log runs and as long as retention's unlinks succeed, every    *)
(* block of the committed root is served: by a local segment, or by Forge  *)
(* once retention has removed the last segment holding it (PlaneLog.Get).  *)
(***************************************************************************)
THEOREM CatalogIsReadable == ~UnlinkMayFail => (Spec => []ReadableCatalog)
<1> SUFFICES ASSUME ~UnlinkMayFail PROVE Spec => []ReadableCatalog
  OBVIOUS
<1>1. IInv /\ NoneWedged => ReadableCatalog
  <2> SUFFICES ASSUME IInv, wedged = {}, log = "running", NEW b \in Tree[root] PROVE Served(b)
    BY DEF NoneWedged, ReadableCatalog
  <2>1. b \in Blocks
    BY TreeAssumption DEF IInv, TypeOK
  <2>2. CASE Holders(b) = {}
    <3>1. ~ \E s \in Seqs : <<s, b>> \in journal
      <4> SUFFICES ASSUME NEW s \in Seqs, <<s, b>> \in journal PROVE FALSE
        OBVIOUS
      <4>1. s \in sealed \cup {open} /\ b \in file[s].blocks /\ s # NoSeq
        BY <2>1, JournalHeld, TypedState DEF IInv, Typed
      <4>2. QED
        BY <2>2, <4>1 DEF Holders
    <3>2. QED
      BY <2>2, <3>1 DEF IInv, DurableCatalog, Served
  <2>3. CASE Holders(b) # {}
    BY <2>3 DEF Served
  <2>4. QED
    BY <2>2, <2>3
<1>2. Init => NoneWedged
  BY DEF Init, NoneWedged
<1>3. QED
  BY <1>1, <1>2, InvariantHolds, WedgedStep, PTL DEF Spec

-----------------------------------------------------------------------------
(* What DeleteBucket can find, as long as no CAR is damaged in place.      *)

\* A sealed row's digest is that of the CAR it stands for, wherever the CAR is.
RowsMatch ==
    \A s \in Seqs : /\ file[s].car # "damaged" /\ aside[s].car # "damaged"
                    /\ file[s].car = "none" \/ aside[s].car = "none"
                    /\ rows[s].state = "sealed" =>
                          /\ file[s].car = "ok" => file[s].blocks = rows[s].sha
                          /\ aside[s].car = "ok" => aside[s].blocks = rows[s].sha

\* The rows of the segments memory knows; a ship starts once the seal is recorded.
RowsKnown ==
    /\ open # NoSeq => rows[open].state = "open"
    /\ rebuild.cur # NoSeq => rows[rebuild.cur].state = "open"
    /\ \A s \in sealed \cup opens : rows[s].state # "none"
    /\ \A s \in sealed \cap recorded : rows[s].state = "sealed"
    /\ recorded \subseteq sealed \cup shipped
    /\ flusher.phase \in {"submit", "locate", "include", "stamp"} => flusher.seq \in recorded

\* A space that is gone held no CAR; the CARs still to release are listed.
SpaceInv ==
    /\ deleter.pc \in {"spaceless", "cleanup"} => space = "deleted"
    /\ space = "deleted" => forge = {}
    /\ deleter.pc = "listed" =>
          \A d \in forge : \E s \in deleter.todo : rows[s].state = "sealed" /\ rows[s].sha = d

CInv == RowsMatch /\ RowsKnown /\ SpaceInv /\ CarsRecorded

\* A step that seals the row of s with digest d if it is open, and one that
\* leaves every sealed row's digest alone.
SealsAs(s, d) ==
    /\ \A t \in Seqs : t # s => rows'[t] = rows[t]
    /\ rows[s].state = "open" => rows'[s].state = "sealed" /\ rows'[s].sha = d
    /\ rows[s].state # "open" => rows'[s] = rows[s]

DigestsKept ==
    \A t \in Seqs : rows[t].state = "sealed" =>
        rows'[t].state = "sealed" /\ rows'[t].sha = rows[t].sha

\* What MarkSegmentSealed does, row by row.
LEMMA SealsRow ==
    ASSUME NEW s \in Seqs, NEW d, rows \in [Seqs -> Row], rows' = MarkSegmentSealed(rows, s, d)
    PROVE  SealsAs(s, d)
<1>1. CASE rows[s].state = "open"
  <2>1. rows' = [rows EXCEPT ![s].state = "sealed", ![s].sha = d]
    BY <1>1 DEF MarkSegmentSealed
  <2>2. \A t \in Seqs : t # s => rows'[t] = rows[t]
    BY <2>1
  <2>3. rows'[s].state = "sealed" /\ rows'[s].sha = d
    BY <2>1 DEF Row
  <2>4. QED
    BY <1>1, <2>2, <2>3 DEF SealsAs
<1>2. CASE rows[s].state # "open"
  BY <1>2 DEF MarkSegmentSealed, SealsAs
<1>3. QED
  BY <1>1, <1>2

\* No digest changes when a row is sealed: only an open row is stamped.
LEMMA SealsKeep == ASSUME NEW s \in Seqs, NEW d, SealsAs(s, d) PROVE DigestsKept
BY DEF SealsAs, DigestsKept

\* InsertSegmentOpen adds a missing row and leaves every other one alone.
LEMMA InsertKeeps ==
    ASSUME NEW s \in Seqs, rows \in [Seqs -> Row], rows' = InsertSegmentOpen(rows, s)
    PROVE  /\ DigestsKept /\ \A t \in Seqs : t # s => rows'[t] = rows[t]
           /\ rows[s].state = "none" => rows'[s].state = "open"
           /\ rows[s].state # "none" => rows'[s] = rows[s]
<1>1. CASE rows[s].state = "none"
  <2>1. rows' = [rows EXCEPT ![s] = [NoRow EXCEPT !.state = "open"]]
    BY <1>1 DEF InsertSegmentOpen
  <2>2. rows'[s] = [NoRow EXCEPT !.state = "open"] /\ \A t \in Seqs : t # s => rows'[t] = rows[t]
    BY <2>1
  <2>3. rows'[s].state = "open"
    BY <2>2 DEF NoRow
  <2>4. QED
    BY <1>1, <2>2, <2>3 DEF DigestsKept
<1>2. CASE rows[s].state # "none"
  BY <1>2 DEF InsertSegmentOpen, DigestsKept
<1>3. QED
  BY <1>1, <1>2

\* A step that keeps the digests and the space keeps every CAR recorded ...
LEMMA KeptCars == ASSUME CarsRecorded, DigestsKept, forge' = forge PROVE CarsRecorded'
BY DEF CarsRecorded, DigestsKept

\* ... and every CAR a delete has listed listed.
LEMMA KeptList ==
    ASSUME SpaceInv, TypeOK, DigestsKept, UNCHANGED <<forge, space, deleter>>
    PROVE  SpaceInv'
BY DEF SpaceInv, DigestsKept, TypeOK

\* A row is missing, open or sealed.
LEMMA StateTyped == TypeOK => \A s \in Seqs : rows[s].state \in {"none", "open", "sealed"}
BY DEF TypeOK, Row

\* A step of a write keeps what the release of CARs rests on.
LEMMA CarsWrite ==
    ASSUME IInv, CInv, "damage" \notin DiskFaults, Write
    PROVE  CInv'
<1> USE DEF IInv, CInv, pgVars, forgeVars, diskVars, recVars, memVars, opVars
<1>a. Typed /\ Typed' /\ \A s \in Seqs : rows[s].state \in {"none", "open", "sealed"}
  BY TypeWrite, TypedState, TypedNext, StateTyped
<1>1. ASSUME NEW r \in Roots, NEW bs \in SUBSET Tree[r], AppendBatch(r, bs) PROVE CInv'
  <2>1. Growable(AppendSeq) /\ rows[AppendSeq].state \in {"none", "open"} /\ AppendSeq \in Seqs
    <3>1. CASE open # NoSeq
      <4>1. AppendSeq = open /\ open \in Seqs /\ Fresh(open) /\ rows[open].state = "open"
        BY <1>a, <3>1 DEF AppendSeq, RowsKnown, SegmentInv, Typed
      <4>2. QED
        BY <4>1, FreshGrows
    <3>2. CASE open = NoSeq
      <4>1. AppendSeq = seqNext /\ seqNext \in Seqs
        BY <1>1, <3>2 DEF AppendBatch, AppendSeq
      <4>2. rows[seqNext].state = "none"
        BY <1>a, <4>1 DEF SegmentInv, NoRow, Typed
      <4>3. QED
        BY <1>a, <4>1, <4>2, NextGrows
    <3>3. QED
      BY <3>1, <3>2
  <2>2. Grows(AppendSeq, bs) /\ rows'[AppendSeq].state = "open" /\ DigestsKept
    BY <1>1, <2>1, GrownSegment, InsertKeeps DEF AppendBatch, TypeOK
  <2>3. /\ aside[AppendSeq] = NoFile /\ aside[AppendSeq].car = "none"
        /\ AppendSeq \notin sealed \cup shipped
    BY <2>1 DEF Growable, Fresh, NoFile
  <2>4. /\ open' = AppendSeq /\ rebuild.cur = NoSeq
        /\ UNCHANGED <<forgeVars, aside, recVars, sealed, recorded, shipped, flusher, deleter>>
    BY <1>1 DEF AppendBatch, RecoveryInv, NoBuild
  <2>5. RowsMatch'
    BY <2>1, <2>2, <2>3, <2>4, <1>a DEF RowsMatch, Typed, Grows
  <2>6. RowsKnown'
    BY <2>1, <2>2, <2>3, <2>4, <1>a DEF RowsKnown, Typed, Grows
  <2>7. SpaceInv'
    BY <2>2, <2>4, KeptList
  <2>8. CarsRecorded'
    BY <2>2, <2>4, KeptCars
  <2>9. QED
    BY <2>5, <2>6, <2>7, <2>8
<1>2. CASE CommitRoot
  <2>1. RowsMatch'
    BY <1>2 DEF RowsMatch, CommitRoot, NoWrite
  <2>2. RowsKnown'
    BY <1>2 DEF RowsKnown, CommitRoot, NoWrite
  <2>3. SpaceInv'
    BY <1>2 DEF SpaceInv, CommitRoot, NoWrite
  <2>4. CarsRecorded'
    BY <1>2 DEF CarsRecorded, CommitRoot, NoWrite
  <2>5. QED
    BY <2>1, <2>2, <2>3, <2>4
<1>3. CASE CommitFails
  <2>1. RowsMatch'
    BY <1>3 DEF RowsMatch, CommitFails, NoWrite
  <2>2. RowsKnown'
    BY <1>3 DEF RowsKnown, CommitFails, NoWrite
  <2>3. SpaceInv'
    BY <1>3 DEF SpaceInv, CommitFails, NoWrite
  <2>4. CarsRecorded'
    BY <1>3 DEF CarsRecorded, CommitFails, NoWrite
  <2>5. QED
    BY <2>1, <2>2, <2>3, <2>4
<1>4. QED
  BY <1>1, <1>2, <1>3 DEF Write

\* The seal of the open segment keeps what the release of CARs rests on.
LEMMA CarsSeal ==
    ASSUME IInv, CInv, NEW how \in SealOutcomes, SealOpen(how)
    PROVE  CInv'
<1> USE DEF IInv, CInv, pgVars, forgeVars, diskVars, recVars, memVars, opVars
<1>a. Typed /\ Typed' /\ \A s \in Seqs : rows[s].state \in {"none", "open", "sealed"}
  BY TypeSeal, TypedState, TypedNext, StateTyped
<1>1. CInv'
  <2>1. /\ open \in Seqs /\ file[open].car = "ok" /\ aside[open].car = "none"
        /\ rows[open].state = "open" /\ open \notin sealed \cup shipped /\ open \notin recorded
        /\ rebuild.cur = NoSeq
    <3>1. open \in Seqs /\ Fresh(open) /\ rows[open].state = "open" /\ log = "running"
      BY <1>a DEF SealOpen, SegmentInv, RowsKnown, Typed
    <3>2. QED
      BY <3>1 DEF Fresh, RowsMatch, RowsKnown, RecoveryInv, NoBuild
  <2>2. FilesIndexed({open})
    BY <2>1, IndexedFiles DEF SealOpen, SealFile, TypeOK
  <2>3. /\ DigestsKept
        /\ \/ rows' = rows /\ recorded' = recorded
           \/ SealsAs(open, file[open].blocks) /\ recorded' = recorded \cup {open}
    BY <2>1, SealsRow, SealsKeep DEF SealOpen, SealRow, TypeOK, DigestsKept
  <2>4. /\ sealed' = sealed \cup {open} /\ open' = NoSeq
        /\ UNCHANGED <<forgeVars, aside, recVars, shipped, flusher, opVars>>
    BY DEF SealOpen
  <2>5. RowsMatch'
    BY <2>1, <2>2, <2>3, <2>4, <1>a DEF RowsMatch, Typed, FilesIndexed, SealsAs
  <2>6. RowsKnown'
    <3>1. CASE rows' = rows /\ recorded' = recorded
      BY <1>a, <2>1, <2>4, <3>1 DEF RowsKnown, Typed
    <3>2. CASE SealsAs(open, file[open].blocks) /\ recorded' = recorded \cup {open}
      <4>1. rows'[open].state = "sealed" /\ \A t \in Seqs : t # open => rows'[t] = rows[t]
        BY <2>1, <3>2 DEF SealsAs
      <4>2. QED
        BY <1>a, <2>1, <2>4, <3>2, <4>1 DEF RowsKnown, Typed
    <3>3. QED
      BY <2>3, <3>1, <3>2
  <2>7. SpaceInv'
    BY <2>3, <2>4, KeptList
  <2>8. CarsRecorded'
    BY <2>3, <2>4, KeptCars
  <2>9. QED
    BY <2>5, <2>6, <2>7, <2>8
<1>2. QED
  BY <1>1

\* A step of the flush goroutine keeps what the release of CARs rests on.
LEMMA CarsShip ==
    ASSUME IInv, CInv, "damage" \notin DiskFaults, Ship
    PROVE  CInv'
<1> USE DEF IInv, CInv, pgVars, forgeVars, diskVars, recVars, memVars, opVars
<1>a. Typed /\ Typed' /\ \A s \in Seqs : rows[s].state \in {"none", "open", "sealed"}
  BY TypeShip, TypedState, TypedNext, StateTyped
<1>1. ASSUME NEW s \in Seqs, TakeQueued(s) PROVE CInv'
  <2>1. RowsMatch'
    BY <1>1 DEF RowsMatch, TakeQueued, StartFlush, Idle, Working
  <2>2. RowsKnown'
    BY <1>1 DEF RowsKnown, TakeQueued, StartFlush, Idle, Working
  <2>3. SpaceInv'
    BY <1>1 DEF SpaceInv, TakeQueued, StartFlush, Idle, Working
  <2>4. CarsRecorded'
    BY <1>1 DEF CarsRecorded, TakeQueued, StartFlush, Idle, Working
  <2>5. QED
    BY <2>1, <2>2, <2>3, <2>4
<1>2. ASSUME NEW s \in Seqs, SweepNext(s) PROVE CInv'
  <2>1. RowsMatch'
    BY <1>2 DEF RowsMatch, SweepNext, StartFlush, Idle
  <2>2. RowsKnown'
    BY <1>2 DEF RowsKnown, SweepNext, StartFlush, Idle
  <2>3. SpaceInv'
    BY <1>2 DEF SpaceInv, SweepNext, StartFlush, Idle
  <2>4. CarsRecorded'
    BY <1>2 DEF CarsRecorded, SweepNext, StartFlush, Idle
  <2>5. QED
    BY <2>1, <2>2, <2>3, <2>4
<1>3. CASE StartSweep
  <2>1. RowsMatch'
    BY <1>3 DEF RowsMatch, StartSweep
  <2>2. RowsKnown'
    BY <1>3 DEF RowsKnown, StartSweep
  <2>3. SpaceInv'
    BY <1>3 DEF SpaceInv, StartSweep
  <2>4. CarsRecorded'
    BY <1>3 DEF CarsRecorded, StartSweep
  <2>5. QED
    BY <2>1, <2>2, <2>3, <2>4
<1>4. CASE SweepClosed
  <2>1. RowsMatch'
    BY <1>4 DEF RowsMatch, SweepClosed
  <2>2. RowsKnown'
    BY <1>4 DEF RowsKnown, SweepClosed
  <2>3. SpaceInv'
    BY <1>4 DEF SpaceInv, SweepClosed
  <2>4. CarsRecorded'
    BY <1>4 DEF CarsRecorded, SweepClosed
  <2>5. QED
    BY <2>1, <2>2, <2>3, <2>4
<1>5. CASE FlushSeal
  <2>1. /\ flusher.seq \in Seqs /\ flusher.seq \in sealed /\ file[flusher.seq].car = "ok"
        /\ aside[flusher.seq].car = "none" /\ rows[flusher.seq].state # "none"
        /\ rebuild.cur = NoSeq /\ open # flusher.seq
    <3>1. /\ flusher.seq \in Seqs /\ flusher.seq \in sealed /\ log \in {"running", "closing"}
      BY <1>5 DEF FlushSeal, At, Working, FlusherInv, TypeOK
    <3>2. /\ file[flusher.seq].car = "ok" /\ aside[flusher.seq].car = "none"
          /\ rows[flusher.seq].state # "none"
      BY <3>1 DEF SegmentInv, RowsMatch, RowsKnown
    <3>3. rebuild.cur = NoSeq
      BY <3>1 DEF RecoveryInv, NoBuild
    <3>4. open # flusher.seq
      BY <1>a, <3>1 DEF SegmentInv, Fresh, Typed
    <3>5. QED
      BY <3>1, <3>2, <3>3, <3>4
  <2>2. FilesIndexed({flusher.seq})
    BY <1>5, <2>1, IndexedFiles DEF FlushSeal, SealFile, TypeOK
  <2>3. /\ DigestsKept
        /\ \/ rows' = rows /\ recorded' = recorded /\ flusher.seq \in recorded
           \/ /\ SealsAs(flusher.seq, file[flusher.seq].blocks)
              /\ recorded' = recorded \cup {flusher.seq}
    BY <1>5, <2>1, SealsRow, SealsKeep DEF FlushSeal, SealRow, TypeOK, DigestsKept
  <2>4. /\ flusher'.seq = flusher.seq /\ flusher'.phase = "submit"
        /\ UNCHANGED <<forgeVars, aside, recVars, open, sealed, shipped, opVars>>
    BY <1>5 DEF FlushSeal, At, Goto, TypeOK
  <2>5. RowsMatch'
    BY <2>1, <2>2, <2>3, <2>4, <1>a DEF RowsMatch, Typed, FilesIndexed, SealsAs
  <2>6. RowsKnown'
    <3>1. CASE rows' = rows /\ recorded' = recorded /\ flusher.seq \in recorded
      BY <1>a, <2>1, <2>4, <3>1 DEF RowsKnown, Typed
    <3>2. CASE /\ SealsAs(flusher.seq, file[flusher.seq].blocks)
               /\ recorded' = recorded \cup {flusher.seq}
      <4>1. /\ rows'[flusher.seq].state = "sealed"
            /\ \A t \in Seqs : t # flusher.seq => rows'[t] = rows[t]
        BY <1>a, <2>1, <3>2 DEF SealsAs
      <4>2. \A t \in sealed \cup opens : rows'[t].state # "none"
        BY <1>a, <4>1 DEF RowsKnown, Typed
      <4>3. \A t \in sealed \cap recorded' : rows'[t].state = "sealed"
        BY <1>a, <3>2, <4>1 DEF RowsKnown, Typed
      <4>4. open # NoSeq => rows'[open].state = "open"
        BY <1>a, <2>1, <4>1 DEF RowsKnown, Typed
      <4>5. QED
        BY <2>1, <2>4, <3>2, <4>2, <4>3, <4>4 DEF RowsKnown
    <3>3. QED
      BY <2>3, <3>1, <3>2
  <2>7. SpaceInv'
    BY <2>3, <2>4, KeptList
  <2>8. CarsRecorded'
    BY <2>3, <2>4, KeptCars
  <2>9. QED
    BY <2>5, <2>6, <2>7, <2>8
<1>6. CASE FlushTrivial
  <2>1. RowsMatch'
    BY <1>6 DEF RowsMatch, FlushTrivial, At, Goto, Working
  <2>2. RowsKnown'
    BY <1>6 DEF RowsKnown, FlushTrivial, At, Goto, Working
  <2>3. SpaceInv'
    BY <1>6 DEF SpaceInv, FlushTrivial, At, Goto, Working
  <2>4. CarsRecorded'
    BY <1>6 DEF CarsRecorded, FlushTrivial, At, Goto, Working
  <2>5. QED
    BY <2>1, <2>2, <2>3, <2>4
<1>7. ASSUME NEW indexed \in BOOLEAN, FlushSubmit(indexed) PROVE CInv'
  <2>1. /\ log \in {"running", "closing"} /\ flusher.seq \in Seqs /\ flusher.seq \in sealed
        /\ rows[flusher.seq].state = "sealed" /\ rows[flusher.seq].sha = Shard /\ space = "live"
    BY <1>7 DEF FlushSubmit, At, Working, FlusherInv, SegmentInv, RowsMatch, RowsKnown, Shard,
       TypeOK
  <2>2. deleter.pc \notin {"listed", "spaceless", "cleanup"}
    BY <2>1 DEF DeleterInv
  <2>3. forge' = forge \cup {Shard} /\ UNCHANGED <<rows, deleter, space>>
    BY <1>7 DEF FlushSubmit
  <2>4. RowsMatch'
    BY <1>7, <2>1, <2>2, <2>3 DEF RowsMatch, FlushSubmit, At, Goto, Working
  <2>5. RowsKnown'
    BY <1>7, <2>1, <2>2, <2>3 DEF RowsKnown, FlushSubmit, At, Goto, Working
  <2>6. SpaceInv'
    BY <2>1, <2>2, <2>3 DEF SpaceInv
  <2>7. CarsRecorded'
    BY <2>1, <2>3 DEF CarsRecorded
  <2>8. QED
    BY <2>4, <2>5, <2>6, <2>7
<1>8. CASE FlushLocate
  <2>1. RowsMatch'
    BY <1>8 DEF RowsMatch, FlushLocate, At, Goto, Working
  <2>2. RowsKnown'
    BY <1>8 DEF RowsKnown, FlushLocate, At, Goto, Working
  <2>3. SpaceInv'
    BY <1>8 DEF SpaceInv, FlushLocate, At, Goto, Working
  <2>4. CarsRecorded'
    BY <1>8 DEF CarsRecorded, FlushLocate, At, Goto, Working
  <2>5. QED
    BY <2>1, <2>2, <2>3, <2>4
<1>9. CASE FlushInclude
  <2>1. RowsMatch'
    BY <1>9 DEF RowsMatch, FlushInclude, At, Goto, Working
  <2>2. RowsKnown'
    BY <1>9 DEF RowsKnown, FlushInclude, At, Goto, Working
  <2>3. SpaceInv'
    BY <1>9 DEF SpaceInv, FlushInclude, At, Goto, Working
  <2>4. CarsRecorded'
    BY <1>9 DEF CarsRecorded, FlushInclude, At, Goto, Working
  <2>5. QED
    BY <2>1, <2>2, <2>3, <2>4
<1>10. CASE FlushStamp
  <2>1. flusher.seq \in Seqs
    BY <1>10 DEF FlushStamp, At, TypeOK
  <2>2. \A t \in Seqs : rows'[t].state = rows[t].state /\ rows'[t].sha = rows[t].sha
    <3>1. PICK indexed \in BOOLEAN : rows' = MarkSegmentShipped(rows, flusher.seq, indexed)
      BY <1>10, Zenon DEF FlushStamp
    <3>2. QED
      BY <2>1, <3>1, ShippedRows DEF TypeOK
  <2>3. DigestsKept
    BY <2>2 DEF DigestsKept
  <2>4. /\ flusher'.phase = "retain" /\ shipped \subseteq shipped'
        /\ UNCHANGED <<forgeVars, diskVars, recVars, open, sealed, recorded, opVars>>
    BY <1>10 DEF FlushStamp, Goto, TypeOK
  <2>5. RowsMatch'
    BY <2>1, <2>2, <2>3, <2>4, <1>a DEF RowsMatch, Typed
  <2>6. RowsKnown'
    BY ZenonT(60), <2>1, <2>2, <2>3, <2>4, <1>a DEF RowsKnown, Typed
  <2>7. SpaceInv'
    BY <2>3, <2>4, KeptList
  <2>8. CarsRecorded'
    BY <2>3, <2>4, KeptCars
  <2>9. QED
    BY <2>5, <2>6, <2>7, <2>8
<1>11. CASE FlushRetry
  <2>1. RowsMatch'
    BY <1>11 DEF RowsMatch, FlushRetry, At, Goto, Working
  <2>2. RowsKnown'
    BY <1>11 DEF RowsKnown, FlushRetry, At, Goto, Working
  <2>3. SpaceInv'
    BY <1>11 DEF SpaceInv, FlushRetry, At, Goto, Working
  <2>4. CarsRecorded'
    BY <1>11 DEF CarsRecorded, FlushRetry, At, Goto, Working
  <2>5. QED
    BY <2>1, <2>2, <2>3, <2>4
<1>12. CASE FlushGivesUp
  <2>1. RowsMatch'
    BY <1>12 DEF RowsMatch, FlushGivesUp, At, Idle, Working
  <2>2. RowsKnown'
    BY <1>12 DEF RowsKnown, FlushGivesUp, At, Idle, Working
  <2>3. SpaceInv'
    BY <1>12 DEF SpaceInv, FlushGivesUp, At, Idle, Working
  <2>4. CarsRecorded'
    BY <1>12 DEF CarsRecorded, FlushGivesUp, At, Idle, Working
  <2>5. QED
    BY <2>1, <2>2, <2>3, <2>4
<1>13. ASSUME NEW gone \in SUBSET Seqs, RetireFiles(gone) PROVE CInv'
  <2>1. FilesGone(gone) /\ gone \subseteq shipped
    BY <1>13 DEF RetireFiles, FilesGone, ToRetire
  <2>2. /\ sealed' = sealed \ gone /\ flusher'.phase = "retired"
        /\ UNCHANGED <<rows, forgeVars, aside, recVars, open, recorded, shipped, opVars>>
    BY <1>13 DEF RetireFiles, TypeOK
  <2>3. RowsMatch'
    BY <2>1, <2>2, <1>a DEF RowsMatch, Typed, FilesGone, NoFile
  <2>4. RowsKnown'
    BY <2>1, <2>2, <1>a DEF RowsKnown, Typed
  <2>5. SpaceInv'
    BY <2>1, <2>2, <1>a DEF SpaceInv, Typed
  <2>6. CarsRecorded'
    BY <2>1, <2>2, <1>a DEF CarsRecorded, Typed
  <2>7. QED
    BY <2>3, <2>4, <2>5, <2>6
<1>14. ASSUME NEW gone \in SUBSET Seqs, RetireRows(gone) PROVE CInv'
  <2>1. \A t \in Seqs : rows'[t].state = rows[t].state /\ rows'[t].sha = rows[t].sha
    BY <1>14, RetiredRows DEF RetireRows, TypeOK
  <2>2. DigestsKept
    BY <2>1 DEF DigestsKept
  <2>3. /\ flusher'.phase = "idle"
        /\ UNCHANGED <<forgeVars, diskVars, recVars, open, sealed, recorded, shipped, opVars>>
    BY <1>14 DEF RetireRows, Idle
  <2>4. RowsMatch'
    BY <2>1, <2>3 DEF RowsMatch
  <2>5. RowsKnown'
    BY ZenonT(60), <2>1, <2>2, <2>3, <1>a DEF RowsKnown, Typed
  <2>6. SpaceInv'
    BY <2>2, <2>3, KeptList
  <2>7. CarsRecorded'
    BY <2>2, <2>3, KeptCars
  <2>8. QED
    BY <2>4, <2>5, <2>6, <2>7
<1>15. QED
  BY <1>1, <1>2, <1>3, <1>4, <1>5, <1>6, <1>7, <1>8, <1>9, <1>10, <1>11, <1>12, <1>13,
     <1>14 DEF Ship

\* A step of recovery keeps what the release of CARs rests on.
LEMMA CarsRecover ==
    ASSUME IInv, CInv, "damage" \notin DiskFaults, Recover
    PROVE  CInv'
<1> USE DEF IInv, CInv, pgVars, forgeVars, diskVars, recVars, memVars, opVars
<1>a. Typed /\ Typed' /\ \A s \in Seqs : rows[s].state \in {"none", "open", "sealed"}
  BY TypeRecover, TypedState, TypedNext, StateTyped
<1>1. CASE OpenLog
  <2>1. RowsMatch'
    BY <1>1 DEF RowsMatch, OpenLog, BucketLockFree
  <2>2. RowsKnown'
    BY <1>1 DEF RowsKnown, OpenLog, BucketLockFree
  <2>3. SpaceInv'
    BY <1>1 DEF SpaceInv, OpenLog, BucketLockFree
  <2>4. CarsRecorded'
    BY <1>1 DEF CarsRecorded, OpenLog, BucketLockFree
  <2>5. QED
    BY <2>1, <2>2, <2>3, <2>4
<1>2. CASE ScanDone
  <2>1. RowsMatch'
    BY <1>2 DEF RowsMatch, ScanDone
  <2>2. RowsKnown'
    BY <1>2 DEF RowsKnown, ScanDone
  <2>3. SpaceInv'
    BY <1>2 DEF SpaceInv, ScanDone
  <2>4. CarsRecorded'
    BY <1>2 DEF CarsRecorded, ScanDone
  <2>5. QED
    BY <2>1, <2>2, <2>3, <2>4
<1>3. CASE SealDone
  <2>1. RowsMatch'
    BY <1>3 DEF RowsMatch, SealDone
  <2>2. RowsKnown'
    BY <1>3 DEF RowsKnown, SealDone
  <2>3. SpaceInv'
    BY <1>3 DEF SpaceInv, SealDone
  <2>4. CarsRecorded'
    BY <1>3 DEF CarsRecorded, SealDone
  <2>5. QED
    BY <2>1, <2>2, <2>3, <2>4
<1>4. ASSUME NEW s \in Seqs, RecoverRetired(s) PROVE CInv'
  <2>1. FilesGone({s}) /\ UNCHANGED <<rows, aside>>
    BY <1>4 DEF RecoverRetired, FilesGone, TypeOK
  <2>2. RowsMatch'
    BY <2>1 DEF RowsMatch, FilesGone, NoFile
  <2>3. RowsKnown'
    BY <1>4, <2>1 DEF RowsKnown, RecoverRetired, Reconcile, RetiredShipped
  <2>4. SpaceInv'
    BY <1>4, <2>1 DEF SpaceInv, RecoverRetired, Reconcile, RetiredShipped
  <2>5. CarsRecorded'
    BY <1>4, <2>1 DEF CarsRecorded, RecoverRetired, Reconcile, RetiredShipped
  <2>6. QED
    BY <2>2, <2>3, <2>4, <2>5
<1>5. ASSUME NEW s \in Seqs, RecoverSealedRow(s) PROVE CInv'
  <2>1. RowsMatch'
    BY <1>5 DEF RowsMatch, RecoverSealedRow, Reconcile, LoadSealed
  <2>2. RowsKnown'
    BY <1>5 DEF RowsKnown, RecoverSealedRow, Reconcile, LoadSealed
  <2>3. SpaceInv'
    BY <1>5 DEF SpaceInv, RecoverSealedRow, Reconcile, LoadSealed
  <2>4. CarsRecorded'
    BY <1>5 DEF CarsRecorded, RecoverSealedRow, Reconcile, LoadSealed
  <2>5. QED
    BY <2>1, <2>2, <2>3, <2>4
<1>6. ASSUME NEW s \in Seqs, RecoverSetAside(s) PROVE CInv'
  <2>1. FilesGone({s}) /\ UNCHANGED <<rows, aside>>
    BY <1>6 DEF RecoverSetAside, FilesGone, TypeOK
  <2>2. RowsMatch'
    BY <2>1 DEF RowsMatch, FilesGone, NoFile
  <2>3. RowsKnown'
    BY <1>6, <2>1 DEF RowsKnown, RecoverSetAside, Reconcile
  <2>4. SpaceInv'
    BY <1>6, <2>1 DEF SpaceInv, RecoverSetAside, Reconcile
  <2>5. CarsRecorded'
    BY <1>6, <2>1 DEF CarsRecorded, RecoverSetAside, Reconcile
  <2>6. QED
    BY <2>2, <2>3, <2>4, <2>5
<1>7. ASSUME NEW s \in Seqs, RecoverFromIdx(s) PROVE CInv'
  <2>1. /\ s \in todo /\ file[s].car = "ok" /\ aside[s].car = "none" /\ s \notin sealed
        /\ open = NoSeq
        /\ rebuild.cur = NoSeq
    BY <1>7, <1>a DEF RecoverFromIdx, Reconcile, RecoveryInv, OnDisk, RowsMatch, NoBuild, Typed
  <2>2. /\ \A t \in Seqs : t # s => rows'[t] = rows[t]
        /\ rows'[s].state = "sealed" /\ rows'[s].sha = file[s].blocks
    <3>1. CASE HasRow(s)
      <4>1. SealsAs(s, file[s].blocks) /\ rows[s].state # "none"
        BY <1>7, <3>1, SealsRow DEF RecoverFromIdx, TypeOK, HasRow
      <4>2. rows[s].state = "open"
        BY <1>7, <3>1, <4>1 DEF RecoverFromIdx, TypeOK, Row
      <4>3. QED
        BY <4>1, <4>2 DEF SealsAs
    <3>2. CASE ~HasRow(s)
      <4>1. /\ rows'[s] = [NoRow EXCEPT !.state = "sealed", !.sha = file[s].blocks]
            /\ \A t \in Seqs : t # s => rows'[t] = rows[t]
        BY <1>7, <3>2 DEF RecoverFromIdx, RehydrateSegment, TypeOK
      <4>2. QED
        BY <4>1 DEF NoRow
    <3>3. QED
      BY <3>1, <3>2
  <2>3. DigestsKept
    BY <2>1, <2>2 DEF DigestsKept, RowsMatch
  <2>4. /\ sealed' = sealed \cup {s} /\ shipped' = shipped /\ recorded' = recorded \cup {s}
        /\ UNCHANGED <<forgeVars, diskVars, opens, rebuild, open, flusher, opVars>>
    BY <1>7 DEF RecoverFromIdx, LoadSealed
  <2>5. RowsMatch'
    BY <2>1, <2>2, <2>3, <2>4, <1>a DEF RowsMatch, Typed
  <2>6. RowsKnown'
    <3>1. \A t \in (sealed \cup opens)' : rows'[t].state # "none"
      BY <1>a, <2>2, <2>4 DEF RowsKnown, Typed
    <3>2. \A t \in (sealed \cap recorded)' : rows'[t].state = "sealed"
      BY ZenonT(60), <1>a, <2>1, <2>2, <2>4 DEF RowsKnown, Typed
    <3>3. QED
      BY <2>1, <2>4, <3>1, <3>2 DEF RowsKnown
  <2>7. SpaceInv'
    BY <2>3, <2>4, KeptList
  <2>8. CarsRecorded'
    BY <2>3, <2>4, KeptCars
  <2>9. QED
    BY <2>5, <2>6, <2>7, <2>8
<1>8. ASSUME NEW s \in Seqs, NEW kept \in SUBSET file[s].blocks, RecoverOpen(s, kept) PROVE CInv'
  <2>1. /\ s \in todo /\ file[s].car = "ok" /\ kept = file[s].blocks /\ s \notin sealed
        /\ open = NoSeq
        /\ rebuild.cur = NoSeq
    BY <1>8, <1>a DEF RecoverOpen, Reconcile, RecoveryInv, OnDisk, RowsMatch, NoBuild, Typed
  <2>2. /\ DigestsKept /\ \A t \in Seqs : t # s => rows'[t] = rows[t]
        /\ rows[s].state = "none" => rows'[s].state = "open"
        /\ rows[s].state # "none" => rows'[s] = rows[s]
    BY <1>8, InsertKeeps DEF RecoverOpen, TypeOK
  <2>3. \A t \in Seqs : file'[t].car = file[t].car /\ file'[t].blocks = file[t].blocks
    BY <1>8, <2>1 DEF RecoverOpen, TypeOK, File
  <2>4. /\ opens' = opens \cup {s}
        /\ UNCHANGED <<forgeVars, aside, rebuild, memVars, opVars>>
    BY <1>8 DEF RecoverOpen
  <2>5. RowsMatch'
    BY <2>1, <2>2, <2>3, <2>4, <1>a DEF RowsMatch, Typed
  <2>6. RowsKnown'
    BY <2>1, <2>2, <2>3, <2>4, <1>a DEF RowsKnown, Typed
  <2>7. SpaceInv'
    BY <2>2, <2>4, KeptList
  <2>8. CarsRecorded'
    BY <2>2, <2>4, KeptCars
  <2>9. QED
    BY <2>5, <2>6, <2>7, <2>8
<1>9. ASSUME NEW s \in Seqs, RecoverRefuses(s) PROVE CInv'
  <2>1. RowsMatch'
    BY <1>9 DEF RowsMatch, RecoverRefuses
  <2>2. RowsKnown'
    BY <1>9 DEF RowsKnown, RecoverRefuses, RecoveryInv, FlusherInv, NoBuild
  <2>3. SpaceInv'
    BY <1>9 DEF SpaceInv, RecoverRefuses
  <2>4. CarsRecorded'
    BY <1>9 DEF CarsRecorded, RecoverRefuses
  <2>5. QED
    BY <2>1, <2>2, <2>3, <2>4
<1>10. ASSUME NEW s \in Seqs, ForceSeal(s) PROVE CInv'
  <2>1. /\ s \in Seqs /\ file[s].car = "ok" /\ aside[s].car = "none" /\ rows[s].state # "none"
        /\ s \notin sealed
    BY <1>10, <1>a DEF ForceSeal, RowsMatch, RowsKnown, RecoveryInv, Fresh, Typed
  <2>2. FilesIndexed({s})
    BY <1>10, <2>1, IndexedFiles DEF ForceSeal, TypeOK
  <2>3. SealsAs(s, file[s].blocks) /\ DigestsKept
    BY <1>10, <2>1, SealsRow, SealsKeep DEF ForceSeal, TypeOK
  <2>4. /\ opens' = opens \ {s} /\ sealed' = sealed \cup {s} /\ shipped' = shipped
        /\ recorded' = recorded \cup {s} /\ rebuild.cur = NoSeq /\ open = NoSeq
        /\ UNCHANGED <<forgeVars, aside, todo, rebuild, open, flusher, opVars>>
    BY <1>10 DEF ForceSeal, LoadSealed, RecoveryInv, NoBuild
  <2>5. RowsMatch'
    <3>1. \A t \in Seqs : t # s => rows'[t] = rows[t]
      BY <2>3 DEF SealsAs
    <3>2. rows'[s].sha = file[s].blocks
      BY <1>a, <2>1, <2>3 DEF SealsAs, RowsMatch
    <3>3. QED
      BY <2>1, <2>2, <2>4, <3>1, <3>2 DEF RowsMatch, FilesIndexed
  <2>6. RowsKnown'
    <3>1. rows'[s].state = "sealed" /\ \A t \in Seqs : t # s => rows'[t] = rows[t]
      BY <1>a, <2>1, <2>3 DEF SealsAs
    <3>2. \A t \in (sealed \cup opens)' : rows'[t].state # "none"
      BY <1>a, <2>4, <3>1 DEF RowsKnown, Typed
    <3>3. \A t \in (sealed \cap recorded)' : rows'[t].state = "sealed"
      BY <1>a, <2>1, <2>4, <3>1 DEF RowsKnown, Typed
    <3>4. QED
      BY <2>4, <3>2, <3>3 DEF RowsKnown
  <2>7. SpaceInv'
    BY <2>3, <2>4, KeptList
  <2>8. CarsRecorded'
    BY <2>3, <2>4, KeptCars
  <2>9. QED
    BY <2>5, <2>6, <2>7, <2>8
<1>11. ASSUME NEW s \in Seqs, PruneRow(s) PROVE CInv'
  <2>1. /\ rows[s].state # "none" /\ file[s].car = "none" /\ open = NoSeq /\ rebuild.cur = NoSeq
        /\ s \notin sealed \cup opens
    BY <1>11 DEF PruneRow, Fileless, HasRow, RecoveryInv, SegmentInv, NoBuild
  <2>2. /\ \A t \in Seqs : t # s => rows'[t] = rows[t]
        /\ rows[s].state = "sealed" => rows'[s].state = "sealed" /\ rows'[s].sha = rows[s].sha
        /\ rows[s].state # "sealed" => rows'[s].state = "none"
    <3>1. CASE rows[s].state = "sealed"
      BY <1>11, <3>1, RetiredRows DEF PruneRow, TypeOK
    <3>2. CASE rows[s].state # "sealed"
      BY <1>11, <3>2 DEF PruneRow, DeleteSegment, NoRow, TypeOK
    <3>3. QED
      BY <3>1, <3>2
  <2>3. DigestsKept
    BY <2>2 DEF DigestsKept
  <2>4. UNCHANGED <<forgeVars, diskVars, recVars, memVars, opVars>>
    BY <1>11 DEF PruneRow
  <2>5. RowsMatch'
    <3>1. \A t \in Seqs : rows'[t].state = "sealed" =>
             rows[t].state = "sealed" /\ rows'[t].sha = rows[t].sha
      BY <2>2
    <3>2. QED
      BY <2>4, <3>1 DEF RowsMatch
  <2>6. RowsKnown'
    BY <2>1, <2>2, <2>3, <2>4, <1>a DEF RowsKnown, Typed
  <2>7. SpaceInv'
    BY <2>3, <2>4, KeptList
  <2>8. CarsRecorded'
    BY <2>3, <2>4, KeptCars
  <2>9. QED
    BY <2>5, <2>6, <2>7, <2>8
<1>12. ASSUME NEW s \in Seqs, NEW bs \in SUBSET Journaled(s), RebuildAppend(s, bs) PROVE CInv'
  <2>1. Growable(RebuildSeq) /\ rows[RebuildSeq].state \in {"none", "open"} /\ RebuildSeq \in Seqs
    <3>1. CASE rebuild.cur # NoSeq
      <4>1. /\ RebuildSeq = rebuild.cur /\ rebuild.cur \in Seqs /\ Fresh(rebuild.cur)
            /\ rows[rebuild.cur].state = "open"
        BY <1>a, <3>1 DEF RebuildSeq, RowsKnown, RecoveryInv, Typed
      <4>2. QED
        BY <4>1, FreshGrows
    <3>2. CASE rebuild.cur = NoSeq
      <4>1. RebuildSeq = seqNext /\ seqNext \in Seqs
        BY <1>12, <3>2 DEF RebuildAppend, RebuildSeq
      <4>2. rows[seqNext].state = "none"
        BY <1>a, <4>1 DEF SegmentInv, NoRow, Typed
      <4>3. QED
        BY <1>a, <4>1, <4>2, NextGrows
    <3>3. QED
      BY <3>1, <3>2
  <2>2. Grows(RebuildSeq, bs) /\ rows'[RebuildSeq].state = "open" /\ DigestsKept
    BY <1>12, <2>1, GrownSegment, InsertKeeps DEF RebuildAppend, TypeOK
  <2>3. /\ aside[RebuildSeq] = NoFile /\ aside[RebuildSeq].car = "none"
        /\ RebuildSeq \notin sealed \cup shipped
    BY <2>1 DEF Growable, Fresh, NoFile
  <2>4. /\ rebuild'.cur = RebuildSeq /\ open = NoSeq
        /\ UNCHANGED <<forgeVars, aside, todo, opens, memVars, opVars>>
    BY <1>12 DEF RebuildAppend, RecoveryInv
  <2>5. RowsMatch'
    BY <2>1, <2>2, <2>3, <2>4, <1>a DEF RowsMatch, Typed, Grows
  <2>6. RowsKnown'
    BY <2>1, <2>2, <2>3, <2>4, <1>a DEF RowsKnown, Typed, Grows
  <2>7. SpaceInv'
    BY <2>2, <2>4, KeptList
  <2>8. CarsRecorded'
    BY <2>2, <2>4, KeptCars
  <2>9. QED
    BY <2>5, <2>6, <2>7, <2>8
<1>13. CASE RebuildMove
  <2>1. RowsMatch'
    BY <1>13 DEF RowsMatch, RebuildMove
  <2>2. RowsKnown'
    BY <1>13 DEF RowsKnown, RebuildMove
  <2>3. SpaceInv'
    BY <1>13 DEF SpaceInv, RebuildMove
  <2>4. CarsRecorded'
    BY <1>13 DEF CarsRecorded, RebuildMove
  <2>5. QED
    BY <2>1, <2>2, <2>3, <2>4
<1>14. CASE RebuildSeal
  <2>1. /\ rebuild.cur \in Seqs /\ file[rebuild.cur].car = "ok"
        /\ aside[rebuild.cur].car = "none" /\ rows[rebuild.cur].state # "none"
        /\ rebuild.cur \notin sealed
    BY <1>14, <1>a DEF RebuildSeal, RowsMatch, RowsKnown, RecoveryInv, Fresh, Typed
  <2>2. FilesIndexed({rebuild.cur})
    BY <1>14, <2>1, IndexedFiles DEF RebuildSeal, TypeOK
  <2>3. SealsAs(rebuild.cur, file[rebuild.cur].blocks) /\ DigestsKept
    BY <1>14, <2>1, SealsRow, SealsKeep DEF RebuildSeal, TypeOK
  <2>4. /\ sealed' = sealed \cup {rebuild.cur} /\ shipped' = shipped
        /\ recorded' = recorded \cup {rebuild.cur} /\ rebuild'.cur = NoSeq /\ open = NoSeq
        /\ UNCHANGED <<forgeVars, aside, todo, opens, open, flusher, opVars>>
    BY <1>14 DEF RebuildSeal, LoadSealed, RecoveryInv, NoBuild
  <2>5. RowsMatch'
    <3>1. \A t \in Seqs : t # rebuild.cur => rows'[t] = rows[t]
      BY <2>3 DEF SealsAs
    <3>2. rows'[rebuild.cur].sha = file[rebuild.cur].blocks
      BY <1>a, <2>1, <2>3 DEF SealsAs, RowsMatch
    <3>3. QED
      BY <2>1, <2>2, <2>4, <3>1, <3>2 DEF RowsMatch, FilesIndexed
  <2>6. RowsKnown'
    <3>1. rows'[rebuild.cur].state = "sealed" /\ \A t \in Seqs : t # rebuild.cur => rows'[t] = rows[t]
      BY <1>a, <2>1, <2>3 DEF SealsAs
    <3>2. \A t \in (sealed \cup opens)' : rows'[t].state # "none"
      BY <1>a, <2>4, <3>1 DEF RowsKnown, Typed
    <3>3. \A t \in (sealed \cap recorded)' : rows'[t].state = "sealed"
      BY <1>a, <2>1, <2>4, <3>1 DEF RowsKnown, Typed
    <3>4. QED
      BY <2>4, <3>2, <3>3 DEF RowsKnown
  <2>7. SpaceInv'
    BY <2>3, <2>4, KeptList
  <2>8. CarsRecorded'
    BY <2>3, <2>4, KeptCars
  <2>9. QED
    BY <2>5, <2>6, <2>7, <2>8
<1>15. CASE RebuildDone
  <2>1. RowsMatch'
    BY <1>15 DEF RowsMatch, RebuildDone
  <2>2. RowsKnown'
    BY <1>15 DEF RowsKnown, RebuildDone
  <2>3. SpaceInv'
    BY <1>15 DEF SpaceInv, RebuildDone
  <2>4. CarsRecorded'
    BY <1>15 DEF CarsRecorded, RebuildDone
  <2>5. QED
    BY <2>1, <2>2, <2>3, <2>4
<1>16. CASE RecoverDone
  <2>1. RowsMatch'
    BY <1>16 DEF RowsMatch, RecoverDone
  <2>2. RowsKnown'
    BY <1>16 DEF RowsKnown, RecoverDone
  <2>3. SpaceInv'
    BY <1>16 DEF SpaceInv, RecoverDone
  <2>4. CarsRecorded'
    BY <1>16 DEF CarsRecorded, RecoverDone
  <2>5. QED
    BY <2>1, <2>2, <2>3, <2>4
<1>17. QED
  BY <1>1, <1>2, <1>3, <1>4, <1>5, <1>6, <1>7, <1>8, <1>9, <1>10, <1>11, <1>12, <1>13, <1>14,
     <1>15, <1>16 DEF Recover

\* A step of DeleteBucket keeps what the release of CARs rests on.
LEMMA CarsDelete ==
    ASSUME IInv, CInv, "damage" \notin DiskFaults, Delete
    PROVE  CInv'
<1> USE DEF IInv, CInv, pgVars, forgeVars, diskVars, recVars, memVars, opVars
<1>a. Typed /\ Typed' /\ \A s \in Seqs : rows[s].state \in {"none", "open", "sealed"}
  BY TypeDelete, TypedState, TypedNext, StateTyped
<1>1. CASE EmptyRoot
  <2>1. RowsMatch'
    BY <1>1 DEF RowsMatch, EmptyRoot, BucketLockFree
  <2>2. RowsKnown'
    BY <1>1 DEF RowsKnown, EmptyRoot, BucketLockFree
  <2>3. SpaceInv'
    BY <1>1 DEF SpaceInv, EmptyRoot, BucketLockFree
  <2>4. CarsRecorded'
    BY <1>1 DEF CarsRecorded, EmptyRoot, BucketLockFree
  <2>5. QED
    BY <2>1, <2>2, <2>3, <2>4
<1>2. CASE QuiesceDone
  <2>1. RowsMatch'
    BY <1>2 DEF RowsMatch, QuiesceDone, ForgetMemory, Idle
  <2>2. RowsKnown'
    BY <1>2 DEF RowsKnown, QuiesceDone, ForgetMemory, Idle
  <2>3. SpaceInv'
    BY <1>2 DEF SpaceInv, QuiesceDone, ForgetMemory, Idle
  <2>4. CarsRecorded'
    BY <1>2 DEF CarsRecorded, QuiesceDone, ForgetMemory, Idle
  <2>5. QED
    BY <2>1, <2>2, <2>3, <2>4
<1>3. CASE ListShipped
  <2>1. RowsMatch'
    BY <1>3 DEF RowsMatch, ListShipped
  <2>2. RowsKnown'
    BY <1>3 DEF RowsKnown, ListShipped
  <2>3. SpaceInv'
    <3>1. /\ deleter'.pc = "listed" /\ deleter'.todo = {s \in Seqs : HasRow(s)}
          /\ \A s \in Seqs : ~rows[s].retired
          /\ UNCHANGED <<rows, forge, space>>
      BY <1>3 DEF ListShipped
    <3>2. QED
      BY <3>1 DEF SpaceInv, CarsRecorded, HasRow
  <2>4. CarsRecorded'
    BY <1>3 DEF CarsRecorded, ListShipped
  <2>5. QED
    BY <2>1, <2>2, <2>3, <2>4
<1>4. CASE DeleteSpace
  <2>1. RowsMatch'
    BY <1>4 DEF RowsMatch, DeleteSpace, Releasing
  <2>2. RowsKnown'
    BY <1>4 DEF RowsKnown, DeleteSpace, Releasing
  <2>3. SpaceInv'
    BY <1>4 DEF SpaceInv, DeleteSpace, Releasing
  <2>4. CarsRecorded'
    BY <1>4 DEF CarsRecorded, DeleteSpace, Releasing
  <2>5. QED
    BY <2>1, <2>2, <2>3, <2>4
<1>5. CASE DropBucket
  <2>1. RowsMatch'
    BY <1>5 DEF RowsMatch, DropBucket
  <2>2. RowsKnown'
    BY <1>5 DEF RowsKnown, DropBucket
  <2>3. SpaceInv'
    BY <1>5 DEF SpaceInv, DropBucket
  <2>4. CarsRecorded'
    BY <1>5 DEF CarsRecorded, DropBucket
  <2>5. QED
    BY <2>1, <2>2, <2>3, <2>4
<1>6. CASE RemoveBucketLog
  <2>1. /\ log = "closed" /\ forge = {} /\ sealed = {} /\ shipped = {} /\ opens = {}
        /\ open = NoSeq
        /\ rebuild.cur = NoSeq /\ flusher.phase = "idle"
    BY <1>6 DEF RemoveBucketLog, DeleterInv, SpaceInv, RecoveryInv, FlusherInv, NoBuild
  <2>2. \A t \in Seqs : rows'[t].state = "none" /\ file'[t].car = "none"
    BY <1>6 DEF RemoveBucketLog, NoRow, NoFile
  <2>3. /\ deleter'.pc = "idle"
        /\ UNCHANGED <<forgeVars, aside, recVars, memVars>>
    BY <1>6 DEF RemoveBucketLog, NoDelete
  <2>4. RowsMatch'
    BY <2>1, <2>2, <2>3, <1>a DEF RowsMatch, Typed
  <2>5. RowsKnown'
    BY <2>1, <2>2, <2>3, <1>a DEF RowsKnown, Typed
  <2>6. SpaceInv'
    BY <2>1, <2>2, <2>3, <1>a DEF SpaceInv, Typed
  <2>7. CarsRecorded'
    BY <2>1, <2>2, <2>3, <1>a DEF CarsRecorded, Typed
  <2>8. QED
    BY <2>4, <2>5, <2>6, <2>7
<1>7. CASE DeleteFails
  <2>1. RowsMatch'
    BY <1>7 DEF RowsMatch, DeleteFails, NoDelete
  <2>2. RowsKnown'
    BY <1>7 DEF RowsKnown, DeleteFails, NoDelete
  <2>3. SpaceInv'
    BY <1>7 DEF SpaceInv, DeleteFails, NoDelete
  <2>4. CarsRecorded'
    BY <1>7 DEF CarsRecorded, DeleteFails, NoDelete
  <2>5. QED
    BY <2>1, <2>2, <2>3, <2>4
<1>8. ASSUME NEW how \in SealOutcomes, Quiesce(how) PROVE CInv'
  <2>1. open # NoSeq =>
           /\ open \in Seqs /\ file[open].car = "ok" /\ aside[open].car = "none"
           /\ rows[open].state = "open" /\ open \notin sealed \cup shipped /\ open \notin recorded
    <3>1. open # NoSeq => open \in Seqs /\ Fresh(open) /\ rows[open].state = "open"
      BY <1>a DEF SegmentInv, RowsKnown, Typed
    <3>2. QED
      BY <3>1 DEF Fresh, RowsMatch, RowsKnown
  <2>2. FilesIndexed({open})
    <3>1. CASE open = NoSeq
      BY <1>8, <3>1 DEF Quiesce, FilesIndexed
    <3>2. CASE open # NoSeq
      BY <1>8, <2>1, <3>2, IndexedFiles DEF Quiesce, SealFile, TypeOK
    <3>3. QED
      BY <3>1, <3>2
  <2>3. /\ DigestsKept
        /\ \/ rows' = rows /\ recorded' = recorded /\ sealed' = sealed
           \/ /\ open # NoSeq /\ SealsAs(open, file[open].blocks)
              /\ recorded' = recorded \cup {open} /\ sealed' = sealed \cup {open}
    BY <1>8, <2>1, SealsRow, SealsKeep DEF Quiesce, SealRow, TypeOK, DigestsKept
  <2>4. /\ rebuild.cur = NoSeq /\ open' = NoSeq
        /\ UNCHANGED <<forgeVars, aside, recVars, shipped, flusher, opVars>>
    BY <1>8 DEF Quiesce, RecoveryInv, NoBuild
  <2>5. RowsMatch'
    BY <2>1, <2>2, <2>3, <2>4, <1>a DEF RowsMatch, Typed, FilesIndexed, SealsAs
  <2>6. RowsKnown'
    <3>1. CASE rows' = rows /\ recorded' = recorded /\ sealed' = sealed
      BY <1>a, <2>1, <2>4, <3>1 DEF RowsKnown, Typed
    <3>2. CASE /\ open # NoSeq /\ SealsAs(open, file[open].blocks)
               /\ recorded' = recorded \cup {open} /\ sealed' = sealed \cup {open}
      <4>1. rows'[open].state = "sealed" /\ \A t \in Seqs : t # open => rows'[t] = rows[t]
        BY <2>1, <3>2 DEF SealsAs
      <4>2. QED
        BY <1>a, <2>1, <2>4, <3>2, <4>1 DEF RowsKnown, Typed
    <3>3. QED
      BY <2>3, <3>1, <3>2
  <2>7. SpaceInv'
    BY <2>3, <2>4, KeptList
  <2>8. CarsRecorded'
    BY <2>3, <2>4, KeptCars
  <2>9. QED
    BY <2>5, <2>6, <2>7, <2>8
<1>9. ASSUME NEW s \in Seqs, ReleaseRetired(s) PROVE CInv'
  <2>1. /\ log = "closed" /\ sealed = {} /\ shipped = {} /\ opens = {} /\ open = NoSeq
        /\ rebuild.cur = NoSeq /\ flusher.phase = "idle" /\ deleter.pc = "quiesced"
    BY <1>9 DEF ReleaseRetired, DeleterInv, RecoveryInv, FlusherInv, NoBuild
  <2>2. rows'[s].state = "none" /\ \A t \in Seqs : t # s => rows'[t] = rows[t]
    BY <1>9 DEF ReleaseRetired, DeleteSegment, NoRow, TypeOK
  <2>3. /\ forge' \subseteq forge
        /\ rows[s].state = "sealed" => rows[s].sha \notin forge'
        /\ UNCHANGED <<space, diskVars, recVars, memVars, opVars>>
    BY <1>9 DEF ReleaseRetired, ReleaseRow
  <2>4. RowsMatch'
    <3>1. \A t \in Seqs : rows'[t].state = "sealed" =>
             rows[t].state = "sealed" /\ rows'[t].sha = rows[t].sha
      BY <2>2
    <3>2. QED
      BY <2>3, <3>1 DEF RowsMatch
  <2>5. RowsKnown'
    BY <2>1, <2>2, <2>3, <1>a DEF RowsKnown, Typed
  <2>6. SpaceInv'
    BY <2>1, <2>2, <2>3, <1>a DEF SpaceInv, Typed
  <2>7. CarsRecorded'
    BY <2>1, <2>2, <2>3, <1>a DEF CarsRecorded, Typed
  <2>8. QED
    BY <2>4, <2>5, <2>6, <2>7
<1>10. ASSUME NEW s \in Seqs, ReleaseShipped(s) PROVE CInv'
  <2>1. RowsMatch'
    BY <1>10 DEF RowsMatch, ReleaseShipped, ReleaseRow
  <2>2. RowsKnown'
    BY <1>10 DEF RowsKnown, ReleaseShipped, ReleaseRow
  <2>3. SpaceInv'
    BY <1>10 DEF SpaceInv, ReleaseShipped, ReleaseRow
  <2>4. CarsRecorded'
    BY <1>10 DEF CarsRecorded, ReleaseShipped, ReleaseRow
  <2>5. QED
    BY <2>1, <2>2, <2>3, <2>4
<1>11. QED
  BY <1>1, <1>2, <1>3, <1>4, <1>5, <1>6, <1>7, <1>8, <1>9, <1>10 DEF Delete

\* A fault keeps what the release of CARs rests on.
LEMMA CarsFault ==
    ASSUME IInv, CInv, "damage" \notin DiskFaults, Fault
    PROVE  CInv'
<1> USE DEF IInv, CInv, pgVars, forgeVars, diskVars, recVars, memVars, opVars
<1>a. Typed /\ Typed' /\ \A s \in Seqs : rows[s].state \in {"none", "open", "sealed"}
  BY TypeFault, TypedState, TypedNext, StateTyped
<1>1. CASE Crash
  <2>1. /\ todo' = {} /\ opens' = {} /\ rebuild'.cur = NoSeq /\ open' = NoSeq
        /\ sealed' = {} /\ recorded' = {} /\ flusher'.phase = "idle" /\ deleter'.pc = "idle"
        /\ UNCHANGED <<rows, forgeVars, diskVars>>
    BY <1>1 DEF Crash, ProcessDies, ForgetMemory, Idle, NoDelete, NoBuild
  <2>2. RowsMatch'
    BY <2>1, <1>a DEF RowsMatch, Typed
  <2>3. RowsKnown'
    BY <2>1, <1>a DEF RowsKnown, Typed
  <2>4. SpaceInv'
    BY <2>1, <1>a DEF SpaceInv, Typed
  <2>5. CarsRecorded'
    BY <2>1, <1>a DEF CarsRecorded, Typed
  <2>6. QED
    BY <2>2, <2>3, <2>4, <2>5
<1>2. ASSUME NEW r \in Roots, NEW part \in SUBSET Tree[r], NEW ops \in SUBSET {r},
             NEW hasRow \in BOOLEAN, TornAppend(r, part, ops, hasRow)
      PROVE  CInv'
  <2>1. Growable(AppendSeq) /\ rows[AppendSeq].state \in {"none", "open"} /\ AppendSeq \in Seqs
    <3>1. CASE open # NoSeq
      <4>1. AppendSeq = open /\ open \in Seqs /\ Fresh(open) /\ rows[open].state = "open"
        BY <1>a, <3>1 DEF AppendSeq, RowsKnown, SegmentInv, Typed
      <4>2. QED
        BY <4>1, FreshGrows
    <3>2. CASE open = NoSeq
      <4>1. AppendSeq = seqNext /\ seqNext \in Seqs
        BY <1>2, <3>2 DEF TornAppend, AppendSeq
      <4>2. rows[seqNext].state = "none"
        BY <1>a, <4>1 DEF SegmentInv, NoRow, Typed
      <4>3. QED
        BY <1>a, <4>1, <4>2, NextGrows
    <3>3. QED
      BY <3>1, <3>2
  <2>2. Grows(AppendSeq, part) /\ rows'[AppendSeq].state # "sealed" /\ DigestsKept
    <3>1. CASE hasRow
      BY <1>2, <2>1, <3>1, GrownSegment, InsertKeeps DEF TornAppend, TypeOK
    <3>2. CASE ~hasRow
      <4>1. rows' = rows /\ AppendSeq = seqNext /\ rows[AppendSeq] = NoRow
        BY <1>2, <1>a, <2>1, <3>2 DEF TornAppend, AppendSeq, SegmentInv, Typed
      <4>2. Grows(AppendSeq, part)
        BY <1>2, <2>1, <4>1, GrownSegment DEF TornAppend, TypeOK
      <4>3. QED
        BY <2>1, <4>1, <4>2 DEF DigestsKept
    <3>3. QED
      BY <3>1, <3>2
  <2>3. /\ aside[AppendSeq] = NoFile /\ aside[AppendSeq].car = "none"
        /\ AppendSeq \notin sealed \cup shipped
    BY <2>1 DEF Growable, Fresh, NoFile
  <2>4. /\ todo' = {} /\ opens' = {} /\ rebuild'.cur = NoSeq /\ open' = NoSeq
        /\ sealed' = {} /\ recorded' = {} /\ flusher'.phase = "idle" /\ deleter'.pc = "idle"
        /\ UNCHANGED <<forgeVars, aside>>
    BY <1>2 DEF TornAppend, ProcessDies, ForgetMemory, Idle, NoDelete, NoBuild
  <2>5. RowsMatch'
    BY <2>1, <2>2, <2>3, <2>4, <1>a DEF RowsMatch, Typed, Grows
  <2>6. RowsKnown'
    BY <2>1, <2>2, <2>3, <2>4, <1>a DEF RowsKnown, Typed, Grows
  <2>7. SpaceInv'
    BY <2>4 DEF SpaceInv
  <2>8. CarsRecorded'
    BY <2>2, <2>4, KeptCars
  <2>9. QED
    BY <2>5, <2>6, <2>7, <2>8
<1>3. ASSUME NEW S \in SUBSET Seqs, LoseFiles(S) PROVE CInv'
  <2>1. FilesGone(S) /\ UNCHANGED <<rows, aside>>
    BY <1>3 DEF LoseFiles, DiskFault, FilesGone
  <2>2. RowsMatch'
    BY <2>1 DEF RowsMatch, FilesGone, NoFile
  <2>3. RowsKnown'
    BY <1>3, <2>1 DEF RowsKnown, LoseFiles, DiskFault
  <2>4. SpaceInv'
    BY <1>3, <2>1 DEF SpaceInv, LoseFiles, DiskFault
  <2>5. CarsRecorded'
    BY <1>3, <2>1 DEF CarsRecorded, LoseFiles, DiskFault
  <2>6. QED
    BY <2>2, <2>3, <2>4, <2>5
<1>4. ASSUME NEW s \in Seqs, NEW car \in {"ok", "damaged"}, DamageFiles(s, car) PROVE CInv'
  <2>1. car = "ok"
    BY <1>4 DEF DamageFiles, DiskFault
  <2>2. \A t \in Seqs : file'[t].car = file[t].car /\ file'[t].blocks = file[t].blocks
    BY <1>4, <2>1 DEF DamageFiles, TypeOK, File
  <2>3. UNCHANGED <<rows, aside>>
    BY <1>4 DEF DamageFiles, DiskFault
  <2>4. RowsMatch'
    BY <2>2, <2>3 DEF RowsMatch
  <2>5. RowsKnown'
    BY <1>4, <2>1, <2>2, <2>3 DEF RowsKnown, DamageFiles, DiskFault
  <2>6. SpaceInv'
    BY <1>4, <2>1, <2>2, <2>3 DEF SpaceInv, DamageFiles, DiskFault
  <2>7. CarsRecorded'
    BY <1>4, <2>1, <2>2, <2>3 DEF CarsRecorded, DamageFiles, DiskFault
  <2>8. QED
    BY <2>4, <2>5, <2>6, <2>7
<1>5. CASE VolumeMissing
  <2>1. RowsMatch'
    BY <1>5 DEF RowsMatch, VolumeMissing, DiskFault
  <2>2. RowsKnown'
    BY <1>5 DEF RowsKnown, VolumeMissing, DiskFault
  <2>3. SpaceInv'
    BY <1>5 DEF SpaceInv, VolumeMissing, DiskFault
  <2>4. CarsRecorded'
    BY <1>5 DEF CarsRecorded, VolumeMissing, DiskFault
  <2>5. QED
    BY <2>1, <2>2, <2>3, <2>4
<1>6. CASE VolumeBack
  <2>1. \A t \in Seqs : file'[t] = aside[t] /\ aside'[t] = NoFile
    BY <1>6 DEF VolumeBack
  <2>2. rows' = rows
    BY <1>6 DEF VolumeBack, DiskFault
  <2>3. RowsMatch'
    BY <2>1, <2>2 DEF RowsMatch, NoFile
  <2>4. RowsKnown'
    BY <1>6, <2>1, <2>2 DEF RowsKnown, VolumeBack, DiskFault
  <2>5. SpaceInv'
    BY <1>6, <2>1, <2>2 DEF SpaceInv, VolumeBack, DiskFault
  <2>6. CarsRecorded'
    BY <1>6, <2>1, <2>2 DEF CarsRecorded, VolumeBack, DiskFault
  <2>7. QED
    BY <2>3, <2>4, <2>5, <2>6
<1>7. QED
  BY <1>1, <1>2, <1>3, <1>4, <1>5, <1>6 DEF Fault

\* A step that leaves every variable alone keeps it too.
LEMMA CarsStutter == CInv /\ UNCHANGED vars => CInv'
<1> SUFFICES ASSUME CInv, UNCHANGED vars PROVE CInv'
  OBVIOUS
<1> USE DEF CInv, vars, pgVars, forgeVars, diskVars, recVars, memVars, opVars
<1>1. RowsMatch' /\ RowsKnown'
  BY DEF RowsMatch, RowsKnown
<1>2. SpaceInv' /\ CarsRecorded'
  BY DEF SpaceInv, CarsRecorded
<1>3. QED
  BY <1>1, <1>2

\* A new bucket's space holds no CAR.
LEMMA CarsInit == Init => CInv
<1> SUFFICES ASSUME Init PROVE CInv
  OBVIOUS
<1>1. /\ \A s \in Seqs : rows[s].state = "none" /\ file[s].car = "none" /\ aside[s].car = "none"
      /\ open = NoSeq /\ rebuild.cur = NoSeq /\ sealed = {} /\ opens = {} /\ recorded = {}
      /\ flusher.phase = "idle" /\ deleter.pc = "idle" /\ forge = {}
  BY DEF Init, NoRow, NoFile, NoBuild, Idle, NoDelete
<1>2. QED
  BY <1>1 DEF CInv, RowsMatch, RowsKnown, SpaceInv, CarsRecorded

\* What the release of CARs rests on holds in every state of a bucket whose
\* CARs are never damaged in place.
LEMMA CarsHold == ASSUME "damage" \notin DiskFaults PROVE Spec => []CInv
<1>1. IInv /\ CInv /\ [Next]_vars => CInv'
  <2> SUFFICES ASSUME IInv, CInv, [Next]_vars PROVE CInv'
    OBVIOUS
  <2>1. ASSUME NEW how \in SealOutcomes, SealOpen(how) PROVE CInv'
    BY <2>1, CarsSeal
  <2>2. QED
    BY <2>1, CarsWrite, CarsShip, CarsRecover, CarsDelete, CarsFault, CarsStutter DEF Next
<1>2. QED
  BY <1>1, CarsInit, InvariantHolds, PTL DEF Spec

(***************************************************************************)
(* Without in-place damage of a CAR, no crash, lost file, missing volume,  *)
(* retried ship or failed unlink leaves a CAR in the bucket's space that   *)
(* no sealed row records: the seal is recorded before SubmitShard, and no  *)
(* later statement on the row (stamp, retire, rehydrate) changes its sha.  *)
(***************************************************************************)
THEOREM CarsStayRecorded ==
    ASSUME "damage" \notin DiskFaults PROVE Spec => []CarsRecorded
<1>1. CInv => CarsRecorded
  BY DEF CInv
<1>2. QED
  BY <1>1, CarsHold, PTL

(***************************************************************************)
(* Under the same proviso DeleteBucket asks the tenant service to delete   *)
(* the space only once every CAR the log ever registered is released: the  *)
(* retired rows first, then every row ShippedSegmentDigests lists.         *)
(***************************************************************************)
THEOREM CarsAreReleased ==
    ASSUME "damage" \notin DiskFaults PROVE Spec => []CarsReleased
<1>1. CInv => CarsReleased
  BY DEF CInv, SpaceInv, CarsReleased, Releasing
<1>2. QED
  BY <1>1, CarsHold, PTL
=============================================================================
