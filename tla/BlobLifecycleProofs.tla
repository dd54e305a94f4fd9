------------------------ MODULE BlobLifecycleProofs ------------------------
(***************************************************************************)
(* Proofs about BlobLifecycle: its types; that every claimed blob stays    *)
(* with the provider, but for one whose release was run twice; and that a  *)
(* write that holds its file finds it.                                     *)
(***************************************************************************)
EXTENDS BlobLifecycle, TLAPS

-----------------------------------------------------------------------------
(* The inductive invariant, of the blobs whose release was not run twice.  *)

Owning == {"locate", "intent", "remove", "unlocate"} \cup LateSteps

On(e, S, b) == releaser[e].pc \in S /\ releaser[e].blob = b

\* w uploads, or is about to, having settled: it will not look at the record
\* again before its commit.
Fresh(w) ==
    \/ writer[w].pc \in {"mark", "send", "record"}
    \/ writer[w].pc = "locate" /\ (writer[w].waited \/ BlobOf(w) \notin located)

Waiting(w) == writer[w].pc = "settle" /\ writer[w].waited

Lock(w) == writer[w].pc \in LockSteps

\* One runner has a blob's release in hand.
OneRun ==
    \A b \in Blob \ rerun : \A e, f \in Releasers : Runs(e, b) /\ Runs(f, b) => e = f

\* No started release touches a claimed blob.
ClaimsStand ==
    \A k \in Keys : claims[k] # None /\ <<SpaceOf[k], claims[k]>> \notin rerun =>
        /\ <<SpaceOf[k], claims[k]>> \in stored
        /\ <<SpaceOf[k], claims[k]>> \in located
        /\ record[<<SpaceOf[k], claims[k]>>] # "started"

\* A release at work has its record, started.
OwnedStarted ==
    \A b \in Blob \ rerun : \A e \in Releasers : On(e, Owning, b) => record[b] = "started"

\* A record listed as started still is: only its runner ends it.
ListedStarted ==
    \A b \in Blob \ rerun : \A e \in Releasers :
        On(e, {"check", "defer", "start"}, b) /\ releaser[e].started => record[b] = "started"

\* A location whose blob is gone is one a release has yet to delete.
LostStarted ==
    \A b \in Blob \ rerun : b \in located /\ b \notin stored =>
        record[b] = "started" /\ \A e \in Releasers : ~On(e, LateSteps, b)

OneUpload ==
    \A v, w \in Writers : Lock(v) /\ Lock(w) /\ BlobOf(v) = BlobOf(w) => v = w

UploadStored ==
    \A w \in Writers : writer[w].pc = "record" /\ BlobOf(w) \notin rerun => BlobOf(w) \in stored

\* A release that runs under an upload is past its network remove.
UploadOwned ==
    \A w \in Writers : Fresh(w) /\ BlobOf(w) \notin rerun /\ record[BlobOf(w)] = "started" =>
        \E e \in Releasers : On(e, LateSteps, BlobOf(w))

\* A runner that passed the hold check before the write took its hold finds
\* the record cancelled.
UploadAhead ==
    \A w \in Writers : Fresh(w) /\ BlobOf(w) \notin rerun =>
        \A e \in Releasers : On(e, {"start"}, BlobOf(w)) =>
            record[BlobOf(w)] = "none" /\ BlobOf(w) \notin located

WaitClear ==
    \A w \in Writers : Waiting(w) /\ BlobOf(w) \notin rerun =>
        \A e \in Releasers : On(e, {"start"}, BlobOf(w)) => record[BlobOf(w)] = "started"

\* Only a write at or past its settle has waited.
WaitedLocked ==
    \A w \in Writers : writer[w].pc \in {"spooled", "queued"} => ~writer[w].waited

IInv ==
    /\ TypeOK /\ WaitedLocked /\ OneRun
    /\ ClaimsStand /\ OwnedStarted /\ ListedStarted /\ LostStarted
    /\ OneUpload /\ UploadStored /\ UploadOwned /\ UploadAhead /\ WaitClear

-----------------------------------------------------------------------------
(* Type correctness.                                                       *)

\* Every step keeps the types.
LEMMA TypeStep ==
    TypeOK /\ [Next]_vars => TypeOK'
<1> SUFFICES ASSUME TypeOK, [Next]_vars PROVE TypeOK'
  OBVIOUS
<1> USE SpaceOfAssumption, NoneAssumption
<1>1. ASSUME NEW w \in Writers, NEW k \in Keys, NEW d \in Digests, Spool(w, k, d)
     PROVE  TypeOK'
  <2>1. [IdleWriter EXCEPT !.pc = "spooled", !.key = k, !.digest = d] \in Request
    BY DEF IdleWriter, Request, WriterSteps, HoldSteps, LockSteps, UploadSteps
  <2>2. QED
    BY <1>1, <2>1 DEF Spool, IdleWriter, dbVars, TypeOK, Blob
<1>2. ASSUME NEW w \in Writers, PutIntent(w)
     PROVE  TypeOK'
  BY <1>2 DEF PutIntent, WriterStep, BlobOf, fsVars, TypeOK, Request, WriterSteps,
     HoldSteps, LockSteps, UploadSteps, Blob
<1>3. ASSUME NEW w \in Writers, LockBlob(w)
     PROVE  TypeOK'
  BY <1>3 DEF LockBlob, WriterStep, BlobOf, dbVars, fsVars, TypeOK, Request,
     WriterSteps, HoldSteps, LockSteps, UploadSteps, Blob
<1>4. ASSUME NEW w \in Writers, Settle(w)
     PROVE  TypeOK'
  BY <1>4 DEF Settle, WriterStep, BlobOf, dbVars, fsVars, TypeOK, Request,
     WriterSteps, HoldSteps, LockSteps, UploadSteps, Blob
<1>5. ASSUME NEW w \in Writers, CancelRelease(w)
     PROVE  TypeOK'
  <2>1. [writer[w] EXCEPT !.pc = "locate", !.waited = FALSE] \in Request
    <3>1. "locate" \in WriterSteps
      BY DEF WriterSteps, HoldSteps, LockSteps, UploadSteps
    <3>2. QED
      BY ZenonT(60), <3>1 DEF TypeOK, Request
  <2>2. writer[w].key \in Keys /\ writer[w].digest \in Digests
    BY <1>5 DEF CancelRelease, TypeOK
  <2>3. QED
    BY <1>5, <2>1, <2>2 DEF CancelRelease, BlobOf, fsVars, TypeOK, Request, Blob
<1>6. ASSUME NEW w \in Writers, AwaitRelease(w)
     PROVE  TypeOK'
  <2>1. [writer[w] EXCEPT !.waited = TRUE] \in Request
    BY ZenonT(60) DEF TypeOK, Request
  <2>2. /\ writer' = [writer EXCEPT ![w].waited = TRUE] /\ writer[w].pc = "settle"
        /\ UNCHANGED <<claims, record, intent, located, stored, spool, cache, releaser, sweep, rerun>>
    BY <1>6 DEF AwaitRelease, dbVars, fsVars
  <2>3. /\ writer' \in [Writers -> Request]
        /\ \A v \in Writers : /\ writer'[v].pc = writer[v].pc /\ writer'[v].key = writer[v].key
                              /\ writer'[v].digest = writer[v].digest
    BY <2>1, <2>2 DEF TypeOK, Request
  <2>4. QED
    BY <2>2, <2>3 DEF TypeOK
<1>7. ASSUME NEW w \in Writers, Locate(w)
     PROVE  TypeOK'
  <2>1. PICK to \in {"reuse", "mark"} :
           /\ writer[w].pc = "locate" /\ writer' = [writer EXCEPT ![w].pc = to]
           /\ UNCHANGED <<claims, record, intent, located, stored, spool, cache, releaser, sweep, rerun>>
    BY <1>7 DEF Locate, WriterStep, dbVars, fsVars
  <2>2. [writer[w] EXCEPT !.pc = to] \in Request
    <3>1. to \in WriterSteps
      BY DEF WriterSteps, HoldSteps, LockSteps, UploadSteps
    <3>2. QED
      BY ZenonT(60), <3>1 DEF TypeOK, Request
  <2>3. writer' \in [Writers -> Request]
    BY <2>1, <2>2 DEF TypeOK
  <2>4. QED
    BY <2>1, <2>3 DEF TypeOK, Request
<1>8. ASSUME NEW w \in Writers, MarkUploading(w)
     PROVE  TypeOK'
  BY <1>8 DEF MarkUploading, WriterStep, BlobOf, fsVars, TypeOK, Request,
     WriterSteps, HoldSteps, LockSteps, UploadSteps, Blob
<1>9. ASSUME NEW w \in Writers, Upload(w)
     PROVE  TypeOK'
  BY <1>9 DEF Upload, WriterStep, BlobOf, dbVars, fsVars, TypeOK, Request,
     WriterSteps, HoldSteps, LockSteps, UploadSteps, Blob
<1>10. ASSUME NEW w \in Writers, UploadLost(w)
     PROVE  TypeOK'
  BY <1>10 DEF UploadLost, IdleWriter, BlobOf, dbVars, fsVars, TypeOK, Request,
     WriterSteps, HoldSteps, LockSteps, UploadSteps, Blob
<1>11. ASSUME NEW w \in Writers, RecordLocation(w)
     PROVE  TypeOK'
  BY <1>11 DEF RecordLocation, WriterStep, BlobOf, fsVars, TypeOK, Request,
     WriterSteps, HoldSteps, LockSteps, UploadSteps, Blob
<1>12. ASSUME NEW w \in Writers, MarkAccepted(w)
     PROVE  TypeOK'
  <2>1. CASE WriterStep(w, "accept", "cache")
    BY <1>12, <2>1 DEF MarkAccepted, WriterStep, fsVars, TypeOK, Request, BlobOf,
       Blob, WriterSteps, HoldSteps, LockSteps, UploadSteps
  <2>2. CASE WriterStep(w, "reuse", "cache")
    BY <1>12, <2>2 DEF MarkAccepted, WriterStep, fsVars, TypeOK, Request, BlobOf,
       Blob, WriterSteps, HoldSteps, LockSteps, UploadSteps
  <2>3. QED
    BY <1>12, <2>1, <2>2 DEF MarkAccepted
<1>13. ASSUME NEW w \in Writers, Take(w)
     PROVE  TypeOK'
  <2>1. spool' \subseteq Digests /\ cache' \subseteq Digests
    BY <1>13 DEF Take, TypeOK
  <2>2. [writer[w] EXCEPT !.pc = "commit"] \in Request
    BY DEF TypeOK, Request, WriterSteps
  <2>3. writer' = [writer EXCEPT ![w].pc = "commit"] /\ writer[w].pc = "cache"
    BY <1>13 DEF Take, WriterStep
  <2>4. QED
    BY <1>13, <2>1, <2>2, <2>3 DEF Take, dbVars, TypeOK, Request
<1>14. ASSUME NEW w \in Writers, CountCopies(w)
     PROVE  TypeOK'
  BY <1>14 DEF CountCopies, WriterStep, BlobOf, dbVars, fsVars, TypeOK, Request,
     WriterSteps, HoldSteps, LockSteps, UploadSteps, Blob
<1>15. ASSUME NEW w \in Writers, DropCopy(w)
     PROVE  TypeOK'
  BY <1>15 DEF DropCopy, WriterStep, RemoveUnheld, BlobOf, fsVars, RemoveLocal,
     dbVars, TypeOK, Request, WriterSteps, HoldSteps, LockSteps, UploadSteps, Blob
<1>16. ASSUME NEW w \in Writers, KeepCopy(w)
     PROVE  TypeOK'
  <2>1. CASE WriterStep(w, "cache", "commit")
    BY <1>16, <2>1 DEF KeepCopy, WriterStep, dbVars, fsVars, TypeOK, Request,
       WriterSteps, HoldSteps, LockSteps, UploadSteps
  <2>2. CASE WriterStep(w, "drop", "commit")
    BY <1>16, <2>2 DEF KeepCopy, WriterStep, dbVars, fsVars, TypeOK, Request,
       WriterSteps, HoldSteps, LockSteps, UploadSteps
  <2>3. QED
    BY <1>16, <2>1, <2>2 DEF KeepCopy
<1>17. ASSUME NEW w \in Writers, Commit(w)
     PROVE  TypeOK'
  BY <1>17 DEF Commit, BlobOf, Swap, EnqueueRelease, IdleWriter, fsVars, TypeOK,
     Request, WriterSteps, HoldSteps, LockSteps, UploadSteps, Blob
<1>18. ASSUME NEW w \in Writers, NEW src \in Keys, NEW dst \in Keys, ResolveSource(w, src, dst)
     PROVE  TypeOK'
  <2>1. [IdleWriter EXCEPT !.pc = "pin", !.key = dst, !.digest = claims[src]] \in Request
    BY DEF TypeOK, IdleWriter, Request, WriterSteps, HoldSteps, LockSteps,
       UploadSteps
  <2>2. claims[src] \in Digests
    BY <1>18 DEF ResolveSource, TypeOK
  <2>3. QED
    BY <1>18, <2>1, <2>2 DEF ResolveSource, IdleWriter, dbVars, fsVars, TypeOK, Blob
<1>19. ASSUME NEW w \in Writers, Pin(w)
     PROVE  TypeOK'
  BY <1>19 DEF Pin, BlobOf, Swap, EnqueueRelease, IdleWriter, fsVars, TypeOK,
     Request, WriterSteps, HoldSteps, LockSteps, UploadSteps, Blob
<1>20. ASSUME NEW w \in Writers, Fail(w)
     PROVE  TypeOK'
  BY <1>20 DEF Fail, IdleWriter, dbVars, fsVars, TypeOK, Request, WriterSteps,
     HoldSteps, LockSteps, UploadSteps, Blob
<1>21. ASSUME NEW e \in Releasers, NEW b \in Blob, ListRelease(e, b)
     PROVE  TypeOK'
  <2>1. [IdleReleaser EXCEPT !.pc = "check", !.blob = b,
                             !.started = (record[b] = "started")] \in Run
    BY DEF IdleReleaser, Run, ReleaserSteps
  <2>2. QED
    BY <1>21, <2>1 DEF ListRelease, IdleReleaser, dbVars, fsVars, TypeOK, Blob
<1>22. ASSUME NEW e \in Releasers, CheckHold(e)
     PROVE  TypeOK'
  BY <1>22 DEF CheckHold, ReleaserStep, BlobOf, dbVars, fsVars, TypeOK, Run,
     ReleaserSteps, Blob
<1>23. ASSUME NEW e \in Releasers, Defer(e)
     PROVE  TypeOK'
  BY <1>23 DEF Defer, EnqueueRelease, EndRelease, IdleReleaser, fsVars, TypeOK,
     Run, ReleaserSteps, Blob
<1>24. ASSUME NEW e \in Releasers, StartRelease(e)
     PROVE  TypeOK'
  BY <1>24 DEF StartRelease, ReleaserStep, fsVars, TypeOK, Run, ReleaserSteps, Blob
<1>25. ASSUME NEW e \in Releasers, DropStale(e)
     PROVE  TypeOK'
  BY <1>25 DEF DropStale, EndRelease, IdleReleaser, fsVars, TypeOK, Run,
     ReleaserSteps, Blob
<1>26. ASSUME NEW e \in Releasers, ReadLocation(e)
     PROVE  TypeOK'
  BY <1>26 DEF ReadLocation, ReleaserStep, dbVars, fsVars, TypeOK, Run,
     ReleaserSteps, Blob
<1>27. ASSUME NEW e \in Releasers, ReadIntent(e)
     PROVE  TypeOK'
  BY <1>27 DEF ReadIntent, ReleaserStep, dbVars, fsVars, TypeOK, Run,
     ReleaserSteps, Blob
<1>28. ASSUME NEW e \in Releasers, RemoveBlob(e)
     PROVE  TypeOK'
  BY <1>28 DEF RemoveBlob, ReleaserStep, dbVars, fsVars, TypeOK, Run,
     ReleaserSteps, Blob
<1>29. ASSUME NEW e \in Releasers, DeleteLocation(e)
     PROVE  TypeOK'
  BY <1>29 DEF DeleteLocation, ReleaserStep, fsVars, TypeOK, Run, ReleaserSteps,
     Blob
<1>30. ASSUME NEW e \in Releasers, LeaveToWrite(e)
     PROVE  TypeOK'
  BY <1>30 DEF LeaveToWrite, BlobOf, DeleteRelease, EndRelease, IdleReleaser,
     fsVars, TypeOK, Run, ReleaserSteps, Blob
<1>31. ASSUME NEW e \in Releasers, CountOthers(e)
     PROVE  TypeOK'
  <2>1. OtherIntents(releaser[e].blob) \in BOOLEAN
    BY DEF OtherIntents
  <2>2. [releaser[e] EXCEPT !.pc = "unlink", !.others = OtherIntents(releaser[e].blob)] \in Run
    BY ZenonT(60), <2>1 DEF TypeOK, Run, ReleaserSteps
  <2>3. QED
    BY <1>31, <2>2 DEF CountOthers, dbVars, fsVars, TypeOK, Run, Blob
<1>32. ASSUME NEW e \in Releasers, Unlink(e)
     PROVE  TypeOK'
  BY <1>32 DEF Unlink, ReleaserStep, fsVars, RemoveUnheld, BlobOf, RemoveLocal,
     dbVars, TypeOK, Run, ReleaserSteps, Blob
<1>33. ASSUME NEW e \in Releasers, UnlinkHeld(e)
     PROVE  TypeOK'
  BY <1>33 DEF UnlinkHeld, BlobOf, DeleteRelease, EndRelease, IdleReleaser, fsVars,
     TypeOK, Run, ReleaserSteps, Blob
<1>34. ASSUME NEW e \in Releasers, Forget(e)
     PROVE  TypeOK'
  <2>1. releaser[e].blob \in Blob
    BY <1>34 DEF Forget, TypeOK
  <2>2. CASE EndRelease(e)
    BY <1>34, <2>1, <2>2 DEF Forget, EndRelease, IdleReleaser, fsVars, TypeOK, Run,
       ReleaserSteps, Blob
  <2>3. CASE releaser' = [releaser EXCEPT ![e].pc = "last"]
    <3>1. /\ [releaser[e] EXCEPT !.pc = "last"] \in Run
          /\ [releaser[e] EXCEPT !.pc = "last"].blob \in Blob
      BY <2>1 DEF TypeOK, Run, ReleaserSteps
    <3>2. /\ releaser' \in [Releasers -> Run]
          /\ \A f \in Releasers : releaser'[f].pc # "idle" => releaser'[f].blob \in Blob
      BY <2>3, <3>1 DEF TypeOK
    <3>3. /\ record' \in [Blob -> {"none", "pending", "started"}]
          /\ intent' \in [Blob -> {"none", "spooled", "uploading", "accepted", "published"}]
      BY <1>34, <2>1 DEF Forget, TypeOK
    <3>4. QED
      BY <1>34, <3>2, <3>3 DEF Forget, fsVars, TypeOK
  <2>4. QED
    BY <1>34, <2>2, <2>3 DEF Forget
<1>35. ASSUME NEW e \in Releasers, UnlinkLast(e)
     PROVE  TypeOK'
  BY <1>35 DEF UnlinkLast, RemoveUnheld, BlobOf, fsVars, RemoveLocal, EndRelease,
     IdleReleaser, dbVars, TypeOK, Run, ReleaserSteps, Blob
<1>36. ASSUME NEW e \in Releasers, RemoveLost(e)
     PROVE  TypeOK'
  BY <1>36 DEF RemoveLost, EndRelease, IdleReleaser, dbVars, fsVars, TypeOK, Run,
     ReleaserSteps, Blob
<1>37. ASSUME NEW e \in Releasers, ReleaseFails(e)
     PROVE  TypeOK'
  <2>1. rerun' \subseteq Blob
    BY <1>37 DEF ReleaseFails, LateSteps, TypeOK
  <2>2. QED
    BY <1>37, <2>1 DEF ReleaseFails, EndRelease, IdleReleaser, dbVars, fsVars, TypeOK, Run,
     ReleaserSteps, Blob
<1>38. ASSUME NEW k \in Keys, DeleteVersion(k)
     PROVE  TypeOK'
  BY <1>38 DEF DeleteVersion, Swap, EnqueueRelease, fsVars, TypeOK, Blob
<1>39. ASSUME NEW b \in Blob, ListEvictable(b)
     PROVE  TypeOK'
  BY <1>39 DEF ListEvictable, dbVars, fsVars, TypeOK, Blob
<1>40. ASSUME NEW d \in Digests, ListOrphan(d)
     PROVE  TypeOK'
  BY <1>40 DEF ListOrphan, dbVars, fsVars, TypeOK, Blob
<1>41. ASSUME RemoveListed
     PROVE  TypeOK'
  BY <1>41 DEF RemoveListed, RemoveUnheld, BlobOf, fsVars, RemoveLocal, dbVars,
     TypeOK, Blob
<1>42. ASSUME Crash
     PROVE  TypeOK'
  BY <1>42 DEF Crash, IdleWriter, IdleReleaser, dbVars, fsVars, TypeOK, Request,
     Run, ReleaserSteps, WriterSteps, HoldSteps, LockSteps, UploadSteps, Blob
<1>43. ASSUME UNCHANGED vars
     PROVE  TypeOK'
  BY <1>43 DEF vars, dbVars, fsVars, TypeOK
<1>. QED
  BY <1>1, <1>2, <1>3, <1>4, <1>5, <1>6, <1>7, <1>8, <1>9, <1>10, <1>11, <1>12,
     <1>13, <1>14, <1>15, <1>16, <1>17, <1>18, <1>19, <1>20, <1>21, <1>22, <1>23,
     <1>24, <1>25, <1>26, <1>27, <1>28, <1>29, <1>30, <1>31, <1>32, <1>33, <1>34,
     <1>35, <1>36, <1>37, <1>38, <1>39, <1>40, <1>41, <1>42, <1>43 DEF Next, Write,
     Release

-----------------------------------------------------------------------------
(* The inductive step.                                                     *)

\* A writer outside "idle" works on a blob.
LEMMA BlobTyped ==
    ASSUME TypeOK, NEW w \in Writers, writer[w].pc # "idle"
    PROVE  BlobOf(w) \in Blob
BY SpaceOfAssumption DEF TypeOK, BlobOf, Blob

\* Steps that only move one write, take no lock another has and begin no
\* upload keep the invariant.
LEMMA WriterMoves ==
    ASSUME IInv, TypeOK', NEW w \in Writers,
           UNCHANGED <<claims, record, located, releaser, rerun>>, stored \subseteq stored',
           \A v \in Writers \ {w} : writer'[v] = writer[v],
           Lock(w)' => \/ Lock(w) /\ BlobOf(w)' = BlobOf(w)
                       \/ \A v \in Writers : Lock(v) => BlobOf(v) # BlobOf(w)',
           writer'[w].pc = "record" => BlobOf(w)' \in stored',
           Fresh(w)' => \/ Fresh(w) /\ BlobOf(w)' = BlobOf(w)
                        \/ /\ record[BlobOf(w)'] = "none"
                           /\ BlobOf(w)' \notin rerun => \A e \in Releasers :
                                On(e, {"start"}, BlobOf(w)') => BlobOf(w)' \notin located,
           Waiting(w)' => \/ Waiting(w) /\ BlobOf(w)' = BlobOf(w)
                          \/ record[BlobOf(w)'] = "started",
           writer'[w].pc \in {"spooled", "queued"} => ~writer'[w].waited
    PROVE  IInv'
<1>1. \A v \in Writers \ {w} : /\ BlobOf(v)' = BlobOf(v) /\ Fresh(v)' = Fresh(v)
                               /\ Waiting(v)' = Waiting(v) /\ Lock(v)' = Lock(v)
  BY DEF BlobOf, Fresh, Waiting, Lock
<1>2. \A e \in Releasers : \A S, b : On(e, S, b)' = On(e, S, b)
  BY DEF On
<1>3. ClaimsStand' /\ OwnedStarted' /\ ListedStarted' /\ OneRun'
  BY <1>2 DEF IInv, ClaimsStand, OwnedStarted, ListedStarted, OneRun, Runs
<1>4. LostStarted'
  BY <1>2 DEF IInv, LostStarted
<1>5. OneUpload'
  BY <1>1 DEF IInv, OneUpload
<1>6. UploadStored'
  BY <1>1 DEF IInv, UploadStored
<1>7. UploadOwned' /\ UploadAhead' /\ WaitClear'
  BY <1>1, <1>2 DEF IInv, UploadOwned, UploadAhead, WaitClear
<1>8. WaitedLocked'
  BY DEF IInv, WaitedLocked
<1>9. QED
  BY <1>3, <1>4, <1>5, <1>6, <1>7, <1>8 DEF IInv

\* One runner moved, from b's release or to it; b is then nobody else's.
Moved(e, b) ==
    /\ \A f \in Releasers \ {e} : releaser'[f] = releaser[f]
    /\ \A c : Runs(e, c) \/ Runs(e, c)' => c = b
    /\ b \notin rerun' => \A f \in Releasers \ {e} : ~Runs(f, b)
    /\ rerun \subseteq rerun'

\* The others are where they were, on other blobs.
LEMMA MovedAlone ==
    ASSUME TypeOK, TypeOK', NEW e \in Releasers, NEW b \in Blob, Moved(e, b), OneRun
    PROVE  /\ OneRun'
           /\ \A f \in Releasers \ {e} : \A S, c : On(f, S, c)' = On(f, S, c)
           /\ \A f \in Releasers \ {e} : \A S : b \notin rerun' /\ On(f, S, b) => "idle" \in S
           /\ \A S, c : (On(e, S, c) \/ On(e, S, c)') /\ "idle" \notin S => c = b
<1>1. \A f \in Releasers \ {e} : \A c : Runs(f, c)' = Runs(f, c)
  BY DEF Moved, Runs
<1>2. OneRun'
  <2> SUFFICES ASSUME NEW c \in Blob \ rerun', NEW f \in Releasers, NEW g \in Releasers,
                      Runs(f, c)', Runs(g, c)'
               PROVE  f = g
    BY DEF OneRun
  <2>1. CASE f = e \/ g = e
    BY <1>1, <2>1 DEF Moved
  <2>2. CASE f # e /\ g # e
    BY <1>1, <2>2 DEF Moved, OneRun
  <2>3. QED
    BY <2>1, <2>2
<1>3. \A f \in Releasers \ {e} : \A S, c : On(f, S, c)' = On(f, S, c)
  BY DEF Moved, On
<1>4. \A f \in Releasers \ {e} : \A S : b \notin rerun' /\ On(f, S, b) => "idle" \in S
  BY DEF Moved, On, Runs
<1>5. \A S, c : (On(e, S, c) \/ On(e, S, c)') /\ "idle" \notin S => c = b
  BY DEF Moved, On, Runs
<1>6. QED
  BY <1>2, <1>3, <1>4, <1>5

\* No write uploads b, nor is about to.
Unhurried(b) == \A v \in Writers : Fresh(v) => BlobOf(v) # b

\* A step of the runner of b's release that touches no other blob keeps the
\* invariant, when it keeps what the invariant says of b.
LEMMA RunnerKeeps ==
    ASSUME IInv, TypeOK', NEW e \in Releasers, NEW b \in Blob, Moved(e, b),
           UNCHANGED <<claims, writer>>,
           \A c \in Blob \ {b} : /\ record'[c] = record[c]
                                 /\ c \in located' <=> c \in located
                                 /\ c \in stored' <=> c \in stored,
           b \notin rerun' =>
               /\ Claimed(claims, b) => b \in stored' /\ b \in located' /\ record'[b] # "started"
               /\ On(e, Owning, b)' => record'[b] = "started"
               /\ On(e, {"check", "defer", "start"}, b)' /\ releaser'[e].started =>
                      record'[b] = "started"
               /\ b \in located' /\ b \notin stored' =>
                      record'[b] = "started" /\ ~On(e, LateSteps, b)'
               /\ b \in stored' \/ Unhurried(b) \/ b \notin stored
               /\ Unhurried(b)' \/ record'[b] # "started" \/ On(e, LateSteps, b)'
               /\ On(e, {"start"}, b)' =>
                      /\ Unhurried(b)' \/ (record'[b] = "none" /\ b \notin located')
                      /\ \A w \in Writers : Waiting(w) /\ BlobOf(w) = b => record'[b] = "started"
    PROVE  IInv'
<1> USE SpaceOfAssumption
<1>1. /\ OneRun'
      /\ \A f \in Releasers \ {e} : \A S, c : On(f, S, c)' = On(f, S, c)
      /\ \A f \in Releasers \ {e} : \A S : b \notin rerun' /\ On(f, S, b) => "idle" \in S
      /\ \A S, c : (On(e, S, c) \/ On(e, S, c)') /\ "idle" \notin S => c = b
  BY MovedAlone DEF IInv
<1>2. rerun \subseteq rerun' /\ \A f \in Releasers \ {e} : releaser'[f] = releaser[f]
  BY DEF Moved
<1>3. "idle" \notin Owning \cup LateSteps \cup {"check", "defer", "start"}
  BY DEF Owning, LateSteps
<1>4. \A v \in Writers : BlobOf(v)' = BlobOf(v) /\ Waiting(v)' = Waiting(v) /\ Lock(v)' = Lock(v)
  BY DEF BlobOf, Waiting, Lock
<1>5. \A v \in Writers : (Fresh(v) \/ Fresh(v)' \/ Waiting(v) => BlobOf(v) \in Blob)
                         /\ (BlobOf(v) \in Blob \ {b} => Fresh(v)' = Fresh(v))
  BY <1>4, BlobTyped DEF IInv, Fresh, Waiting
<1>6. ClaimsStand'
  <2> SUFFICES ASSUME NEW k \in Keys, claims[k] # None, <<SpaceOf[k], claims[k]>> \notin rerun'
               PROVE  /\ <<SpaceOf[k], claims[k]>> \in stored'
                      /\ <<SpaceOf[k], claims[k]>> \in located'
                      /\ record'[<<SpaceOf[k], claims[k]>>] # "started"
    BY DEF ClaimsStand
  <2>1. <<SpaceOf[k], claims[k]>> \in Blob /\ Claimed(claims, <<SpaceOf[k], claims[k]>>)
    BY DEF IInv, TypeOK, Blob, Claimed
  <2>2. QED
    BY <1>2, <2>1 DEF IInv, ClaimsStand
<1>7. OwnedStarted'
  BY <1>1, <1>2, <1>3 DEF IInv, OwnedStarted
<1>8. ListedStarted'
  BY <1>1, <1>2, <1>3 DEF IInv, ListedStarted
<1>9. LostStarted'
  BY <1>1, <1>2, <1>3 DEF IInv, LostStarted
<1>10. OneUpload' /\ WaitedLocked'
  BY <1>4 DEF IInv, OneUpload, WaitedLocked
<1>11. UploadStored'
  <2> SUFFICES ASSUME NEW w \in Writers, writer[w].pc = "record", BlobOf(w) \notin rerun'
               PROVE  BlobOf(w) \in stored'
    BY <1>4 DEF UploadStored
  <2>1. Fresh(w) /\ BlobOf(w) \in Blob /\ BlobOf(w) \in stored
    BY <1>2, <1>5 DEF IInv, UploadStored, Fresh
  <2>2. QED
    BY <2>1 DEF Unhurried
<1>12. UploadOwned'
  <2> SUFFICES ASSUME NEW w \in Writers, Fresh(w)', NEW c \in Blob, BlobOf(w) = c,
                      c \notin rerun', record'[c] = "started"
               PROVE  \E f \in Releasers : On(f, LateSteps, c)'
    BY <1>4, <1>5 DEF UploadOwned, On
  <2>1. CASE c = b
    BY <1>4, <2>1 DEF Unhurried
  <2>2. CASE c # b
    <3>1. PICK f \in Releasers : On(f, LateSteps, c)
      BY <1>2, <1>5, <2>2 DEF IInv, UploadOwned
    <3>2. f # e
      BY <1>1, <1>3, <2>2, <3>1
    <3>3. QED
      BY <1>1, <3>1, <3>2
  <2>3. QED
    BY <2>1, <2>2
<1>13. UploadAhead'
  <2> SUFFICES ASSUME NEW w \in Writers, Fresh(w)', NEW c \in Blob, BlobOf(w) = c,
                      c \notin rerun', NEW f \in Releasers, On(f, {"start"}, c)'
               PROVE  record'[c] = "none" /\ c \notin located'
    BY <1>4, <1>5 DEF UploadAhead, On
  <2>1. CASE c = b
    <3>1. f = e
      BY <1>1, <1>3, <2>1
    <3>2. QED
      BY <1>4, <2>1, <3>1 DEF Unhurried
  <2>2. CASE c # b
    <3>1. f # e
      BY <1>1, <1>3, <2>2
    <3>2. QED
      BY <1>1, <1>2, <1>5, <2>2, <3>1 DEF IInv, UploadAhead
  <2>3. QED
    BY <2>1, <2>2
<1>14. WaitClear'
  <2> SUFFICES ASSUME NEW w \in Writers, Waiting(w), NEW c \in Blob, BlobOf(w) = c,
                      c \notin rerun', NEW f \in Releasers, On(f, {"start"}, c)'
               PROVE  record'[c] = "started"
    BY <1>4, <1>5 DEF WaitClear, On
  <2>1. CASE c = b
    <3>1. f = e
      BY <1>1, <1>3, <2>1
    <3>2. QED
      BY <2>1, <3>1
  <2>2. CASE c # b
    <3>1. f # e
      BY <1>1, <1>3, <2>2
    <3>2. QED
      BY <1>1, <1>2, <1>5, <2>2, <3>1 DEF IInv, WaitClear
  <2>3. QED
    BY <2>1, <2>2
<1>15. QED
  BY <1>1, <1>6, <1>7, <1>8, <1>9, <1>10, <1>11, <1>12, <1>13, <1>14 DEF IInv

\* What a commit does to the claims and the records.
LEMMA SwapStands ==
    ASSUME IInv, NEW k \in Keys, NEW d \in Digests \cup {None}, Swap(k, d),
           d # None /\ <<SpaceOf[k], d>> \notin rerun =>
               /\ <<SpaceOf[k], d>> \in stored /\ <<SpaceOf[k], d>> \in located
               /\ record[<<SpaceOf[k], d>>] # "started",
           UNCHANGED <<located, stored, rerun>>
    PROVE  /\ ClaimsStand'
           /\ \A b \in Blob : \/ record'[b] = record[b]
                              \/ /\ record[b] = "none" /\ record'[b] = "pending"
                                 /\ b \in located \/ b \in rerun
<1> DEFINE old == <<SpaceOf[k], claims[k]>>
<1>1. claims' = [claims EXCEPT ![k] = d]
  BY DEF Swap
<1>2. \A b \in Blob : \/ record'[b] = record[b]
                      \/ /\ claims[k] # None /\ b = old
                         /\ record[b] = "none" /\ record'[b] = "pending"
  BY SpaceOfAssumption DEF IInv, TypeOK, Blob, Swap, EnqueueRelease
<1>3. claims[k] # None => old \in located \/ old \in rerun
  BY DEF IInv, ClaimsStand
<1>4. \A l \in Keys : claims'[l] # None => <<SpaceOf[l], claims'[l]>> \in Blob
  BY <1>1, SpaceOfAssumption DEF IInv, TypeOK, Blob
<1>5. ClaimsStand'
  <2> SUFFICES ASSUME NEW l \in Keys, claims'[l] # None, <<SpaceOf[l], claims'[l]>> \notin rerun
               PROVE  /\ <<SpaceOf[l], claims'[l]>> \in stored
                      /\ <<SpaceOf[l], claims'[l]>> \in located
                      /\ record'[<<SpaceOf[l], claims'[l]>>] # "started"
    BY DEF ClaimsStand
  <2>1. /\ <<SpaceOf[l], claims'[l]>> \in stored
        /\ <<SpaceOf[l], claims'[l]>> \in located
        /\ record[<<SpaceOf[l], claims'[l]>>] # "started"
    BY <1>1 DEF IInv, TypeOK, ClaimsStand
  <2>2. QED
    BY <2>1, <1>2, <1>4
<1>6. QED
  BY <1>2, <1>3, <1>5

\* A commit or a delete enqueues releases of located blobs only, so none that
\* a runner is about to start under an upload.
LEMMA EnqueueKeeps ==
    ASSUME IInv, TypeOK', ClaimsStand', UNCHANGED <<located, stored, releaser, rerun>>,
           \A b \in Blob : \/ record'[b] = record[b]
                           \/ /\ record[b] = "none" /\ record'[b] = "pending"
                              /\ b \in located \/ b \in rerun,
           \A v \in Writers : writer'[v] = writer[v] \/ writer'[v] = IdleWriter
    PROVE  IInv'
<1>1. \A v \in Writers : writer'[v].pc # "idle" =>
          /\ writer'[v] = writer[v] /\ BlobOf(v)' = BlobOf(v) /\ BlobOf(v) \in Blob
          /\ Fresh(v)' = Fresh(v) /\ Waiting(v)' = Waiting(v) /\ Lock(v)' = Lock(v)
  BY BlobTyped DEF IInv, IdleWriter, BlobOf, Fresh, Waiting, Lock
<1>2. \A v \in Writers : writer'[v].pc = "idle" => ~Fresh(v)' /\ ~Waiting(v)' /\ ~Lock(v)'
  BY DEF Fresh, Waiting, Lock, LockSteps, UploadSteps
<1>3. \A e \in Releasers : \A S, b : On(e, S, b)' = On(e, S, b)
  BY DEF On
<1>5. OwnedStarted' /\ ListedStarted' /\ OneRun'
  BY <1>3 DEF IInv, OwnedStarted, ListedStarted, OneRun, Runs
<1>6. LostStarted'
  BY <1>3 DEF IInv, LostStarted
<1>7. OneUpload'
  BY <1>1, <1>2 DEF IInv, OneUpload
<1>8. UploadStored' /\ WaitedLocked'
  BY <1>1 DEF IInv, UploadStored, WaitedLocked
<1>9. UploadOwned'
  BY <1>1, <1>2, <1>3 DEF IInv, UploadOwned
<1>10. UploadAhead' /\ WaitClear'
  BY <1>1, <1>2, <1>3 DEF IInv, UploadAhead, WaitClear
<1>11. QED
  BY <1>5, <1>6, <1>7, <1>8, <1>9, <1>10 DEF IInv

\* A claimed blob stands.
LEMMA ClaimedStands ==
    ASSUME IInv, NEW b \in Blob \ rerun, Claimed(claims, b)
    PROVE  b \in stored /\ b \in located /\ record[b] # "started"
<1>1. PICK k \in Keys : SpaceOf[k] = b[1] /\ claims[k] = b[2]
  BY DEF Claimed
<1>2. b = <<SpaceOf[k], claims[k]>> /\ claims[k] # None
  BY <1>1, NoneAssumption DEF Blob
<1>3. QED
  BY <1>2 DEF IInv, ClaimsStand

\* Under a started release whose runner is not past its location delete, no
\* write uploads.
LEMMA OwnLate ==
    ASSUME IInv, NEW e \in Releasers, releaser[e].pc # "idle", releaser[e].blob \in Blob \ rerun,
           ~On(e, LateSteps, releaser[e].blob), record[releaser[e].blob] = "started"
    PROVE  Unhurried(releaser[e].blob)
<1> SUFFICES ASSUME NEW w \in Writers, Fresh(w), BlobOf(w) = releaser[e].blob PROVE FALSE
  BY DEF Unhurried
<1>1. PICK f \in Releasers : On(f, LateSteps, releaser[e].blob)
  BY DEF IInv, UploadOwned
<1>2. Runs(f, releaser[e].blob) /\ Runs(e, releaser[e].blob)
  BY <1>1 DEF On, Runs, LateSteps
<1>3. QED
  BY <1>1, <1>2 DEF IInv, OneRun

\* A runner goes to another step of its release.
LEMMA RunnerStep ==
    ASSUME TypeOK, OneRun, NEW e \in Releasers, NEW from, NEW to, ReleaserStep(e, from, to),
           from # "idle", rerun' = rerun
    PROVE  /\ releaser[e].blob \in Blob /\ Moved(e, releaser[e].blob) /\ releaser[e].pc = from
           /\ releaser'[e].pc = to /\ releaser'[e].blob = releaser[e].blob
           /\ releaser'[e].started = releaser[e].started
<1>1. /\ releaser'[e].pc = to /\ releaser'[e].blob = releaser[e].blob
      /\ releaser'[e].started = releaser[e].started /\ releaser[e].pc = from
      /\ \A f \in Releasers \ {e} : releaser'[f] = releaser[f]
      /\ releaser[e].blob \in Blob
  BY DEF ReleaserStep, TypeOK, Run
<1>2. Moved(e, releaser[e].blob)
  BY <1>1 DEF OneRun, Moved, Runs
<1>3. QED
  BY <1>1, <1>2

\* A runner ends.
LEMMA RunnerEnds ==
    ASSUME TypeOK, OneRun, NEW e \in Releasers, releaser[e].pc # "idle", EndRelease(e),
           rerun \subseteq rerun'
    PROVE  /\ releaser[e].blob \in Blob /\ Moved(e, releaser[e].blob)
           /\ releaser'[e].pc = "idle"
<1>1. /\ releaser'[e].pc = "idle" /\ releaser[e].blob \in Blob
      /\ \A f \in Releasers \ {e} : releaser'[f] = releaser[f]
  BY DEF EndRelease, TypeOK, IdleReleaser
<1>2. Moved(e, releaser[e].blob)
  BY <1>1 DEF OneRun, Moved, Runs
<1>3. QED
  BY <1>1, <1>2

\* Steps that only move the runner, and neither start nor end a release.
LEMMA RunnerMoves ==
    ASSUME IInv, TypeOK', NEW e \in Releasers, NEW b \in Blob, Moved(e, b),
           UNCHANGED <<claims, record, located, stored, writer>>,
           releaser'[e].pc \in Owning => releaser[e].pc \in Owning /\ releaser[e].blob = b,
           releaser'[e].pc \in {"check", "defer", "start"} /\ releaser'[e].started =>
               record[b] = "started",
           releaser'[e].pc \in LateSteps => releaser[e].pc \in LateSteps,
           releaser[e].pc \in LateSteps =>
               \/ b \in rerun' \/ Unhurried(b)
               \/ releaser'[e].pc \in LateSteps /\ releaser'[e].blob = b,
           releaser'[e].pc # "start"
    PROVE  IInv'
<1>1. Unhurried(b)' = Unhurried(b) /\ ~On(e, {"start"}, b)'
  BY DEF Unhurried, Fresh, BlobOf, On
<1>2. rerun \subseteq rerun'
  BY DEF Moved
<1>3. b \notin rerun' =>
          /\ Claimed(claims, b) => b \in stored /\ b \in located /\ record[b] # "started"
          /\ On(e, Owning, b)' => record[b] = "started"
          /\ On(e, {"check", "defer", "start"}, b)' /\ releaser'[e].started =>
                 record[b] = "started"
  BY <1>2, ClaimedStands DEF IInv, OwnedStarted, On
<1>4. b \notin rerun' /\ b \in located /\ b \notin stored =>
          record[b] = "started" /\ ~On(e, LateSteps, b)'
  <2>1. On(e, LateSteps, b)' => On(e, LateSteps, b)
    BY DEF On, Owning
  <2>2. QED
    BY <1>2, <2>1 DEF IInv, LostStarted
<1>5. b \notin rerun' => Unhurried(b) \/ record[b] # "started" \/ On(e, LateSteps, b)'
  <2> SUFFICES ASSUME b \notin rerun', NEW w \in Writers, Fresh(w), BlobOf(w) = b,
                      record[b] = "started"
               PROVE  On(e, LateSteps, b)'
    BY DEF Unhurried
  <2>1. PICK f \in Releasers : On(f, LateSteps, b)
    BY <1>2 DEF IInv, UploadOwned
  <2>2. f = e
    BY <2>1 DEF Moved, On, Runs, LateSteps
  <2>3. QED
    BY <2>1, <2>2 DEF On, Unhurried
<1>6. QED
  BY <1>1, <1>3, <1>4, <1>5, RunnerKeeps

\* A release ends once its blob and its location are both gone, or is found
\* stale before it touched either.
LEMMA ReleaseEnds ==
    ASSUME IInv, TypeOK', NEW e \in Releasers, NEW b \in Blob, Moved(e, b),
           UNCHANGED <<claims, located, stored, writer, rerun>>,
           record' = [record EXCEPT ![b] = "none"],
           releaser'[e].pc \in {"idle", "last"},
           b \notin rerun /\ b \in located => b \in stored
    PROVE  IInv'
<1>1. record'[b] = "none" /\ \A c \in Blob \ {b} : record'[c] = record[c]
  BY DEF IInv, TypeOK
<1>2. /\ ~On(e, LateSteps, b)' /\ ~On(e, Owning, b)' /\ ~On(e, {"start"}, b)'
      /\ ~On(e, {"check", "defer", "start"}, b)'
  BY DEF On, Owning, LateSteps
<1>3. b \notin rerun /\ Claimed(claims, b) => b \in stored /\ b \in located
  BY ClaimedStands
<1>4. QED
  BY <1>1, <1>2, <1>3, RunnerKeeps

\* Every step of the specification keeps the invariant.
LEMMA InvStep ==
    ASSUME IInv, [Next]_vars
    PROVE  IInv'
<1> USE SpaceOfAssumption
<1>0. TypeOK'
  BY TypeStep DEF IInv
<1>1. ASSUME NEW w \in Writers, NEW k \in Keys, NEW d \in Digests, Spool(w, k, d)
     PROVE  IInv'
  <2>1. ~Lock(w)' /\ ~Fresh(w)' /\ ~Waiting(w)' /\ writer'[w].pc # "record"
    BY <1>1 DEF IInv, TypeOK, Spool, IdleWriter, Lock, Fresh, Waiting, LockSteps,
       UploadSteps
  <2>2. QED
    BY <1>0, <2>1, <1>1, WriterMoves DEF IInv, TypeOK, Spool, IdleWriter, dbVars,
       fsVars, WaitedLocked
<1>2. ASSUME NEW w \in Writers, PutIntent(w)
     PROVE  IInv'
  <2>1. ~Lock(w)' /\ ~Fresh(w)' /\ ~Waiting(w)' /\ writer'[w].pc # "record"
    BY <1>2 DEF IInv, TypeOK, PutIntent, WriterStep, Lock, Fresh, Waiting,
       LockSteps, UploadSteps
  <2>2. QED
    BY <1>0, <2>1, <1>2, WriterMoves DEF IInv, TypeOK, PutIntent, WriterStep,
       dbVars, fsVars, WaitedLocked
<1>3. ASSUME NEW w \in Writers, LockBlob(w)
     PROVE  IInv'
  <2>1. /\ ~Fresh(w)' /\ ~Waiting(w)' /\ writer'[w].pc = "settle"
        /\ BlobOf(w)' = BlobOf(w) /\ \A v \in Writers : Lock(v) => BlobOf(v) # BlobOf(w)
    BY <1>3 DEF IInv, TypeOK, WaitedLocked, LockBlob, WriterStep, Locked, BlobOf,
       Lock, Fresh, Waiting
  <2>2. QED
    BY <1>0, <2>1, <1>3, WriterMoves DEF IInv, TypeOK, LockBlob, WriterStep,
       dbVars, fsVars
<1>4. ASSUME NEW w \in Writers, Settle(w)
     PROVE  IInv'
  <2>1. /\ BlobOf(w)' = BlobOf(w) /\ Lock(w) /\ record[BlobOf(w)] = "none"
        /\ writer'[w].pc = "locate" /\ writer'[w].waited = writer[w].waited
    BY <1>4 DEF IInv, TypeOK, Settle, WriterStep, BlobOf, Lock, LockSteps,
       UploadSteps
  <2>2. ASSUME NEW e \in Releasers, On(e, {"start"}, BlobOf(w)), Fresh(w)', BlobOf(w) \notin rerun
        PROVE  BlobOf(w) \notin located
    BY <1>4, <2>1, <2>2 DEF IInv, WaitClear, Waiting, Settle, WriterStep, Fresh,
       dbVars
  <2>3. QED
    BY <1>0, <2>1, <2>2, <1>4, WriterMoves DEF IInv, TypeOK, Settle, WriterStep,
       Waiting, dbVars, fsVars
<1>5. ASSUME NEW w \in Writers, AwaitRelease(w)
     PROVE  IInv'
  <2>1. /\ BlobOf(w)' = BlobOf(w) /\ Lock(w) /\ ~Fresh(w)'
        /\ record[BlobOf(w)] = "started" /\ writer'[w].pc = "settle"
    BY <1>5 DEF IInv, TypeOK, AwaitRelease, BlobOf, Lock, LockSteps, UploadSteps,
       Fresh
  <2>2. QED
    BY <1>0, <2>1, <1>5, WriterMoves DEF IInv, TypeOK, AwaitRelease, dbVars, fsVars
<1>6. ASSUME NEW w \in Writers, Locate(w)
     PROVE  IInv'
  <2>1. BlobOf(w)' = BlobOf(w) /\ Lock(w) /\ ~Waiting(w)' /\ (Fresh(w)' => Fresh(w))
    BY <1>6 DEF IInv, TypeOK, Locate, WriterStep, BlobOf, Lock, LockSteps,
       UploadSteps, Fresh, Waiting
  <2>2. QED
    BY <1>0, <2>1, <1>6, WriterMoves DEF IInv, TypeOK, Locate, WriterStep, dbVars,
       fsVars
<1>7. ASSUME NEW w \in Writers, MarkUploading(w)
     PROVE  IInv'
  <2>1. BlobOf(w)' = BlobOf(w) /\ Lock(w) /\ ~Waiting(w)' /\ Fresh(w)
    BY <1>7 DEF IInv, TypeOK, MarkUploading, WriterStep, BlobOf, Lock, Fresh,
       Waiting, LockSteps, UploadSteps
  <2>2. QED
    BY <1>0, <2>1, <1>7, WriterMoves DEF IInv, TypeOK, MarkUploading, WriterStep,
       BlobOf, dbVars, fsVars
<1>8. ASSUME NEW w \in Writers, Upload(w)
     PROVE  IInv'
  <2>1. BlobOf(w)' = BlobOf(w) /\ Lock(w) /\ ~Waiting(w)' /\ Fresh(w) /\ writer'[w].pc = "record"
    BY <1>8 DEF IInv, TypeOK, Upload, WriterStep, BlobOf, Lock, Fresh, Waiting,
       LockSteps, UploadSteps
  <2>2. BlobOf(w)' \in stored' /\ stored \subseteq stored'
    BY <1>8, <2>1 DEF Upload
  <2>3. /\ UNCHANGED <<claims, record, located, releaser, rerun>>
        /\ \A v \in Writers \ {w} : writer'[v] = writer[v]
    BY <1>8 DEF IInv, TypeOK, Upload, WriterStep, dbVars
  <2>4. QED
    BY <1>0, <2>1, <2>2, <2>3, WriterMoves
<1>9. ASSUME NEW w \in Writers, UploadLost(w)
     PROVE  IInv'
  <2>1. ~Lock(w)' /\ ~Fresh(w)' /\ ~Waiting(w)' /\ writer'[w].pc # "record"
    BY <1>9 DEF IInv, TypeOK, UploadLost, IdleWriter, Lock, Fresh, Waiting,
       LockSteps, UploadSteps
  <2>2. QED
    BY <1>0, <2>1, <1>9, WriterMoves DEF IInv, TypeOK, UploadLost, IdleWriter,
       dbVars, fsVars, WaitedLocked
<1>10. ASSUME NEW w \in Writers, MarkAccepted(w)
     PROVE  IInv'
  <2>1. writer[w].pc \in {"accept", "reuse"} /\ writer' = [writer EXCEPT ![w].pc = "cache"]
    BY <1>10 DEF MarkAccepted, WriterStep
  <2>2. /\ BlobOf(w)' = BlobOf(w) /\ Lock(w) /\ ~Waiting(w)' /\ ~Fresh(w)'
        /\ writer'[w].pc = "cache"
    BY <2>1 DEF IInv, TypeOK, BlobOf, Lock, Fresh, Waiting, LockSteps, UploadSteps
  <2>3. QED
    BY <1>0, <2>1, <2>2, <1>10, WriterMoves DEF IInv, TypeOK, MarkAccepted, dbVars,
       fsVars
<1>11. ASSUME NEW w \in Writers, KeepCopy(w)
     PROVE  IInv'
  <2>1. writer[w].pc \in {"cache", "drop"} /\ writer' = [writer EXCEPT ![w].pc = "commit"]
    BY <1>11 DEF KeepCopy, WriterStep
  <2>2. /\ BlobOf(w)' = BlobOf(w) /\ Lock(w) /\ ~Waiting(w)' /\ ~Fresh(w)'
        /\ writer'[w].pc = "commit"
    BY <2>1 DEF IInv, TypeOK, BlobOf, Lock, Fresh, Waiting, LockSteps, UploadSteps
  <2>3. QED
    BY <1>0, <2>1, <2>2, <1>11, WriterMoves DEF IInv, TypeOK, KeepCopy, dbVars,
       fsVars
<1>12. ASSUME NEW w \in Writers, Take(w)
     PROVE  IInv'
  <2>1. /\ BlobOf(w)' = BlobOf(w) /\ Lock(w) /\ ~Waiting(w)' /\ ~Fresh(w)'
        /\ writer'[w].pc \in {"cache", "drop", "commit"}
    BY <1>12 DEF IInv, TypeOK, Take, WriterStep, BlobOf, Lock, Fresh, Waiting,
       LockSteps, UploadSteps
  <2>2. QED
    BY <1>0, <2>1, <1>12, WriterMoves DEF IInv, TypeOK, Take, WriterStep, dbVars,
       fsVars
<1>13. ASSUME NEW w \in Writers, CountCopies(w)
     PROVE  IInv'
  <2>1. /\ BlobOf(w)' = BlobOf(w) /\ Lock(w) /\ ~Waiting(w)' /\ ~Fresh(w)'
        /\ writer'[w].pc \in {"cache", "drop", "commit"}
    BY <1>13 DEF IInv, TypeOK, CountCopies, WriterStep, BlobOf, Lock, Fresh,
       Waiting, LockSteps, UploadSteps
  <2>2. QED
    BY <1>0, <2>1, <1>13, WriterMoves DEF IInv, TypeOK, CountCopies, WriterStep,
       dbVars, fsVars
<1>14. ASSUME NEW w \in Writers, DropCopy(w)
     PROVE  IInv'
  <2>1. /\ BlobOf(w)' = BlobOf(w) /\ Lock(w) /\ ~Waiting(w)' /\ ~Fresh(w)'
        /\ writer'[w].pc \in {"cache", "drop", "commit"}
    BY <1>14 DEF IInv, TypeOK, DropCopy, WriterStep, BlobOf, Lock, Fresh, Waiting,
       LockSteps, UploadSteps
  <2>2. QED
    BY <1>0, <2>1, <1>14, WriterMoves DEF IInv, TypeOK, DropCopy, WriterStep,
       dbVars, fsVars
<1>15. ASSUME NEW w \in Writers, NEW src \in Keys, NEW dst \in Keys, ResolveSource(w, src, dst)
     PROVE  IInv'
  <2>1. ~Lock(w)' /\ ~Fresh(w)' /\ ~Waiting(w)' /\ writer'[w].pc # "record"
    BY <1>15 DEF IInv, TypeOK, ResolveSource, IdleWriter, Lock, Fresh, Waiting,
       LockSteps, UploadSteps
  <2>2. QED
    BY <1>0, <2>1, <1>15, WriterMoves DEF IInv, TypeOK, ResolveSource, IdleWriter,
       dbVars, fsVars, WaitedLocked
<1>16. ASSUME NEW w \in Writers, Fail(w)
     PROVE  IInv'
  <2>1. ~Lock(w)' /\ ~Fresh(w)' /\ ~Waiting(w)' /\ writer'[w].pc # "record"
    BY <1>16 DEF IInv, TypeOK, Fail, IdleWriter, Lock, Fresh, Waiting, LockSteps,
       UploadSteps
  <2>2. QED
    BY <1>0, <2>1, <1>16, WriterMoves DEF IInv, TypeOK, Fail, IdleWriter, dbVars,
       fsVars, WaitedLocked
<1>17. ASSUME NEW w \in Writers, CancelRelease(w)
     PROVE  IInv'
  <2>0. PICK b \in Blob : BlobOf(w) = b
    BY <1>17, BlobTyped DEF CancelRelease, WriterStep, IInv
  <2>1. /\ BlobOf(w)' = b /\ Lock(w) /\ b \in Blob /\ ~Waiting(w)' /\ writer'[w].pc = "locate"
        /\ Fresh(w)' => b \notin located
    BY <2>0, <1>17, BlobTyped DEF IInv, TypeOK, CancelRelease, BlobOf, Lock, LockSteps,
       UploadSteps, Fresh, Waiting
  <2>2. \A v \in Writers \ {w} : /\ writer'[v] = writer[v] /\ BlobOf(v)' = BlobOf(v)
                                 /\ Fresh(v)' = Fresh(v) /\ Waiting(v)' = Waiting(v)
                                 /\ Lock(v)' = Lock(v)
    BY <2>0, <1>17 DEF IInv, TypeOK, CancelRelease, BlobOf, Fresh, Waiting, Lock
  <2>3. /\ record[b] = "pending" /\ record'[b] = "none"
        /\ \A c \in Blob \ {b} : record'[c] = record[c]
    BY <2>0, <1>17, <2>1 DEF IInv, TypeOK, CancelRelease
  <2>4. UNCHANGED <<claims, located, stored, releaser, rerun>>
    BY <2>0, <1>17 DEF CancelRelease
  <2>5. \A e \in Releasers : \A S, c : On(e, S, c)' = On(e, S, c)
    BY <2>0, <2>4 DEF On
  <2>7. ClaimsStand'
    <3> SUFFICES ASSUME NEW k \in Keys, claims[k] # None, <<SpaceOf[k], claims[k]>> \notin rerun
                 PROVE  record'[<<SpaceOf[k], claims[k]>>] # "started"
      BY <2>0, <2>4 DEF IInv, ClaimsStand
    <3>1. <<SpaceOf[k], claims[k]>> \in Blob /\ record[<<SpaceOf[k], claims[k]>>] # "started"
      BY <2>0 DEF IInv, TypeOK, Blob, ClaimsStand
    <3>2. QED
      BY <2>0, <3>1, <2>3
  <2>8. OwnedStarted' /\ ListedStarted' /\ OneRun'
    BY <2>0, <2>3, <2>4, <2>5 DEF IInv, OwnedStarted, ListedStarted, OneRun, Runs
  <2>9. LostStarted'
    BY <2>0, <2>3, <2>4, <2>5 DEF IInv, LostStarted
  <2>10. OneUpload'
    BY <2>0, <2>1, <2>2 DEF IInv, OneUpload
  <2>11. UploadStored' /\ WaitedLocked'
    BY <2>0, <2>1, <2>2, <2>4 DEF IInv, UploadStored, WaitedLocked
  <2>12. \A v \in Writers \ {w} : Lock(v) => BlobOf(v) # b /\ BlobOf(v) \in Blob
    BY <2>0, <2>1, BlobTyped DEF IInv, OneUpload, Lock, LockSteps, UploadSteps
  <2>13. \A v \in Writers : Fresh(v) \/ Waiting(v) => Lock(v)
    BY <2>0 DEF Fresh, Waiting, Lock, LockSteps, UploadSteps
  <2>14. UploadOwned'
    BY <2>0, <2>1, <2>2, <2>3, <2>4, <2>5, <2>12, <2>13 DEF IInv, UploadOwned
  <2>15. UploadAhead'
    BY <2>0, <2>1, <2>2, <2>3, <2>4, <2>5, <2>12, <2>13 DEF IInv, UploadAhead
  <2>16. WaitClear'
    BY <2>0, <2>1, <2>2, <2>3, <2>4, <2>5, <2>12, <2>13 DEF IInv, WaitClear
  <2>17. QED
    BY <2>0, <1>0, <2>7, <2>8, <2>9, <2>10, <2>11, <2>14, <2>15, <2>16 DEF IInv
<1>18. ASSUME NEW w \in Writers, RecordLocation(w)
     PROVE  IInv'
  <2>0. PICK b \in Blob : BlobOf(w) = b
    BY <1>18, BlobTyped DEF RecordLocation, WriterStep, IInv
  <2>1. /\ BlobOf(w)' = b /\ Lock(w) /\ ~Waiting(w)' /\ ~Fresh(w)'
        /\ (b \in stored \/ b \in rerun) /\ writer'[w].pc = "accept"
    BY <2>0, <1>18 DEF IInv, TypeOK, UploadStored, RecordLocation, WriterStep, BlobOf,
       Lock, LockSteps, UploadSteps, Fresh, Waiting
  <2>2. \A v \in Writers \ {w} : /\ writer'[v] = writer[v] /\ BlobOf(v)' = BlobOf(v)
                                 /\ Waiting(v)' = Waiting(v) /\ Lock(v)' = Lock(v)
    BY <2>0, <1>18 DEF RecordLocation, WriterStep, BlobOf, Waiting, Lock
  <2>3. UNCHANGED <<claims, record, stored, releaser, rerun>> /\ located' = located \cup {b}
    BY <2>0, <1>18 DEF RecordLocation
  <2>4. \A v \in Writers \ {w} : Lock(v) => BlobOf(v) # b
    BY <2>0, <2>1 DEF IInv, OneUpload
  <2>5. \A v \in Writers \ {w} : Fresh(v)' => Fresh(v) /\ Lock(v)
    BY <2>0, <2>2, <2>3 DEF Fresh, Lock, LockSteps, UploadSteps
  <2>6. \A e \in Releasers : \A S, c : On(e, S, c)' = On(e, S, c)
    BY <2>0, <2>3 DEF On
  <2>7. ClaimsStand' /\ OwnedStarted' /\ ListedStarted' /\ OneRun'
    BY <2>0, <2>3, <2>6 DEF IInv, ClaimsStand, OwnedStarted, ListedStarted, OneRun, Runs
  <2>8. LostStarted'
    BY <2>0, <2>1, <2>3, <2>6 DEF IInv, LostStarted
  <2>9. OneUpload' /\ UploadStored' /\ WaitedLocked'
    BY <2>0, <2>1, <2>2, <2>3 DEF IInv, OneUpload, UploadStored, WaitedLocked
  <2>10. UploadOwned' /\ UploadAhead'
    BY <2>0, <2>1, <2>2, <2>3, <2>4, <2>5, <2>6 DEF IInv, UploadOwned, UploadAhead
  <2>11. WaitClear'
    BY <2>0, <2>1, <2>2, <2>3, <2>6 DEF IInv, WaitClear
  <2>12. QED
    BY <2>0, <1>0, <2>7, <2>8, <2>9, <2>10, <2>11 DEF IInv
<1>19. ASSUME NEW w \in Writers, Commit(w)
     PROVE  IInv'
  <2>1. writer[w].key \in Keys /\ writer[w].digest \in Digests
    BY <1>19 DEF IInv, TypeOK, Commit
  <2>2. BlobOf(w) \notin rerun =>
            BlobOf(w) \in located /\ record[BlobOf(w)] # "started" /\ BlobOf(w) \in stored
    BY <1>19, BlobTyped DEF IInv, LostStarted, Commit, ClaimRefused
  <2>3. /\ ClaimsStand'
        /\ \A b \in Blob : \/ record'[b] = record[b]
                           \/ /\ record[b] = "none" /\ record'[b] = "pending"
                              /\ b \in located \/ b \in rerun
    BY <1>19, <2>1, <2>2, SwapStands DEF Commit, BlobOf
  <2>4. QED
    BY <1>19, <1>0, <2>3, EnqueueKeeps DEF IInv, TypeOK, Commit
<1>20. ASSUME NEW w \in Writers, Pin(w)
     PROVE  IInv'
  <2>1. writer[w].key \in Keys /\ writer[w].digest \in Digests
    BY <1>20 DEF IInv, TypeOK, Pin
  <2>2. BlobOf(w) \notin rerun =>
            BlobOf(w) \in located /\ record[BlobOf(w)] # "started" /\ BlobOf(w) \in stored
    <3>1. PICK k \in Keys : SpaceOf[k] = BlobOf(w)[1] /\ claims[k] = BlobOf(w)[2]
      BY <1>20 DEF Pin, PinRefused, Claimed
    <3>2. BlobOf(w) = <<SpaceOf[k], claims[k]>> /\ claims[k] # None
      BY <2>1, <3>1, NoneAssumption DEF BlobOf
    <3>3. QED
      BY <3>2 DEF IInv, ClaimsStand
  <2>3. /\ ClaimsStand'
        /\ \A b \in Blob : \/ record'[b] = record[b]
                           \/ /\ record[b] = "none" /\ record'[b] = "pending"
                              /\ b \in located \/ b \in rerun
    BY <1>20, <2>1, <2>2, SwapStands DEF Pin, BlobOf
  <2>4. QED
    BY <1>20, <1>0, <2>3, EnqueueKeeps DEF IInv, TypeOK, Pin
<1>21. ASSUME NEW k \in Keys, DeleteVersion(k)
     PROVE  IInv'
  <2>1. /\ ClaimsStand'
        /\ \A b \in Blob : \/ record'[b] = record[b]
                           \/ /\ record[b] = "none" /\ record'[b] = "pending"
                              /\ b \in located \/ b \in rerun
    BY <1>21, SwapStands DEF DeleteVersion
  <2>2. QED
    BY <1>21, <1>0, <2>1, EnqueueKeeps DEF DeleteVersion
<1>22. ASSUME NEW b \in Blob, ListEvictable(b)
     PROVE  IInv'
  <2>1. UNCHANGED <<claims, record, located, stored, writer, releaser, rerun>>
    BY <1>22 DEF ListEvictable, dbVars
  <2>2. QED
    BY <1>0, <2>1, EnqueueKeeps DEF IInv, ClaimsStand
<1>23. ASSUME NEW d \in Digests, ListOrphan(d)
     PROVE  IInv'
  <2>1. UNCHANGED <<claims, record, located, stored, writer, releaser, rerun>>
    BY <1>23 DEF ListOrphan, dbVars
  <2>2. QED
    BY <1>0, <2>1, EnqueueKeeps DEF IInv, ClaimsStand
<1>24. ASSUME RemoveListed
     PROVE  IInv'
  <2>1. UNCHANGED <<claims, record, located, stored, writer, releaser, rerun>>
    BY <1>24 DEF RemoveListed, dbVars
  <2>2. QED
    BY <1>0, <2>1, EnqueueKeeps DEF IInv, ClaimsStand
<1>25. ASSUME NEW e \in Releasers, ReadLocation(e) \/ ReadIntent(e) \/ Unlink(e)
     PROVE  IInv'
  <2>1. PICK from, to \in {"locate", "intent", "remove", "unlocate", "unlink", "forget"} :
            ReleaserStep(e, from, to) /\ (from \in LateSteps <=> to \in LateSteps)
    BY <1>25 DEF ReadLocation, ReadIntent, Unlink, LateSteps
  <2>2. UNCHANGED <<claims, record, located, stored, writer, rerun>>
    BY <1>25 DEF ReadLocation, ReadIntent, Unlink, dbVars
  <2>3. /\ releaser[e].blob \in Blob /\ Moved(e, releaser[e].blob) /\ releaser[e].pc = from
        /\ releaser'[e].pc = to /\ releaser'[e].blob = releaser[e].blob
    BY <2>1, <2>2, RunnerStep DEF IInv
  <2>4. QED
    BY <1>0, <2>1, <2>2, <2>3, RunnerMoves DEF Owning, LateSteps
<1>26. ASSUME NEW e \in Releasers, CountOthers(e)
     PROVE  IInv'
  <2>1. /\ UNCHANGED <<claims, record, located, stored, writer, rerun>>
        /\ releaser[e].pc = "local" /\ releaser[e].blob \in Blob
    BY <1>26 DEF CountOthers, dbVars, IInv, TypeOK
  <2>2. /\ releaser'[e].pc = "unlink" /\ releaser'[e].blob = releaser[e].blob
        /\ \A f \in Releasers \ {e} : releaser'[f] = releaser[f]
    BY <1>26 DEF CountOthers, IInv, TypeOK, Run
  <2>3. Moved(e, releaser[e].blob)
    BY <2>1, <2>2 DEF IInv, OneRun, Moved, Runs
  <2>4. QED
    BY <1>0, <2>1, <2>2, <2>3, RunnerMoves DEF Owning, LateSteps
<1>27. ASSUME NEW e \in Releasers, UnlinkLast(e)
     PROVE  IInv'
  <2>1. UNCHANGED <<claims, record, located, stored, writer, rerun>> /\ releaser[e].pc = "last"
    BY <1>27 DEF UnlinkLast, dbVars
  <2>2. /\ releaser[e].blob \in Blob /\ Moved(e, releaser[e].blob) /\ releaser'[e].pc = "idle"
    BY <1>27, <2>1, RunnerEnds DEF IInv, UnlinkLast
  <2>3. QED
    BY <1>0, <2>1, <2>2, RunnerMoves DEF Owning, LateSteps
<1>28. ASSUME NEW e \in Releasers, ReleaseFails(e)
     PROVE  IInv'
  <2>0. PICK b \in Blob : releaser[e].blob = b
    BY <1>28, FailAssumption DEF ReleaseFails, IInv, TypeOK
  <2>1. /\ UNCHANGED <<claims, record, located, stored, writer>> /\ rerun \subseteq rerun'
        /\ releaser[e].pc # "idle"
    BY <2>0, <1>28, FailAssumption DEF ReleaseFails, dbVars
  <2>2. b \in Blob /\ Moved(e, b) /\ releaser'[e].pc = "idle"
    BY <2>0, <1>28, <2>1, RunnerEnds DEF IInv, ReleaseFails
  <2>3. releaser[e].pc \in LateSteps => b \in rerun' \/ ~HeldBy(b)
    BY <2>0, <1>28 DEF ReleaseFails
  <2>4. ~HeldBy(b) => Unhurried(b)
    BY <2>0 DEF HeldBy, Unhurried, Fresh, HoldSteps, UploadSteps
  <2>5. QED
    BY <2>0, <1>0, <2>1, <2>2, <2>3, <2>4, RunnerMoves DEF Owning, LateSteps
<1>29. ASSUME NEW e \in Releasers, NEW b \in Blob, ListRelease(e, b)
     PROVE  IInv'
  <2>1. UNCHANGED <<claims, record, located, stored, writer>> /\ rerun \subseteq rerun'
    BY <1>29 DEF ListRelease, dbVars
  <2>2. /\ releaser[e].pc = "idle" /\ releaser'[e].pc = "check" /\ releaser'[e].blob = b
        /\ releaser'[e].started = (record[b] = "started")
        /\ \A f \in Releasers \ {e} : releaser'[f] = releaser[f]
    BY <1>29 DEF IInv, TypeOK, ListRelease, IdleReleaser
  <2>3. Moved(e, b)
    BY <1>29, <2>1, <2>2 DEF ListRelease, Moved, Runs
  <2>4. QED
    BY <1>0, <2>1, <2>2, <2>3, RunnerMoves DEF Owning, LateSteps
<1>30. ASSUME NEW e \in Releasers, LeaveToWrite(e) \/ UnlinkHeld(e)
     PROVE  IInv'
  <2>0. PICK b \in Blob : releaser[e].blob = b
    BY <1>30 DEF LeaveToWrite, UnlinkHeld, DeleteRelease, IInv, TypeOK
  <2>1. /\ UNCHANGED <<claims, located, stored, writer, rerun>>
        /\ record' = [record EXCEPT ![b] = "none"]
        /\ releaser[e].pc \in {"local", "unlink"} /\ EndRelease(e)
    BY <2>0, <1>30 DEF LeaveToWrite, UnlinkHeld, DeleteRelease
  <2>2. b \in Blob /\ Moved(e, b) /\ releaser'[e].pc = "idle"
    BY <2>0, <2>1, RunnerEnds DEF IInv
  <2>3. On(e, LateSteps, b)
    BY <2>0, <2>1 DEF On, LateSteps
  <2>4. QED
    BY <2>0, <1>0, <2>1, <2>2, <2>3, ReleaseEnds DEF IInv, LostStarted
<1>31. ASSUME NEW e \in Releasers, Forget(e)
     PROVE  IInv'
  <2>0. PICK b \in Blob : releaser[e].blob = b
    BY <1>31 DEF Forget, IInv, TypeOK
  <2>1. /\ UNCHANGED <<claims, located, stored, writer, rerun>>
        /\ record' = [record EXCEPT ![b] = "none"]
        /\ releaser[e].pc = "forget"
    BY <2>0, <1>31 DEF Forget
  <2>2. b \in Blob /\ Moved(e, b) /\ releaser'[e].pc \in {"idle", "last"}
    <3>1. CASE releaser' = [releaser EXCEPT ![e].pc = "last"]
      <4>1. ReleaserStep(e, "forget", "last")
        BY <2>1, <3>1 DEF ReleaserStep
      <4>2. QED
        BY <2>0, <2>1, <4>1, RunnerStep DEF IInv
    <3>2. CASE EndRelease(e)
      BY <2>0, <2>1, <3>2, RunnerEnds DEF IInv
    <3>3. QED
      BY <2>0, <1>31, <3>1, <3>2 DEF Forget
  <2>3. On(e, LateSteps, b)
    BY <2>0, <2>1 DEF On, LateSteps
  <2>4. QED
    BY <2>0, <1>0, <2>1, <2>2, <2>3, ReleaseEnds DEF IInv, LostStarted
<1>32. ASSUME NEW e \in Releasers, DropStale(e)
     PROVE  IInv'
  <2>0. PICK b \in Blob : releaser[e].blob = b
    BY <1>32 DEF DropStale, IInv, TypeOK
  <2>1. /\ UNCHANGED <<claims, located, stored, writer, rerun>>
        /\ record' = [record EXCEPT ![b] = "none"]
        /\ releaser[e].pc = "start" /\ record[b] # "started" /\ EndRelease(e)
    BY <2>0, <1>32 DEF DropStale
  <2>2. b \in Blob /\ Moved(e, b) /\ releaser'[e].pc = "idle"
    BY <2>0, <2>1, RunnerEnds DEF IInv
  <2>3. QED
    BY <2>0, <1>0, <2>1, <2>2, ReleaseEnds DEF IInv, LostStarted
<1>33. ASSUME NEW e \in Releasers, CheckHold(e)
     PROVE  IInv'
  <2>0. PICK b \in Blob : releaser[e].blob = b
    BY <1>33 DEF CheckHold, ReleaserStep, IInv, TypeOK
  <2>1. /\ UNCHANGED <<claims, record, located, stored, writer, rerun>>
        /\ releaser[e].pc = "check"
        /\ ReleaserStep(e, "check", releaser'[e].pc)
        /\ releaser'[e].pc = IF ~releaser[e].started /\ HeldBy(b) THEN "defer" ELSE "start"
    BY <2>0, <1>33 DEF CheckHold, ReleaserStep, dbVars, IInv, TypeOK, Run
  <2>2. /\ b \in Blob /\ Moved(e, b) /\ releaser'[e].blob = b
        /\ releaser'[e].started = releaser[e].started
    BY <2>0, <2>1, RunnerStep DEF IInv
  <2>3. ~On(e, LateSteps, b) /\ ~On(e, LateSteps, b)' /\ ~On(e, Owning, b)'
    BY <2>0, <2>1 DEF On, Owning, LateSteps
  <2>4. b \notin rerun /\ releaser[e].started => record[b] = "started"
    BY <2>0, <2>1, <2>2 DEF IInv, ListedStarted, On
  <2>5. Unhurried(b)' = Unhurried(b)
    BY <2>0, <2>1 DEF Unhurried, Fresh, BlobOf
  <2>6. b \notin rerun /\ record[b] = "started" => Unhurried(b)
    BY <2>0, <2>1, <2>2, <2>3, OwnLate DEF IInv
  <2>7. releaser'[e].pc = "start" /\ ~releaser[e].started =>
            Unhurried(b) /\ \A w \in Writers : Waiting(w) => BlobOf(w) # b
    BY <2>0, <2>1 DEF HeldBy, Unhurried, Fresh, Waiting, HoldSteps, UploadSteps
  <2>8. b \notin rerun =>
            /\ Claimed(claims, b) => b \in stored /\ b \in located /\ record[b] # "started"
            /\ b \in located /\ b \notin stored => record[b] = "started"
    BY <2>0, <2>2, ClaimedStands DEF IInv, LostStarted
  <2>9. On(e, {"start"}, b)' => releaser'[e].pc = "start"
    BY <2>0 DEF On
  <2>10. QED
    BY <2>0, <1>0, <2>1, <2>2, <2>3, <2>4, <2>5, <2>6, <2>7, <2>8, <2>9, RunnerKeeps
<1>34. ASSUME NEW e \in Releasers, Defer(e)
     PROVE  IInv'
  <2>0. PICK b \in Blob : releaser[e].blob = b
    BY <1>34 DEF Defer, IInv, TypeOK
  <2>1. /\ UNCHANGED <<claims, located, stored, writer, rerun>> /\ releaser[e].pc = "defer"
        /\ EndRelease(e)
    BY <2>0, <1>34 DEF Defer
  <2>2. b \in Blob /\ Moved(e, b) /\ releaser'[e].pc = "idle"
    BY <2>0, <2>1, RunnerEnds DEF IInv
  <2>3. /\ record'[b] = record[b] \/ (record[b] = "none" /\ record'[b] = "pending")
        /\ \A c \in Blob \ {b} : record'[c] = record[c]
    BY <2>0, <1>34, <2>2 DEF IInv, TypeOK, Defer, EnqueueRelease
  <2>4. /\ ~On(e, LateSteps, b) /\ ~On(e, LateSteps, b)' /\ ~On(e, Owning, b)'
        /\ ~On(e, {"check", "defer", "start"}, b)' /\ ~On(e, {"start"}, b)'
    BY <2>0, <2>1, <2>2 DEF On, Owning, LateSteps
  <2>5. Unhurried(b)' = Unhurried(b)
    BY <2>0, <2>1 DEF Unhurried, Fresh, BlobOf
  <2>6. b \notin rerun /\ record[b] = "started" => Unhurried(b)
    BY <2>0, <2>1, <2>2, <2>4, OwnLate DEF IInv
  <2>7. b \notin rerun =>
            /\ Claimed(claims, b) => b \in stored /\ b \in located /\ record[b] # "started"
            /\ b \in located /\ b \notin stored => record[b] = "started"
    BY <2>0, <2>2, ClaimedStands DEF IInv, LostStarted
  <2>8. QED
    BY <2>0, <1>0, <2>1, <2>2, <2>3, <2>4, <2>5, <2>6, <2>7, RunnerKeeps
<1>35. ASSUME NEW e \in Releasers, StartRelease(e)
     PROVE  IInv'
  <2>0. PICK b \in Blob : releaser[e].blob = b
    BY <1>35 DEF StartRelease, ReleaserStep, IInv, TypeOK
  <2>1. /\ UNCHANGED <<claims, located, stored, writer, rerun>> /\ releaser[e].pc = "start"
        /\ ReleaserStep(e, "start", "locate") /\ record[b] # "none"
        /\ record[b] = "started" \/ ~Claimed(claims, b)
    BY <2>0, <1>35 DEF StartRelease, ReleaserStep
  <2>2. b \in Blob /\ Moved(e, b) /\ releaser'[e].pc = "locate" /\ releaser'[e].blob = b
    BY <2>0, <2>1, RunnerStep DEF IInv
  <2>3. record'[b] = "started" /\ \A c \in Blob \ {b} : record'[c] = record[c]
    BY <2>0, <1>35, <2>2 DEF IInv, TypeOK, StartRelease
  <2>4. On(e, {"start"}, b)
    BY <2>0, <2>1 DEF On
  <2>5. /\ ~On(e, LateSteps, b)' /\ ~On(e, {"check", "defer", "start"}, b)'
        /\ ~On(e, {"start"}, b)'
    BY <2>0, <2>2 DEF On, LateSteps
  <2>6. Unhurried(b)' = Unhurried(b)
    BY <2>0, <2>1 DEF Unhurried, Fresh, BlobOf
  <2>7. b \notin rerun => Unhurried(b)
    BY <2>0, <2>1, <2>4 DEF IInv, UploadAhead, Unhurried
  <2>8. b \notin rerun => ~Claimed(claims, b)
    BY <2>0, <2>1, <2>2, ClaimedStands
  <2>9. QED
    BY <2>0, <1>0, <2>1, <2>2, <2>3, <2>5, <2>6, <2>7, <2>8, RunnerKeeps
<1>36. ASSUME NEW e \in Releasers, RemoveBlob(e) \/ RemoveLost(e)
     PROVE  IInv'
  <2>0. PICK b \in Blob : releaser[e].blob = b
    BY <1>36 DEF RemoveBlob, RemoveLost, ReleaserStep, IInv, TypeOK
  <2>1. /\ UNCHANGED <<claims, located, record, writer, rerun>> /\ stored' = stored \ {b}
        /\ releaser[e].pc = "remove"
        /\ ReleaserStep(e, "remove", "unlocate") \/ EndRelease(e)
    BY <2>0, <1>36 DEF RemoveBlob, RemoveLost, ReleaserStep, dbVars
  <2>2. b \in Blob /\ Moved(e, b) /\ releaser'[e].pc \in {"unlocate", "idle"}
    <3>1. CASE ReleaserStep(e, "remove", "unlocate")
      BY <2>0, <2>1, <3>1, RunnerStep DEF IInv
    <3>2. CASE EndRelease(e)
      BY <2>0, <2>1, <3>2, RunnerEnds DEF IInv
    <3>3. QED
      BY <2>0, <2>1, <3>1, <3>2
  <2>3. On(e, Owning, b) /\ ~On(e, LateSteps, b)
    BY <2>0, <2>1 DEF On, Owning, LateSteps
  <2>4. b \notin rerun => record[b] = "started"
    BY <2>0, <2>2, <2>3 DEF IInv, OwnedStarted
  <2>5. /\ ~On(e, LateSteps, b)' /\ ~On(e, {"check", "defer", "start"}, b)'
        /\ ~On(e, {"start"}, b)'
    BY <2>0, <2>2 DEF On, LateSteps
  <2>6. Unhurried(b)' = Unhurried(b)
    BY <2>0, <2>1 DEF Unhurried, Fresh, BlobOf
  <2>7. b \notin rerun => Unhurried(b)
    BY <2>0, <2>1, <2>2, <2>3, <2>4, OwnLate DEF IInv
  <2>8. b \notin rerun => ~Claimed(claims, b)
    BY <2>0, <2>2, <2>4, ClaimedStands
  <2>9. QED
    BY <2>0, <1>0, <2>1, <2>2, <2>4, <2>5, <2>6, <2>7, <2>8, RunnerKeeps
<1>37. ASSUME NEW e \in Releasers, DeleteLocation(e)
     PROVE  IInv'
  <2>0. PICK b \in Blob : releaser[e].blob = b
    BY <1>37 DEF DeleteLocation, ReleaserStep, IInv, TypeOK
  <2>1. /\ UNCHANGED <<claims, stored, record, writer, rerun>> /\ located' = located \ {b}
        /\ releaser[e].pc = "unlocate" /\ ReleaserStep(e, "unlocate", "local")
    BY <2>0, <1>37 DEF DeleteLocation, ReleaserStep
  <2>2. b \in Blob /\ Moved(e, b) /\ releaser'[e].pc = "local" /\ releaser'[e].blob = b
    BY <2>0, <2>1, RunnerStep DEF IInv
  <2>3. On(e, Owning, b)
    BY <2>0, <2>1 DEF On, Owning
  <2>4. b \notin rerun => record[b] = "started"
    BY <2>0, <2>2, <2>3 DEF IInv, OwnedStarted
  <2>5. /\ On(e, LateSteps, b)' /\ ~On(e, {"check", "defer", "start"}, b)'
        /\ ~On(e, {"start"}, b)'
    BY <2>0, <2>2 DEF On, LateSteps
  <2>6. b \notin rerun => ~Claimed(claims, b)
    BY <2>0, <2>2, <2>4, ClaimedStands
  <2>7. QED
    BY <2>0, <1>0, <2>1, <2>2, <2>4, <2>5, <2>6, RunnerKeeps
<1>38. ASSUME Crash
     PROVE  IInv'
  <2>1. /\ \A w \in Writers : writer'[w].pc = "idle"
        /\ \A e \in Releasers : releaser'[e].pc = "idle"
        /\ UNCHANGED <<claims, record, located, stored, rerun>>
    BY <1>38 DEF Crash, IdleWriter, IdleReleaser, dbVars
  <2>2. \A e \in Releasers : \A b : ~On(e, Owning \cup LateSteps, b)' /\ ~Runs(e, b)'
            /\ ~On(e, Owning, b)' /\ ~On(e, LateSteps, b)' /\ ~On(e, {"start"}, b)'
            /\ ~On(e, {"check", "defer", "start"}, b)'
    BY <2>1 DEF On, Owning, LateSteps, Runs
  <2>3. /\ ClaimsStand' /\ WaitedLocked' /\ UploadStored'
        /\ OwnedStarted' /\ ListedStarted' /\ OneRun'
    BY <2>1, <2>2 DEF IInv, ClaimsStand, WaitedLocked, UploadStored, OwnedStarted,
       ListedStarted, OneRun
  <2>4. LostStarted'
    BY <2>1, <2>2 DEF IInv, LostStarted
  <2>5. \A w \in Writers : ~Lock(w)' /\ ~Fresh(w)' /\ ~Waiting(w)'
    BY <2>1 DEF Lock, Fresh, Waiting, LockSteps, UploadSteps
  <2>6. OneUpload' /\ UploadOwned' /\ UploadAhead' /\ WaitClear'
    BY <2>5 DEF OneUpload, UploadOwned, UploadAhead, WaitClear
  <2>7. QED
    BY <1>0, <2>3, <2>4, <2>6 DEF IInv
<1>39. ASSUME UNCHANGED vars
     PROVE  IInv'
  BY <1>0, <1>39, EnqueueKeeps DEF IInv, ClaimsStand, vars, dbVars
<1>40. QED
  BY <1>1, <1>2, <1>3, <1>4, <1>5, <1>6, <1>7, <1>8, <1>9, <1>10, <1>11, <1>12,
     <1>13, <1>14, <1>15, <1>16, <1>17, <1>18, <1>19, <1>20, <1>21, <1>22, <1>23,
     <1>24, <1>25, <1>26, <1>27, <1>28, <1>29, <1>30, <1>31, <1>32, <1>33, <1>34,
     <1>35, <1>36, <1>37, <1>38, <1>39 DEF Next, Write, Release

-----------------------------------------------------------------------------
(* The files of the writes that hold them.                                 *)

\* A write that holds a file, or may begin to: one that already did, of the
\* same bytes, or one whose file is there.
Holds(v) == writer'[v].pc \in HoldSteps =>
    \/ writer[v].pc \in HoldSteps /\ writer'[v].digest = writer[v].digest
    \/ writer'[v].digest \in spool'

\* The files that are held stay.
Spared == \A d \in Digests : d \in spool /\ Held(d) => d \in spool'

\* A step that spares the held files, under writes that hold no others, keeps
\* every write's file.
LEMMA FilesKept ==
    ASSUME TypeOK, UploadFindsFile, Spared, \A v \in Writers : Holds(v)
    PROVE  UploadFindsFile'
<1>1. ASSUME NEW v \in Writers, writer[v].pc \in HoldSteps PROVE writer[v].digest \in spool'
  <2>1. writer[v].key \in Keys /\ writer[v].digest \in Digests
    BY <1>1 DEF TypeOK, HoldSteps, UploadSteps
  <2>2. HeldBy(<<SpaceOf[writer[v].key], writer[v].digest>>)
    BY <1>1 DEF HeldBy, BlobOf
  <2>3. Held(writer[v].digest)
    BY <2>1, <2>2, SpaceOfAssumption DEF Held
  <2>4. writer[v].digest \in spool
    BY <1>1 DEF UploadFindsFile
  <2>5. QED
    BY <2>1, <2>3, <2>4 DEF Spared
<1>2. QED
  BY <1>1 DEF Holds, UploadFindsFile

\* removeLocal spares a held file.
LEMMA UnheldSpared ==
    ASSUME NEW d, RemoveUnheld(d)
    PROVE  Spared
  BY DEF RemoveUnheld, RemoveLocal, Spared, fsVars

\* A write that moves on, keeping its bytes, holds no other file.
LEMMA MoveHolds ==
    ASSUME TypeOK, NEW w \in Writers, NEW from, NEW to, WriterStep(w, from, to),
           to \in HoldSteps => from \in HoldSteps
    PROVE  \A v \in Writers : Holds(v)
<1>1. \A v \in Writers : v # w => writer'[v] = writer[v]
  BY DEF WriterStep, TypeOK
<1>2. writer'[w].pc = to /\ writer'[w].digest = writer[w].digest /\ writer[w].pc = from
  BY DEF WriterStep, TypeOK, Request
<1>3. QED
  BY <1>1, <1>2 DEF Holds

\* Writes that stay as they are hold what they held.
LEMMA StayHolds ==
    ASSUME writer' = writer
    PROVE  \A v \in Writers : Holds(v)
  BY DEF Holds

\* A write that ends holds nothing.
LEMMA EndHolds ==
    ASSUME TypeOK, NEW w \in Writers, NEW x, writer' = [writer EXCEPT ![w] = x],
           x.pc \notin HoldSteps
    PROVE  \A v \in Writers : Holds(v)
  BY DEF Holds, TypeOK

\* Every step keeps the file of every write that holds one.
LEMMA FileStep ==
    TypeOK /\ UploadFindsFile /\ [Next]_vars => UploadFindsFile'
<1> SUFFICES ASSUME TypeOK, UploadFindsFile, [Next]_vars
             PROVE  Spared /\ \A v \in Writers : Holds(v)
  BY FilesKept
<1>h. /\ {"spooled", "queued", "settle", "locate", "reuse", "mark", "send", "record", "accept"}
             = HoldSteps
      /\ {"idle", "cache", "drop", "commit", "pin"} \cap HoldSteps = {}
  BY DEF HoldSteps, UploadSteps
<1>s. spool' = spool => Spared
  BY DEF Spared
<1>i. IdleWriter.pc \notin HoldSteps
  BY <1>h DEF IdleWriter
<1>1. ASSUME NEW w \in Writers, NEW k \in Keys, NEW d \in Digests, Spool(w, k, d)
      PROVE  Spared /\ \A v \in Writers : Holds(v)
  <2>1. /\ spool' = spool \cup {d} /\ writer'[w].digest = d
        /\ \A v \in Writers : v # w => writer'[v] = writer[v]
    BY <1>1 DEF Spool, TypeOK, IdleWriter
  <2>2. QED
    BY <2>1 DEF Spared, Holds
<1>2. ASSUME NEW w \in Writers, NEW from \in HoldSteps, NEW to, WriterStep(w, from, to),
             spool' = spool
      PROVE  Spared /\ \A v \in Writers : Holds(v)
  BY <1>2, <1>s, MoveHolds
<1>3. ASSUME NEW w \in Writers, NEW from, NEW to \in {"cache", "drop", "commit"},
             WriterStep(w, from, to), Spared
      PROVE  Spared /\ \A v \in Writers : Holds(v)
  BY <1>3, <1>h, MoveHolds
<1>4. ASSUME NEW w \in Writers, writer' = [writer EXCEPT ![w] = IdleWriter], spool' = spool
      PROVE  Spared /\ \A v \in Writers : Holds(v)
  BY <1>4, <1>i, <1>s, EndHolds
<1>5. ASSUME NEW w \in Writers, PutIntent(w) \/ LockBlob(w) \/ Settle(w) \/ Locate(w)
                                \/ MarkUploading(w) \/ Upload(w) \/ RecordLocation(w)
                                \/ MarkAccepted(w)
      PROVE  Spared /\ \A v \in Writers : Holds(v)
  <2>1. spool' = spool /\ \E from \in HoldSteps : \E to : WriterStep(w, from, to)
    BY <1>5, <1>h DEF PutIntent, LockBlob, Settle, Locate, MarkUploading, Upload, RecordLocation,
       MarkAccepted, fsVars
  <2>2. QED
    BY <1>2, <2>1
<1>6. ASSUME NEW w \in Writers, CancelRelease(w) \/ AwaitRelease(w)
      PROVE  Spared /\ \A v \in Writers : Holds(v)
  <2>1. /\ spool' = spool /\ writer[w].pc = "settle"
        /\ writer'[w].digest = writer[w].digest
        /\ \A v \in Writers : v # w => writer'[v] = writer[v]
    BY <1>6 DEF CancelRelease, AwaitRelease, fsVars, TypeOK, Request
  <2>2. QED
    BY <1>h, <1>s, <2>1 DEF Holds
<1>7. ASSUME NEW w \in Writers, Take(w) \/ CountCopies(w) \/ DropCopy(w) \/ KeepCopy(w)
      PROVE  Spared /\ \A v \in Writers : Holds(v)
  <2>1. \E from, to \in {"cache", "drop", "commit"} : WriterStep(w, from, to)
    BY <1>7 DEF Take, CountCopies, DropCopy, KeepCopy
  <2>2. Spared
    BY <1>7, <1>s, UnheldSpared DEF Take, CountCopies, DropCopy, KeepCopy, fsVars, Spared
  <2>3. QED
    BY <1>3, <2>1, <2>2
<1>8. ASSUME NEW w \in Writers, UploadLost(w) \/ Commit(w) \/ Pin(w) \/ Fail(w)
      PROVE  Spared /\ \A v \in Writers : Holds(v)
  BY <1>8, <1>4 DEF UploadLost, Commit, Pin, Fail, fsVars
<1>9. ASSUME NEW w \in Writers, NEW src \in Keys, NEW dst \in Keys, ResolveSource(w, src, dst)
      PROVE  Spared /\ \A v \in Writers : Holds(v)
  <2>1. [IdleWriter EXCEPT !.pc = "pin", !.key = dst, !.digest = claims[src]].pc \notin HoldSteps
    BY <1>h DEF IdleWriter
  <2>2. QED
    BY <1>9, <1>s, <2>1, EndHolds DEF ResolveSource, fsVars
<1>10. ASSUME writer' = writer, spool' = spool
       PROVE  Spared /\ \A v \in Writers : Holds(v)
  BY <1>10, <1>s, StayHolds
<1>11. ASSUME NEW d, RemoveUnheld(d), writer' = writer
       PROVE  Spared /\ \A v \in Writers : Holds(v)
  BY <1>11, UnheldSpared, StayHolds
<1>12. ASSUME NEW e \in Releasers, Release(e) \/ RemoveLost(e) \/ ReleaseFails(e)
       PROVE  Spared /\ \A v \in Writers : Holds(v)
  <2>1. CASE Unlink(e) \/ UnlinkLast(e)
    BY <1>10, <1>11, <2>1 DEF Unlink, UnlinkLast, fsVars
  <2>2. CASE ~(Unlink(e) \/ UnlinkLast(e))
    <3>1. writer' = writer /\ spool' = spool
      BY <1>12, <2>2 DEF Release, RemoveLost, ReleaseFails, ListRelease, CheckHold, Defer,
         StartRelease, DropStale, ReadLocation, ReadIntent, RemoveBlob, DeleteLocation,
         LeaveToWrite, CountOthers, UnlinkHeld, DeleteRelease, Forget, fsVars
    <3>2. QED
      BY <1>10, <3>1
  <2>3. QED
    BY <2>1, <2>2
<1>13. CASE \/ \E k \in Keys : DeleteVersion(k)
            \/ \E b \in Blob : ListEvictable(b)
            \/ \E d \in Digests : ListOrphan(d)
            \/ UNCHANGED vars
  BY <1>10, <1>13 DEF DeleteVersion, ListEvictable, ListOrphan, vars, fsVars
<1>14. CASE RemoveListed
  BY <1>11, <1>14 DEF RemoveListed
<1>15. CASE Crash
  <2>1. spool' = spool /\ \A v \in Writers : writer'[v] = IdleWriter
    BY <1>15 DEF Crash, fsVars
  <2>2. QED
    BY <1>i, <1>s, <2>1 DEF Holds
<1>16. QED
  <2>1. ASSUME NEW w \in Writers, Write(w)
        PROVE  Spared /\ \A v \in Writers : Holds(v)
    BY <1>1, <1>5, <1>6, <1>7, <1>8, <1>9, <2>1 DEF Write
  <2>2. QED
    BY <1>12, <1>13, <1>14, <1>15, <2>1 DEF Next

-----------------------------------------------------------------------------
(* The theorems.                                                           *)

\* The invariant holds of an empty registry, disk and provider.
LEMMA InitInv == Init => IInv
<1> SUFFICES ASSUME Init PROVE IInv
  OBVIOUS
<1>1. /\ \A w \in Writers : writer[w] = IdleWriter
      /\ \A e \in Releasers : releaser[e] = IdleReleaser
  BY DEF Init
<1>2. TypeOK
  BY <1>1, NoneAssumption DEF Init, TypeOK, Request, Run, Blob, IdleWriter,
     IdleReleaser, WriterSteps, ReleaserSteps
<1>3. ClaimsStand /\ OwnedStarted /\ ListedStarted /\ LostStarted /\ WaitedLocked /\ OneRun
  BY <1>1 DEF Init, IdleWriter, IdleReleaser, ClaimsStand, OwnedStarted, ListedStarted,
     LostStarted, WaitedLocked, OneRun, Runs, On, Owning, LateSteps
<1>4. OneUpload /\ UploadStored /\ UploadOwned /\ UploadAhead /\ WaitClear
  BY <1>1 DEF IdleWriter, OneUpload, UploadStored, UploadOwned, UploadAhead,
     WaitClear,
              Lock, Fresh, Waiting, LockSteps, UploadSteps
<1>5. QED
  BY <1>2, <1>3, <1>4 DEF IInv

\* Every row, file set and request stays well typed, for any spaces, bodies,
\* versions, writers and releasers (PutObject, CopyObject, runRelease).
THEOREM BlobTypeCorrect == Spec => []TypeOK
<1>1. Init => TypeOK
  BY InitInv DEF IInv
<1>2. TypeOK /\ [Next]_vars => TypeOK'
  BY TypeStep
<1>3. QED
  BY <1>1, <1>2, PTL DEF Spec

\* For any number of writes, copies, runners of releases and crashes, and
\* whichever steps of a release fail, no version commits, or stays, over a blob
\* the provider does not hold or the registry cannot locate, but for a blob
\* whose release was run twice: two runners had it in hand at once, or it failed
\* past its location delete while a write of the bytes was under way
\* (settleRelease, StartRelease, addClaims, executeRelease).
THEOREM ClaimsSafe == Spec => []ClaimedStored
<1>1. Init => IInv
  BY InitInv
<1>2. IInv /\ [Next]_vars => IInv'
  BY InvStep
<1>3. IInv => ClaimedStored
  BY DEF IInv, ClaimsStand, ClaimedStored
<1>4. QED
  BY <1>1, <1>2, <1>3, PTL DEF Spec

\* A write that holds a blob finds the file it spooled in the spool when it
\* uploads, for any number of writes, releasers and spaces, whatever releases,
\* cache moves, sweeps and crashes do meanwhile (Spool.Hold, removeLocal, Take).
THEOREM FilesAreFound == Spec => []UploadFindsFile
<1>1. Init => TypeOK /\ UploadFindsFile
  <2>1. Init => UploadFindsFile
    BY DEF Init, UploadFindsFile, IdleWriter, HoldSteps, UploadSteps
  <2>2. QED
    BY <2>1, InitInv DEF IInv
<1>2. TypeOK /\ UploadFindsFile /\ [Next]_vars => TypeOK' /\ UploadFindsFile'
  BY TypeStep, FileStep
<1>3. QED
  BY <1>1, <1>2, PTL DEF Spec
=============================================================================
