----------------------------- MODULE Multipart -----------------------------
(***************************************************************************)
(* Multipart uploads with deferred accept (s3frontend/multipart.go,        *)
(* acceptor.go, uploadpartcopy.go; the session, part and park statements   *)
(* of registry/stores_postgres.go).  A part is parked: allocated with the  *)
(* provider and uploaded, not yet accepted.  A background acceptor per     *)
(* upload concludes parked parts; Complete waits for it, concludes what it *)
(* left, and commits an object that claims the blobs; Abort, the sweeper   *)
(* and a replaced part hand blobs to the release path.                     *)
(*                                                                         *)
(* One space and one blob per part; a pass and a completion conclude one   *)
(* blob at a time.  The release path is the one of BlobLifecycle without   *)
(* files and other spaces, with what it does to parks and live parts.      *)
(* Times (TTL, grace, back-off, the hold of a failed conclude) are         *)
(* arbitrary delays.  Bodies streamed while they spool are left out.       *)
(***************************************************************************)
EXTENDS Naturals, FiniteSets

CONSTANTS
    Sessions,   \* upload ids
    Numbers,    \* part numbers
    Digests,    \* what a part may hold
    Requests,   \* UploadPart, UploadPartCopy, Complete and Abort requests,
                \* and the sweeper, under way
    Releasers,  \* who runs releases
    Tasks,      \* the allocations the provider grants
    MaxRequests, \* bound: requests and sweeps taken up
    Outlive,    \* whether a Complete may outlive the sweeper's TTL
    None

ASSUME NoneAssumption == None \notin Sessions \cup Numbers \cup Digests \cup Tasks
ASSUME BoundAssumption == MaxRequests \in Nat /\ Outlive \in BOOLEAN
ASSUME ProcAssumption == Requests \cap Sessions = {}

\* The acceptor of upload u is the process named u.
Procs == Requests \cup Sessions

VARIABLES
    \* Postgres
    session,    \* multipart_sessions.state
    part,       \* multipart_parts: digest and state
    intent,     \* upload_intents.state
    park,       \* blob_parks: the allocation a digest is parked under
    located,    \* blob_locations
    record,     \* blob_release_intents: absent, pending or started
    object,     \* the parts each upload's object was committed with
    claimed,    \* the uploads whose object still holds its claims
    \* the provider
    alloc,      \* each allocation: free, parked, accepted or aborted
    stored,     \* the digests it holds
    \* the process
    proc,       \* the requests and the acceptors' passes
    taken,      \* how many requests were taken up
    releaser,
    \* history
    rerun       \* the digests whose release two runners were at work on at once

dbVars == <<session, part, intent, park, located, record, object, claimed>>
vars   == <<dbVars, alloc, stored, proc, taken, releaser, rerun>>

NoPart   == [digest |-> None, state |-> "none"]
NoParts  == [n \in Numbers |-> None]
Idle     == [op |-> "none", pc |-> "idle", u |-> None, n |-> None, d |-> None,
             t |-> None, settled |-> TRUE, want |-> NoParts, todo |-> {},
             drop |-> {}]
NoRun    == [pc |-> "idle", d |-> None, t |-> None, started |-> FALSE]

Live(u)  == session[u] \in {"open", "completing"}

-----------------------------------------------------------------------------
(* What the process keeps in memory: the lock on a blob (blobKeys), the    *)
(* hold on a spooled file, the mark of a conclude in flight.               *)

LockSteps == {"await", "look", "mark", "send", "parking", "parked", "reuse",
              "unpark", "record", "accept", "relocate", "swapped"}
HoldSteps == {"spooled", "put", "lock", "await", "look", "mark", "send", "parking",
              "parked", "reuse", "record", "accept"}
MarkSteps == {"releasing", "settle", "find", "locate", "relocate", "conclude"}

Locked(d)     == \E p \in Procs : proc[p].pc \in LockSteps /\ proc[p].d = d

HeldBy(d)     == \E p \in Procs : proc[p].op = "part" /\ proc[p].pc \in HoldSteps
                                                    /\ proc[p].d = d

Concluding(d) == \E p \in Procs : proc[p].pc \in MarkSteps /\ proc[p].d = d

-----------------------------------------------------------------------------
(* The registry's statements.                                              *)

LivePartRef(d) == \E u \in Sessions, n \in Numbers : Live(u) /\ part[u][n].digest = d

Claims(cl, d)  == \E u \in cl, n \in Numbers : object[u][n] = d

Enqueue(ds)    == [d \in Digests |-> IF d \in ds /\ record[d] = "none" THEN "pending"
                                     ELSE record[d]]

\* MoveParts: only a row that still names the digest, and is still in state from.
MovePart(u, n, d, from, to) ==
    [part EXCEPT ![u][n] = IF @ = [digest |-> d, state |-> from]
                           THEN [@ EXCEPT !.state = to] ELSE @]

Latch(u, from, to) ==
    /\ session[u] = from
    /\ session' = [session EXCEPT ![u] = to]

CreateMultipartUpload(u) ==
    /\ session[u] = "none"
    /\ session' = [session EXCEPT ![u] = "open"]
    /\ UNCHANGED <<part, intent, park, located, record, object, claimed,
                   alloc, stored, proc, taken, releaser, rerun>>

-----------------------------------------------------------------------------
Step(p, from, to) ==
    /\ proc[p].pc = from
    /\ proc' = [proc EXCEPT ![p].pc = to]

End(p) == proc' = [proc EXCEPT ![p] = Idle]

\* Where a process goes once its blob d is accepted: UploadPart marks its row,
\* an acceptor moves it, and Complete takes the next blob.
Concluded(p) == CASE proc[p].op = "part" -> "move"
                  [] proc[p].op = "accept" -> "promote"
                  [] OTHER -> "next"

\* A completion that fails while it holds the latch reverts it.
Failed(p) ==
    IF /\ proc[p].op = "complete"
       /\ proc[p].pc \notin {"latch", "finish", "orphans", "revert"}
    THEN proc' = [proc EXCEPT ![p] = [Idle EXCEPT !.op = "complete",
                                         !.pc = "revert", !.u = proc[p].u]]
    ELSE End(p)

TakeUp(p) ==
    /\ proc[p].pc = "idle"
    /\ taken < MaxRequests /\ taken' = taken + 1

(* UploadPart and UploadPartCopy: ingestPart.                              *)

\* openSession, and the body spooled and held.
UploadPart(p, u, n, d) ==
    /\ TakeUp(p)
    /\ session[u] = "open"
    /\ proc' = [proc EXCEPT ![p] = [Idle EXCEPT !.op = "part", !.pc = "spooled",
                                        !.u = u, !.n = n, !.d = d]]
    /\ UNCHANGED <<dbVars, alloc, stored, releaser, rerun>>

\* splitSpool's last step, whatever state an earlier write of the bytes reached.
PutIntent(p) ==
    /\ Step(p, "spooled", "put")
    /\ intent' = [intent EXCEPT ![proc[p].d] = "spooled"]
    /\ UNCHANGED <<session, part, park, located, record, object, claimed,
                   alloc, stored, taken, releaser, rerun>>

\* One transaction: the row, only while the session is open, and the release
\* of the digest it replaces.
PutPart(p) ==
    LET u == proc[p].u  n == proc[p].n  d == proc[p].d IN
    /\ Step(p, "put", "lock")
    /\ session[u] = "open"
    /\ part' = [part EXCEPT ![u][n] = [digest |-> d, state |-> "spooled"]]
    /\ record' = Enqueue({part[u][n].digest} \ {None, d})
    /\ UNCHANGED <<session, intent, park, located, object, claimed,
                   alloc, stored, taken, releaser, rerun>>

\* No longer open: the hold ends, then the blob is released.
PutPartRefused(p) ==
    /\ Step(p, "put", "unput")
    /\ session[proc[p].u] # "open"
    /\ UNCHANGED <<dbVars, alloc, stored, taken, releaser, rerun>>

ReleaseUnput(p) ==
    /\ proc[p].pc = "unput"
    /\ record' = Enqueue({proc[p].d})
    /\ End(p)
    /\ UNCHANGED <<session, part, intent, park, located, object, claimed,
                   alloc, stored, taken, releaser, rerun>>

-----------------------------------------------------------------------------
(* parkBlob and uploadNeverParked, under the blob's lock.                  *)

LockBlob(p) ==
    /\ proc[p].pc = "lock" /\ ~Locked(proc[p].d)
    /\ proc' = [proc EXCEPT ![p].pc = "await", ![p].settled = TRUE]
    /\ UNCHANGED <<dbVars, alloc, stored, taken, releaser, rerun>>

\* awaitRelease leaves a pending record standing; settleRelease, Complete's,
\* cancels it.  A started one is waited out, and its location not trusted.
Settle(p, from, to) ==
    LET d == proc[p].d IN
    /\ proc[p].pc = from
    /\ proc' = [proc EXCEPT
            ![p].pc = IF record[d] = "started" THEN from ELSE to,
            ![p].settled = IF record[d] = "none" THEN @ ELSE record[d] = "pending"]
    /\ record' = [record EXCEPT ![d] = IF @ = "pending" /\ proc[p].op = "complete"
                                       THEN "none" ELSE @]
    /\ UNCHANGED <<session, part, intent, park, located, object, claimed,
                   alloc, stored, taken, releaser, rerun>>

Await(p) == Settle(p, "await", "look")

\* The rows say what is left to do; a missing intent fails the request.
Look(p) ==
    LET d == proc[p].d
        reusable == d \in located /\ proc[p].settled IN
    /\ proc[p].pc = "look"
    /\ \/ /\ reusable
          /\ Step(p, "look", "accept")
       \/ /\ ~reusable /\ park[d] # None
          /\ proc' = [proc EXCEPT ![p].settled = TRUE,
                        ![p].pc = IF proc[p].op = "part" THEN "reuse" ELSE "settle"]
       \/ /\ ~reusable /\ park[d] = None /\ intent[d] # "none"
          /\ Step(p, "look", "mark")
    /\ UNCHANGED <<dbVars, alloc, stored, taken, releaser, rerun>>

SetIntent(p, from, to, state) ==
    /\ Step(p, from, to)
    /\ intent[proc[p].d] # "none"
    /\ intent' = [intent EXCEPT ![proc[p].d] = state]
    /\ UNCHANGED <<session, part, park, located, record, object, claimed,
                   alloc, stored, taken, releaser, rerun>>

MarkUploading(p) == SetIntent(p, "mark", "send", "uploading")
MarkParked(p)    == SetIntent(p, "parked", "move", "parked")
ReuseParked(p)   == SetIntent(p, "reuse", "move", "parked")
MarkAccepted(p)  == SetIntent(p, "accept",
                        IF proc[p].op = "part" THEN "unpark" ELSE Concluded(p), "accepted")

\* UploadBlob, the conclude deferred: an allocation of its own, unless the
\* provider holds the blob and answers with its location.
UploadDeferred(p, t) ==
    /\ proc[p].op = "part" /\ proc[p].pc = "send"
    /\ alloc[t] = "free"
    /\ IF proc[p].d \in stored
       THEN /\ proc' = [proc EXCEPT ![p].pc = "record"]
            /\ UNCHANGED alloc
       ELSE /\ proc' = [proc EXCEPT ![p].pc = "parking", ![p].t = t]
            /\ alloc' = [alloc EXCEPT ![t] = "parked"]
    /\ UNCHANGED <<dbVars, stored, taken, releaser, rerun>>

\* UploadBlob with the conclude: the provider accepts it.
UploadConcluding(p) ==
    /\ proc[p].op = "complete" /\ Step(p, "send", "record")
    /\ stored' = stored \cup {proc[p].d}
    /\ UNCHANGED <<dbVars, alloc, taken, releaser, rerun>>

\* PutPark: a park already there wins, and this allocation is aborted.
PutPark(p) ==
    LET d == proc[p].d  t == proc[p].t IN
    /\ Step(p, "parking", "parked")
    /\ park' = [park EXCEPT ![d] = IF @ = None THEN t ELSE @]
    /\ alloc' = [alloc EXCEPT ![t] = IF park[d] = None THEN @ ELSE "aborted"]
    /\ UNCHANGED <<session, part, intent, located, record, object, claimed,
                   stored, taken, releaser, rerun>>

\* recordAccepted: the location first, then the intent.
PutLocation(p) ==
    /\ Step(p, "record", "accept")
    /\ located' = located \cup {proc[p].d}
    /\ UNCHANGED <<session, part, intent, park, record, object, claimed,
                   alloc, stored, taken, releaser, rerun>>

\* reuseLocatedPart drops a park left beside the location.
DeletePark(p) ==
    /\ Step(p, "unpark", "move")
    /\ park' = [park EXCEPT ![proc[p].d] = None]
    /\ UNCHANGED <<session, part, intent, located, record, object, claimed,
                   alloc, stored, taken, releaser, rerun>>

\* The row is marked parked and the acceptor nudged.  A row that was replaced
\* meanwhile is not, and the blob is released.
MarkPartParked(p) ==
    LET u == proc[p].u  n == proc[p].n  d == proc[p].d
        moved == part[u][n] = [digest |-> d, state |-> "spooled"] IN
    /\ proc[p].pc = "move"
    /\ part' = MovePart(u, n, d, "spooled", "parked")
    /\ record' = IF moved THEN record ELSE Enqueue({d})
    /\ End(p)
    /\ UNCHANGED <<session, intent, park, located, object, claimed,
                   alloc, stored, taken, releaser, rerun>>

-----------------------------------------------------------------------------
(* The acceptor: acceptPass, one blob at a time.                           *)

\* The session is read, a queued part listed and its blob marked.
StartPass(u, n) ==
    /\ proc[u].pc = "idle"
    /\ Live(u) /\ part[u][n].state = "parked"
    /\ proc' = [proc EXCEPT ![u] = [Idle EXCEPT !.op = "accept", !.pc = "releasing",
                                        !.u = u, !.n = n, !.d = part[u][n].digest]]
    /\ UNCHANGED <<dbVars, alloc, stored, taken, releaser, rerun>>

\* ReleasingDigests: a blob with a release record is left to Complete.
ReadReleasing(p) ==
    /\ Step(p, "releasing", IF record[proc[p].d] = "none" THEN "find" ELSE "respool")
    /\ UNCHANGED <<dbVars, alloc, stored, taken, releaser, rerun>>

\* acceptParked: located, parked, or neither.
Find(p) ==
    LET d == proc[p].d IN
    /\ proc[p].pc = "find"
    /\ proc' = [proc EXCEPT
            ![p].pc = IF d \in located /\ proc[p].settled THEN "locate"
                      ELSE IF park[d] # None THEN "conclude"
                      ELSE IF proc[p].op = "accept" THEN "respool" ELSE "lock",
            ![p].t = IF d \in located /\ proc[p].settled THEN None ELSE park[d]]
    /\ UNCHANGED <<dbVars, alloc, stored, taken, releaser, rerun>>

\* markLocated takes the blob's lock and looks again.
LockLocated(p) ==
    /\ ~Locked(proc[p].d)
    /\ Step(p, "locate", IF proc[p].d \in located THEN "relocate"
                         ELSE IF proc[p].op = "accept" THEN "respool" ELSE "lock")
    /\ UNCHANGED <<dbVars, alloc, stored, taken, releaser, rerun>>

MarkLocated(p) ==
    LET d == proc[p].d IN
    /\ Step(p, "relocate", Concluded(p))
    /\ intent[d] # "none"
    /\ intent' = [intent EXCEPT ![d] = "accepted"]
    /\ park' = [park EXCEPT ![d] = None]
    /\ UNCHANGED <<session, part, located, record, object, claimed,
                   alloc, stored, taken, releaser, rerun>>

\* ConcludeBlobs: the provider accepts the allocation; an accepted one answers
\* again from its receipt.
Accepts(t, d) ==
    /\ alloc' = [alloc EXCEPT ![t] = "accepted"]
    /\ stored' = IF alloc[t] = "parked" THEN stored \cup {d} ELSE stored

Conclude(p) ==
    /\ Step(p, "conclude", "swap")
    /\ alloc[proc[p].t] # "aborted"
    /\ Accepts(proc[p].t, proc[p].d)
    /\ UNCHANGED <<dbVars, taken, releaser, rerun>>

\* The answer is lost.
ConcludeFails(p) ==
    /\ proc[p].pc = "conclude"
    /\ Accepts(proc[p].t, proc[p].d)
    /\ Failed(p)
    /\ UNCHANGED <<dbVars, taken, releaser, rerun>>

\* recordConcluded takes the blob's lock; ConcludePark swaps the park concluded
\* for a location in one transaction; a park gone meanwhile, with no location, is an error.
SwapPark(p) ==
    LET d == proc[p].d IN
    /\ Step(p, "swap", "swapped")
    /\ ~Locked(d)
    /\ \/ /\ park[d] = proc[p].t
          /\ park' = [park EXCEPT ![d] = None]
          /\ located' = located \cup {d}
       \/ /\ park[d] # proc[p].t /\ d \in located
          /\ UNCHANGED <<park, located>>
    /\ UNCHANGED <<session, part, intent, record, object, claimed,
                   alloc, stored, taken, releaser, rerun>>

\* recordConcluded: an intent that is gone is no error.
MarkConcluded(p) ==
    /\ Step(p, "swapped", Concluded(p))
    /\ intent' = [intent EXCEPT ![proc[p].d] = IF @ = "none" THEN @ ELSE "accepted"]
    /\ UNCHANGED <<session, part, park, located, record, object, claimed,
                   alloc, stored, taken, releaser, rerun>>

\* acceptPass moves the part, and another pass follows.
EndPass(p) ==
    LET u == proc[p].u  n == proc[p].n  d == proc[p].d IN
    /\ proc[p].op = "accept" /\ proc[p].pc \in {"promote", "respool"}
    /\ part' = MovePart(u, n, d, "parked",
                        IF proc[p].pc = "promote" THEN "accepted" ELSE "spooled")
    /\ End(p)
    /\ UNCHANGED <<session, intent, park, located, record, object, claimed,
                   alloc, stored, taken, releaser, rerun>>

-----------------------------------------------------------------------------
(* CompleteMultipartUpload.                                                *)

\* Mutant: part numbers without a row are released too.
CompleteLoose(p, u, W) ==
    /\ TakeUp(p)
    /\ session[u] \in {"open", "completing"}
    /\ W # {} /\ \A n \in W : part[u][n] # NoPart
    /\ LET want == [n \in Numbers |-> IF n \in W THEN part[u][n].digest ELSE None]
           have == {part[u][n].digest : n \in Numbers} IN
       proc' = [proc EXCEPT ![p] = [Idle EXCEPT !.op = "complete", !.pc = "latch",
                    !.u = u, !.want = want,
                    !.drop = have \ {want[n] : n \in W}]]
    /\ UNCHANGED <<dbVars, alloc, stored, releaser, rerun>>

\* The parts listed are checked against the rows; the others are dropped by
\* the commit.
Complete(p, u, W) ==
    /\ TakeUp(p)
    /\ session[u] \in {"open", "completing"}
    /\ W # {} /\ \A n \in W : part[u][n] # NoPart
    /\ LET want == [n \in Numbers |-> IF n \in W THEN part[u][n].digest ELSE None]
           have == {part[u][n].digest : n \in Numbers} IN
       proc' = [proc EXCEPT ![p] = [Idle EXCEPT !.op = "complete", !.pc = "latch",
                    !.u = u, !.want = want,
                    !.drop = have \ ({want[n] : n \in W} \cup {None})]]
    /\ UNCHANGED <<dbVars, alloc, stored, releaser, rerun>>

LatchCompleting(p) ==
    /\ Step(p, "latch", "review")
    /\ Latch(proc[p].u, "open", "completing")
    /\ UNCHANGED <<part, intent, park, located, record, object, claimed,
                   alloc, stored, taken, releaser, rerun>>

Wanted(p)  == {n \in Numbers : proc[p].want[n] # None}
Listed(p)  == {proc[p].want[n] : n \in Wanted(p)}
Current(p) == \A n \in Wanted(p) : part[proc[p].u][n].digest = proc[p].want[n]

\* Mutant: the rows are not compared with the ones the client's list was
\* checked against.
AcceptReplaced(p) ==
    LET u == proc[p].u IN
    /\ proc[p].pc = "review"
    /\ proc' = [proc EXCEPT ![p].pc = "next",
            ![p].todo = {proc[p].want[n] : n \in {m \in Wanted(p) :
                                               part[u][m].state # "accepted"}}]
    /\ UNCHANGED <<dbVars, alloc, stored, taken, releaser, rerun>>

\* What the acceptor left, and with no acceptor running what is queued, is
\* concluded inline.
AcceptRequested(p) ==
    LET u == proc[p].u IN
    /\ proc[p].pc = "review" /\ Current(p)
    /\ proc' = [proc EXCEPT ![p].pc = "next",
            ![p].todo = {proc[p].want[n] : n \in {m \in Wanted(p) :
                                               part[u][m].state # "accepted"}}]
    /\ UNCHANGED <<dbVars, alloc, stored, taken, releaser, rerun>>

\* acceptParked for the commit: the blob is marked, then its release settled.
ConcludeNext(p, d) ==
    /\ proc[p].pc = "next" /\ d \in proc[p].todo
    /\ proc' = [proc EXCEPT ![p].pc = "settle", ![p].d = d, ![p].settled = TRUE,
                            ![p].todo = @ \ {d}]
    /\ UNCHANGED <<dbVars, alloc, stored, taken, releaser, rerun>>

SettleRelease(p) == Settle(p, "settle", "find")

PromoteParts(p) ==
    LET u == proc[p].u IN
    /\ proc[p].pc = "next" /\ proc[p].todo = {}
    /\ proc' = [proc EXCEPT ![p].pc = "commit", ![p].d = None, ![p].t = None,
                            ![p].settled = TRUE]
    /\ part' = [part EXCEPT ![u] = [n \in Numbers |->
            IF n \in Wanted(p) /\ @[n].digest = proc[p].want[n]
            THEN [@[n] EXCEPT !.state = "accepted"] ELSE @[n]]]
    /\ UNCHANGED <<session, intent, park, located, record, object, claimed,
                   alloc, stored, taken, releaser, rerun>>

\* addClaims' refusal.
ClaimRefused(ds) == \E d \in ds : record[d] = "started" \/ d \notin located

\* Mutant: the latch is not checked again under the bucket's lock.
CommitUnlatched(p) ==
    LET u == proc[p].u IN
    /\ Step(p, "commit", "finish")
    /\ ~ClaimRefused(Listed(p))
    /\ object' = [object EXCEPT ![u] = proc[p].want]
    /\ claimed' = claimed \cup {u}
    /\ intent' = [d \in Digests |-> IF d \in Listed(p) /\ intent[d] # "none"
                                    THEN "published" ELSE intent[d]]
    /\ UNCHANGED <<session, part, park, located, record,
                   alloc, stored, taken, releaser, rerun>>

\* commitVersionAt, under the bucket's lock: the latch must still hold, and
\* the claims land with the root or nothing does.
CommitVersion(p) ==
    LET u == proc[p].u IN
    /\ Step(p, "commit", "finish")
    /\ session[u] = "completing"
    /\ ~ClaimRefused(Listed(p))
    /\ object' = [object EXCEPT ![u] = proc[p].want]
    /\ claimed' = claimed \cup {u}
    /\ intent' = [d \in Digests |-> IF d \in Listed(p) /\ intent[d] # "none"
                                    THEN "published" ELSE intent[d]]
    /\ UNCHANGED <<session, part, park, located, record,
                   alloc, stored, taken, releaser, rerun>>

\* CompleteSession; when it fails the row stays completing for the sweeper.
CompleteSession(p) ==
    LET u == proc[p].u IN
    /\ Step(p, "finish", "orphans")
    /\ \/ Latch(u, "completing", "completed")
       \/ UNCHANGED session
    /\ UNCHANGED <<part, intent, park, located, record, object, claimed,
                   alloc, stored, taken, releaser, rerun>>

\* The parts the client did not list are released.
ReleaseOrphans(p) ==
    /\ proc[p].pc = "orphans"
    /\ record' = Enqueue(proc[p].drop)
    /\ End(p)
    /\ UNCHANGED <<session, part, intent, park, located, object, claimed,
                   alloc, stored, taken, releaser, rerun>>

\* A Complete that failed after its latch puts the session back.
Revert(p) ==
    LET u == proc[p].u IN
    /\ proc[p].pc = "revert"
    /\ session' = [session EXCEPT ![u] = IF @ = "completing" THEN "open" ELSE @]
    /\ End(p)
    /\ UNCHANGED <<part, intent, park, located, record, object, claimed,
                   alloc, stored, taken, releaser, rerun>>

\* DeleteObject of what the upload became.
DeleteObject(u) ==
    /\ u \in claimed
    /\ claimed' = claimed \ {u}
    /\ record' = Enqueue({d \in Digests : Claims({u}, d) /\ ~Claims(claimed', d)})
    /\ UNCHANGED <<session, part, intent, park, located, object,
                   alloc, stored, proc, taken, releaser, rerun>>

-----------------------------------------------------------------------------
(* AbortMultipartUpload and SweepStaleMultipartSessions.                   *)

Teardown(p, u) ==
    /\ TakeUp(p)
    /\ proc' = [proc EXCEPT ![p] = [Idle EXCEPT !.op = "abort", !.pc = "quiesce",
                                                !.u = u]]
    /\ UNCHANGED <<part, intent, park, located, record, object, claimed,
                   alloc, stored, releaser, rerun>>

\* A client's Abort, DeleteBucket's, and the sweep of a stale open session.
Abort(p, u) == Teardown(p, u) /\ Latch(u, "open", "aborting")

\* The sweep of a session stuck completing, aborting or completed.
SweepStale(p, u) ==
    /\ Teardown(p, u)
    /\ \/ /\ Latch(u, "completing", "aborting")
          /\ Outlive \/ \A q \in Requests : proc[q].op = "complete" => proc[q].u # u
       \/ session[u] \in {"aborting", "completed"} /\ UNCHANGED session

\* quiesceAcceptor: the pass in flight is waited out.
Quiesce(p) ==
    /\ Step(p, "quiesce", "list")
    /\ proc[proc[p].u].pc = "idle"
    /\ UNCHANGED <<dbVars, alloc, stored, taken, releaser, rerun>>

\* recordSessionReleases: the blobs of the parts, without the published and
\* the released ones ...
ReadIntents(p) ==
    LET u == proc[p].u IN
    /\ proc[p].pc = "list"
    /\ proc' = [proc EXCEPT ![p].pc = "enqueue",
            ![p].todo = {d \in {part[u][n].digest : n \in Numbers} \ {None} :
                             intent[d] \notin {"none", "published"}}]
    /\ UNCHANGED <<dbVars, alloc, stored, taken, releaser, rerun>>

\* ... are released, before the rows that name them go.
RecordReleases(p) ==
    /\ Step(p, "enqueue", "delete")
    /\ record' = Enqueue(proc[p].todo)
    /\ UNCHANGED <<session, part, intent, park, located, object, claimed,
                   alloc, stored, taken, releaser, rerun>>

DeleteSession(p) ==
    LET u == proc[p].u IN
    /\ proc[p].pc = "delete"
    /\ session' = [session EXCEPT ![u] = "gone"]
    /\ part' = [part EXCEPT ![u] = [n \in Numbers |-> NoPart]]
    /\ End(p)
    /\ UNCHANGED <<intent, park, located, record, object, claimed,
                   alloc, stored, taken, releaser, rerun>>

\* A request or a pass fails at any step; a conflicting Complete gives up.
Fail(p) ==
    /\ proc[p].pc # "idle"
    /\ Failed(p)
    /\ UNCHANGED <<dbVars, alloc, stored, taken, releaser, rerun>>

-----------------------------------------------------------------------------
(* Releases: runRelease and executeRelease.                                *)

RunStep(e, from, to) ==
    /\ releaser[e].pc = from
    /\ releaser' = [releaser EXCEPT ![e].pc = to]

\* A run past StartRelease.
Owning     == {"probe", "abort", "remove", "unpark", "unlocate", "forget"}
Runs(e, d) == releaser[e].pc \in Owning /\ releaser[e].d = d

EndRun(e) == releaser' = [releaser EXCEPT ![e] = NoRun]

\* A record is read, by the sweep or by the request that enqueued it.
ListRelease(e, d) ==
    /\ releaser[e].pc = "idle" /\ record[d] # "none"
    /\ releaser' = [releaser EXCEPT ![e] = [NoRun EXCEPT !.pc = "check", !.d = d,
                                               !.started = (record[d] = "started")]]
    /\ UNCHANGED <<dbVars, alloc, stored, proc, taken, rerun>>

\* runRelease: one not yet started waits for a hold or a conclude in flight.
CheckHold(e) ==
    LET x == releaser[e] IN
    /\ RunStep(e, "check", IF ~x.started /\ (HeldBy(x.d) \/ Concluding(x.d))
                           THEN "defer" ELSE "start")
    /\ UNCHANGED <<dbVars, alloc, stored, proc, taken, rerun>>

\* SweepPendingReleases puts a deferred record back; releaseNow leaves it.
Defer(e) ==
    /\ releaser[e].pc = "defer"
    /\ record' = Enqueue({releaser[e].d}) \/ UNCHANGED record
    /\ EndRun(e)
    /\ UNCHANGED <<session, part, intent, park, located, object, claimed,
                   alloc, stored, proc, taken, rerun>>

\* Mutant: the claims are not counted.
StartUnclaimed(e) ==
    LET d == releaser[e].d IN
    /\ RunStep(e, "start", "probe")
    /\ record[d] = "started" \/ (record[d] = "pending" /\ ~LivePartRef(d))
    /\ record' = [record EXCEPT ![d] = "started"]
    /\ rerun' = IF \E f \in Releasers \ {e} : Runs(f, d) THEN rerun \cup {d} ELSE rerun
    /\ UNCHANGED <<session, part, intent, park, located, object, claimed,
                   alloc, stored, proc, taken>>

\* StartRelease, under the claim-key lock.
StartRelease(e) ==
    LET d == releaser[e].d IN
    /\ RunStep(e, "start", "probe")
    /\ \/ record[d] = "started"
       \/ record[d] = "pending" /\ ~LivePartRef(d) /\ ~Claims(claimed, d)
    /\ record' = [record EXCEPT ![d] = "started"]
    /\ rerun' = IF \E f \in Releasers \ {e} : Runs(f, d) THEN rerun \cup {d} ELSE rerun
    /\ UNCHANGED <<session, part, intent, park, located, object, claimed,
                   alloc, stored, proc, taken>>

\* A live part names the blob: deferred.
StartReferenced(e) ==
    LET d == releaser[e].d IN
    /\ RunStep(e, "start", "defer")
    /\ record[d] = "pending" /\ LivePartRef(d)
    /\ UNCHANGED <<dbVars, alloc, stored, proc, taken, rerun>>

\* Cancelled by a completion, or claimed and deleted as stale.
StartStale(e) ==
    LET d == releaser[e].d IN
    /\ releaser[e].pc = "start"
    /\ \/ record[d] = "none"
       \/ record[d] = "pending" /\ ~LivePartRef(d) /\ Claims(claimed, d)
    /\ record' = [record EXCEPT ![d] = "none"]
    /\ EndRun(e)
    /\ UNCHANGED <<session, part, intent, park, located, object, claimed,
                   alloc, stored, proc, taken, rerun>>

\* executeRelease reads the location, the park and the intent.
Probe(e) ==
    LET d == releaser[e].d IN
    /\ releaser[e].pc = "probe"
    /\ releaser' = [releaser EXCEPT
            ![e].pc = IF d \in located THEN "remove"
                      ELSE IF park[d] # None THEN "abort"
                      ELSE IF intent[d] = "spooled" THEN "unpark" ELSE "remove",
            ![e].t = IF d \in located THEN None ELSE park[d]]
    /\ UNCHANGED <<dbVars, alloc, stored, proc, taken, rerun>>

\* AbortBlob; an allocation accepted meanwhile is removed as a blob.
AbortBlob(e) ==
    LET t == releaser[e].t IN
    /\ RunStep(e, "abort", IF alloc[t] = "accepted" THEN "remove" ELSE "unpark")
    /\ alloc' = [alloc EXCEPT ![t] = IF @ = "accepted" THEN @ ELSE "aborted"]
    /\ UNCHANGED <<dbVars, stored, proc, taken, rerun>>

RemoveBlob(e) ==
    /\ RunStep(e, "remove", "unpark")
    /\ stored' = stored \ {releaser[e].d}
    /\ UNCHANGED <<dbVars, alloc, proc, taken, rerun>>

\* The park row goes before the location row.
DropPark(e) ==
    /\ RunStep(e, "unpark", "unlocate")
    /\ park' = [park EXCEPT ![releaser[e].d] = None]
    /\ UNCHANGED <<session, part, intent, located, record, object, claimed,
                   alloc, stored, proc, taken, rerun>>

DropLocation(e) ==
    /\ RunStep(e, "unlocate", "forget")
    /\ located' = located \ {releaser[e].d}
    /\ UNCHANGED <<session, part, intent, park, record, object, claimed,
                   alloc, stored, proc, taken, rerun>>

\* With a write holding the file only the record goes; else the intent too.
Forget(e) ==
    LET d == releaser[e].d IN
    /\ releaser[e].pc = "forget"
    /\ intent' = [intent EXCEPT ![d] = IF HeldBy(d) THEN @ ELSE "none"]
    /\ record' = [record EXCEPT ![d] = "none"]
    /\ EndRun(e)
    /\ UNCHANGED <<session, part, park, located, object, claimed,
                   alloc, stored, proc, taken, rerun>>

\* A step fails, its effect on the provider done or not; the sweep retries.
ReleaseFails(e) ==
    /\ releaser[e].pc # "idle"
    /\ EndRun(e)
    /\ stored' = IF releaser[e].pc = "remove" THEN stored \ {releaser[e].d} ELSE stored
    /\ UNCHANGED <<dbVars, alloc, proc, taken, rerun>>

\* The process dies and restarts.
Crash ==
    /\ proc' = [p \in Procs |-> Idle]
    /\ releaser' = [e \in Releasers |-> NoRun]
    /\ UNCHANGED <<dbVars, alloc, stored, taken, rerun>>

-----------------------------------------------------------------------------
Init ==
    /\ session = [u \in Sessions |-> "none"]
    /\ part = [u \in Sessions |-> [n \in Numbers |-> NoPart]]
    /\ intent = [d \in Digests |-> "none"]
    /\ park = [d \in Digests |-> None]
    /\ located = {} /\ stored = {} /\ claimed = {}
    /\ record = [d \in Digests |-> "none"]
    /\ object = [u \in Sessions |-> NoParts]
    /\ alloc = [t \in Tasks |-> "free"]
    /\ proc = [p \in Procs |-> Idle]
    /\ taken = 0 /\ rerun = {}
    /\ releaser = [e \in Releasers |-> NoRun]

\* The steps shared by the requests and the acceptors.
ConcludeSteps(p) ==
    \/ Find(p) \/ LockLocated(p) \/ MarkLocated(p) \/ Conclude(p)
    \/ SwapPark(p) \/ MarkConcluded(p)

UploadPartSteps(p) ==
    \/ \E u \in Sessions, n \in Numbers, d \in Digests : UploadPart(p, u, n, d)
    \/ PutIntent(p) \/ PutPart(p) \/ PutPartRefused(p) \/ ReleaseUnput(p)
    \/ LockBlob(p) \/ Await(p) \/ Look(p) \/ MarkUploading(p)
    \/ \E t \in Tasks : UploadDeferred(p, t)
    \/ UploadConcluding(p) \/ PutPark(p) \/ MarkParked(p) \/ ReuseParked(p)
    \/ PutLocation(p) \/ MarkAccepted(p) \/ DeletePark(p) \/ MarkPartParked(p)

CompleteSteps(p) ==
    \/ \E u \in Sessions, W \in SUBSET Numbers : Complete(p, u, W)
    \/ LatchCompleting(p) \/ AcceptRequested(p)
    \/ \E d \in Digests : ConcludeNext(p, d)
    \/ SettleRelease(p) \/ PromoteParts(p) \/ CommitVersion(p)
    \/ CompleteSession(p) \/ ReleaseOrphans(p) \/ Revert(p)

TeardownSteps(p) ==
    \/ \E u \in Sessions : Abort(p, u) \/ SweepStale(p, u)
    \/ Quiesce(p) \/ ReadIntents(p) \/ RecordReleases(p) \/ DeleteSession(p)

Pass(u) ==
    \/ \E n \in Numbers : StartPass(u, n)
    \/ ReadReleasing(u) \/ EndPass(u)

Release(e) ==
    \/ \E d \in Digests : ListRelease(e, d)
    \/ CheckHold(e) \/ Defer(e) \/ StartRelease(e) \/ StartReferenced(e)
    \/ StartStale(e) \/ Probe(e) \/ AbortBlob(e) \/ RemoveBlob(e)
    \/ DropPark(e) \/ DropLocation(e) \/ Forget(e)

Next ==
    \/ \E u \in Sessions : CreateMultipartUpload(u) \/ Pass(u)
                             \/ DeleteObject(u)
    \/ \E p \in Procs : ConcludeSteps(p) \/ ConcludeFails(p) \/ Fail(p)
    \/ \E p \in Requests : UploadPartSteps(p) \/ CompleteSteps(p) \/ TeardownSteps(p)
    \/ \E e \in Releasers : Release(e) \/ ReleaseFails(e)
    \/ Crash

Spec == Init /\ [][Next]_vars

-----------------------------------------------------------------------------
(* Properties.                                                             *)

ProcSteps == LockSteps \cup HoldSteps \cup MarkSteps
             \cup {"idle", "unput", "move", "respool", "promote", "swap", "latch",
                   "review", "next", "commit", "finish", "orphans", "revert",
                   "quiesce", "list", "enqueue", "delete"}
RunSteps  == {"idle", "check", "defer", "start", "probe", "abort", "remove", "unpark",
              "unlocate", "forget"}

\* Every row, allocation and process is well typed.
TypeOK ==
    /\ session \in [Sessions -> {"none", "open", "completing", "completed",
                                 "aborting", "gone"}]
    /\ part \in [Sessions -> [Numbers -> [digest : Digests \cup {None},
                    state : {"none", "spooled", "parked", "accepted"}]]]
    /\ intent \in [Digests -> {"none", "spooled", "uploading", "parked",
                               "accepted", "published"}]
    /\ park \in [Digests -> Tasks \cup {None}]
    /\ located \subseteq Digests /\ stored \subseteq Digests /\ rerun \subseteq Digests
    /\ record \in [Digests -> {"none", "pending", "started"}]
    /\ object \in [Sessions -> [Numbers -> Digests \cup {None}]]
    /\ claimed \subseteq Sessions /\ taken \in 0..MaxRequests
    /\ alloc \in [Tasks -> {"free", "parked", "accepted", "aborted"}]
    /\ proc \in [Procs -> [op : {"none", "part", "accept", "complete", "abort"},
            pc : ProcSteps, u : Sessions \cup {None}, n : Numbers \cup {None},
            d : Digests \cup {None}, t : Tasks \cup {None}, settled : BOOLEAN,
            want : [Numbers -> Digests \cup {None}], todo : SUBSET Digests,
            drop : SUBSET Digests]]
    /\ releaser \in [Releasers -> [pc : RunSteps, d : Digests \cup {None},
            t : Tasks \cup {None}, started : BOOLEAN]]

\* An object's blobs stay located, and no release of them has started, for as
\* long as it holds its claims, whatever part uploads, aborts, sweeps, replaced
\* parts and deletes of the same bytes do meanwhile (StartRelease's counts
\* against addClaims, under the claim-key lock).  The exceptions are the
\* digests of rerun: the slower of two runs of one release deletes the rows of
\* a blob that a part has stored since the faster one ended.
ClaimsHeld ==
    \A u \in claimed, n \in Numbers : object[u][n] \notin rerun \cup {None} =>
        object[u][n] \in located /\ record[object[u][n]] # "started"

\* The upload as its client sees it.
Upload == [u \in Sessions |->
    IF object[u] # NoParts THEN "committed"
    ELSE IF session[u] = "none" THEN "none"
    ELSE IF Live(u) THEN "open"
    ELSE "discarded"]

Sees == INSTANCE UploadSessions WITH
    upload <- Upload,
    parts  <- [u \in Sessions |-> [n \in Numbers |->
                   IF Upload[u] = "open" THEN part[u][n].digest ELSE None]]

\* Whatever the interleaving, an upload is completed once or discarded, never
\* both, and completes with the parts as its rows have them at the commit
\* (the latches, acceptRequested's comparison, commitVersionAt's re-check).
ImplementsSessions == Sees!ASpec
=============================================================================
