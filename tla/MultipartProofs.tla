-------------------------- MODULE MultipartProofs --------------------------
(***************************************************************************)
(* Proofs about Multipart: types, that an upload is completed once or      *)
(* discarded and completes with the parts as its rows have them, and that  *)
(* an object's blobs stay located and unreleased while it holds its        *)
(* claims, unless two runners were at work on a blob's release at once.    *)
(***************************************************************************)
EXTENDS Multipart, TLAPS

-----------------------------------------------------------------------------
(* The inductive invariant.                                                *)

Row  == [digest : Digests \cup {None}, state : {"none", "spooled", "parked", "accepted"}]
Proc == [op : {"none", "part", "accept", "complete", "abort"},
         pc : ProcSteps, u : Sessions \cup {None}, n : Numbers \cup {None},
         d : Digests \cup {None}, t : Tasks \cup {None}, settled : BOOLEAN,
         want : [Numbers -> Digests \cup {None}], todo : SUBSET Digests,
         drop : SUBSET Digests]
Run  == [pc : RunSteps, d : Digests \cup {None}, t : Tasks \cup {None}, started : BOOLEAN]

\* TypeOK, in parts; and a run has a blob.
DbTyped ==
    /\ session \in [Sessions -> {"none", "open", "completing", "completed",
                                 "aborting", "gone"}]
    /\ part \in [Sessions -> [Numbers -> Row]]
    /\ intent \in [Digests -> {"none", "spooled", "uploading", "parked",
                               "accepted", "published"}]
    /\ park \in [Digests -> Tasks \cup {None}]
    /\ located \subseteq Digests
    /\ record \in [Digests -> {"none", "pending", "started"}]
    /\ object \in [Sessions -> [Numbers -> Digests \cup {None}]]
    /\ claimed \subseteq Sessions
RestTyped ==
    /\ stored \subseteq Digests /\ rerun \subseteq Digests /\ taken \in 0..MaxRequests
    /\ alloc \in [Tasks -> {"free", "parked", "accepted", "aborted"}]
ProcTyped == proc \in [Procs -> Proc]
RunTyped  ==
    /\ releaser \in [Releasers -> Run]
    /\ \A e \in Releasers : releaser[e].pc # "idle" => releaser[e].d \in Digests

CompletePcs == {"latch", "review", "next", "commit", "finish", "orphans", "revert"}
TeardownPcs == {"quiesce", "list", "enqueue", "delete"}
PlainPcs    == {"idle"} \cup CompletePcs \cup TeardownPcs

\* What a process at a step has: which request it is, its upload and, at the
\* steps that work on one, its blob.
Staged(x) ==
    /\ (x.op = "none") <=> (x.pc = "idle")
    /\ (x.op = "abort") <=> (x.pc \in TeardownPcs)
    /\ x.pc \in CompletePcs => x.op = "complete"
    /\ x.op # "none" => x.u \in Sessions
    /\ x.pc \notin PlainPcs => x.d \in Digests
    /\ x.op = "complete" /\ x.pc \notin {"finish", "orphans", "revert"} =>
           \E n \in Numbers : x.want[n] # None
ProcInv == \A p \in Procs : Staged(proc[p])

\* Rows: a part that is there names a blob, and an upload not yet created has none.
RowAt(u) ==
    \A n \in Numbers :
        /\ part[u][n] = NoPart \/ (part[u][n].digest # None /\ part[u][n].state # "none")
        /\ session[u] = "none" => part[u][n] = NoPart
RowInv == \A u \in Sessions : RowAt(u)

\* A teardown works on a session that no Complete can latch any more.
TornAt(u) ==
    \A p \in Procs : proc[p].op = "abort" /\ proc[p].u = u =>
        session[u] \in {"aborting", "completed", "gone"}

\* The completion that has the latch of u, or is about to put it back.
Latched(x, u) == /\ x.op = "complete" /\ x.u = u
                 /\ x.pc \notin {"latch", "finish", "orphans"}

\* ... and has compared the rows with what its client listed.
Reviewed(x, u) == Latched(x, u) /\ x.pc \notin {"review", "revert"}

\* The latch: nobody has it while the session is open, one completion at most
\* while it is completing, and none once the object is committed; what that
\* completion compared stays as it was.
LatchAt(u) ==
    /\ session[u] \in {"none", "open"} =>
           object[u] = NoParts /\ \A p \in Procs : ~Latched(proc[p], u)
    /\ session[u] = "completing" =>
           /\ \A p, q \in Procs : Latched(proc[p], u) /\ Latched(proc[q], u) => p = q
           /\ object[u] # NoParts => \A p \in Procs : ~Latched(proc[p], u)
           /\ \A p \in Procs, n \in Numbers :
                  Reviewed(proc[p], u) /\ proc[p].want[n] # None =>
                      part[u][n].digest = proc[p].want[n]

\* A run past StartRelease has its record started, and is the only one.
RunAt(e) == \A d \in Digests \ rerun : Runs(e, d) => record[d] = "started"
OneRun   == \A e, f \in Releasers, d \in Digests \ rerun : Runs(e, d) /\ Runs(f, d) => e = f
RunInv   == OneRun /\ \A e \in Releasers : RunAt(e)

TInv == DbTyped /\ RestTyped /\ ProcTyped /\ RunTyped /\ ProcInv
LInv == \A u \in Sessions : RowAt(u) /\ TornAt(u) /\ LatchAt(u)
CInv == RunInv /\ ClaimsHeld

-----------------------------------------------------------------------------
(* How a process moves.                                                    *)

Only(p) == \A q \in Procs : q # p => proc'[q] = proc[q]

\* The same request, upload, part, blob and list.
Same(x, y) == x.op = y.op /\ x.u = y.u /\ x.n = y.n /\ x.d = y.d /\ x.want = y.want

\* A move that takes no latch and starts no teardown.
Advance(x, y) ==
    /\ Staged(y)
    /\ y.op = "abort" => x.op = "abort" /\ y.u = x.u
    /\ \A u \in Sessions : Latched(y, u) => Latched(x, u)
    /\ \A u \in Sessions : Reviewed(y, u) => Reviewed(x, u) /\ y.want = x.want

Calm(p) == ProcTyped' /\ Only(p) /\ Advance(proc[p], proc'[p])

\* The parts make up TypeOK.
LEMMA Typing == DbTyped /\ RestTyped /\ ProcTyped /\ RunTyped => TypeOK
  BY DEF TypeOK, DbTyped, RestTyped, ProcTyped, RunTyped, Row, Proc, Run

\* The fields of a process.
LEMMA ProcFields ==
    ASSUME NEW x \in Proc
    PROVE  /\ x.op \in {"none", "part", "accept", "complete", "abort"}
           /\ x.pc \in ProcSteps /\ x.u \in Sessions \cup {None}
           /\ x.n \in Numbers \cup {None} /\ x.d \in Digests \cup {None}
           /\ x.t \in Tasks \cup {None} /\ x.settled \in BOOLEAN
           /\ x.want \in [Numbers -> Digests \cup {None}]
           /\ x.todo \subseteq Digests /\ x.drop \subseteq Digests
  BY DEF Proc

\* A process is replaced by another value of it.
LEMMA ProcSet ==
    ASSUME ProcTyped, NEW p \in Procs, NEW w \in Proc, proc' = [proc EXCEPT ![p] = w]
    PROVE  ProcTyped' /\ Only(p) /\ proc'[p] = w
  BY DEF ProcTyped, Only

\* A process goes to another step.
LEMMA PcSet ==
    ASSUME ProcTyped, NEW p \in Procs, NEW to \in ProcSteps,
           proc' = [proc EXCEPT ![p].pc = to]
    PROVE  /\ ProcTyped' /\ Only(p)
           /\ proc'[p].pc = to /\ Same(proc'[p], proc[p])
           /\ proc'[p].t = proc[p].t /\ proc'[p].todo = proc[p].todo
<1> DEFINE w == [proc[p] EXCEPT !.pc = to]
<1>1. proc[p] \in Proc
  BY DEF ProcTyped
<1>2. w \in Proc /\ w.pc = to /\ Same(w, proc[p]) /\ w.t = proc[p].t /\ w.todo = proc[p].todo
  BY <1>1 DEF Proc, Same
<1>3. proc' = [proc EXCEPT ![p] = w]
  OBVIOUS
<1> HIDE DEF w
<1>4. QED
  BY <1>2, <1>3, ProcSet

\* The idle process.
LEMMA IdleIs == Idle \in Proc /\ Idle.op = "none" /\ Idle.pc = "idle" /\ Staged(Idle)
<1>1. Idle \in Proc
  BY DEF Idle, Proc, ProcSteps, NoParts
<1>2. Idle.op = "none" /\ Idle.pc = "idle"
  BY DEF Idle
<1>3. QED
  BY <1>1, <1>2 DEF Staged, TeardownPcs, CompletePcs, PlainPcs

\* A process that ends.
LEMMA EndCalm ==
    ASSUME ProcTyped, NEW p \in Procs, End(p)
    PROVE  Calm(p) /\ proc'[p] = Idle
<1>1. ProcTyped' /\ Only(p) /\ proc'[p] = Idle
  BY IdleIs, ProcSet DEF End
<1>2. Advance(proc[p], Idle)
  BY IdleIs DEF Advance, Latched, Reviewed
<1>3. QED
  BY <1>1, <1>2 DEF Calm

MidPcs == ProcSteps \ ({"idle", "latch", "review", "finish", "orphans", "revert"} \cup TeardownPcs)

\* A step inside a request, an acceptor's pass or a completion that has the latch.
LEMMA MidAdvance ==
    ASSUME NEW x, NEW y, Staged(x), x.pc \in MidPcs, y.pc \in MidPcs,
           y.op = x.op, y.u = x.u, y.want = x.want,
           y.pc \in {"next", "commit"} => y.op = "complete",
           y.pc \notin {"next", "commit"} => y.d \in Digests
    PROVE  Advance(x, y)
<1>1. /\ x.pc # "idle" /\ x.pc \notin TeardownPcs /\ y.pc # "idle" /\ y.pc \notin TeardownPcs
      /\ x.pc \notin {"latch", "review", "finish", "orphans", "revert"}
      /\ y.pc \notin {"latch", "review", "finish", "orphans", "revert"}
  BY DEF MidPcs
<1>2. y.op # "none" /\ y.op # "abort" /\ y.u \in Sessions
  BY <1>1 DEF Staged
<1>3. y.pc \in CompletePcs => y.op = "complete"
  BY <1>1 DEF CompletePcs
<1>4. y.pc \notin PlainPcs => y.d \in Digests
  BY DEF PlainPcs, CompletePcs
<1>5. y.op = "complete" => \E n \in Numbers : y.want[n] # None
  BY <1>1 DEF Staged
<1>6. Staged(y)
  BY <1>1, <1>2, <1>3, <1>4, <1>5 DEF Staged
<1>7. QED
  BY <1>1, <1>2, <1>6 DEF Advance, Latched, Reviewed

\* A step of the process that keeps its blob.
LEMMA StepCalm ==
    ASSUME ProcTyped, ProcInv, NEW p \in Procs, NEW from, NEW to, Step(p, from, to),
           from \in MidPcs, from \notin {"next", "commit"}, to \in MidPcs,
           to \in {"next", "commit"} => proc[p].op = "complete"
    PROVE  Calm(p)
<1>1. proc[p].pc = from /\ proc' = [proc EXCEPT ![p].pc = to]
  BY DEF Step
<1>2. to \in ProcSteps
  BY DEF MidPcs
<1>3. ProcTyped' /\ Only(p) /\ proc'[p].pc = to /\ Same(proc'[p], proc[p])
  BY <1>1, <1>2, PcSet
<1>4. Staged(proc[p]) /\ proc[p].d \in Digests
  <2>1. from \notin PlainPcs
    BY DEF MidPcs, PlainPcs, CompletePcs
  <2>2. QED
    BY <1>1, <2>1 DEF ProcInv, Staged
<1>5. Advance(proc[p], proc'[p])
  BY <1>1, <1>3, <1>4, MidAdvance DEF Same
<1>6. QED
  BY <1>3, <1>5 DEF Calm

\* A process that fails: it ends, or puts its latch back first.
LEMMA FailedCalm ==
    ASSUME ProcTyped, ProcInv, NEW p \in Procs, proc[p].pc # "idle", Failed(p)
    PROVE  Calm(p)
<1>0. proc[p] \in Proc /\ Staged(proc[p])
  BY DEF ProcTyped, ProcInv
<1>1. CASE End(p)
  BY <1>1, EndCalm
<1>2. CASE ~End(p)
  <2> DEFINE w == [Idle EXCEPT !.op = "complete", !.pc = "revert", !.u = proc[p].u]
  <2>1. /\ proc[p].op = "complete" /\ proc[p].pc \notin {"latch", "finish", "orphans", "revert"}
        /\ proc' = [proc EXCEPT ![p] = w]
    BY <1>2 DEF Failed
  <2>2. proc[p].u \in Sessions
    BY <1>0, <2>1 DEF Staged
  <2>3. w \in Proc /\ w.op = "complete" /\ w.pc = "revert" /\ w.u = proc[p].u
    BY <2>2 DEF Idle, Proc, ProcSteps, NoParts
  <2> HIDE DEF w
  <2>4. ProcTyped' /\ Only(p) /\ proc'[p] = w
    BY <2>1, <2>3, ProcSet
  <2>5. Staged(w)
    BY <2>2, <2>3 DEF Staged, TeardownPcs, CompletePcs, PlainPcs
  <2>6. Advance(proc[p], w)
    BY <2>1, <2>3, <2>5, <1>0 DEF Advance, Latched, Reviewed
  <2>7. QED
    BY <2>4, <2>6 DEF Calm
<1>3. QED
  BY <1>1, <1>2

\* A calm move keeps what the processes have.
LEMMA CalmStaged ==
    ASSUME ProcInv, NEW p \in Procs, Calm(p)
    PROVE  ProcInv'
  BY DEF ProcInv, Calm, Only, Advance

\* The digests of the parts stay; states may change.
RowsStay ==
    \A u \in Sessions, n \in Numbers :
        /\ part'[u][n].digest = part[u][n].digest
        /\ (part'[u][n].state = "none") <=> (part[u][n].state = "none")
        /\ part'[u][n].digest = None /\ part'[u][n].state = "none" => part'[u][n] = NoPart

\* A row is told by its digest and its state.
LEMMA RowIs ==
    ASSUME NEW x \in Row
    PROVE  (x = NoPart) <=> (x.digest = None /\ x.state = "none")
  BY DEF Row, NoPart

\* A calm move that leaves sessions, objects and the parts' digests alone keeps
\* the latch.
LEMMA CalmLatch ==
    ASSUME DbTyped, DbTyped', LInv, NEW p \in Procs, Calm(p),
           session' = session, object' = object, RowsStay
    PROVE  LInv'
<1>t. \A u \in Sessions, n \in Numbers : part[u][n] \in Row /\ part'[u][n] \in Row
  BY DEF DbTyped
<1>0. /\ \A q \in Procs : q # p => proc'[q] = proc[q]
      /\ proc'[p].op = "abort" => proc[p].op = "abort" /\ proc'[p].u = proc[p].u
      /\ \A u \in Sessions : Latched(proc'[p], u) => Latched(proc[p], u)
      /\ \A u \in Sessions :
             Reviewed(proc'[p], u) => Reviewed(proc[p], u) /\ proc'[p].want = proc[p].want
  BY DEF Calm, Only, Advance
<1>1. ASSUME NEW u \in Sessions PROVE RowAt(u)'
  BY <1>t, RowIs DEF LInv, RowAt, RowsStay
<1>2. ASSUME NEW u \in Sessions PROVE TornAt(u)'
  BY <1>0 DEF LInv, TornAt
<1>3. ASSUME NEW u \in Sessions PROVE LatchAt(u)'
  <2>0. LatchAt(u)
    BY DEF LInv
  <2>1. ASSUME NEW q \in Procs
        PROVE  /\ Latched(proc'[q], u) => Latched(proc[q], u)
               /\ Reviewed(proc'[q], u) => Reviewed(proc[q], u) /\ proc'[q].want = proc[q].want
    BY <1>0
  <2>2. ASSUME session'[u] \in {"none", "open"}
        PROVE  object'[u] = NoParts /\ \A q \in Procs : ~Latched(proc'[q], u)
    BY <2>0, <2>1, <2>2 DEF LatchAt
  <2>3. ASSUME session'[u] = "completing"
        PROVE  /\ \A q, r \in Procs : Latched(proc'[q], u) /\ Latched(proc'[r], u) => q = r
               /\ object'[u] # NoParts => \A q \in Procs : ~Latched(proc'[q], u)
    BY <2>0, <2>1, <2>3 DEF LatchAt
  <2>4. ASSUME session'[u] = "completing", NEW q \in Procs, NEW n \in Numbers,
               Reviewed(proc'[q], u), proc'[q].want[n] # None
        PROVE  part'[u][n].digest = proc'[q].want[n]
    <3>1. Reviewed(proc[q], u) /\ proc'[q].want = proc[q].want
      BY <2>1, <2>4
    <3>2. part[u][n].digest = proc[q].want[n]
      BY <2>0, <2>4, <3>1 DEF LatchAt
    <3>3. QED
      BY <3>1, <3>2 DEF RowsStay
  <2>5. QED
    BY <2>2, <2>3, <2>4 DEF LatchAt
<1>4. QED
  BY <1>1, <1>2, <1>3 DEF LInv

\* What an object's claims rest on.
Guarded == /\ claimed' \subseteq claimed /\ object' = object /\ located \subseteq located'
           /\ releaser' = releaser /\ rerun' = rerun
           /\ \A d \in Digests : record'[d] = "started" <=> record[d] = "started"

\* A step that starts and ends no release and takes no claim keeps the claims held.
LEMMA GuardedClaims ==
    ASSUME DbTyped, RunTyped, CInv, Guarded
    PROVE  CInv'
<1>1. RunInv'
  <2>1. \A e \in Releasers, d \in Digests : Runs(e, d)' = Runs(e, d)
    BY DEF Guarded, Runs
  <2>2. QED
    BY <2>1 DEF CInv, RunInv, OneRun, RunAt, Guarded
<1>2. ClaimsHeld'
  <2>1. ASSUME NEW u \in claimed', NEW n \in Numbers, object'[u][n] \notin rerun' \cup {None}
        PROVE  object'[u][n] \in located' /\ record'[object'[u][n]] # "started"
    <3>1. u \in claimed /\ u \in Sessions /\ object'[u][n] = object[u][n]
      BY <2>1 DEF Guarded, DbTyped
    <3>2. object[u][n] \in located /\ record[object[u][n]] # "started"
      BY <2>1, <3>1 DEF CInv, ClaimsHeld, Guarded
    <3>3. object[u][n] \in Digests
      BY <3>2 DEF DbTyped
    <3>4. QED
      BY <3>1, <3>2, <3>3 DEF Guarded
  <2>2. QED
    BY <2>1 DEF ClaimsHeld
<1>3. QED
  BY <1>1, <1>2 DEF CInv

\* Enqueue takes an absent record to pending and changes no other.
LEMMA EnqueueIs ==
    ASSUME DbTyped, NEW ds
    PROVE  /\ Enqueue(ds) \in [Digests -> {"none", "pending", "started"}]
           /\ \A d \in Digests : Enqueue(ds)[d] = "started" <=> record[d] = "started"
  BY DEF DbTyped, Enqueue

\* MoveParts changes the state of one row at most, never its digest.
LEMMA MovePartIs ==
    ASSUME DbTyped, NEW u \in Sessions, NEW n, NEW d \in Digests,
           NEW from \in {"spooled", "parked"}, NEW to \in {"spooled", "parked", "accepted"},
           part' = MovePart(u, n, d, from, to)
    PROVE  part' \in [Sessions -> [Numbers -> Row]] /\ RowsStay
<1>1. \A v \in Sessions, m \in Numbers :
        part'[v][m] = IF v = u /\ m = n /\ part[u][n] = [digest |-> d, state |-> from]
                      THEN [digest |-> d, state |-> to] ELSE part[v][m]
  BY DEF MovePart, DbTyped
<1>2. [digest |-> d, state |-> to] \in Row
  BY DEF Row
<1>3. part' \in [Sessions -> [Numbers -> Row]]
  <2>n. CASE n \notin Numbers
    <3>1. [part[u] EXCEPT ![n] = IF @ = [digest |-> d, state |-> from]
                                 THEN [@ EXCEPT !.state = to] ELSE @] = part[u]
      BY <2>n DEF DbTyped
    <3>2. part' = [part EXCEPT ![u] = part[u]]
      BY <3>1 DEF MovePart
    <3>3. QED
      BY <3>2 DEF DbTyped
  <2> DEFINE X == IF part[u][n] = [digest |-> d, state |-> from]
                  THEN [part[u][n] EXCEPT !.state = to] ELSE part[u][n]
  <2> SUFFICES ASSUME n \in Numbers PROVE part' \in [Sessions -> [Numbers -> Row]]
    BY <2>n
  <2>1. part[u][n] \in Row /\ part[u] \in [Numbers -> Row]
    BY DEF DbTyped
  <2>2. X \in Row
    BY <2>1 DEF Row
  <2>3. part' = [part EXCEPT ![u] = [part[u] EXCEPT ![n] = X]]
    BY DEF MovePart
  <2> HIDE DEF X
  <2>4. QED
    BY <2>1, <2>2, <2>3 DEF DbTyped
<1>4. RowsStay
  <2>1. ASSUME NEW v \in Sessions, NEW m \in Numbers
        PROVE  /\ part'[v][m].digest = part[v][m].digest
               /\ (part'[v][m].state = "none") <=> (part[v][m].state = "none")
    BY <1>1
  <2>2. ASSUME NEW v \in Sessions, NEW m \in Numbers,
               part'[v][m].digest = None, part'[v][m].state = "none"
        PROVE  part'[v][m] = NoPart
    <3>1. part'[v][m] \in Row
      BY <1>3
    <3>2. QED
      BY <3>1, <2>2, RowIs
  <2>3. QED
    BY <2>1, <2>2 DEF RowsStay
<1>5. QED
  BY <1>3, <1>4

-----------------------------------------------------------------------------
(* The steps that take no latch, no claim and start no release.            *)

Quiet(p) == /\ DbTyped' /\ RestTyped' /\ RunTyped' /\ Calm(p) /\ Guarded
            /\ session' = session /\ RowsStay

\* Unchanged rows stay.
LEMMA RowsSame == ASSUME DbTyped, part' = part PROVE RowsStay
<1>1. \A u \in Sessions, n \in Numbers : part[u][n] \in Row
  BY DEF DbTyped
<1>2. QED
  BY <1>1, RowIs DEF RowsStay

\* A step that leaves the database alone.
LEMMA DbSame ==
    ASSUME DbTyped, UNCHANGED dbVars, UNCHANGED <<releaser, rerun>>
    PROVE  DbTyped' /\ Guarded /\ session' = session /\ RowsStay
<1>1. /\ session' = session /\ part' = part /\ intent' = intent /\ park' = park
      /\ located' = located /\ record' = record /\ object' = object /\ claimed' = claimed
  BY DEF dbVars
<1>2. DbTyped'
  BY <1>1 DEF DbTyped
<1>3. QED
  BY <1>1, <1>2, RowsSame DEF Guarded

\* Where a process goes once its blob is accepted.
LEMMA ConcludedIs ==
    ASSUME ProcTyped, ProcInv, NEW p \in Procs, proc[p].pc \notin PlainPcs
    PROVE  /\ Concluded(p) \in MidPcs
           /\ Concluded(p) \in {"next", "commit"} => proc[p].op = "complete"
<1>1. proc[p].op \in {"part", "accept", "complete"}
  BY ProcFields DEF ProcTyped, ProcInv, Staged, PlainPcs
<1>2. Concluded(p) = IF proc[p].op = "part" THEN "move"
                     ELSE IF proc[p].op = "accept" THEN "promote" ELSE "next"
  BY DEF Concluded
<1>3. {"move", "promote", "next"} \subseteq MidPcs
  BY DEF MidPcs, ProcSteps, TeardownPcs
<1>4. QED
  BY <1>1, <1>2, <1>3

\* The blob of a process.
LEMMA BlobOf ==
    ASSUME ProcInv, NEW p \in Procs, proc[p].pc \notin PlainPcs
    PROVE  proc[p].d \in Digests /\ proc[p].u \in Sessions
  BY DEF ProcInv, Staged, PlainPcs

\* PutIntent is quiet.
LEMMA QuietPutIntent ==
    ASSUME TInv, NEW p \in Procs, PutIntent(p)
    PROVE  Quiet(p)
<1> USE DEF TInv
<1>0. proc[p].d \in Digests /\ proc[p].u \in Sessions
  <2>1. "spooled" \notin PlainPcs
    BY DEF PlainPcs, CompletePcs, TeardownPcs
  <2>2. QED
    BY <2>1, BlobOf DEF PutIntent, Step
<1>1. /\ intent' \in [Digests -> {"none", "spooled", "uploading", "parked", "accepted", "published"}]
      /\ session' = session /\ part' = part /\ park' = park /\ located' = located
      /\ record' = record /\ object' = object /\ claimed' = claimed
      /\ releaser' = releaser /\ rerun' = rerun
  BY <1>0 DEF PutIntent, DbTyped, Step
<1>2. RestTyped' /\ RunTyped'
  BY DEF PutIntent, RestTyped, RunTyped, Step
<1>3. Calm(p)
  <2>1. Step(p, "spooled", "put")
    BY DEF PutIntent, Step
  <2>2. "spooled" \in MidPcs /\ "put" \in MidPcs
    BY DEF MidPcs, ProcSteps, LockSteps, HoldSteps, MarkSteps, TeardownPcs
  <2>3. QED
    BY <2>1, <2>2, StepCalm
<1>4. RowsStay
  BY <1>1, RowsSame
<1>5. DbTyped' /\ Guarded /\ session' = session
  BY <1>0, <1>1 DEF DbTyped, Guarded
<1>6. QED
  BY <1>2, <1>3, <1>4, <1>5 DEF Quiet

\* A refused part is quiet.
LEMMA QuietPutPartRefused ==
    ASSUME TInv, NEW p \in Procs, PutPartRefused(p)
    PROVE  Quiet(p)
<1> USE DEF TInv
<1>1. UNCHANGED dbVars /\ UNCHANGED <<releaser, rerun>>
  BY DEF PutPartRefused
<1>2. RestTyped'
  BY DEF PutPartRefused, RestTyped
<1>3. RunTyped'
  BY <1>1 DEF RunTyped
<1>4. Calm(p)
  <2>1. Step(p, "put", "unput")
    BY DEF PutPartRefused
  <2>2. "put" \in MidPcs /\ "unput" \in MidPcs
    BY DEF MidPcs, ProcSteps, LockSteps, HoldSteps, MarkSteps, TeardownPcs
  <2>3. QED
    BY <2>1, <2>2, StepCalm
<1>5. QED
  BY <1>1, <1>2, <1>3, <1>4, DbSame DEF Quiet

\* ReadReleasing is quiet.
LEMMA QuietReadReleasing ==
    ASSUME TInv, NEW p \in Procs, ReadReleasing(p)
    PROVE  Quiet(p)
<1> USE DEF TInv
<1>1. UNCHANGED dbVars /\ UNCHANGED <<releaser, rerun>>
  BY DEF ReadReleasing
<1>2. RestTyped'
  BY DEF ReadReleasing, RestTyped
<1>3. RunTyped'
  BY <1>1 DEF RunTyped
<1>4. Calm(p)
  <2>1. PICK to \in {"find", "respool"} : Step(p, "releasing", to)
    BY DEF ReadReleasing
  <2>2. "releasing" \in MidPcs /\ {"find", "respool"} \subseteq MidPcs
    BY DEF MidPcs, ProcSteps, LockSteps, HoldSteps, MarkSteps, TeardownPcs
  <2>3. QED
    BY <2>1, <2>2, StepCalm
<1>5. QED
  BY <1>1, <1>2, <1>3, <1>4, DbSame DEF Quiet

\* LockLocated is quiet.
LEMMA QuietLockLocated ==
    ASSUME TInv, NEW p \in Procs, LockLocated(p)
    PROVE  Quiet(p)
<1> USE DEF TInv
<1>1. UNCHANGED dbVars /\ UNCHANGED <<releaser, rerun>>
  BY DEF LockLocated
<1>2. RestTyped'
  BY DEF LockLocated, RestTyped
<1>3. RunTyped'
  BY <1>1 DEF RunTyped
<1>4. Calm(p)
  <2>1. PICK to \in {"relocate", "respool", "lock"} : Step(p, "locate", to)
    BY DEF LockLocated
  <2>2. "locate" \in MidPcs /\ {"relocate", "respool", "lock"} \subseteq MidPcs
    BY DEF MidPcs, ProcSteps, LockSteps, HoldSteps, MarkSteps, TeardownPcs
  <2>3. QED
    BY <2>1, <2>2, StepCalm
<1>5. QED
  BY <1>1, <1>2, <1>3, <1>4, DbSame DEF Quiet

\* MarkUploading is quiet.
LEMMA QuietMarkUploading ==
    ASSUME TInv, NEW p \in Procs, MarkUploading(p)
    PROVE  Quiet(p)
<1> USE DEF TInv
<1>0. proc[p].d \in Digests /\ proc[p].u \in Sessions
  <2>1. "mark" \notin PlainPcs
    BY DEF PlainPcs, CompletePcs, TeardownPcs
  <2>2. QED
    BY <2>1, BlobOf DEF MarkUploading, SetIntent, Step
<1>1. /\ intent' \in [Digests -> {"none", "spooled", "uploading", "parked", "accepted", "published"}]
      /\ session' = session /\ part' = part /\ park' = park /\ located' = located
      /\ record' = record /\ object' = object /\ claimed' = claimed
      /\ releaser' = releaser /\ rerun' = rerun
  BY <1>0 DEF MarkUploading, DbTyped, SetIntent, Step
<1>2. RestTyped' /\ RunTyped'
  BY DEF MarkUploading, RestTyped, RunTyped, SetIntent, Step
<1>3. Calm(p)
  <2>1. Step(p, "mark", "send")
    BY DEF MarkUploading, SetIntent, Step
  <2>2. "mark" \in MidPcs /\ "send" \in MidPcs
    BY DEF MidPcs, ProcSteps, LockSteps, HoldSteps, MarkSteps, TeardownPcs
  <2>3. QED
    BY <2>1, <2>2, StepCalm
<1>4. RowsStay
  BY <1>1, RowsSame
<1>5. DbTyped' /\ Guarded /\ session' = session
  BY <1>0, <1>1 DEF DbTyped, Guarded
<1>6. QED
  BY <1>2, <1>3, <1>4, <1>5 DEF Quiet

\* MarkParked is quiet.
LEMMA QuietMarkParked ==
    ASSUME TInv, NEW p \in Procs, MarkParked(p)
    PROVE  Quiet(p)
<1> USE DEF TInv
<1>0. proc[p].d \in Digests /\ proc[p].u \in Sessions
  <2>1. "parked" \notin PlainPcs
    BY DEF PlainPcs, CompletePcs, TeardownPcs
  <2>2. QED
    BY <2>1, BlobOf DEF MarkParked, SetIntent, Step
<1>1. /\ intent' \in [Digests -> {"none", "spooled", "uploading", "parked", "accepted", "published"}]
      /\ session' = session /\ part' = part /\ park' = park /\ located' = located
      /\ record' = record /\ object' = object /\ claimed' = claimed
      /\ releaser' = releaser /\ rerun' = rerun
  BY <1>0 DEF MarkParked, DbTyped, SetIntent, Step
<1>2. RestTyped' /\ RunTyped'
  BY DEF MarkParked, RestTyped, RunTyped, SetIntent, Step
<1>3. Calm(p)
  <2>1. Step(p, "parked", "move")
    BY DEF MarkParked, SetIntent, Step
  <2>2. "parked" \in MidPcs /\ "move" \in MidPcs
    BY DEF MidPcs, ProcSteps, LockSteps, HoldSteps, MarkSteps, TeardownPcs
  <2>3. QED
    BY <2>1, <2>2, StepCalm
<1>4. RowsStay
  BY <1>1, RowsSame
<1>5. DbTyped' /\ Guarded /\ session' = session
  BY <1>0, <1>1 DEF DbTyped, Guarded
<1>6. QED
  BY <1>2, <1>3, <1>4, <1>5 DEF Quiet

\* ReuseParked is quiet.
LEMMA QuietReuseParked ==
    ASSUME TInv, NEW p \in Procs, ReuseParked(p)
    PROVE  Quiet(p)
<1> USE DEF TInv
<1>0. proc[p].d \in Digests /\ proc[p].u \in Sessions
  <2>1. "reuse" \notin PlainPcs
    BY DEF PlainPcs, CompletePcs, TeardownPcs
  <2>2. QED
    BY <2>1, BlobOf DEF ReuseParked, SetIntent, Step
<1>1. /\ intent' \in [Digests -> {"none", "spooled", "uploading", "parked", "accepted", "published"}]
      /\ session' = session /\ part' = part /\ park' = park /\ located' = located
      /\ record' = record /\ object' = object /\ claimed' = claimed
      /\ releaser' = releaser /\ rerun' = rerun
  BY <1>0 DEF ReuseParked, DbTyped, SetIntent, Step
<1>2. RestTyped' /\ RunTyped'
  BY DEF ReuseParked, RestTyped, RunTyped, SetIntent, Step
<1>3. Calm(p)
  <2>1. Step(p, "reuse", "move")
    BY DEF ReuseParked, SetIntent, Step
  <2>2. "reuse" \in MidPcs /\ "move" \in MidPcs
    BY DEF MidPcs, ProcSteps, LockSteps, HoldSteps, MarkSteps, TeardownPcs
  <2>3. QED
    BY <2>1, <2>2, StepCalm
<1>4. RowsStay
  BY <1>1, RowsSame
<1>5. DbTyped' /\ Guarded /\ session' = session
  BY <1>0, <1>1 DEF DbTyped, Guarded
<1>6. QED
  BY <1>2, <1>3, <1>4, <1>5 DEF Quiet

\* MarkConcluded is quiet.
LEMMA QuietMarkConcluded ==
    ASSUME TInv, NEW p \in Procs, MarkConcluded(p)
    PROVE  Quiet(p)
<1> USE DEF TInv
<1>0. proc[p].d \in Digests /\ proc[p].u \in Sessions
  <2>1. "swapped" \notin PlainPcs
    BY DEF PlainPcs, CompletePcs, TeardownPcs
  <2>2. QED
    BY <2>1, BlobOf DEF MarkConcluded, Step
<1>1. /\ intent' \in [Digests -> {"none", "spooled", "uploading", "parked", "accepted", "published"}]
      /\ session' = session /\ part' = part /\ park' = park /\ located' = located
      /\ record' = record /\ object' = object /\ claimed' = claimed
      /\ releaser' = releaser /\ rerun' = rerun
  BY <1>0 DEF MarkConcluded, DbTyped, Step
<1>2. RestTyped' /\ RunTyped'
  BY DEF MarkConcluded, RestTyped, RunTyped, Step
<1>3. Calm(p)
  <2>1. Step(p, "swapped", Concluded(p)) /\ proc[p].pc = "swapped"
    BY DEF MarkConcluded, Step, Step
  <2>2. "swapped" \in MidPcs /\ "swapped" \notin PlainPcs
    BY DEF PlainPcs, CompletePcs, MidPcs, ProcSteps, LockSteps, HoldSteps, MarkSteps, TeardownPcs
  <2>3. QED
    BY <2>1, <2>2, StepCalm, ConcludedIs
<1>4. RowsStay
  BY <1>1, RowsSame
<1>5. DbTyped' /\ Guarded /\ session' = session
  BY <1>0, <1>1 DEF DbTyped, Guarded
<1>6. QED
  BY <1>2, <1>3, <1>4, <1>5 DEF Quiet

\* MarkLocated is quiet.
LEMMA QuietMarkLocated ==
    ASSUME TInv, NEW p \in Procs, MarkLocated(p)
    PROVE  Quiet(p)
<1> USE DEF TInv
<1>0. proc[p].d \in Digests /\ proc[p].u \in Sessions
  <2>1. "relocate" \notin PlainPcs
    BY DEF PlainPcs, CompletePcs, TeardownPcs
  <2>2. QED
    BY <2>1, BlobOf DEF MarkLocated, Step
<1>1. /\ intent' \in [Digests -> {"none", "spooled", "uploading", "parked", "accepted", "published"}]
      /\ park' \in [Digests -> Tasks \cup {None}]
      /\ session' = session /\ part' = part /\ located' = located /\ record' = record
      /\ object' = object /\ claimed' = claimed
      /\ releaser' = releaser /\ rerun' = rerun
  BY <1>0 DEF MarkLocated, DbTyped, Step
<1>2. RestTyped' /\ RunTyped'
  BY DEF MarkLocated, RestTyped, RunTyped, Step
<1>3. Calm(p)
  <2>1. Step(p, "relocate", Concluded(p)) /\ proc[p].pc = "relocate"
    BY DEF MarkLocated, Step, Step
  <2>2. "relocate" \in MidPcs /\ "relocate" \notin PlainPcs
    BY DEF PlainPcs, CompletePcs, MidPcs, ProcSteps, LockSteps, HoldSteps, MarkSteps, TeardownPcs
  <2>3. QED
    BY <2>1, <2>2, StepCalm, ConcludedIs
<1>4. RowsStay
  BY <1>1, RowsSame
<1>5. DbTyped' /\ Guarded /\ session' = session
  BY <1>0, <1>1 DEF DbTyped, Guarded
<1>6. QED
  BY <1>2, <1>3, <1>4, <1>5 DEF Quiet

\* PutLocation is quiet.
LEMMA QuietPutLocation ==
    ASSUME TInv, NEW p \in Procs, PutLocation(p)
    PROVE  Quiet(p)
<1> USE DEF TInv
<1>0. proc[p].d \in Digests /\ proc[p].u \in Sessions
  <2>1. "record" \notin PlainPcs
    BY DEF PlainPcs, CompletePcs, TeardownPcs
  <2>2. QED
    BY <2>1, BlobOf DEF PutLocation, Step
<1>1. /\ located' = located \cup {proc[p].d}
      /\ session' = session /\ part' = part /\ intent' = intent /\ park' = park
      /\ record' = record /\ object' = object /\ claimed' = claimed
      /\ releaser' = releaser /\ rerun' = rerun
  BY <1>0 DEF PutLocation, DbTyped, Step
<1>2. RestTyped' /\ RunTyped'
  BY DEF PutLocation, RestTyped, RunTyped, Step
<1>3. Calm(p)
  <2>1. Step(p, "record", "accept")
    BY DEF PutLocation, Step
  <2>2. "record" \in MidPcs /\ "accept" \in MidPcs
    BY DEF MidPcs, ProcSteps, LockSteps, HoldSteps, MarkSteps, TeardownPcs
  <2>3. QED
    BY <2>1, <2>2, StepCalm
<1>4. RowsStay
  BY <1>1, RowsSame
<1>5. DbTyped' /\ Guarded /\ session' = session
  BY <1>0, <1>1 DEF DbTyped, Guarded
<1>6. QED
  BY <1>2, <1>3, <1>4, <1>5 DEF Quiet

\* DeletePark is quiet.
LEMMA QuietDeletePark ==
    ASSUME TInv, NEW p \in Procs, DeletePark(p)
    PROVE  Quiet(p)
<1> USE DEF TInv
<1>0. proc[p].d \in Digests /\ proc[p].u \in Sessions
  <2>1. "unpark" \notin PlainPcs
    BY DEF PlainPcs, CompletePcs, TeardownPcs
  <2>2. QED
    BY <2>1, BlobOf DEF DeletePark, Step
<1>1. /\ park' \in [Digests -> Tasks \cup {None}]
      /\ session' = session /\ part' = part /\ intent' = intent /\ located' = located
      /\ record' = record /\ object' = object /\ claimed' = claimed
      /\ releaser' = releaser /\ rerun' = rerun
  BY <1>0 DEF DeletePark, DbTyped, Step
<1>2. RestTyped' /\ RunTyped'
  BY DEF DeletePark, RestTyped, RunTyped, Step
<1>3. Calm(p)
  <2>1. Step(p, "unpark", "move")
    BY DEF DeletePark, Step
  <2>2. "unpark" \in MidPcs /\ "move" \in MidPcs
    BY DEF MidPcs, ProcSteps, LockSteps, HoldSteps, MarkSteps, TeardownPcs
  <2>3. QED
    BY <2>1, <2>2, StepCalm
<1>4. RowsStay
  BY <1>1, RowsSame
<1>5. DbTyped' /\ Guarded /\ session' = session
  BY <1>0, <1>1 DEF DbTyped, Guarded
<1>6. QED
  BY <1>2, <1>3, <1>4, <1>5 DEF Quiet

\* PutPark is quiet.
LEMMA QuietPutPark ==
    ASSUME TInv, NEW p \in Procs, PutPark(p)
    PROVE  Quiet(p)
<1> USE DEF TInv
<1>t. proc[p].t \in Tasks \cup {None}
  BY ProcFields DEF ProcTyped
<1>0. proc[p].d \in Digests /\ proc[p].u \in Sessions
  <2>1. "parking" \notin PlainPcs
    BY DEF PlainPcs, CompletePcs, TeardownPcs
  <2>2. QED
    BY <2>1, BlobOf DEF PutPark, Step
<1>1. /\ park' \in [Digests -> Tasks \cup {None}]
      /\ session' = session /\ part' = part /\ intent' = intent /\ located' = located
      /\ record' = record /\ object' = object /\ claimed' = claimed
      /\ releaser' = releaser /\ rerun' = rerun
  BY <1>0, <1>t DEF PutPark, DbTyped, Step
<1>2. RestTyped' /\ RunTyped'
  BY DEF PutPark, RestTyped, RunTyped, Step
<1>3. Calm(p)
  <2>1. Step(p, "parking", "parked")
    BY DEF PutPark, Step
  <2>2. "parking" \in MidPcs /\ "parked" \in MidPcs
    BY DEF MidPcs, ProcSteps, LockSteps, HoldSteps, MarkSteps, TeardownPcs
  <2>3. QED
    BY <2>1, <2>2, StepCalm
<1>4. RowsStay
  BY <1>1, RowsSame
<1>5. DbTyped' /\ Guarded /\ session' = session
  BY <1>0, <1>1 DEF DbTyped, Guarded
<1>6. QED
  BY <1>2, <1>3, <1>4, <1>5 DEF Quiet

\* SwapPark is quiet.
LEMMA QuietSwapPark ==
    ASSUME TInv, NEW p \in Procs, SwapPark(p)
    PROVE  Quiet(p)
<1> USE DEF TInv
<1>0. proc[p].d \in Digests /\ proc[p].u \in Sessions
  <2>1. "swap" \notin PlainPcs
    BY DEF PlainPcs, CompletePcs, TeardownPcs
  <2>2. QED
    BY <2>1, BlobOf DEF SwapPark, Step
<1>1. /\ park' \in [Digests -> Tasks \cup {None}]
      /\ located \subseteq located' /\ located' \subseteq Digests
      /\ session' = session /\ part' = part /\ intent' = intent /\ record' = record
      /\ object' = object /\ claimed' = claimed
      /\ releaser' = releaser /\ rerun' = rerun
  BY <1>0 DEF SwapPark, DbTyped, Step
<1>2. RestTyped' /\ RunTyped'
  BY DEF SwapPark, RestTyped, RunTyped, Step
<1>3. Calm(p)
  <2>1. Step(p, "swap", "swapped")
    BY DEF SwapPark, Step
  <2>2. "swap" \in MidPcs /\ "swapped" \in MidPcs
    BY DEF MidPcs, ProcSteps, LockSteps, HoldSteps, MarkSteps, TeardownPcs
  <2>3. QED
    BY <2>1, <2>2, StepCalm
<1>4. RowsStay
  BY <1>1, RowsSame
<1>5. DbTyped' /\ Guarded /\ session' = session
  BY <1>0, <1>1 DEF DbTyped, Guarded
<1>6. QED
  BY <1>2, <1>3, <1>4, <1>5 DEF Quiet

\* ReleaseUnput is quiet.
LEMMA QuietReleaseUnput ==
    ASSUME TInv, NEW p \in Procs, ReleaseUnput(p)
    PROVE  Quiet(p)
<1> USE DEF TInv
<1>0. proc[p].d \in Digests /\ proc[p].u \in Sessions
  <2>1. "unput" \notin PlainPcs
    BY DEF PlainPcs, CompletePcs, TeardownPcs
  <2>2. QED
    BY <2>1, BlobOf DEF ReleaseUnput
<1>1. /\ record' = Enqueue({proc[p].d})
      /\ session' = session /\ part' = part /\ intent' = intent /\ park' = park
      /\ located' = located /\ object' = object /\ claimed' = claimed
      /\ releaser' = releaser /\ rerun' = rerun
  BY <1>0 DEF ReleaseUnput, DbTyped
<1>2. RestTyped' /\ RunTyped'
  BY DEF ReleaseUnput, RestTyped, RunTyped
<1>3. Calm(p)
  BY EndCalm DEF ReleaseUnput
<1>4. RowsStay
  BY <1>1, RowsSame
<1>5. DbTyped' /\ Guarded /\ session' = session
  <2>1. /\ record' \in [Digests -> {"none", "pending", "started"}]
        /\ \A d \in Digests : record'[d] = "started" <=> record[d] = "started"
    BY <1>1, EnqueueIs
  <2>2. QED
    BY <1>1, <2>1 DEF DbTyped, Guarded
<1>6. QED
  BY <1>2, <1>3, <1>4, <1>5 DEF Quiet

\* A process moves inside its request and changes more than its step.
LEMMA MidSet ==
    ASSUME ProcTyped, ProcInv, NEW p \in Procs, NEW w \in Proc,
           proc' = [proc EXCEPT ![p] = w],
           proc[p].pc \in MidPcs, w.pc \in MidPcs,
           w.op = proc[p].op, w.u = proc[p].u, w.want = proc[p].want,
           w.pc \in {"next", "commit"} => w.op = "complete",
           w.pc \notin {"next", "commit"} => w.d \in Digests
    PROVE  Calm(p)
<1>1. ProcTyped' /\ Only(p) /\ proc'[p] = w
  BY ProcSet
<1>2. Staged(proc[p])
  BY DEF ProcInv
<1>3. Advance(proc[p], w)
  BY <1>2, MidAdvance
<1>4. QED
  BY <1>1, <1>3 DEF Calm

\* A process that was idle starts a part, a pass or a completion.
LEMMA StartCalm ==
    ASSUME ProcTyped, NEW p \in Procs, NEW w \in Proc,
           proc' = [proc EXCEPT ![p] = w],
           Staged(w), w.op # "abort", w.op = "complete" => w.pc = "latch"
    PROVE  Calm(p)
<1>1. ProcTyped' /\ Only(p) /\ proc'[p] = w
  BY ProcSet
<1>2. Advance(proc[p], w)
  BY DEF Advance, Latched, Reviewed
<1>3. QED
  BY <1>1, <1>2 DEF Calm

\* The steps between.
LEMMA Mids ==
    /\ {"releasing", "settle", "find", "locate", "relocate", "conclude", "swap", "swapped",
        "lock", "await", "look", "mark", "send", "parking", "parked", "reuse", "unpark",
        "record", "accept", "move", "promote", "respool", "unput", "put", "spooled",
        "next", "commit"} \subseteq MidPcs
    /\ PlainPcs \cap MidPcs = {"next", "commit"}
  BY DEF MidPcs, ProcSteps, LockSteps, HoldSteps, MarkSteps, TeardownPcs, PlainPcs, CompletePcs

\* A process in the middle of its work has its blob.
LEMMA MidBlob ==
    ASSUME ProcTyped, ProcInv, NEW p \in Procs, proc[p].pc \in MidPcs \ {"next", "commit"}
    PROVE  /\ proc[p] \in Proc /\ proc[p].d \in Digests /\ proc[p].u \in Sessions
           /\ proc[p].op \in {"part", "accept", "complete"}
<1>1. proc[p] \in Proc /\ Staged(proc[p])
  BY DEF ProcTyped, ProcInv
<1>2. proc[p].pc \notin PlainPcs /\ proc[p].pc # "idle" /\ proc[p].pc \notin TeardownPcs
  BY Mids DEF MidPcs
<1>3. QED
  BY <1>1, <1>2, ProcFields DEF Staged

\* LockBlob is quiet.
LEMMA QuietLockBlob ==
    ASSUME TInv, NEW p \in Procs, LockBlob(p)
    PROVE  Quiet(p)
<1> USE DEF TInv
<1>0. proc[p].pc = "lock" /\ "lock" \in MidPcs /\ "await" \in MidPcs
  BY Mids DEF LockBlob
<1>1. proc[p] \in Proc /\ proc[p].d \in Digests /\ proc[p].u \in Sessions
  BY <1>0, MidBlob
<1> DEFINE w == [proc[p] EXCEPT !.pc = "await", !.settled = TRUE]
<1>2. proc' = [proc EXCEPT ![p] = w]
  BY DEF LockBlob
<1>3. w \in Proc
  BY <1>1 DEF Proc, ProcSteps, LockSteps
<1>4. w.pc = "await" /\ w.op = proc[p].op /\ w.u = proc[p].u /\ w.want = proc[p].want /\ w.d = proc[p].d
  BY <1>1 DEF Proc
<1> HIDE DEF w
<1>5. Calm(p)
  BY <1>0, <1>1, <1>2, <1>3, <1>4, MidSet
<1>6. RestTyped' /\ RunTyped' /\ UNCHANGED dbVars /\ UNCHANGED <<releaser, rerun>>
  BY DEF LockBlob, RestTyped, RunTyped
<1>7. QED
  BY <1>5, <1>6, DbSame DEF Quiet

\* Settle is quiet: it takes a pending record back, never a started one.
LEMMA QuietSettle ==
    ASSUME TInv, NEW p \in Procs, NEW from, NEW to,
           from \in {"await", "settle"}, to \in {"look", "find"}, Settle(p, from, to)
    PROVE  Quiet(p)
<1> USE DEF TInv
<1>0. proc[p].pc = from /\ from \in MidPcs \ {"next", "commit"} /\ to \in MidPcs \ {"next", "commit"}
  BY Mids DEF Settle
<1>1. proc[p] \in Proc /\ proc[p].d \in Digests /\ proc[p].u \in Sessions
  BY <1>0, MidBlob
<1> DEFINE d == proc[p].d
           a == IF record[d] = "started" THEN from ELSE to
           b == IF record[d] = "none" THEN proc[p].settled ELSE record[d] = "pending"
           w == [proc[p] EXCEPT !.pc = a, !.settled = b]
<1>2. proc' = [proc EXCEPT ![p] = w]
  BY DEF Settle
<1>a. a \in MidPcs \ {"next", "commit"} /\ b \in BOOLEAN
  BY <1>0, <1>1, ProcFields
<1>b. a \in ProcSteps
  BY <1>a DEF MidPcs
<1> HIDE DEF a, b
<1>3. w \in Proc
  BY <1>1, <1>a, <1>b DEF Proc
<1>4. w.pc = a /\ w.op = proc[p].op /\ w.u = proc[p].u /\ w.want = proc[p].want /\ w.d = proc[p].d
  BY <1>1 DEF Proc
<1> HIDE DEF w
<1>5. Calm(p)
  BY <1>0, <1>1, <1>2, <1>3, <1>4, <1>a, MidSet
<1>6. RestTyped' /\ RunTyped'
  BY DEF Settle, RestTyped, RunTyped
<1>7. /\ session' = session /\ part' = part /\ intent' = intent /\ park' = park
      /\ located' = located /\ object' = object /\ claimed' = claimed
      /\ releaser' = releaser /\ rerun' = rerun
  BY DEF Settle
<1>8. /\ record' \in [Digests -> {"none", "pending", "started"}]
      /\ \A c \in Digests : record'[c] = "started" <=> record[c] = "started"
  BY <1>1 DEF Settle, DbTyped
<1>9. DbTyped' /\ Guarded /\ session' = session /\ RowsStay
  BY <1>7, <1>8, RowsSame DEF DbTyped, Guarded
<1>10. QED
  BY <1>5, <1>6, <1>9 DEF Quiet

\* Look is quiet.
LEMMA QuietLook ==
    ASSUME TInv, NEW p \in Procs, Look(p)
    PROVE  Quiet(p)
<1> USE DEF TInv
<1>0. proc[p].pc = "look"
  BY DEF Look
<1>1. proc[p] \in Proc /\ proc[p].d \in Digests /\ proc[p].u \in Sessions
  BY <1>0, Mids, MidBlob
<1>2. ASSUME NEW to \in {"accept", "mark"}, Step(p, "look", to)
      PROVE  Calm(p)
  BY <1>2, Mids, StepCalm
<1>3. ASSUME \E to \in {"reuse", "settle"} : proc' = [proc EXCEPT ![p].settled = TRUE, ![p].pc = to]
      PROVE  Calm(p)
  <2>1. PICK to \in {"reuse", "settle"} : proc' = [proc EXCEPT ![p].settled = TRUE, ![p].pc = to]
    BY <1>3
  <2> DEFINE w == [proc[p] EXCEPT !.settled = TRUE, !.pc = to]
  <2>2. proc' = [proc EXCEPT ![p] = w]
    BY <2>1
  <2>3. to \in MidPcs /\ to \in ProcSteps /\ to \notin {"next", "commit"}
    BY Mids DEF MidPcs
  <2>4. w \in Proc
    BY <1>1, <2>3 DEF Proc
  <2>5. w.pc = to /\ w.op = proc[p].op /\ w.u = proc[p].u /\ w.want = proc[p].want /\ w.d = proc[p].d
    BY <1>1 DEF Proc
  <2> HIDE DEF w
  <2>6. QED
    BY <1>0, <1>1, <2>2, <2>3, <2>4, <2>5, Mids, MidSet
<1>4. Calm(p)
  <2>1. \/ \E to \in {"accept", "mark"} : Step(p, "look", to)
        \/ \E to \in {"reuse", "settle"} : proc' = [proc EXCEPT ![p].settled = TRUE, ![p].pc = to]
    BY DEF Look
  <2>2. QED
    BY <2>1, <1>2, <1>3
<1>6. RestTyped' /\ RunTyped' /\ UNCHANGED dbVars /\ UNCHANGED <<releaser, rerun>>
  BY DEF Look, RestTyped, RunTyped
<1>7. QED
  BY <1>4, <1>6, DbSame DEF Quiet

\* MarkAccepted is quiet.
LEMMA QuietMarkAccepted ==
    ASSUME TInv, NEW p \in Procs, MarkAccepted(p)
    PROVE  Quiet(p)
<1> USE DEF TInv
<1> DEFINE to == IF proc[p].op = "part" THEN "unpark" ELSE Concluded(p)
<1>0. Step(p, "accept", to) /\ proc[p].pc = "accept"
  BY DEF MarkAccepted, SetIntent, Step
<1>1. proc[p] \in Proc /\ proc[p].d \in Digests /\ proc[p].u \in Sessions
  BY <1>0, Mids, MidBlob
<1>2. to \in MidPcs /\ (to \in {"next", "commit"} => proc[p].op = "complete")
  <2>1. proc[p].pc \notin PlainPcs
    BY <1>0, Mids
  <2>2. QED
    BY <2>1, ConcludedIs, Mids
<1> HIDE DEF to
<1>3. Calm(p)
  BY <1>0, <1>2, Mids, StepCalm
<1>4. /\ intent' \in [Digests -> {"none", "spooled", "uploading", "parked", "accepted", "published"}]
      /\ session' = session /\ part' = part /\ park' = park /\ located' = located
      /\ record' = record /\ object' = object /\ claimed' = claimed
      /\ releaser' = releaser /\ rerun' = rerun
  BY <1>1 DEF MarkAccepted, SetIntent, DbTyped
<1>5. RestTyped' /\ RunTyped'
  BY DEF MarkAccepted, SetIntent, RestTyped, RunTyped
<1>6. DbTyped' /\ Guarded /\ session' = session /\ RowsStay
  BY <1>4, RowsSame DEF DbTyped, Guarded
<1>7. QED
  BY <1>3, <1>5, <1>6 DEF Quiet

\* UploadDeferred is quiet.
LEMMA QuietUploadDeferred ==
    ASSUME TInv, NEW p \in Procs, NEW t \in Tasks, UploadDeferred(p, t)
    PROVE  Quiet(p)
<1> USE DEF TInv
<1>0. proc[p].pc = "send"
  BY DEF UploadDeferred
<1>1. proc[p] \in Proc /\ proc[p].d \in Digests /\ proc[p].u \in Sessions
  BY <1>0, Mids, MidBlob
<1>2. ASSUME proc' = [proc EXCEPT ![p].pc = "record"]
      PROVE  Calm(p)
  BY <1>0, <1>2, Mids, StepCalm DEF Step
<1>3. ASSUME proc' = [proc EXCEPT ![p].pc = "parking", ![p].t = t]
      PROVE  Calm(p)
  <2> DEFINE w == [proc[p] EXCEPT !.pc = "parking", !.t = t]
  <2>2. proc' = [proc EXCEPT ![p] = w]
    BY <1>3
  <2>4. w \in Proc
    BY <1>1 DEF Proc, ProcSteps, LockSteps
  <2>5. /\ w.pc = "parking" /\ w.op = proc[p].op /\ w.u = proc[p].u
        /\ w.want = proc[p].want /\ w.d = proc[p].d
    BY <1>1 DEF Proc
  <2> HIDE DEF w
  <2>6. QED
    BY <1>0, <1>1, <2>2, <2>4, <2>5, Mids, MidSet
<1>4. Calm(p)
  BY <1>2, <1>3 DEF UploadDeferred
<1>6. RestTyped' /\ RunTyped' /\ UNCHANGED dbVars /\ UNCHANGED <<releaser, rerun>>
  BY DEF UploadDeferred, RestTyped, RunTyped
<1>7. QED
  BY <1>4, <1>6, DbSame DEF Quiet

\* UploadConcluding is quiet.
LEMMA QuietUploadConcluding ==
    ASSUME TInv, NEW p \in Procs, UploadConcluding(p)
    PROVE  Quiet(p)
<1> USE DEF TInv
<1>0. Step(p, "send", "record") /\ proc[p].pc = "send"
  BY DEF UploadConcluding, Step
<1>1. proc[p].d \in Digests
  BY <1>0, Mids, MidBlob
<1>2. Calm(p)
  BY <1>0, Mids, StepCalm
<1>3. RestTyped' /\ RunTyped' /\ UNCHANGED dbVars /\ UNCHANGED <<releaser, rerun>>
  BY <1>1 DEF UploadConcluding, RestTyped, RunTyped
<1>4. QED
  BY <1>2, <1>3, DbSame DEF Quiet

\* Find is quiet.
LEMMA QuietFind ==
    ASSUME TInv, NEW p \in Procs, Find(p)
    PROVE  Quiet(p)
<1> USE DEF TInv
<1>0. proc[p].pc = "find"
  BY DEF Find
<1>1. proc[p] \in Proc /\ proc[p].d \in Digests /\ proc[p].u \in Sessions
  BY <1>0, Mids, MidBlob
<1> DEFINE d == proc[p].d
           a == IF d \in located /\ proc[p].settled THEN "locate"
                ELSE IF park[d] # None THEN "conclude"
                ELSE IF proc[p].op = "accept" THEN "respool" ELSE "lock"
           b == IF d \in located /\ proc[p].settled THEN None ELSE park[d]
           w == [proc[p] EXCEPT !.pc = a, !.t = b]
<1>2. proc' = [proc EXCEPT ![p] = w]
  BY DEF Find
<1>a. a \in MidPcs \ {"next", "commit"} /\ b \in Tasks \cup {None}
  BY <1>1, Mids DEF DbTyped
<1>b. a \in ProcSteps
  BY <1>a DEF MidPcs
<1> HIDE DEF a, b
<1>3. w \in Proc
  BY <1>1, <1>a, <1>b DEF Proc
<1>4. w.pc = a /\ w.op = proc[p].op /\ w.u = proc[p].u /\ w.want = proc[p].want /\ w.d = proc[p].d
  BY <1>1 DEF Proc
<1> HIDE DEF w
<1>5. Calm(p)
  BY <1>0, <1>1, <1>2, <1>3, <1>4, <1>a, Mids, MidSet
<1>6. RestTyped' /\ RunTyped' /\ UNCHANGED dbVars /\ UNCHANGED <<releaser, rerun>>
  BY DEF Find, RestTyped, RunTyped
<1>7. QED
  BY <1>5, <1>6, DbSame DEF Quiet

\* Conclude is quiet.
LEMMA QuietConclude ==
    ASSUME TInv, NEW p \in Procs, Conclude(p)
    PROVE  Quiet(p)
<1> USE DEF TInv
<1>0. Step(p, "conclude", "swap") /\ proc[p].pc = "conclude"
  BY DEF Conclude, Step
<1>1. proc[p].d \in Digests
  BY <1>0, Mids, MidBlob
<1>2. Calm(p)
  BY <1>0, Mids, StepCalm
<1>3. RestTyped' /\ RunTyped' /\ UNCHANGED dbVars /\ UNCHANGED <<releaser, rerun>>
  BY <1>1 DEF Conclude, Accepts, RestTyped, RunTyped
<1>4. QED
  BY <1>2, <1>3, DbSame DEF Quiet

\* A conclude whose answer is lost is quiet.
LEMMA QuietConcludeFails ==
    ASSUME TInv, NEW p \in Procs, ConcludeFails(p)
    PROVE  Quiet(p)
<1> USE DEF TInv
<1>0. Failed(p) /\ proc[p].pc = "conclude"
  BY DEF ConcludeFails
<1>1. proc[p].d \in Digests
  BY <1>0, Mids, MidBlob
<1>2. Calm(p)
  BY <1>0, FailedCalm
<1>3. RestTyped' /\ RunTyped' /\ UNCHANGED dbVars /\ UNCHANGED <<releaser, rerun>>
  BY <1>1 DEF ConcludeFails, Accepts, RestTyped, RunTyped
<1>4. QED
  BY <1>2, <1>3, DbSame DEF Quiet

\* A failure is quiet.
LEMMA QuietFail ==
    ASSUME TInv, NEW p \in Procs, Fail(p)
    PROVE  Quiet(p)
<1> USE DEF TInv
<1>2. Calm(p)
  BY FailedCalm DEF Fail
<1>3. RestTyped' /\ RunTyped' /\ UNCHANGED dbVars /\ UNCHANGED <<releaser, rerun>>
  BY DEF Fail, RestTyped, RunTyped
<1>4. QED
  BY <1>2, <1>3, DbSame DEF Quiet
\* A record changed by Enqueue alone.
LEMMA EnqueueQuiet ==
    ASSUME DbTyped, NEW ds, record' = Enqueue(ds),
           UNCHANGED <<session, intent, park, located, object, claimed, releaser, rerun>>,
           part' \in [Sessions -> [Numbers -> Row]]
    PROVE  DbTyped' /\ Guarded
<1>1. /\ record' \in [Digests -> {"none", "pending", "started"}]
      /\ \A d \in Digests : record'[d] = "started" <=> record[d] = "started"
  BY EnqueueIs
<1>2. QED
  BY <1>1 DEF DbTyped, Guarded

\* MarkPartParked is quiet.
LEMMA QuietMarkPartParked ==
    ASSUME TInv, NEW p \in Procs, MarkPartParked(p)
    PROVE  Quiet(p)
<1> USE DEF TInv
<1>0. proc[p].pc = "move" /\ End(p)
  BY DEF MarkPartParked
<1>1. proc[p].d \in Digests /\ proc[p].u \in Sessions
  BY <1>0, Mids, MidBlob
<1>2. Calm(p)
  BY <1>0, EndCalm
<1>3. part' = MovePart(proc[p].u, proc[p].n, proc[p].d, "spooled", "parked")
  BY DEF MarkPartParked
<1>4. part' \in [Sessions -> [Numbers -> Row]] /\ RowsStay
  BY <1>1, <1>3, MovePartIs
<1>5. RestTyped' /\ RunTyped'
  BY DEF MarkPartParked, RestTyped, RunTyped
<1>6. \E ds : record' = Enqueue(ds)
  <2>1. CASE record' = record
    <3>1. Enqueue({}) = record
      BY DEF Enqueue, DbTyped
    <3>2. QED
      BY <2>1, <3>1
  <2>2. QED
    BY <2>1 DEF MarkPartParked
<1>7. UNCHANGED <<session, intent, park, located, object, claimed, releaser, rerun>>
  BY DEF MarkPartParked
<1>8. DbTyped' /\ Guarded
  BY <1>4, <1>6, <1>7, EnqueueQuiet
<1>9. QED
  BY <1>2, <1>4, <1>5, <1>7, <1>8 DEF Quiet

\* EndPass is quiet.
LEMMA QuietEndPass ==
    ASSUME TInv, NEW p \in Procs, EndPass(p)
    PROVE  Quiet(p)
<1> USE DEF TInv
<1>0. proc[p].pc \in {"promote", "respool"} /\ End(p)
  BY DEF EndPass
<1>1. proc[p].d \in Digests /\ proc[p].u \in Sessions
  BY <1>0, Mids, MidBlob
<1>2. Calm(p)
  BY <1>0, EndCalm
<1>3. PICK to \in {"accepted", "spooled"} :
        part' = MovePart(proc[p].u, proc[p].n, proc[p].d, "parked", to)
  BY DEF EndPass
<1>4. part' \in [Sessions -> [Numbers -> Row]] /\ RowsStay
  BY <1>1, <1>3, MovePartIs
<1>5. RestTyped' /\ RunTyped'
  BY DEF EndPass, RestTyped, RunTyped
<1>7. UNCHANGED <<session, intent, park, located, record, object, claimed, releaser, rerun>>
  BY DEF EndPass
<1>8. DbTyped' /\ Guarded
  BY <1>4, <1>7 DEF DbTyped, Guarded
<1>9. QED
  BY <1>2, <1>4, <1>5, <1>7, <1>8 DEF Quiet

\* ReleaseOrphans is quiet.
LEMMA QuietReleaseOrphans ==
    ASSUME TInv, NEW p \in Procs, ReleaseOrphans(p)
    PROVE  Quiet(p)
<1> USE DEF TInv
<1>1. Calm(p)
  BY EndCalm DEF ReleaseOrphans
<1>2. RestTyped' /\ RunTyped'
  BY DEF ReleaseOrphans, RestTyped, RunTyped
<1>3. /\ UNCHANGED <<session, part, intent, park, located, object, claimed, releaser, rerun>>
      /\ record' = Enqueue(proc[p].drop)
  BY DEF ReleaseOrphans
<1>4. DbTyped' /\ Guarded
  <2>1. part' \in [Sessions -> [Numbers -> Row]]
    BY <1>3 DEF DbTyped
  <2>2. QED
    BY <1>3, <2>1, EnqueueQuiet
<1>5. QED
  BY <1>1, <1>2, <1>3, <1>4, RowsSame DEF Quiet

\* ConcludeNext is quiet.
LEMMA QuietConcludeNext ==
    ASSUME TInv, NEW p \in Procs, NEW d \in Digests, ConcludeNext(p, d)
    PROVE  Quiet(p)
<1> USE DEF TInv
<1>0. proc[p].pc = "next" /\ proc[p] \in Proc
  BY DEF ConcludeNext, ProcTyped
<1> DEFINE w == [proc[p] EXCEPT !.pc = "settle", !.d = d, !.settled = TRUE, !.todo = @ \ {d}]
<1>2. proc' = [proc EXCEPT ![p] = w]
  BY DEF ConcludeNext
<1>3. w \in Proc
  BY <1>0 DEF Proc, ProcSteps, MarkSteps
<1>4. w.pc = "settle" /\ w.op = proc[p].op /\ w.u = proc[p].u /\ w.want = proc[p].want /\ w.d = d
  BY <1>0 DEF Proc
<1> HIDE DEF w
<1>5. Calm(p)
  BY <1>0, <1>2, <1>3, <1>4, Mids, MidSet
<1>6. RestTyped' /\ RunTyped' /\ UNCHANGED dbVars /\ UNCHANGED <<releaser, rerun>>
  BY DEF ConcludeNext, RestTyped, RunTyped
<1>7. QED
  BY <1>5, <1>6, DbSame DEF Quiet

\* PromoteParts is quiet.
LEMMA QuietPromoteParts ==
    ASSUME TInv, RowInv, NEW p \in Procs, PromoteParts(p)
    PROVE  Quiet(p)
<1> USE DEF TInv
<1>0. proc[p].pc = "next" /\ proc[p] \in Proc
  BY DEF PromoteParts, ProcTyped
<1>1. proc[p].op = "complete" /\ proc[p].u \in Sessions
  BY <1>0 DEF ProcInv, Staged, CompletePcs
<1> DEFINE w == [proc[p] EXCEPT !.pc = "commit", !.d = None, !.t = None, !.settled = TRUE]
           u == proc[p].u
           R(n) == IF n \in Wanted(p) /\ part[u][n].digest = proc[p].want[n]
                   THEN [part[u][n] EXCEPT !.state = "accepted"] ELSE part[u][n]
<1>2. proc' = [proc EXCEPT ![p] = w]
  BY DEF PromoteParts
<1>3. w \in Proc
  BY <1>0 DEF Proc, ProcSteps
<1>4. w.pc = "commit" /\ w.op = proc[p].op /\ w.u = proc[p].u /\ w.want = proc[p].want
  BY <1>0 DEF Proc
<1> HIDE DEF w
<1>5. Calm(p)
  BY <1>0, <1>1, <1>2, <1>3, <1>4, Mids, MidSet
<1>6. RestTyped' /\ RunTyped'
  BY DEF PromoteParts, RestTyped, RunTyped
<1>7. UNCHANGED <<session, intent, park, located, record, object, claimed, releaser, rerun>>
  BY DEF PromoteParts
<1>8. part' = [part EXCEPT ![u] = [n \in Numbers |-> R(n)]]
  BY DEF PromoteParts
<1>9. ASSUME NEW n \in Numbers
      PROVE  /\ R(n) \in Row /\ R(n).digest = part[u][n].digest
             /\ (R(n).state = "none") <=> (part[u][n].state = "none")
  <2>1. part[u][n] \in Row
    BY <1>1 DEF DbTyped
  <2>2. n \in Wanted(p) /\ part[u][n].digest = proc[p].want[n] => part[u][n].state # "none"
    BY <1>1 DEF Wanted, RowInv, RowAt, NoPart
  <2>3. QED
    BY <2>1, <2>2 DEF Row
<1> HIDE DEF R
<1>10. /\ part' \in [Sessions -> [Numbers -> Row]]
       /\ \A v \in Sessions, n \in Numbers :
             part'[v][n] = IF v = u THEN R(n) ELSE part[v][n]
  BY <1>1, <1>8, <1>9 DEF DbTyped
<1>11. RowsStay
  <2>1. \A v \in Sessions, n \in Numbers : part'[v][n] \in Row
    BY <1>10
  <2>2. QED
    BY <1>9, <1>10, <2>1, RowIs DEF RowsStay
<1>12. DbTyped' /\ Guarded
  BY <1>7, <1>10 DEF DbTyped, Guarded
<1>13. QED
  BY <1>5, <1>6, <1>7, <1>11, <1>12 DEF Quiet
\* A request is taken up.
LEMMA TakenUp == ASSUME RestTyped, NEW p, TakeUp(p) PROVE taken' \in 0..MaxRequests
  BY BoundAssumption DEF RestTyped, TakeUp

\* UploadPart's start is quiet.
LEMMA QuietUploadPart ==
    ASSUME TInv, NEW p \in Procs, NEW u \in Sessions, NEW n \in Numbers, NEW d \in Digests,
           UploadPart(p, u, n, d)
    PROVE  Quiet(p)
<1> USE DEF TInv
<1> DEFINE w == [Idle EXCEPT !.op = "part", !.pc = "spooled", !.u = u, !.n = n, !.d = d]
<1>1. proc' = [proc EXCEPT ![p] = w]
  BY DEF UploadPart
<1>2. w \in Proc
  BY DEF Idle, Proc, ProcSteps, HoldSteps, NoParts
<1>3. w.op = "part" /\ w.pc = "spooled" /\ w.u = u /\ w.d = d
  BY DEF Idle
<1> HIDE DEF w
<1>4. Staged(w)
  BY <1>3 DEF Staged, TeardownPcs, CompletePcs
<1>5. Calm(p)
  BY <1>1, <1>2, <1>3, <1>4, StartCalm
<1>6. RestTyped' /\ RunTyped' /\ UNCHANGED dbVars /\ UNCHANGED <<releaser, rerun>>
  BY TakenUp DEF UploadPart, RestTyped, RunTyped
<1>7. QED
  BY <1>5, <1>6, DbSame DEF Quiet

\* The start of an acceptor's pass is quiet.
LEMMA QuietStartPass ==
    ASSUME TInv, RowInv, NEW u \in Sessions, NEW n \in Numbers, StartPass(u, n)
    PROVE  Quiet(u)
<1> USE DEF TInv
<1>p. u \in Procs
  BY DEF Procs
<1> DEFINE d == part[u][n].digest
           w == [Idle EXCEPT !.op = "accept", !.pc = "releasing", !.u = u, !.n = n, !.d = d]
<1>1. proc' = [proc EXCEPT ![u] = w]
  BY DEF StartPass
<1>d. d \in Digests
  <2>1. part[u][n] \in Row /\ part[u][n].state = "parked"
    BY DEF StartPass, DbTyped
  <2>2. part[u][n].digest # None
    BY <2>1 DEF RowInv, RowAt, NoPart
  <2>3. QED
    BY <2>1, <2>2 DEF Row
<1> HIDE DEF d
<1>2. w \in Proc
  BY <1>d DEF Idle, Proc, ProcSteps, MarkSteps, NoParts
<1>3. w.op = "accept" /\ w.pc = "releasing" /\ w.u = u /\ w.d = d
  BY DEF Idle
<1> HIDE DEF w
<1>4. Staged(w)
  BY <1>d, <1>3 DEF Staged, TeardownPcs, CompletePcs
<1>5. Calm(u)
  BY <1>p, <1>1, <1>2, <1>3, <1>4, StartCalm
<1>6. RestTyped' /\ RunTyped' /\ UNCHANGED dbVars /\ UNCHANGED <<releaser, rerun>>
  BY DEF StartPass, RestTyped, RunTyped
<1>7. QED
  BY <1>5, <1>6, DbSame DEF Quiet

\* The start of a completion is quiet.
LEMMA QuietComplete ==
    ASSUME TInv, RowInv, NEW p \in Procs, NEW u \in Sessions, NEW W \in SUBSET Numbers,
           Complete(p, u, W)
    PROVE  Quiet(p)
<1> USE DEF TInv
<1> DEFINE want == [n \in Numbers |-> IF n \in W THEN part[u][n].digest ELSE None]
           have == {part[u][n].digest : n \in Numbers}
           drop == have \ ({want[n] : n \in W} \cup {None})
           w == [Idle EXCEPT !.op = "complete", !.pc = "latch", !.u = u, !.want = want,
                             !.drop = drop]
<1>1. proc' = [proc EXCEPT ![p] = w]
  BY DEF Complete
<1>r. \A n \in Numbers : part[u][n].digest \in Digests \cup {None}
  BY DEF DbTyped, Row
<1>d. want \in [Numbers -> Digests \cup {None}] /\ drop \subseteq Digests
  BY <1>r
<1>e. \E n \in Numbers : want[n] # None
  <2>1. PICK n \in W : part[u][n] # NoPart
    BY DEF Complete
  <2>2. n \in Numbers /\ part[u][n].digest # None
    BY <2>1 DEF RowInv, RowAt
  <2>3. QED
    BY <2>2
<1> HIDE DEF want, drop
<1>2. w \in Proc
  BY <1>d DEF Idle, Proc, ProcSteps
<1>3. w.op = "complete" /\ w.pc = "latch" /\ w.u = u /\ w.want = want
  BY DEF Idle
<1> HIDE DEF w
<1>4. Staged(w)
  BY <1>e, <1>3 DEF Staged, TeardownPcs, CompletePcs, PlainPcs
<1>5. Calm(p)
  BY <1>1, <1>2, <1>3, <1>4, StartCalm
<1>6. RestTyped' /\ RunTyped' /\ UNCHANGED dbVars /\ UNCHANGED <<releaser, rerun>>
  BY TakenUp DEF Complete, RestTyped, RunTyped
<1>7. QED
  BY <1>5, <1>6, DbSame DEF Quiet

\* A teardown goes on.
LEMMA TeardownSet ==
    ASSUME ProcTyped, ProcInv, NEW p \in Procs, NEW w \in Proc,
           proc' = [proc EXCEPT ![p] = w],
           proc[p].pc \in TeardownPcs, w.pc \in TeardownPcs,
           w.op = proc[p].op, w.u = proc[p].u
    PROVE  Calm(p)
<1>1. ProcTyped' /\ Only(p) /\ proc'[p] = w
  BY ProcSet
<1>2. Staged(proc[p]) /\ proc[p].op = "abort" /\ proc[p].u \in Sessions
  BY DEF ProcInv, Staged
<1>3. Staged(w)
  BY <1>2 DEF Staged, TeardownPcs, CompletePcs, PlainPcs
<1>4. Advance(proc[p], w)
  BY <1>2, <1>3 DEF Advance, Latched, Reviewed
<1>5. QED
  BY <1>1, <1>4 DEF Calm

\* A teardown takes its next step.
LEMMA TeardownStep ==
    ASSUME ProcTyped, ProcInv, NEW p \in Procs, NEW from \in TeardownPcs,
           NEW to \in TeardownPcs, Step(p, from, to)
    PROVE  Calm(p)
<1> DEFINE w == [proc[p] EXCEPT !.pc = to]
<1>1. proc[p] \in Proc /\ proc[p].pc = from /\ proc' = [proc EXCEPT ![p] = w]
  BY DEF ProcTyped, Step
<1>2. w \in Proc /\ w.pc = to /\ w.op = proc[p].op /\ w.u = proc[p].u
  BY <1>1 DEF Proc, TeardownPcs, ProcSteps
<1> HIDE DEF w
<1>3. QED
  BY <1>1, <1>2, TeardownSet

\* Quiesce is quiet.
LEMMA QuietQuiesce ==
    ASSUME TInv, NEW p \in Procs, Quiesce(p)
    PROVE  Quiet(p)
<1> USE DEF TInv
<1>1. Step(p, "quiesce", "list") /\ {"quiesce", "list"} \subseteq TeardownPcs
  BY DEF Quiesce, TeardownPcs
<1>2. Calm(p)
  BY <1>1, TeardownStep
<1>3. RestTyped' /\ RunTyped' /\ UNCHANGED dbVars /\ UNCHANGED <<releaser, rerun>>
  BY DEF Quiesce, RestTyped, RunTyped
<1>4. QED
  BY <1>2, <1>3, DbSame DEF Quiet

\* ReadIntents is quiet.
LEMMA QuietReadIntents ==
    ASSUME TInv, NEW p \in Procs, ReadIntents(p)
    PROVE  Quiet(p)
<1> USE DEF TInv
<1> DEFINE u == proc[p].u
           ds == {d \in {part[u][n].digest : n \in Numbers} \ {None} :
                      intent[d] \notin {"none", "published"}}
           w == [proc[p] EXCEPT !.pc = "enqueue", !.todo = ds]
<1>0. proc[p] \in Proc /\ proc[p].pc = "list"
  BY DEF ReadIntents, ProcTyped
<1>1. proc' = [proc EXCEPT ![p] = w]
  BY DEF ReadIntents
<1>2. u \in Sessions
  BY <1>0 DEF ProcInv, Staged
<1>3. ds \subseteq Digests
  <2>1. \A n \in Numbers : part[u][n].digest \in Digests \cup {None}
    BY <1>2 DEF DbTyped, Row
  <2>2. QED
    BY <2>1
<1> HIDE DEF ds
<1>4. w \in Proc /\ w.pc = "enqueue" /\ w.op = proc[p].op /\ w.u = proc[p].u
  BY <1>0, <1>3 DEF Proc, ProcSteps
<1> HIDE DEF w
<1>5. Calm(p)
  BY <1>0, <1>1, <1>4, TeardownSet DEF TeardownPcs
<1>6. RestTyped' /\ RunTyped' /\ UNCHANGED dbVars /\ UNCHANGED <<releaser, rerun>>
  BY DEF ReadIntents, RestTyped, RunTyped
<1>7. QED
  BY <1>5, <1>6, DbSame DEF Quiet

\* RecordReleases is quiet.
LEMMA QuietRecordReleases ==
    ASSUME TInv, NEW p \in Procs, RecordReleases(p)
    PROVE  Quiet(p)
<1> USE DEF TInv
<1>0. Step(p, "enqueue", "delete") /\ {"enqueue", "delete"} \subseteq TeardownPcs
  BY DEF RecordReleases, TeardownPcs
<1>1. Calm(p)
  BY <1>0, TeardownStep
<1>2. RestTyped' /\ RunTyped'
  BY DEF RecordReleases, RestTyped, RunTyped
<1>3. /\ UNCHANGED <<session, part, intent, park, located, object, claimed, releaser, rerun>>
      /\ record' = Enqueue(proc[p].todo)
  BY DEF RecordReleases
<1>4. DbTyped' /\ Guarded
  <2>1. part' \in [Sessions -> [Numbers -> Row]]
    BY <1>3 DEF DbTyped
  <2>2. QED
    BY <1>3, <2>1, EnqueueQuiet
<1>5. QED
  BY <1>1, <1>2, <1>3, <1>4, RowsSame DEF Quiet
-----------------------------------------------------------------------------
(* The steps that do: sessions, latches and commits.                       *)

\* A step on one upload, by one process, leaves the other uploads' latches alone.
LEMMA LatchMove ==
    ASSUME LInv, NEW p \in Procs, NEW u \in Sessions, Only(p),
           \A v \in Sessions : v # u =>
               session'[v] = session[v] /\ object'[v] = object[v] /\ part'[v] = part[v],
           \A v \in Sessions : v # u =>
               proc'[p] = proc[p] \/ (~Latched(proc'[p], v) /\ proc'[p].u # v),
           RowAt(u)', TornAt(u)', LatchAt(u)'
    PROVE  LInv'
<1>1. ASSUME NEW v \in Sessions, v # u
      PROVE  RowAt(v)' /\ TornAt(v)' /\ LatchAt(v)'
  <2>0. RowAt(v) /\ TornAt(v) /\ LatchAt(v)
    BY DEF LInv
  <2>1. session'[v] = session[v] /\ object'[v] = object[v] /\ part'[v] = part[v]
    BY <1>1
  <2>2. \A q \in Procs : proc'[q] = proc[q] \/ (~Latched(proc'[q], v) /\ proc'[q].u # v)
    BY <1>1 DEF Only
  <2>3. RowAt(v)'
    BY <2>0, <2>1 DEF RowAt
  <2>4. TornAt(v)'
    BY <2>0, <2>1, <2>2 DEF TornAt
  <2>5. LatchAt(v)'
    <3>1. \A q \in Procs : Latched(proc'[q], v) => proc'[q] = proc[q]
      BY <2>2
    <3>2. \A q \in Procs : Reviewed(proc'[q], v) => proc'[q] = proc[q]
      BY <3>1 DEF Reviewed
    <3>3. QED
      BY <2>0, <2>1, <3>1, <3>2 DEF LatchAt
  <2>6. QED
    BY <2>3, <2>4, <2>5
<1>2. QED
  BY <1>1 DEF LInv

\* The rows of every upload are well formed.
LEMMA Rows == LInv => RowInv
  BY DEF LInv, RowInv

\* The upload as its client sees it, one at a time.
LEMMA UploadAt ==
    ASSUME NEW u \in Sessions
    PROVE  Upload[u] = IF object[u] # NoParts THEN "committed"
                       ELSE IF session[u] = "none" THEN "none"
                       ELSE IF Live(u) THEN "open" ELSE "discarded"
  BY DEF Upload

\* ... and after the step.
LEMMA UploadThen ==
    ASSUME NEW u \in Sessions
    PROVE  Upload'[u] = IF object'[u] # NoParts THEN "committed"
                        ELSE IF session'[u] = "none" THEN "none"
                        ELSE IF session'[u] \in {"open", "completing"} THEN "open"
                        ELSE "discarded"
  BY DEF Upload, Live

\* The parts its client sees.
Shown == [u \in Sessions |-> [n \in Numbers |->
              IF Upload[u] = "open" THEN part[u][n].digest ELSE None]]

\* The abstract specification's step, or none.
Shows == [Sees!ANext]_(Sees!avars)

\* A step that leaves sessions, objects and the parts' digests is none.
LEMMA Unseen ==
    ASSUME session' = session, object' = object, RowsStay
    PROVE  Shows
<1>1. Upload' = Upload
  BY DEF Upload, Live
<1>2. Shown' = Shown
  BY <1>1 DEF Shown, RowsStay
<1>3. QED
  BY <1>1, <1>2 DEF Shows, Sees!avars, Shown

\* A step on one upload, alone.
Alone(u) == \A v \in Sessions : v # u =>
                session'[v] = session[v] /\ object'[v] = object[v] /\ part'[v] = part[v]

\* It changes what is seen of that upload alone.
LEMMA AloneSeen ==
    ASSUME NEW u \in Sessions, Alone(u)
    PROVE  /\ Upload' = [Upload EXCEPT ![u] = Upload'[u]]
           /\ Shown' = [Shown EXCEPT ![u] = Shown'[u]]
<1>1. \A v \in Sessions : v # u => Upload'[v] = Upload[v]
  BY UploadAt, UploadThen DEF Alone, Live
<1>2. Upload' \in [Sessions -> {"committed", "none", "open", "discarded"}]
      /\ Upload \in [Sessions -> {"committed", "none", "open", "discarded"}]
  BY DEF Upload
<1>3. ASSUME NEW v \in Sessions, v # u PROVE Shown'[v] = Shown[v]
  BY <1>1, <1>3 DEF Shown, Alone
<1>4. Shown' = [v \in Sessions |-> Shown'[v]] /\ Shown = [v \in Sessions |-> Shown[v]]
  BY DEF Shown
<1>5. QED
  BY <1>1, <1>2, <1>3, <1>4

\* Nothing is seen of a step that leaves the upload's own view alone.
LEMMA AloneUnseen ==
    ASSUME NEW u \in Sessions, Alone(u), object' = object, Upload'[u] = Upload[u],
           Shown'[u] = Shown[u]
    PROVE  Shows
<1>1. Upload' = Upload /\ Shown' = Shown
  <2>1. Upload = [Upload EXCEPT ![u] = Upload[u]] /\ Shown = [Shown EXCEPT ![u] = Shown[u]]
    BY DEF Upload, Shown
  <2>2. QED
    BY <2>1, AloneSeen
<1>2. QED
  BY <1>1 DEF Shows, Sees!avars, Shown

\* CreateMultipartUpload opens an upload that has no parts yet.
LEMMA Creates ==
    ASSUME TInv, LInv, NEW u \in Sessions, CreateMultipartUpload(u)
    PROVE  TInv' /\ LInv' /\ Guarded /\ Shows
<1> USE DEF TInv
<1>0. /\ session[u] = "none" /\ session' = [session EXCEPT ![u] = "open"]
      /\ part' = part /\ intent' = intent /\ park' = park /\ located' = located
      /\ record' = record /\ object' = object /\ claimed' = claimed /\ alloc' = alloc
      /\ stored' = stored /\ proc' = proc /\ taken' = taken
      /\ releaser' = releaser /\ rerun' = rerun
  BY DEF CreateMultipartUpload
<1>1. session' \in [Sessions -> {"none", "open", "completing", "completed", "aborting", "gone"}]
      /\ session'[u] = "open" /\ \A v \in Sessions : v # u => session'[v] = session[v]
  BY <1>0 DEF DbTyped
<1>2. DbTyped'
  BY <1>0, <1>1 DEF DbTyped
<1>3. TInv'
  BY <1>0, <1>2 DEF RestTyped, ProcTyped, RunTyped, ProcInv
<1>4. RowAt(u) /\ TornAt(u) /\ LatchAt(u)
  BY DEF LInv
<1>5. object[u] = NoParts /\ \A n \in Numbers : part[u][n] = NoPart
  BY <1>0, <1>4 DEF RowAt, LatchAt
<1>6. LInv'
  <2>1. RowAt(u)' /\ TornAt(u)'
    BY <1>0, <1>1, <1>4 DEF RowAt, TornAt
  <2>2. LatchAt(u)'
    BY <1>0, <1>1, <1>4 DEF LatchAt
  <2>3. u \in Procs /\ Only(u)
    BY <1>0 DEF Procs, Only
  <2>4. QED
    BY <1>0, <1>1, <2>1, <2>2, <2>3, LatchMove
<1>7. Shows
  <2>1. Alone(u)
    BY <1>0, <1>1 DEF Alone
  <2>2. Upload[u] = "none" /\ Upload'[u] = "open"
    BY <1>0, <1>1, <1>5, UploadAt, UploadThen
  <2>3. Shown'[u] = Shown[u]
    BY <1>0, <1>5, <2>2 DEF Shown, NoPart
  <2>4. Shown = [Shown EXCEPT ![u] = Shown[u]]
    BY DEF Shown
  <2>5. Upload' = [Upload EXCEPT ![u] = "open"] /\ Shown' = Shown
    BY <2>1, <2>2, <2>3, <2>4, AloneSeen
  <2>6. Sees!ACreate(u)
    BY <1>0, <2>2, <2>5 DEF Sees!ACreate, Shown
  <2>7. QED
    BY <2>6 DEF Shows, Sees!ANext
<1>8. QED
  BY <1>0, <1>3, <1>6, <1>7 DEF Guarded

\* One process moves, to something well formed.
LEMMA ProcKept ==
    ASSUME ProcInv, NEW p \in Procs, Only(p), Staged(proc'[p])
    PROVE  ProcInv'
  BY DEF ProcInv, Only

\* PutPart puts the part seen, if the number is one of an upload's.
LEMMA Puts ==
    ASSUME TInv, LInv, NEW p \in Procs, PutPart(p)
    PROVE  TInv' /\ LInv' /\ Guarded /\ Shows
<1> USE DEF TInv
<1>u. PICK u, n, d : u = proc[p].u /\ n = proc[p].n /\ d = proc[p].d
  OBVIOUS
<1> DEFINE x == [digest |-> d, state |-> "spooled"]
<1>0. /\ Step(p, "put", "lock") /\ proc[p].pc = "put" /\ session[u] = "open"
      /\ part' = [part EXCEPT ![u][n] = x] /\ record' = Enqueue({part[u][n].digest} \ {None, d})
      /\ session' = session /\ intent' = intent /\ park' = park /\ located' = located
      /\ object' = object /\ claimed' = claimed
      /\ releaser' = releaser /\ rerun' = rerun
  BY <1>u DEF PutPart, Step
<1>1. d \in Digests /\ u \in Sessions
  BY <1>0, <1>u, Mids, MidBlob
<1>2. Calm(p)
  BY <1>0, Mids, StepCalm
<1>3. ProcTyped' /\ Only(p) /\ ProcInv'
  BY <1>2, CalmStaged DEF Calm
<1>4. RestTyped' /\ RunTyped'
  BY DEF PutPart, RestTyped, RunTyped
<1>5. x \in Row /\ x.digest = d /\ x.state = "spooled"
  BY <1>1 DEF Row
<1> HIDE DEF x
<1>6. CASE n \notin Numbers
  <2>1. part' = part
    <3>1. [part[u] EXCEPT ![n] = x] = part[u]
      BY <1>1, <1>6 DEF DbTyped
    <3>2. part' = [part EXCEPT ![u] = part[u]]
      BY <1>0, <3>1
    <3>3. QED
      BY <3>2 DEF DbTyped
  <2>2. DbTyped' /\ Guarded
    <3>1. part' \in [Sessions -> [Numbers -> Row]]
      BY <2>1 DEF DbTyped
    <3>2. QED
      BY <1>0, <3>1, EnqueueQuiet
  <2>3. RowsStay
    BY <2>1, RowsSame
  <2>4. LInv' /\ Shows
    BY <1>0, <1>2, <2>2, <2>3, CalmLatch, Unseen
  <2>5. QED
    BY <1>3, <1>4, <2>2, <2>4
<1>7. CASE n \in Numbers
  <2>1. /\ part' \in [Sessions -> [Numbers -> Row]]
        /\ \A v \in Sessions : v # u => part'[v] = part[v]
        /\ part'[u] = [part[u] EXCEPT ![n] = x]
        /\ \A m \in Numbers : part'[u][m] = IF m = n THEN x ELSE part[u][m]
    BY <1>0, <1>1, <1>5, <1>7 DEF DbTyped
  <2>2. DbTyped' /\ Guarded
    BY <1>0, <2>1, EnqueueQuiet
  <2>3. RowAt(u) /\ TornAt(u) /\ LatchAt(u)
    BY <1>1 DEF LInv
  <2>4. object[u] = NoParts /\ \A q \in Procs : ~Latched(proc[q], u)
    BY <1>0, <2>3 DEF LatchAt
  <2>5. \A q \in Procs : ~Latched(proc'[q], u)
    BY <1>1, <1>2, <2>4 DEF Calm, Only, Advance
  <2>6. LatchAt(u)'
    BY <1>0, <2>4, <2>5 DEF LatchAt
  <2>7. RowAt(u)'
    BY <1>0, <1>1, <1>5, <2>1, <2>3, NoneAssumption DEF RowAt
  <2>8. proc'[p].u = u /\ proc'[p].op = proc[p].op
    <3>1. proc' = [proc EXCEPT ![p].pc = "lock"] /\ "lock" \in ProcSteps
      BY <1>0 DEF Step, ProcSteps, HoldSteps
    <3>2. QED
      BY <1>u, <3>1, PcSet DEF Same
  <2>9. TornAt(u)'
    BY <1>0, <1>3, <1>u, <2>3, <2>8 DEF TornAt, Only
  <2>10. Alone(u)
    BY <1>0, <2>1 DEF Alone
  <2>11. LInv'
    BY <1>0, <1>1, <1>3, <2>1, <2>6, <2>7, <2>8, <2>9, LatchMove DEF Latched
  <2>12. Shows
    <3>1. Upload[u] = "open" /\ Upload'[u] = "open"
      BY <1>0, <1>1, <2>4, UploadAt, UploadThen DEF Live
    <3>2. Shown'[u] = [Shown[u] EXCEPT ![n] = d]
      BY <1>1, <1>5, <1>7, <2>1, <3>1 DEF Shown
    <3>3. Upload' = [Upload EXCEPT ![u] = Upload'[u]] /\ Shown' = [Shown EXCEPT ![u] = Shown'[u]]
      BY <1>1, <2>10, AloneSeen
    <3>4. Upload' = Upload
      BY <1>1, <3>1, <3>3 DEF Upload
    <3>5. Sees!APutPart(u, n, d)
      BY <1>0, <3>1, <3>2, <3>3, <3>4 DEF Sees!APutPart, Shown
    <3>6. QED
      BY <1>1, <1>7, <3>5 DEF Shows, Sees!ANext
  <2>13. QED
    BY <1>3, <1>4, <2>2, <2>11, <2>12
<1>8. QED
  BY <1>6, <1>7

\* LatchCompleting takes the latch nobody had.
LEMMA Latches ==
    ASSUME TInv, LInv, NEW p \in Procs, LatchCompleting(p)
    PROVE  TInv' /\ LInv' /\ Guarded /\ Shows
<1> USE DEF TInv
<1>u. PICK u : u = proc[p].u
  OBVIOUS
<1>0. /\ proc[p].pc = "latch" /\ proc' = [proc EXCEPT ![p].pc = "review"]
      /\ session[u] = "open" /\ session' = [session EXCEPT ![u] = "completing"]
      /\ part' = part /\ intent' = intent /\ park' = park /\ located' = located
      /\ record' = record /\ object' = object /\ claimed' = claimed /\ alloc' = alloc
      /\ stored' = stored /\ taken' = taken /\ releaser' = releaser /\ rerun' = rerun
  BY <1>u DEF LatchCompleting, Latch, Step
<1>1. /\ ProcTyped' /\ Only(p) /\ proc'[p].pc = "review" /\ Same(proc'[p], proc[p])
  BY <1>0, PcSet DEF ProcSteps
<1>2. Staged(proc[p]) /\ proc[p].op = "complete" /\ u \in Sessions
  BY <1>0, <1>u DEF ProcInv, Staged, CompletePcs
<1>3. Staged(proc'[p])
  BY <1>0, <1>1, <1>2 DEF Staged, Same, TeardownPcs, CompletePcs, PlainPcs
<1>4. session' \in [Sessions -> {"none", "open", "completing", "completed", "aborting", "gone"}]
      /\ session'[u] = "completing" /\ \A v \in Sessions : v # u => session'[v] = session[v]
  BY <1>0, <1>2 DEF DbTyped
<1>5. TInv'
  <2>1. DbTyped' /\ RestTyped' /\ RunTyped'
    BY <1>0, <1>4 DEF DbTyped, RestTyped, RunTyped
  <2>2. QED
    BY <1>1, <1>3, <2>1, ProcKept
<1>6. RowAt(u) /\ TornAt(u) /\ LatchAt(u)
  BY <1>2 DEF LInv
<1>7. object[u] = NoParts /\ \A q \in Procs : ~Latched(proc[q], u)
  BY <1>0, <1>6 DEF LatchAt
<1>8. LatchAt(u)'
  <2>1. \A q \in Procs : Latched(proc'[q], u) => q = p
    BY <1>1, <1>7 DEF Only
  <2>2. \A q \in Procs : ~Reviewed(proc'[q], u)
    BY <1>1, <2>1 DEF Reviewed
  <2>3. QED
    BY <1>0, <1>4, <1>7, <2>1, <2>2 DEF LatchAt
<1>9. RowAt(u)' /\ TornAt(u)'
  BY <1>0, <1>1, <1>2, <1>4, <1>6, <1>u DEF RowAt, TornAt, Only, Same
<1>10. LInv'
  BY <1>0, <1>1, <1>2, <1>4, <1>8, <1>9, <1>u, LatchMove DEF Latched, Same
<1>11. Shows
  <2>1. Alone(u)
    BY <1>0, <1>4 DEF Alone
  <2>2. Upload[u] = "open" /\ Upload'[u] = "open"
    BY <1>0, <1>2, <1>4, <1>7, UploadAt, UploadThen DEF Live
  <2>3. Shown'[u] = Shown[u]
    BY <1>0, <1>2, <2>2 DEF Shown
  <2>4. QED
    BY <1>0, <1>2, <2>1, <2>2, <2>3, AloneUnseen
<1>12. QED
  BY <1>0, <1>5, <1>10, <1>11 DEF Guarded

\* AcceptRequested goes on only when the rows are still the ones listed.
LEMMA Reviews ==
    ASSUME TInv, LInv, NEW p \in Procs, AcceptRequested(p)
    PROVE  TInv' /\ LInv' /\ Guarded /\ Shows
<1> USE DEF TInv
<1>u. PICK u : u = proc[p].u
  OBVIOUS
<1> DEFINE ds == {proc[p].want[n] : n \in {m \in Wanted(p) : part[u][m].state # "accepted"}}
           w == [proc[p] EXCEPT !.pc = "next", !.todo = ds]
<1>0. /\ proc[p] \in Proc /\ proc[p].pc = "review" /\ Current(p)
      /\ proc' = [proc EXCEPT ![p] = w]
      /\ UNCHANGED dbVars /\ UNCHANGED <<releaser, rerun>> /\ RestTyped' /\ RunTyped'
  BY <1>u DEF AcceptRequested, ProcTyped, RestTyped, RunTyped
<1>1. ds \subseteq Digests
  <2>1. \A n \in Wanted(p) : proc[p].want[n] \in Digests
    BY <1>0, ProcFields DEF Wanted
  <2>2. QED
    BY <2>1
<1> HIDE DEF ds
<1>2. w \in Proc /\ w.pc = "next" /\ w.op = proc[p].op /\ w.u = u /\ w.want = proc[p].want
  BY <1>0, <1>1, <1>u DEF Proc, ProcSteps
<1> HIDE DEF w
<1>3. ProcTyped' /\ Only(p) /\ proc'[p] = w
  BY <1>0, <1>2, ProcSet
<1>4. Staged(proc[p]) /\ proc[p].op = "complete" /\ u \in Sessions
  BY <1>0, <1>u DEF ProcInv, Staged, CompletePcs
<1>5. Staged(w)
  BY <1>0, <1>2, <1>4, <1>u DEF Staged, TeardownPcs, CompletePcs, PlainPcs
<1>6. TInv' /\ Guarded /\ session' = session /\ RowsStay
  BY <1>0, <1>3, <1>5, ProcKept, DbSame
<1>7. RowAt(u) /\ TornAt(u) /\ LatchAt(u)
  BY <1>4 DEF LInv
<1>d. object' = object /\ part' = part
  BY <1>0 DEF dbVars
<1>8. RowAt(u)' /\ TornAt(u)'
  BY <1>2, <1>3, <1>4, <1>6, <1>7, <1>d, <1>u DEF RowAt, TornAt, Only
<1>9. LatchAt(u)'
  <2>1. \A q \in Procs : Latched(proc'[q], u) <=> Latched(proc[q], u)
    BY <1>0, <1>2, <1>3, <1>4, <1>u DEF Only, Latched
  <2>2. \A q \in Procs : q # p => proc'[q] = proc[q]
    BY <1>3 DEF Only
  <2>3. \A n \in Numbers : w.want[n] # None => part[u][n].digest = w.want[n]
    BY <1>0, <1>2, <1>u DEF Current, Wanted
  <2>4. \A q \in Procs, n \in Numbers : session[u] = "completing" /\ Reviewed(proc'[q], u)
              /\ proc'[q].want[n] # None => part'[u][n].digest = proc'[q].want[n]
    BY <1>3, <1>7, <1>d, <2>2, <2>3 DEF LatchAt
  <2>5. QED
    BY <1>6, <1>7, <1>d, <2>1, <2>4 DEF LatchAt
<1>10. LInv'
  BY <1>2, <1>3, <1>4, <1>6, <1>8, <1>9, <1>d, LatchMove DEF Latched
<1>11. QED
  BY <1>6, <1>10, <1>d, Unseen

\* CommitVersion commits the parts as they are seen, once; its claims are
\* located and not being released.
LEMMA Commits ==
    ASSUME TInv, LInv, NEW p \in Procs, CommitVersion(p)
    PROVE  TInv' /\ LInv' /\ (CInv => CInv') /\ Shows
<1> USE DEF TInv
<1>u. PICK u, want : u = proc[p].u /\ want = proc[p].want
  OBVIOUS
<1>0. /\ proc[p].pc = "commit" /\ proc' = [proc EXCEPT ![p].pc = "finish"]
      /\ session[u] = "completing" /\ session' = session /\ part' = part
      /\ ~ClaimRefused(Listed(p))
      /\ object' = [object EXCEPT ![u] = want] /\ claimed' = claimed \cup {u}
      /\ intent' = [d \in Digests |-> IF d \in Listed(p) /\ intent[d] # "none"
                                      THEN "published" ELSE intent[d]]
      /\ park' = park /\ located' = located /\ record' = record /\ alloc' = alloc
      /\ stored' = stored /\ taken' = taken /\ releaser' = releaser /\ rerun' = rerun
  BY <1>u DEF CommitVersion, Step
<1>1. /\ ProcTyped' /\ Only(p) /\ proc'[p].pc = "finish" /\ Same(proc'[p], proc[p])
  BY <1>0, PcSet DEF ProcSteps
<1>2. /\ proc[p] \in Proc /\ proc[p].op = "complete" /\ u \in Sessions
      /\ \E n \in Numbers : want[n] # None
  BY <1>0, <1>u DEF ProcTyped, ProcInv, Staged, CompletePcs
<1>3. want \in [Numbers -> Digests \cup {None}]
  BY <1>2, <1>u, ProcFields
<1>4. Staged(proc'[p])
  BY <1>0, <1>1, <1>2, <1>u DEF Staged, Same, TeardownPcs, CompletePcs, PlainPcs
<1>5. /\ object' \in [Sessions -> [Numbers -> Digests \cup {None}]]
      /\ object'[u] = want /\ \A v \in Sessions : v # u => object'[v] = object[v]
  BY <1>0, <1>2, <1>3 DEF DbTyped
<1>6. TInv'
  <2>1. DbTyped'
    BY <1>0, <1>2, <1>5 DEF DbTyped
  <2>2. RestTyped' /\ RunTyped'
    BY <1>0 DEF RestTyped, RunTyped
  <2>3. QED
    BY <1>1, <1>4, <2>1, <2>2, ProcKept
<1>7. RowAt(u) /\ TornAt(u) /\ LatchAt(u)
  BY <1>2 DEF LInv
<1>8. /\ object[u] = NoParts /\ \A q \in Procs : Latched(proc[q], u) => q = p
      /\ \A n \in Numbers : want[n] # None => part[u][n].digest = want[n]
  <2>1. Latched(proc[p], u) /\ Reviewed(proc[p], u)
    BY <1>0, <1>2, <1>u DEF Latched, Reviewed
  <2>2. QED
    BY <1>0, <1>7, <1>u, <2>1 DEF LatchAt
<1>9. LatchAt(u)'
  <2>1. \A q \in Procs : ~Latched(proc'[q], u)
    BY <1>1, <1>8 DEF Only, Latched
  <2>2. \A q \in Procs : ~Reviewed(proc'[q], u)
    BY <2>1 DEF Reviewed
  <2>3. QED
    BY <1>0, <2>1, <2>2 DEF LatchAt
<1>10. RowAt(u)' /\ TornAt(u)'
  BY <1>0, <1>1, <1>2, <1>7, <1>u DEF RowAt, TornAt, Only, Same
<1>11. LInv'
  BY <1>0, <1>1, <1>2, <1>5, <1>9, <1>10, <1>u, LatchMove DEF Latched, Same
<1>12. ASSUME CInv PROVE CInv'
  <2>1. RunInv'
    BY <1>0, <1>12 DEF CInv, RunInv, OneRun, RunAt, Runs
  <2>2. ASSUME NEW v \in claimed', NEW n \in Numbers, object'[v][n] \notin rerun' \cup {None}
        PROVE  object'[v][n] \in located' /\ record'[object'[v][n]] # "started"
    <3>1. CASE v = u
      <4>1. object'[v][n] \in Listed(p)
        BY <1>5, <1>u, <2>2, <3>1 DEF Listed, Wanted
      <4>2. QED
        BY <1>0, <4>1 DEF ClaimRefused
    <3>2. CASE v # u
      <4>1. v \in claimed /\ v \in Sessions /\ object'[v] = object[v]
        BY <1>0, <1>5, <2>2, <3>2 DEF DbTyped
      <4>2. QED
        BY <1>0, <1>12, <2>2, <4>1 DEF CInv, ClaimsHeld
    <3>3. QED
      BY <3>1, <3>2
  <2>3. QED
    BY <2>1, <2>2 DEF CInv, ClaimsHeld
<1>13. Shows
  <2>1. Alone(u)
    BY <1>0, <1>5 DEF Alone
  <2>2. object'[u] # NoParts
    BY <1>2, <1>5 DEF NoParts
  <2>3. Upload[u] = "open" /\ Upload'[u] = "committed"
    BY <1>0, <1>2, <1>8, <2>2, UploadAt, UploadThen DEF Live
  <2>4. Upload' = [Upload EXCEPT ![u] = "committed"] /\ Shown' = [Shown EXCEPT ![u] = Shown'[u]]
    BY <1>2, <2>1, <2>3, AloneSeen
  <2>5. Shown'[u] = NoParts
    BY <1>2, <2>3 DEF Shown, NoParts
  <2>6. \A n \in Numbers : Shown[u][n] = part[u][n].digest
    BY <1>2, <2>3 DEF Shown
  <2> DEFINE W == {n \in Numbers : want[n] # None}
  <2>7. \A n \in W : Shown[u][n] # None
    BY <1>8, <2>6
  <2>8. want = [n \in Numbers |-> IF n \in W THEN Shown[u][n] ELSE None]
    <3>1. \A n \in Numbers : want[n] = IF n \in W THEN Shown[u][n] ELSE None
      BY <1>8, <2>6
    <3>2. QED
      BY <1>3, <3>1
  <2>9. W \in (SUBSET Numbers) \ {{}}
    BY <1>2
  <2> HIDE DEF W
  <2>10. Sees!ACommit(u, W)
    BY <1>0, <2>3, <2>4, <2>5, <2>7, <2>8 DEF Sees!ACommit, Shown, Sees!NoParts, NoParts
  <2>11. QED
    BY <1>2, <2>9, <2>10 DEF Shows, Sees!ANext
<1>14. QED
  BY <1>6, <1>11, <1>12, <1>13

\* A live upload whose session goes, with no object, is discarded.
LEMMA Discards ==
    ASSUME NEW u \in Sessions, Alone(u), object' = object, session[u] \in {"open", "completing"},
           session'[u] \in {"completed", "aborting", "gone"}
    PROVE  Shows
<1>1. CASE object[u] = NoParts
  <2>1. Upload[u] = "open" /\ Upload'[u] = "discarded"
    BY <1>1, UploadAt, UploadThen DEF Live
  <2>2. Upload' = [Upload EXCEPT ![u] = "discarded"] /\ Shown' = [Shown EXCEPT ![u] = Shown'[u]]
    BY <2>1, AloneSeen
  <2>3. Shown'[u] = NoParts
    BY <2>1 DEF Shown, NoParts
  <2>4. Sees!ADiscard(u)
    BY <2>1, <2>2, <2>3 DEF Sees!ADiscard, Shown, Sees!NoParts, NoParts
  <2>5. QED
    BY <2>4 DEF Shows, Sees!ANext
<1>2. CASE object[u] # NoParts
  <2>1. Upload[u] = "committed" /\ Upload'[u] = "committed"
    BY <1>2, UploadAt, UploadThen
  <2>2. Shown'[u] = Shown[u]
    BY <2>1 DEF Shown
  <2>3. QED
    BY <2>1, <2>2, AloneUnseen
<1>3. QED
  BY <1>1, <1>2

\* CompleteSession ends the session, or leaves it for the sweeper.
LEMMA Finishes ==
    ASSUME TInv, LInv, NEW p \in Procs, CompleteSession(p)
    PROVE  TInv' /\ LInv' /\ Guarded /\ Shows
<1> USE DEF TInv
<1>u. PICK u : u = proc[p].u
  OBVIOUS
<1>0. /\ proc[p].pc = "finish" /\ proc' = [proc EXCEPT ![p].pc = "orphans"]
      /\ \/ session[u] = "completing" /\ session' = [session EXCEPT ![u] = "completed"]
         \/ session' = session
      /\ part' = part /\ intent' = intent /\ park' = park /\ located' = located
      /\ record' = record /\ object' = object /\ claimed' = claimed /\ alloc' = alloc
      /\ stored' = stored /\ taken' = taken /\ releaser' = releaser /\ rerun' = rerun
  BY <1>u DEF CompleteSession, Latch, Step
<1>1. /\ ProcTyped' /\ Only(p) /\ proc'[p].pc = "orphans" /\ Same(proc'[p], proc[p])
  BY <1>0, PcSet DEF ProcSteps
<1>2. Staged(proc[p]) /\ proc[p].op = "complete" /\ u \in Sessions
  BY <1>0, <1>u DEF ProcInv, Staged, CompletePcs
<1>3. Staged(proc'[p])
  BY <1>0, <1>1, <1>2 DEF Staged, Same, TeardownPcs, CompletePcs, PlainPcs
<1>c. Calm(p)
  BY <1>0, <1>1, <1>2, <1>3 DEF Calm, Advance, Latched, Reviewed, Same
<1>4. CASE session' = session
  <2>1. DbTyped' /\ RestTyped' /\ RunTyped'
    BY <1>0, <1>4 DEF DbTyped, RestTyped, RunTyped
  <2>2. RowsStay
    BY <1>0, RowsSame
  <2>3. QED
    BY <1>0, <1>1, <1>3, <1>4, <1>c, <2>1, <2>2, ProcKept, CalmLatch, Unseen DEF Guarded
<1>5. CASE session[u] = "completing" /\ session' = [session EXCEPT ![u] = "completed"]
  <2>1. session' \in [Sessions -> {"none", "open", "completing", "completed", "aborting", "gone"}]
        /\ session'[u] = "completed" /\ \A v \in Sessions : v # u => session'[v] = session[v]
    BY <1>2, <1>5 DEF DbTyped
  <2>2. DbTyped' /\ RestTyped' /\ RunTyped'
    BY <1>0, <2>1 DEF DbTyped, RestTyped, RunTyped
  <2>3. TInv'
    BY <1>1, <1>3, <2>2, ProcKept
  <2>4. RowAt(u)' /\ TornAt(u)' /\ LatchAt(u)'
    BY <1>0, <1>2, <2>1 DEF LInv, RowAt, TornAt, LatchAt
  <2>5. LInv'
    BY <1>0, <1>1, <1>2, <1>u, <2>1, <2>4, LatchMove DEF Latched, Same
  <2>6. Alone(u)
    BY <1>0, <2>1 DEF Alone
  <2>7. Shows
    BY <1>0, <1>2, <1>5, <2>1, <2>6, Discards
  <2>8. QED
    BY <1>0, <2>3, <2>5, <2>7 DEF Guarded
<1>6. QED
  BY <1>0, <1>4, <1>5

\* Revert puts the session back, for a completion that committed nothing.
LEMMA Reverts ==
    ASSUME TInv, LInv, NEW p \in Procs, Revert(p)
    PROVE  TInv' /\ LInv' /\ Guarded /\ Shows
<1> USE DEF TInv
<1>u. PICK u : u = proc[p].u
  OBVIOUS
<1>0. /\ proc[p].pc = "revert" /\ End(p)
      /\ session' = [session EXCEPT ![u] = IF @ = "completing" THEN "open" ELSE @]
      /\ part' = part /\ intent' = intent /\ park' = park /\ located' = located
      /\ record' = record /\ object' = object /\ claimed' = claimed /\ alloc' = alloc
      /\ stored' = stored /\ taken' = taken /\ releaser' = releaser /\ rerun' = rerun
  BY <1>u DEF Revert
<1>1. Calm(p) /\ proc'[p] = Idle /\ ProcTyped' /\ Only(p) /\ ProcInv'
  BY <1>0, EndCalm, CalmStaged DEF Calm
<1>2. proc[p].op = "complete" /\ u \in Sessions /\ Latched(proc[p], u)
  BY <1>0, <1>u DEF ProcInv, Staged, CompletePcs, Latched
<1>3. /\ session' \in [Sessions -> {"none", "open", "completing", "completed", "aborting", "gone"}]
      /\ \A v \in Sessions : v # u => session'[v] = session[v]
      /\ session'[u] = IF session[u] = "completing" THEN "open" ELSE session[u]
  BY <1>0, <1>2 DEF DbTyped
<1>4. DbTyped' /\ RestTyped' /\ RunTyped'
  BY <1>0, <1>3 DEF DbTyped, RestTyped, RunTyped
<1>5. RowAt(u) /\ TornAt(u) /\ LatchAt(u)
  BY <1>2 DEF LInv
<1>6. session[u] \notin {"none", "open"}
  BY <1>2, <1>5 DEF LatchAt
<1>7. RowAt(u)' /\ TornAt(u)'
  BY <1>0, <1>1, <1>3, <1>5, <1>6, IdleIs DEF RowAt, TornAt, Only
<1>8. session[u] = "completing" => object[u] = NoParts /\ \A q \in Procs : ~Latched(proc'[q], u)
  BY <1>1, <1>2, <1>5, IdleIs DEF LatchAt, Only, Latched
<1>9. LatchAt(u)'
  BY <1>0, <1>3, <1>6, <1>8 DEF LatchAt
<1>10. ~Latched(Idle, u) /\ Idle.u \notin Sessions /\ \A v \in Sessions : ~Latched(Idle, v)
  BY IdleIs, NoneAssumption DEF Idle, Latched
<1>11. LInv'
  BY <1>0, <1>1, <1>2, <1>3, <1>7, <1>9, <1>10, LatchMove
<1>12. Shows
  <2>1. Alone(u)
    BY <1>0, <1>3 DEF Alone
  <2>2. Upload'[u] = Upload[u]
    BY <1>0, <1>2, <1>3, <1>6, UploadAt, UploadThen DEF Live
  <2>3. Shown'[u] = Shown[u]
    BY <1>0, <1>2, <2>2 DEF Shown
  <2>4. QED
    BY <1>0, <1>2, <2>1, <2>2, <2>3, AloneUnseen
<1>13. QED
  BY <1>0, <1>1, <1>4, <1>11, <1>12 DEF Guarded

\* A teardown starts: by Abort, or by the sweeper.
LEMMA TornDown ==
    ASSUME ProcTyped, ProcInv, NEW p \in Procs, NEW u \in Sessions, Teardown(p, u)
    PROVE  /\ ProcTyped' /\ ProcInv' /\ Only(p) /\ proc'[p].u = u
           /\ \A v \in Sessions : ~Latched(proc'[p], v)
<1> DEFINE w == [Idle EXCEPT !.op = "abort", !.pc = "quiesce", !.u = u]
<1>1. proc' = [proc EXCEPT ![p] = w]
  BY DEF Teardown
<1>2. w \in Proc /\ w.op = "abort" /\ w.pc = "quiesce" /\ w.u = u
  BY DEF Idle, Proc, ProcSteps, NoParts
<1> HIDE DEF w
<1>3. ProcTyped' /\ Only(p) /\ proc'[p] = w
  BY <1>1, <1>2, ProcSet
<1>4. Staged(w)
  BY <1>2 DEF Staged, TeardownPcs, CompletePcs, PlainPcs
<1>5. QED
  BY <1>2, <1>3, <1>4, ProcKept DEF Latched

\* The session of u is latched aborting, or was beyond completing.
Tears(p, u) ==
    /\ Teardown(p, u)
    /\ \/ /\ session[u] \in {"open", "completing"}
          /\ session' = [session EXCEPT ![u] = "aborting"]
       \/ session[u] \in {"aborting", "completed"} /\ session' = session

\* A teardown discards an upload that was live and had no object.
LEMMA TearsDown ==
    ASSUME TInv, LInv, NEW p \in Procs, NEW u \in Sessions, Tears(p, u)
    PROVE  TInv' /\ LInv' /\ Guarded /\ Shows
<1> USE DEF TInv
<1>0. /\ part' = part /\ intent' = intent /\ park' = park /\ located' = located
      /\ record' = record /\ object' = object /\ claimed' = claimed /\ alloc' = alloc
      /\ stored' = stored /\ releaser' = releaser /\ rerun' = rerun /\ taken' \in 0..MaxRequests
  BY TakenUp DEF Tears, Teardown
<1>1. /\ ProcTyped' /\ ProcInv' /\ Only(p) /\ proc'[p].u = u
      /\ \A v \in Sessions : ~Latched(proc'[p], v)
  BY TornDown DEF Tears
<1>2. /\ session' \in [Sessions -> {"none", "open", "completing", "completed", "aborting", "gone"}]
      /\ \A v \in Sessions : v # u => session'[v] = session[v]
      /\ session'[u] \in {"aborting", "completed"}
  BY DEF Tears, DbTyped
<1>3. TInv'
  BY <1>0, <1>1, <1>2 DEF DbTyped, RestTyped, RunTyped
<1>4. RowAt(u)' /\ TornAt(u)' /\ LatchAt(u)'
  BY <1>0, <1>2 DEF LInv, RowAt, TornAt, LatchAt
<1>5. LInv'
  BY <1>0, <1>1, <1>2, <1>4, LatchMove
<1>6. Alone(u)
  BY <1>0, <1>2 DEF Alone
<1>7. Shows
  <2>1. CASE session[u] \in {"open", "completing"}
    BY <1>0, <1>2, <1>6, <2>1, Discards
  <2>2. CASE session' = session
    BY <1>0, <2>2, RowsSame, Unseen
  <2>3. QED
    BY <2>1, <2>2 DEF Tears
<1>8. QED
  BY <1>0, <1>3, <1>5, <1>7 DEF Guarded

\* DeleteSession drops the rows of an upload its client no longer sees.
LEMMA Deletes ==
    ASSUME TInv, LInv, NEW p \in Procs, DeleteSession(p)
    PROVE  TInv' /\ LInv' /\ Guarded /\ Shows
<1> USE DEF TInv
<1>u. PICK u : u = proc[p].u
  OBVIOUS
<1>0. /\ proc[p].pc = "delete" /\ End(p) /\ session' = [session EXCEPT ![u] = "gone"]
      /\ part' = [part EXCEPT ![u] = [n \in Numbers |-> NoPart]]
      /\ intent' = intent /\ park' = park /\ located' = located
      /\ record' = record /\ object' = object /\ claimed' = claimed /\ alloc' = alloc
      /\ stored' = stored /\ taken' = taken /\ releaser' = releaser /\ rerun' = rerun
  BY <1>u DEF DeleteSession
<1>1. proc'[p] = Idle /\ ProcTyped' /\ Only(p) /\ ProcInv'
  BY <1>0, EndCalm, CalmStaged DEF Calm
<1>2. proc[p].op = "abort" /\ u \in Sessions
  BY <1>0, <1>u DEF ProcInv, Staged, TeardownPcs
<1>3. session[u] \in {"aborting", "completed", "gone"}
  BY <1>2, <1>u DEF LInv, TornAt
<1>4. /\ session' \in [Sessions -> {"none", "open", "completing", "completed", "aborting", "gone"}]
      /\ \A v \in Sessions : v # u => session'[v] = session[v]
      /\ session'[u] = "gone"
  BY <1>0, <1>2 DEF DbTyped
<1>5. /\ part' \in [Sessions -> [Numbers -> Row]]
      /\ \A v \in Sessions : v # u => part'[v] = part[v]
      /\ \A n \in Numbers : part'[u][n] = NoPart
  <2>1. NoPart \in Row
    BY DEF NoPart, Row
  <2>2. QED
    BY <1>0, <1>2, <2>1 DEF DbTyped
<1>6. TInv'
  BY <1>0, <1>1, <1>4, <1>5 DEF DbTyped, RestTyped, RunTyped
<1>7. RowAt(u)' /\ TornAt(u)' /\ LatchAt(u)'
  BY <1>4, <1>5 DEF RowAt, TornAt, LatchAt
<1>8. \A v \in Sessions : ~Latched(Idle, v) /\ Idle.u # v
  BY IdleIs, NoneAssumption DEF Idle, Latched
<1>9. LInv'
  BY <1>0, <1>1, <1>2, <1>4, <1>5, <1>7, <1>8, LatchMove
<1>10. Shows
  <2>1. Alone(u)
    BY <1>0, <1>4, <1>5 DEF Alone
  <2>2. Upload'[u] = Upload[u] /\ Upload[u] # "open"
    BY <1>0, <1>2, <1>3, <1>4, UploadAt, UploadThen DEF Live
  <2>3. Shown'[u] = Shown[u]
    BY <1>2, <2>2 DEF Shown
  <2>4. QED
    BY <1>0, <1>2, <2>1, <2>2, <2>3, AloneUnseen
<1>11. QED
  BY <1>0, <1>6, <1>9, <1>10 DEF Guarded

\* A crash frees the latches and the runs; the rows stay.
LEMMA Crashes ==
    ASSUME TInv, LInv, Crash
    PROVE  TInv' /\ LInv' /\ (CInv => CInv') /\ Shows
<1> USE DEF TInv
<1>0. /\ proc' = [p \in Procs |-> Idle] /\ releaser' = [e \in Releasers |-> NoRun]
      /\ session' = session /\ part' = part /\ intent' = intent /\ park' = park
      /\ located' = located /\ record' = record /\ object' = object /\ claimed' = claimed
      /\ alloc' = alloc /\ stored' = stored /\ taken' = taken /\ rerun' = rerun
  BY DEF Crash, dbVars
<1>1. ProcTyped' /\ ProcInv'
  BY <1>0, IdleIs DEF ProcTyped, ProcInv
<1>2. NoRun \in Run /\ NoRun.pc = "idle"
  BY DEF NoRun, Run, RunSteps
<1>3. RunTyped'
  BY <1>0, <1>2 DEF RunTyped
<1>4. TInv'
  BY <1>0, <1>1, <1>3 DEF DbTyped, RestTyped
<1>5. \A p \in Procs : proc'[p] = Idle
  BY <1>0
<1>6. ASSUME NEW u \in Sessions PROVE RowAt(u)' /\ TornAt(u)' /\ LatchAt(u)'
  <2>1. RowAt(u) /\ LatchAt(u)
    BY DEF LInv
  <2>2. \A p \in Procs : ~Latched(proc'[p], u) /\ ~Reviewed(proc'[p], u) /\ proc'[p].op # "abort"
    BY <1>5, IdleIs DEF Latched, Reviewed
  <2>3. QED
    BY <1>0, <2>1, <2>2 DEF RowAt, TornAt, LatchAt
<1>7. LInv'
  BY <1>6 DEF LInv
<1>8. ASSUME CInv PROVE CInv'
  <2>1. RunInv'
    BY <1>0, <1>2 DEF RunInv, OneRun, RunAt, Runs, Owning
  <2>2. QED
    BY <1>0, <1>8, <2>1 DEF CInv, ClaimsHeld
<1>9. Shows
  BY <1>0, RowsSame, Unseen
<1>10. QED
  BY <1>4, <1>7, <1>8, <1>9

\* A step that leaves every process where it is is calm.
LEMMA StillCalm ==
    ASSUME ProcTyped, ProcInv, NEW p \in Procs, proc' = proc
    PROVE  Calm(p)
  BY DEF ProcTyped, ProcInv, Calm, Only, Advance

\* DeleteObject is quiet.
LEMMA QuietDeleteObject ==
    ASSUME TInv, NEW u \in Sessions, DeleteObject(u)
    PROVE  Quiet(u)
<1> USE DEF TInv
<1>0. u \in Procs
  BY DEF Procs
<1>1. /\ claimed' = claimed \ {u} /\ \E ds : record' = Enqueue(ds)
      /\ session' = session /\ part' = part /\ intent' = intent /\ park' = park
      /\ located' = located /\ object' = object
      /\ alloc' = alloc /\ stored' = stored /\ proc' = proc /\ taken' = taken
      /\ releaser' = releaser /\ rerun' = rerun
  BY DEF DeleteObject
<1>2. /\ record' \in [Digests -> {"none", "pending", "started"}]
      /\ \A d \in Digests : record'[d] = "started" <=> record[d] = "started"
  BY <1>1, EnqueueIs
<1>3. DbTyped' /\ RestTyped' /\ RunTyped' /\ Guarded /\ RowsStay
  BY <1>1, <1>2, RowsSame DEF DbTyped, RestTyped, RunTyped, Guarded
<1>4. Calm(u)
  BY <1>0, <1>1, StillCalm
<1>5. QED
  BY <1>1, <1>3, <1>4 DEF Quiet

-----------------------------------------------------------------------------
(* Releases.                                                               *)

\* A step of a release leaves sessions, parts, objects, claims and processes alone.
RunKept == /\ DbTyped' /\ RestTyped' /\ RunTyped'
           /\ session' = session /\ part' = part /\ object' = object /\ claimed' = claimed
           /\ proc' = proc

\* A run of the release goes to another step.
LEMMA RunPc ==
    ASSUME RunTyped, NEW e \in Releasers, NEW to \in RunSteps, releaser[e].pc # "idle",
           releaser' = [releaser EXCEPT ![e].pc = to]
    PROVE  RunTyped' /\ releaser'[e].pc = to /\ releaser'[e].d = releaser[e].d
<1> DEFINE w == [releaser[e] EXCEPT !.pc = to]
<1>1. releaser[e] \in Run /\ releaser[e].d \in Digests
  BY DEF RunTyped
<1>2. w \in Run /\ w.pc = to /\ w.d = releaser[e].d
  BY <1>1 DEF Run
<1>3. releaser' = [releaser EXCEPT ![e] = w]
  OBVIOUS
<1> HIDE DEF w
<1>4. QED
  BY <1>1, <1>2, <1>3 DEF RunTyped

\* A run ends.
LEMMA RunEnds ==
    ASSUME RunTyped, NEW e \in Releasers, EndRun(e)
    PROVE  RunTyped' /\ releaser'[e].pc = "idle"
<1>1. NoRun \in Run /\ NoRun.pc = "idle"
  BY DEF NoRun, Run, RunSteps
<1>2. QED
  BY <1>1 DEF EndRun, RunTyped

\* What a release must leave alone: the claimed blobs that are located and
\* whose release has not started.
Spares == \A d \in Digests \ rerun' :
    Claims(claimed, d) /\ d \in located /\ record[d] # "started" =>
        d \in located' /\ record'[d] # "started"

\* A release that ends is the one run e works on, and the one e takes up is
\* nobody else's.
Ends(e)  == \A d \in Digests \ rerun' :
    record[d] = "started" /\ record'[d] # "started" => Runs(e, d)
Joins(e) == \A d \in Digests \ rerun' :
    Runs(e, d)' => Runs(e, d) \/ \A f \in Releasers \ {e} : ~Runs(f, d)

RunOnly(e) == /\ \A f \in Releasers \ {e} : releaser'[f] = releaser[f]
              /\ rerun \subseteq rerun'

\* A step of a run that spares the claimed blobs keeps the claims held.
LEMMA RunClaims ==
    ASSUME DbTyped, CInv, NEW e \in Releasers, RunOnly(e), RunAt(e)', Spares, Ends(e), Joins(e),
           claimed' = claimed, object' = object
    PROVE  CInv'
<1>0. \A f \in Releasers \ {e}, d \in Digests : Runs(f, d)' = Runs(f, d)
  BY DEF RunOnly, Runs
<1>1. OneRun'
  BY <1>0 DEF CInv, RunInv, OneRun, Joins, RunOnly
<1>2. ASSUME NEW f \in Releasers \ {e}, NEW d \in Digests \ rerun', Runs(f, d)'
      PROVE  record'[d] = "started"
  <2>1. Runs(f, d) /\ d \notin rerun /\ ~Runs(e, d)
    BY <1>0, <1>2 DEF CInv, RunInv, OneRun, RunOnly
  <2>2. record[d] = "started"
    BY <2>1 DEF CInv, RunInv, RunAt
  <2>3. QED
    BY <2>1, <2>2 DEF Ends
<1>3. RunInv'
  BY <1>1, <1>2 DEF RunInv, RunAt
<1>4. ASSUME NEW u \in claimed', NEW n \in Numbers, object'[u][n] \notin rerun' \cup {None}
      PROVE  object'[u][n] \in located' /\ record'[object'[u][n]] # "started"
  <2>1. u \in claimed /\ u \in Sessions /\ object'[u][n] = object[u][n]
    BY <1>4 DEF DbTyped
  <2>2. object[u][n] \in located /\ record[object[u][n]] # "started"
    BY <1>4, <2>1 DEF CInv, ClaimsHeld, RunOnly
  <2>3. Claims(claimed, object[u][n])
    BY <2>1 DEF Claims
  <2>4. object[u][n] \in Digests \ rerun'
    BY <1>4, <2>1, <2>2 DEF DbTyped
  <2>5. QED
    BY <2>1, <2>2, <2>3, <2>4 DEF Spares
<1>5. QED
  BY <1>3, <1>4 DEF CInv, ClaimsHeld

\* Every step of a release is typed and leaves the uploads alone.
LEMMA RunsKept ==
    ASSUME TInv, NEW e \in Releasers, Release(e) \/ ReleaseFails(e)
    PROVE  RunKept
<1> USE DEF TInv
<1>r. releaser[e] \in Run
  BY DEF RunTyped
<1>x. releaser[e].d \in Digests \cup {None} /\ releaser[e].t \in Tasks \cup {None}
  BY <1>r DEF Run
<1>s. {"idle", "check", "defer", "start", "probe", "abort", "remove", "unpark",
       "unlocate", "forget"} \subseteq RunSteps
  BY DEF RunSteps
<1>d. ASSUME UNCHANGED dbVars PROVE /\ DbTyped' /\ session' = session /\ part' = part
                                    /\ object' = object /\ claimed' = claimed
  BY <1>d DEF dbVars, DbTyped
<1>1. ASSUME NEW d \in Digests, ListRelease(e, d) PROVE RunKept
  <2> DEFINE w == [NoRun EXCEPT !.pc = "check", !.d = d, !.started = (record[d] = "started")]
  <2>1. w \in Run /\ w.d = d
    BY DEF NoRun, Run, RunSteps
  <2>2. /\ releaser' = [releaser EXCEPT ![e] = w]
        /\ UNCHANGED <<dbVars, alloc, stored, proc, taken, rerun>>
    BY <1>1 DEF ListRelease
  <2> HIDE DEF w
  <2>3. RunTyped'
    BY <2>1, <2>2 DEF RunTyped
  <2>4. QED
    BY <1>d, <2>2, <2>3 DEF RunKept, RestTyped
<1>2. CASE CheckHold(e)
  <2>1. PICK to \in {"defer", "start"} :
          releaser[e].pc = "check" /\ releaser' = [releaser EXCEPT ![e].pc = to]
    BY <1>2 DEF CheckHold, RunStep
  <2>2. RunTyped'
    BY <1>s, <2>1, RunPc
  <2>3. QED
    BY <1>2, <1>d, <2>2 DEF CheckHold, RunKept, RestTyped
<1>3. CASE Defer(e)
  <2>1. RunTyped'
    BY <1>3, RunEnds DEF Defer
  <2>2. record' \in [Digests -> {"none", "pending", "started"}]
    BY <1>3, EnqueueIs DEF Defer, DbTyped
  <2>3. QED
    BY <1>3, <2>1, <2>2 DEF Defer, RunKept, RestTyped, DbTyped
<1>4. CASE StartRelease(e)
  <2>1. RunTyped'
    BY <1>4, <1>s, RunPc DEF StartRelease, RunStep
  <2>2. record' \in [Digests -> {"none", "pending", "started"}]
    BY <1>4 DEF StartRelease, DbTyped
  <2>3. rerun' \subseteq Digests
    BY <1>4 DEF StartRelease, RunStep, RunTyped, RestTyped
  <2>4. QED
    BY <1>4, <2>1, <2>2, <2>3 DEF StartRelease, RunKept, RestTyped, DbTyped
<1>5. CASE StartReferenced(e)
  <2>1. RunTyped'
    BY <1>5, <1>s, RunPc DEF StartReferenced, RunStep
  <2>3. QED
    BY <1>5, <1>d, <2>1 DEF StartReferenced, RunKept, RestTyped
<1>6. CASE StartStale(e)
  <2>1. RunTyped'
    BY <1>6, RunEnds DEF StartStale
  <2>2. record' \in [Digests -> {"none", "pending", "started"}]
    BY <1>6 DEF StartStale, DbTyped
  <2>3. QED
    BY <1>6, <2>1, <2>2 DEF StartStale, RunKept, RestTyped, DbTyped
<1>7. CASE Probe(e)
  <2> DEFINE d == releaser[e].d
             a == IF d \in located THEN "remove" ELSE IF park[d] # None THEN "abort"
                  ELSE IF intent[d] = "spooled" THEN "unpark" ELSE "remove"
             t == IF d \in located THEN None ELSE park[d]
             w == [releaser[e] EXCEPT !.pc = a, !.t = t]
  <2>1. releaser' = [releaser EXCEPT ![e] = w] /\ releaser[e].pc = "probe"
    BY <1>7 DEF Probe
  <2>2. d \in Digests
    BY <2>1 DEF RunTyped
  <2>3. a \in RunSteps /\ t \in Tasks \cup {None}
    BY <1>s, <2>2 DEF DbTyped
  <2> HIDE DEF a, t
  <2>4. w \in Run /\ w.d = d
    BY <1>r, <2>3 DEF Run
  <2> HIDE DEF w
  <2>5. RunTyped'
    BY <2>1, <2>2, <2>4 DEF RunTyped
  <2>6. QED
    BY <1>7, <1>d, <2>5 DEF Probe, RunKept, RestTyped
<1>8. CASE AbortBlob(e)
  <2>1. RunTyped'
    BY <1>8, <1>s, RunPc DEF AbortBlob, RunStep
  <2>2. RestTyped'
    BY <1>8 DEF AbortBlob, RestTyped
  <2>3. QED
    BY <1>8, <1>d, <2>1, <2>2 DEF AbortBlob, RunKept
<1>9. CASE RemoveBlob(e)
  <2>1. RunTyped'
    BY <1>9, <1>s, RunPc DEF RemoveBlob, RunStep
  <2>3. QED
    BY <1>9, <1>d, <2>1 DEF RemoveBlob, RunKept, RestTyped
<1>10. CASE DropPark(e)
  <2>1. RunTyped'
    BY <1>10, <1>s, RunPc DEF DropPark, RunStep
  <2>2. park' \in [Digests -> Tasks \cup {None}]
    BY <1>10 DEF DropPark, DbTyped
  <2>3. QED
    BY <1>10, <2>1, <2>2 DEF DropPark, RunKept, RestTyped, DbTyped
<1>11. CASE DropLocation(e)
  <2>1. RunTyped'
    BY <1>11, <1>s, RunPc DEF DropLocation, RunStep
  <2>3. QED
    BY <1>11, <2>1 DEF DropLocation, RunKept, RestTyped, DbTyped
<1>12. CASE Forget(e)
  <2>1. RunTyped'
    BY <1>12, RunEnds DEF Forget
  <2>2. /\ record' \in [Digests -> {"none", "pending", "started"}]
        /\ intent' \in [Digests -> {"none", "spooled", "uploading", "parked", "accepted", "published"}]
    BY <1>12 DEF Forget, DbTyped
  <2>3. QED
    BY <1>12, <2>1, <2>2 DEF Forget, RunKept, RestTyped, DbTyped
<1>13. CASE ReleaseFails(e)
  <2>1. RunTyped'
    BY <1>13, RunEnds DEF ReleaseFails
  <2>3. QED
    BY <1>13, <1>d, <2>1 DEF ReleaseFails, RunKept, RestTyped
<1>14. QED
  BY <1>1, <1>2, <1>3, <1>4, <1>5, <1>6, <1>7, <1>8, <1>9, <1>10, <1>11, <1>12, <1>13 DEF Release

\* What a step of run e may do, so that the claims stay held.
RunSafe(e) == RunOnly(e) /\ RunAt(e)' /\ Spares /\ Ends(e) /\ Joins(e)

\* A step that leaves the records and the locations alone and starts no run.
LEMMA RunGoesOn ==
    ASSUME NEW e \in Releasers, RunInv, RunOnly(e), record' = record, located' = located,
           \A d \in Digests : Runs(e, d)' => Runs(e, d)
    PROVE  RunSafe(e)
<1>1. RunAt(e)
  BY DEF RunInv
<1>2. RunAt(e)' /\ Joins(e)
  BY <1>1 DEF RunAt, RunOnly, Joins
<1>3. Spares /\ Ends(e)
  BY DEF Spares, Ends
<1>4. QED
  BY <1>2, <1>3 DEF RunSafe

\* A run that ends, or works on nothing yet, starts none.
LEMMA RunIdle ==
    ASSUME NEW e \in Releasers, releaser'[e].pc \in {"idle", "check", "defer", "start"}
    PROVE  \A d \in Digests : ~Runs(e, d)'
  BY DEF Runs, Owning

\* Every step of a release spares the claimed blobs.
LEMMA RunsHold ==
    ASSUME TInv, CInv, NEW e \in Releasers, Release(e) \/ ReleaseFails(e)
    PROVE  CInv'
<1> USE DEF TInv
<1>k. claimed' = claimed /\ object' = object
  BY RunsKept DEF RunKept
<1>i. RunInv
  BY DEF CInv
<1> SUFFICES RunSafe(e)
  BY <1>k, RunClaims DEF RunSafe
<1>s. {"idle", "check", "defer", "start", "probe", "abort", "remove", "unpark",
       "unlocate", "forget"} \subseteq RunSteps
  BY DEF RunSteps
<1>b. releaser[e].pc # "idle" => releaser[e].d \in Digests
  BY DEF RunTyped
<1>d. ASSUME UNCHANGED dbVars PROVE record' = record /\ located' = located
  BY <1>d DEF dbVars
<1>o. ASSUME rerun' = rerun, NEW x, releaser' = [releaser EXCEPT ![e] = x] PROVE RunOnly(e)
  BY <1>o DEF RunOnly, RunTyped
<1>p. ASSUME rerun' = rerun, NEW to, releaser' = [releaser EXCEPT ![e].pc = to] PROVE RunOnly(e)
  BY <1>p DEF RunOnly, RunTyped
<1>m. ASSUME NEW to \in RunSteps, releaser[e].pc # "idle", releaser' = [releaser EXCEPT ![e].pc = to]
      PROVE  releaser'[e].pc = to /\ releaser'[e].d = releaser[e].d
  BY <1>m, RunPc
<1>e. ASSUME EndRun(e), rerun' = rerun
      PROVE  RunOnly(e) /\ \A d \in Digests : ~Runs(e, d)'
  <2>1. RunOnly(e)
    BY <1>e, <1>o DEF EndRun
  <2>2. releaser'[e].pc = "idle"
    BY <1>e, RunEnds
  <2>3. QED
    BY <2>1, <2>2, RunIdle
<1>n. ASSUME NEW to \in RunSteps, releaser[e].pc \in Owning, rerun' = rerun,
             releaser' = [releaser EXCEPT ![e].pc = to], record' = record, located' = located
      PROVE  RunSafe(e)
  <2>1. releaser[e].pc # "idle"
    BY <1>n DEF Owning
  <2>2. releaser'[e].d = releaser[e].d
    BY <1>m, <1>n, <2>1
  <2>3. \A d \in Digests : Runs(e, d)' => Runs(e, d)
    BY <1>n, <2>2 DEF Runs
  <2>4. QED
    BY <1>i, <1>n, <1>p, <2>3, RunGoesOn
<1>1. ASSUME NEW d \in Digests, ListRelease(e, d) PROVE RunSafe(e)
  <2>1. releaser'[e].pc = "check"
    BY <1>1 DEF ListRelease, RunTyped, NoRun
  <2>2. RunOnly(e)
    BY <1>1, <1>o DEF ListRelease
  <2>3. record' = record /\ located' = located
    BY <1>1, <1>d DEF ListRelease
  <2>4. QED
    BY <1>i, <2>1, <2>2, <2>3, RunIdle, RunGoesOn
<1>2. CASE CheckHold(e) \/ StartReferenced(e)
  <2>1. PICK to \in {"defer", "start"} :
          releaser[e].pc \in {"check", "start"} /\ releaser' = [releaser EXCEPT ![e].pc = to]
    BY <1>2 DEF CheckHold, StartReferenced, RunStep
  <2>2. releaser'[e].pc = to
    BY <1>s, <1>m, <2>1
  <2>3. RunOnly(e)
    BY <1>2, <1>p, <2>1 DEF CheckHold, StartReferenced
  <2>4. record' = record /\ located' = located
    BY <1>2, <1>d DEF CheckHold, StartReferenced
  <2>5. QED
    BY <1>i, <2>1, <2>2, <2>3, <2>4, RunIdle, RunGoesOn
<1>3. CASE Defer(e)
  <2>1. located' = located /\ \A d \in Digests : record'[d] = "started" <=> record[d] = "started"
    BY <1>3, EnqueueIs DEF Defer
  <2>2. RunOnly(e) /\ \A d \in Digests : ~Runs(e, d)'
    BY <1>3, <1>e DEF Defer
  <2>3. QED
    BY <2>1, <2>2 DEF RunSafe, RunAt, Spares, Ends, Joins
<1>4. CASE StartRelease(e)
  <2>1. releaser[e].pc = "start" /\ releaser' = [releaser EXCEPT ![e].pc = "probe"]
    BY <1>4 DEF StartRelease, RunStep
  <2>2. PICK d \in Digests : d = releaser[e].d
    BY <1>b, <2>1
  <2>3. releaser'[e].d = d
    BY <1>s, <1>m, <2>1, <2>2
  <2>4. /\ record'[d] = "started" /\ located' = located
        /\ \A c \in Digests : c # d => record'[c] = record[c]
        /\ record[d] = "started" \/ ~Claims(claimed, d)
    BY <1>4, <2>2 DEF StartRelease, DbTyped
  <2>5. /\ rerun \subseteq rerun'
        /\ d \notin rerun' => \A f \in Releasers \ {e} : ~Runs(f, d)
    BY <1>4, <2>2 DEF StartRelease
  <2>6. RunOnly(e)
    BY <2>1, <2>5 DEF RunOnly, RunTyped
  <2>7. \A c \in Digests : Runs(e, c)' => c = d
    BY <2>3 DEF Runs
  <2>8. RunAt(e)' /\ Joins(e)
    BY <2>4, <2>5, <2>7 DEF RunAt, Joins
  <2>9. Spares /\ Ends(e)
    BY <2>4 DEF Spares, Ends
  <2>10. QED
    BY <2>6, <2>8, <2>9 DEF RunSafe
<1>6. CASE StartStale(e)
  <2>1. located' = located /\ \A d \in Digests : record[d] # "started" => record'[d] # "started"
    BY <1>6 DEF StartStale, DbTyped
  <2>2. \A d \in Digests : record[d] = "started" => record'[d] = "started"
    BY <1>6 DEF StartStale, DbTyped
  <2>3. RunOnly(e) /\ \A d \in Digests : ~Runs(e, d)'
    BY <1>6, <1>e DEF StartStale
  <2>4. QED
    BY <2>1, <2>2, <2>3 DEF RunSafe, RunAt, Spares, Ends, Joins
<1>7. CASE Probe(e)
  <2>1. releaser[e].pc = "probe" /\ releaser'[e].d = releaser[e].d /\ RunOnly(e)
    BY <1>7 DEF Probe, RunTyped, Run, RunOnly
  <2>2. \A d \in Digests : Runs(e, d)' => Runs(e, d)
    BY <2>1 DEF Runs, Owning
  <2>3. record' = record /\ located' = located
    BY <1>7, <1>d DEF Probe
  <2>4. QED
    BY <1>i, <2>1, <2>2, <2>3, RunGoesOn
<1>8. CASE AbortBlob(e)
  <2>1. PICK to \in {"remove", "unpark"} :
          releaser[e].pc = "abort" /\ releaser' = [releaser EXCEPT ![e].pc = to]
    BY <1>8 DEF AbortBlob, RunStep
  <2>2. rerun' = rerun /\ record' = record /\ located' = located
    BY <1>8, <1>d DEF AbortBlob
  <2>3. QED
    BY <1>n, <1>s, <2>1, <2>2 DEF Owning
<1>9. CASE RemoveBlob(e)
  <2>1. releaser[e].pc = "remove" /\ releaser' = [releaser EXCEPT ![e].pc = "unpark"]
    BY <1>9 DEF RemoveBlob, RunStep
  <2>2. rerun' = rerun /\ record' = record /\ located' = located
    BY <1>9, <1>d DEF RemoveBlob
  <2>3. QED
    BY <1>n, <1>s, <2>1, <2>2 DEF Owning
<1>10. CASE DropPark(e)
  <2>1. releaser[e].pc = "unpark" /\ releaser' = [releaser EXCEPT ![e].pc = "unlocate"]
    BY <1>10 DEF DropPark, RunStep
  <2>2. rerun' = rerun /\ record' = record /\ located' = located
    BY <1>10 DEF DropPark
  <2>3. QED
    BY <1>n, <1>s, <2>1, <2>2 DEF Owning
<1>11. CASE DropLocation(e)
  <2>1. releaser[e].pc = "unlocate" /\ releaser' = [releaser EXCEPT ![e].pc = "forget"]
    BY <1>11 DEF DropLocation, RunStep
  <2>2. releaser'[e].d = releaser[e].d /\ RunOnly(e)
    BY <1>11, <1>s, <1>m, <1>p, <2>1 DEF DropLocation
  <2>3. record' = record /\ located' = located \ {releaser[e].d} /\ rerun' = rerun
    BY <1>11 DEF DropLocation
  <2>4. \A d \in Digests : Runs(e, d)' => Runs(e, d)
    BY <2>1, <2>2 DEF Runs, Owning
  <2>5. RunAt(e)
    BY <1>i DEF RunInv
  <2>6. \A d \in Digests \ rerun : d = releaser[e].d => record[d] = "started"
    BY <2>1, <2>5 DEF RunAt, Runs, Owning
  <2>7. Spares
    BY <2>3, <2>6 DEF Spares
  <2>8. RunAt(e)' /\ Ends(e) /\ Joins(e)
    BY <2>3, <2>4, <2>5 DEF RunAt, Ends, Joins
  <2>9. QED
    BY <2>2, <2>7, <2>8 DEF RunSafe
<1>12. CASE Forget(e)
  <2>1. releaser[e].pc = "forget" /\ located' = located
    BY <1>12 DEF Forget
  <2>2. \A d \in Digests : \/ record'[d] = record[d]
                           \/ d = releaser[e].d /\ record'[d] = "none"
    BY <1>12 DEF Forget, DbTyped
  <2>3. RunOnly(e) /\ \A d \in Digests : ~Runs(e, d)'
    BY <1>12, <1>e DEF Forget
  <2>4. Ends(e)
    BY <2>1, <2>2 DEF Ends, Runs, Owning
  <2>5. Spares
    BY <2>1, <2>2 DEF Spares
  <2>6. QED
    BY <2>3, <2>4, <2>5 DEF RunSafe, RunAt, Joins
<1>13. CASE ReleaseFails(e)
  <2>1. RunOnly(e) /\ \A d \in Digests : ~Runs(e, d)'
    BY <1>13, <1>e DEF ReleaseFails
  <2>2. record' = record /\ located' = located
    BY <1>13, <1>d DEF ReleaseFails
  <2>3. QED
    BY <1>i, <2>1, <2>2, RunGoesOn
<1>14. QED
  BY <1>1, <1>2, <1>3, <1>4, <1>6, <1>7, <1>8, <1>9, <1>10, <1>11, <1>12, <1>13 DEF Release

-----------------------------------------------------------------------------
(* All steps.                                                              *)

\* A step keeps the invariant and the claims, and is a step of the upload as
\* its client sees it.
Kept == TInv' /\ LInv' /\ (CInv => CInv') /\ Shows

\* A quiet step keeps everything and is not seen.
LEMMA QuietKept ==
    ASSUME TInv, LInv, NEW p \in Procs, Quiet(p)
    PROVE  Kept
<1>1. DbTyped /\ RunTyped /\ ProcInv
  BY DEF TInv
<1>2. ProcInv' /\ ProcTyped'
  BY <1>1, CalmStaged DEF Quiet, Calm
<1>3. TInv'
  BY <1>2 DEF Quiet, TInv
<1>4. session' = session /\ object' = object /\ RowsStay
  BY DEF Quiet, Guarded
<1>5. LInv'
  BY <1>1, <1>4, CalmLatch DEF Quiet
<1>6. CInv => CInv'
  BY <1>1, GuardedClaims DEF Quiet
<1>7. Shows
  BY <1>4, Unseen
<1>8. QED
  BY <1>3, <1>5, <1>6, <1>7 DEF Kept

\* A step of a release keeps everything and is not seen.
LEMMA ReleaseKept ==
    ASSUME TInv, LInv, NEW e \in Releasers, Release(e) \/ ReleaseFails(e)
    PROVE  Kept
<1> USE DEF TInv
<1>1. RunKept
  BY RunsKept
<1>2. TInv'
  BY <1>1 DEF RunKept, ProcTyped, ProcInv
<1>3. LInv'
  BY <1>1 DEF RunKept, LInv, RowAt, TornAt, LatchAt
<1>4. CInv => CInv'
  BY RunsHold
<1>5. Shows
  BY <1>1, RowsSame, Unseen DEF RunKept
<1>6. QED
  BY <1>2, <1>3, <1>4, <1>5 DEF Kept

\* The steps of a part upload.
LEMMA UploadPartKept ==
    ASSUME TInv, LInv, NEW p \in Requests, UploadPartSteps(p)
    PROVE  Kept
<1>0. p \in Procs
  BY DEF Procs
<1>1. CASE PutPart(p)
  BY <1>0, <1>1, Puts, GuardedClaims DEF Kept, TInv
<1>2. CASE \E u \in Sessions, n \in Numbers, d \in Digests : UploadPart(p, u, n, d)
  BY <1>0, <1>2, QuietUploadPart, QuietKept
<1>3. CASE PutIntent(p) \/ PutPartRefused(p) \/ ReleaseUnput(p) \/ LockBlob(p)
  BY <1>0, <1>3, QuietPutIntent, QuietPutPartRefused, QuietReleaseUnput, QuietLockBlob, QuietKept
<1>4. CASE Await(p)
  BY <1>0, <1>4, QuietSettle, QuietKept DEF Await
<1>5. CASE Look(p) \/ MarkUploading(p) \/ UploadConcluding(p) \/ PutPark(p)
  BY <1>0, <1>5, QuietLook, QuietMarkUploading, QuietUploadConcluding, QuietPutPark, QuietKept
<1>6. CASE \E t \in Tasks : UploadDeferred(p, t)
  BY <1>0, <1>6, QuietUploadDeferred, QuietKept
<1>7. CASE MarkParked(p) \/ ReuseParked(p) \/ PutLocation(p) \/ MarkAccepted(p)
  BY <1>0, <1>7, QuietMarkParked, QuietReuseParked, QuietPutLocation, QuietMarkAccepted, QuietKept
<1>8. CASE DeletePark(p) \/ MarkPartParked(p)
  BY <1>0, <1>8, QuietDeletePark, QuietMarkPartParked, QuietKept
<1>9. QED
  BY <1>1, <1>2, <1>3, <1>4, <1>5, <1>6, <1>7, <1>8 DEF UploadPartSteps

\* The steps of a completion.
LEMMA CompleteKept ==
    ASSUME TInv, LInv, NEW p \in Requests, CompleteSteps(p)
    PROVE  Kept
<1>0. p \in Procs /\ RowInv
  BY Rows DEF Procs
<1>1. CASE \E u \in Sessions, W \in SUBSET Numbers : Complete(p, u, W)
  BY <1>0, <1>1, QuietComplete, QuietKept
<1>2. CASE LatchCompleting(p)
  BY <1>0, <1>2, Latches, GuardedClaims DEF Kept, TInv
<1>3. CASE AcceptRequested(p)
  BY <1>0, <1>3, Reviews, GuardedClaims DEF Kept, TInv
<1>4. CASE \E d \in Digests : ConcludeNext(p, d)
  BY <1>0, <1>4, QuietConcludeNext, QuietKept
<1>5. CASE SettleRelease(p)
  BY <1>0, <1>5, QuietSettle, QuietKept DEF SettleRelease
<1>6. CASE PromoteParts(p) \/ ReleaseOrphans(p)
  BY <1>0, <1>6, QuietPromoteParts, QuietReleaseOrphans, QuietKept
<1>7. CASE CommitVersion(p)
  BY <1>0, <1>7, Commits DEF Kept
<1>8. CASE CompleteSession(p)
  BY <1>0, <1>8, Finishes, GuardedClaims DEF Kept, TInv
<1>9. CASE Revert(p)
  BY <1>0, <1>9, Reverts, GuardedClaims DEF Kept, TInv
<1>10. QED
  BY <1>1, <1>2, <1>3, <1>4, <1>5, <1>6, <1>7, <1>8, <1>9 DEF CompleteSteps

\* The steps of a teardown.
LEMMA TeardownKept ==
    ASSUME TInv, LInv, NEW p \in Requests, TeardownSteps(p)
    PROVE  Kept
<1>0. p \in Procs
  BY DEF Procs
<1>1. ASSUME NEW u \in Sessions, Abort(p, u) \/ SweepStale(p, u) PROVE Kept
  <2>1. Tears(p, u)
    BY <1>1 DEF Abort, SweepStale, Latch, Tears
  <2>2. QED
    BY <1>0, <2>1, TearsDown, GuardedClaims DEF Kept, TInv
<1>2. CASE Quiesce(p) \/ ReadIntents(p) \/ RecordReleases(p)
  BY <1>0, <1>2, QuietQuiesce, QuietReadIntents, QuietRecordReleases, QuietKept
<1>3. CASE DeleteSession(p)
  BY <1>0, <1>3, Deletes, GuardedClaims DEF Kept, TInv
<1>4. QED
  BY <1>1, <1>2, <1>3 DEF TeardownSteps

\* Every step.
LEMMA StepKept ==
    ASSUME TInv, LInv, [Next]_vars
    PROVE  Kept
<1>1. ASSUME NEW u \in Sessions, CreateMultipartUpload(u) \/ Pass(u) \/ DeleteObject(u)
      PROVE  Kept
  <2>0. u \in Procs /\ RowInv
    BY Rows DEF Procs
  <2>1. CASE CreateMultipartUpload(u)
    BY <2>1, Creates, GuardedClaims DEF Kept, TInv
  <2>2. CASE Pass(u)
    BY <2>0, <2>2, QuietStartPass, QuietReadReleasing, QuietEndPass, QuietKept DEF Pass
  <2>3. CASE DeleteObject(u)
    BY <2>0, <2>3, QuietDeleteObject, QuietKept
  <2>4. QED
    BY <1>1, <2>1, <2>2, <2>3
<1>2. ASSUME NEW p \in Procs, ConcludeSteps(p) \/ ConcludeFails(p) \/ Fail(p)
      PROVE  Kept
  <2>1. CASE Find(p) \/ LockLocated(p) \/ MarkLocated(p) \/ Conclude(p)
    BY <2>1, QuietFind, QuietLockLocated, QuietMarkLocated, QuietConclude, QuietKept
  <2>2. CASE SwapPark(p) \/ MarkConcluded(p) \/ ConcludeFails(p) \/ Fail(p)
    BY <2>2, QuietSwapPark, QuietMarkConcluded, QuietConcludeFails, QuietFail, QuietKept
  <2>3. QED
    BY <1>2, <2>1, <2>2 DEF ConcludeSteps
<1>3. ASSUME NEW p \in Requests, UploadPartSteps(p) \/ CompleteSteps(p) \/ TeardownSteps(p)
      PROVE  Kept
  BY <1>3, UploadPartKept, CompleteKept, TeardownKept
<1>4. ASSUME NEW e \in Releasers, Release(e) \/ ReleaseFails(e)
      PROVE  Kept
  BY <1>4, ReleaseKept
<1>5. CASE Crash
  BY <1>5, Crashes DEF Kept
<1>6. CASE UNCHANGED vars
  <2>1. /\ session' = session /\ part' = part /\ intent' = intent /\ park' = park
        /\ located' = located /\ record' = record /\ object' = object /\ claimed' = claimed
        /\ alloc' = alloc /\ stored' = stored /\ proc' = proc /\ taken' = taken
        /\ releaser' = releaser /\ rerun' = rerun
    BY <1>6 DEF vars, dbVars
  <2>2. TInv'
    BY <2>1 DEF TInv, DbTyped, RestTyped, ProcTyped, RunTyped, ProcInv
  <2>3. LInv'
    BY <2>1 DEF LInv, RowAt, TornAt, LatchAt
  <2>4. CInv => CInv'
    BY <2>1 DEF CInv, RunInv, OneRun, RunAt, Runs, ClaimsHeld
  <2>5. Shows
    BY <2>1, RowsSame, Unseen DEF TInv
  <2>6. QED
    BY <2>2, <2>3, <2>4, <2>5 DEF Kept
<1>7. QED
  BY <1>1, <1>2, <1>3, <1>4, <1>5, <1>6 DEF Next

\* Initially nothing is there.
LEMMA InitKept == Init => TInv /\ LInv /\ CInv /\ Sees!AInit
<1> SUFFICES ASSUME Init PROVE TInv /\ LInv /\ CInv /\ Sees!AInit
  OBVIOUS
<1>0. NoPart \in Row /\ NoParts \in [Numbers -> Digests \cup {None}] /\ NoRun \in Run
      /\ NoRun.pc = "idle" /\ NoPart.digest = None
  BY DEF NoPart, Row, NoParts, NoRun, Run, RunSteps
<1>1. DbTyped
  BY <1>0 DEF Init, DbTyped
<1>2. RestTyped /\ RunTyped
  BY <1>0, BoundAssumption DEF Init, RestTyped, RunTyped
<1>3. ProcTyped /\ ProcInv
  BY IdleIs DEF Init, ProcTyped, ProcInv
<1>4. ASSUME NEW u \in Sessions PROVE RowAt(u) /\ TornAt(u) /\ LatchAt(u)
  <2>1. \A p \in Procs : proc[p] = Idle
    BY DEF Init
  <2>2. session[u] = "none" /\ object[u] = NoParts /\ \A n \in Numbers : part[u][n] = NoPart
    BY DEF Init
  <2>3. QED
    BY <2>1, <2>2, IdleIs DEF RowAt, TornAt, LatchAt, Latched
<1>5. CInv
  BY <1>0 DEF Init, CInv, RunInv, OneRun, RunAt, Runs, Owning, ClaimsHeld
<1>6. Sees!AInit
  <2>1. \A u \in Sessions : session[u] = "none" /\ object[u] = NoParts
    BY DEF Init
  <2>2. \A u \in Sessions : Upload[u] = "none"
    BY <2>1, UploadAt
  <2>3. Upload = [u \in Sessions |-> "none"]
    BY <2>2 DEF Upload
  <2>4. Shown = [u \in Sessions |-> NoParts]
    BY <2>2 DEF Shown, NoParts
  <2>5. QED
    BY <2>3, <2>4 DEF Init, Sees!AInit, Shown, Sees!NoParts, NoParts
<1>7. QED
  BY <1>1, <1>2, <1>3, <1>4, <1>5, <1>6 DEF TInv, LInv

\* Every row, allocation and process stays well typed, however the requests,
\* the acceptors, the releases and crashes interleave.
THEOREM TypesHold == Spec => []TypeOK
<1>1. TInv => TypeOK
  BY Typing DEF TInv
<1>2. QED
  BY InitKept, StepKept, <1>1, PTL DEF Spec, Kept

\* Whatever the interleaving of part uploads, passes, completions, aborts,
\* sweeps and crashes, and however many of each there are, an upload is
\* completed once or discarded, never both, and completes with the parts as its
\* rows have them at the commit.
THEOREM SessionsAreImplemented == Spec => ImplementsSessions
  BY InitKept, StepKept, PTL DEF Spec, Kept, Shows, ImplementsSessions, Sees!ASpec

\* However many requests, acceptors and runners of releases there are, an
\* object's blobs stay located and no release of them starts for as long as it
\* holds its claims, but for a blob whose started release a second runner took
\* up while the first was at work on it (StartRelease, addClaims).
THEOREM ClaimsAreHeld == Spec => []ClaimsHeld
<1>1. CInv => ClaimsHeld
  BY DEF CInv
<1>2. TInv /\ LInv /\ CInv /\ [Next]_vars => TInv' /\ LInv' /\ CInv'
  BY StepKept DEF Kept
<1>3. QED
  BY InitKept, <1>1, <1>2, PTL DEF Spec
=============================================================================
