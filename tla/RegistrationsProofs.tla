------------------------ MODULE RegistrationsProofs ------------------------
(***************************************************************************)
(* Proofs about Registrations: types and, for the versions whose changes   *)
(* no two runs had in hand at once, that the count settles.                *)
(***************************************************************************)
EXTENDS Registrations, FiniteSetTheorems, WellFoundedInduction, TLAPS

-----------------------------------------------------------------------------
(* The inductive invariant. *)

RunSteps == {"rest", "add", "send adds", "settle adds",
             "remove", "send removes", "settle removes", "done"}

\* TypeOK, with the runs as records.
Run == [at : RunSteps, regs : SUBSET Row, sent : SUBSET Row, landed : SUBSET Row,
        deferred : SUBSET Row, held : SUBSET Keys]
RunTyped ==
    /\ run \in [Runners -> Run]
    /\ \A p \in Runners : run[p].sent \cup run[p].landed \cup run[p].deferred \subseteq run[p].regs
RestTyped ==
    /\ made \in [Keys -> 0..MaxVersions]
    /\ live \subseteq Roots /\ entries \subseteq Roots /\ drift \subseteq Roots
    /\ rows \subseteq Row /\ deleted \in BOOLEAN /\ faults \in 0..MaxFaults

\* Every row, queued or in the hands of a run.
AllRows == rows \cup UNION {run[p].regs : p \in Runners}

\* Sequence numbers are bounded, so that there is a last one.
Bounded == \E n \in Nat : \A r \in AllRows : r.seq <= n

Typed == RunTyped /\ RestTyped /\ Bounded

\* The versions a key has had.
Born(v) == v[2] <= made[v[1]]
BornInv == /\ \A r \in AllRows : Born(r.root)
           /\ \A v \in live \cup entries \cup drift : Born(v)

\* A sequence number is one row's, whatever its state.
OneRow == \A r, e \in AllRows : r.seq = e.seq => r.root = e.root /\ r.op = e.op

\* The sweep and the drain keep apart, but for drift.
Apart == \A p, q \in Runners : \A r \in run[p].regs : \A e \in run[q].regs :
             p # q /\ r.root = e.root => r.root \in drift

\* A retraction is of a version that is gone, and comes after its addition.
Retracted == \A r \in AllRows : r.op = "remove" => r.root \notin live
InOrder   == \A r, e \in rows : r.op = "add" /\ e.op = "remove" /\ r.root = e.root => r.seq < e.seq

\* What is given up is drift.
DeadDrifts == \A r \in rows : r.dead => r.root \in drift

HasAdd(v)    == \E r \in rows : r.root = v /\ r.op = "add"
HasRemove(v) == \E r \in rows : r.root = v /\ r.op = "remove"

\* A version the catalog has and that waits for nothing is counted.
LiveCounted == \A v \in live \ drift : HasAdd(v) \/ v \in entries

\* One that is gone, and waits for no retraction, is not, and nothing can bring
\* it back.
GoneUncounted ==
    \A v \in Roots \ (live \cup drift) : ~HasRemove(v) =>
        /\ v \notin entries /\ ~HasAdd(v)
        /\ \A p \in Runners : run[p].at \in {"add", "send adds"} =>
               \A r \in run[p].regs : r.op = "add" => r.root # v

\* What a run has sent, and what of it the service has.
SentAt(p) ==
    LET x == run[p] IN
    /\ x.at \notin {"send adds", "send removes"} => x.sent = {}
    /\ x.at \notin {"settle adds", "settle removes"} => x.landed = {}
    /\ x.at \in {"send adds", "settle adds"} => \A r \in x.sent \cup x.landed : r.op = "add"
    /\ x.at = "settle adds" => \A r \in x.landed : r.root \in entries \/ r.root \in drift
    /\ x.at \in {"send removes", "settle removes"} =>
           \A r \in x.sent \cup x.landed :
               r.op = "remove" /\ (HasAdd(r.root) => r.root \in drift)
    /\ x.at = "settle removes" => \A r \in x.landed : r.root \notin entries \/ r.root \in drift
SentInv == \A p \in Runners : SentAt(p)

\* A retraction a run has waits for its addition: that one is on its way in the
\* same run, or their key is held.
In(r, S) == \E e \in S : e.seq = r.seq
Waits(x, r) ==
    /\ x.at = "add"         => In(r, x.regs)
    /\ x.at = "send adds"   => In(r, x.sent) \/ KeyOf(r) \in x.held
    /\ x.at = "settle adds" => In(r, x.landed) \/ KeyOf(r) \in x.held
    /\ x.at = "remove"      => KeyOf(r) \in x.held
HoldAt(p) ==
    \A e \in run[p].regs : \A r \in rows :
        e.op = "remove" /\ r.op = "add" /\ r.root = e.root /\ r.root \notin drift
            => Waits(run[p], r)
HoldInv == \A p \in Runners : HoldAt(p)

QueueInv == BornInv /\ OneRow /\ Retracted /\ InOrder /\ DeadDrifts
SettleInv == Apart /\ LiveCounted /\ GoneUncounted /\ SentInv /\ HoldInv
-----------------------------------------------------------------------------
(* The last sequence number. *)

\* A set of naturals with an upper bound has a greatest element.
LEMMA MaxOf ==
    ASSUME NEW S \in SUBSET Nat, S # {}, NEW n \in Nat, \A x \in S : x <= n
    PROVE  Max(S) \in S /\ \A x \in S : x <= Max(S)
<1> DEFINE T == {m \in Nat : \A x \in S : x <= m}
<1>1. T \subseteq Nat /\ T # {}
  OBVIOUS
<1>2. PICK m \in T : \A y \in T : ~(<<y, m>> \in OpToRel(<, Nat))
  <2> HIDE DEF T
  <2> QED
    BY <1>1, NatLessThanWellFounded, WFMin
<1>3. \A y \in T : ~(y < m)
  BY <1>2 DEF OpToRel
<1>4. m \in S
  <2> SUFFICES ASSUME m \notin S PROVE FALSE
    OBVIOUS
  <2>1. PICK x \in S : TRUE
    OBVIOUS
  <2>2. x \in Nat /\ x <= m /\ x # m /\ m \in Nat
    BY <2>1
  <2>3. m - 1 \in Nat /\ m - 1 < m
    BY <2>2
  <2>4. \A y \in S : y <= m - 1
    BY <2>2
  <2>5. QED
    BY <1>3, <2>3, <2>4
<1>5. \A x \in S : m >= x
  OBVIOUS
<1>6. Max(S) \in S /\ \A y \in S : Max(S) >= y
  <2> HIDE DEF T
  <2> QED
    BY <1>4, <1>5 DEF Max
<1>7. QED
  BY <1>6

LEMMA LastSeqIsLast ==
    ASSUME Typed
    PROVE  LastSeq \in Nat /\ \A r \in AllRows : r.seq <= LastSeq
<1> DEFINE S == {0} \cup {r.seq : r \in rows} \cup
               {r.seq : r \in UNION {run[p].regs : p \in Runners}}
<1>1. \A r \in AllRows : r \in Row /\ r.seq \in Nat
  BY DEF AllRows, Typed, RunTyped, RestTyped, Run, Row
<1>2. S \in SUBSET Nat /\ S # {} /\ \A r \in AllRows : r.seq \in S
  BY <1>1 DEF AllRows
<1>3. PICK n \in Nat : \A r \in AllRows : r.seq <= n
  BY DEF Typed, Bounded
<1>4. \A x \in S : x <= n
  BY <1>3 DEF AllRows
<1>5. LastSeq = Max(S)
  BY DEF LastSeq
<1> HIDE DEF S
<1>6. QED
  BY <1>2, <1>4, <1>5, MaxOf

\* The rows a commit queues come after every other.
LEMMA NewRowTyped ==
    ASSUME Typed, NEW i \in 1..2, NEW v \in Roots, NEW op \in Ops
    PROVE  /\ NewRow(i, v, op) \in Row /\ NewRow(i, v, op).seq = LastSeq + i
           /\ NewRow(i, v, op).root = v /\ NewRow(i, v, op).op = op /\ ~NewRow(i, v, op).dead
           /\ LastSeq \in Nat
<1>1. LastSeq \in Nat /\ LastSeq + i \in Nat \ {0} /\ 0 \in 0..MaxTries
  BY LastSeqIsLast, TriesAssumption
<1>2. QED
  BY <1>1 DEF NewRow, Row

-----------------------------------------------------------------------------
(* Types. *)

\* The steps that queue nothing leave every row one there was.
Same(r, e) == r.seq = e.seq /\ r.root = e.root /\ r.op = e.op
Derived    == \A r \in rows' : \E e \in rows : Same(r, e)
AllDerived == \A r \in AllRows' : \E e \in AllRows : Same(r, e)

LEMMA BoundStays ==
    ASSUME Typed, AllDerived
    PROVE  Bounded'
<1>1. PICK n \in Nat : \A r \in AllRows : r.seq <= n
  BY DEF Typed, Bounded
<1>2. \A r \in AllRows' : r.seq <= n
  BY <1>1 DEF AllDerived, Same
<1>3. QED
  BY <1>2 DEF Bounded

\* A run takes a step, or goes back to rest.
LEMMA RunsDerived ==
    ASSUME RunTyped, RunTyped', Derived, \A p \in Runners : run'[p].regs \subseteq run[p].regs \cup rows
    PROVE  AllDerived
BY DEF AllDerived, AllRows, Derived, Same

LEMMA RestIsRun == Rest \in Run /\ Rest.at = "rest" /\ Rest.regs = {} /\ Rest.sent = {} /\ Rest.landed = {}
                   /\ Rest.deferred = {} /\ Rest.held = {}
BY DEF Rest, Run, RunSteps

LEMMA Rested ==
    ASSUME RunTyped, NEW p \in Runners, run' = [run EXCEPT ![p] = Rest]
    PROVE  /\ RunTyped' /\ run'[p] = Rest /\ \A q \in Runners \ {p} : run'[q] = run[q]
           /\ \A q \in Runners : run'[q].regs \subseteq run[q].regs \cup rows
BY RestIsRun DEF RunTyped

LEMMA RunBegin ==
    ASSUME RunTyped, rows \subseteq Row, NEW p \in Runners, NEW regs \in SUBSET rows, Begin(p, regs)
    PROVE  /\ RunTyped' /\ run'[p].at = "add" /\ run'[p].regs = regs /\ run'[p].held = {}
           /\ run'[p].sent = {} /\ run'[p].landed = {}
           /\ \A q \in Runners \ {p} : run'[q] = run[q]
           /\ \A q \in Runners : run'[q].regs \subseteq run[q].regs \cup rows
<1>1. PICK x : x = [Rest EXCEPT !.at = "add", !.regs = regs]
  OBVIOUS
<1>2. /\ x \in Run /\ x.at = "add" /\ x.regs = regs /\ x.sent = {} /\ x.landed = {}
      /\ x.deferred = {} /\ x.held = {}
  BY <1>1 DEF Rest, Run, RunSteps
<1>3. run' = [run EXCEPT ![p] = x]
  BY <1>1 DEF Begin
<1>4. QED
  BY <1>2, <1>3 DEF RunTyped

LEMMA RunPrepare ==
    ASSUME RunTyped, NEW p \in Runners, NEW spent, Prepare(p, spent)
    PROVE  /\ RunTyped'
           /\ run'[p].at = IF run[p].at = "add" THEN "send adds" ELSE "send removes"
           /\ run'[p].regs = run[p].regs /\ run'[p].sent = Authorized(p, spent)
           /\ run'[p].landed = run[p].landed
           /\ run'[p].held = run[p].held \cup {KeyOf(r) : r \in Batch(p) \ Authorized(p, spent)}
           /\ \A q \in Runners \ {p} : run'[q] = run[q]
<1> DEFINE dead == {r \in Tried(p, spent) \cap spent : r.tries + 1 >= MaxTries}
           sent == Authorized(p, spent)
           rest == Batch(p) \ (dead \cup sent)
           more == {KeyOf(r) : r \in Batch(p) \ sent}
<1>1. Batch(p) \subseteq run[p].regs /\ run[p].regs \subseteq Row /\ sent \subseteq Batch(p)
  BY DEF Batch, Authorized, Tried, RunTyped, Run
<1>2. \A r \in Row : KeyOf(r) \in Keys
  BY DEF KeyOf, Row, Roots
<1>3. /\ sent \in SUBSET Row /\ rest \in SUBSET Row /\ more \in SUBSET Keys
      /\ rest \subseteq run[p].regs
      /\ sent \subseteq run[p].regs
  BY <1>1, <1>2
<1>4. PICK x : x = [run[p] EXCEPT !.at = IF run[p].at = "add" THEN "send adds" ELSE "send removes",
                                  !.sent = sent, !.deferred = rest, !.held = run[p].held \cup more]
  OBVIOUS
<1>5. run' = [run EXCEPT ![p] = x]
  BY <1>4 DEF Prepare
<1> HIDE DEF dead, sent, rest, more
<1>6. /\ x \in Run /\ x.at = IF run[p].at = "add" THEN "send adds" ELSE "send removes"
      /\ x.regs = run[p].regs /\ x.sent = sent /\ x.landed = run[p].landed
      /\ x.deferred = rest /\ x.held = run[p].held \cup more
  BY <1>3, <1>4 DEF RunTyped, Run, RunSteps
<1>7. run'[p] = x /\ RunTyped' /\ \A q \in Runners \ {p} : run'[q] = run[q]
  BY ZenonT(60), <1>3, <1>5, <1>6 DEF RunTyped
<1>8. QED
  BY <1>6, <1>7 DEF sent, more

LEMMA RunSend ==
    ASSUME RunTyped, NEW p \in Runners, NEW taken, NEW landed, Send(p, taken, landed)
    PROVE  /\ RunTyped'
           /\ run'[p].at = IF run[p].at = "send adds" THEN "settle adds" ELSE "settle removes"
           /\ run'[p].regs = run[p].regs /\ run'[p].sent = {} /\ run'[p].landed = landed
           /\ run'[p].held = run[p].held \cup {KeyOf(r) : r \in run[p].sent \ landed}
           /\ \A q \in Runners \ {p} : run'[q] = run[q]
<1> DEFINE lost == run[p].sent \ landed
           more == {KeyOf(r) : r \in lost}
           late == run[p].deferred \cup lost
<1>1. /\ landed \subseteq run[p].sent /\ run[p].sent \subseteq run[p].regs
      /\ run[p].regs \subseteq Row
      /\ run[p].deferred \subseteq run[p].regs
  BY DEF Send, RunTyped, Run
<1>2. \A r \in Row : KeyOf(r) \in Keys
  BY DEF KeyOf, Row, Roots
<1>3. /\ landed \in SUBSET Row /\ late \in SUBSET Row /\ more \in SUBSET Keys
      /\ late \subseteq run[p].regs
      /\ landed \subseteq run[p].regs
  BY <1>1, <1>2
<1>4. PICK x : x = [run[p] EXCEPT !.at = IF run[p].at = "send adds" THEN "settle adds" ELSE "settle removes",
                                  !.sent = {}, !.landed = landed, !.deferred = late,
                                  !.held = run[p].held \cup more]
  OBVIOUS
<1>5. run' = [run EXCEPT ![p] = x]
  BY <1>4 DEF Send
<1> HIDE DEF late, lost, more
<1>6. /\ x \in Run /\ x.at = IF run[p].at = "send adds" THEN "settle adds" ELSE "settle removes"
      /\ x.regs = run[p].regs /\ x.sent = {} /\ x.landed = landed
      /\ x.deferred = late /\ x.held = run[p].held \cup more
  BY <1>3, <1>4 DEF RunTyped, Run, RunSteps
<1>7. run'[p] = x /\ RunTyped' /\ \A q \in Runners \ {p} : run'[q] = run[q]
  BY <1>3, <1>5, <1>6 DEF RunTyped
<1>8. QED
  BY <1>6, <1>7 DEF lost, more

LEMMA RunSettle ==
    ASSUME RunTyped, NEW p \in Runners, Settle(p)
    PROVE  /\ RunTyped'
           /\ run'[p].at = IF run[p].at = "settle adds" THEN "remove" ELSE "done"
           /\ run'[p].regs \subseteq run[p].regs /\ run'[p].sent = {} /\ run'[p].landed = {}
           /\ run[p].at = "settle adds" => run'[p].held = run[p].held
           /\ \A q \in Runners \ {p} : run'[q] = run[q]
<1>1. PICK x : x = IF run[p].at = "settle adds" THEN Retractions(p) ELSE [Rest EXCEPT !.at = "done"]
  OBVIOUS
<1>2. {r \in run[p].regs : r.op = "remove"} \in SUBSET Row /\ run[p].held \in SUBSET Keys
  BY DEF RunTyped, Run
<1>3. /\ x \in Run /\ x.at = IF run[p].at = "settle adds" THEN "remove" ELSE "done"
      /\ x.regs \subseteq run[p].regs /\ x.sent = {} /\ x.landed = {} /\ x.deferred = {}
      /\ run[p].at = "settle adds" => x.held = run[p].held
  <2>1. CASE run[p].at = "settle adds"
    BY <1>1, <1>2, <2>1 DEF Retractions, Rest, Run, RunSteps
  <2>2. CASE run[p].at # "settle adds"
    BY <1>1, <2>2 DEF Rest, Run, RunSteps
  <2>3. QED
    BY <2>1, <2>2
<1>4. run' = [run EXCEPT ![p] = x]
  BY <1>1 DEF Settle
<1>5. QED
  BY <1>3, <1>4 DEF RunTyped

\* The rows as a step leaves them: none but those with a number in S are gone.
Stays(S) == \A e \in rows : e.seq \notin S => \E r \in rows' : Same(r, e)

LEMMA PrepareRows ==
    ASSUME Typed, NEW p \in Runners, NEW spent, Prepare(p, spent)
    PROVE  rows' \subseteq Row /\ Derived /\ Stays({})
<1> DEFINE dead == {r \in Tried(p, spent) \cap spent : r.tries + 1 >= MaxTries}
           New(r) == IF \E d \in dead : d.seq = r.seq THEN [r EXCEPT !.dead = TRUE] ELSE r
<1>1. rows' = {New(r) : r \in rows}
  BY DEF Prepare, DeadLetter
<1>2. \A r \in rows : New(r) \in Row /\ Same(New(r), r)
  BY DEF Typed, RestTyped, Row, Same
<1> HIDE DEF New
<1>3. QED
  BY <1>1, <1>2 DEF Derived, Stays

LEMMA SettleRows ==
    ASSUME Typed, NEW p \in Runners, Settle(p)
    PROVE  /\ rows' \subseteq Row /\ Derived /\ Stays({r.seq : r \in run[p].landed})
           /\ \A r \in rows' : ~In(r, run[p].landed)
           /\ \A r \in rows' : \E e \in rows : Same(r, e) /\ r.dead = e.dead
<1> DEFINE landed   == {r.seq : r \in run[p].landed}
           deferred == {r.seq : r \in run[p].deferred}
           New(r)   == IF r.seq \in deferred THEN Again(r) ELSE r
<1>1. rows' = {New(r) : r \in {e \in rows : e.seq \notin landed}}
  BY DEF Settle
<1>2. \A r \in rows : New(r) \in Row /\ Same(New(r), r) /\ New(r).dead = r.dead
  <2> SUFFICES ASSUME NEW r \in rows
               PROVE  New(r) \in Row /\ Same(New(r), r) /\ New(r).dead = r.dead
    OBVIOUS
  <2>1. r \in Row /\ r.tries \in 0..MaxTries
    BY DEF Typed, RestTyped, Row
  <2>2. (IF r.tries < MaxTries THEN r.tries + 1 ELSE r.tries) \in 0..MaxTries
    BY <2>1, TriesAssumption
  <2>3. Again(r) \in Row /\ Same(Again(r), r) /\ Again(r).dead = r.dead
    BY <2>1, <2>2 DEF Again, Row, Same
  <2>4. QED
    BY <2>1, <2>3 DEF Same
<1>3. \A r : r.seq \notin landed => ~In(r, run[p].landed)
  BY DEF In
<1> HIDE DEF New, landed
<1>4. \A r \in rows' : \E e \in rows : e.seq \notin landed /\ r = New(e) /\ Same(r, e)
  BY <1>1, <1>2
<1>5. \A r \in rows' : ~In(r, run[p].landed)
  <2> SUFFICES ASSUME NEW r \in rows' PROVE ~In(r, run[p].landed)
    OBVIOUS
  <2>1. r.seq \notin landed
    BY <1>4 DEF Same
  <2>2. QED
    BY <2>1, <1>3
<1>6. Stays(landed)
  BY <1>1, <1>2 DEF Stays
<1>7. rows' \subseteq Row /\ Derived /\ \A r \in rows' : \E e \in rows : Same(r, e) /\ r.dead = e.dead
  BY <1>2, <1>4 DEF Derived
<1>8. QED
  BY <1>5, <1>6, <1>7 DEF landed

LEMMA ElapseRows ==
    ASSUME Typed, NEW x \in rows, Elapse(x)
    PROVE  /\ rows' \subseteq Row /\ Derived /\ Stays({})
           /\ \A r \in rows' : \E e \in rows : Same(r, e) /\ r.dead = e.dead
<1>1. PICK y : y = [x EXCEPT !.wait = FALSE]
  OBVIOUS
<1>2. y \in Row /\ Same(y, x) /\ y.dead = x.dead
  BY <1>1 DEF Typed, RestTyped, Row, Same
<1>3. rows' = (rows \ {x}) \cup {y}
  BY <1>1 DEF Elapse
<1>4. QED
  BY <1>2, <1>3 DEF Derived, Stays, Same, Typed, RestTyped

\* Rows that a commit queues, for the versions it makes and discards.
Queued(N) ==
    /\ rows' = rows \cup N /\ N \subseteq Row /\ UNCHANGED <<entries, run>>
    /\ \A r \in N : ~r.dead /\ Born(r.root)' /\ \A e \in AllRows : e.seq < r.seq
    /\ \A r \in N : r.op = "add" => ~Born(r.root) /\ r.root \in live'
    /\ \A r \in N : r.op = "remove" => Born(r.root) /\ r.root \notin live'
    /\ \A r, e \in N : r.seq = e.seq => r.root = e.root /\ r.op = e.op
    /\ \A v \in live \ live' : v \in drift' \/ \E r \in N : r.root = v /\ r.op = "remove"
    /\ \A v \in live' \ live : /\ ~Born(v) /\ Born(v)'
                               /\ v \in drift' \/ \E r \in N : r.root = v /\ r.op = "add"
    /\ \A v \in Roots : Born(v) => Born(v)'
    /\ drift \subseteq drift' /\ drift' \subseteq drift \cup live \cup live'

LEMMA QueuedBound ==
    ASSUME Typed, NEW N, N \subseteq Row, rows' = rows \cup N, run' = run,
           \A r \in N : r.seq <= LastSeq + 2
    PROVE  Bounded'
<1>1. LastSeq \in Nat /\ \A r \in AllRows : r.seq <= LastSeq
  BY LastSeqIsLast
<1>2. PICK n \in Nat : n = LastSeq + 2
  BY <1>1
<1>3. \A r \in AllRows : r.seq \in Nat
  BY DEF AllRows, Typed, RunTyped, RestTyped, Run, Row
<1>4. \A r \in AllRows' : r \in AllRows \/ r \in N
  BY DEF AllRows
<1>5. \A r \in AllRows' : r.seq <= n
  BY <1>1, <1>2, <1>3, <1>4
<1>6. QED
  BY <1>5 DEF Bounded

\* The versions a commit discards are one at most.
LEMMA OneGone ==
    ASSUME Typed, NEW k \in Keys, NEW gone \in SUBSET {v \in live : v[1] = k}, Cardinality(gone) <= 1
    PROVE  \A v, w \in gone : v = w
<1> SUFFICES ASSUME NEW v \in gone, NEW w \in gone, v # w PROVE FALSE
  OBVIOUS
<1>1. gone \subseteq {k} \X (1..MaxVersions)
  BY DEF Typed, RestTyped, Roots
<1>2. IsFiniteSet({k}) /\ IsFiniteSet(1..MaxVersions)
  <2>1. 1 \in Int /\ MaxVersions \in Int
    BY VersionsAssumption
  <2>2. QED
    BY <2>1, FS_Singleton, FS_Interval
<1>3. IsFiniteSet({k} \X (1..MaxVersions))
  BY <1>2, FS_Product
<1>4. IsFiniteSet(gone)
  BY <1>1, <1>3, FS_Subset
<1>5. IsFiniteSet({v}) /\ Cardinality({v}) = 1
  BY FS_Singleton
<1>6. Cardinality({v} \cup {w}) = 2
  BY <1>5, FS_AddElement
<1>7. {v} \cup {w} \subseteq gone
  OBVIOUS
<1>8. Cardinality({v} \cup {w}) <= Cardinality(gone) /\ Cardinality(gone) \in Nat
  BY <1>4, <1>7, FS_Subset, FS_CardinalityType
<1>9. QED
  BY <1>6, <1>8

LEMMA FaultTyped ==
    ASSUME NEW b \in BOOLEAN, faults \in 0..MaxFaults, Fault(b)
    PROVE  faults' \in 0..MaxFaults
BY FaultsAssumption DEF Fault

\* The changes of a commit, and those of them that are queued.
LEMMA QueueDoes ==
    ASSUME NEW C, NEW skipped, Queue(C, skipped)
    PROVE  \E N \in SUBSET C :
              /\ rows' = rows \cup N
              /\ \A r \in C : r \in N \/ r.root \in drift'
              /\ drift \subseteq drift'
              /\ \A v \in drift' : v \in drift \/ \E r \in C : r.root = v
              /\ (faults \in 0..MaxFaults => faults' \in 0..MaxFaults)
<1> DEFINE N == {r \in C : r.root \notin skipped}
<1>1. rows' = rows \cup N /\ drift' = drift \cup skipped /\ skipped \subseteq {r.root : r \in C}
  BY DEF Queue
<1>2. Fault(skipped # {})
  BY DEF Queue
<1>3. faults \in 0..MaxFaults => faults' \in 0..MaxFaults
  BY <1>2, FaultTyped
<1>4. \A r \in C : r \in N \/ r.root \in skipped
  OBVIOUS
<1>5. N \in SUBSET C
  OBVIOUS
<1> HIDE DEF N
<1>6. QED
  BY <1>1, <1>3, <1>4, <1>5

\* The changes of a new version and of those it discards, or of a delete.
Changes(root, gone) ==
    {NewRow(1, root, "add")} \cup {NewRow(2, v, "remove") : v \in gone}

LEMMA ChangesTyped ==
    ASSUME Typed, NEW root \in Roots, NEW gone \in SUBSET Roots
    PROVE  /\ \A r \in Changes(root, gone) :
                /\ r \in Row /\ ~r.dead /\ r.root \in Roots
                /\ \/ r.op = "add" /\ r.root = root /\ r.seq = LastSeq + 1
                   \/ r.op = "remove" /\ r.root \in gone /\ r.seq = LastSeq + 2
           /\ \A v \in gone : \E r \in Changes(root, gone) : r.root = v /\ r.op = "remove"
           /\ \E r \in Changes(root, gone) : r.root = root /\ r.op = "add"
           /\ LastSeq \in Nat
<1>1. /\ NewRow(1, root, "add") \in Row /\ NewRow(1, root, "add").seq = LastSeq + 1
      /\ NewRow(1, root, "add").root = root /\ NewRow(1, root, "add").op = "add"
      /\ ~NewRow(1, root, "add").dead /\ LastSeq \in Nat
  BY NewRowTyped DEF Ops
<1>2. \A v \in gone :
      /\ NewRow(2, v, "remove") \in Row /\ NewRow(2, v, "remove").seq = LastSeq + 2
      /\ NewRow(2, v, "remove").root = v /\ NewRow(2, v, "remove").op = "remove"
      /\ ~NewRow(2, v, "remove").dead
  BY NewRowTyped DEF Ops
<1>3. QED
  BY <1>1, <1>2 DEF Changes

\* A row with a number past the last is past every row there is.
LEMMA PastLast ==
    ASSUME Typed, NEW n \in {LastSeq + 1, LastSeq + 2}
    PROVE  \A e \in AllRows : e.seq < n
<1> SUFFICES ASSUME NEW e \in AllRows PROVE e.seq < n
  OBVIOUS
<1>1. e.seq <= LastSeq /\ e.seq \in Nat /\ LastSeq \in Nat
  BY LastSeqIsLast DEF AllRows, Typed, RunTyped, RestTyped, Run, Row
<1>2. QED
  BY <1>1

LEMMA CommitQueues ==
    ASSUME Typed, QueueInv, NEW k \in Keys, NEW gone \in SUBSET live, NEW skipped,
           CommitVersion(k, gone, skipped)
    PROVE  \E N : Queued(N)
<1>0. PICK root : root = <<k, made[k] + 1>>
  OBVIOUS
<1>1. made[k] \in 0..MaxVersions /\ made[k] < MaxVersions /\ MaxVersions \in Nat
  BY VersionsAssumption DEF Typed, RestTyped, CommitVersion
<1>2. root \in Roots /\ ~Born(root)
  BY <1>0, <1>1 DEF Roots, Born
<1>3. gone \in SUBSET {v \in live : v[1] = k} /\ Cardinality(gone) <= 1
  BY DEF CommitVersion
<1>4. gone \subseteq Roots /\ (\A v \in gone : Born(v)) /\ root \notin gone /\ root \notin live
  BY <1>2 DEF QueueInv, BornInv, Typed, RestTyped
<1>5. /\ Queue(Changes(root, gone), skipped) /\ live' = (live \cup {root}) \ gone
      /\ UNCHANGED <<entries, run>> /\ made' = [made EXCEPT ![k] = made[k] + 1]
  BY <1>0 DEF CommitVersion, Changes
<1>6. \A v \in Roots : Born(v) => Born(v)'
  <2> SUFFICES ASSUME NEW v \in Roots, Born(v) PROVE Born(v)'
    OBVIOUS
  <2>1. v[1] \in Keys /\ v[2] \in Nat /\ made[v[1]] \in Nat /\ made[v[1]] <= made'[v[1]]
    BY <1>1, <1>5 DEF Roots, Typed, RestTyped
  <2>2. made'[v[1]] \in Nat
    BY <1>1, <1>5, <2>1 DEF Typed, RestTyped
  <2>3. QED
    BY <2>1, <2>2 DEF Born
<1>7. Born(root)'
  BY <1>0, <1>1, <1>5 DEF Born, Typed, RestTyped
<1>8. PICK C : C = Changes(root, gone)
  OBVIOUS
<1>9. /\ \A r \in C : /\ r \in Row /\ ~r.dead
                      /\ \/ r.op = "add" /\ r.root = root /\ r.seq = LastSeq + 1
                         \/ r.op = "remove" /\ r.root \in gone /\ r.seq = LastSeq + 2
      /\ \A v \in gone : \E r \in C : r.root = v /\ r.op = "remove"
      /\ \E r \in C : r.root = root /\ r.op = "add"
      /\ LastSeq \in Nat
  BY <1>2, <1>4, <1>8, ChangesTyped
<1>10. PICK N \in SUBSET C :
          /\ rows' = rows \cup N /\ drift \subseteq drift'
          /\ \A r \in C : r \in N \/ r.root \in drift'
          /\ \A v \in drift' : v \in drift \/ \E r \in C : r.root = v
  BY <1>5, <1>8, QueueDoes
<1>11. \A v \in gone : v \in drift' \/ \E r \in N : r.root = v /\ r.op = "remove"
  BY <1>9, <1>10
<1>12. root \in drift' \/ \E r \in N : r.root = root /\ r.op = "add"
  BY <1>9, <1>10
<1>13. \A r \in N : \A e \in AllRows : e.seq < r.seq
  BY <1>9, PastLast
<1>14. \A r, e \in N : r.seq = e.seq => r.root = e.root /\ r.op = e.op
  BY <1>3, <1>9, OneGone
<1>15. \A r \in N : Born(r.root)'
  BY <1>4, <1>6, <1>7, <1>9
<1>16. \A r \in N : r.op = "add" => ~Born(r.root) /\ r.root \in live'
  BY <1>2, <1>4, <1>5, <1>9
<1>17. \A r \in N : r.op = "remove" => Born(r.root) /\ r.root \notin live'
  BY <1>4, <1>5, <1>9
<1>18. \A v \in live' \ live : v = root
  BY <1>5
<1>19. \A v \in drift' : v \in drift \cup live \cup live'
  BY <1>4, <1>5, <1>9, <1>10
<1>20. \A v \in live \ live' : v \in gone
  BY <1>5
<1>21. N \subseteq Row /\ \A r \in N : ~r.dead
  BY <1>9
<1>22. Queued(N)
  BY <1>2, <1>5, <1>6, <1>7, <1>10, <1>11, <1>12, <1>13, <1>14, <1>15, <1>16, <1>17, <1>18,
     <1>19, <1>20, <1>21 DEF Queued
<1>23. QED
  BY <1>22

LEMMA DeleteQueues ==
    ASSUME Typed, QueueInv, NEW v \in live, NEW skipped, DeleteVersion(v, skipped)
    PROVE  \E N : Queued(N)
<1>1. v \in Roots /\ Born(v)
  BY DEF QueueInv, BornInv, Typed, RestTyped
<1>2. UNCHANGED <<made, entries, run>> /\ live' = live \ {v}
  BY DEF DeleteVersion
<1>3. \A w : Born(w) => Born(w)'
  BY <1>2 DEF Born
<1>4. PICK n : n = NewRow(1, v, "remove")
  OBVIOUS
<1>5. PICK N \in SUBSET {n} :
          /\ rows' = rows \cup N /\ drift \subseteq drift'
          /\ \A r \in {n} : r \in N \/ r.root \in drift'
          /\ \A w \in drift' : w \in drift \/ \E r \in {n} : r.root = w
  BY <1>4, QueueDoes DEF DeleteVersion
<1>6. /\ n \in Row /\ n.seq = LastSeq + 1 /\ n.root = v /\ n.op = "remove" /\ ~n.dead
      /\ LastSeq \in Nat
  BY <1>1, <1>4, NewRowTyped DEF Ops
<1>7. \A e \in AllRows : e.seq < n.seq
  BY <1>6, PastLast
<1>8. v \in drift' \/ n \in N
  BY <1>5, <1>6
<1>9. drift' \subseteq drift \cup live
  BY <1>5, <1>6
<1>10. Queued(N)
  BY <1>1, <1>2, <1>3, <1>5, <1>6, <1>7, <1>8, <1>9 DEF Queued
<1>11. QED
  BY <1>10

-----------------------------------------------------------------------------
(* Types, and the steps that queue nothing. *)

\* A step that queues nothing: every row is one there was, and what the service
\* counts, or is given up, is of a row.
Quiet ==
    /\ AllDerived /\ Derived /\ UNCHANGED <<made, live>>
    /\ \A v \in entries' : v \in entries \/ \E r \in AllRows : r.root = v
    /\ \A v \in drift' : v \in drift \/ \E r \in AllRows : r.root = v
    /\ drift \subseteq drift'
    /\ OneRow /\ DeadDrifts => DeadDrifts'

LEMMA RowTyped ==
    ASSUME Typed
    PROVE  \A r \in AllRows : r \in Row /\ r.root \in Roots /\ r.seq \in Nat /\ r.op \in Ops
BY DEF AllRows, Typed, RunTyped, RestTyped, Run, Row

\* The rows there were derive from themselves.
LEMMA Unchanged ==
    ASSUME rows' = rows
    PROVE  Derived /\ (drift \subseteq drift' /\ DeadDrifts => DeadDrifts')
BY DEF Derived, Same, DeadDrifts

LEMMA TypeCommit ==
    ASSUME Typed, NEW k \in Keys, NEW gone \in SUBSET live, NEW skipped,
           CommitVersion(k, gone, skipped)
    PROVE  Typed'
<1>0. PICK root : root = <<k, made[k] + 1>>
  OBVIOUS
<1>1. made[k] \in 0..MaxVersions /\ made[k] < MaxVersions /\ MaxVersions \in Nat
  BY VersionsAssumption DEF Typed, RestTyped, CommitVersion
<1>2. root \in Roots /\ gone \subseteq Roots /\ made[k] + 1 \in 0..MaxVersions
  BY <1>0, <1>1 DEF Roots, Typed, RestTyped
<1>3. PICK C : C = Changes(root, gone)
  OBVIOUS
<1>4. /\ Queue(C, skipped) /\ live' = (live \cup {root}) \ gone
      /\ UNCHANGED <<entries, run, deleted>>
      /\ made' = [made EXCEPT ![k] = made[k] + 1]
  BY <1>0, <1>3 DEF CommitVersion, Changes
<1>5. \A r \in C : r \in Row /\ r.seq <= LastSeq + 2 /\ r.root \in Roots
  BY <1>2, <1>3, ChangesTyped
<1>6. PICK N \in SUBSET C :
          /\ rows' = rows \cup N
          /\ \A v \in drift' : v \in drift \/ \E r \in C : r.root = v
          /\ (faults \in 0..MaxFaults => faults' \in 0..MaxFaults)
  BY <1>4, QueueDoes
<1>7. RunTyped'
  BY <1>4 DEF RunTyped, Typed
<1>8. drift' \subseteq Roots
  BY <1>5, <1>6 DEF Typed, RestTyped
<1>9. RestTyped'
  BY <1>2, <1>4, <1>5, <1>6, <1>8 DEF RestTyped, Typed
<1>10. Bounded'
  BY <1>4, <1>5, <1>6, QueuedBound
<1>11. QED
  BY <1>7, <1>9, <1>10 DEF Typed

LEMMA TypeDelete ==
    ASSUME Typed, NEW v \in live, NEW skipped, DeleteVersion(v, skipped)
    PROVE  Typed'
<1>1. v \in Roots
  BY DEF Typed, RestTyped
<1>2. UNCHANGED <<made, entries, run, deleted>> /\ live' = live \ {v}
  BY DEF DeleteVersion
<1>3. PICK n : n = NewRow(1, v, "remove")
  OBVIOUS
<1>4. n \in Row /\ n.seq = LastSeq + 1 /\ n.root = v /\ LastSeq \in Nat
  BY <1>1, <1>3, NewRowTyped DEF Ops
<1>5. PICK N \in SUBSET {n} :
          /\ rows' = rows \cup N
          /\ \A w \in drift' : w \in drift \/ \E r \in {n} : r.root = w
          /\ (faults \in 0..MaxFaults => faults' \in 0..MaxFaults)
  BY <1>3, QueueDoes DEF DeleteVersion
<1>6. RunTyped'
  BY <1>2 DEF RunTyped, Typed
<1>7. RestTyped'
  BY <1>1, <1>2, <1>4, <1>5 DEF RestTyped, Typed
<1>8. Bounded'
  BY <1>2, <1>4, <1>5, QueuedBound
<1>9. QED
  BY <1>6, <1>7, <1>8 DEF Typed

LEMMA QuietBegin ==
    ASSUME Typed, NEW p \in Runners, NEW regs \in SUBSET rows, Begin(p, regs)
    PROVE  Typed' /\ Quiet
<1>1. UNCHANGED <<made, live, rows, entries, deleted, faults>> /\ drift \subseteq drift'
  BY DEF Begin
<1>2. RunTyped' /\ \A q \in Runners : run'[q].regs \subseteq run[q].regs \cup rows
  BY RunBegin DEF Typed, RestTyped
<1>3. \A v \in drift' : v \in drift \/ \E r \in rows : r.root = v
  BY DEF Begin
<1>4. \A r \in rows : r \in AllRows /\ r.root \in Roots
  BY DEF AllRows, Typed, RestTyped, Row
<1>5. RestTyped'
  BY <1>1, <1>3, <1>4 DEF RestTyped, Typed
<1>6. Derived /\ (DeadDrifts => DeadDrifts')
  BY <1>1, Unchanged
<1>7. AllDerived
  BY <1>2, <1>6, RunsDerived DEF Typed
<1>8. Bounded'
  BY <1>7, BoundStays
<1>9. QED
  BY <1>1, <1>2, <1>3, <1>4, <1>5, <1>6, <1>7, <1>8 DEF Typed, Quiet

LEMMA QuietPrepare ==
    ASSUME Typed, NEW p \in Runners, NEW spent, Prepare(p, spent)
    PROVE  Typed' /\ Quiet
<1> DEFINE dead == {r \in Tried(p, spent) \cap spent : r.tries + 1 >= MaxTries}
<1>1. UNCHANGED <<made, live, entries, deleted>> /\ drift' = drift \cup {d.root : d \in dead}
      /\ rows' = DeadLetter(dead) /\ Fault(spent # {})
  BY DEF Prepare
<1>2. dead \subseteq run[p].regs /\ run[p].regs \subseteq AllRows
  BY DEF Tried, Batch, AllRows
<1>3. RunTyped' /\ \A q \in Runners : run'[q].regs \subseteq run[q].regs \cup rows
  BY RunPrepare DEF Typed
<1>4. rows' \subseteq Row /\ Derived
  BY PrepareRows
<1>5. faults' \in 0..MaxFaults
  BY <1>1, FaultTyped DEF Typed, RestTyped
<1>6. \A d \in dead : d \in AllRows /\ d.root \in Roots
  BY <1>2, RowTyped
<1>7. OneRow /\ DeadDrifts => DeadDrifts'
  <2> SUFFICES ASSUME OneRow, DeadDrifts, NEW r \in rows', r.dead PROVE r.root \in drift'
    BY DEF DeadDrifts
  <2>1. PICK e \in rows : r = IF \E d \in dead : d.seq = e.seq THEN [e EXCEPT !.dead = TRUE] ELSE e
    BY <1>1 DEF DeadLetter
  <2>2. e \in Row /\ e \in AllRows
    BY DEF Typed, RestTyped, AllRows
  <2>3. CASE \E d \in dead : d.seq = e.seq
    <3>1. PICK d \in dead : d.seq = e.seq
      BY <2>3
    <3>2. d.root = e.root
      BY <1>6, <2>2, <3>1 DEF OneRow
    <3>3. r.root = e.root
      BY <2>1, <2>2, <2>3 DEF Row
    <3>4. QED
      BY <1>1, <3>1, <3>2, <3>3
  <2>4. CASE ~\E d \in dead : d.seq = e.seq
    BY <1>1, <2>1, <2>4 DEF DeadDrifts
  <2>5. QED
    BY <2>3, <2>4
<1> HIDE DEF dead
<1>8. RestTyped'
  BY <1>1, <1>4, <1>5, <1>6 DEF RestTyped, Typed
<1>9. AllDerived
  BY <1>3, <1>4, RunsDerived DEF Typed
<1>10. Bounded'
  BY <1>9, BoundStays
<1>11. QED
  BY <1>1, <1>3, <1>4, <1>6, <1>7, <1>8, <1>9, <1>10 DEF Typed, Quiet

LEMMA QuietSend ==
    ASSUME Typed, NEW p \in Runners, NEW taken, NEW landed, Send(p, taken, landed)
    PROVE  Typed' /\ Quiet
<1>1. UNCHANGED <<made, live, rows, drift, deleted>> /\ Fault(landed # run[p].sent)
      /\ taken \subseteq run[p].sent
  BY DEF Send
<1>2. \A v \in entries' : v \in entries \/ \E r \in taken : r.root = v
  BY DEF Send, Kept
<1>3. \A r \in taken : r \in AllRows /\ r.root \in Roots
  <2>1. run[p].sent \subseteq AllRows
    BY DEF Typed, RunTyped, AllRows
  <2>2. QED
    BY <1>1, <2>1, RowTyped
<1>4. RunTyped' /\ \A q \in Runners : run'[q].regs \subseteq run[q].regs \cup rows
  BY RunSend DEF Typed
<1>5. faults' \in 0..MaxFaults
  BY <1>1, FaultTyped DEF Typed, RestTyped
<1>6. RestTyped'
  BY <1>1, <1>2, <1>3, <1>5 DEF RestTyped, Typed
<1>7. Derived /\ (DeadDrifts => DeadDrifts')
  BY <1>1, Unchanged
<1>8. AllDerived
  BY <1>4, <1>7, RunsDerived DEF Typed
<1>9. Bounded'
  BY <1>8, BoundStays
<1>10. QED
  BY <1>1, <1>2, <1>3, <1>4, <1>6, <1>7, <1>8, <1>9 DEF Typed, Quiet

LEMMA QuietSettle ==
    ASSUME Typed, NEW p \in Runners, Settle(p)
    PROVE  Typed' /\ Quiet
<1>1. UNCHANGED <<made, live, entries, drift, deleted, faults>>
  BY DEF Settle
<1>2. RunTyped' /\ \A q \in Runners : run'[q].regs \subseteq run[q].regs \cup rows
  BY RunSettle DEF Typed
<1>3. rows' \subseteq Row /\ Derived /\ \A r \in rows' : \E e \in rows : Same(r, e) /\ r.dead = e.dead
  BY SettleRows
<1>4. DeadDrifts => DeadDrifts'
  BY <1>1, <1>3 DEF DeadDrifts, Same
<1>5. RestTyped'
  BY <1>1, <1>3 DEF RestTyped, Typed
<1>6. AllDerived
  BY <1>2, <1>3, RunsDerived DEF Typed
<1>7. Bounded'
  BY <1>6, BoundStays
<1>8. QED
  BY <1>1, <1>2, <1>3, <1>4, <1>5, <1>6, <1>7 DEF Typed, Quiet

LEMMA QuietElapse ==
    ASSUME Typed, NEW x \in rows, Elapse(x)
    PROVE  Typed' /\ Quiet
<1>1. UNCHANGED <<made, live, entries, drift, run, deleted, faults>>
  BY DEF Elapse
<1>2. RunTyped' /\ \A q \in Runners : run'[q].regs \subseteq run[q].regs \cup rows
  BY <1>1 DEF Typed, RunTyped
<1>3. rows' \subseteq Row /\ Derived /\ \A r \in rows' : \E e \in rows : Same(r, e) /\ r.dead = e.dead
  BY ElapseRows
<1>4. DeadDrifts => DeadDrifts'
  BY <1>1, <1>3 DEF DeadDrifts, Same
<1>5. RestTyped'
  BY <1>1, <1>3 DEF RestTyped, Typed
<1>6. AllDerived
  BY <1>2, <1>3, RunsDerived DEF Typed
<1>7. Bounded'
  BY <1>6, BoundStays
<1>8. QED
  BY <1>1, <1>2, <1>3, <1>4, <1>5, <1>6, <1>7 DEF Typed, Quiet

\* A run that ends or dies; the end of a drain may take the rows with it.
LEMMA QuietEnd ==
    ASSUME Typed, NEW p \in Runners, run' = [run EXCEPT ![p] = Rest],
           UNCHANGED <<made, live, entries>>, deleted' \in BOOLEAN, faults' \in 0..MaxFaults,
           \/ UNCHANGED <<rows, drift>>
           \/ rows' = {} /\ drift' = drift \cup {r.root : r \in rows}
    PROVE  Typed' /\ Quiet
<1>1. RunTyped' /\ \A q \in Runners : run'[q].regs \subseteq run[q].regs \cup rows
  BY Rested DEF Typed
<1>2. \A v \in drift' : v \in drift \/ \E r \in rows : r.root = v
  OBVIOUS
<1>3. \A r \in rows : r \in AllRows /\ r \in Row /\ r.root \in Roots
  BY DEF AllRows, Typed, RestTyped, Row
<1>4. Derived /\ (DeadDrifts => DeadDrifts')
  BY DEF Derived, Same, DeadDrifts
<1>5. RestTyped'
  BY <1>2, <1>3 DEF RestTyped, Typed
<1>6. AllDerived
  BY <1>1, <1>4, RunsDerived DEF Typed
<1>7. Bounded'
  BY <1>6, BoundStays
<1>8. QED
  BY <1>1, <1>2, <1>3, <1>4, <1>5, <1>6, <1>7 DEF Typed, Quiet

LEMMA EndQuiet ==
    ASSUME Typed, SweepEnd \/ DrainEnd \/ \E p \in Runners : Die(p)
    PROVE  /\ Typed' /\ Quiet
           /\ \E p \in Runners : run' = [run EXCEPT ![p] = Rest]
           /\ UNCHANGED <<made, live, entries>>
           /\ \/ UNCHANGED <<rows, drift>>
              \/ rows' = {} /\ drift' = drift \cup {r.root : r \in rows}
<1>0. deleted \in BOOLEAN /\ faults \in 0..MaxFaults
  BY DEF Typed, RestTyped
<1>1. PICK p \in Runners : run' = [run EXCEPT ![p] = Rest]
  BY DEF SweepEnd, DrainEnd, Die, Runners
<1>2. UNCHANGED <<made, live, entries>> /\ deleted' \in BOOLEAN
  BY <1>0 DEF SweepEnd, DrainEnd, Die
<1>3. faults' \in 0..MaxFaults
  <2>1. CASE SweepEnd \/ DrainEnd
    BY <1>0, <2>1 DEF SweepEnd, DrainEnd
  <2>2. CASE \E q \in Runners : Die(q)
    <3>1. Fault(TRUE)
      BY <2>2 DEF Die
    <3>2. QED
      BY <1>0, <3>1, FaultTyped
  <2>3. QED
    BY <2>1, <2>2
<1>4. \/ UNCHANGED <<rows, drift>>
      \/ rows' = {} /\ drift' = drift \cup {r.root : r \in rows}
  BY DEF SweepEnd, DrainEnd, Die
<1>5. Typed' /\ Quiet
  BY <1>1, <1>2, <1>3, <1>4, QuietEnd
<1>6. QED
  BY <1>1, <1>2, <1>4, <1>5

Commits ==
    \/ \E k \in Keys : \E gone \in SUBSET live : \E skipped \in SUBSET Roots :
           CommitVersion(k, gone, skipped)
    \/ \E v \in live : \E skipped \in SUBSET {v} : DeleteVersion(v, skipped)
Begins == \E p \in Runners : \E regs \in SUBSET rows : Begin(p, regs)

LEMMA BeginsWith ==
    ASSUME SweepBegin \/ DrainBegin
    PROVE  Begins
BY DEF SweepBegin, DrainBegin, Begins, Due, Owed, Runners

LEMMA TypeStep ==
    ASSUME Typed, Next
    PROVE  Typed' /\ (Commits \/ Quiet)
<1>1. CASE Commits
  <2>1. Typed'
    BY <1>1, TypeCommit, TypeDelete DEF Commits
  <2>2. QED
    BY <1>1, <2>1
<1>2. CASE Begins
  BY <1>2, QuietBegin DEF Begins
<1>3. CASE SweepEnd \/ DrainEnd \/ \E p \in Runners : Die(p)
  BY <1>3, EndQuiet
<1>4. ASSUME NEW p \in Runners, NEW spent, Prepare(p, spent) PROVE Typed' /\ Quiet
  BY <1>4, QuietPrepare
<1>5. ASSUME NEW p \in Runners, NEW taken, NEW landed, Send(p, taken, landed)
      PROVE  Typed' /\ Quiet
  BY <1>5, QuietSend
<1>6. ASSUME NEW p \in Runners, Settle(p) PROVE Typed' /\ Quiet
  BY <1>6, QuietSettle
<1>7. ASSUME NEW r \in rows, Elapse(r) PROVE Typed' /\ Quiet
  BY <1>7, QuietElapse
<1>8. QED
  BY <1>1, <1>2, <1>3, <1>4, <1>5, <1>6, <1>7, BeginsWith DEF Next, Runner, Commits

LEMMA TypeInit ==
    ASSUME Init
    PROVE  Typed
<1>1. run \in [Runners -> Run] /\ (\A p \in Runners : run[p] = Rest)
  BY RestIsRun DEF Init
<1>2. RunTyped
  BY <1>1, RestIsRun DEF RunTyped
<1>3. RestTyped
  <2>1. 0 \in 0..MaxVersions /\ 0 \in 0..MaxFaults
    BY VersionsAssumption, FaultsAssumption
  <2>2. made \in [Keys -> 0..MaxVersions] /\ faults \in 0..MaxFaults
    BY <2>1 DEF Init
  <2>3. QED
    BY <2>2 DEF Init, RestTyped
<1>4. AllRows = {}
  BY <1>1, RestIsRun DEF Init, AllRows
<1>5. Bounded
  BY <1>4 DEF Bounded
<1>6. QED
  BY <1>2, <1>3, <1>5 DEF Typed

LEMMA TypeStutter ==
    ASSUME Typed, UNCHANGED vars
    PROVE  Typed'
BY DEF vars, Typed, RunTyped, RestTyped, Bounded, AllRows

LEMMA TypedImplies ==
    ASSUME Typed
    PROVE  TypeOK
BY DEF Typed, RunTyped, RestTyped, Run, RunSteps, TypeOK

\* Types hold in every reachable state, whatever the keys and the bounds: what a
\* run sends, lands and defers is always among the rows it has read
\* (uploadsweep.go applyRegistrations), and a failed try never carries a row past
\* the dead-letter limit.
THEOREM TypesHold == Spec => []TypeOK
<1>1. Init => Typed
  BY TypeInit
<1>2. Typed /\ [Next]_vars => Typed'
  BY TypeStep, TypeStutter
<1>3. Typed => TypeOK
  BY TypedImplies
<1>4. QED
  BY <1>1, <1>2, <1>3, PTL DEF Spec

-----------------------------------------------------------------------------
(* The queue. *)

LEMMA QueueQuiet ==
    ASSUME Typed, QueueInv, Quiet
    PROVE  QueueInv'
<1>1. \A v : Born(v)' <=> Born(v)
  BY DEF Quiet, Born
<1>2. \A r \in AllRows : Born(r.root)
  BY DEF QueueInv, BornInv
<1>3. \A r \in AllRows' : Born(r.root)
  BY <1>2 DEF Quiet, AllDerived, Same
<1>4. \A v \in live' \cup entries' \cup drift' : Born(v)
  BY <1>2 DEF Quiet, QueueInv, BornInv
<1>5. BornInv'
  BY <1>1, <1>3, <1>4 DEF BornInv
<1>6. OneRow'
  <2> SUFFICES ASSUME NEW r \in AllRows', NEW e \in AllRows', r.seq = e.seq
               PROVE  r.root = e.root /\ r.op = e.op
    BY DEF OneRow
  <2>1. PICK r0 \in AllRows : Same(r, r0)
    BY DEF Quiet, AllDerived
  <2>2. PICK e0 \in AllRows : Same(e, e0)
    BY DEF Quiet, AllDerived
  <2>3. QED
    BY <2>1, <2>2 DEF QueueInv, OneRow, Same
<1>7. Retracted'
  BY DEF Quiet, AllDerived, Same, QueueInv, Retracted
<1>8. InOrder'
  <2> SUFFICES ASSUME NEW r \in rows', NEW e \in rows', r.op = "add", e.op = "remove", r.root = e.root
               PROVE  r.seq < e.seq
    BY DEF InOrder
  <2>1. PICK r0 \in rows : Same(r, r0)
    BY DEF Quiet, Derived
  <2>2. PICK e0 \in rows : Same(e, e0)
    BY DEF Quiet, Derived
  <2>3. r0.seq < e0.seq
    BY <2>1, <2>2 DEF QueueInv, InOrder, Same
  <2>4. QED
    BY <2>1, <2>2, <2>3 DEF Same
<1>9. DeadDrifts'
  BY DEF Quiet, QueueInv
<1>10. QED
  BY <1>5, <1>6, <1>7, <1>8, <1>9 DEF QueueInv

LEMMA QueueQueued ==
    ASSUME Typed, QueueInv, NEW N, Queued(N), live' \subseteq Roots
    PROVE  QueueInv'
<1>1. AllRows' = AllRows \cup N /\ rows' = rows \cup N
  BY DEF Queued, AllRows
<1>2. \A r \in AllRows : r.root \in Roots /\ r.seq \in Nat
  BY RowTyped
<1>3. \A r \in N : r \in Row /\ r.seq \in Nat /\ r.op \in Ops /\ r.root \in Roots
  BY DEF Queued, Row
<1>4. \A r \in AllRows' : Born(r.root)'
  BY <1>1, <1>2 DEF Queued, QueueInv, BornInv
<1>5. \A v \in live' \cup entries' \cup drift' : Born(v)'
  <2> SUFFICES ASSUME NEW v \in live' \cup entries' \cup drift' PROVE Born(v)'
    OBVIOUS
  <2>1. CASE v \in live \cup entries \cup drift
    BY <2>1 DEF Queued, QueueInv, BornInv, Typed, RestTyped
  <2>2. CASE v \notin live \cup entries \cup drift
    BY <2>2 DEF Queued
  <2>3. QED
    BY <2>1, <2>2
<1>6. BornInv'
  BY <1>4, <1>5 DEF BornInv
<1>7. \A r \in N : \A e \in AllRows : e.seq # r.seq /\ e.seq < r.seq /\ ~(r.seq < e.seq)
  <2> SUFFICES ASSUME NEW r \in N, NEW e \in AllRows
               PROVE  e.seq # r.seq /\ e.seq < r.seq /\ ~(r.seq < e.seq)
    OBVIOUS
  <2>1. e.seq < r.seq
    BY DEF Queued
  <2>2. QED
    BY <1>2, <1>3, <2>1
<1>8. OneRow'
  <2> SUFFICES ASSUME NEW r \in AllRows \cup N, NEW e \in AllRows \cup N, r.seq = e.seq
               PROVE  r.root = e.root /\ r.op = e.op
    BY <1>1 DEF OneRow
  <2>1. (r \in AllRows /\ e \in AllRows) \/ (r \in N /\ e \in N)
    BY <1>7
  <2>2. QED
    BY <2>1 DEF QueueInv, OneRow, Queued
<1>9. \A v \in live' \ live : ~Born(v)
  BY DEF Queued
<1>10. Retracted'
  <2> SUFFICES ASSUME NEW r \in AllRows \cup N, r.op = "remove" PROVE r.root \notin live'
    BY <1>1 DEF Retracted
  <2>1. CASE r \in N
    BY <2>1 DEF Queued
  <2>2. CASE r \in AllRows
    BY <1>9, <2>2 DEF QueueInv, Retracted, BornInv
  <2>3. QED
    BY <2>1, <2>2
<1>11. InOrder'
  <2> SUFFICES ASSUME NEW r \in rows \cup N, NEW e \in rows \cup N, r.op = "add", e.op = "remove",
                      r.root = e.root
               PROVE  r.seq < e.seq
    BY <1>1 DEF InOrder
  <2>1. rows \subseteq AllRows
    BY DEF AllRows
  <2>2. CASE r \in rows /\ e \in rows
    BY <2>2 DEF QueueInv, InOrder
  <2>3. CASE r \in rows /\ e \in N
    BY <1>7, <2>1, <2>3
  <2>4. CASE r \in N /\ e \in rows
    BY <2>1, <2>4 DEF Queued, QueueInv, BornInv
  <2>5. CASE r \in N /\ e \in N
    BY <2>5 DEF Queued
  <2>6. QED
    BY <2>2, <2>3, <2>4, <2>5
<1>12. DeadDrifts'
  BY <1>1 DEF DeadDrifts, Queued, QueueInv
<1>13. QED
  BY <1>6, <1>8, <1>10, <1>11, <1>12 DEF QueueInv

LEMMA CommitsQueue ==
    ASSUME Typed, QueueInv, Commits
    PROVE  \E N : Queued(N)
BY CommitQueues, DeleteQueues DEF Commits

LEMMA QueueStep ==
    ASSUME Typed, QueueInv, Next
    PROVE  QueueInv'
<1>1. Typed' /\ (Commits \/ Quiet)
  BY TypeStep
<1>2. CASE Quiet
  BY <1>2, QueueQuiet
<1>3. CASE Commits
  <2>1. PICK N : Queued(N)
    BY <1>3, CommitsQueue
  <2>2. live' \subseteq Roots
    BY <1>1 DEF Typed, RestTyped
  <2>3. QED
    BY <2>1, <2>2, QueueQueued
<1>4. QED
  BY <1>1, <1>2, <1>3

-----------------------------------------------------------------------------
(* The count. *)

\* What each version waits for, as the rows move.
LEMMA RowsMove ==
    ASSUME Derived
    PROVE  \A v : (HasAdd(v)' => HasAdd(v)) /\ (HasRemove(v)' => HasRemove(v))
BY DEF Derived, Same, HasAdd, HasRemove

LEMMA RowsStay ==
    ASSUME Stays({})
    PROVE  \A v : (HasAdd(v) => HasAdd(v)') /\ (HasRemove(v) => HasRemove(v)')
BY DEF Stays, Same, HasAdd, HasRemove

\* A run at rest owes nothing.
LEMMA RestOwes ==
    ASSUME NEW p \in Runners, run'[p] = Rest
    PROVE  SentAt(p)' /\ HoldAt(p)' /\ run'[p].at \notin {"add", "send adds"}
BY RestIsRun DEF SentAt, HoldAt

\* Rows with a number in common are of one version.
LEMMA SameRow ==
    ASSUME Typed, QueueInv, NEW r \in AllRows, NEW e \in AllRows, r.seq = e.seq
    PROVE  r.root = e.root /\ r.op = e.op /\ KeyOf(r) = KeyOf(e)
BY DEF QueueInv, OneRow, KeyOf

LEMMA RunRows ==
    ASSUME Typed, NEW p \in Runners
    PROVE  /\ run[p].regs \subseteq AllRows /\ rows \subseteq AllRows
           /\ run[p].sent \subseteq run[p].regs /\ run[p].landed \subseteq run[p].regs
BY DEF Typed, RunTyped, AllRows

\* The other run's part stands through a step of p that touches only what p
\* has in hand.
LEMMA OtherKept ==
    ASSUME Typed, QueueInv, SettleInv, NEW p \in Runners, NEW q \in Runners \ {p},
           run'[q] = run[q], drift \subseteq drift', Derived,
           \A v : v \in entries' \/ v \in entries =>
               (v \in entries' /\ v \in entries) \/ \E r \in run[p].regs : r.root = v
    PROVE  SentAt(q)' /\ HoldAt(q)'
<1>1. SentAt(q) /\ HoldAt(q) /\ Apart
  BY DEF SettleInv, SentInv, HoldInv
<1>2. \A r \in run[q].regs : r.root \in drift' \/ (r.root \in entries' <=> r.root \in entries)
  BY <1>1 DEF Apart
<1>3. \A v : HasAdd(v)' => HasAdd(v)
  BY RowsMove
<1>4. run[q].sent \subseteq run[q].regs /\ run[q].landed \subseteq run[q].regs
  BY RunRows
<1>5. SentAt(q)'
  BY <1>1, <1>2, <1>3, <1>4 DEF SentAt
<1>6. HoldAt(q)'
  <2> SUFFICES ASSUME NEW e \in run[q].regs, NEW r \in rows', e.op = "remove",
                      r.op = "add", r.root = e.root, r.root \notin drift'
               PROVE  Waits(run[q], r)
    BY ZenonT(60) DEF HoldAt, Waits
  <2>1. PICK a \in rows : Same(r, a)
    BY DEF Derived
  <2>2. Waits(run[q], a)
    BY <1>1, <2>1 DEF HoldAt, Same
  <2>3. QED
    BY <2>1, <2>2 DEF Waits, In, KeyOf, Same
<1>7. QED
  BY <1>5, <1>6

\* Runs that take nothing new in hand keep apart.
LEMMA ApartKept ==
    ASSUME SettleInv, \A q \in Runners : run'[q].regs \subseteq run[q].regs, drift \subseteq drift'
    PROVE  Apart'
BY DEF SettleInv, Apart

LEMMA SettleQueued ==
    ASSUME Typed, QueueInv, SettleInv, NEW N, Queued(N)
    PROVE  SettleInv'
<1>1. rows' = rows \cup N /\ entries' = entries /\ run' = run /\ drift \subseteq drift'
  BY DEF Queued
<1>2. \A v : HasAdd(v)' => HasAdd(v) \/ (~Born(v) /\ v \in live')
  BY DEF HasAdd, Queued
<1>3. \A v : (HasAdd(v) => HasAdd(v)') /\ (HasRemove(v) => HasRemove(v)')
  BY <1>1 DEF HasAdd, HasRemove
<1>4. Apart'
  BY <1>1, ApartKept
<1>5. LiveCounted'
  <2> SUFFICES ASSUME NEW v \in live' \ drift' PROVE HasAdd(v)' \/ v \in entries'
    BY DEF LiveCounted
  <2>1. CASE v \in live
    BY <1>1, <1>3, <2>1 DEF SettleInv, LiveCounted
  <2>2. CASE v \notin live
    BY <2>2 DEF Queued, HasAdd
  <2>3. QED
    BY <2>1, <2>2
<1>6. GoneUncounted'
  <2> SUFFICES ASSUME NEW v \in Roots \ (live' \cup drift'), ~HasRemove(v)'
               PROVE  /\ v \notin entries' /\ ~HasAdd(v)'
                      /\ \A p \in Runners : run'[p].at \in {"add", "send adds"} =>
                             \A r \in run'[p].regs : r.op = "add" => r.root # v
    BY DEF GoneUncounted
  <2>1. v \notin live
    BY DEF Queued, HasRemove
  <2>2. v \in Roots \ (live \cup drift) /\ ~HasRemove(v)
    BY <1>1, <1>3, <2>1
  <2>3. QED
    BY <1>1, <1>2, <2>2 DEF SettleInv, GoneUncounted
<1>7. \A p \in Runners : \A r \in run[p].regs : Born(r.root)
  BY RunRows DEF QueueInv, BornInv
<1>8. SentInv'
  <2> SUFFICES ASSUME NEW p \in Runners PROVE SentAt(p)'
    BY DEF SentInv
  <2>1. SentAt(p)
    BY DEF SettleInv, SentInv
  <2>2. \A r \in run[p].sent \cup run[p].landed : HasAdd(r.root)' => HasAdd(r.root)
    BY <1>2, <1>7, RunRows
  <2>3. QED
    BY <1>1, <2>1, <2>2 DEF SentAt
<1>9. HoldInv'
  <2> SUFFICES ASSUME NEW p \in Runners, NEW e \in run[p].regs, NEW r \in rows \cup N,
                      e.op = "remove", r.op = "add", r.root = e.root, r.root \notin drift'
               PROVE  Waits(run[p], r)
    BY ZenonT(60), <1>1 DEF HoldInv, HoldAt, Waits
  <2>1. r \in rows
    BY <1>7 DEF Queued
  <2>2. QED
    BY <1>1, <2>1 DEF SettleInv, HoldInv, HoldAt
<1>10. QED
  BY <1>4, <1>5, <1>6, <1>8, <1>9 DEF SettleInv

\* A run that begins with a retraction has its addition too.
Whole(regs) ==
    \A e \in regs : \A r \in rows :
        e.op = "remove" /\ r.op = "add" /\ r.root = e.root /\ r.root \notin drift => r \in regs

LEMMA DueWhole ==
    ASSUME Typed, QueueInv
    PROVE  Whole(Due) /\ Whole(Owed)
<1> SUFFICES ASSUME NEW e \in rows, NEW r \in rows, e.op = "remove", r.op = "add",
                    r.root = e.root, r.root \notin drift
             PROVE  (e \in Due => r \in Due) /\ r \in Owed
  BY DEF Whole, Due, Owed
<1>1. r.seq < e.seq /\ KeyOf(r) = KeyOf(e) /\ ~r.dead
  BY DEF QueueInv, InOrder, DeadDrifts, KeyOf
<1>2. r \in Owed
  BY <1>1 DEF Owed
<1>3. ASSUME e \in Due PROVE r \in Due
  <2>1. ~r.wait
    BY <1>1, <1>3 DEF Due
  <2>2. \A f \in rows : KeyOf(f) = KeyOf(r) /\ f.seq < r.seq => KeyOf(f) = KeyOf(e) /\ f.seq < e.seq
    <3> SUFFICES ASSUME NEW f \in rows, KeyOf(f) = KeyOf(r), f.seq < r.seq
                 PROVE  KeyOf(f) = KeyOf(e) /\ f.seq < e.seq
      OBVIOUS
    <3>1. f.seq \in Nat /\ r.seq \in Nat /\ e.seq \in Nat
      BY RowTyped DEF AllRows
    <3>2. QED
      BY <1>1, <3>1
  <2>3. QED
    BY <1>1, <1>3, <2>1, <2>2 DEF Due
<1>4. QED
  BY <1>2, <1>3

LEMMA SettleBegin ==
    ASSUME Typed, QueueInv, SettleInv, NEW p \in Runners, NEW regs \in SUBSET rows, Begin(p, regs),
           Whole(regs)
    PROVE  SettleInv'
<1>1. UNCHANGED <<made, live, rows, entries>> /\ drift \subseteq drift'
  BY DEF Begin
<1>2. /\ run'[p].at = "add" /\ run'[p].regs = regs
      /\ run'[p].sent = {} /\ run'[p].landed = {}
      /\ \A q \in Runners \ {p} : run'[q] = run[q]
  BY RunBegin DEF Typed, RestTyped
<1>3. Apart'
  <2>1. \A q \in Runners : \A r \in regs : \A e \in run[q].regs :
            r.root = e.root => r.root \in drift'
    BY DEF Begin, InHand
  <2>2. QED
    BY <1>1, <1>2, <2>1 DEF Apart, SettleInv
<1>4. \A v : (HasAdd(v)' <=> HasAdd(v)) /\ (HasRemove(v)' <=> HasRemove(v))
  BY <1>1 DEF HasAdd, HasRemove
<1>5. LiveCounted'
  BY <1>1, <1>4 DEF LiveCounted, SettleInv
<1>6. GoneUncounted'
  <2> SUFFICES ASSUME NEW v \in Roots \ (live \cup drift'), ~HasRemove(v)
               PROVE  /\ v \notin entries /\ ~HasAdd(v)
                      /\ \A q \in Runners : run'[q].at \in {"add", "send adds"} =>
                             \A r \in run'[q].regs : r.op = "add" => r.root # v
    BY <1>1, <1>4 DEF GoneUncounted
  <2>1. /\ v \notin entries /\ ~HasAdd(v)
        /\ \A q \in Runners : run[q].at \in {"add", "send adds"} =>
               \A r \in run[q].regs : r.op = "add" => r.root # v
    BY <1>1 DEF SettleInv, GoneUncounted
  <2>2. \A r \in regs : r.op = "add" => r.root # v
    BY <2>1 DEF HasAdd
  <2>3. QED
    BY <1>2, <2>1, <2>2
<1>7. SentAt(p)'
  BY <1>2 DEF SentAt
<1>8. HoldAt(p)'
  <2> SUFFICES ASSUME NEW e \in regs, NEW r \in rows, e.op = "remove", r.op = "add",
                      r.root = e.root, r.root \notin drift
               PROVE  Waits(run[p], r)'
    BY <1>1, <1>2 DEF HoldAt
  <2>1. r \in regs
    BY DEF Whole
  <2>2. QED
    BY <1>2, <2>1 DEF Waits, In
<1>9. Derived
  BY <1>1, Unchanged
<1>10. SentInv' /\ HoldInv'
  <2>1. \A q \in Runners \ {p} : SentAt(q)' /\ HoldAt(q)'
    BY <1>1, <1>2, <1>9, OtherKept
  <2>2. QED
    BY <1>7, <1>8, <2>1 DEF SentInv, HoldInv
<1>11. QED
  BY <1>3, <1>5, <1>6, <1>10 DEF SettleInv

LEMMA SettlePrepare ==
    ASSUME Typed, QueueInv, SettleInv, NEW p \in Runners, NEW spent, Prepare(p, spent)
    PROVE  SettleInv'
<1>1. UNCHANGED <<made, live, entries>> /\ drift \subseteq drift' /\ run[p].at \in Ops
  BY DEF Prepare
<1>2. /\ run'[p].at = IF run[p].at = "add" THEN "send adds" ELSE "send removes"
      /\ run'[p].regs = run[p].regs /\ run'[p].sent = Authorized(p, spent)
      /\ run'[p].landed = run[p].landed
      /\ run'[p].held = run[p].held \cup {KeyOf(r) : r \in Batch(p) \ Authorized(p, spent)}
      /\ \A q \in Runners \ {p} : run'[q] = run[q]
  BY RunPrepare DEF Typed
<1>5. Derived /\ Stays({})
  BY PrepareRows
<1>6. \A v : (HasAdd(v)' <=> HasAdd(v)) /\ (HasRemove(v)' <=> HasRemove(v))
  BY <1>5, RowsMove, RowsStay
<1>7. Apart'
  BY <1>1, <1>2, ApartKept
<1>8. LiveCounted'
  BY <1>1, <1>6 DEF LiveCounted, SettleInv
<1>9. GoneUncounted'
  <2> SUFFICES ASSUME NEW v \in Roots \ (live \cup drift'), ~HasRemove(v)
               PROVE  /\ v \notin entries /\ ~HasAdd(v)
                      /\ \A q \in Runners : run'[q].at \in {"add", "send adds"} =>
                             \A r \in run'[q].regs : r.op = "add" => r.root # v
    BY <1>1, <1>6 DEF GoneUncounted
  <2>1. v \in Roots \ (live \cup drift)
    BY <1>1
  <2>2. /\ v \notin entries /\ ~HasAdd(v)
        /\ \A q \in Runners : run[q].at \in {"add", "send adds"} =>
               \A r \in run[q].regs : r.op = "add" => r.root # v
    BY <2>1 DEF SettleInv, GoneUncounted
  <2>3. run'[p].at \in {"add", "send adds"} => run[p].at = "add"
    BY <1>1, <1>2 DEF Ops
  <2>4. QED
    BY <1>2, <2>2, <2>3
<1>10. \A r \in Authorized(p, spent) :
         r \in run[p].regs /\ r.op = run[p].at /\ KeyOf(r) \notin run[p].held
  BY DEF Authorized, Tried, Batch
<1>11. run[p].landed = {}
  BY <1>1 DEF Ops, SettleInv, SentInv, SentAt
<1>12. SentAt(p)'
  <2>1. CASE run[p].at = "add"
    BY <1>2, <1>10, <1>11, <2>1 DEF SentAt
  <2>2. CASE run[p].at = "remove"
    <3>1. \A r \in Authorized(p, spent) : r.op = "remove" /\ (HasAdd(r.root)' => r.root \in drift')
      <4> SUFFICES ASSUME NEW r \in Authorized(p, spent), HasAdd(r.root), r.root \notin drift
                   PROVE  FALSE
        BY <1>1, <1>6, <1>10, <2>2
      <4>1. PICK a \in rows : a.root = r.root /\ a.op = "add"
        BY DEF HasAdd
      <4>2. Waits(run[p], a)
        BY <1>10, <2>2, <4>1 DEF SettleInv, HoldInv, HoldAt
      <4>3. KeyOf(a) \in run[p].held /\ KeyOf(a) = KeyOf(r)
        BY <2>2, <4>1, <4>2 DEF Waits, KeyOf
      <4>4. QED
        BY <1>10, <4>3
    <3>2. /\ run'[p].at = "send removes" /\ run'[p].landed = {}
          /\ run'[p].sent = Authorized(p, spent)
      BY <1>2, <1>11, <2>2
    <3>3. QED
      BY <3>1, <3>2 DEF SentAt
  <2>3. QED
    BY <1>1, <2>1, <2>2 DEF Ops
<1>13. HoldAt(p)'
  <2>1. CASE run[p].at = "remove"
    BY <1>2, <2>1 DEF HoldAt, Waits
  <2>2. CASE run[p].at = "add"
    <3> SUFFICES ASSUME NEW e \in run[p].regs, NEW r \in rows', e.op = "remove", r.op = "add",
                        r.root = e.root, r.root \notin drift'
                 PROVE  In(r, run'[p].sent) \/ KeyOf(r) \in run'[p].held
      BY <1>2, <2>2 DEF HoldAt, Waits, In
    <3>1. PICK a \in rows : Same(r, a)
      BY <1>5 DEF Derived
    <3>2. Waits(run[p], a)
      BY <1>1, <3>1 DEF SettleInv, HoldInv, HoldAt, Same
    <3>3. PICK b \in run[p].regs : b.seq = a.seq
      BY <2>2, <3>2 DEF Waits, In
    <3>4. b.op = "add" /\ KeyOf(b) = KeyOf(a)
      BY <3>1, <3>3, SameRow, RunRows DEF Same
    <3>5. b \in Batch(p) /\ KeyOf(r) = KeyOf(a) /\ r.seq = b.seq
      BY <2>2, <3>1, <3>3, <3>4 DEF Batch, KeyOf, Same
    <3>6. CASE b \in Authorized(p, spent)
      BY <1>2, <3>5, <3>6 DEF In
    <3>7. CASE b \notin Authorized(p, spent)
      BY <1>2, <3>4, <3>5, <3>7
    <3>8. QED
      BY <3>6, <3>7
  <2>3. QED
    BY <1>1, <2>1, <2>2 DEF Ops
<1>14. SentInv' /\ HoldInv'
  <2>1. \A q \in Runners \ {p} : SentAt(q)' /\ HoldAt(q)'
    BY <1>1, <1>2, <1>5, OtherKept
  <2>2. QED
    BY <1>12, <1>13, <2>1 DEF SentInv, HoldInv
<1>15. QED
  BY <1>7, <1>8, <1>9, <1>14 DEF SettleInv

LEMMA SettleSend ==
    ASSUME Typed, QueueInv, SettleInv, NEW p \in Runners, NEW taken, NEW landed, Send(p, taken, landed)
    PROVE  SettleInv'
<1>1. /\ UNCHANGED <<made, live, rows, drift>> /\ run[p].at \in {"send adds", "send removes"}
      /\ taken \subseteq run[p].sent /\ landed \subseteq taken
  BY DEF Send
<1>2. /\ run'[p].at = IF run[p].at = "send adds" THEN "settle adds" ELSE "settle removes"
      /\ run'[p].regs = run[p].regs /\ run'[p].sent = {} /\ run'[p].landed = landed
      /\ run'[p].held = run[p].held \cup {KeyOf(r) : r \in run[p].sent \ landed}
      /\ \A q \in Runners \ {p} : run'[q] = run[q]
  BY ZenonT(60), RunSend DEF Typed
<1>3. Derived
  BY <1>1, Unchanged
<1>5. \A v : (HasAdd(v)' <=> HasAdd(v)) /\ (HasRemove(v)' <=> HasRemove(v))
  BY <1>1 DEF HasAdd, HasRemove
<1>6. run[p].at = "send adds" =>
        /\ entries' = entries \cup {r.root : r \in taken}
        /\ \A r \in run[p].sent : r.op = "add"
  BY DEF Send, Kept, SettleInv, SentInv, SentAt
<1>7. run[p].at = "send removes" =>
        /\ entries' = entries \ {r.root : r \in taken}
        /\ \A r \in run[p].sent : r.op = "remove" /\ (HasAdd(r.root) => r.root \in drift)
  BY DEF Send, Kept, SettleInv, SentInv, SentAt
<1>8. \A r \in run[p].sent : r \in run[p].regs /\ r \in AllRows
  BY RunRows
<1>9. Apart'
  BY <1>1, <1>2, ApartKept
<1>10. LiveCounted'
  <2> SUFFICES ASSUME NEW v \in live \ drift PROVE HasAdd(v) \/ v \in entries'
    BY <1>1, <1>5 DEF LiveCounted
  <2>1. HasAdd(v) \/ v \in entries
    BY DEF SettleInv, LiveCounted
  <2>2. CASE run[p].at = "send adds"
    BY <1>6, <2>1, <2>2
  <2>3. CASE run[p].at = "send removes"
    <3>1. \A r \in taken : r.root \notin live
      BY <1>1, <1>7, <1>8, <2>3 DEF QueueInv, Retracted
    <3>2. QED
      BY <1>7, <2>1, <2>3, <3>1
  <2>4. QED
    BY <1>1, <2>2, <2>3
<1>11. GoneUncounted'
  <2> SUFFICES ASSUME NEW v \in Roots \ (live \cup drift), ~HasRemove(v)
               PROVE  /\ v \notin entries' /\ ~HasAdd(v)
                      /\ \A q \in Runners : run'[q].at \in {"add", "send adds"} =>
                             \A r \in run'[q].regs : r.op = "add" => r.root # v
    BY <1>1, <1>5 DEF GoneUncounted
  <2>1. /\ v \notin entries /\ ~HasAdd(v)
        /\ \A q \in Runners : run[q].at \in {"add", "send adds"} =>
               \A r \in run[q].regs : r.op = "add" => r.root # v
    BY DEF SettleInv, GoneUncounted
  <2>2. v \notin entries'
    BY <1>1, <1>6, <1>7, <1>8, <2>1
  <2>3. run'[p].at \notin {"add", "send adds"}
    BY <1>1, <1>2
  <2>4. QED
    BY <1>2, <2>1, <2>2, <2>3
<1>12. SentAt(p)'
  <2>1. CASE run[p].at = "send adds"
    <3>1. \A r \in landed : r.op = "add" /\ r.root \in entries'
      BY <1>1, <1>6, <2>1
    <3>2. run'[p].at = "settle adds" /\ run'[p].sent = {} /\ run'[p].landed = landed
      BY <1>2, <2>1
    <3>3. QED
      BY <3>1, <3>2 DEF SentAt
  <2>2. CASE run[p].at = "send removes"
    <3>1. \A r \in landed : /\ r.op = "remove" /\ r.root \notin entries'
                            /\ HasAdd(r.root)' => r.root \in drift'
      BY <1>1, <1>5, <1>7, <2>2
    <3>2. run'[p].at = "settle removes" /\ run'[p].sent = {} /\ run'[p].landed = landed
      BY <1>2, <2>2
    <3>3. QED
      BY <3>1, <3>2 DEF SentAt
  <2>3. QED
    BY <1>1, <2>1, <2>2
<1>13. HoldAt(p)'
  <2>1. CASE run[p].at = "send removes"
    BY <1>2, <2>1 DEF HoldAt, Waits
  <2>2. CASE run[p].at = "send adds"
    <3> SUFFICES ASSUME NEW e \in run[p].regs, NEW r \in rows, e.op = "remove", r.op = "add",
                        r.root = e.root, r.root \notin drift
                 PROVE  In(r, run'[p].landed) \/ KeyOf(r) \in run'[p].held
      BY <1>1, <1>2, <2>2 DEF HoldAt, Waits, In
    <3>1. In(r, run[p].sent) \/ KeyOf(r) \in run[p].held
      BY <2>2 DEF SettleInv, HoldInv, HoldAt, Waits
    <3>2. CASE KeyOf(r) \in run[p].held
      BY <1>2, <3>2
    <3>3. CASE In(r, run[p].sent)
      <4>1. PICK b \in run[p].sent : b.seq = r.seq
        BY <3>3 DEF In
      <4>2. KeyOf(b) = KeyOf(r)
        BY <1>8, <4>1, SameRow, RunRows
      <4>3. CASE b \in landed
        BY <1>2, <4>1, <4>3 DEF In
      <4>4. CASE b \notin landed
        BY <1>2, <4>1, <4>2, <4>4
      <4>5. QED
        BY <4>3, <4>4
    <3>4. QED
      BY <3>1, <3>2, <3>3
  <2>3. QED
    BY <1>1, <2>1, <2>2
<1>14. SentInv' /\ HoldInv'
  <2>1. \A v : v \in entries' \/ v \in entries =>
            (v \in entries' /\ v \in entries) \/ \E r \in run[p].regs : r.root = v
    BY <1>1, <1>6, <1>7, <1>8
  <2>2. \A q \in Runners \ {p} : SentAt(q)' /\ HoldAt(q)'
    BY <1>1, <1>2, <1>3, <2>1, OtherKept
  <2>3. QED
    BY <1>12, <1>13, <2>2 DEF SentInv, HoldInv
<1>15. QED
  BY <1>9, <1>10, <1>11, <1>14 DEF SettleInv

LEMMA SettleSettle ==
    ASSUME Typed, QueueInv, SettleInv, NEW p \in Runners, Settle(p)
    PROVE  SettleInv'
<1>1. UNCHANGED <<made, live, entries, drift>> /\ run[p].at \in {"settle adds", "settle removes"}
  BY DEF Settle
<1>2. /\ run'[p].at = IF run[p].at = "settle adds" THEN "remove" ELSE "done"
      /\ run'[p].regs \subseteq run[p].regs /\ run'[p].sent = {} /\ run'[p].landed = {}
      /\ run[p].at = "settle adds" => run'[p].held = run[p].held
      /\ \A q \in Runners \ {p} : run'[q] = run[q]
  BY RunSettle DEF Typed
<1>5. Derived /\ Stays({r.seq : r \in run[p].landed}) /\ \A r \in rows' : ~In(r, run[p].landed)
  BY SettleRows
<1>6. \A v : (HasAdd(v)' => HasAdd(v)) /\ (HasRemove(v)' => HasRemove(v))
  BY <1>5, RowsMove
<1>7. run[p].at = "settle adds" => \A r \in run[p].landed : 
          r.op = "add" /\ (r.root \in entries \/ r.root \in drift)
  BY DEF SettleInv, SentInv, SentAt
<1>8. run[p].at = "settle removes" =>
        \A r \in run[p].landed : /\ r.op = "remove" /\ (r.root \notin entries \/ r.root \in drift)
                                 /\ HasAdd(r.root) => r.root \in drift
  BY DEF SettleInv, SentInv, SentAt
\* A row that is gone is of a change that landed.
<1>9. \A e \in rows : \/ \E r \in rows' : Same(r, e)
                      \/ \E b \in run[p].landed : b.root = e.root /\ b.op = e.op
  <2> SUFFICES ASSUME NEW e \in rows, NEW b \in run[p].landed, b.seq = e.seq
               PROVE  b.root = e.root /\ b.op = e.op
    BY <1>5 DEF Stays
  <2>1. b \in AllRows /\ e \in AllRows
    BY RunRows
  <2>2. QED
    BY <2>1, SameRow
<1>10. Apart'
  BY <1>1, <1>2, ApartKept
<1>11. LiveCounted'
  <2> SUFFICES ASSUME NEW v \in live \ drift, v \notin entries PROVE HasAdd(v)'
    BY <1>1 DEF LiveCounted
  <2>1. PICK e \in rows : e.root = v /\ e.op = "add"
    BY DEF SettleInv, LiveCounted, HasAdd
  <2>2. ~\E b \in run[p].landed : b.root = e.root /\ b.op = e.op
    BY <1>1, <1>7, <1>8, <2>1
  <2>3. QED
    BY <1>9, <2>1, <2>2 DEF HasAdd, Same
<1>12. GoneUncounted'
  <2> SUFFICES ASSUME NEW v \in Roots \ (live \cup drift), ~HasRemove(v)'
               PROVE  /\ v \notin entries /\ ~HasAdd(v)'
                      /\ \A q \in Runners : run'[q].at \in {"add", "send adds"} =>
                             \A r \in run'[q].regs : r.op = "add" => r.root # v
    BY <1>1 DEF GoneUncounted
  <2>1. run'[p].at \notin {"add", "send adds"}
    BY <1>2
  <2>2. CASE ~HasRemove(v)
    BY <1>2, <1>6, <2>1, <2>2 DEF SettleInv, GoneUncounted
  <2>3. CASE HasRemove(v)
    <3>1. PICK e \in rows : e.root = v /\ e.op = "remove"
      BY <2>3 DEF HasRemove
    <3>2. PICK b \in run[p].landed : b.root = v /\ b.op = "remove"
      BY <1>9, <3>1 DEF HasRemove, Same
    <3>3. v \notin entries /\ ~HasAdd(v)
      BY <1>1, <1>7, <1>8, <3>2
    <3>4. \A q \in Runners \ {p} : \A r \in run[q].regs : r.root # v
      <4>1. b \in run[p].regs
        BY <3>2, RunRows
      <4>2. QED
        BY <3>2, <4>1 DEF SettleInv, Apart
    <3>5. QED
      BY <1>2, <1>6, <2>1, <3>3, <3>4
  <2>4. QED
    BY <2>2, <2>3
<1>13. SentAt(p)'
  BY <1>1, <1>2 DEF SentAt
<1>14. HoldAt(p)'
  <2>1. CASE run[p].at = "settle removes"
    BY <1>2, <2>1 DEF HoldAt, Waits
  <2>2. CASE run[p].at = "settle adds"
    <3> SUFFICES ASSUME NEW e \in run[p].regs, NEW r \in rows', e.op = "remove", r.op = "add",
                        r.root = e.root, r.root \notin drift
                 PROVE  KeyOf(r) \in run'[p].held
      BY <1>1, <1>2, <2>2 DEF HoldAt, Waits
    <3>1. PICK a \in rows : Same(r, a)
      BY <1>5 DEF Derived
    <3>2. Waits(run[p], a)
      BY <3>1 DEF SettleInv, HoldInv, HoldAt, Same
    <3>3. ~In(a, run[p].landed) /\ KeyOf(a) = KeyOf(r)
      BY <1>5, <3>1 DEF In, Same, KeyOf
    <3>4. QED
      BY <1>2, <2>2, <3>2, <3>3 DEF Waits
  <2>3. QED
    BY <1>1, <2>1, <2>2
<1>15. SentInv' /\ HoldInv'
  <2>1. \A q \in Runners \ {p} : SentAt(q)' /\ HoldAt(q)'
    BY <1>1, <1>2, <1>5, OtherKept
  <2>2. QED
    BY <1>13, <1>14, <2>1 DEF SentInv, HoldInv
<1>16. QED
  BY <1>10, <1>11, <1>12, <1>15 DEF SettleInv

LEMMA SettleElapse ==
    ASSUME Typed, QueueInv, SettleInv, NEW x \in rows, Elapse(x)
    PROVE  SettleInv'
<1>1. UNCHANGED <<made, live, entries, drift, run>>
  BY DEF Elapse
<1>2. Derived /\ Stays({})
  BY ElapseRows
<1>3. \A v : (HasAdd(v)' <=> HasAdd(v)) /\ (HasRemove(v)' <=> HasRemove(v))
  BY <1>2, RowsMove, RowsStay
<1>4. Apart' /\ LiveCounted' /\ GoneUncounted'
  BY <1>1, <1>3 DEF SettleInv, Apart, LiveCounted, GoneUncounted
<1>5. SentInv'
  BY <1>1, <1>3 DEF SettleInv, SentInv, SentAt
<1>6. HoldInv'
  <2> SUFFICES ASSUME NEW p \in Runners, NEW e \in run[p].regs, NEW r \in rows', e.op = "remove",
                      r.op = "add", r.root = e.root, r.root \notin drift
               PROVE  Waits(run[p], r)
    BY ZenonT(60), <1>1 DEF HoldInv, HoldAt, Waits
  <2>1. PICK a \in rows : Same(r, a)
    BY <1>2 DEF Derived
  <2>2. Waits(run[p], a)
    BY <2>1 DEF SettleInv, HoldInv, HoldAt, Same
  <2>3. QED
    BY <2>1, <2>2 DEF Waits, In, KeyOf, Same
<1>7. QED
  BY <1>4, <1>5, <1>6 DEF SettleInv

LEMMA SettleEnd ==
    ASSUME Typed, QueueInv, SettleInv, NEW p \in Runners, run' = [run EXCEPT ![p] = Rest],
           UNCHANGED <<made, live, entries>>,
           \/ UNCHANGED <<rows, drift>>
           \/ rows' = {} /\ drift' = drift \cup {r.root : r \in rows}
    PROVE  SettleInv'
<1>1. run'[p] = Rest /\ \A q \in Runners \ {p} : run'[q] = run[q]
  BY Rested DEF Typed
<1>2. Apart'
  BY <1>1, RestIsRun DEF SettleInv, Apart
<1>3. /\ drift \subseteq drift' /\ rows' \subseteq rows
      /\ \A v : HasAdd(v)' => HasAdd(v)
      /\ \A v : v \notin drift' => (HasAdd(v) => HasAdd(v)') /\ (HasRemove(v) => HasRemove(v)')
  BY DEF HasAdd, HasRemove
<1>4. LiveCounted'
  BY <1>3 DEF SettleInv, LiveCounted
<1>5. GoneUncounted'
  <2> SUFFICES ASSUME NEW v \in Roots \ (live \cup drift'), ~HasRemove(v)'
               PROVE  /\ v \notin entries /\ ~HasAdd(v)'
                      /\ \A q \in Runners : run'[q].at \in {"add", "send adds"} =>
                             \A r \in run'[q].regs : r.op = "add" => r.root # v
    BY DEF GoneUncounted
  <2>1. v \in Roots \ (live \cup drift) /\ ~HasRemove(v)
    BY <1>3
  <2>2. QED
    BY <1>1, <1>3, <2>1, RestOwes DEF SettleInv, GoneUncounted
<1>6. ASSUME NEW q \in Runners \ {p} PROVE SentAt(q)' /\ HoldAt(q)'
  <2>1. SentAt(q) /\ HoldAt(q) /\ run'[q] = run[q]
    BY <1>1 DEF SettleInv, SentInv, HoldInv
  <2>2. SentAt(q)'
    BY <1>3, <2>1 DEF SentAt
  <2>3. HoldAt(q)'
    BY <1>3, <2>1 DEF HoldAt, Waits
  <2>4. QED
    BY <2>2, <2>3
<1>7. SentInv' /\ HoldInv'
  BY <1>1, <1>6, RestOwes DEF SentInv, HoldInv
<1>8. QED
  BY <1>2, <1>4, <1>5, <1>7 DEF SettleInv

LEMMA SettleStep ==
    ASSUME Typed, QueueInv, SettleInv, Next
    PROVE  SettleInv'
<1>1. CASE Commits
  BY <1>1, CommitsQueue, SettleQueued
<1>2. CASE SweepBegin
  <2>1. Begin("sweep", Due) /\ "sweep" \in Runners
    BY <1>2 DEF SweepBegin, Runners
  <2>2. Due \in SUBSET rows /\ Whole(Due)
    BY DueWhole DEF Due
  <2>3. QED
    BY <2>1, <2>2, SettleBegin
<1>3. CASE DrainBegin
  <2>1. Begin("drain", Owed) /\ "drain" \in Runners
    BY <1>3 DEF DrainBegin, Runners
  <2>2. Owed \in SUBSET rows /\ Whole(Owed)
    BY DueWhole DEF Owed
  <2>3. QED
    BY <2>1, <2>2, SettleBegin
<1>4. CASE SweepEnd \/ DrainEnd \/ \E p \in Runners : Die(p)
  <2>1. /\ \E p \in Runners : run' = [run EXCEPT ![p] = Rest]
        /\ UNCHANGED <<made, live, entries>>
        /\ \/ UNCHANGED <<rows, drift>>
           \/ rows' = {} /\ drift' = drift \cup {r.root : r \in rows}
    BY <1>4, EndQuiet
  <2>2. QED
    BY <2>1, SettleEnd
<1>5. ASSUME NEW p \in Runners, NEW spent, Prepare(p, spent) PROVE SettleInv'
  BY <1>5, SettlePrepare
<1>6. ASSUME NEW p \in Runners, NEW taken, NEW landed, Send(p, taken, landed) PROVE SettleInv'
  BY <1>6, SettleSend
<1>7. ASSUME NEW p \in Runners, Settle(p) PROVE SettleInv'
  BY <1>7, SettleSettle
<1>8. ASSUME NEW r \in rows, Elapse(r) PROVE SettleInv'
  BY <1>8, SettleElapse
<1>9. QED
  BY <1>1, <1>2, <1>3, <1>4, <1>5, <1>6, <1>7, <1>8 DEF Next, Runner, Commits

LEMMA SettleInit ==
    ASSUME Init
    PROVE  QueueInv /\ SettleInv
<1>1. \A p \in Runners : run[p] = Rest
  BY DEF Init
<1>2. AllRows = {}
  BY <1>1, RestIsRun DEF Init, AllRows
<1>3. QueueInv
  BY <1>2 DEF QueueInv, BornInv, OneRow, Retracted, InOrder, DeadDrifts, Init
<1>4. Apart
  BY <1>1, RestIsRun DEF Apart
<1>5. LiveCounted /\ GoneUncounted
  BY <1>1, RestIsRun DEF LiveCounted, GoneUncounted, HasAdd, HasRemove, Init
<1>6. SentInv /\ HoldInv
  BY <1>1, RestIsRun DEF SentInv, SentAt, HoldInv, HoldAt, Init
<1>7. QED
  BY <1>3, <1>4, <1>5, <1>6 DEF SettleInv

LEMMA SettleStutter ==
    ASSUME QueueInv, SettleInv, UNCHANGED vars
    PROVE  QueueInv' /\ SettleInv'
<1>1. UNCHANGED <<made, live, rows, entries, drift, run>>
  BY DEF vars
<1>2. QueueInv'
  BY <1>1 DEF QueueInv, BornInv, Born, OneRow, Retracted, InOrder, DeadDrifts, AllRows
<1>3. Apart' /\ LiveCounted' /\ GoneUncounted'
  BY <1>1 DEF SettleInv, Apart, LiveCounted, GoneUncounted, HasAdd, HasRemove
<1>4. SentInv'
  BY <1>1 DEF SettleInv, SentInv, SentAt, HasAdd
<1>5. HoldInv'
  <2>1. \A p \in Runners : \A r : Waits(run[p], r)' <=> Waits(run[p], r)
    BY <1>1 DEF Waits
  <2>2. QED
    BY <1>1, <2>1 DEF SettleInv, HoldInv, HoldAt
<1>6. QED
  BY <1>2, <1>3, <1>4, <1>5 DEF SettleInv

LEMMA SettledImplies ==
    ASSUME SettleInv
    PROVE  CountSettles
<1> SUFFICES ASSUME NEW v \in Roots \ drift, \A r \in rows : r.root # v
             PROVE  v \in entries <=> v \in live
  BY DEF CountSettles
<1>1. ~HasAdd(v) /\ ~HasRemove(v)
  BY DEF HasAdd, HasRemove
<1>2. QED
  BY <1>1 DEF SettleInv, LiveCounted, GoneUncounted

\* Whatever the keys, the bounds and the faults, and with a sweep beside the
\* drain of a deletion: once a version has no change queued or on its way, the
\* upload service counts it exactly if the catalog has it, unless one of its
\* changes was not queued or was given up, or the two had its changes in hand at
\* once.  Rows of a key replayed in order with additions first, keys held where a
\* change failed, dead letters and deaths between any two steps never let a
\* retraction overtake the addition it retires (uploadsweep.go
\* applyRegistrations, stores_postgres.go ListDueUploadRegistrations).
THEOREM CountsSettle == Spec => []CountSettles
<1> DEFINE SInv == Typed /\ QueueInv /\ SettleInv
<1>1. Init => SInv
  BY TypeInit, SettleInit
<1>2. SInv /\ [Next]_vars => SInv'
  BY TypeStep, TypeStutter, QueueStep, SettleStep, SettleStutter
<1>3. SInv => CountSettles
  BY SettledImplies
<1> HIDE DEF SInv
<1>4. QED
  BY <1>1, <1>2, <1>3, PTL DEF Spec
=============================================================================
