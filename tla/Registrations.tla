---------------------------- MODULE Registrations ----------------------------
(***************************************************************************)
(* The outbox of object-count changes.  Every commit queues, in its own    *)
(* transaction, the registration of the version it creates and the         *)
(* retraction of the ones it discards (version.go enqueueRegistration).    *)
(* The sweeper, and the drain a bucket's deletion runs, replay the rows    *)
(* against the upload service in two batches, additions first              *)
(* (uploadsweep.go).  A batch can be lost, refused in part or taken        *)
(* without an answer; a run can die between any two of its steps.          *)
(***************************************************************************)
EXTENDS Naturals, FiniteSets, FiniteSetsExt

CONSTANTS Keys,        \* object keys of the bucket
          MaxVersions, \* bound: versions of a key
          MaxTries,    \* uploadRegistrationDeadLetterAfter
          MaxFaults    \* bound: failed authorities, lost batches and deaths

ASSUME TriesAssumption == MaxTries \in Nat \ {0}
ASSUME VersionsAssumption == MaxVersions \in Nat
ASSUME FaultsAssumption == MaxFaults \in Nat

VARIABLES
  made,     \* how many versions each key has had
  live,     \* the versions the catalog has
  rows,     \* upload_registrations
  entries,  \* the upload service's content entries (external)
  drift,    \* versions one of whose changes was not queued, was given up, or
            \* was in the hands of two runs at once (history)
  run,      \* the sweep and the drain in progress
  deleted,  \* whether the bucket is gone
  faults    \* how many faults there have been

vars == <<made, live, rows, entries, drift, run, deleted, faults>>

Fault(happens) ==
  /\ happens => faults < MaxFaults
  /\ faults' = IF happens THEN faults + 1 ELSE faults

Runners == {"sweep", "drain"}
Ops     == {"add", "remove"}
Roots   == Keys \X (1..MaxVersions)

Row == [seq : Nat \ {0}, root : Roots, op : Ops,
        tries : 0..MaxTries, wait : BOOLEAN, dead : BOOLEAN]

(* Mutant: rows are ordered by version. *)
KeyByRoot(row) == row.root

(* registrationKey: order is owed within one key. *)
KeyOf(row) == row.root[1]

Rest == [at |-> "rest", regs |-> {}, sent |-> {}, landed |-> {}, deferred |-> {}, held |-> {}]

Init ==
  /\ made = [k \in Keys |-> 0]
  /\ live = {} /\ rows = {} /\ entries = {} /\ drift = {}
  /\ run = [p \in Runners |-> Rest]
  /\ deleted = FALSE /\ faults = 0

-----------------------------------------------------------------------------
(* Commits, under the bucket's lock, which a bucket's deletion holds too. *)

Unlocked == ~deleted /\ run["drain"] = Rest

LastSeq == Max({0} \cup {r.seq : r \in rows} \cup
               {r.seq : r \in UNION {run[p].regs : p \in Runners}})

NewRow(i, root, op) ==
  [seq |-> LastSeq + i, root |-> root, op |-> op, tries |-> 0, wait |-> FALSE, dead |-> FALSE]

(* enqueueRegistration, for each change of a commit: one without authority *)
(* to capture is skipped.                                                  *)
Queue(changes, skipped) ==
  /\ skipped \subseteq {r.root : r \in changes}
  /\ Fault(skipped # {})
  /\ rows' = rows \cup {r \in changes : r.root \notin skipped}
  /\ drift' = drift \cup skipped

(* commitVersionAt: a version, and the one it discards if it does. *)
CommitVersion(k, gone, skipped) ==
  /\ Unlocked
  /\ made[k] < MaxVersions
  /\ gone \in SUBSET {v \in live : v[1] = k} /\ Cardinality(gone) <= 1
  /\ LET root == <<k, made[k] + 1>>
     IN /\ made' = [made EXCEPT ![k] = @ + 1]
        /\ live' = (live \cup {root}) \ gone
        /\ Queue({NewRow(1, root, "add")} \cup {NewRow(2, v, "remove") : v \in gone}, skipped)
  /\ UNCHANGED <<entries, run, deleted>>

(* deleteVersionScoped and deleteObjectKey: a version goes. *)
DeleteVersion(v, skipped) ==
  /\ Unlocked
  /\ v \in live
  /\ live' = live \ {v}
  /\ Queue({NewRow(1, v, "remove")}, skipped)
  /\ UNCHANGED <<made, entries, run, deleted>>

-----------------------------------------------------------------------------
(* The two runners. *)

(* Mutant: a row is due whatever its key's earlier rows wait for. *)
DueAlone == {r \in rows : ~r.wait /\ ~r.dead}

(* Mutant: a dead-lettered row that waits blocks its key. *)
DueBlocked ==
  {r \in rows : ~r.wait /\ ~r.dead /\ ~\E e \in rows : KeyOf(e) = KeyOf(r) /\ e.seq < r.seq
                                                     /\ (e.wait \/ e.dead)}

(* ListDueUploadRegistrations: per key, the run of due rows from its oldest. *)
Due == {r \in rows : /\ ~r.wait /\ ~r.dead
                     /\ ~\E e \in rows : /\ KeyOf(e) = KeyOf(r) /\ e.seq < r.seq
                                         /\ ~e.dead /\ e.wait}

(* What the drain replays: dead-lettered additions never landed; dead- *)
(* lettered retractions get a last chance.                             *)
Owed == {r \in rows : r.dead => r.op = "remove"}

(* The versions whose changes a run has in hand. *)
InHand(p) == {r.root : r \in run[p].regs}

Begin(p, regs) ==
  /\ run' = [run EXCEPT ![p] = [Rest EXCEPT !.at = "add", !.regs = regs]]
  /\ drift' = drift \cup ({r.root : r \in regs} \cap UNION {InHand(q) : q \in Runners})
  /\ UNCHANGED <<made, live, rows, entries, deleted, faults>>

(* SweepUploadRegistrations, every 30 seconds; a drain may be under way. *)
SweepBegin ==
  /\ run["sweep"] = Rest
  /\ Due # {}
  /\ Begin("sweep", Due)

(* DrainSpaceRegistrations, once the bucket is empty; a sweep may be under way. *)
DrainBegin ==
  /\ Unlocked /\ live = {}
  /\ Begin("drain", Owed)

(* The rows of the batch that are due next: additions, then retractions. *)
Batch(p) == {r \in run[p].regs : r.op = run[p].at}

(* The rows that PrepareAuthority is asked for, when it fails for spent: *)
(* a key stops at the first row without authority left, and rows of keys *)
(* that stopped before are not tried.                                    *)
Tried(p, spent) ==
  {r \in Batch(p) :
     /\ KeyOf(r) \notin run[p].held
     /\ \A e \in Batch(p) : (KeyOf(e) = KeyOf(r) /\ e.seq < r.seq) => e \notin spent}

(* The rows that get authority, stored or renewed. *)
Authorized(p, spent) == Tried(p, spent) \ spent

(* DeadLetterUploadRegistrations *)
DeadLetter(dead) ==
  {IF \E d \in dead : d.seq = r.seq THEN [r EXCEPT !.dead = TRUE] ELSE r : r \in rows}

(* applyRegistrations up to the send; a row that is out of tries and has *)
(* no authority left is dead-lettered.                                   *)
Prepare(p, spent) ==
  LET sent == Authorized(p, spent)
      dead == {r \in Tried(p, spent) \cap spent : r.tries + 1 >= MaxTries}
  IN /\ run[p].at \in Ops
     /\ spent \subseteq Batch(p)
     /\ Fault(spent # {})
     /\ rows' = DeadLetter(dead)
     /\ drift' = drift \cup {d.root : d \in dead}
     /\ run' = [run EXCEPT ![p] =
                  [run[p] EXCEPT !.at = IF run[p].at = "add" THEN "send adds" ELSE "send removes",
                                 !.sent = sent,
                                 !.deferred = Batch(p) \ (dead \cup sent),
                                 !.held = run[p].held \cup {KeyOf(r) : r \in Batch(p) \ sent}]]
     /\ UNCHANGED <<made, live, entries, deleted>>

(* RegisterUploads and RetractUploads: what the service keeps of a batch. *)
Kept(p, taken) ==
  LET roots == {r.root : r \in taken}
  IN IF run[p].at = "send adds" THEN entries \cup roots ELSE entries \ roots

(* One round trip: the service takes some of the changes and answers for *)
(* some of those; an answer that is lost loses them all.                 *)
Send(p, taken, landed) ==
  /\ run[p].at \in {"send adds", "send removes"}
  /\ taken \subseteq run[p].sent /\ landed \subseteq taken
  /\ Fault(landed # run[p].sent)
  /\ entries' = Kept(p, taken)
  /\ run' = [run EXCEPT ![p] =
               [run[p] EXCEPT !.at = IF run[p].at = "send adds" THEN "settle adds" ELSE "settle removes",
                              !.sent = {},
                              !.landed = landed,
                              !.deferred = run[p].deferred \cup (run[p].sent \ landed),
                              !.held = run[p].held \cup {KeyOf(r) : r \in run[p].sent \ landed}]]
  /\ UNCHANGED <<made, live, rows, drift, deleted>>

(* RescheduleUploadRegistrations: one more try, after a backoff. *)
Again(r) == [r EXCEPT !.tries = IF @ < MaxTries THEN @ + 1 ELSE @, !.wait = TRUE]

(* The second batch, and the keys the first one stopped on. *)
Retractions(p) ==
  [Rest EXCEPT !.at = "remove", !.regs = {r \in run[p].regs : r.op = "remove"},
               !.held = run[p].held]

(* What landed is deleted, and what did not is deferred (deferRegistrations). *)
Settle(p) ==
  LET landed   == {r.seq : r \in run[p].landed}
      deferred == {r.seq : r \in run[p].deferred}
  IN /\ run[p].at \in {"settle adds", "settle removes"}
     /\ rows' = {IF r.seq \in deferred THEN Again(r) ELSE r : r \in {e \in rows : e.seq \notin landed}}
     /\ run' = [run EXCEPT ![p] = IF run[p].at = "settle adds" THEN Retractions(p)
                                  ELSE [Rest EXCEPT !.at = "done"]]
     /\ UNCHANGED <<made, live, entries, drift, deleted, faults>>

SweepEnd ==
  /\ run["sweep"].at = "done"
  /\ run' = [run EXCEPT !["sweep"] = Rest]
  /\ UNCHANGED <<made, live, rows, entries, drift, deleted, faults>>

(* The drain looks at what is left: a row that is not dead-lettered fails *)
(* the bucket's deletion, which otherwise takes the rows with it.         *)
DrainEnd ==
  /\ run["drain"].at = "done"
  /\ run' = [run EXCEPT !["drain"] = Rest]
  /\ IF \E r \in rows : ~r.dead
     THEN UNCHANGED <<rows, drift, deleted>>
     ELSE /\ deleted' = TRUE
          /\ rows' = {}
          /\ drift' = drift \cup {r.root : r \in rows}
  /\ UNCHANGED <<made, live, entries, faults>>

(* The process dies, or a statement fails and the run returns its error. *)
Die(p) ==
  /\ run[p] # Rest
  /\ Fault(TRUE)
  /\ run' = [run EXCEPT ![p] = Rest]
  /\ UNCHANGED <<made, live, rows, entries, drift, deleted>>

(* A backoff runs out (uploadRegistrationBackoff). *)
Elapse(r) ==
  /\ r \in rows /\ r.wait
  /\ rows' = (rows \ {r}) \cup {[r EXCEPT !.wait = FALSE]}
  /\ UNCHANGED <<made, live, entries, drift, run, deleted, faults>>

-----------------------------------------------------------------------------

Runner(p) ==
  \/ \E spent \in SUBSET run[p].regs : Prepare(p, spent)
  \/ \E taken \in SUBSET run[p].sent : \E landed \in SUBSET taken : Send(p, taken, landed)
  \/ Settle(p)
  \/ Die(p)

Next ==
  \/ \E k \in Keys : \E gone \in SUBSET live : \E skipped \in SUBSET Roots :
       CommitVersion(k, gone, skipped)
  \/ \E v \in live : \E skipped \in SUBSET {v} : DeleteVersion(v, skipped)
  \/ SweepBegin \/ DrainBegin \/ SweepEnd \/ DrainEnd
  \/ \E p \in Runners : Runner(p)
  \/ \E r \in rows : Elapse(r)

(* The sweeper's ticker comes back for as long as the daemon runs, what   *)
(* a run has begun goes on, and backoffs end.  Faults are bounded: the    *)
(* upload service and a space's authority come back.                      *)
Fairness ==
  /\ WF_vars(SweepBegin) /\ WF_vars(SweepEnd) /\ WF_vars(DrainEnd)
  /\ \A p \in Runners : WF_vars(Runner(p))
  /\ WF_vars(\E r \in rows : Elapse(r))

Spec == Init /\ [][Next]_vars /\ Fairness

-----------------------------------------------------------------------------
(* Properties. *)

TypeOK ==
  /\ made \in [Keys -> 0..MaxVersions]
  /\ live \subseteq Roots /\ entries \subseteq Roots /\ drift \subseteq Roots
  /\ rows \subseteq Row
  /\ DOMAIN run = Runners
  /\ \A p \in Runners :
       /\ run[p].at \in {"rest", "add", "send adds", "settle adds",
                         "remove", "send removes", "settle removes", "done"}
       /\ run[p].regs \subseteq Row /\ run[p].held \subseteq Keys
       /\ run[p].sent \cup run[p].landed \cup run[p].deferred \subseteq run[p].regs
  /\ deleted \in BOOLEAN /\ faults \in 0..MaxFaults

(* Once nothing is queued or on its way for a version, the upload service *)
(* counts it exactly if the catalog has it, unless one of its changes was *)
(* not queued or given up, or two runs had them in hand at once: no       *)
(* retraction ever overtakes the addition it retires                      *)
(* (uploadsweep.go, uploadreg.go: "out of order an add can land after the *)
(* remove that retires it and leave the root counted for good").          *)
CountSettles ==
  \A v \in Roots \ drift :
    (/\ \A r \in rows : r.root # v
     /\ \A p \in Runners : \A r \in run[p].regs : r.root # v)
    => (v \in entries <=> v \in live)

(* Every queued change is made or given up in the end: no row, and no     *)
(* dead-lettered row either, holds its key's later ones for good.         *)
OutboxDrains == []<>(\A r \in rows : r.dead)
=============================================================================
