-------------------------- MODULE UploadSessions ---------------------------
(***************************************************************************)
(* What a multipart upload promises its client, with none of the blobs,    *)
(* rows or processes: parts can be put and replaced while the upload is    *)
(* open; one Complete turns some of the parts, as they stand at that       *)
(* moment, into an object; or the upload is discarded.  Never both, never  *)
(* twice, and never a part that a later one has replaced.  Multipart is    *)
(* shown to implement it.                                                  *)
(***************************************************************************)
CONSTANTS Sessions, Numbers, Digests, None

VARIABLES
    upload,     \* none, open, committed or discarded
    parts,      \* the parts put so far
    object      \* the parts of the object an upload became

avars == <<upload, parts, object>>

NoParts == [n \in Numbers |-> None]

AInit ==
    /\ upload = [u \in Sessions |-> "none"]
    /\ parts  = [u \in Sessions |-> NoParts]
    /\ object = [u \in Sessions |-> NoParts]

ACreate(u) ==
    /\ upload[u] = "none"
    /\ upload' = [upload EXCEPT ![u] = "open"]
    /\ UNCHANGED <<parts, object>>

APutPart(u, n, d) ==
    /\ upload[u] = "open"
    /\ parts' = [parts EXCEPT ![u][n] = d]
    /\ UNCHANGED <<upload, object>>

ACommit(u, W) ==
    /\ upload[u] = "open"
    /\ \A n \in W : parts[u][n] # None
    /\ upload' = [upload EXCEPT ![u] = "committed"]
    /\ object' = [object EXCEPT ![u] = [n \in Numbers |->
                                          IF n \in W THEN parts[u][n] ELSE None]]
    /\ parts' = [parts EXCEPT ![u] = NoParts]

ADiscard(u) ==
    /\ upload[u] = "open"
    /\ upload' = [upload EXCEPT ![u] = "discarded"]
    /\ parts' = [parts EXCEPT ![u] = NoParts]
    /\ UNCHANGED object

ANext ==
    \E u \in Sessions :
        \/ ACreate(u) \/ ADiscard(u)
        \/ \E n \in Numbers, d \in Digests : APutPart(u, n, d)
        \/ \E W \in (SUBSET Numbers) \ {{}} : ACommit(u, W)

ASpec == AInit /\ [][ANext]_avars
=============================================================================
