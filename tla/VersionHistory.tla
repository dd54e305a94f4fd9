--------------------------- MODULE VersionHistory ---------------------------
(***************************************************************************)
(* What versioning and object lock promise of one key, without the value   *)
(* blocks that store it: a history of versions, at most one of them null,  *)
(* that a write extends at its new end, that loses a version only when a   *)
(* null version replaces the null one or a delete names it, and the marks  *)
(* (lock state, tags) that stay on a version as long as it exists.  Only a *)
(* delete that comes while the bucket is unversioned takes the whole key,  *)
(* which it may do late, once.                                             *)
(* ObjectVersions shows that leaves, prev trees and state trees keep it.   *)
(***************************************************************************)
EXTENDS Naturals

CONSTANTS Version,  \* records with the fields seq, id and marker
          Null,     \* the id of null versions
          Deletes   \* deletes of the key in flight

VARIABLES status,   \* the bucket's versioning: "unversioned", "enabled", "suspended"
          history,  \* the versions the key has
          locked,   \* the seqs of the versions with lock state
          tagged,   \* the seqs of the versions with tags
          erasing   \* the deletes that came while the bucket was unversioned

hvars == <<status, history, locked, tagged, erasing>>

SeqsOf(vs) == {v.seq : v \in vs}

HInit ==
  /\ status = "unversioned"
  /\ history = {} /\ locked = {} /\ tagged = {} /\ erasing = {}

(* The marks of versions that stay, stay; the new version may be born with some. *)
MarksFollow(new) ==
  /\ locked' \ SeqsOf(new) = locked \cap SeqsOf(history')
  /\ tagged' \ SeqsOf(new) = tagged \cap SeqsOf(history')
  /\ locked' \cup tagged' \subseteq SeqsOf(history')

(* A write: nothing is lost but the null version that a null version replaces. *)
Write ==
  \E v \in history' :
    /\ v \in Version
    /\ \A w \in history : w.seq < v.seq
    /\ (v.id = Null) <=> (status # "enabled")
    /\ history' = {w \in history : ~(v.id = Null /\ w.id = Null)} \cup {v}
    /\ MarksFollow({v})
    /\ UNCHANGED <<status, erasing>>

(* A delete of one named version. *)
Remove ==
  \E v \in history :
    /\ history' = history \ {v}
    /\ MarksFollow({})
    /\ UNCHANGED <<status, erasing>>

(* Lock state or tags of one version that is not a delete marker. *)
Mark ==
  \E v \in history :
    /\ ~v.marker
    /\ locked' \ {v.seq} = locked \ {v.seq}
    /\ tagged' \ {v.seq} = tagged \ {v.seq}
    /\ locked \subseteq locked'
    /\ UNCHANGED <<status, history, erasing>>

(* Versioning never goes back to unversioned. *)
Configure ==
  /\ status' \in {"enabled", "suspended"}
  /\ UNCHANGED <<history, locked, tagged, erasing>>

(* A delete comes to an unversioned bucket... *)
Come(d) ==
  /\ status = "unversioned"
  /\ erasing' = erasing \cup {d}
  /\ UNCHANGED <<status, history, locked, tagged>>

(* ...and takes every version the key has by then, or gives up. *)
Erase(d) ==
  /\ d \in erasing
  /\ erasing' = erasing \ {d}
  /\ \/ history' = {} /\ locked' = {} /\ tagged' = {}
     \/ UNCHANGED <<history, locked, tagged>>
  /\ UNCHANGED status

HNext == Write \/ Remove \/ Mark \/ Configure \/ \E d \in Deletes : Come(d) \/ Erase(d)

HSpec == HInit /\ [][HNext]_hvars
=============================================================================
