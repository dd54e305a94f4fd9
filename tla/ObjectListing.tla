---------------------------- MODULE ObjectListing ----------------------------
(***************************************************************************)
(* ListObjects and ListObjectsV2 (object.go): a client lists the keys      *)
(* below a prefix in pages, following the marker of each page to the next, *)
(* while the bucket is written.  The two versions differ in the names of   *)
(* their markers only.  A page reads the bucket's root once and walks the  *)
(* tree it names leaf by leaf; the blocks of a tree never change, so that  *)
(* the walk gives the keys the bucket had then, in order                   *)
(* (MerkleSearchTree, ReadsExact).  Keys below a delimiter are rolled up   *)
(* into common prefixes and keys whose current version is a delete marker  *)
(* are hidden.  Keys hold no NUL byte (mst.IsValidKey).                    *)
(***************************************************************************)
EXTENDS KeyOrder, Functions

CONSTANTS Keys,        \* the keys there may be
          Prefixes,    \* what clients ask for: prefixes,
          Delimiters,  \* delimiters, << >> for none,
          Markers,     \* keys to start after, << >> for none,
          Limits,      \* and max-keys
          MaxWrites,   \* bound: changes of the bucket beside a listing
          MaxListed    \* bound: what a client is given before it gives up

ASSUME KeysAssumption == Keys \subseteq Seq(Nat \ {0}) \ {<< >>}
ASSUME AskedAssumption ==
  /\ Prefixes \subseteq Seq(Nat) /\ Delimiters \subseteq Seq(Nat) /\ Markers \subseteq Seq(Nat)
  /\ Limits \subseteq Nat
ASSUME BoundsAssumption == MaxWrites \in Nat /\ MaxListed \in Nat

VARIABLES
  bucket,  \* what a key's current version is: "absent", "object" or "marker"
  writes,  \* how often it changed beside the listing
  req,     \* what the client asked for
  phase,   \* "ask" for a page, "walk", "page" returned, "done"
  marker,  \* where the next page begins: after this key or common prefix
  page,    \* the page under way or returned
  listed,  \* what the client has been given
  kept     \* the keys that were visible ever since the listing began

vars == <<bucket, writes, req, phase, marker, page, listed, kept>>

None == << >>
States == {"absent", "object", "marker"}
Asks == [prefix : Prefixes, delimiter : Delimiters, after : Markers, limit : Limits]

Present == {k \in Keys : bucket[k] # "absent"}
Visible == {k \in Keys : bucket[k] = "object"}

-----------------------------------------------------------------------------
(* What a key is listed as. *)

(* Where the delimiter ends in a key, after the prefix. *)
DelimiterEnds(k) ==
  LET d == Len(req.delimiter)
  IN {n \in (Len(req.prefix) + d)..Len(k) : SubSeq(k, n - d + 1, n) = req.delimiter}

Grouped(k) == req.delimiter # None /\ DelimiterEnds(k) # {}

(* Mutant: the delimiter is left off the common prefix. *)
BarePrefix(k) ==
  LET n == CHOOSE m \in DelimiterEnds(k) : \A o \in DelimiterEnds(k) : m <= o
  IN SubSeq(k, 1, n - Len(req.delimiter))

CommonPrefix(k) ==
  SubSeq(k, 1, CHOOSE n \in DelimiterEnds(k) : \A m \in DelimiterEnds(k) : n <= m)

Item(k) == IF Grouped(k) THEN CommonPrefix(k) ELSE k

-----------------------------------------------------------------------------
(* One page. *)

(* listWalkResult, with what is left of the walk and the keys that the *)
(* root it reads shows.                                                *)
Blank == [rest |-> {}, shown |-> {}, items |-> << >>, next |-> None, truncated |-> FALSE]

(* Mutant: the walk begins at the marker itself. *)
FromMarker == IF marker # None /\ Less(req.prefix, marker) THEN marker ELSE req.prefix

(* The walk begins at the prefix, or just past a marker that comes after it. *)
From == IF marker # None /\ Less(req.prefix, marker) THEN Append(marker, 1) ELSE req.prefix

(* max-keys=0 lists nothing. *)
ListNothing ==
  /\ phase = "ask" /\ req.limit = 0
  /\ page' = Blank
  /\ phase' = "page"
  /\ UNCHANGED <<bucket, writes, req, marker, listed, kept>>

BeginWalk ==
  /\ phase = "ask" /\ req.limit > 0
  /\ page' = [Blank EXCEPT !.rest = {k \in Present : AtMost(From, k)}, !.shown = Visible]
  /\ phase' = "walk"
  /\ UNCHANGED <<bucket, writes, req, marker, listed, kept>>

(* walkLeavesFrom comes to k. *)
Reached(k) == phase = "walk" /\ k \in page.rest /\ \A x \in page.rest : AtMost(k, x)

(* Mutant: a group listed on an earlier page is not passed over. *)
PassedNot(k) == FALSE

(* A common prefix rolled up on an earlier page is skipped with all its keys. *)
Passed(k) == Grouped(k) /\ marker # None /\ AtMost(CommonPrefix(k), marker)

Seen(k) == Grouped(k) /\ CommonPrefix(k) \in Range(page.items)

Skipped(k) == k \notin page.shown \/ Passed(k) \/ Seen(k)

(* listWalk's callback, by what it does with the leaf. *)
PastPrefix(k) ==
  /\ Reached(k) /\ ~StartsWith(k, req.prefix)
  /\ page' = [page EXCEPT !.rest = {}]
  /\ phase' = "page"
  /\ UNCHANGED <<bucket, writes, req, marker, listed, kept>>

SkipLeaf(k) ==
  /\ Reached(k) /\ StartsWith(k, req.prefix) /\ Skipped(k)
  /\ page' = [page EXCEPT !.rest = @ \ {k}]
  /\ UNCHANGED <<bucket, writes, req, phase, marker, listed, kept>>

PageFull(k) ==
  /\ Reached(k) /\ StartsWith(k, req.prefix) /\ ~Skipped(k)
  /\ Len(page.items) >= req.limit
  /\ page' = [page EXCEPT !.rest = {}, !.truncated = TRUE]
  /\ phase' = "page"
  /\ UNCHANGED <<bucket, writes, req, marker, listed, kept>>

ListLeaf(k) ==
  /\ Reached(k) /\ StartsWith(k, req.prefix) /\ ~Skipped(k)
  /\ Len(page.items) < req.limit
  /\ page' = [page EXCEPT !.rest = @ \ {k}, !.items = Append(@, Item(k)), !.next = Item(k)]
  /\ UNCHANGED <<bucket, writes, req, phase, marker, listed, kept>>

WalkEnds ==
  /\ phase = "walk" /\ page.rest = {}
  /\ phase' = "page"
  /\ UNCHANGED <<bucket, writes, req, marker, page, listed, kept>>

(* The registry or a block cannot be read: the request fails, and the *)
(* client asks for the same page again.                               *)
PageFails ==
  /\ phase = "walk"
  /\ page' = Blank
  /\ phase' = "ask"
  /\ UNCHANGED <<bucket, writes, req, marker, listed, kept>>

-----------------------------------------------------------------------------
(* The client and the writers. *)

StartListing(prefix, delimiter, after, limit) ==
  /\ phase # "walk"
  /\ req' = [prefix |-> prefix, delimiter |-> delimiter, after |-> after, limit |-> limit]
  /\ marker' = after
  /\ phase' = "ask"
  /\ listed' = << >>
  /\ kept' = Visible
  /\ writes' = 0
  /\ page' = Blank
  /\ UNCHANGED bucket

(* A page that is not the last names where the next begins. *)
NextPage ==
  /\ phase = "page" /\ page.truncated /\ page.next # None
  /\ Len(listed) < MaxListed
  /\ listed' = listed \o page.items
  /\ marker' = page.next
  /\ page' = Blank
  /\ phase' = "ask"
  /\ UNCHANGED <<bucket, writes, req, kept>>

LastPage ==
  /\ phase = "page" /\ ~(page.truncated /\ page.next # None)
  /\ listed' = listed \o page.items
  /\ page' = Blank
  /\ phase' = "done"
  /\ UNCHANGED <<bucket, writes, req, marker, kept>>

(* A commit of the bucket's root gives a key another current version. *)
Write(k, state) ==
  /\ writes < MaxWrites /\ bucket[k] # state
  /\ bucket' = [bucket EXCEPT ![k] = state]
  /\ kept' = IF state = "object" THEN kept ELSE kept \ {k}
  /\ writes' = writes + 1
  /\ UNCHANGED <<req, phase, marker, page, listed>>

Init ==
  /\ bucket \in [Keys -> States]
  /\ writes = 0
  /\ req \in Asks
  /\ phase = "ask"
  /\ marker = req.after
  /\ page = Blank
  /\ listed = << >>
  /\ kept = Visible

Next ==
  \/ \E prefix \in Prefixes, delimiter \in Delimiters, after \in Markers, limit \in Limits :
       StartListing(prefix, delimiter, after, limit)
  \/ ListNothing \/ BeginWalk \/ WalkEnds \/ PageFails \/ NextPage \/ LastPage
  \/ \E k \in Keys : PastPrefix(k) \/ SkipLeaf(k) \/ PageFull(k) \/ ListLeaf(k)
  \/ \E k \in Keys, state \in States : Write(k, state)

Spec == Init /\ [][Next]_vars

-----------------------------------------------------------------------------
(* Properties. *)

Pages == [rest : SUBSET Keys, shown : SUBSET Keys, items : Seq(Seq(Nat) \ {None}),
          next : Seq(Nat), truncated : BOOLEAN]

(* Every page is one of some key and nothing empty is listed: an empty     *)
(* common prefix, as the next page's marker, would start over (nextKey).   *)
TypeOK ==
  /\ bucket \in [Keys -> States]
  /\ writes \in 0..MaxWrites
  /\ req \in Asks
  /\ phase \in {"ask", "walk", "page", "done"}
  /\ marker \in Seq(Nat)
  /\ page \in Pages
  /\ listed \in Seq(Seq(Nat) \ {None})
  /\ kept \in SUBSET Keys

Increasing(s) == \A i, j \in 1..Len(s) : i < j => Less(s[i], s[j])

(* Below the prefix and after the marker; a marker that is not past the   *)
(* prefix says nothing (ListObjects, ListObjectsV2).                       *)
Wanted(k) ==
  /\ StartsWith(k, req.prefix)
  /\ marker # None /\ Less(req.prefix, marker) => Less(marker, Item(k))

(* What the root that a page reads has after the marker. *)
Owed == {Item(k) : k \in {x \in page.shown : Wanted(x)}}

(* A page gives the first max-keys items that the root it reads has after  *)
(* the marker, each key or common prefix once and in order, and says that  *)
(* there is more exactly when there is: hidden keys neither count nor end  *)
(* a page, and one that ends inside a group does not repeat the group      *)
(* (listWalk).                                                             *)
PageExact ==
  phase = "page" /\ req.limit > 0 =>
    /\ Increasing(page.items) /\ Len(page.items) <= req.limit
    /\ Range(page.items) \subseteq Owed
    /\ \A item \in Owed \ Range(page.items) :
         page.truncated /\ \A x \in Range(page.items) : Less(x, item)
    /\ page.truncated => /\ Len(page.items) = req.limit
                         /\ page.next = page.items[req.limit]
                         /\ Owed # Range(page.items)

(* The pages of a listing, followed from marker to marker while the bucket *)
(* is written, give nothing twice and all in order, and once the listing   *)
(* ended they gave every key, or its common prefix, that was visible ever  *)
(* since it began (ListObjects, ListObjectsV2).  Of pages of one key below *)
(* a prefix that is itself a key, the one that ends with that key is       *)
(* followed by itself: the marker is then not past the prefix, and the     *)
(* walk starts over.                                                       *)
ListingExact ==
  LET all == listed \o page.items
  IN /\ Increasing(all) \/ (req.limit = 1 /\ req.prefix \in Range(all))
     /\ phase = "done" /\ req.limit > 0 =>
          \A k \in kept : StartsWith(k, req.prefix) /\ Less(req.after, Item(k))
                             => Item(k) \in Range(listed)
=============================================================================
