-------------------------- MODULE MerkleSearchTree --------------------------
(***************************************************************************)
(* The ordered map every catalog is kept in (mst.go, mst_util.go, diff.go):*)
(* a tree of nodes whose leaves sit at the layer their key's hash gives    *)
(* them.  A transaction loads the tree from its root block, changes it in  *)
(* memory and writes it back; a block is known by its content, so that a   *)
(* root is modelled by the block itself.  The layer of a node is cached    *)
(* while it is in memory and guessed again from its keys when it is loaded.*)
(* Nodes are Seq of entries; keys are sequences, compressed against the    *)
(* previous key of the node when they are written.                         *)
(***************************************************************************)
EXTENDS KeyOrder, FiniteSets, SequencesExt

CONSTANTS Keys,      \* keys: sequences of naturals
          Vals,      \* the CIDs that keys map to
          MaxZeros   \* bound: leading zeros of a key's hash, in pairs of bits

ASSUME KeysAssumption == Keys \subseteq Seq(Nat) \ {<< >>}

VARIABLES
  zeros,  \* leadingZerosOnHash: how the keys hash
  root,   \* the root block
  map     \* the map the tree stands for

vars == <<zeros, root, map>>

NoVal == "none"
Missing == [kind |-> "undefined"]      \* an entry that is not there
Leaf(k, v) == [kind |-> "leaf", key |-> k, val |-> v]
Tree(n)    == [kind |-> "tree", node |-> n]
NoNode == [layer |-> -1, entries |-> << >>]   \* a nil *MerkleSearchTree

(* createMST, newTree: a node in memory, with the layer it is known to have. *)
Node(layer, entries) == [layer |-> layer, entries |-> entries]

-----------------------------------------------------------------------------
(* Blocks. *)

IsTree(es, i) == i \in 1..Len(es) /\ es[i].kind = "tree"
IsLeaf(es, i) == i \in 1..Len(es) /\ es[i].kind = "leaf"

(* serializeNodeData and GetPointer: the subtrees first, then the leaves of *)
(* the node, each with the subtree to its right.                            *)
RECURSIVE Save(_)
Save(n) ==
  LET es == n.entries
      leaves == SelectSeq([i \in 1..Len(es) |-> i], LAMBDA i : es[i].kind = "leaf")
      Before(j) == IF j = 1 THEN << >> ELSE es[leaves[j - 1]].key
      Entry(j) ==
        LET i == leaves[j]
        IN [prefix |-> PrefixLen(Before(j), es[i].key),
            suffix |-> Suffix(Before(j), es[i].key),
            val    |-> es[i].val,
            tree   |-> IF IsTree(es, i + 1) THEN <<Save(es[i + 1].node)>> ELSE << >>]
  IN [left    |-> IF IsTree(es, 1) THEN <<Save(es[1].node)>> ELSE << >>,
      entries |-> [j \in 1..Len(leaves) |-> Entry(j)]]

(* deserializeNodeData: a key is the prefix it shares with the one before  *)
(* and the rest.  A subtree is taken to be one layer down from the node's  *)
(* first key, or of no known layer below a node without keys.              *)
RECURSIVE LoadAt(_, _)
LoadAt(block, layer) ==
  LET KeyAt[j \in 0..Len(block.entries)] ==
        IF j = 0 THEN << >>
        ELSE Joined(KeyAt[j - 1], block.entries[j].prefix, block.entries[j].suffix)
      below == (IF block.entries = << >> THEN -1 ELSE zeros[KeyAt[1]]) - 1
      Sub(t) == IF t = << >> THEN << >> ELSE <<Tree(LoadAt(t[1], below))>>
      Entry(j) == <<Leaf(KeyAt[j], block.entries[j].val)>> \o Sub(block.entries[j].tree)
  IN Node(layer, Sub(block.left) \o FlattenSeq([j \in 1..Len(block.entries) |-> Entry(j)]))

(* LoadMST *)
Load(block) == LoadAt(block, -1)

EmptyTree == Node(0, << >>)

-----------------------------------------------------------------------------
(* Nodes in memory. *)

(* findGtOrEqualLeafIndex: the first leaf at or after k, or the end. *)
IndexOf(es, k) ==
  LET at == {i \in 1..Len(es) : es[i].kind = "leaf" /\ AtMost(k, es[i].key)}
  IN IF at = {} THEN Len(es) + 1 ELSE CHOOSE i \in at : \A j \in at : i <= j

(* layerForEntries: the layer of the node's first key, if it has one. *)
LayerForEntries(es) ==
  LET leaves == SelectSeq(es, LAMBDA e : e.kind = "leaf")
  IN IF leaves = << >> THEN -1 ELSE zeros[leaves[1].key]

(* attemptGetLayer, getLayer: cached, or the layer of the node's first key,*)
(* or one more than a child's; 0 when nothing tells.                       *)
RECURSIVE KnownLayer(_)
KnownLayer(n) ==
  LET es == n.entries
      below == SelectSeq([i \in 1..Len(es) |-> IF es[i].kind = "tree" THEN KnownLayer(es[i].node) ELSE -1],
                         LAMBDA l : l >= 0)
  IN CASE n.layer >= 0 -> n.layer
       [] n.layer < 0 /\ LayerForEntries(es) >= 0 -> LayerForEntries(es)
       [] OTHER -> IF below = << >> THEN -1 ELSE below[1] + 1

LayerOf(n) == IF KnownLayer(n) < 0 THEN 0 ELSE KnownLayer(n)

(* updateEntry, removeEntry, spliceIn *)
UpdateEntry(n, i, e) == Node(n.layer, ReplaceAt(n.entries, i, e))
RemoveEntry(n, i)    == Node(n.layer, RemoveAt(n.entries, i))
SpliceIn(n, i, e)    == Node(n.layer, InsertAt(n.entries, i, e))

Subtree(n) == IF n.entries = << >> THEN << >> ELSE <<Tree(n)>>

(* splitAround: what is before k and what is after it, down the subtree *)
(* that k falls into.  A side without entries is nil.                   *)
RECURSIVE SplitAround(_, _)
SplitAround(n, k) ==
  LET i == IndexOf(n.entries, k)
      left  == SubSeq(n.entries, 1, i - 1)
      right == SubSeq(n.entries, i, Len(n.entries))
      sub   == SplitAround(n.entries[i - 1].node, k)
  IN IF IsTree(left, i - 1)
     THEN <<Node(n.layer, SubSeq(left, 1, i - 2) \o Subtree(sub[1])),
            Node(n.layer, Subtree(sub[2]) \o right)>>
     ELSE <<Node(n.layer, left), Node(n.layer, right)>>

(* createParent, as often as a key's layer is above the node's. *)
RECURSIVE Raise(_, _)
Raise(n, times) ==
  IF n.entries = << >> \/ times <= 0 THEN n
  ELSE Raise(Node(LayerOf(n) + 1, <<Tree(n)>>), times - 1)

(* Add, in its three cases: the key belongs to this node, below it, or above. *)
RECURSIVE Add(_, _, _)
Add(n, k, v) ==
  LET i == IndexOf(n.entries, k)
      layer == LayerOf(n)
      here == Node(layer, n.entries)
  IN CASE zeros[k] = layer ->
            IF IsTree(n.entries, i - 1)
            THEN LET parts == SplitAround(n.entries[i - 1].node, k)
                 IN Node(layer, SubSeq(n.entries, 1, i - 2) \o Subtree(parts[1])
                                \o <<Leaf(k, v)>> \o Subtree(parts[2])
                                \o SubSeq(n.entries, i, Len(n.entries)))
            ELSE SpliceIn(here, i, Leaf(k, v))
       [] zeros[k] < layer ->
            IF IsTree(n.entries, i - 1)
            THEN UpdateEntry(here, i - 1, Tree(Add(n.entries[i - 1].node, k, v)))
            ELSE SpliceIn(here, i, Tree(Add(Node(layer - 1, << >>), k, v)))
       [] OTHER ->
            LET parts == SplitAround(here, k)
                Up(side) == Subtree(Raise(side, zeros[k] - layer - 1))
            IN Node(zeros[k], Up(parts[1]) \o <<Leaf(k, v)>> \o Up(parts[2]))

RECURSIVE Get(_, _)
Get(n, k) ==
  LET i == IndexOf(n.entries, k)
  IN CASE IsLeaf(n.entries, i) /\ n.entries[i].key = k -> n.entries[i].val
       [] IsTree(n.entries, i - 1) /\ ~(IsLeaf(n.entries, i) /\ n.entries[i].key = k) ->
            Get(n.entries[i - 1].node, k)
       [] OTHER -> NoVal

RECURSIVE Update(_, _, _)
Update(n, k, v) ==
  LET i == IndexOf(n.entries, k)
  IN IF IsLeaf(n.entries, i) /\ n.entries[i].key = k
     THEN UpdateEntry(n, i, Leaf(k, v))
     ELSE UpdateEntry(n, i - 1, Tree(Update(n.entries[i - 1].node, k, v)))

(* appendMerge: two neighbours become one, and so do the subtrees that meet. *)
(* Neighbours are of one layer, and so are those, so that its refusal to     *)
(* merge nodes of different layers never comes up and is left out.           *)
RECURSIVE AppendMerge(_, _)
AppendMerge(a, b) ==
  IF IsTree(a.entries, Len(a.entries)) /\ IsTree(b.entries, 1)
  THEN Node(LayerOf(a), SubSeq(a.entries, 1, Len(a.entries) - 1)
              \o <<Tree(AppendMerge(a.entries[Len(a.entries)].node, b.entries[1].node))>>
              \o SubSeq(b.entries, 2, Len(b.entries)))
  ELSE Node(LayerOf(a), a.entries \o b.entries)

RECURSIVE DeleteRecurse(_, _)
DeleteRecurse(n, k) ==
  LET i == IndexOf(n.entries, k)
  IN IF IsLeaf(n.entries, i) /\ n.entries[i].key = k
     THEN IF IsTree(n.entries, i - 1) /\ IsTree(n.entries, i + 1)
          THEN Node(n.layer, SubSeq(n.entries, 1, i - 2)
                 \o <<Tree(AppendMerge(n.entries[i - 1].node, n.entries[i + 1].node))>>
                 \o SubSeq(n.entries, i + 2, Len(n.entries)))
          ELSE RemoveEntry(n, i)
     ELSE LET sub == DeleteRecurse(n.entries[i - 1].node, k)
          IN IF sub.entries = << >> THEN RemoveEntry(n, i - 1)
             ELSE UpdateEntry(n, i - 1, Tree(sub))

(* Mutant: the top of the tree is left as high as it was. *)
TrimNot(n) == n

(* trimTop: a root that only holds a tree gives way to it. *)
RECURSIVE TrimTop(_)
TrimTop(n) ==
  IF Len(n.entries) = 1 /\ IsTree(n.entries, 1) THEN TrimTop(n.entries[1].node) ELSE n

Delete(n, k) == TrimTop(DeleteRecurse(n, k))

(* Mutant: the subtree before the first leaf of a walk is skipped. *)
WalkSkips(n, k) ==
  LET i == IndexOf(n.entries, k)
      here == SelectSeq(SubSeq(n.entries, i, Len(n.entries)), LAMBDA e : e.kind = "leaf")
  IN [j \in 1..Len(here) |-> <<here[j].key, here[j].val>>]

(* walkLeavesFrom: the leaves from a key on, in order. *)
RECURSIVE WalkFrom(_, _)
WalkFrom(n, k) ==
  LET i == IndexOf(n.entries, k)
      Below(j) == IF IsTree(n.entries, j) THEN WalkFrom(n.entries[j].node, k) ELSE << >>
      rest == [j \in 1..(Len(n.entries) - i + 1) |->
                 LET e == n.entries[i + j - 1]
                 IN IF e.kind = "leaf" THEN <<<<e.key, e.val>>>> ELSE Below(i + j - 1)]
  IN Below(i - 1) \o FlattenSeq(rest)

(* The entries of a block as DiffTrees compares them: a subtree by its CID, *)
(* that is its block, and the key it follows (nodeEntriesEqual).            *)
DiffEntries(n) ==
  LET KeyAt(i) == IF IsLeaf(n.entries, i) THEN n.entries[i].key ELSE << >>
  IN [i \in 1..Len(n.entries) |->
        IF n.entries[i].kind = "leaf" THEN n.entries[i]
        ELSE [kind |-> "tree", key |-> KeyAt(i - 1), node |-> n.entries[i].node,
              cid |-> Save(n.entries[i].node)]]

(* Mutant: entries are compared by their keys. *)
SameKey(a, b) == a.kind = b.kind /\ a.key = b.key

SameEntry(a, b) ==
  /\ a.kind = b.kind /\ a.key = b.key
  /\ IF a.kind = "leaf" THEN a.val = b.val ELSE a.cid = b.cid

Walked(op, e) ==
  IF e.kind = "leaf" THEN <<<<op, e.key>>>>
  ELSE LET w == WalkFrom(e.node, << >>) IN [j \in 1..Len(w) |-> <<op, w[j][1]>>]

(* DiffTrees: both entry lists side by side, opening the subtrees that differ. *)
RECURSIVE DiffEntryLists(_, _)
DiffEntryLists(f, t) ==
  IF f = << >> THEN FlattenSeq([j \in 1..Len(t) |-> Walked("add", t[j])])
  ELSE IF t = << >> THEN FlattenSeq([j \in 1..Len(f) |-> Walked("del", f[j])])
  ELSE LET ef == Head(f)  et == Head(t)
       IN CASE SameEntry(ef, et) -> DiffEntryLists(Tail(f), Tail(t))
            [] ~SameEntry(ef, et) /\ ef.kind = "leaf" /\ et.kind = "leaf" ->
                 IF ef.key = et.key
                 THEN <<<<"mut", ef.key>>>> \o DiffEntryLists(Tail(f), Tail(t))
                 ELSE IF Less(et.key, ef.key)
                 THEN <<<<"add", et.key>>>> \o DiffEntryLists(f, Tail(t))
                 ELSE <<<<"del", ef.key>>>> \o DiffEntryLists(Tail(f), t)
            [] ~SameEntry(ef, et) /\ ef.kind = "tree" ->
                 DiffEntryLists(DiffEntries(ef.node) \o Tail(f), t)
            [] OTHER -> DiffEntryLists(f, DiffEntries(et.node) \o Tail(t))

DiffTrees(from, to) == DiffEntryLists(DiffEntries(Load(from)), DiffEntries(Load(to)))

-----------------------------------------------------------------------------
(* Transactions: load the root, change the tree, write it back. *)

(* GetPointer: the CID of a tree is that of the block it writes. *)
GetPointer(n) == Save(n)

Init ==
  /\ zeros \in [Keys -> 0..MaxZeros]
  /\ root = GetPointer(EmptyTree)
  /\ map = [k \in Keys |-> NoVal]

Put(k, v) ==
  /\ map[k] = NoVal
  /\ root' = GetPointer(Add(Load(root), k, v))
  /\ map' = [map EXCEPT ![k] = v]
  /\ UNCHANGED zeros

Change(k, v) ==
  /\ map[k] \notin {NoVal, v}
  /\ root' = GetPointer(Update(Load(root), k, v))
  /\ map' = [map EXCEPT ![k] = v]
  /\ UNCHANGED zeros

Drop(k) ==
  /\ map[k] # NoVal
  /\ root' = GetPointer(Delete(Load(root), k))
  /\ map' = [map EXCEPT ![k] = NoVal]
  /\ UNCHANGED zeros

(* A prev tree that gains the superseded version and loses the null one it *)
(* evicts, without a block in between (version.go commitVersionAt).        *)
PutDrop(k, v, gone) ==
  /\ map[k] = NoVal /\ map[gone] # NoVal
  /\ root' = GetPointer(Delete(Add(Load(root), k, v), gone))
  /\ map' = [map EXCEPT ![k] = v, ![gone] = NoVal]
  /\ UNCHANGED zeros

Next ==
  \/ \E k \in Keys, v \in Vals : Put(k, v) \/ Change(k, v)
  \/ \E k \in Keys : Drop(k)
  \/ \E k, gone \in Keys, v \in Vals : PutDrop(k, v, gone)

Spec == Init /\ [][Next]_vars

-----------------------------------------------------------------------------
(* Properties. *)

Present == {k \in Keys : map[k] # NoVal}

Sorted(ks) == SetToSortSeq(ks, Less)

(* Reference: the one tree a map has.  A node of layer l holds the keys    *)
(* of that layer in its span; between two of them, and at both ends, comes *)
(* the tree of the keys in between, one layer down.                        *)
RECURSIVE TreeOf(_, _)
TreeOf(ks, l) ==
  LET own == Sorted({k \in ks : zeros[k] = l})
      Gap(j) == {k \in ks : /\ zeros[k] < l
                            /\ j > 0 => Less(own[j], k)
                            /\ j < Len(own) => Less(k, own[j + 1])}
      Sub(j) == IF Gap(j) = {} THEN << >> ELSE <<Tree(TreeOf(Gap(j), l - 1))>>
  IN Node(l, Sub(0) \o FlattenSeq([j \in 1..Len(own) |-> <<Leaf(own[j], map[own[j]])>> \o Sub(j)]))

Top(ks) == CHOOSE l \in {zeros[k] : k \in ks} : \A k \in ks : zeros[k] <= l

(* The root of a bucket depends on what the bucket holds and not on the    *)
(* order it came and went in: whatever was added, changed and deleted, the *)
(* tree is the one tree of its map, however its layers were guessed on the *)
(* way (mst.go Add, Delete, trimTop).                                      *)
RootCanonical ==
  root = IF Present = {} THEN Save(EmptyTree) ELSE Save(TreeOf(Present, Top(Present)))

(* Reads through the compressed blocks agree with the map: a lookup finds  *)
(* exactly what was last put, and a walk from where a listing starts, at a *)
(* prefix or just past a marker, gives the keys from there on, in order,   *)
(* once each.                                                              *)
ReadsExact ==
  LET t == Load(root)
  IN /\ \A k \in Keys : Get(t, k) = map[k]
     /\ \A k \in Keys \cup {<< >>} \cup {Append(x, 1) : x \in Keys} :
          LET from == Sorted({x \in Present : AtMost(k, x)})
          IN WalkFrom(t, k) = [j \in 1..Len(from) |-> <<from[j], map[from[j]]>>]

(* Every step's diff names what the step changed and nothing else, in both *)
(* directions, however the two trees' layers differ (diff.go DiffTrees).   *)
DiffExact ==
  [][LET Changed(a, b) == {<<IF a[k] = NoVal THEN "add" ELSE IF b[k] = NoVal THEN "del" ELSE "mut", k>> :
                             k \in {x \in Keys : a[x] # b[x]}}
         there == DiffTrees(root, root')
         back  == DiffTrees(root', root)
     IN /\ ToSet(there) = Changed(map, map') /\ Len(there) = Cardinality(ToSet(there))
        /\ ToSet(back) = Changed(map', map) /\ Len(back) = Cardinality(ToSet(back))]_vars
=============================================================================
