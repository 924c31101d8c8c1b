----------------------------- MODULE BPlusTree -----------------------------
(***************************************************************************)
(* b_plus_tree: the tree on disk and its three operations.  Each node is a *)
(* file of the meta directory, found by its inode number; the file root    *)
(* holds the inode number of the root node.  An operation reads the path   *)
(* from the root to a leaf into memory (the traverse path), and when it    *)
(* rebalances, the neighbours of the path's nodes too; it changes them in  *)
(* memory and writes them back at the end.  Here one step is one           *)
(* operation.                                                              *)
(*                                                                         *)
(* A memory m is the record of all this: disk and root as they are on disk *)
(* so far, pe the path element of each level (id 0 where there is none),   *)
(* length the path length, left and right the neighbours read or allocated *)
(* at each level, ok FALSE once an assertion failed or a NULL pointer was  *)
(* used.  The free space counted in block heads follows from the number of *)
(* items and is left out.                                                  *)
(***************************************************************************)
EXTENDS BPlusNode, FiniteSets

CONSTANTS
  Keys,    (* inode numbers of the indexed files: the keys                 *)
  NodeIds  (* inode numbers the file system has for nodes                  *)

(* All files are on one file system: their inode numbers are different.    *)
ASSUME BPlusTreeAssumption ==
  /\ Keys \subseteq Nat \ {0} /\ NodeIds \subseteq Nat \ {0}
  /\ Keys \cap NodeIds = {}
  /\ IsFiniteSet(NodeIds) /\ NodeIds # {}

VARIABLES
  disk,    (* the nodes on disk, by inode number                           *)
  root,    (* contents of the root file                                    *)
  rc,      (* return code of the last operation                            *)
  status   (* "running", or "ended" once an operation did not return       *)

vars == <<disk, root, rc, status>>

BPLUS_MAX_HEIGHT == 5
Levels == 0 .. BPLUS_MAX_HEIGHT - 1

(* The file system hands out the lowest inode number not in use, that of a *)
(* deleted node again.  No operation allocates more than three nodes.      *)
FreeIds(d, n) ==
  LET free == NodeIds \ DOMAIN d
      first == FirstOr(free, 0)
      second == FirstOr(free \ {first}, 0)
      third == FirstOr(free \ {first, second}, 0)
  IN  [i \in 1 .. n |-> <<first, second, third>>[i]]

(* bplus_tree_allocate_node for each of new.                               *)
WithNodes(d, new) ==
  [id \in DOMAIN d \cup {new[i] : i \in DOMAIN new} |->
     IF id \in DOMAIN d THEN d[id] ELSE FormattedNode]

NoElement == [id |-> 0, position |-> 0, node |-> FormattedNode]
Element(id, position, node) == [id |-> id, position |-> position, node |-> node]

(* bplus_tree_init with force_init.                                        *)
Init ==
  /\ root = Least(NodeIds)
  /\ disk = [id \in {Least(NodeIds)} |-> FormattedNode]
  /\ rc = "EOK"
  /\ status = "running"

-----------------------------------------------------------------------------
(* bplus_tree_search_key: from the root down, by at most one node per      *)
(* level.  end tells how it went: "leaf", with found; "missing" when a     *)
(* node to visit is not on disk.                                           *)
Visited(s, level, element) ==
  [s EXCEPT !.pe[level] = element, !.length = @ + 1]
AtMissing(s) == [s EXCEPT !.end = "missing"]
AtLeaf(s, found) == [s EXCEPT !.found = found, !.end = "leaf"]
AtChild(s, id) == [s EXCEPT !.id = id]

Visit(s, key) ==
  LET node == disk[s.id]
      hit == BinSearch(node, key)
      visited == Visited(s, node.level, Element(s.id, hit.position, node))
  IN  IF s.end # "descending" THEN s
      ELSE IF s.id \notin DOMAIN disk THEN AtMissing(s)
      ELSE IF IsLeaf(node) THEN AtLeaf(visited, hit.found)
      ELSE AtChild(visited, Dc(node, hit.position))

Search(key) ==
  LET start == [pe |-> [l \in Levels |-> NoElement], length |-> -1, id |-> root,
                found |-> FALSE, end |-> "descending"]
      visited[n \in 0 .. BPLUS_MAX_HEIGHT] ==
        IF n = 0 THEN start ELSE Visit(visited[n - 1], key)
  IN  visited[BPLUS_MAX_HEIGHT]

Memory(s) ==
  [disk |-> disk, root |-> root, pe |-> s.pe, length |-> s.length,
   left |-> [l \in Levels |-> <<>>], right |-> [l \in Levels |-> <<>>],
   ok |-> TRUE]

Failed(m) == [m EXCEPT !.ok = FALSE]
WithLeft(m, level, elements) == [m EXCEPT !.left[level] = elements]
WithRight(m, level, elements) == [m EXCEPT !.right[level] = elements]

-----------------------------------------------------------------------------
(* bplus_tree_init_tb.  A node has a left neighbour when some node above   *)
(* it was not left by its first disk child, and a right one when some was  *)
(* not left by its last (bplus_tree_get_lkey, bplus_tree_get_rkey); the    *)
(* neighbour is then looked for next to the node, in its own parent, which *)
(* asserts that it is there.  A level without a node on the path, too, is  *)
(* an assertion.  errno decides about a neighbour that is not on disk:     *)
(* get_path returns it when it is set, and runs past the end of the        *)
(* directory when it is not.                                               *)
HasLeftKey(m, level) ==
  \E l \in level + 1 .. m.length : m.pe[l].position # 0

HasRightKey(m, level) ==
  \E l \in level + 1 .. m.length : m.pe[l].position # NrKeys(m.pe[l].node)

ReadNeighbour(m, level, side, errno) ==
  LET parent == m.pe[level + 1]
      id == Dc(parent.node, parent.position + IF side = "left" THEN -1 ELSE 1)
      read == <<Element(id, 0, m.disk[id])>>
  IN  IF id \in DOMAIN m.disk
      THEN IF side = "left" THEN WithLeft(m, level, read) ELSE WithRight(m, level, read)
      ELSE IF id # 0 /\ errno THEN m
      ELSE Failed(m)

ReadLevel(m, level, errno) ==
  LET left == IF HasLeftKey(m, level)
              THEN ReadNeighbour(m, level, "left", errno) ELSE m
      both == IF HasRightKey(left, level)
              THEN ReadNeighbour(left, level, "right", errno) ELSE left
  IN  IF level <= m.length THEN both ELSE m

InitTb(m, errno) ==
  LET read[n \in 0 .. BPLUS_MAX_HEIGHT] ==
        IF n = 0 THEN m ELSE ReadLevel(read[n - 1], n - 1, errno)
  IN  IF \E l \in 1 .. m.length : m.pe[l].id = 0 THEN Failed(m)
      ELSE read[BPLUS_MAX_HEIGHT]

(* bplus_tree_attach_neighbor, behind the neighbour read from disk.        *)
Attached(m, side, level, id, node) ==
  IF side = "left"
  THEN WithLeft(m, level, Append(m.left[level], Element(id, 0, node)))
  ELSE WithRight(m, level, Append(m.right[level], Element(id, 0, node)))

-----------------------------------------------------------------------------
(* Insertion into a full leaf.                                             *)
LeafNode(items) == [FormattedNode EXCEPT !.items = items]
WithDisk(m, d) == [m EXCEPT !.disk = d]
WithLeaf(m, items) == [m EXCEPT !.pe[0].node.items = items]
WithParent(m, node) == [m EXCEPT !.pe[1].node = node]
WithRoot(m, id, node) ==
  [m EXCEPT !.root = id, !.length = @ + 1,
            !.pe[m.length + 1] = Element(id, 0, node)]

(* The new leaf becomes a child of a parent that is not full, or of a new  *)
(* root when the leaf was the root (bplus_tree_flow_item_case1).           *)
SplitLeaf(m, side, halves, new_leaf, parent) ==
  LET key == Head(halves.new)
      top == InternalNode(m.length + 1, key, m.pe[0].id, new_leaf)
      above == m.pe[1].node
      kept == WithLeaf(m, halves.leaf)
      linked ==
        IF m.pe[1].id = 0 THEN WithRoot(kept, parent, top)
        ELSE WithParent(kept, AdjustedInternal(above, NrKeys(above), NrKeys(above) + 1,
                                               key, new_leaf))
  IN  Attached(linked, side, 0, new_leaf, LeafNode(halves.new))

WithoutKeyAt(node, position) ==
  [node EXCEPT !.word[position] = 0, !.nr_items = @ - 1]

(* The parent is full: it is split too, the new leaf goes to one of its    *)
(* halves, and a new root gets both halves as its children                 *)
(* (bplus_tree_flow_item_case2).                                           *)
SplitLeafAndParent(m, side, halves, new_leaf, new_internal, new_root) ==
  LET key == Head(halves.new)
      nr_flow == NrKeys(m.pe[1].node) \div 2
      split == SplitInternal(m.pe[1].node)
      lower == key < Key(split.src, 0) \/ key < Key(split.dest, 0)
      src == IF lower
             THEN AdjustedInternal(split.src, nr_flow + 1, nr_flow + 1, key, new_leaf)
             ELSE split.src
      dest == IF lower THEN split.dest
              ELSE AdjustedInternal(split.dest, nr_flow, nr_flow + 1, key, new_leaf)
      pos_to_reset == IF lower THEN nr_flow + 1 ELSE nr_flow
      top == InternalNode(m.length + 1, Key(src, pos_to_reset),
                          m.pe[src.level].id, new_internal)
      linked == WithRoot(WithParent(WithLeaf(m, halves.leaf),
                                    WithoutKeyAt(src, pos_to_reset)), new_root, top)
      with_leaf == Attached(linked, side, 0, new_leaf, LeafNode(halves.new))
      with_internal == Attached(with_leaf, side, 1, new_internal, dest)
  IN  IF split.ok THEN Attached(with_internal, side, 2, new_root, top) ELSE Failed(m)

(* The nodes an insertion into the path's leaf allocates.                  *)
NewNodes(m) ==
  IF NrItems(m.pe[0].node) # MAX_ITEMS THEN 0
  ELSE IF m.pe[1].id = 0 THEN 2
  ELSE IF m.pe[1].node.nr_items < MAX_KEYS + MAX_DC THEN 1
  ELSE 3

(* bplus_tree_rebalance_insert; bplus_tree_find_flow_dir gives the side.   *)
RebalanceInsert(m, key) ==
  LET side == IF m.pe[0].position >= MAX_ITEMS \div 2 THEN "right" ELSE "left"
      halves == AdjustedLeaf(m.pe[0].node.items, key)
      new == FreeIds(m.disk, NewNodes(m))
      allocated == WithDisk(m, WithNodes(m.disk, new))
  IN  CASE Len(new) = 1 -> SplitLeaf(allocated, side, halves, new[1], 0)
        [] Len(new) = 2 -> SplitLeaf(allocated, side, halves, new[1], new[2])
        [] Len(new) = 3 -> SplitLeafAndParent(allocated, side, halves,
                                              new[1], new[2], new[3])

(* Slip: a full leaf taken for one with room.                              *)
InsertItemSlip(m, key, errno) ==
  LET tb == InitTb(m, errno)
  IN  IF NrItems(m.pe[0].node) <= MAX_ITEMS
      THEN WithLeaf(m, Punched(m.pe[0].node.items, key))
      ELSE IF ~tb.ok THEN tb
      ELSE RebalanceInsert(tb, key)

(* bplus_tree_insert_item.                                                 *)
InsertItem(m, key, errno) ==
  LET tb == InitTb(m, errno)
  IN  IF NrItems(m.pe[0].node) # MAX_ITEMS
      THEN WithLeaf(m, Punched(m.pe[0].node.items, key))
      ELSE IF ~tb.ok THEN tb
      ELSE RebalanceInsert(tb, key)

-----------------------------------------------------------------------------
(* Deletion.                                                               *)

(* bplus_tree_delete_item_pos0: the key at the position of the leaf in its *)
(* parent becomes the first item of the node given.                        *)
PutParentKey(m, items, force) ==
  LET position == m.pe[1].position
      first == IF items = <<>> THEN 0 ELSE Head(items)
  IN  IF m.pe[1].id # 0 /\ (position # 0 \/ force)
      THEN [m EXCEPT !.pe[1].node.word[position] = first]
      ELSE m

SimpleDelete(m) ==
  LET position == m.pe[0].position
      before == m.pe[0].node.items
      items == SubSeq(before, 1, position) \o SubSeq(before, position + 2, Len(before))
      shifted == [m EXCEPT !.pe[0].node.items = items]
  IN  IF position = 0 THEN PutParentKey(shifted, items, FALSE) ELSE shifted

(* bplus_tree_delete_key: the key and the disk child of the leaf emptied   *)
(* leave the parent; a parent that is the root and has only this key       *)
(* leaves the tree to the leaf that took the items.                        *)
DeleteKey(m, from, survivor) ==
  LET parent == m.pe[1]
      position == parent.position - IF from = "node" THEN 1 ELSE 0
  IN  IF NrKeys(parent.node) # 1
      THEN [m EXCEPT !.pe[1].node = WithoutKey(@, position)]
      ELSE IF m.length >= 2 THEN m
      ELSE [m EXCEPT !.root = survivor, !.pe[1].node = MarkedForDelete(@)]

(* bplus_tree_delete_handle_case1: without a right sibling, merge into the *)
(* left one if there is room for all that is left.                         *)
MergeIntoLeft(m) ==
  LET deleted == SimpleDelete(m)
      items == deleted.pe[0].node.items
      sibling == Head(m.left[0])
      room == MAX_ITEMS - NrItems(sibling.node)
      merged == [deleted EXCEPT !.left[0][1].node.items = Merged(@, items),
                                !.pe[0].node.items = <<>>]
  IN  IF m.left[0] = <<>> THEN Failed(m)
      ELSE IF room = 0 \/ Len(items) >= MAX_ITEMS \div 2 \/ room < Len(items)
      THEN deleted
      ELSE DeleteKey(merged, "node", sibling.id)

(* bplus_tree_delete_handle_case2: with a right sibling, borrow its first  *)
(* item if it has enough, otherwise take them all.  A single item taken    *)
(* leaves a sibling that counts one item, a zero.                          *)
TakeFromRight(m) ==
  LET deleted == SimpleDelete(m)
      sibling == Head(m.right[0])
      taken == sibling.node.items
      left_over == IF Len(taken) = 1 THEN <<0>> ELSE <<>>
      borrowed == [deleted EXCEPT !.pe[0].node.items = Punched(@, Head(taken)),
                                  !.right[0][1].node.items = Tail(@)]
      merged == [deleted EXCEPT !.pe[0].node.items = Merged(@, taken),
                                !.right[0][1].node.items = left_over]
  IN  IF Len(taken) >= MAX_ITEMS \div 2
      THEN PutParentKey(borrowed, Tail(taken), TRUE)
      ELSE DeleteKey(merged, "sibling", m.pe[0].id)

(* bplus_tree_delete_handle_case3_1: the two children of the node two      *)
(* levels above the leaves become one, the new root.  The key between them *)
(* is the first item of the first leaf below child1 as it is on disk,      *)
(* before this operation has written anything.                             *)
MergeChildren(m) ==
  LET first == m.pe[2].position = 0
      siblings == IF first THEN m.right[1] ELSE m.left[1]
      child0 == IF first THEN m.pe[1] ELSE Head(siblings)
      child1 == IF first THEN Head(siblings) ELSE m.pe[1]
      leaf == Dc(child1.node, 0)
      key == Head(m.disk[leaf].items)
      merge == MergeInternal(child0.node, child1.node, key)
      done == [m EXCEPT !.root = child0.id, !.ok = @ /\ merge.ok,
                        !.pe[2].node = MarkedForDelete(@)]
      with_path == [done EXCEPT !.pe[1].node = IF first THEN merge.dest ELSE merge.src]
  IN  IF siblings = <<>> THEN Failed(m)
      ELSE IF IsLeaf(child0.node) \/ IsLeaf(child1.node) THEN Failed(m)
      ELSE IF child0.node.nr_items + child1.node.nr_items >= MAX_KEYS + MAX_DC
      THEN m
      ELSE IF leaf \notin DOMAIN m.disk THEN Failed(m)
      ELSE IF ~IsLeaf(m.disk[leaf]) \/ m.disk[leaf].items = <<>> \/ key = 0
      THEN Failed(m)
      ELSE IF first THEN [with_path EXCEPT !.right[1][1].node = merge.src]
                    ELSE [with_path EXCEPT !.left[1][1].node = merge.dest]

(* bplus_tree_rebalance_delete_handle.                                     *)
RebalanceDelete(m) ==
  LET leaves == IF m.right[0] = <<>> THEN MergeIntoLeft(m) ELSE TakeFromRight(m)
  IN  IF ~leaves.ok \/ m.length < 2 THEN leaves
      ELSE IF leaves.pe[2].node.nr_items < 3 THEN Failed(leaves)
      ELSE IF leaves.pe[2].node.nr_items = 3 THEN MergeChildren(leaves)
      ELSE leaves

(* bplus_tree_delete_item.                                                 *)
DeleteItem(m, errno) ==
  LET tb == InitTb(m, errno)
  IN  IF NrItems(m.pe[0].node) >= MAX_ITEMS \div 2 \/ m.length = 0
      THEN SimpleDelete(m)
      ELSE IF ~tb.ok THEN tb
      ELSE RebalanceDelete(tb)

-----------------------------------------------------------------------------
(* bplus_tree_flush_tb and bplus_tree_flush_traverse_path: the neighbours, *)
(* level by level, then the path from the leaf up, also where it has no    *)
(* element.                                                                *)
Neighbours(m, level) == m.left[level] \o m.right[level]
AllNeighbours(m) ==
  Neighbours(m, 0) \o Neighbours(m, 1) \o Neighbours(m, 2)
    \o Neighbours(m, 3) \o Neighbours(m, 4)
Path(m) == <<m.pe[0], m.pe[1], m.pe[2], m.pe[3], m.pe[4]>>

(* Slip: the path first.                                                   *)
ElementsSlip(m) == Path(m) \o AllNeighbours(m)

Elements(m) == AllNeighbours(m) \o Path(m)

(* A node without items is deleted as soon as it has been written.         *)
Written(m, element) ==
  IF element.id = 0 THEN m
  ELSE IF element.id \notin DOMAIN m.disk THEN Failed(m)
  ELSE IF NrItems(element.node) # 0
  THEN [m EXCEPT !.disk[element.id] = element.node]
  ELSE [m EXCEPT !.disk = [id \in DOMAIN @ \ {element.id} |-> m.disk[id]]]

(* m after each number of writes.                                          *)
Flush(m) ==
  LET flushed[n \in 0 .. Len(Elements(m))] ==
        IF n = 0 THEN m ELSE Written(flushed[n - 1], Elements(m)[n])
  IN  flushed

Flushed(m) == IF m.ok THEN Flush(m)[Len(Elements(m))] ELSE m

-----------------------------------------------------------------------------
(* The program ended inside the operation; what it left on disk is not     *)
(* looked at any more.                                                     *)
End ==
  /\ status' = "ended"
  /\ UNCHANGED <<disk, root, rc>>

Finish(m) ==
  \/ /\ ~m.ok
     /\ End
  \/ /\ m.ok
     /\ disk' = m.disk
     /\ root' = m.root
     /\ rc' = "EOK"
     /\ UNCHANGED status

Return(code) ==
  /\ rc' = code
  /\ UNCHANGED <<disk, root, status>>

(* Without a root node on disk bplus_tree_search_key may still return, with *)
(* whatever errno is; the path is empty then, which an insertion asserts   *)
(* against.  A node missing further down is searched for again and again.  *)
SearchKey(key) ==
  LET s == Search(key)
  IN  \/ s.end = "leaf" /\ Return(IF s.found THEN "EEXIST" ELSE "ENOENT")
      \/ s.end # "leaf" /\ End
      \/ s.end = "missing" /\ s.length = -1 /\ Return("ENOENT")

Insert(key) ==
  LET s == Search(key)
  IN  \/ s.end = "leaf" /\ s.found /\ Return("EEXIST")
      \/ /\ s.end = "leaf" /\ ~s.found
         /\ NewNodes(Memory(s)) <= Cardinality(NodeIds \ DOMAIN disk)  \* bound
         /\ \E errno \in BOOLEAN : Finish(Flushed(InsertItem(Memory(s), key, errno)))
      \/ s.end # "leaf" /\ End

Delete(key) ==
  LET s == Search(key)
  IN  \/ s.end = "leaf" /\ ~s.found /\ Return("ENOENT")
      \/ /\ s.end = "leaf" /\ s.found
         /\ \E errno \in BOOLEAN : Finish(Flushed(DeleteItem(Memory(s), errno)))
      \/ s.end # "leaf" /\ End
      \/ s.end = "missing" /\ s.length = -1 /\ Return("ENOENT")

InsertOnly ==
  /\ status = "running"
  /\ \E key \in Keys : SearchKey(key) \/ Insert(key)

Next ==
  /\ status = "running"
  /\ \E key \in Keys : SearchKey(key) \/ Insert(key) \/ Delete(key)

Spec == Init /\ [][Next]_vars
InsertSpec == Init /\ [][InsertOnly]_vars

-----------------------------------------------------------------------------
(* Properties                                                              *)

(* What the disk children of a node lead to, as far as it is on disk.      *)
Links(id) ==
  IF IsLeaf(disk[id]) THEN {}
  ELSE {Dc(disk[id], i) : i \in 0 .. NrKeys(disk[id])}

Children(id) == Links(id) \cap DOMAIN disk

(* The nodes of the tree.                                                  *)
WithChildren(S) == S \cup UNION {Children(id) : id \in S}
Reachable ==
  WithChildren(WithChildren(WithChildren(WithChildren(WithChildren(
    {root} \cap DOMAIN disk)))))

ItemsOf(node) == {node.items[i] : i \in DOMAIN node.items}
Items == (UNION {ItemsOf(disk[id]) : id \in Reachable}) \ {0}

Found(key) == LET s == Search(key) IN s.end = "leaf" /\ s.found

(* Every node and the root file stay within what the code can index: no     *)
(* leaf counts more items than it can hold, no internal node more keys.    *)
TypeOK ==
  /\ root \in NodeIds
  /\ DOMAIN disk \subseteq NodeIds
  /\ \A id \in DOMAIN disk :
       /\ disk[id].level \in Levels
       /\ disk[id].nr_items \in 0 .. MAX_KEYS + MAX_DC
       /\ ItemsOf(disk[id]) \subseteq Keys \cup {0}
       /\ Len(disk[id].items) <= MAX_ITEMS
       /\ disk[id].word \in [Words -> Keys \cup NodeIds \cup {0}]
  /\ rc \in {"EOK", "EEXIST", "ENOENT"}
  /\ status \in {"running", "ended"}

(* In a tree of up to two levels that keys were only inserted into, a      *)
(* search finds exactly the keys that are in leaves of the tree: the item  *)
(* and the key that go up at a split, the position bin_search descends by  *)
(* and the places adjust_internal makes agree; also in what a crash in an  *)
(* insertion leaves, and after the insertions that follow.                 *)
SearchFindsItems ==
  status = "running" /\ disk[root].level <= 1 =>
    \A key \in Keys : Found(key) <=> key \in Items

(* The tree that the code can build has three levels.  A second split of   *)
(* an internal node puts a fourth one straight above the second: from then *)
(* on the new root leads to two nodes only, and to a wrong level.          *)
UpToThreeLevels == \A id \in Reachable : disk[id].level <= 2

(* All leaves are at the same depth, in the whole tree or, once it has     *)
(* four levels, below each node of the third.  bplus_tree_search_key files *)
(* the nodes of the path by their level and relies on it.                  *)
Balanced ==
  status = "running" =>
    \A id \in Reachable : disk[id].level <= 2 =>
      \A child \in Children(id) : disk[child].level = disk[id].level - 1

(* What the test of the tree asserts after each insertion                  *)
(* (bplus_tree_tc_insert_handle) and of all keys after the last            *)
(* (bplus_tc_search_keys): the keys that were inserted are found.          *)
InsertedKeysFound ==
  status = "running" => \A key \in Items : Found(key)
=============================================================================
