----------------------------- MODULE BPlusNode -----------------------------
(***************************************************************************)
(* b_plus_tree: one node and the routines that work inside nodes.  A node  *)
(* is a block head and an array of words.  A leaf's words are its items; a *)
(* leaf never has a hole, so its items are a sequence here.  An internal   *)
(* node's words are MAX_KEYS keys followed by MAX_DC disk children and one *)
(* spare word: nothing keeps an index inside its part of the array, so the *)
(* array is modelled word by word, the word after the last key being disk  *)
(* child 0 and the word before disk child 0 the last key.                  *)
(* Items, keys and disk children are inode numbers, 0 where there is none. *)
(***************************************************************************)
EXTENDS Integers, Sequences

CONSTANTS
  MAX_ITEMS,   (* items a leaf can hold                                    *)
  MAX_KEYS     (* keys an internal node can hold                           *)

(* Splitting an internal node leaves a key in both halves only from three  *)
(* keys on (the code asserts it), and no free place among the keys of the  *)
(* lower half only if the number of keys is odd (63 in a node of 1024      *)
(* bytes); a leaf is split in two equal halves.                            *)
ASSUME BPlusNodeAssumption ==
  /\ MAX_KEYS \in Nat /\ MAX_KEYS >= 3 /\ MAX_KEYS % 2 = 1
  /\ MAX_ITEMS \in Nat \ {0} /\ MAX_ITEMS % 2 = 0

MAX_DC == MAX_KEYS + 1
BTREE_LEAF_LEVEL == 0
Words == 0 .. MAX_KEYS + MAX_DC

(* What bplus_tree_format_node writes.                                     *)
FormattedNode ==
  [level |-> BTREE_LEAF_LEVEL, nr_items |-> 0, items |-> <<>>,
   word |-> [w \in Words |-> 0]]

IsLeaf(node) == node.level = BTREE_LEAF_LEVEL
NrItems(node) == IF IsLeaf(node) THEN Len(node.items) ELSE node.nr_items
NR_KEYS(nr_items) == (nr_items - 1) \div 2
NrKeys(node) == NR_KEYS(node.nr_items)
MarkedForDelete(node) == [node EXCEPT !.nr_items = 0, !.items = <<>>]

Key(node, position) == node.word[position]
Dc(node, position) == node.word[MAX_KEYS + position]

-----------------------------------------------------------------------------
(* bin_search: the position of the key in a leaf, or where it belongs; in  *)
(* an internal node the position of the disk child to follow.  The window  *)
(* loses a position in each pass of the loop.                              *)
BinSearch(node, key) ==
  LET last == IF IsLeaf(node) THEN NrItems(node) - 1
                              ELSE NR_KEYS(node.nr_items - 1)
      At(mid) == IF IsLeaf(node) THEN node.items[mid + 1] ELSE Key(node, mid)
      Pass(w) ==
        LET mid == (w.position + w.end) \div 2
        IN  IF w.found \/ w.position > w.end THEN w
            ELSE IF At(mid) > key THEN [w EXCEPT !.end = mid - 1]
            ELSE IF At(mid) < key THEN [w EXCEPT !.position = mid + 1]
            ELSE [w EXCEPT !.found = TRUE,
                           !.position = IF IsLeaf(node) THEN mid ELSE mid + 1]
      window[n \in 0 .. last + 1] ==
        IF n = 0 THEN [position |-> 0, end |-> last, found |-> FALSE]
                 ELSE Pass(window[n - 1])
  IN  window[last + 1]

-----------------------------------------------------------------------------
Least(S) == CHOOSE i \in S : \A j \in S : i <= j

(* Where a loop that looks for a position stops if it does not find one    *)
(* before the end.                                                         *)
FirstOr(S, end) == IF S = {} THEN end ELSE Least(S)

(* Slip: the larger items not shifted.                                     *)
PunchedSlip(items, item) ==
  LET place == FirstOr({i \in 1 .. Len(items) : item < items[i]}, Len(items) + 1)
  IN  [i \in 1 .. Len(items) \cup {place} |-> IF i = place THEN item ELSE items[i]]

(* Leaves.  bplus_tree_shift_right and bplus_tree_punch_item: before the   *)
(* first larger item, after all others.                                    *)
Punched(items, item) ==
  LET place == FirstOr({i \in 1 .. Len(items) : item < items[i]}, Len(items) + 1)
  IN  [i \in 1 .. Len(items) + 1 |-> IF i < place THEN items[i]
                                    ELSE IF i = place THEN item
                                    ELSE items[i - 1]]

(* Slip: the loop over the items one off.                                  *)
MergedSlip(items, more) ==
  LET taken[n \in 1 .. Len(more)] ==
        IF n = 1 THEN items ELSE Punched(taken[n - 1], more[n])
  IN  IF more = <<>> THEN items ELSE taken[Len(more)]

(* bplus_tree_flow_item for each of more, from the first to the last.      *)
Merged(items, more) ==
  LET taken[n \in 0 .. Len(more)] ==
        IF n = 0 THEN items ELSE Punched(taken[n - 1], more[n])
  IN  taken[Len(more)]

(* Slip: the comparison turned round.                                      *)
AdjustedLeafSlip(items, item) ==
  LET kept == SubSeq(items, 1, Len(items) - MAX_ITEMS \div 2)
      flown == SubSeq(items, Len(kept) + 1, Len(items))
  IN  IF kept[Len(kept)] < item
      THEN [leaf |-> Punched(kept, item), new |-> flown]
      ELSE [leaf |-> kept, new |-> Punched(flown, item)]

(* bplus_tree_adjust_leaf: the upper half of a full leaf goes to the new   *)
(* leaf, then the item goes to the half it fits into.                      *)
AdjustedLeaf(items, item) ==
  LET kept == SubSeq(items, 1, Len(items) - MAX_ITEMS \div 2)
      flown == SubSeq(items, Len(kept) + 1, Len(items))
  IN  IF kept[Len(kept)] > item
      THEN [leaf |-> Punched(kept, item), new |-> flown]
      ELSE [leaf |-> kept, new |-> Punched(flown, item)]

-----------------------------------------------------------------------------
(* Internal nodes.  The words from first on move one up, to last; value    *)
(* takes the place of the first.                                           *)
Inserted(word, first, last, value) ==
  [w \in Words |-> IF w = first THEN value
                   ELSE IF w \in first + 1 .. last THEN word[w - 1]
                   ELSE word[w]]

(* The word at first goes, the words after it move one down, and the last  *)
(* one is zeroed.                                                          *)
Removed(word, first, last) ==
  [w \in Words |-> IF w \in first .. last - 1 THEN word[w + 1]
                   ELSE IF w = last THEN 0
                   ELSE word[w]]

(* Where bplus_tree_shift_right_keys makes place for key.                  *)
KeyPlace(node, key, nr_keys) ==
  FirstOr({i \in 0 .. nr_keys - 1 : key < Key(node, i)}, nr_keys)

(* Slip: the level counted from one instead of zero.                       *)
InternalNodeSlip(level, key, dc0, dc1) ==
  [FormattedNode EXCEPT
     !.level = level + 1, !.nr_items = 3,
     !.word[0] = key, !.word[MAX_KEYS] = dc0, !.word[MAX_KEYS + 1] = dc1]

(* bplus_tree_init_internal_node.                                          *)
InternalNode(level, key, dc0, dc1) ==
  [FormattedNode EXCEPT
     !.level = level, !.nr_items = 3,
     !.word[0] = key, !.word[MAX_KEYS] = dc0, !.word[MAX_KEYS + 1] = dc1]

(* Slip: the disk children behind the new one not shifted.                 *)
AdjustedInternalSlip(node, nr_keys, nr_dc, key, dc) ==
  LET i == KeyPlace(node, key, nr_keys)
      j == IF i < nr_dc THEN i + 1 ELSE nr_dc
  IN  [node EXCEPT
         !.word = [Inserted(@, i, nr_keys, key) EXCEPT ![MAX_KEYS + j] = dc],
         !.nr_items = @ + 2]

(* bplus_tree_adjust_internal.                                             *)
AdjustedInternal(node, nr_keys, nr_dc, key, dc) ==
  LET i == KeyPlace(node, key, nr_keys)
      j == IF i < nr_dc THEN i + 1 ELSE nr_dc
      keys == Inserted(node.word, i, nr_keys, key)
  IN  [node EXCEPT
         !.word = Inserted(keys, MAX_KEYS + j, MAX_KEYS + nr_dc, dc),
         !.nr_items = @ + 2]

(* bplus_tree_shift_left_dc and bplus_tree_shift_left_keys, as             *)
(* bplus_tree_delete_key calls them.                                       *)
WithoutKey(node, position) ==
  LET nr_keys == NrKeys(node)
      dcs == Removed(node.word, MAX_KEYS + position + 1, MAX_KEYS + nr_keys)
  IN  [node EXCEPT !.word = Removed(dcs, position, nr_keys - 1),
                   !.nr_items = @ - 2]

(* bplus_tree_flow_key and bplus_tree_flow_dc on a pair of nodes.  ok      *)
(* turns FALSE when the word written to was not free: an assertion.        *)
FlowKey(pair, src_pos, nr_keys_dest) ==
  LET key == Key(pair.src, src_pos)
      i == KeyPlace(pair.dest, key, nr_keys_dest)
  IN  [src |-> [pair.src EXCEPT !.word[src_pos] = 0, !.nr_items = @ - 1],
       dest |-> [pair.dest EXCEPT !.word = Inserted(@, i, nr_keys_dest, key),
                                  !.nr_items = @ + 1],
       ok |-> pair.ok /\ (i < nr_keys_dest \/ Key(pair.dest, i) = 0)]

FlowDc(pair, src_pos, dest_pos) ==
  [src |-> [pair.src EXCEPT !.word[MAX_KEYS + src_pos] = 0,
                            !.nr_items = @ - 1],
   dest |-> [pair.dest EXCEPT !.word[MAX_KEYS + dest_pos] = Dc(pair.src, src_pos),
                              !.nr_items = @ + 1],
   ok |-> pair.ok /\ Dc(pair.dest, dest_pos) = 0]

(* The upper half of a full internal node's keys, and of its disk children *)
(* the ones that go with them and one more, flow to a new node of the same *)
(* level (bplus_tree_flow_item_case2).                                     *)
SplitInternal(node) ==
  LET nr_keys == NrKeys(node)
      nr_flow == nr_keys \div 2
      blank == [FormattedNode EXCEPT !.level = node.level]
      keyed[i \in 0 .. nr_flow] ==
        IF i = 0 THEN [src |-> node, dest |-> blank, ok |-> TRUE]
                 ELSE FlowKey(keyed[i - 1], nr_keys - i, i - 1)
      flown[i \in 0 .. nr_flow + 1] ==
        IF i = 0 THEN keyed[nr_flow]
                 ELSE FlowDc(flown[i - 1], nr_keys + 1 - i, nr_flow + 1 - i)
  IN  flown[nr_flow + 1]

(* Two siblings become one, key between their keys: all of child1 flows to *)
(* child0 (bplus_tree_delete_handle_case3_1).                              *)
MergeInternal(child0, child1, key) ==
  LET nr_keys0 == NrKeys(child0)
      nr_keys1 == NrKeys(child1)
      punched == [child0 EXCEPT !.word[nr_keys0] = key, !.nr_items = @ + 1]
      keyed[i \in 0 .. nr_keys1] ==
        IF i = 0 THEN [src |-> child1, dest |-> punched, ok |-> TRUE]
                 ELSE FlowKey(keyed[i - 1], i - 1, nr_keys0 + i)
      flown[i \in 0 .. nr_keys1 + 1] ==
        IF i = 0 THEN keyed[nr_keys1]
                 ELSE FlowDc(flown[i - 1], i - 1, nr_keys0 + i)
  IN  flown[nr_keys1 + 1]
=============================================================================
