-------------------------------- MODULE AVL --------------------------------
(***************************************************************************)
(* avl_tree: the balanced binary search tree.  A step is one call of       *)
(* avl_insert or avl_delete_node on the global root pointer avl_root; the  *)
(* pointer a call returns is not used by its callers, avl_root is set by   *)
(* the rotations themselves.                                               *)
(*                                                                         *)
(* A memory m is the record of what a call works on: heap and root, top    *)
(* the pointer that the recursive call below returned, and ok FALSE once   *)
(* an assertion failed or a NULL pointer was used.  Frame by frame, from   *)
(* the innermost one up, a call links top, updates the height of its node  *)
(* and balances it.                                                        *)
(***************************************************************************)
EXTENDS BinaryTree

VARIABLES
  heap,      (* the allocated nodes, by address                            *)
  avl_root,  (* the global root pointer                                    *)
  status     (* "running", or "ended" once a call did not return           *)

vars == <<heap, avl_root, status>>

AVL_MIN_HEIGHT == 1

NewNode(key) ==
  [data |-> key, height |-> AVL_MIN_HEIGHT, left |-> NULL, right |-> NULL]

Init ==
  /\ heap = <<>>
  /\ avl_root = NULL
  /\ status = "running"

-----------------------------------------------------------------------------
(* bst_get_node_height, bst_update_node_height, bst_get_balance_factor.    *)
Height(h, n) == IF n = NULL THEN 0 ELSE h[n].height

Greater(a, b) == IF a > b THEN a ELSE b

Updated(h, n) ==
  [h EXCEPT ![n].height = 1 + Greater(Height(h, h[n].left), Height(h, h[n].right))]

BalanceFactor(h, n) ==
  IF n = NULL THEN 0 ELSE Height(h, h[n].left) - Height(h, h[n].right)

Failed(m) == [m EXCEPT !.ok = FALSE]

(* The rotation that lifts the child of n on side over n: the subtree      *)
(* between the two changes its parent.                                     *)
Rotate(m, n, side) ==
  LET child == m.heap[n][side]
      linked == [m.heap EXCEPT ![n][side] = m.heap[child][Opposite(side)],
                               ![child][Opposite(side)] = n]
  IN  [m EXCEPT !.heap = Updated(Updated(linked, n), child),
                !.root = IF n = m.root THEN child ELSE m.root,
                !.top = child]

(* Slip: the left link of the lowered child keeps its value.               *)
SplRightRotateSlip(m, n) ==
  LET t1 == m.heap[n].left
      t2 == m.heap[t1].left
      linked == [m.heap EXCEPT
                   ![n] = [@ EXCEPT !.data = m.heap[t1].data,
                                    !.left = t2, !.right = t1],
                   ![t1] = [@ EXCEPT !.data = m.heap[n].data]]
  IN  IF t2 = NULL THEN Failed(m)
      ELSE [m EXCEPT !.heap = Updated(Updated(Updated(linked, t1), t2), n),
                     !.top = n]

(* bst_handle_spl_right_rotate, for a node n without a right child: n and  *)
(* its left child exchange their data, and that child becomes the right    *)
(* one.  The heights of the three nodes are updated, that of the grandchild *)
(* to what it is.                                                          *)
SplRightRotate(m, n) ==
  LET t1 == m.heap[n].left
      t2 == m.heap[t1].left
      linked == [m.heap EXCEPT
                   ![n] = [@ EXCEPT !.data = m.heap[t1].data,
                                    !.left = t2, !.right = t1],
                   ![t1] = [@ EXCEPT !.data = m.heap[n].data,
                                     !.left = m.heap[t1].right, !.right = NULL]]
  IN  IF t2 = NULL THEN Failed(m)
      ELSE [m EXCEPT !.heap = Updated(Updated(Updated(linked, t1), t2), n),
                     !.top = n]

RightRotate(m, n) ==
  IF m.heap[n].right = NULL THEN SplRightRotate(m, n) ELSE Rotate(m, n, "left")

(* Without a right child, bst_handle_spl_left_rotate starts from that      *)
(* child's right link: a NULL pointer.                                     *)
LeftRotate(m, n) ==
  IF m.heap[n].right = NULL THEN Failed(m) ELSE Rotate(m, n, "right")

(* The double cases rotate the child to the left, whichever side it is on. *)
RotateChild(m, n, side) ==
  LET below == LeftRotate(m, m.heap[n][side])
  IN  IF below.ok THEN [below EXCEPT !.heap[n][side] = below.top] ELSE below

(* The four cases of balancing at n.  A side is in outer or in inner by     *)
(* which subtree of the child on that side is the cause.                   *)
Rebalance(m, n, outer, inner) ==
  LET bf == BalanceFactor(m.heap, n)
      left == RotateChild(m, n, "left")
      right == RotateChild(m, n, "right")
  IN  CASE bf > 1 /\ "left" \in outer -> RightRotate(m, n)
        [] bf < -1 /\ "right" \in outer -> LeftRotate(m, n)
        [] bf > 1 /\ "left" \in inner -> IF left.ok THEN RightRotate(left, n) ELSE left
        [] bf < -1 /\ "right" \in inner -> IF right.ok THEN LeftRotate(right, n) ELSE right
        [] OTHER -> [m EXCEPT !.top = n]

(* bst_do_balance, after inserting key.                                    *)
DoBalance(m, n, key) ==
  LET Data(side) == m.heap[m.heap[n][side]].data
      other == {side \in Sides : m.heap[n][side] # NULL /\ Data(side) # key}
      outer == {side \in other : SideOf(key, Data(side)) = side}
  IN  Rebalance(m, n, outer, other \ outer)

(* Slip: a right child with equal subtrees is rotated as in the double     *)
(* case.                                                                   *)
DoBalanceAfterDeleteSlip(m, n) ==
  LET Factor(side) == BalanceFactor(m.heap, m.heap[n][side])
      outer == {side \in Sides :
                  IF side = "left" THEN Factor(side) >= 0 ELSE Factor(side) < 0}
  IN  Rebalance(m, n, outer, Sides \ outer)

(* avl_do_balance_after_delete_internal.                                   *)
DoBalanceAfterDelete(m, n) ==
  LET Factor(side) == BalanceFactor(m.heap, m.heap[n][side])
      outer == {side \in Sides :
                  IF side = "left" THEN Factor(side) >= 0 ELSE Factor(side) <= 0}
  IN  Rebalance(m, n, outer, Sides \ outer)

(* The frame f stores the pointer returned and updates the height; then it *)
(* balances.  The frames of a call return from the innermost one up.       *)
Linked(m, f) ==
  [m EXCEPT !.heap = Updated([@ EXCEPT ![f.node][f.side] = m.top], f.node)]

(* The calls of an insertion (of key) and of a deletion end differently.    *)
Balance(m, n, op, key) ==
  IF op = "insert" THEN DoBalance(m, n, key) ELSE DoBalanceAfterDelete(m, n)

Return(m, frames, op, key) ==
  LET after[i \in 0 .. Len(frames)] ==
        LET below == after[i - 1]
            f == frames[Len(frames) + 1 - i]
        IN  IF i = 0 THEN m
            ELSE IF below.ok THEN Balance(Linked(below, f), f.node, op, key)
            ELSE below
  IN  after[Len(frames)]

Finish(m) ==
  IF m.ok
  THEN /\ heap' = m.heap
       /\ avl_root' = m.root
       /\ UNCHANGED status
  ELSE /\ status' = "ended"
       /\ UNCHANGED <<heap, avl_root>>

-----------------------------------------------------------------------------
(* avl_insert(avl_root, key).  Where the key is found, the recursion       *)
(* returns NULL, which the frame above stores as its subtree.              *)
Insert(key) ==
  LET way == Descent(heap, avl_root, key)
      start == [heap |-> heap, root |-> avl_root, top |-> NULL, ok |-> TRUE]
  IN  IF way.end = NULL
      THEN \E n \in Nodes \ DOMAIN heap :
             Finish(Return(
               [start EXCEPT
                  !.heap = [a \in DOMAIN heap \cup {n} |->
                              IF a = n THEN NewNode(key) ELSE heap[a]],
                  !.root = IF avl_root = NULL THEN n ELSE avl_root,
                  !.top = n],
               way.frames, "insert", key))
      ELSE Finish(Return(start, way.frames, "insert", key))

(* Deletion at node n with at most one child.  A child's data moves up and *)
(* the child is freed, with both links of n cleared.                       *)
DeleteHere(m, n) ==
  LET child == IF m.heap[n].left # NULL THEN m.heap[n].left ELSE m.heap[n].right
      freed == IF child = NULL THEN n ELSE child
      moved == IF child = NULL THEN m.heap
               ELSE [m.heap EXCEPT ![n] = [@ EXCEPT !.data = m.heap[child].data,
                                                    !.left = NULL, !.right = NULL]]
      after == [m EXCEPT !.heap = [a \in DOMAIN moved \ {freed} |-> moved[a]],
                         !.root = IF m.root = freed THEN NULL ELSE m.root]
  IN  IF child = NULL THEN [after EXCEPT !.top = NULL]
      ELSE DoBalanceAfterDelete([after EXCEPT !.heap = Updated(after.heap, n)], n)

(* avl_delete_node(avl_root, key).  A node with two children gets the data *)
(* of its inorder successor, which is then deleted from its right subtree. *)
Delete(key) ==
  LET way == Descent(heap, avl_root, key)
      n == way.end
      start == [heap |-> heap, root |-> avl_root, top |-> NULL, ok |-> TRUE]
      in_suc == Leftmost(heap, heap[n].right).end
      copied == [heap EXCEPT ![n].data = heap[in_suc].data]
      below == Descent(copied, heap[n].right, heap[in_suc].data)
      deep == way.frames \o <<[node |-> n, side |-> "right"]>> \o below.frames
  IN  Finish(
        CASE n = NULL -> Return(start, way.frames, "delete", key)
          [] n # NULL /\ (\E s \in Sides : heap[n][s] = NULL) ->
               Return(DeleteHere(start, n), way.frames, "delete", key)
          [] OTHER ->
               Return(DeleteHere([start EXCEPT !.heap = copied], below.end), deep,
                      "delete", key))

(* avl_destroy_tree(avl_root); avl_root = NULL, as the callers do.         *)
Destroy ==
  /\ heap' = [n \in DOMAIN heap \ Reachable(heap, avl_root) |-> heap[n]]
  /\ avl_root' = NULL
  /\ UNCHANGED status

Next ==
  /\ status = "running"
  /\ \/ \E key \in Keys : Insert(key) \/ Delete(key)
     \/ Destroy

Spec == Init /\ [][Next]_vars

-----------------------------------------------------------------------------
TypeOK ==
  /\ DOMAIN heap \subseteq Nodes
  /\ \A n \in DOMAIN heap :
       heap[n] \in [data : Keys, height : 1 .. Cardinality(Nodes),
                   left : Links, right : Links]
  /\ avl_root \in Links
  /\ status \in {"running", "ended"}

Stored == Contents(heap, avl_root)

(* Through all rotations, exchanges of data, deletions and lost subtrees,  *)
(* avl_root leads to a search tree without a dangling link.                *)
SearchTree ==
  /\ IsTree(heap, avl_root)
  /\ InSearchOrder(heap, avl_root)

(* Each node's bst_height is the height of its subtree: the next call      *)
(* balances by it.                                                         *)
HeightsExact ==
  \A n \in Reachable(heap, avl_root) : heap[n].height = Updated(heap, n)[n].height

Balanced ==
  \A n \in Reachable(heap, avl_root) : BalanceFactor(heap, n) \in -1 .. 1

(* The place of key is left of some node's right child: the only place     *)
(* where inserting it can be a right left case.                            *)
RightThenLeft(key) ==
  \E n, r \in Reachable(heap, avl_root) :
    r = heap[n].right /\ heap[n].data < key /\ key < heap[r].data

(* Whenever no right left case can arise, inserting a new key into a       *)
(* balanced tree returns, adds that key and leaves a balanced tree.        *)
InsertKeepsBalance ==
  [][\A key \in Keys :
       /\ Balanced /\ key \notin Stored /\ ~RightThenLeft(key)
       /\ Insert(key)
       => Balanced' /\ Stored' = Stored \cup {key} /\ status' = "running"]_vars

(* Deleting a key from a balanced tree takes out that key and its node and *)
(* nothing else if it returns at all: moving up the only child's data and  *)
(* clearing both links is enough, for that child is a leaf.                *)
DeleteTakesOneKey ==
  [][\A key \in Keys :
       Balanced /\ Delete(key) /\ status' = "running" =>
         /\ Stored' = Stored \ {key}
         /\ Cardinality(DOMAIN heap \ DOMAIN heap') = Cardinality(Stored \cap {key})]_vars

(* Some node has a right child that is left heavy: the only shape in which *)
(* deleting a key can lead to a right left case.                           *)
LeftHeavyRightChild ==
  \E n \in Reachable(heap, avl_root) : BalanceFactor(heap, heap[n].right) > 0

(* avl_delete_node from a balanced tree without such a node returns, and   *)
(* leaves the tree balanced.                                               *)
DeleteKeepsBalance ==
  [][\A key \in Keys :
       Balanced /\ ~LeftHeavyRightChild /\ Delete(key) =>
         Balanced' /\ status' = "running"]_vars

(* avl_check_sanity as avl_tree_tc.c calls it after each insertion: it     *)
(* looks at the root and returns.                                          *)
Sane == BalanceFactor(heap, avl_root) \in -1 .. 1

(* After inserting a new key the tests assert that there is a root and     *)
(* that the tree is sane (avl_tree_tc.c:72): the call returns, to a sane   *)
(* tree.                                                                   *)
InsertReturnsSane ==
  [][\A key \in Keys :
       Balanced /\ key \notin Stored /\ Insert(key) => status' = "running" /\ Sane']_vars
=============================================================================
