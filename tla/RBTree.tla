------------------------------- MODULE RBTree -------------------------------
(***************************************************************************)
(* rb_tree: the red-black tree.  A step is one call of rb_tree_insert or   *)
(* rb_tree_delete_node on the global root pointer rb_tree_root; the pointer *)
(* a call returns is not used by its callers, rb_tree_root is set by the   *)
(* rotations themselves.  Insertion repairs the colours; deletion does     *)
(* not, the functions rb_tree_fix_delete_case1 to 5 have no caller.        *)
(*                                                                         *)
(* A memory m is the record of what a call works on: heap and root.  The   *)
(* code tells a left child from a right one by comparing data; that no two *)
(* nodes have the same data is part of SearchTree.                         *)
(***************************************************************************)
EXTENDS BinaryTree

VARIABLES
  heap,          (* the allocated nodes, by address                        *)
  rb_tree_root,  (* the global root pointer                                *)
  status         (* "running", or "ended" once a call did not return       *)

vars == <<heap, rb_tree_root, status>>

Colors == {"red", "black"}

(* Slip: the data are not copied into the memory cleared for them.         *)
NewNodeSlip(key, color, parent) ==
  [data |-> 0, color |-> color, parent |-> parent, left |-> NULL, right |-> NULL]

NewNode(key, color, parent) ==
  [data |-> key, color |-> color, parent |-> parent, left |-> NULL, right |-> NULL]

Init ==
  /\ heap = <<>>
  /\ rb_tree_root = NULL
  /\ status = "running"

-----------------------------------------------------------------------------
(* RB_TREE_GET_NODE_COLOR, and the relatives of a node.                    *)
Color(h, n) == IF n = NULL THEN "black" ELSE h[n].color
Parent(h, n) == IF n = NULL THEN NULL ELSE h[n].parent
GrandParent(h, n) == Parent(h, Parent(h, n))

(* The side a node is on below another one, found by comparing their data. *)
SideBelow(h, n, above) == SideOf(h[n].data, h[above].data)

Uncle(h, n) ==
  LET g == GrandParent(h, n)
  IN  IF g = NULL THEN NULL ELSE h[g][Opposite(SideBelow(h, n, g))]

Flipped(h, S) ==
  [n \in DOMAIN h |->
     IF n \in S THEN [h[n] EXCEPT !.color = IF @ = "red" THEN "black" ELSE "red"]
     ELSE h[n]]

(* h with the parent of n, if there is such a node.                        *)
WithParent(h, n, parent) == IF n = NULL THEN h ELSE [h EXCEPT ![n].parent = parent]

-----------------------------------------------------------------------------
(* Rotations.                                                              *)

(* Slip: the subtree between the two keeps its parent pointer.             *)
RotateSlip(m, n, side) ==
  LET h == m.heap
      child == h[n][side]
      between == h[child][Opposite(side)]
      turned == [h EXCEPT ![n] = [@ EXCEPT ![side] = between, !.parent = child],
                          ![child] = [@ EXCEPT ![Opposite(side)] = n, !.parent = h[n].parent]]
  IN  IF n = m.root THEN [heap |-> turned, root |-> child]
      ELSE [m EXCEPT !.heap = [turned EXCEPT
              ![h[n].parent][SideBelow(h, n, h[n].parent)] = child]]

(* The rotation that lifts the child of n on side over n: the subtree      *)
(* between the two changes its parent.                                     *)
Rotate(m, n, side) ==
  LET h == m.heap
      child == h[n][side]
      between == h[child][Opposite(side)]
      turned == WithParent(
                  [h EXCEPT ![n] = [@ EXCEPT ![side] = between, !.parent = child],
                            ![child] = [@ EXCEPT ![Opposite(side)] = n,
                                                 !.parent = h[n].parent]],
                  between, n)
  IN  IF n = m.root THEN [heap |-> turned, root |-> child]
      ELSE [m EXCEPT !.heap = [turned EXCEPT
              ![h[n].parent][SideBelow(h, n, h[n].parent)] = child]]

(* rb_tree_handle_spl_right_rotate, for a node n without a right child: n   *)
(* and its left child exchange data and colours, and that child becomes    *)
(* the right one.  The parent of n and rb_tree_root stay.                  *)
SplRightRotate(m, n) ==
  LET h == m.heap
      t1 == h[n].left
      t2 == h[t1].left
      turned == [h EXCEPT
                   ![n] = [@ EXCEPT !.data = h[t1].data, !.color = h[t1].color,
                                    !.left = t2, !.right = t1],
                   ![t1] = [@ EXCEPT !.data = h[n].data, !.color = h[n].color,
                                     !.left = h[t1].right, !.right = NULL]]
  IN  [m EXCEPT !.heap = WithParent(turned, t2, n)]

LeftRotate(m, n) == Rotate(m, n, "right")

RightRotate(m, n) ==
  IF m.heap[n].right = NULL THEN SplRightRotate(m, n) ELSE Rotate(m, n, "left")

(* The node that is on top of the subtree of n after a rotation: its       *)
(* former child, but n itself after the special rotation.                  *)
Top(m, n, side) ==
  IF side = "left" /\ m.heap[n].right = NULL THEN n ELSE m.heap[n][side]

Lifted(m, n, side) == IF side = "left" THEN RightRotate(m, n) ELSE LeftRotate(m, n)

-----------------------------------------------------------------------------
(* The violations rb_tree_check_fix_violation looks for at node n.         *)
RedPair(h, n) == Color(h, n) = "red" /\ Color(h, Parent(h, n)) = "red"

Violation1(h, n) == RedPair(h, n) /\ Color(h, Uncle(h, n)) = "red"

(* A node on the inner side of its parent, as seen from the grandparent.   *)
Inner(h, n) ==
  SideBelow(h, n, h[n].parent) # SideBelow(h, h[n].parent, GrandParent(h, n))

(* Slip: the colours of the root are flipped too.                          *)
HandleViolation1Slip(m, n) ==
  [m EXCEPT !.heap = Flipped(@, {Uncle(@, n), Parent(@, n), GrandParent(@, n)})]

(* Parent and uncle are flipped, and the grandparent unless it is the root. *)
HandleViolation1(m, n) ==
  [m EXCEPT !.heap =
     Flipped(@, {Uncle(@, n), Parent(@, n), GrandParent(@, n)} \ {m.root})]

(* Slip: the colours are exchanged before the special rotation only.       *)
HandleViolation3Slip(m, n) ==
  LET parent == Parent(m.heap, n)
      grand_parent == GrandParent(m.heap, n)
      after == Lifted(m, grand_parent, SideBelow(m.heap, n, parent))
  IN  IF m.heap[grand_parent].right = NULL THEN after
      ELSE [after EXCEPT !.heap[parent].color = after.heap[grand_parent].color,
                         !.heap[grand_parent].color = after.heap[parent].color]

(* The grandparent is rotated, and the colours of the nodes that were      *)
(* parent and grandparent before the rotation are exchanged.               *)
HandleViolation3(m, n) ==
  LET parent == Parent(m.heap, n)
      grand_parent == GrandParent(m.heap, n)
      after == Lifted(m, grand_parent, SideBelow(m.heap, n, parent))
  IN  [after EXCEPT !.heap[parent].color = after.heap[grand_parent].color,
                    !.heap[grand_parent].color = after.heap[parent].color]

(* The parent is rotated, then the case is that of the node now below.     *)
HandleViolation2(m, n) ==
  LET parent == Parent(m.heap, n)
      side == SideBelow(m.heap, n, parent)
      after == Lifted(m, parent, side)
  IN  HandleViolation3(after, after.heap[Top(m, parent, side)][Opposite(side)])

(* rb_tree_check_fix_violation(node): up from grandparent to grandparent   *)
(* while violation 1 is found, the last time at a grandchild of the root,  *)
(* then one of the other two.                                              *)
CheckFixViolation(m, node) ==
  LET Flip(s) ==
        [m |-> HandleViolation1(s.m, s.node),
         node |-> IF GrandParent(s.m.heap, s.node) = s.m.root THEN NULL
                  ELSE GrandParent(s.m.heap, s.node)]
      fixed[i \in 0 .. Cardinality(DOMAIN m.heap)] ==
        IF i = 0 THEN [m |-> m, node |-> node]
        ELSE LET s == fixed[i - 1]
             IN  IF Violation1(s.m.heap, s.node) THEN Flip(s) ELSE s
      last == fixed[Cardinality(DOMAIN m.heap)]
  IN  IF ~RedPair(last.m.heap, last.node) THEN last.m
      ELSE IF Inner(last.m.heap, last.node) THEN HandleViolation2(last.m, last.node)
      ELSE HandleViolation3(last.m, last.node)

-----------------------------------------------------------------------------
LastFrame(way) == way.frames[Len(way.frames)]

Allocated(n, node) ==
  [a \in DOMAIN heap \cup {n} |-> IF a = n THEN node ELSE heap[a]]

(* rb_tree_alloc_node.  Which free address malloc returns is left open: it *)
(* makes no difference while no link dangles (SearchTree, ParentsExact).   *)
Fresh == CHOOSE n \in Nodes : n \notin DOMAIN heap

(* The memory after a call that returned.                                  *)
Return(m) ==
  /\ heap' = m.heap
  /\ rb_tree_root' = m.root
  /\ UNCHANGED status

(* rb_tree_insert(rb_tree_root, key).  The first node is made black.  The  *)
(* frames of the others also set the parent of each node on the way, which *)
(* it is already (ParentsExact).                                           *)
InsertFirst(key) ==
  /\ rb_tree_root = NULL
  /\ DOMAIN heap # Nodes
  /\ Return([heap |-> Allocated(Fresh, NewNode(key, "black", NULL)), root |-> Fresh])

InsertNew(key) ==
  LET way == Descent(heap, rb_tree_root, key)
      above == LastFrame(way)
      linked == [Allocated(Fresh, NewNode(key, "red", above.node)) EXCEPT
                   ![above.node][above.side] = Fresh]
  IN  /\ rb_tree_root # NULL
      /\ way.end = NULL
      /\ DOMAIN heap # Nodes
      /\ Return(CheckFixViolation([heap |-> linked, root |-> rb_tree_root], Fresh))

(* Where the key is found, NULL is returned to a frame that asserts it is  *)
(* not, or from the root to rb_tree_check_violation1, which asserts it too. *)
InsertFound(key) ==
  /\ Descent(heap, rb_tree_root, key).end # NULL
  /\ status' = "ended"
  /\ UNCHANGED <<heap, rb_tree_root>>

Insert(key) == InsertFirst(key) \/ InsertNew(key) \/ InsertFound(key)

-----------------------------------------------------------------------------
(* Deletion at node n with at most one child.  A child's data moves up and *)
(* the child is freed, with both links of n cleared; without one, n is     *)
(* freed, and the frame above stores the NULL returned.                    *)
DeleteHere(h, n, frames) ==
  LET child == IF h[n].left # NULL THEN h[n].left ELSE h[n].right
      freed == IF child = NULL THEN n ELSE child
      moved == IF child # NULL
               THEN [h EXCEPT ![n] = [@ EXCEPT !.data = h[child].data,
                                               !.left = NULL, !.right = NULL]]
               ELSE IF frames = <<>> THEN h
               ELSE [h EXCEPT ![frames[Len(frames)].node][frames[Len(frames)].side] = NULL]
  IN  [heap |-> [a \in DOMAIN moved \ {freed} |-> moved[a]],
       root |-> IF rb_tree_root = freed THEN NULL ELSE rb_tree_root]

(* rb_tree_delete_node(rb_tree_root, key).  A node with two children gets  *)
(* the data of its inorder successor, which is then deleted from its right *)
(* subtree.  A key that is not there changes nothing.                      *)
Delete(key) ==
  LET way == Descent(heap, rb_tree_root, key)
      n == way.end
      in_suc == Leftmost(heap, heap[n].right)
      copied == [heap EXCEPT ![n].data = heap[in_suc.end].data]
      deep == <<[node |-> n, side |-> "right"]>> \o in_suc.frames
  IN  /\ n # NULL
      /\ IF \E s \in Sides : heap[n][s] = NULL
         THEN Return(DeleteHere(heap, n, way.frames))
         ELSE Return(DeleteHere(copied, in_suc.end, deep))

(* rb_tree_destroy_tree(rb_tree_root); rb_tree_root = NULL, as the callers *)
(* do.                                                                     *)
Destroy ==
  Return([heap |-> [n \in DOMAIN heap \ Reachable(heap, rb_tree_root) |-> heap[n]],
          root |-> NULL])

Next ==
  /\ status = "running"
  /\ \/ \E key \in Keys : Insert(key) \/ Delete(key)
     \/ Destroy

Spec == Init /\ [][Next]_vars

-----------------------------------------------------------------------------
(* Properties                                                              *)

TypeOK ==
  /\ DOMAIN heap \subseteq Nodes
  /\ \A n \in DOMAIN heap :
       heap[n] \in [data : Keys, color : Colors,
                   parent : Links, left : Links, right : Links]
  /\ rb_tree_root \in Links
  /\ status \in {"running", "ended"}

Stored == Contents(heap, rb_tree_root)

(* Through all rotations, exchanges of data, deletions and lost subtrees,  *)
(* rb_tree_root leads to a search tree without a dangling link.            *)
SearchTree ==
  /\ IsTree(heap, rb_tree_root)
  /\ InSearchOrder(heap, rb_tree_root)

(* The parent pointers of the tree are its links backwards, and only the   *)
(* root has none: the next insertion finds uncle and grandparent by them.  *)
ParentsExact ==
  \A n \in Reachable(heap, rb_tree_root) :
    IF n = rb_tree_root THEN heap[n].parent = NULL
    ELSE /\ heap[n].parent \in Reachable(heap, rb_tree_root)
         /\ \E s \in Sides : heap[heap[n].parent][s] = n

(* What the repairs and later calls rely on: a search tree whose parent    *)
(* pointers agree with its links, after any calls.                         *)
WellLinked == SearchTree /\ ParentsExact

(* rb_tree_validate_node: the root is black, and the parent of a red node, *)
(* too; also after deletions, which repair no colours.                     *)
ValidColors ==
  /\ Color(heap, rb_tree_root) = "black"
  /\ \A n \in Reachable(heap, rb_tree_root) : ~RedPair(heap, n)

(* "Every path must have same no. of black nodes" (Notes): the paths from  *)
(* the root to each NULL link.                                             *)
BlackHeightsEqual ==
  LET Path(n) == LET frames == Descent(heap, rb_tree_root, heap[n].data).frames
                 IN  {n} \cup {frames[i].node : i \in DOMAIN frames}
      Blacks(n) == Cardinality({a \in Path(n) : heap[a].color = "black"})
      ends == {n \in Reachable(heap, rb_tree_root) : \E s \in Sides : heap[n][s] = NULL}
  IN  Cardinality({Blacks(n) : n \in ends}) <= 1

(* Inserting a key that is not there returns, whatever the tree, and adds  *)
(* that key and its node.  Into a tree of equal black heights, the repair  *)
(* keeps them equal.                                                       *)
InsertAddsOneKey ==
  [][\A key \in Keys \ Stored :
       Insert(key) =>
         /\ status' = "running"
         /\ Stored' = Stored \cup {key}
         /\ BlackHeightsEqual => BlackHeightsEqual']_vars

(* Deleting a key from a tree of equal black heights takes out that key    *)
(* and its node and nothing else: moving up the only child's data and      *)
(* clearing both links is enough, for that child is a leaf.                *)
DeleteTakesOneKey ==
  [][\A key \in Stored :
       BlackHeightsEqual /\ Delete(key) =>
         /\ Stored' = Stored \ {key}
         /\ Cardinality(DOMAIN heap') = Cardinality(DOMAIN heap) - 1]_vars
=============================================================================
