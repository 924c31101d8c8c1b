-------------------------------- MODULE BST --------------------------------
(***************************************************************************)
(* bst: the unbalanced binary search tree.  Its nodes are in a heap,       *)
(* bst_root is the global root pointer.  A step is one call of bst_insert  *)
(* or bst_delete_node on bst_root; malloc may return any address that is   *)
(* free, one that a link still names too.  A call that fails an assertion  *)
(* or uses memory that is not allocated ends the program.                  *)
(***************************************************************************)
EXTENDS BinaryTree

VARIABLES
  heap,      (* the allocated nodes, by address                            *)
  bst_root,  (* the global root pointer                                    *)
  status     (* "running", or "ended" once a call did not return           *)

vars == <<heap, bst_root, status>>

Init ==
  /\ heap = <<>>
  /\ bst_root = NULL
  /\ status = "running"

(* bst_alloc_node.                                                         *)
Allocated(n, key) ==
  [m \in DOMAIN heap \cup {n} |->
     IF m = n THEN [data |-> key, left |-> NULL, right |-> NULL] ELSE heap[m]]

(* Slip: bst_dealloc_node frees the data but not the node.                 *)
WithoutSlip(h, n) == [h EXCEPT ![n].data = NULL]

(* bst_dealloc_node.                                                       *)
Without(h, n) == [m \in DOMAIN h \ {n} |-> h[m]]

(* An assertion failed, or memory that is not allocated was used.          *)
End ==
  /\ status' = "ended"
  /\ UNCHANGED <<heap, bst_root>>

LastFrame(way) == way.frames[Len(way.frames)]

-----------------------------------------------------------------------------
(* bst_insert(bst_root, key) of a key the search does not find.            *)
InsertNew(key) ==
  LET way == Descent(heap, bst_root, key)
  IN  /\ way.end = NULL
      /\ \E n \in Nodes \ DOMAIN heap :
           IF way.frames = <<>>
           THEN /\ heap' = Allocated(n, key)
                /\ bst_root' = n
           ELSE /\ heap' = [Allocated(n, key) EXCEPT
                              ![LastFrame(way).node][LastFrame(way).side] = n]
                /\ UNCHANGED bst_root
      /\ UNCHANGED status

(* bst_insert returns NULL for a key it finds, and the caller's frame      *)
(* stores that as its subtree; bst_root stays what it is.                  *)
InsertFound(key) ==
  LET way == Descent(heap, bst_root, key)
  IN  /\ way.end \in DOMAIN heap
      /\ heap' = IF way.frames = <<>> THEN heap
                 ELSE [heap EXCEPT
                         ![LastFrame(way).node][LastFrame(way).side] = NULL]
      /\ UNCHANGED <<bst_root, status>>

InsertEnds(key) ==
  /\ Descent(heap, bst_root, key).end \notin DOMAIN heap \cup {NULL}
  /\ End

Insert(key) == InsertNew(key) \/ InsertFound(key) \/ InsertEnds(key)

-----------------------------------------------------------------------------
(* bst_traverse_bst for a deletion: the node to delete and its parent.     *)
Target(key) == Descent(heap, bst_root, key).end
Parent(key) == LastFrame(Descent(heap, bst_root, key)).node

Children(n) == {heap[n][s] : s \in Sides} \ {NULL}

(* bst_delete_node_1: the root, or both links of the parent, are cleared.  *)
DeleteLeaf(key) ==
  LET n == Target(key)
  IN  /\ n \in DOMAIN heap
      /\ Children(n) = {}
      /\ IF n = bst_root
         THEN /\ bst_root' = NULL
              /\ heap' = Without(heap, n)
         ELSE /\ heap' = Without([heap EXCEPT ![Parent(key)].left = NULL,
                                              ![Parent(key)].right = NULL], n)
              /\ UNCHANGED bst_root
      /\ UNCHANGED status

(* bst_delete_node_2: the parent gets the child on the side the child has  *)
(* in the deleted node.                                                    *)
DeleteOneChild(key) ==
  LET n == Target(key)
      side == IF heap[n].left # NULL THEN "left" ELSE "right"
  IN  /\ n \in DOMAIN heap
      /\ \E s \in Sides : heap[n][s] = NULL
      /\ Children(n) # {}
      /\ IF n = bst_root
         THEN /\ bst_root' = heap[n][side]
              /\ heap' = Without(heap, n)
         ELSE /\ heap' = Without([heap EXCEPT ![Parent(key)][side] = heap[n][side]], n)
              /\ UNCHANGED bst_root
      /\ UNCHANGED status

(* Slip: the successor's right subtree is forgotten.                       *)
DeleteTwoChildrenSlip(key) ==
  LET n == Target(key)
      way == Leftmost(heap, heap[n].right)
      in_suc == way.end
      side == IF way.frames # <<>> THEN "left" ELSE "right"
  IN  /\ n \in DOMAIN heap
      /\ \A s \in Sides : heap[n][s] # NULL
      /\ in_suc \in DOMAIN heap
      /\ heap' = Without([heap EXCEPT ![n].data = heap[in_suc].data,
                                      ![n][side] = NULL], in_suc)
      /\ UNCHANGED <<bst_root, status>>

(* bst_delete_node_3: the node gets the data of its inorder successor,     *)
(* which is freed, and the successor's right subtree as its own right      *)
(* subtree, or as its left one when the successor is not its child.        *)
DeleteTwoChildren(key) ==
  LET n == Target(key)
      way == Leftmost(heap, heap[n].right)
      in_suc == way.end
      side == IF way.frames # <<>> THEN "left" ELSE "right"
  IN  /\ n \in DOMAIN heap
      /\ \A s \in Sides : heap[n][s] # NULL
      /\ in_suc \in DOMAIN heap
      /\ heap[in_suc].left = NULL
      /\ heap' = Without([heap EXCEPT ![n].data = heap[in_suc].data,
                                      ![n][side] = heap[in_suc].right], in_suc)
      /\ UNCHANGED <<bst_root, status>>

(* No node with key (an assertion fails), or a dangling link on the way to *)
(* it or to its successor.                                                 *)
DeleteEnds(key) ==
  LET n == Target(key)
  IN  /\ \/ n \notin DOMAIN heap
         \/ /\ n \in DOMAIN heap
            /\ \A s \in Sides : heap[n][s] # NULL
            /\ Leftmost(heap, heap[n].right).end \notin DOMAIN heap
      /\ End

Delete(key) ==
  DeleteLeaf(key) \/ DeleteOneChild(key) \/ DeleteTwoChildren(key) \/ DeleteEnds(key)

-----------------------------------------------------------------------------
(* bst_destroy_tree(bst_root); bst_root = NULL, as the callers do.  What   *)
(* is not a tree has memory that is freed twice.                           *)
Destroy ==
  IF IsTree(heap, bst_root)
  THEN /\ heap' = [n \in DOMAIN heap \ Reachable(heap, bst_root) |-> heap[n]]
       /\ bst_root' = NULL
       /\ UNCHANGED status
  ELSE End

Next ==
  /\ status = "running"
  /\ \/ \E key \in Keys : Insert(key) \/ Delete(key)
     \/ Destroy

Spec == Init /\ [][Next]_vars

-----------------------------------------------------------------------------
TypeOK ==
  /\ DOMAIN heap \subseteq Nodes
  /\ \A n \in DOMAIN heap :
       heap[n] \in [data : Keys, left : Links, right : Links]
  /\ bst_root \in Links
  /\ status \in {"running", "ended"}

Stored == Contents(heap, bst_root)

(* The links from bst_root form a search tree.                             *)
Sound ==
  /\ IsTree(heap, bst_root)
  /\ InSearchOrder(heap, bst_root)

(* In a search tree, inserting a key that is not there returns, adds that  *)
(* key only, and leaves a search tree, whatever was deleted before.        *)
InsertAddsOneKey ==
  [][\A key \in Keys :
       Sound /\ key \notin Stored /\ Insert(key) =>
         Sound' /\ Stored' = Stored \cup {key} /\ status' = "running"]_vars

(* The positions at which deletion links what is left: a leaf without a    *)
(* sibling, a node with one child on the side the node itself has at its   *)
(* parent, a node whose right child is its inorder successor, the root     *)
(* with one child or none.                                                 *)
LinkedRight(key) ==
  LET way == Descent(heap, bst_root, key)
      n == way.end
      side == LastFrame(way).side
  IN  CASE Children(n) = {} ->
             n = bst_root \/ Children(LastFrame(way).node) = {n}
        [] Cardinality(Children(n)) = 1 ->
             n = bst_root \/ heap[n][side] # NULL
        [] OTHER -> heap[heap[n].right].left = NULL

(* Deletion at such a position takes the key and its node out and nothing  *)
(* else: the inorder successor's right subtree, the child of the deleted   *)
(* node and the rest of the tree keep their places.                        *)
DeleteTakesOneKey ==
  [][\A key \in Stored :
       Sound /\ LinkedRight(key) /\ Delete(key) =>
         /\ Sound'
         /\ Stored' = Stored \ {key}
         /\ Cardinality(DOMAIN heap') = Cardinality(DOMAIN heap) - 1]_vars

(* What a call adds or takes away is its own key, where the code is meant  *)
(* to do so.                                                               *)
OneKeyAtATime == InsertAddsOneKey /\ DeleteTakesOneKey

(* bst_delete_node is "This function deletes the node which contains       *)
(* specified value" (bst.c:357): in a search tree, wherever the node is,   *)
(* it is the only one that goes.                                           *)
DeletionKeepsOtherKeys ==
  [][\A key \in Stored : Sound /\ Delete(key) => Stored' = Stored \ {key}]_vars
=============================================================================
