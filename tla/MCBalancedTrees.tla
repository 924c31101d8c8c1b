-------------------------- MODULE MCBalancedTrees --------------------------
(***************************************************************************)
(* avl_tree and rb_tree for one run: a behaviour uses one of the two,      *)
(* chosen at the start, and leaves the other one empty.  The bound: a tree *)
(* that keys are deleted from has nodes for FewKeys only; rb_tree also     *)
(* grows to all Keys, which takes eight for a repair of three levels.      *)
(***************************************************************************)
EXTENDS RBTree

CONSTANT FewKeys

VARIABLES
  tree,      (* which of the trees is used                                 *)
  avl_heap,  (* the nodes and the root of avl_tree                         *)
  avl_root

Avl == INSTANCE AVL WITH heap <- avl_heap

avl == <<avl_heap, avl_root>>
rb == <<heap, rb_tree_root>>
treesVars == <<tree, status, avl, rb>>

TreesInit ==
  /\ tree \in {"avl", "rb", "rb growing"}
  /\ Avl!Init
  /\ Init

Small(h) ==
  /\ Cardinality(DOMAIN h) <= Cardinality(FewKeys)
  /\ \A n \in DOMAIN h : h[n].data \in FewKeys

TreesNext ==
  /\ \/ tree = "avl" /\ Avl!Next /\ Small(avl_heap') /\ UNCHANGED rb
     \/ tree = "rb" /\ Next /\ Small(heap') /\ UNCHANGED avl
     \/ /\ tree = "rb growing"
        /\ status = "running"
        /\ \E key \in Keys : Insert(key)
        /\ UNCHANGED avl
  /\ UNCHANGED tree

TreesSpec == TreesInit /\ [][TreesNext]_treesVars

-----------------------------------------------------------------------------
(* States that differ in the addresses of the nodes only are one state: a  *)
(* tree is seen with the data of its nodes as their names, and nodes that  *)
(* are lost are counted.  (TLC sorts a heap that is compared, which it has *)
(* to do before two of its workers read it.)                               *)
Named(h, root) ==
  LET Name(v) == IF v \in DOMAIN h THEN <<h[v].data>> ELSE v
  IN  <<h = h, Cardinality(DOMAIN h), Name(root),
        {[f \in DOMAIN h[n] |-> Name(h[n][f])] : n \in Reachable(h, root)}>>

View == <<tree, status, Named(avl_heap, avl_root), Named(heap, rb_tree_root)>>

-----------------------------------------------------------------------------
(* TypeOK, WellLinked and ValidColors are those of RBTree.                 *)

(* avl_root leads to a search tree without a dangling link whose cached    *)
(* heights, by which the next call balances, are exact, after any calls.   *)
AvlSound == Avl!TypeOK /\ Avl!SearchTree /\ Avl!HeightsExact

(* avl_insert keeps the balance where no right left case can arise, and    *)
(* avl_delete_node where no right child is left heavy.                     *)
AvlKeepsBalance == Avl!InsertKeepsBalance /\ Avl!DeleteKeepsBalance

(* A call changes what a tree holds by its key only: avl_delete_node takes *)
(* one key and one node out of a balanced tree, rb_tree_insert adds a key  *)
(* and keeps equal black heights equal, and rb_tree_delete_node takes one  *)
(* key out of a tree of equal black heights.                               *)
OneKeyAtATime == Avl!DeleteTakesOneKey /\ InsertAddsOneKey /\ DeleteTakesOneKey
=============================================================================
