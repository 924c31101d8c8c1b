----------------------------- MODULE BinaryTree -----------------------------
(***************************************************************************)
(* What bst, avl_tree and rb_tree share: nodes in memory, linked by        *)
(* pointers.  A heap h maps the address of each allocated node to its      *)
(* record (data, left, right, and what else the tree keeps in it).  A link *)
(* may also be NULL, or dangle: name memory that is not allocated.         *)
(***************************************************************************)
EXTENDS Integers, FiniteSets, Sequences

CONSTANTS
  Keys,   (* the data of the nodes, ordered by the compare function        *)
  Nodes,  (* addresses malloc can return                                   *)
  NULL

ASSUME BinaryTreeAssumption ==
  /\ Keys \subseteq Int
  /\ NULL \notin Nodes
  /\ IsFiniteSet(Nodes)

Links == Nodes \cup {NULL}
Sides == {"left", "right"}

Opposite(side) == IF side = "left" THEN "right" ELSE "left"

(* FIRST_LESS and FIRST_GREATER of the compare function as the side to go. *)
SideOf(key, data) == IF key < data THEN "left" ELSE "right"

(* Where the frames of a walk from node lead, and both together.           *)
Walk(h, node, frames) ==
  [frames |-> frames,
   end |-> IF frames = <<>> THEN node
           ELSE LET f == frames[Len(frames)] IN h[f.node][f.side]]

(* The search for key that starts at node: the frames of the               *)
(* recursion, outermost first, the side each goes to, and where it stops:  *)
(* at the node with key, at NULL, or at memory that is not allocated.      *)
Descent(h, node, key) ==
  LET frames[w \in Links \X (0 .. Cardinality(DOMAIN h))] ==
        LET n == w[1]
            side == SideOf(key, h[n].data)
        IN  IF w[2] = 0 \/ n \notin DOMAIN h THEN <<>>
            ELSE IF h[n].data = key THEN <<>>
            ELSE <<[node |-> n, side |-> side]>> \o frames[<<h[n][side], w[2] - 1>>]
  IN  Walk(h, node, frames[<<node, Cardinality(DOMAIN h)>>])

(* The leftmost node below node, and the frames of the way there.          *)
Leftmost(h, node) ==
  LET frames[w \in Links \X (0 .. Cardinality(DOMAIN h))] ==
        LET n == w[1]
        IN  IF w[2] = 0 \/ n \notin DOMAIN h THEN <<>>
            ELSE IF h[n].left = NULL THEN <<>>
            ELSE <<[node |-> n, side |-> "left"]>> \o frames[<<h[n].left, w[2] - 1>>]
  IN  Walk(h, node, frames[<<node, Cardinality(DOMAIN h)>>])

-----------------------------------------------------------------------------
(* The allocated nodes that links lead to from node.                       *)
Reachable(h, node) ==
  LET within[steps \in 0 .. Cardinality(DOMAIN h)] ==
        LET S == within[steps - 1]
        IN  IF steps = 0 THEN {node} \cap DOMAIN h
            ELSE S \cup ({h[n][s] : n \in S, s \in Sides} \cap DOMAIN h)
  IN  within[Cardinality(DOMAIN h)]

Contents(h, root) == {h[n].data : n \in Reachable(h, root)}

(* The links from root form a tree: none dangles, none leads to a node     *)
(* that another one leads to, or to the root.                              *)
IsTree(h, root) ==
  LET links == {l \in Reachable(h, root) \X Sides : h[l[1]][l[2]] # NULL}
      To(l) == h[l[1]][l[2]]
  IN  /\ root \in DOMAIN h \cup {NULL}
      /\ \A l \in links : To(l) \in DOMAIN h \ {root}
      /\ \A l, m \in links : To(l) = To(m) => l = m

(* Every node has greater data than the nodes of its left subtree and less *)
(* than those of its right subtree.                                        *)
InSearchOrder(h, root) ==
  \A n \in Reachable(h, root) :
    /\ \A l \in Reachable(h, h[n].left) : h[l].data < h[n].data
    /\ \A r \in Reachable(h, h[n].right) : h[r].data > h[n].data
=============================================================================
