------------------------ MODULE BalancedTreesProofs ------------------------
(***************************************************************************)
(* Theorems about RBTree, AVL and the program that uses either, for every  *)
(* set of keys and every number of nodes.  What holds of every binary tree *)
(* in memory is taken from BSTProofs.  First rb_tree, then avl_tree, whose *)
(* trees are those of rb_tree with the parents that the links determine.   *)
(***************************************************************************)
EXTENDS MCBalancedTrees, FiniteSetTheorems, SequenceTheorems, TLAPS

T == INSTANCE BSTProofs WITH bst_root <- rb_tree_root

-----------------------------------------------------------------------------
(* The two names for what both modules take from BinaryTree.               *)

LEMMA SameNames ==
  /\ T!Links = Links /\ T!Sides = Sides
  /\ \A s : T!Opposite(s) = Opposite(s)
  /\ \A k, d : T!SideOf(k, d) = SideOf(k, d)
  /\ \A S : T!Cardinality(S) = Cardinality(S)
  /\ \A h, n, fs : T!Walk(h, n, fs) = Walk(h, n, fs)
BY DEF T!Links, Links, T!Sides, Sides, T!Opposite, Opposite, T!SideOf, SideOf,
       T!Cardinality, Cardinality, T!Walk, Walk

LEMMA SameAssumption == Keys \subseteq Int /\ NULL \notin Nodes /\ T!IsFiniteSet(Nodes)
BY BinaryTreeAssumption DEF T!IsFiniteSet, IsFiniteSet

(* The recursive functions of BinaryTree, with their bound as a parameter. *)
ReachedWithin(h, node, most) ==
  LET within[steps \in 0 .. most] ==
        LET S == within[steps - 1]
        IN  IF steps = 0 THEN {node} \cap DOMAIN h
            ELSE S \cup ({h[n][s] : n \in S, s \in Sides} \cap DOMAIN h)
  IN  within[most]

FramesWithin(h, node, key, most) ==
  LET frames[w \in Links \X (0 .. most)] ==
        LET n == w[1]
            side == SideOf(key, h[n].data)
        IN  IF w[2] = 0 \/ n \notin DOMAIN h THEN <<>>
            ELSE IF h[n].data = key THEN <<>>
            ELSE <<[node |-> n, side |-> side]>> \o frames[<<h[n][side], w[2] - 1>>]
  IN  frames[<<node, most>>]

LEMMA SameReachable ==
  ASSUME NEW h, NEW n
  PROVE  T!Reachable(h, n) = Reachable(h, n)
<1>1. T!Cardinality(DOMAIN h) = Cardinality(DOMAIN h)
  BY SameNames
<1>2. T!Reachable(h, n) = ReachedWithin(h, n, T!Cardinality(DOMAIN h))
  BY DEF T!Reachable, ReachedWithin, T!Sides, Sides
<1>3. Reachable(h, n) = ReachedWithin(h, n, Cardinality(DOMAIN h))
  BY DEF Reachable, ReachedWithin
<1> QED
  BY <1>1, <1>2, <1>3

LEMMA SameDescent ==
  ASSUME NEW h, NEW n, NEW key
  PROVE  T!Descent(h, n, key) = Descent(h, n, key)
<1>1. T!Cardinality(DOMAIN h) = Cardinality(DOMAIN h)
  BY SameNames
<1>2. T!Descent(h, n, key) = T!Walk(h, n, FramesWithin(h, n, key, T!Cardinality(DOMAIN h)))
  BY DEF T!Descent, FramesWithin, T!Links, Links, T!SideOf, SideOf
<1>3. Descent(h, n, key) = Walk(h, n, FramesWithin(h, n, key, Cardinality(DOMAIN h)))
  BY DEF Descent, FramesWithin
<1> QED
  BY <1>1, <1>2, <1>3, SameNames

LEMMA SameTree ==
  ASSUME NEW h, NEW r
  PROVE  T!SearchTree(h, r) <=> IsTree(h, r) /\ InSearchOrder(h, r)
<1>1. T!IsTree(h, r) <=> IsTree(h, r)
  BY SameReachable DEF T!IsTree, IsTree, T!Sides, Sides
<1>2. T!InSearchOrder(h, r) <=> InSearchOrder(h, r)
  BY SameReachable DEF T!InSearchOrder, InSearchOrder
<1> QED
  BY <1>1, <1>2 DEF T!SearchTree

-----------------------------------------------------------------------------
(* Trees.                                                                  *)

(* What the nodes of rb_tree are.                                          *)
Records(h) ==
  /\ DOMAIN h \subseteq Nodes
  /\ \A n \in DOMAIN h :
       h[n] \in [data : Keys, color : Colors, parent : Links, left : Links, right : Links]

LEMMA RecordsTyped ==
  ASSUME NEW h, Records(h)
  PROVE  T!Typed(h)
BY DEF Records, T!Typed, T!Sides, T!Links, Links

LEMMA RecordFields ==
  ASSUME NEW h, Records(h), NEW n \in DOMAIN h
  PROVE  /\ n \in Nodes /\ n # NULL /\ h[n].data \in Keys /\ h[n].data \in Int
         /\ h[n].color \in {"red", "black"} /\ h[n].parent \in Links
         /\ \A s \in Sides : h[n][s] \in Links
BY BinaryTreeAssumption DEF Records, Sides, Colors

LEMMA Reached ==
  ASSUME NEW h, Records(h), NEW x
  PROVE  /\ Reachable(h, x) \subseteq DOMAIN h
         /\ x \in DOMAIN h => x \in Reachable(h, x)
         /\ x \notin DOMAIN h => Reachable(h, x) = {}
         /\ \A m \in Reachable(h, x), s \in Sides :
              h[m][s] \in DOMAIN h => h[m][s] \in Reachable(h, x)
BY RecordsTyped, SameReachable, SameNames, SameAssumption, T!ReachedInDomain

LEMMA ReachedLeast ==
  ASSUME NEW h, Records(h), NEW x, NEW S \in SUBSET DOMAIN h,
         \A m \in S, s \in Sides : h[m][s] \in DOMAIN h => h[m][s] \in S,
         x \in DOMAIN h => x \in S
  PROVE  Reachable(h, x) \subseteq S
<1>1. T!Closed(h, S)
  BY SameNames DEF T!Closed
<1> QED
  BY <1>1, RecordsTyped, SameReachable, SameAssumption, T!ReachableLeast

LEMMA ReachedBelow ==
  ASSUME NEW h, Records(h), NEW x, NEW m \in Reachable(h, x)
  PROVE  /\ Reachable(h, m) \subseteq Reachable(h, x)
         /\ \A s \in Sides : Reachable(h, h[m][s]) \subseteq Reachable(h, x)
BY RecordsTyped, SameReachable, SameNames, SameAssumption, T!ReachedBelow

LEMMA ReachedFrom ==
  ASSUME NEW h, Records(h), NEW x, NEW m \in Reachable(h, x), m # x
  PROVE  \E p \in Reachable(h, x), s \in Sides : h[p][s] = m
BY RecordsTyped, SameReachable, SameNames, SameAssumption, T!ReachedFrom

(* A search tree in h.                                                     *)
Tree(h, r) == IsTree(h, r) /\ InSearchOrder(h, r)

(* The same of the nodes of any search tree.                               *)
LEMMA TreeReached ==
  ASSUME NEW h, T!Typed(h), NEW x
  PROVE  /\ Reachable(h, x) \subseteq DOMAIN h
         /\ x \in DOMAIN h => x \in Reachable(h, x)
         /\ x \notin DOMAIN h => Reachable(h, x) = {}
         /\ \A m \in Reachable(h, x), s \in Sides :
              /\ h[m][s] \in DOMAIN h => h[m][s] \in Reachable(h, x)
              /\ Reachable(h, h[m][s]) \subseteq Reachable(h, x)
         /\ \A m \in Reachable(h, x) : Reachable(h, m) \subseteq Reachable(h, x)
BY SameReachable, SameNames, SameAssumption, T!ReachedInDomain, T!ReachedBelow

LEMMA TreeLeast ==
  ASSUME NEW h, T!Typed(h), NEW x, NEW S \in SUBSET DOMAIN h,
         \A m \in S, s \in Sides : h[m][s] \in DOMAIN h => h[m][s] \in S,
         x \in DOMAIN h => x \in S
  PROVE  Reachable(h, x) \subseteq S
BY SameReachable, SameNames, SameAssumption, T!ReachableLeast DEF T!Closed

(* What a search tree is made of.                                          *)
LEMMA TreeIs ==
  ASSUME NEW h, T!Typed(h), NEW r, Tree(h, r)
  PROVE  LET R == Reachable(h, r)
         IN  /\ R \subseteq DOMAIN h /\ NULL \notin DOMAIN h
             /\ r \in R \cup {NULL}
             /\ \A m \in R, s \in Sides :
                  /\ h[m][s] \in R \cup {NULL}
                  /\ h[m][s] # NULL => h[m][s] # r
                  /\ m \notin Reachable(h, h[m][s])
                  /\ r \notin Reachable(h, h[m][s])
                  /\ \A y \in Reachable(h, h[m][s]) :
                       h[y].data # h[m].data /\ SideOf(h[y].data, h[m].data) = s
             /\ \A m, p \in R, s, t \in Sides :
                  h[m][s] # NULL /\ h[p][t] = h[m][s] => p = m /\ t = s
             /\ \A m \in R \ {r} : \E p \in R, s \in Sides : h[p][s] = m
<1>1. T!SearchTree(h, r) /\ T!IsTree(h, r) /\ T!InSearchOrder(h, r)
  BY SameTree DEF Tree, T!SearchTree
<1>2. T!Treelike(h, r)
  BY <1>1, SameAssumption, T!TreeLinks
<1>3. NULL \notin DOMAIN h
  BY SameAssumption DEF T!Typed
<1>4. \A m \in Reachable(h, r), s \in Sides : h[m][s] \in Reachable(h, r) \cup {NULL}
  BY <1>1, SameReachable, SameNames, SameAssumption, T!LinkOrNull
<1>5. \A m \in Reachable(h, r), s \in Sides :
        m \notin Reachable(h, h[m][s]) /\ r \notin Reachable(h, h[m][s])
  BY <1>1, SameReachable, SameNames, SameAssumption, T!NotBelowItself, T!RootNotBelow
<1>6. \A m \in Reachable(h, r), s \in Sides : \A y \in Reachable(h, h[m][s]) :
        h[y].data # h[m].data /\ SideOf(h[y].data, h[m].data) = s
  BY <1>1, SameReachable, SameNames, SameAssumption, T!SearchOrder
<1>7. \A m \in Reachable(h, r) \ {r} : \E p \in Reachable(h, r), s \in Sides : h[p][s] = m
  BY SameReachable, SameNames, SameAssumption, T!ReachedFrom
<1>8. /\ r \in DOMAIN h \cup {NULL}
      /\ \A m \in Reachable(h, r), s \in Sides : h[m][s] # NULL => h[m][s] # r
      /\ \A m, p \in Reachable(h, r), s, t \in Sides :
                  h[m][s] # NULL /\ h[p][t] = h[m][s] => p = m /\ t = s
  BY <1>2, SameReachable, SameNames DEF T!Treelike
<1> QED
  BY <1>3, <1>4, <1>5, <1>6, <1>7, <1>8, TreeReached

(* SearchTree and ParentsExact of any heap and root.                       *)
Sound(h, r) ==
  /\ IsTree(h, r) /\ InSearchOrder(h, r)
  /\ \A n \in Reachable(h, r) :
       IF n = r THEN h[n].parent = NULL
       ELSE /\ h[n].parent \in Reachable(h, r)
            /\ \E s \in Sides : h[h[n].parent][s] = n

LEMMA SoundTree ==
  ASSUME NEW h, Records(h), NEW r, Sound(h, r)
  PROVE  T!Typed(h) /\ Tree(h, r)
BY RecordsTyped DEF Sound, Tree

LEMMA SoundIs == Sound(heap, rb_tree_root) <=> SearchTree /\ ParentsExact
BY DEF Sound, SearchTree, ParentsExact

(* The other way to see such a tree, which a rotation changes at a few     *)
(* nodes only.  Its links lead from nodes of R to nodes of R whose parent  *)
(* pointers lead back; the data that may be at or below a node m are those *)
(* of range[m], and each link halves what is left.                         *)
Linked(h, r, R) ==
  /\ R \subseteq DOMAIN h
  /\ r \in R \/ r = NULL
  /\ r # NULL => h[r].parent = NULL
  /\ \A m \in R, s \in Sides :
       h[m][s] # NULL => h[m][s] \in R /\ h[h[m][s]].parent = m

Backed(h, r, R) ==
  \A m \in R \ {r} : h[m].parent \in R /\ \E s \in Sides : h[h[m].parent][s] = m

Ranged(h, R, range) ==
  \A m \in R :
    /\ range[m] \subseteq Int
    /\ h[m].data \in range[m]
    /\ \A s \in Sides :
         h[m][s] # NULL =>
           \A k \in range[h[m][s]] :
             k \in range[m] /\ k # h[m].data /\ SideOf(k, h[m].data) = s

LEMMA SoundRanged ==
  ASSUME NEW h, Records(h), NEW r, Sound(h, r)
  PROVE  LET R == Reachable(h, r)
         IN  /\ Linked(h, r, R) /\ Backed(h, r, R)
             /\ Ranged(h, R, [m \in R |-> {k \in Int : T!Fits(h, r, k, m)}])
<1> DEFINE R == Reachable(h, r)
           range == [m \in R |-> {k \in Int : T!Fits(h, r, k, m)}]
<1>1. /\ T!Typed(h) /\ T!Treelike(h, r)
      /\ \A m \in R, s \in Sides : \A y \in Reachable(h, h[m][s]) :
           h[y].data # h[m].data /\ SideOf(h[y].data, h[m].data) = s
  <2>1. T!Typed(h) /\ T!SearchTree(h, r)
    BY RecordsTyped, SameTree DEF Sound
  <2> QED
    BY <2>1, SameReachable, SameNames, SameAssumption, T!TreeLinks, T!SearchOrder
       DEF T!SearchTree
<1>2. /\ R \subseteq DOMAIN h /\ r \in DOMAIN h \cup {NULL}
      /\ r \in DOMAIN h => r \in R
      /\ \A m \in R, s \in Sides : h[m][s] # NULL => h[m][s] \in R
      /\ \A m \in R, s \in Sides : \A p \in R, t \in Sides :
           h[m][s] # NULL /\ h[p][t] = h[m][s] => p = m /\ t = s
      /\ \A m \in R, s \in Sides : h[m][s] # NULL => h[m][s] # r
  BY <1>1, SameReachable, SameNames, Reached DEF T!Treelike
<1>3. Backed(h, r, R)
  BY DEF Backed, Sound
<1>4. Linked(h, r, R)
  <2>1. ASSUME NEW m \in R, NEW s \in Sides, h[m][s] # NULL
        PROVE  h[m][s] \in R /\ h[h[m][s]].parent = m
    <3>1. h[m][s] \in R \ {r}
      BY <1>2, <2>1
    <3>2. PICK t \in Sides : h[h[h[m][s]].parent][t] = h[m][s]
      BY <1>3, <3>1 DEF Backed
    <3>3. h[h[m][s]].parent \in R
      BY <1>3, <3>1 DEF Backed
    <3> QED
      BY <1>2, <2>1, <3>1, <3>2, <3>3
  <2>2. r # NULL => h[r].parent = NULL
    BY <1>2 DEF Sound
  <2> QED
    BY <1>2, <2>1, <2>2 DEF Linked
<1>5. Ranged(h, R, range)
  <2>1. ASSUME NEW m \in R
        PROVE  range[m] \subseteq Int /\ h[m].data \in range[m]
    <3>1. h[m].data \in Int
      BY <1>2, RecordFields
    <3>2. T!Fits(h, r, h[m].data, m)
      BY <1>1, SameReachable, SameNames DEF T!Fits
    <3> QED
      BY <3>1, <3>2
  <2>2. ASSUME NEW m \in R, NEW s \in Sides, h[m][s] # NULL, NEW k \in range[h[m][s]]
        PROVE  k \in range[m] /\ k # h[m].data /\ SideOf(k, h[m].data) = s
    <3>1. h[m][s] \in R
      BY <1>2, <2>2
    <3>2. k \in Int /\ T!Fits(h, r, k, h[m][s])
      BY <3>1
    <3> HIDE DEF range
    <3>3. \A p \in R, t \in Sides : h[m][s] \in Reachable(h, h[p][t]) =>
            k # h[p].data /\ SideOf(k, h[p].data) = t
      BY <3>2, SameReachable, SameNames DEF T!Fits
    <3>4. k # h[m].data /\ SideOf(k, h[m].data) = s
      BY <1>2, <3>1, <3>3, Reached
    <3>5. T!Fits(h, r, k, m)
      <4>1. ASSUME NEW p \in R, NEW t \in Sides, m \in Reachable(h, h[p][t])
            PROVE  k # h[p].data /\ SideOf(k, h[p].data) = t
        <5>1. h[m][s] \in Reachable(h, h[p][t])
          BY <1>2, <3>1, <4>1, Reached
        <5> QED
          BY <3>3, <5>1
      <4> QED
        BY <4>1, SameReachable, SameNames DEF T!Fits
    <3> QED
      BY <3>2, <3>4, <3>5 DEF range
  <2> HIDE DEF range
  <2> QED
    BY <2>1, <2>2 DEF Ranged
<1> QED
  BY <1>3, <1>4, <1>5

LEMMA RangedSound ==
  ASSUME NEW h, Records(h), NEW r, NEW R, NEW range, Linked(h, r, R), Ranged(h, R, range)
  PROVE  /\ Sound(h, r) /\ Reachable(h, r) \subseteq R
<1>1. R \subseteq DOMAIN h /\ NULL \notin DOMAIN h
  BY BinaryTreeAssumption DEF Linked, Records
<1>2. /\ r \in R \/ r = NULL
      /\ r # NULL => h[r].parent = NULL
      /\ \A m \in R, s \in Sides :
           h[m][s] # NULL => h[m][s] \in R /\ h[h[m][s]].parent = m
  BY DEF Linked
<1>3. \A m \in R : /\ range[m] \subseteq Int /\ h[m].data \in range[m]
                   /\ \A s \in Sides : h[m][s] # NULL =>
                        \A k \in range[h[m][s]] :
                          k \in range[m] /\ k # h[m].data /\ SideOf(k, h[m].data) = s
  BY DEF Ranged
<1>4. \A x \in R \cup {NULL} : Reachable(h, x) \subseteq R
  BY <1>1, <1>2, ReachedLeast
<1>5. ASSUME NEW x \in R
      PROVE  \A y \in Reachable(h, x) : h[y].data \in range[x]
  <2> DEFINE S == {y \in R : range[y] \subseteq range[x]}
  <2>1. \A y \in S, s \in Sides : h[y][s] \in DOMAIN h => h[y][s] \in S
    BY <1>1, <1>2, <1>3
  <2>2. S \in SUBSET DOMAIN h /\ x \in S
    BY <1>1, <1>5
  <2> HIDE DEF S
  <2>3. Reachable(h, x) \subseteq S
    BY <2>1, <2>2, ReachedLeast
  <2> QED
    BY <1>3, <2>3 DEF S
<1>6. \A m \in R, s \in Sides : \A y \in Reachable(h, h[m][s]) :
        h[y].data # h[m].data /\ SideOf(h[y].data, h[m].data) = s
  <2> SUFFICES ASSUME NEW m \in R, NEW s \in Sides, NEW y \in Reachable(h, h[m][s])
               PROVE  h[y].data # h[m].data /\ SideOf(h[y].data, h[m].data) = s
    OBVIOUS
  <2>1. h[m][s] # NULL
    BY <1>1, Reached
  <2> QED
    BY <1>2, <1>3, <1>5, <2>1
<1>7. Reachable(h, r) \subseteq R
  BY <1>2, <1>4
<1>8. T!Treelike(h, r)
  <2>1. ASSUME NEW m \in R, NEW s \in Sides, h[m][s] # NULL
        PROVE  /\ h[m][s] \in DOMAIN h /\ h[m][s] # r
               /\ \A p \in R, t \in Sides : h[p][t] = h[m][s] => p = m /\ t = s
    <3>1. h[m][s] \in R /\ h[h[m][s]].parent = m
      BY <1>2, <2>1
    <3>2. h[m][s] # r
      BY <1>1, <1>2, <3>1
    <3>3. ASSUME NEW p \in R, NEW t \in Sides, h[p][t] = h[m][s]
          PROVE  p = m /\ t = s
      <4>1. p = m
        BY <1>2, <2>1, <3>1, <3>3
      <4>2. h[h[m][s]].data \in range[h[m][s]]
        BY <1>3, <3>1
      <4> QED
        BY <1>3, <2>1, <3>3, <4>1, <4>2
    <3> QED
      BY <1>1, <3>1, <3>2, <3>3
  <2> QED
    BY <1>1, <1>2, <1>7, <2>1, SameReachable, SameNames DEF T!Treelike
<1>9. IsTree(h, r) /\ InSearchOrder(h, r)
  <2>1. T!Typed(h)
    BY RecordsTyped
  <2>2. T!IsTree(h, r)
    BY <1>8, <2>1, SameAssumption, T!TreeLinks
  <2>3. T!InSearchOrder(h, r)
    BY <1>6, <1>7, <2>1, SameReachable, SameNames, SameAssumption, T!SearchOrder
  <2> QED
    BY <2>2, <2>3, SameTree DEF T!SearchTree
<1>10. ASSUME NEW n \in Reachable(h, r)
       PROVE  IF n = r THEN h[n].parent = NULL
              ELSE /\ h[n].parent \in Reachable(h, r)
                   /\ \E s \in Sides : h[h[n].parent][s] = n
  <2>1. n # NULL
    BY <1>1, <1>7
  <2>2. CASE n = r
    BY <1>2, <2>1, <2>2
  <2>3. CASE n # r
    <3>1. PICK p \in Reachable(h, r), s \in Sides : h[p][s] = n
      BY <2>3, ReachedFrom
    <3>2. h[n].parent = p
      BY <1>2, <1>7, <2>1, <3>1
    <3> QED
      BY <2>3, <3>1, <3>2
  <2> QED
    BY <2>2, <2>3
<1> QED
  BY <1>7, <1>9, <1>10 DEF Sound

-----------------------------------------------------------------------------
(* Rotations.                                                              *)

LEMMA TwoSides ==
  ASSUME NEW s \in Sides
  PROVE  /\ Opposite(s) \in Sides /\ Opposite(s) # s /\ Opposite(Opposite(s)) = s
         /\ \A u \in Sides : u = s \/ u = Opposite(s)
BY DEF Sides, Opposite

(* What a rotation makes of the heap h with root r: the child y of x on    *)
(* side s comes over x.  Of the two nodes, t is on top afterwards and b    *)
(* below; in the special rotation that is x and y, whose data change.      *)
Turned(h, r, g, q, R, x, s, t, b) ==
  LET y == h[x][s]
      o == Opposite(s)
  IN  /\ DOMAIN g = DOMAIN h
      /\ t # b /\ t \in {x, y} /\ b \in {x, y}
      /\ q = IF x = r THEN t ELSE r
      /\ g[t].data = h[y].data /\ g[b].data = h[x].data
      /\ g[t][s] = h[y][s] /\ g[t][o] = b
      /\ g[b][s] = h[y][o] /\ g[b][o] = h[x][o]
      /\ g[t].parent = h[x].parent /\ g[b].parent = t
      /\ \A m \in R \ {x, y} :
           /\ g[m].data = h[m].data
           /\ \A u \in Sides : g[m][u] = IF h[m][u] = x THEN t ELSE h[m][u]
           /\ g[m].parent = IF h[m].parent = x THEN b
                            ELSE IF h[m].parent # y THEN h[m].parent
                            ELSE IF m = h[y][s] THEN t ELSE b

(* The nodes around a rotation are different ones.                         *)
LEMMA Around ==
  ASSUME NEW h, Records(h), NEW r, NEW R, NEW range,
         Linked(h, r, R), Backed(h, r, R), Ranged(h, R, range)
  PROVE  /\ R \subseteq DOMAIN h /\ NULL \notin R
         /\ \A m \in R, u \in Sides : h[m][u] # NULL =>
              /\ h[m][u] \in R \ {m, r} /\ h[h[m][u]].parent = m
              /\ h[h[m][u]].data \in range[h[m][u]]
              /\ h[m].data \notin range[h[m][u]]
              /\ range[h[m][u]] \subseteq range[m]
              /\ \A k \in range[h[m][u]] : k # h[m].data /\ SideOf(k, h[m].data) = u
              /\ h[m][Opposite(u)] # h[m][u]
              /\ \A v \in Sides : h[h[m][u]][v] # NULL =>
                   h[h[m][u]][v] # m /\ h[h[m][u]][v] # h[m][Opposite(u)]
<1>1. R \subseteq DOMAIN h /\ NULL \notin DOMAIN h
  BY BinaryTreeAssumption DEF Linked, Records
<1>2. /\ r # NULL => h[r].parent = NULL
      /\ \A m \in R, u \in Sides :
           h[m][u] # NULL => h[m][u] \in R /\ h[h[m][u]].parent = m
  BY DEF Linked
<1>3. \A m \in R : /\ range[m] \subseteq Int /\ h[m].data \in range[m]
                   /\ \A u \in Sides : h[m][u] # NULL =>
                        \A k \in range[h[m][u]] :
                          k \in range[m] /\ k # h[m].data /\ SideOf(k, h[m].data) = u
  BY DEF Ranged
<1>4. ASSUME NEW m \in R, NEW u \in Sides, h[m][u] # NULL
      PROVE  /\ h[m][u] \in R \ {m, r} /\ h[h[m][u]].parent = m
             /\ h[h[m][u]].data \in range[h[m][u]]
             /\ h[m].data \notin range[h[m][u]]
             /\ range[h[m][u]] \subseteq range[m]
             /\ \A k \in range[h[m][u]] : k # h[m].data /\ SideOf(k, h[m].data) = u
             /\ h[m][Opposite(u)] # h[m][u]
             /\ \A v \in Sides : h[h[m][u]][v] # NULL =>
                   h[h[m][u]][v] # m /\ h[h[m][u]][v] # h[m][Opposite(u)]
  <2> DEFINE c == h[m][u]
             v == Opposite(u)
  <2>1. c \in R /\ h[c].parent = m /\ h[c].data \in range[c]
    BY <1>2, <1>3, <1>4
  <2>2. /\ h[m].data \notin range[c] /\ range[c] \subseteq range[m]
        /\ \A k \in range[c] : k # h[m].data /\ SideOf(k, h[m].data) = u
    BY <1>3, <1>4
  <2>3. c # m /\ c # r
    BY <1>1, <1>2, <1>3, <2>1, <2>2
  <2>4. v \in Sides /\ v # u
    BY TwoSides
  <2> HIDE DEF c, v
  <2>5. h[m][v] # c
    <3> SUFFICES ASSUME h[m][v] = c
                 PROVE  FALSE
      OBVIOUS
    <3> QED
      BY <1>1, <1>3, <2>1, <2>2, <2>4
  <2>6. ASSUME NEW w \in Sides, h[c][w] # NULL
        PROVE  h[c][w] # m /\ h[c][w] # h[m][v]
    <3>1. h[c][w] # m
      BY <1>1, <1>3, <2>1, <2>2, <2>6
    <3>2. h[c][w] # h[m][v]
      BY <1>2, <2>1, <2>3, <2>4, <2>6
    <3> QED
      BY <3>1, <3>2
  <2> QED
    BY <2>1, <2>2, <2>3, <2>5, <2>6 DEF c, v
<1> QED
  BY <1>1, <1>4

TurnedRange(h, R, range, x, s, t, b) ==
  LET d == h[h[x][s]].data
  IN  [m \in R |-> IF m = t THEN range[x]
                   ELSE IF m = b
                   THEN {k \in range[x] : k # d /\ SideOf(k, d) = Opposite(s)}
                   ELSE range[m]]

LEMMA TurnedRanged ==
  ASSUME NEW h, Records(h), NEW r, NEW R, NEW range,
         Linked(h, r, R), Backed(h, r, R), Ranged(h, R, range),
         NEW x \in R, NEW s \in Sides, h[x][s] # NULL,
         NEW g, NEW q, NEW t, NEW b, Turned(h, r, g, q, R, x, s, t, b)
  PROVE  /\ Linked(g, q, R) /\ Backed(g, q, R)
         /\ Ranged(g, R, TurnedRange(h, R, range, x, s, t, b))
<1> DEFINE y == h[x][s]
           o == Opposite(s)
           p == h[x].parent
           c1 == h[y][s]
           c2 == h[y][o]
           c3 == h[x][o]
           d == h[y].data
           e == h[x].data
           rg == TurnedRange(h, R, range, x, s, t, b)
<1>1. o \in Sides /\ o # s /\ Opposite(o) = s /\ \A u \in Sides : u = s \/ u = o
  BY TwoSides
<1>2. /\ R \subseteq DOMAIN h /\ NULL \notin R
      /\ \A m \in R, u \in Sides : h[m][u] # NULL =>
           h[m][u] \in R \ {m, r} /\ h[h[m][u]].parent = m
  BY Around
<1>3. /\ y \in R /\ y # x /\ y # r /\ h[y].parent = x
      /\ c1 # NULL => c1 \in R \ {x, y, r, c3} /\ h[c1].parent = y /\ c2 # c1
      /\ c2 # NULL => c2 \in R \ {x, y, r, c3} /\ h[c2].parent = y /\ c2 # c1
      /\ c3 # NULL => c3 \in R \ {x, y, r} /\ h[c3].parent = x
      /\ c3 # y
  <2>1. y \in R \ {x, r} /\ h[y].parent = x
    BY <1>2
  <2>2. ASSUME NEW u \in Sides, h[y][u] # NULL
        PROVE  h[y][u] \in R \ {x, y, r, c3} /\ h[h[y][u]].parent = y /\ h[y][Opposite(u)] # h[y][u]
    BY <2>1, <2>2, Around
  <2>3. c3 # y
    BY Around
  <2> HIDE DEF y
  <2>4. c1 # NULL => c1 \in R \ {x, y, r, c3} /\ h[c1].parent = y /\ c2 # c1
    BY <2>2
  <2>5. c2 # NULL => c2 \in R \ {x, y, r, c3} /\ h[c2].parent = y /\ c1 # c2
    BY <1>1, <2>2
  <2>6. c3 # NULL => c3 \in R \ {x, r} /\ h[c3].parent = x
    BY <1>1, <1>2
  <2> QED
    BY <2>1, <2>3, <2>4, <2>5, <2>6
<1>4. x # r => /\ p \in R \ {x, y} /\ \E u \in Sides : h[p][u] = x
  <2> SUFFICES ASSUME x # r
               PROVE  p \in R \ {x, y} /\ \E u \in Sides : h[p][u] = x
    OBVIOUS
  <2>1. p \in R /\ \E u \in Sides : h[p][u] = x
    BY DEF Backed
  <2>2. p # x
    BY <1>2, <2>1
  <2>3. p # y
    BY <1>2, <2>1, Around
  <2> QED
    BY <2>1, <2>2, <2>3
<1>5. /\ DOMAIN g = DOMAIN h
      /\ t # b /\ t \in {x, y} /\ b \in {x, y}
      /\ q = IF x = r THEN t ELSE r
      /\ g[t].data = d /\ g[b].data = e
      /\ g[t][s] = c1 /\ g[t][o] = b
      /\ g[b][s] = c2 /\ g[b][o] = c3
      /\ g[t].parent = p /\ g[b].parent = t
      /\ \A m \in R \ {x, y} :
           /\ g[m].data = h[m].data
           /\ \A u \in Sides : g[m][u] = IF h[m][u] = x THEN t ELSE h[m][u]
           /\ g[m].parent = IF h[m].parent = x THEN b
                            ELSE IF h[m].parent # y THEN h[m].parent
                            ELSE IF m = c1 THEN t ELSE b
  BY DEF Turned
<1>6. /\ \A m \in R : m = t \/ m = b \/ m \in R \ {x, y}
      /\ t \in R /\ b \in R
  BY <1>3, <1>5
<1>7. r \in R \/ r = NULL
  BY DEF Linked
<1>8. r # NULL => h[r].parent = NULL
  BY DEF Linked
<1>9. /\ range[x] \subseteq Int /\ d \in range[y] /\ e \in range[x]
      /\ \A k \in range[y] : k \in range[x] /\ k # e /\ SideOf(k, e) = s
      /\ c1 # NULL => \A k \in range[c1] : k \in range[y] /\ k # d /\ SideOf(k, d) = s
      /\ c2 # NULL => \A k \in range[c2] : k \in range[y] /\ k # d /\ SideOf(k, d) = o
      /\ c3 # NULL => \A k \in range[c3] : k \in range[x] /\ k # e /\ SideOf(k, e) = o
  BY <1>1, <1>3 DEF Ranged
<1>10. \A m \in R : /\ range[m] \subseteq Int /\ h[m].data \in range[m]
                    /\ \A u \in Sides : h[m][u] # NULL =>
                         \A k \in range[h[m][u]] :
                           k \in range[m] /\ k # h[m].data /\ SideOf(k, h[m].data) = u
  BY DEF Ranged
<1>11. /\ rg[t] = range[x]
       /\ rg[b] = {k \in range[x] : k # d /\ SideOf(k, d) = o}
       /\ \A m \in R \ {x, y} : rg[m] = range[m]
  BY <1>5, <1>6 DEF TurnedRange
<1> HIDE DEF y, o, p, c1, c2, c3, d, e, rg
<1>12. Linked(g, q, R)
  <2>1. q \in R \/ q = NULL
    BY <1>5, <1>6, <1>7
  <2>2. q # NULL => g[q].parent = NULL
    <3>1. CASE x = r
      BY <1>2, <1>5, <1>8, <3>1 DEF p
    <3>2. CASE x # r /\ r # NULL
      BY <1>2, <1>3, <1>5, <1>7, <1>8, <3>2
    <3> QED
      BY <1>5, <3>1, <3>2
  <2>3. ASSUME NEW m \in R, NEW u \in Sides, g[m][u] # NULL
        PROVE  g[m][u] \in R /\ g[g[m][u]].parent = m
    <3>1. CASE m = t
      <4>1. CASE u = s
        BY <1>2, <1>3, <1>5, <2>3, <3>1, <4>1
      <4>2. CASE u = o
        BY <1>5, <1>6, <3>1, <4>2
      <4> QED
        BY <1>1, <4>1, <4>2
    <3>2. CASE m = b
      <4>1. CASE u = s
        BY <1>2, <1>3, <1>5, <2>3, <3>2, <4>1
      <4>2. CASE u = o
        BY <1>2, <1>3, <1>5, <2>3, <3>2, <4>2
      <4> QED
        BY <1>1, <4>1, <4>2
    <3>3. CASE m \in R \ {x, y}
      <4>1. CASE h[m][u] = x
        BY <1>2, <1>5, <1>6, <3>3, <4>1 DEF p
      <4>2. CASE h[m][u] # x
        <5>1. g[m][u] = h[m][u] /\ h[m][u] \in R /\ h[h[m][u]].parent = m
          BY <1>2, <1>5, <2>3, <3>3, <4>2
        <5> QED
          BY <1>3, <1>5, <3>3, <4>2, <5>1
      <4> QED
        BY <4>1, <4>2
    <3> QED
      BY <1>6, <3>1, <3>2, <3>3
  <2> QED
    BY <1>2, <1>5, <2>1, <2>2, <2>3 DEF Linked
<1>13. Backed(g, q, R)
  <2>1. ASSUME NEW m \in R \ {q}
        PROVE  g[m].parent \in R /\ \E u \in Sides : g[g[m].parent][u] = m
    <3>1. CASE m = t
      BY <1>4, <1>5, <2>1, <3>1
    <3>2. CASE m = b
      BY <1>1, <1>5, <1>6, <3>2
    <3>3. CASE m \in R \ {x, y}
      <4>1. m # r
        BY <1>5, <2>1, <3>3
      <4>2. PICK u \in Sides : h[h[m].parent][u] = m
        BY <4>1 DEF Backed
      <4>3. h[m].parent \in R
        BY <4>1 DEF Backed
      <4>4. CASE h[m].parent = x
        <5>1. u = o
          BY <1>1, <3>3, <4>2, <4>4 DEF y
        <5> QED
          BY <1>1, <1>5, <1>6, <3>3, <4>2, <4>4, <5>1 DEF c3
      <4>5. CASE h[m].parent = y
        <5>1. CASE u = s
          BY <1>3, <1>5, <1>6, <3>3, <4>2, <4>5, <5>1 DEF c1
        <5>2. CASE u = o
          <6>1. m = c2 /\ m # c1
            BY <1>2, <1>3, <4>2, <4>5, <5>2 DEF c2
          <6> QED
            BY <1>3, <1>5, <1>6, <3>3, <4>5, <6>1
        <5> QED
          BY <1>1, <5>1, <5>2
      <4>6. CASE h[m].parent \notin {x, y}
        BY <1>5, <3>3, <4>2, <4>3, <4>6
      <4> QED
        BY <4>4, <4>5, <4>6
    <3> QED
      BY <1>6, <3>1, <3>2, <3>3
  <2> QED
    BY <2>1 DEF Backed
<1>14. Ranged(g, R, rg)
  <2>1. d \in Int /\ e \in Int /\ SideOf(d, e) = s /\ d # e /\ SideOf(e, d) = o /\ d \in range[x]
    <3>1. d \in Int /\ e \in Int /\ SideOf(d, e) = s /\ d # e /\ d \in range[x]
      BY <1>9
    <3> QED
      BY <3>1 DEF SideOf, o, Opposite
  <2>2. ASSUME NEW m \in R
        PROVE  rg[m] \subseteq Int /\ g[m].data \in rg[m]
    BY <1>5, <1>6, <1>9, <1>10, <1>11, <2>1
  <2>3. ASSUME NEW m \in R, NEW u \in Sides, g[m][u] # NULL, NEW k \in rg[g[m][u]]
        PROVE  k \in rg[m] /\ k # g[m].data /\ SideOf(k, g[m].data) = u
    <3>1. CASE m = t
      <4>1. CASE u = s
        <5>1. g[m][u] = c1 /\ c1 # NULL /\ k \in range[c1]
          BY <1>3, <1>5, <1>11, <2>3, <3>1, <4>1
        <5> QED
          BY <1>5, <1>9, <1>11, <3>1, <4>1, <5>1
      <4>2. CASE u = o
        <5>1. g[m][u] = b
          BY <1>5, <3>1, <4>2
        <5> QED
          BY <1>5, <1>11, <2>3, <3>1, <4>2, <5>1
      <4> QED
        BY <1>1, <4>1, <4>2
    <3>2. CASE m = b
      <4>1. CASE u = s
        <5>1. g[m][u] = c2 /\ c2 # NULL /\ k \in range[c2]
          BY <1>3, <1>5, <1>11, <2>3, <3>2, <4>1
        <5> QED
          BY <1>5, <1>9, <1>11, <3>2, <4>1, <5>1
      <4>2. CASE u = o
        <5>1. g[m][u] = c3 /\ c3 # NULL /\ k \in range[c3]
          BY <1>3, <1>5, <1>11, <2>3, <3>2, <4>2
        <5>2. k \in range[x] /\ k # e /\ SideOf(k, e) = o /\ k \in Int
          BY <1>9, <5>1
        <5>3. k # d /\ SideOf(k, d) = o
          BY <2>1, <5>2 DEF SideOf
        <5> QED
          BY <1>5, <1>11, <3>2, <4>2, <5>2, <5>3
      <4> QED
        BY <1>1, <4>1, <4>2
    <3>3. CASE m \in R \ {x, y}
      <4>1. CASE h[m][u] = x
        <5>1. g[m][u] = t /\ k \in range[x] /\ h[m][u] # NULL
          BY <1>2, <1>5, <1>11, <2>3, <3>3, <4>1
        <5> QED
          BY <1>5, <1>10, <1>11, <3>3, <4>1, <5>1
      <4>2. CASE h[m][u] # x
        <5>1. g[m][u] = h[m][u] /\ h[m][u] \in R /\ h[h[m][u]].parent = m /\ h[m][u] # NULL
          BY <1>2, <1>5, <2>3, <3>3, <4>2
        <5>2. k \in range[h[m][u]]
          BY <1>3, <1>11, <2>3, <3>3, <4>2, <5>1
        <5> QED
          BY <1>5, <1>10, <1>11, <3>3, <5>1, <5>2
      <4> QED
        BY <4>1, <4>2
    <3> QED
      BY <1>6, <3>1, <3>2, <3>3
  <2> QED
    BY <2>2, <2>3 DEF Ranged
<1> QED
  BY <1>12, <1>13, <1>14 DEF rg

-----------------------------------------------------------------------------
(* What the rotations store.                                               *)

NodeRecords == [data : Keys, color : Colors, parent : Links, left : Links, right : Links]

LEMMA NodeStored ==
  ASSUME NEW h, Records(h), NEW n \in DOMAIN h, NEW new \in NodeRecords
  PROVE  /\ Records([h EXCEPT ![n] = new])
         /\ DOMAIN [h EXCEPT ![n] = new] = DOMAIN h
         /\ \A m \in DOMAIN h : [h EXCEPT ![n] = new][m] = IF m = n THEN new ELSE h[m]
BY DEF Records, NodeRecords

LEMMA LinkOf ==
  ASSUME NEW old \in NodeRecords, NEW s \in Sides, NEW v \in Links
  PROVE  LET new == [old EXCEPT ![s] = v]
         IN  /\ new \in NodeRecords
             /\ new.data = old.data /\ new.color = old.color /\ new.parent = old.parent
             /\ \A u \in Sides : new[u] = IF u = s THEN v ELSE old[u]
BY DEF NodeRecords, Sides

LEMMA ParentOf ==
  ASSUME NEW old \in NodeRecords, NEW v \in Links
  PROVE  LET new == [old EXCEPT !.parent = v]
         IN  /\ new \in NodeRecords
             /\ new.data = old.data /\ new.color = old.color /\ new.parent = v
             /\ \A u \in Sides : new[u] = old[u]
BY DEF NodeRecords, Sides

Relinked(old, new, s, v, p) ==
  /\ new \in NodeRecords
  /\ new.data = old.data /\ new.color = old.color /\ new.parent = p
  /\ \A u \in Sides : new[u] = IF u = s THEN v ELSE old[u]

LEMMA LinkParentOf ==
  ASSUME NEW old \in NodeRecords, NEW s \in Sides, NEW v \in Links, NEW p \in Links
  PROVE  Relinked(old, [old EXCEPT ![s] = v, !.parent = p], s, v, p)
<1>1. [old EXCEPT ![s] = v, !.parent = p] = [[old EXCEPT ![s] = v] EXCEPT !.parent = p]
  OBVIOUS
<1> DEFINE mid == [old EXCEPT ![s] = v]
<1>2. /\ mid \in NodeRecords
      /\ mid.data = old.data /\ mid.color = old.color /\ mid.parent = old.parent
      /\ \A u \in Sides : mid[u] = IF u = s THEN v ELSE old[u]
  BY LinkOf
<1> HIDE DEF mid
<1>3. LET new == [mid EXCEPT !.parent = p]
      IN  /\ new \in NodeRecords
          /\ new.data = mid.data /\ new.color = mid.color /\ new.parent = p
          /\ \A u \in Sides : new[u] = mid[u]
  BY <1>2, ParentOf
<1> QED
  BY <1>1, <1>2, <1>3 DEF mid, Relinked

(* What a store changes in a heap.                                         *)
ParentSet(h, g, n, v) ==
  /\ DOMAIN g = DOMAIN h
  /\ \A m \in DOMAIN h :
       /\ g[m].data = h[m].data /\ g[m].color = h[m].color
       /\ g[m].parent = IF m = n THEN v ELSE h[m].parent
       /\ \A u \in Sides : g[m][u] = h[m][u]

LinkSet(h, g, n, s, v) ==
  /\ DOMAIN g = DOMAIN h
  /\ \A m \in DOMAIN h :
       /\ g[m].data = h[m].data /\ g[m].color = h[m].color
       /\ g[m].parent = h[m].parent
       /\ \A u \in Sides : g[m][u] = IF m = n /\ u = s THEN v ELSE h[m][u]

LEMMA WithParentIs ==
  ASSUME NEW h, Records(h), NEW n \in DOMAIN h \cup {NULL}, NEW v \in Links
  PROVE  Records(WithParent(h, n, v)) /\ ParentSet(h, WithParent(h, n, v), n, v)
<1>1. NULL \notin DOMAIN h
  BY BinaryTreeAssumption DEF Records
<1>2. CASE n = NULL
  BY <1>1, <1>2 DEF WithParent, ParentSet
<1>3. CASE n # NULL
  <2> DEFINE g == [h EXCEPT ![n] = [h[n] EXCEPT !.parent = v]]
  <2>1. WithParent(h, n, v) = g
    BY <1>3 DEF WithParent
  <2>2. h[n] \in NodeRecords
    BY <1>3 DEF Records, NodeRecords
  <2>3. /\ [h[n] EXCEPT !.parent = v] \in NodeRecords
        /\ LET new == [h[n] EXCEPT !.parent = v]
           IN  /\ new.data = h[n].data /\ new.color = h[n].color /\ new.parent = v
               /\ \A u \in Sides : new[u] = h[n][u]
    BY <2>2, ParentOf
  <2>4. /\ Records(g) /\ DOMAIN g = DOMAIN h
        /\ \A m \in DOMAIN h : g[m] = IF m = n THEN [h[n] EXCEPT !.parent = v] ELSE h[m]
    BY <1>3, <2>3, NodeStored
  <2> HIDE DEF g
  <2>5. ParentSet(h, g, n, v)
    BY <2>3, <2>4 DEF ParentSet
  <2> QED
    BY <2>1, <2>4, <2>5
<1> QED
  BY <1>2, <1>3

LEMMA LinkStored ==
  ASSUME NEW h, Records(h), NEW n \in DOMAIN h, NEW s \in Sides, NEW v \in Links
  PROVE  Records([h EXCEPT ![n][s] = v]) /\ LinkSet(h, [h EXCEPT ![n][s] = v], n, s, v)
<1> DEFINE new == [h[n] EXCEPT ![s] = v]
           g == [h EXCEPT ![n] = new]
<1>1. [h EXCEPT ![n][s] = v] = g
  OBVIOUS
<1>2. h[n] \in NodeRecords
  BY DEF Records, NodeRecords
<1>3. /\ new \in NodeRecords
      /\ new.data = h[n].data /\ new.color = h[n].color /\ new.parent = h[n].parent
      /\ \A u \in Sides : new[u] = IF u = s THEN v ELSE h[n][u]
  BY <1>2, LinkOf
<1> HIDE DEF new
<1>4. /\ Records(g) /\ DOMAIN g = DOMAIN h
      /\ \A m \in DOMAIN h : g[m] = IF m = n THEN new ELSE h[m]
  BY <1>3, NodeStored
<1> HIDE DEF g
<1>5. LinkSet(h, g, n, s, v)
  BY <1>3, <1>4 DEF LinkSet
<1> QED
  BY <1>1, <1>4, <1>5 DEF g, new

(* The side a child is on, found by comparing data.                        *)
LEMMA SideBelowIs ==
  ASSUME NEW h, NEW R, NEW range, Ranged(h, R, range),
         NEW m \in R, NEW u \in Sides, h[m][u] # NULL, NEW x \in R,
         h[x].data \in range[h[m][u]]
  PROVE  SideBelow(h, x, m) = u
BY DEF Ranged, SideBelow

(* A rotation, and the colours afterwards: of what is now the upper and    *)
(* the lower node, and of the others.                                      *)
Turns(h, r, a, R, x, s, t, b) ==
  /\ a = [heap |-> a.heap, root |-> a.root]
  /\ Records(a.heap)
  /\ Turned(h, r, a.heap, a.root, R, x, s, t, b)
  /\ a.heap[t].color = h[h[x][s]].color
  /\ a.heap[b].color = h[x].color
  /\ \A m \in R \ {t, b} : a.heap[m].color = h[m].color

LEMMA RotateTurns ==
  ASSUME NEW h, Records(h), NEW r, NEW R, NEW range,
         Linked(h, r, R), Backed(h, r, R), Ranged(h, R, range),
         NEW x \in R, NEW s \in Sides, h[x][s] # NULL
  PROVE  Turns(h, r, Rotate([heap |-> h, root |-> r], x, s), R, x, s, h[x][s], x)
<1> DEFINE y == h[x][s]
           o == Opposite(s)
           p == h[x].parent
           c == h[y][o]
           low == [h[x] EXCEPT ![s] = c, !.parent = y]
           high == [h[y] EXCEPT ![o] = x, !.parent = p]
           t0 == [h EXCEPT ![x] = low]
           t1 == [t0 EXCEPT ![y] = high]
           t2 == WithParent(t1, c, x)
           t3 == IF x = r THEN t2 ELSE [t2 EXCEPT ![p][SideBelow(h, x, p)] = y]
           a == Rotate([heap |-> h, root |-> r], x, s)
<1>1. o \in Sides /\ o # s /\ Opposite(o) = s /\ \A u \in Sides : u = s \/ u = o
  BY TwoSides
<1>2. /\ R \subseteq DOMAIN h /\ NULL \notin R
      /\ \A m \in R, u \in Sides : h[m][u] # NULL =>
           /\ h[m][u] \in R \ {m, r} /\ h[h[m][u]].parent = m
           /\ h[h[m][u]].data \in range[h[m][u]]
           /\ \A v \in Sides : h[h[m][u]][v] # NULL => h[h[m][u]][v] # m
  BY Around
<1>3. /\ y \in R \ {x, r} /\ h[y].parent = x /\ h[y].data \in range[y]
      /\ \A v \in Sides : h[y][v] # NULL => h[y][v] # x
  BY <1>2
<1>4. c # NULL => c \in R \ {x, y} /\ h[c].parent = y
  BY <1>1, <1>2, <1>3
<1>5. a = [heap |-> t3, root |-> IF x = r THEN y ELSE r]
  BY DEF Rotate
<1>6. x \in DOMAIN h /\ y \in DOMAIN h /\ x \in Links /\ y \in Links /\ c \in Links /\ p \in Links
  BY <1>1, <1>2, <1>3, RecordFields DEF Links
<1>7. h[x] \in NodeRecords /\ h[y] \in NodeRecords
  BY <1>6 DEF Records, NodeRecords
<1>8. /\ low \in NodeRecords
      /\ low.data = h[x].data /\ low.color = h[x].color /\ low.parent = y
      /\ \A u \in Sides : low[u] = IF u = s THEN c ELSE h[x][u]
  <2> HIDE DEF y, c
  <2>1. Relinked(h[x], low, s, c, y)
    BY <1>6, <1>7, LinkParentOf
  <2> HIDE DEF low
  <2> QED
    BY <2>1 DEF Relinked
<1>9. /\ high \in NodeRecords
      /\ high.data = h[y].data /\ high.color = h[y].color /\ high.parent = p
      /\ \A u \in Sides : high[u] = IF u = o THEN x ELSE h[y][u]
  <2> HIDE DEF y, o, p
  <2>1. Relinked(h[y], high, o, x, p)
    BY <1>1, <1>6, <1>7, LinkParentOf
  <2> HIDE DEF high
  <2> QED
    BY <2>1 DEF Relinked
<1> HIDE DEF low, high, a
<1>10. /\ Records(t0) /\ DOMAIN t0 = DOMAIN h
       /\ \A m \in DOMAIN h : t0[m] = IF m = x THEN low ELSE h[m]
  BY <1>6, <1>8, NodeStored
<1> HIDE DEF y, o, p, c, t0
<1>11. /\ Records(t1) /\ DOMAIN t1 = DOMAIN h
       /\ \A m \in DOMAIN h : t1[m] = IF m = y THEN high ELSE IF m = x THEN low ELSE h[m]
  <2>1. y \in DOMAIN t0
    BY <1>6, <1>10
  <2> QED
    BY <1>9, <1>10, <2>1, NodeStored
<1> HIDE DEF t1
<1>12. Records(t2) /\ ParentSet(t1, t2, c, x)
  BY <1>2, <1>4, <1>6, <1>11, WithParentIs
<1> HIDE DEF t2
<1>13. x # r => /\ p \in R \ {x, y}
                /\ SideBelow(h, x, p) \in Sides /\ h[p][SideBelow(h, x, p)] = x
  <2> SUFFICES ASSUME x # r
               PROVE  /\ p \in R \ {x, y}
                      /\ SideBelow(h, x, p) \in Sides /\ h[p][SideBelow(h, x, p)] = x
    OBVIOUS
  <2>1. PICK u \in Sides : h[p][u] = x
    BY DEF Backed, p
  <2>2. p \in R
    BY DEF Backed, p
  <2>3. p # x /\ p # y /\ h[x].data \in range[h[p][u]]
    BY <1>2, <1>3, <2>1, <2>2
  <2>4. SideBelow(h, x, p) = u
    BY <1>2, <2>1, <2>2, <2>3, SideBelowIs
  <2> QED
    BY <2>1, <2>2, <2>3, <2>4
<1>14. /\ Records(t3) /\ DOMAIN t3 = DOMAIN h
       /\ \A m \in DOMAIN h :
            /\ t3[m].data = t2[m].data /\ t3[m].color = t2[m].color
            /\ t3[m].parent = t2[m].parent
            /\ \A u \in Sides : t3[m][u] = IF x # r /\ m = p /\ u = SideBelow(h, x, p)
                                          THEN y ELSE t2[m][u]
  <2>1. DOMAIN t2 = DOMAIN h
    BY <1>11, <1>12 DEF ParentSet
  <2>2. CASE x = r
    BY <1>12, <2>1, <2>2
  <2>3. CASE x # r
    <3> DEFINE u == SideBelow(h, x, p)
               g == [t2 EXCEPT ![p][u] = y]
    <3>1. t3 = g
      BY <2>3
    <3> HIDE DEF u
    <3>2. p \in DOMAIN t2 /\ u \in Sides
      BY <1>2, <1>13, <2>1, <2>3 DEF u
    <3>3. Records(g) /\ LinkSet(t2, g, p, u, y)
      BY <1>6, <1>12, <3>2, LinkStored
    <3> HIDE DEF g
    <3>4. Records(t3) /\ LinkSet(t2, t3, p, u, y)
      BY <3>1, <3>3
    <3> HIDE DEF t3
    <3> QED
      BY <2>1, <2>3, <3>4 DEF LinkSet, u
  <2> QED
    BY <2>2, <2>3
<1> HIDE DEF t3
<1> DEFINE side == SideBelow(h, x, p)
           q == IF x = r THEN y ELSE r
<1> HIDE DEF side, q
<1>15. /\ DOMAIN t3 = DOMAIN h
       /\ \A m \in DOMAIN h :
            /\ t3[m].data = h[m].data /\ t3[m].color = h[m].color
            /\ t3[m].parent = IF m = c THEN x ELSE IF m = y THEN p
                              ELSE IF m = x THEN y ELSE h[m].parent
            /\ \A u \in Sides :
                 t3[m][u] = IF x # r /\ m = p /\ u = side THEN y
                            ELSE IF m = y /\ u = o THEN x
                            ELSE IF m = x /\ u = s THEN c ELSE h[m][u]
  <2>1. \A m \in DOMAIN h :
          /\ t2[m].data = t1[m].data /\ t2[m].color = t1[m].color
          /\ t2[m].parent = IF m = c THEN x ELSE t1[m].parent
          /\ \A u \in Sides : t2[m][u] = t1[m][u]
    BY <1>11, <1>12 DEF ParentSet
  <2>2. \A m \in DOMAIN h :
          /\ t1[m].data = h[m].data /\ t1[m].color = h[m].color
          /\ t1[m].parent = IF m = y THEN p ELSE IF m = x THEN y ELSE h[m].parent
          /\ \A u \in Sides : t1[m][u] = IF m = y /\ u = o THEN x
                                         ELSE IF m = x /\ u = s THEN c ELSE h[m][u]
    BY <1>3, <1>8, <1>9, <1>11
  <2> QED
    BY <1>14, <2>1, <2>2 DEF side
<1>16. Turned(h, r, t3, q, R, x, s, y, x)
  <2>1. ASSUME NEW m \in R \ {x, y}
        PROVE  /\ t3[m].data = h[m].data
               /\ \A u \in Sides : t3[m][u] = IF h[m][u] = x THEN y ELSE h[m][u]
               /\ t3[m].parent = IF h[m].parent = x THEN x
                                ELSE IF h[m].parent # y THEN h[m].parent
                                ELSE IF m = h[y][s] THEN y ELSE x
    <3>1. m \in DOMAIN h /\ t3[m].data = h[m].data
      BY <1>2, <1>15
    <3>2. ASSUME NEW u \in Sides
          PROVE  t3[m][u] = IF h[m][u] = x THEN y ELSE h[m][u]
      <4>1. CASE h[m][u] = x
        <5>1. m = p /\ x # r
          BY <1>2, <4>1 DEF p
        <5>2. h[x].data \in range[h[m][u]]
          BY <1>2, <4>1
        <5>3. u = side
          BY <1>2, <4>1, <5>1, <5>2, SideBelowIs DEF side
        <5> QED
          BY <1>15, <3>1, <4>1, <5>1, <5>3
      <4>2. CASE h[m][u] # x
        <5>1. ~(x # r /\ m = p /\ u = side)
          BY <1>13, <4>2 DEF side
        <5> QED
          BY <1>15, <2>1, <3>1, <4>2, <5>1
      <4> QED
        BY <4>1, <4>2
    <3>3. t3[m].parent = IF h[m].parent = x THEN x
                         ELSE IF h[m].parent # y THEN h[m].parent
                         ELSE IF m = h[y][s] THEN y ELSE x
      <4>1. t3[m].parent = IF m = c THEN x ELSE h[m].parent
        BY <1>15, <2>1, <3>1
      <4>2. h[y][s] # NULL => c # h[y][s]
        BY <1>3, Around DEF c, o
      <4>3. CASE h[m].parent = y /\ m # h[y][s]
        <5>1. m # r
          BY <1>2, <1>3, <2>1, <4>3 DEF Linked
        <5>2. PICK u \in Sides : h[y][u] = m
          BY <4>3, <5>1 DEF Backed
        <5>3. m = c
          BY <1>1, <4>3, <5>2 DEF c
        <5> QED
          BY <1>3, <4>1, <4>3, <5>3
      <4>4. CASE h[m].parent = y /\ m = h[y][s]
        BY <1>2, <1>3, <4>1, <4>2, <4>4
      <4>5. CASE h[m].parent # y
        BY <1>2, <1>4, <4>1, <4>5
      <4> QED
        BY <4>3, <4>4, <4>5
    <3> QED
      BY <3>1, <3>2, <3>3
  <2>2. /\ t3[y].data = h[y].data /\ t3[x].data = h[x].data
        /\ t3[y][s] = h[y][s] /\ t3[y][o] = x
        /\ t3[x][s] = c /\ t3[x][o] = h[x][o]
        /\ t3[y].parent = p /\ t3[x].parent = y
    BY <1>1, <1>2, <1>3, <1>4, <1>6, <1>13, <1>15
  <2> QED
    BY <1>1, <1>3, <1>15, <2>1, <2>2 DEF Turned, y, o, p, c, q
<1>17. a.heap = t3 /\ a.root = q /\ a = [heap |-> a.heap, root |-> a.root]
  BY <1>5 DEF q
<1>18. Turns(h, r, a, R, x, s, y, x)
  BY <1>2, <1>3, <1>6, <1>14, <1>15, <1>16, <1>17 DEF Turns, y
<1> QED
  BY <1>18 DEF a, y

Replaced(old, new, d, c, l, r) ==
  /\ new \in NodeRecords
  /\ new.data = d /\ new.color = c /\ new.parent = old.parent
  /\ new["left"] = l /\ new["right"] = r

LEMMA ReplacedOf ==
  ASSUME NEW old \in NodeRecords, NEW d \in Keys, NEW c \in Colors,
         NEW l \in Links, NEW r \in Links
  PROVE  Replaced(old, [old EXCEPT !.data = d, !.color = c, !.left = l, !.right = r], d, c, l, r)
BY DEF NodeRecords, Replaced

LEMMA SplRotateTurns ==
  ASSUME NEW h, Records(h), NEW r, NEW R, NEW range,
         Linked(h, r, R), Backed(h, r, R), Ranged(h, R, range),
         NEW x \in R, h[x]["left"] # NULL, h[x]["right"] = NULL
  PROVE  Turns(h, r, SplRightRotate([heap |-> h, root |-> r], x), R, x, "left", x, h[x]["left"])
<1> DEFINE y == h[x]["left"]
           t2 == h[y]["left"]
           c == h[y]["right"]
           high == [h[x] EXCEPT !.data = h[y].data, !.color = h[y].color, !.left = t2, !.right = y]
           low == [h[y] EXCEPT !.data = h[x].data, !.color = h[x].color, !.left = c, !.right = NULL]
           g0 == [h EXCEPT ![x] = high]
           g1 == [g0 EXCEPT ![y] = low]
           g == WithParent(g1, t2, x)
           a == SplRightRotate([heap |-> h, root |-> r], x)
<1>1. /\ "left" \in Sides /\ "right" \in Sides /\ Opposite("left") = "right"
      /\ \A u \in Sides : u = "left" \/ u = "right"
  BY DEF Sides, Opposite
<1>2. /\ R \subseteq DOMAIN h /\ NULL \notin R
      /\ \A m \in R, u \in Sides : h[m][u] # NULL =>
           h[m][u] \in R \ {m, r} /\ h[h[m][u]].parent = m
  BY Around
<1>3. y \in R \ {x, r} /\ h[y].parent = x
  BY <1>1, <1>2
<1>4. /\ t2 # NULL => t2 \in R \ {x, y} /\ h[t2].parent = y
      /\ c # NULL => c # t2
  <2>1. t2 # NULL => t2 \in R \ {x, y} /\ h[t2].parent = y
    BY <1>1, <1>2, <1>3, Around
  <2> HIDE DEF y
  <2>2. t2 # NULL => c # t2
    BY <1>1, <1>3, Around
  <2> QED
    BY <2>1, <2>2
<1>5. a = [heap |-> g, root |-> r]
  BY DEF SplRightRotate
<1>6. /\ x \in DOMAIN h /\ y \in DOMAIN h /\ x \in Links /\ y \in Links
      /\ c \in Links /\ t2 \in Links /\ NULL \in Links
      /\ h[x].data \in Keys /\ h[y].data \in Keys
      /\ h[x].color \in Colors /\ h[y].color \in Colors
  BY <1>1, <1>2, <1>3, RecordFields DEF Links, Colors
<1>7. h[x] \in NodeRecords /\ h[y] \in NodeRecords
  BY <1>6 DEF Records, NodeRecords
<1>8. Replaced(h[x], high, h[y].data, h[y].color, t2, y)
  <2> HIDE DEF y, t2
  <2> QED
    BY <1>6, <1>7, ReplacedOf
<1>9. Replaced(h[y], low, h[x].data, h[x].color, c, NULL)
  <2> HIDE DEF y, c
  <2> QED
    BY <1>6, <1>7, ReplacedOf
<1> HIDE DEF low, high, a
<1>10. /\ Records(g0) /\ DOMAIN g0 = DOMAIN h
       /\ \A m \in DOMAIN h : g0[m] = IF m = x THEN high ELSE h[m]
  BY <1>6, <1>8, NodeStored DEF Replaced
<1> HIDE DEF y, c, t2, g0
<1>11. /\ Records(g1) /\ DOMAIN g1 = DOMAIN h
       /\ \A m \in DOMAIN h : g1[m] = IF m = y THEN low ELSE IF m = x THEN high ELSE h[m]
  <2>1. y \in DOMAIN g0
    BY <1>6, <1>10
  <2>2. low \in NodeRecords
    BY <1>9 DEF Replaced
  <2> QED
    BY <1>10, <2>1, <2>2, NodeStored
<1> HIDE DEF g1
<1>12. Records(g) /\ ParentSet(g1, g, t2, x)
  BY <1>2, <1>4, <1>6, <1>11, WithParentIs
<1> HIDE DEF g
<1>13. /\ DOMAIN g = DOMAIN h
       /\ \A m \in DOMAIN h :
            /\ g[m].data = IF m = y THEN h[x].data ELSE IF m = x THEN h[y].data ELSE h[m].data
            /\ g[m].color = IF m = y THEN h[x].color ELSE IF m = x THEN h[y].color ELSE h[m].color
            /\ g[m].parent = IF m = t2 THEN x ELSE h[m].parent
            /\ g[m]["left"] = IF m = y THEN c ELSE IF m = x THEN t2 ELSE h[m]["left"]
            /\ g[m]["right"] = IF m = y THEN NULL ELSE IF m = x THEN y ELSE h[m]["right"]
  <2>1. \A m \in DOMAIN h :
          /\ g[m].data = g1[m].data /\ g[m].color = g1[m].color
          /\ g[m].parent = IF m = t2 THEN x ELSE g1[m].parent
          /\ \A u \in Sides : g[m][u] = g1[m][u]
    BY <1>11, <1>12 DEF ParentSet
  <2>2. \A m \in DOMAIN h :
          /\ g1[m].data = IF m = y THEN h[x].data ELSE IF m = x THEN h[y].data ELSE h[m].data
          /\ g1[m].color = IF m = y THEN h[x].color ELSE IF m = x THEN h[y].color ELSE h[m].color
          /\ g1[m].parent = h[m].parent
          /\ g1[m]["left"] = IF m = y THEN c ELSE IF m = x THEN t2 ELSE h[m]["left"]
          /\ g1[m]["right"] = IF m = y THEN NULL ELSE IF m = x THEN y ELSE h[m]["right"]
    BY <1>8, <1>9, <1>11 DEF Replaced
  <2>3. DOMAIN g = DOMAIN h
    BY <1>11, <1>12 DEF ParentSet
  <2> QED
    BY <1>1, <2>1, <2>2, <2>3
<1>14. Turned(h, r, g, r, R, x, "left", x, y)
  <2>1. ASSUME NEW m \in R \ {x, y}
        PROVE  /\ g[m].data = h[m].data
               /\ \A u \in Sides : g[m][u] = IF h[m][u] = x THEN x ELSE h[m][u]
               /\ g[m].parent = IF h[m].parent = x THEN y
                                ELSE IF h[m].parent # y THEN h[m].parent
                                ELSE IF m = h[y]["left"] THEN x ELSE y
    <3>1. m \in DOMAIN h /\ m # NULL
      BY <1>2
    <3>2. g[m].data = h[m].data /\ \A u \in Sides : g[m][u] = h[m][u]
      BY <1>1, <1>13, <2>1, <3>1
    <3>3. g[m].parent = IF m = t2 THEN x ELSE h[m].parent
      BY <1>13, <3>1
    <3>4. h[m].parent # x
      <4> SUFFICES ASSUME h[m].parent = x
                   PROVE  FALSE
        OBVIOUS
      <4>1. m # r
        BY <1>2 DEF Linked
      <4>2. PICK u \in Sides : h[x][u] = m
        BY <4>1 DEF Backed
      <4> QED
        BY <1>1, <2>1, <3>1, <4>2 DEF y
    <3> QED
      BY <1>4, <3>1, <3>2, <3>3, <3>4 DEF t2
  <2>2. /\ g[x].data = h[y].data /\ g[y].data = h[x].data
        /\ g[x]["left"] = t2 /\ g[x]["right"] = y
        /\ g[y]["left"] = c /\ g[y]["right"] = h[x]["right"]
        /\ g[x].parent = h[x].parent /\ g[y].parent = x
    BY <1>2, <1>3, <1>4, <1>6, <1>13
  <2> QED
    BY <1>1, <1>3, <1>13, <2>1, <2>2 DEF Turned, y, c, t2
<1>15. a.heap = g /\ a.root = r /\ a = [heap |-> a.heap, root |-> a.root]
  BY <1>5
<1>16. Turns(h, r, a, R, x, "left", x, y)
  BY <1>2, <1>3, <1>6, <1>12, <1>13, <1>14, <1>15 DEF Turns, y
<1> QED
  BY <1>16 DEF a, y

(* Whichever rotation rb_tree chooses.                                     *)
Bottom(h, x, s) == IF s = "left" /\ h[x]["right"] = NULL THEN h[x][s] ELSE x

LEMMA LiftedTurns ==
  ASSUME NEW h, Records(h), NEW r, NEW R, NEW range,
         Linked(h, r, R), Backed(h, r, R), Ranged(h, R, range),
         NEW x \in R, NEW s \in Sides, h[x][s] # NULL
  PROVE  LET m == [heap |-> h, root |-> r]
         IN  Turns(h, r, Lifted(m, x, s), R, x, s, Top(m, x, s), Bottom(h, x, s))
<1> DEFINE m == [heap |-> h, root |-> r]
<1>1. CASE s = "left" /\ h[x]["right"] = NULL
  <2>1. /\ Lifted(m, x, s) = SplRightRotate(m, x)
        /\ Top(m, x, s) = x /\ Bottom(h, x, s) = h[x]["left"]
    BY <1>1 DEF Lifted, RightRotate, Top, Bottom
  <2>2. h[x]["left"] # NULL
    BY <1>1
  <2> QED
    BY <1>1, <2>1, <2>2, SplRotateTurns
<1>2. CASE ~(s = "left" /\ h[x]["right"] = NULL)
  <2>1. /\ Lifted(m, x, s) = Rotate(m, x, s)
        /\ Top(m, x, s) = h[x][s] /\ Bottom(h, x, s) = x
    BY <1>2 DEF Lifted, RightRotate, LeftRotate, Top, Bottom, Sides
  <2> QED
    BY <2>1, RotateTurns
<1> QED
  BY <1>1, <1>2

-----------------------------------------------------------------------------
(* Colours.                                                                *)

(* The root is black, and x at most is red below a red parent.             *)
Colored(h, r, R, x) ==
  /\ Color(h, r) = "black"
  /\ \A n \in R \ {x} : ~RedPair(h, n)

(* A tree under repair: x at most has a violation.                         *)
Repairing(m, R, range, x) ==
  /\ m = [heap |-> m.heap, root |-> m.root]
  /\ Records(m.heap)
  /\ Linked(m.heap, m.root, R) /\ Backed(m.heap, m.root, R)
  /\ Ranged(m.heap, R, range)
  /\ Colored(m.heap, m.root, R, x)

(* n and its relatives: the parent p, which n is below on side s, and the  *)
(* grandparent g, which p is below on side u.                              *)
Family(h, r, R, n, p, g, s, u) ==
  /\ p \in R \ {n, r} /\ g \in R \ {n, p} /\ n # r
  /\ h[p][s] = n /\ h[g][u] = p /\ h[n].parent = p /\ h[p].parent = g
  /\ Parent(h, n) = p /\ GrandParent(h, n) = g
  /\ SideBelow(h, n, p) = s /\ SideBelow(h, p, g) = u
  /\ Uncle(h, n) = h[g][Opposite(u)]
  /\ h[n].color = "red" /\ h[p].color = "red" /\ h[g].color = "black"

LEMMA ColorIs ==
  ASSUME NEW h, Records(h), NEW n \in DOMAIN h
  PROVE  /\ Color(h, n) = h[n].color /\ h[n].color \in {"red", "black"}
         /\ Parent(h, n) = h[n].parent
         /\ RedPair(h, n) <=> h[n].color = "red" /\ Color(h, h[n].parent) = "red"
         /\ Color(h, NULL) = "black"
<1>1. n # NULL /\ h[n].color \in {"red", "black"}
  BY RecordFields
<1> QED
  BY <1>1 DEF Color, Parent, RedPair

LEMMA FamilyIs ==
  ASSUME NEW m, NEW R, NEW range, NEW n \in R, Repairing(m, R, range, n),
         RedPair(m.heap, n), NEW p \in R, NEW g \in R, NEW s \in Sides, NEW u \in Sides,
         m.heap[p][s] = n, m.heap[g][u] = p
  PROVE  Family(m.heap, m.root, R, n, p, g, s, u)
<1> DEFINE h == m.heap
           r == m.root
<1>1. /\ Records(h) /\ Linked(h, r, R) /\ Backed(h, r, R) /\ Ranged(h, R, range)
      /\ Colored(h, r, R, n) /\ RedPair(h, n) /\ h[p][s] = n /\ h[g][u] = p
  BY DEF Repairing
<1> HIDE DEF h, r
<1>2. /\ R \subseteq DOMAIN h /\ NULL \notin R
      /\ \A x \in R, v \in Sides : h[x][v] # NULL =>
           /\ h[x][v] \in R \ {x, r} /\ h[h[x][v]].parent = x
           /\ h[h[x][v]].data \in range[h[x][v]]
           /\ range[h[x][v]] \subseteq range[x]
           /\ \A w \in Sides : h[h[x][v]][w] # NULL => h[h[x][v]][w] # x
  BY <1>1, Around
<1>3. /\ n # NULL /\ p # NULL /\ g # NULL
      /\ n \in R \ {p, r} /\ h[n].parent = p /\ h[n].data \in range[n]
      /\ p \in R \ {g, r} /\ h[p].parent = g /\ h[p].data \in range[p]
      /\ range[n] \subseteq range[p] /\ n # g
  BY <1>1, <1>2
<1>4. Parent(h, n) = p /\ Parent(h, p) = g /\ GrandParent(h, n) = g
  BY <1>3 DEF Parent, GrandParent
<1>5. SideBelow(h, n, p) = s /\ SideBelow(h, p, g) = u /\ SideBelow(h, n, g) = u
  BY <1>1, <1>3, SideBelowIs
<1>6. Uncle(h, n) = h[g][Opposite(u)]
  BY <1>3, <1>4, <1>5 DEF Uncle
<1>7. h[n].color = "red" /\ h[p].color = "red"
  BY <1>1, <1>2, <1>3, ColorIs
<1>8. h[g].color = "black"
  <2>1. ~RedPair(h, p)
    BY <1>1, <1>3 DEF Colored
  <2> QED
    BY <1>1, <1>2, <1>3, <1>7, <2>1, ColorIs
<1> QED
  BY <1>1, <1>3, <1>4, <1>5, <1>6, <1>7, <1>8 DEF Family, h, r

LEMMA FamilyExists ==
  ASSUME NEW m, NEW R, NEW range, NEW n \in R, Repairing(m, R, range, n), RedPair(m.heap, n)
  PROVE  \E p, g \in R, s, u \in Sides : Family(m.heap, m.root, R, n, p, g, s, u)
<1> DEFINE h == m.heap
           r == m.root
           p == h[n].parent
           g == h[p].parent
<1>1. /\ Records(h) /\ Linked(h, r, R) /\ Backed(h, r, R) /\ Ranged(h, R, range)
      /\ Colored(h, r, R, n) /\ RedPair(h, n)
  BY DEF Repairing
<1> HIDE DEF h, r
<1>2. R \subseteq DOMAIN h /\ NULL \notin R
  BY <1>1, Around
<1>3. n # r
  BY <1>1, <1>2, ColorIs DEF Colored
<1>4. p \in R /\ \E s \in Sides : h[p][s] = n
  BY <1>1, <1>3 DEF Backed
<1>5. p # r
  BY <1>1, <1>2, <1>4, ColorIs DEF Colored
<1>6. g \in R /\ \E u \in Sides : h[g][u] = p
  BY <1>1, <1>4, <1>5 DEF Backed
<1> HIDE DEF p, g
<1>7. PICK s \in Sides, u \in Sides : h[p][s] = n /\ h[g][u] = p
  BY <1>4, <1>6
<1>8. Family(h, r, R, n, p, g, s, u)
  BY <1>1, <1>4, <1>6, <1>7, FamilyIs DEF h, r
<1> QED
  BY <1>4, <1>6, <1>8 DEF h, r

(* g is h but for the colours.                                             *)
Recolored(h, g) ==
  /\ DOMAIN g = DOMAIN h
  /\ \A m \in DOMAIN h : /\ g[m].data = h[m].data /\ g[m].parent = h[m].parent
                         /\ \A u \in Sides : g[m][u] = h[m][u]

LEMMA RecoloredTree ==
  ASSUME NEW h, Records(h), NEW g, Recolored(h, g), NEW r, NEW R, NEW range,
         Linked(h, r, R), Backed(h, r, R), Ranged(h, R, range)
  PROVE  Linked(g, r, R) /\ Backed(g, r, R) /\ Ranged(g, R, range)
<1>1. /\ R \subseteq DOMAIN h /\ (r \in R \/ r = NULL)
      /\ \A m \in R : /\ g[m].data = h[m].data /\ g[m].parent = h[m].parent
                      /\ \A u \in Sides : g[m][u] = h[m][u]
  BY DEF Recolored, Linked
<1>2. Linked(g, r, R)
  BY <1>1 DEF Recolored, Linked
<1>3. Backed(g, r, R)
  BY <1>1 DEF Backed
<1>4. Ranged(g, R, range)
  BY <1>1 DEF Ranged
<1> QED
  BY <1>2, <1>3, <1>4

LEMMA ColorStored ==
  ASSUME NEW h, Records(h), NEW n \in DOMAIN h, NEW c \in Colors
  PROVE  LET g == [h EXCEPT ![n].color = c]
         IN  /\ Records(g) /\ Recolored(h, g)
             /\ \A m \in DOMAIN h : g[m].color = IF m = n THEN c ELSE h[m].color
<1> DEFINE new == [h[n] EXCEPT !.color = c]
           g == [h EXCEPT ![n] = new]
<1>1. [h EXCEPT ![n].color = c] = g
  OBVIOUS
<1>2. h[n] \in NodeRecords
  BY DEF Records, NodeRecords
<1>3. /\ new \in NodeRecords
      /\ new.data = h[n].data /\ new.color = c /\ new.parent = h[n].parent
      /\ \A u \in Sides : new[u] = h[n][u]
  BY <1>2 DEF NodeRecords, Sides
<1> HIDE DEF new
<1>4. /\ Records(g) /\ DOMAIN g = DOMAIN h
      /\ \A m \in DOMAIN h : g[m] = IF m = n THEN new ELSE h[m]
  BY <1>3, NodeStored
<1> HIDE DEF g
<1>5. Recolored(h, g) /\ \A m \in DOMAIN h : g[m].color = IF m = n THEN c ELSE h[m].color
  BY <1>3, <1>4 DEF Recolored
<1> QED
  BY <1>1, <1>4, <1>5 DEF g, new

(* Exchanging the colours of two nodes.                                    *)
LEMMA ColorsExchanged ==
  ASSUME NEW h, Records(h), NEW n \in DOMAIN h, NEW o \in DOMAIN h, n # o
  PROVE  LET g == [h EXCEPT ![n].color = h[o].color, ![o].color = h[n].color]
         IN  /\ Records(g) /\ Recolored(h, g)
             /\ g[n].color = h[o].color /\ g[o].color = h[n].color
             /\ \A m \in DOMAIN h \ {n, o} : g[m].color = h[m].color
<1> DEFINE e == [h EXCEPT ![n].color = h[o].color]
           g == [e EXCEPT ![o].color = h[n].color]
<1>1. [h EXCEPT ![n].color = h[o].color, ![o].color = h[n].color] = g
  OBVIOUS
<1>2. h[n].color \in Colors /\ h[o].color \in Colors
  BY RecordFields DEF Colors
<1>3. /\ Records(e) /\ Recolored(h, e)
      /\ \A m \in DOMAIN h : e[m].color = IF m = n THEN h[o].color ELSE h[m].color
  BY <1>2, ColorStored
<1> HIDE DEF e
<1>4. o \in DOMAIN e
  BY <1>3 DEF Recolored
<1>5. /\ Records(g) /\ Recolored(e, g)
      /\ \A m \in DOMAIN e : g[m].color = IF m = o THEN h[n].color ELSE e[m].color
  BY <1>2, <1>3, <1>4, ColorStored
<1> HIDE DEF g
<1>6. /\ Recolored(h, g)
      /\ g[n].color = h[o].color /\ g[o].color = h[n].color
      /\ \A m \in DOMAIN h \ {n, o} : g[m].color = h[m].color
  BY <1>3, <1>5 DEF Recolored
<1> QED
  BY <1>1, <1>5, <1>6 DEF g, e

(* rb_tree_handle_violation3: n and its parent are on the same side, the   *)
(* uncle is black.  The tree is repaired.                                  *)
LEMMA Violation3Repaired ==
  ASSUME NEW m, NEW R, NEW range, NEW n \in R, Repairing(m, R, range, n),
         RedPair(m.heap, n), NEW p \in R, NEW g \in R, NEW s \in Sides,
         Family(m.heap, m.root, R, n, p, g, s, s),
         Color(m.heap, Uncle(m.heap, n)) = "black"
  PROVE  \E rg : Repairing(HandleViolation3(m, n), R, rg, NULL)
<1> DEFINE h == m.heap
           r == m.root
           o == Opposite(s)
           a == Lifted([heap |-> h, root |-> r], g, s)
           k == a.heap
           t == Top([heap |-> h, root |-> r], g, s)
           b == Bottom(h, g, s)
           f == [k EXCEPT ![p].color = k[g].color, ![g].color = k[p].color]
           rg == TurnedRange(h, R, range, g, s, t, b)
<1>1. /\ m = [heap |-> h, root |-> r]
      /\ Records(h) /\ Linked(h, r, R) /\ Backed(h, r, R) /\ Ranged(h, R, range)
      /\ Colored(h, r, R, n)
  BY DEF Repairing
<1>2. /\ p \in R \ {n, r} /\ g \in R \ {n, p} /\ n # r
      /\ h[p][s] = n /\ h[g][s] = p /\ h[n].parent = p /\ h[p].parent = g
      /\ Parent(h, n) = p /\ GrandParent(h, n) = g
      /\ SideBelow(h, n, p) = s /\ SideBelow(h, p, g) = s
      /\ Uncle(h, n) = h[g][o]
      /\ h[n].color = "red" /\ h[p].color = "red" /\ h[g].color = "black"
  BY DEF Family
<1>3. Color(h, h[g][o]) = "black"
  BY <1>2
<1>4. R \subseteq DOMAIN h /\ NULL \notin R
  BY <1>1, Around
<1>5. Turns(h, r, a, R, g, s, t, b)
  BY <1>1, <1>2, <1>4, LiftedTurns
<1>6. HandleViolation3(m, n) = [a EXCEPT !.heap[p].color = k[g].color, !.heap[g].color = k[p].color]
  BY <1>1, <1>2 DEF HandleViolation3
<1> HIDE DEF h, r, o, a, t, b
<1>7. /\ a = [heap |-> k, root |-> a.root] /\ Records(k)
      /\ Turned(h, r, k, a.root, R, g, s, t, b)
      /\ k[t].color = "red" /\ k[b].color = "black"
      /\ \A x \in R \ {t, b} : k[x].color = h[x].color
  BY <1>2, <1>5 DEF Turns
<1>8. HandleViolation3(m, n) = [heap |-> f, root |-> a.root]
  BY <1>6, <1>7
<1> DEFINE q == a.root
<1> HIDE DEF k, q
<1>9. Linked(k, q, R) /\ Backed(k, q, R) /\ Ranged(k, R, rg)
  BY <1>1, <1>2, <1>4, <1>7, TurnedRanged DEF q
<1> HIDE DEF rg
<1>10. /\ DOMAIN k = DOMAIN h
       /\ t # b /\ t \in {g, p} /\ b \in {g, p}
       /\ q = IF g = r THEN t ELSE r
       /\ k[t].parent = h[g].parent /\ k[b].parent = t
       /\ \A x \in R \ {g, p} :
            k[x].parent = IF h[x].parent = g THEN b
                          ELSE IF h[x].parent # p THEN h[x].parent
                          ELSE IF x = n THEN t ELSE b
  BY <1>2, <1>7 DEF Turned, q
<1>11. p \in DOMAIN k /\ g \in DOMAIN k /\ p # g
  BY <1>2, <1>4, <1>10
<1>12. /\ Records(f) /\ Recolored(k, f)
       /\ f[p].color = k[g].color /\ f[g].color = k[p].color
       /\ \A x \in DOMAIN k \ {p, g} : f[x].color = k[x].color
  BY <1>7, <1>11, ColorsExchanged DEF k
<1> HIDE DEF f
<1>13. /\ f[t].color = "black" /\ f[b].color = "red"
       /\ \A x \in R \ {g, p} : f[x].color = h[x].color
       /\ \A x \in R : f[x].parent = k[x].parent
       /\ R \subseteq DOMAIN f
  BY <1>4, <1>7, <1>10, <1>12 DEF Recolored
<1>14. Linked(f, q, R) /\ Backed(f, q, R) /\ Ranged(f, R, rg)
  BY <1>7, <1>9, <1>12, RecoloredTree DEF k
<1>15. Color(f, q) = "black"
  <2>1. CASE g = r
    BY <1>10, <1>13, <2>1 DEF Color
  <2>2. CASE g # r /\ r # NULL
    <3>1. r \in R \ {g, p}
      BY <1>1, <1>2, <2>2 DEF Linked
    <3> QED
      BY <1>1, <1>10, <1>13, <2>2, <3>1 DEF Color, Colored
  <2>3. CASE g # r /\ r = NULL
    BY <1>10, <2>3 DEF Color
  <2> QED
    BY <2>1, <2>2, <2>3
<1>16. ASSUME NEW x \in R, RedPair(f, x)
       PROVE  FALSE
  <2>1. x \in DOMAIN f /\ x \in DOMAIN h
    BY <1>4, <1>13
  <2>2. f[x].color = "red" /\ Color(f, f[x].parent) = "red"
    BY <1>12, <1>16, <2>1, ColorIs
  <2>3. /\ Color(f, t) = "black"
        /\ f[x].parent = k[x].parent
    BY <1>13 DEF Color
  <2>4. x # t /\ x # b
    BY <1>10, <1>13, <2>2, <2>3
  <2>5. x \in R \ {g, p} /\ h[x].color = "red"
    BY <1>10, <1>13, <2>2, <2>4
  <2>6. CASE h[x].parent = g
    <3>1. x # r
      BY <1>1, <1>4, <2>6 DEF Linked
    <3>2. PICK u \in Sides : h[g][u] = x
      BY <1>1, <2>6, <3>1 DEF Backed
    <3>3. u = o
      BY <1>2, <2>5, <3>2, TwoSides DEF o
    <3> QED
      BY <1>3, <1>4, <2>5, <3>2, <3>3 DEF Color
  <2>7. CASE h[x].parent = p
    <3>1. x # n
      BY <1>10, <2>2, <2>3, <2>5, <2>7, <1>2
    <3>2. ~RedPair(h, x)
      BY <1>1, <3>1 DEF Colored
    <3>3. Color(h, p) = "red"
      BY <1>2, <1>4 DEF Color
    <3> QED
      BY <1>1, <2>1, <2>5, <2>7, <3>2, <3>3, ColorIs
  <2>8. CASE h[x].parent # g /\ h[x].parent # p
    <3>1. f[x].parent = h[x].parent
      BY <1>10, <2>3, <2>5, <2>8
    <3>2. x # n
      BY <1>2, <2>8
    <3>3. ~RedPair(h, x)
      BY <1>1, <3>2 DEF Colored
    <3>4. Color(h, h[x].parent) # "red"
      BY <1>1, <2>1, <2>5, <3>3, ColorIs
    <3>5. CASE x = r
      <4>1. h[x].parent = NULL
        BY <1>1, <1>4, <3>5 DEF Linked
      <4> QED
        BY <2>2, <3>1, <4>1 DEF Color
    <3>6. CASE x # r
      <4>1. h[x].parent \in R \ {g, p}
        BY <1>1, <2>8, <3>6 DEF Backed
      <4> QED
        BY <1>4, <1>13, <2>2, <3>1, <3>4, <4>1 DEF Color
    <3> QED
      BY <3>5, <3>6
  <2> QED
    BY <2>6, <2>7, <2>8
<1>17. Colored(f, q, R, NULL)
  BY <1>15, <1>16 DEF Colored
<1>18. Repairing([heap |-> f, root |-> q], R, rg, NULL)
  BY <1>12, <1>14, <1>17 DEF Repairing
<1> QED
  BY <1>8, <1>18 DEF q

(* rb_tree_handle_violation2: n and its parent are on different sides.     *)
(* The parent is rotated, and what is below then is a case of the other.   *)
LEMMA Violation2Repaired ==
  ASSUME NEW m, NEW R, NEW range, NEW n \in R, Repairing(m, R, range, n),
         RedPair(m.heap, n), NEW p \in R, NEW g \in R, NEW s \in Sides, NEW u \in Sides,
         s # u, Family(m.heap, m.root, R, n, p, g, s, u),
         Color(m.heap, Uncle(m.heap, n)) = "black"
  PROVE  \E rg : Repairing(HandleViolation2(m, n), R, rg, NULL)
<1> DEFINE h == m.heap
           r == m.root
           a == Lifted([heap |-> h, root |-> r], p, s)
           k == a.heap
           t == Top([heap |-> h, root |-> r], p, s)
           b == Bottom(h, p, s)
           rg == TurnedRange(h, R, range, p, s, t, b)
<1>1. /\ m = [heap |-> h, root |-> r]
      /\ Records(h) /\ Linked(h, r, R) /\ Backed(h, r, R) /\ Ranged(h, R, range)
      /\ Colored(h, r, R, n)
  BY DEF Repairing
<1>2. /\ p \in R \ {n, r} /\ g \in R \ {n, p} /\ n # r
      /\ h[p][s] = n /\ h[g][u] = p /\ h[n].parent = p /\ h[p].parent = g
      /\ Parent(h, n) = p
      /\ SideBelow(h, n, p) = s
      /\ Uncle(h, n) = h[g][Opposite(u)]
      /\ h[n].color = "red" /\ h[p].color = "red" /\ h[g].color = "black"
  BY DEF Family
<1>3. Color(h, h[g][Opposite(u)]) = "black"
  BY <1>2
<1>4. R \subseteq DOMAIN h /\ NULL \notin R
  BY <1>1, Around
<1>5. Opposite(s) = u /\ Opposite(u) = s
  BY TwoSides
<1>6. Turns(h, r, a, R, p, s, t, b)
  BY <1>1, <1>2, <1>4, LiftedTurns
<1>7. HandleViolation2(m, n) = HandleViolation3(a, k[t][u])
  BY <1>1, <1>2, <1>5 DEF HandleViolation2
<1> HIDE DEF h, r, a, t, b
<1>8. /\ a = [heap |-> k, root |-> a.root] /\ Records(k)
      /\ Turned(h, r, k, a.root, R, p, s, t, b)
      /\ k[t].color = "red" /\ k[b].color = "red"
      /\ \A x \in R \ {t, b} : k[x].color = h[x].color
  BY <1>2, <1>6 DEF Turns
<1> HIDE DEF k
<1>9. Linked(k, a.root, R) /\ Backed(k, a.root, R) /\ Ranged(k, R, rg)
  BY <1>1, <1>2, <1>4, <1>8, TurnedRanged
<1> HIDE DEF rg
<1>10. /\ DOMAIN k = DOMAIN h
       /\ t # b /\ t \in {p, n} /\ b \in {p, n}
       /\ a.root = r
       /\ k[t][u] = b
       /\ k[t].parent = g /\ k[b].parent = t
       /\ \A x \in R \ {p, n} :
            /\ \A v \in Sides : k[x][v] = IF h[x][v] = p THEN t ELSE h[x][v]
            /\ k[x].parent = IF h[x].parent = p THEN b
                             ELSE IF h[x].parent # n THEN h[x].parent
                             ELSE IF x = h[n][s] THEN t ELSE b
  BY <1>2, <1>5, <1>8 DEF Turned
<1>11. \A x \in R \ {p, n} : k[x].color = h[x].color
  BY <1>8, <1>10
<1>12. R \subseteq DOMAIN k /\ t \in R /\ b \in R
  BY <1>4, <1>10
<1>13. Color(k, r) = "black"
  <2>1. CASE r = NULL
    BY <2>1 DEF Color
  <2>2. CASE r # NULL
    <3>1. r \in R \ {p, n}
      BY <1>1, <1>2, <2>2 DEF Linked
    <3> QED
      BY <1>1, <1>11, <2>2, <3>1 DEF Color, Colored
  <2> QED
    BY <2>1, <2>2
<1>14. ASSUME NEW x \in R \ {b}, RedPair(k, x)
       PROVE  FALSE
  <2>1. x \in DOMAIN k /\ x \in DOMAIN h
    BY <1>4, <1>12
  <2>2. k[x].color = "red" /\ Color(k, k[x].parent) = "red"
    BY <1>8, <1>14, <2>1, ColorIs
  <2>3. Color(k, g) = "black"
    BY <1>2, <1>4, <1>11 DEF Color
  <2>4. x # t
    BY <1>10, <2>2, <2>3
  <2>5. x \in R \ {g, p, n} /\ h[x].color = "red"
    <3>1. x \in R \ {p, n}
      BY <1>10, <1>14, <2>4
    <3> QED
      BY <1>2, <1>11, <2>2, <3>1
  <2>6. ~RedPair(h, x)
    BY <1>1, <2>5 DEF Colored
  <2>7. Color(h, h[x].parent) # "red"
    BY <1>1, <2>1, <2>5, <2>6, ColorIs
  <2>8. h[x].parent # p /\ h[x].parent # n
    BY <1>2, <1>4, <2>7 DEF Color
  <2>9. k[x].parent = h[x].parent
    BY <1>10, <2>5, <2>8
  <2>10. CASE x = r
    <3>1. h[x].parent = NULL
      BY <1>1, <1>4, <2>10 DEF Linked
    <3> QED
      BY <2>2, <2>9, <3>1 DEF Color
  <2>11. CASE x # r
    <3>1. h[x].parent \in R \ {p, n}
      BY <1>1, <2>8, <2>11 DEF Backed
    <3> QED
      BY <1>4, <1>11, <2>2, <2>7, <2>9, <3>1 DEF Color
  <2> QED
    BY <2>10, <2>11
<1>15. Repairing(a, R, rg, b)
  BY <1>8, <1>9, <1>10, <1>13, <1>14 DEF Repairing, Colored, k
<1>16. RedPair(k, b)
  <2>1. Color(k, t) = "red"
    BY <1>4, <1>8, <1>12 DEF Color
  <2> QED
    BY <1>8, <1>10, <1>12, <2>1, ColorIs
<1>17. k[g][u] = t /\ k[t][u] = b /\ k[g][Opposite(u)] = h[g][Opposite(u)]
  <2>1. h[g][Opposite(u)] # p
    BY <1>1, <1>2, <1>4, Around
  <2> QED
    BY <1>2, <1>5, <1>10, <2>1
<1>18. Family(k, a.root, R, b, t, g, u, u)
  BY <1>12, <1>15, <1>16, <1>17, FamilyIs DEF k
<1>19. Color(k, Uncle(k, b)) = "black"
  <2> DEFINE c == h[g][Opposite(u)]
  <2>1. Uncle(k, b) = c
    BY <1>17, <1>18 DEF Family
  <2>2. CASE c = NULL
    BY <2>1, <2>2 DEF Color
  <2>3. CASE c # NULL
    <3>1. c \in R /\ h[c].parent = g /\ c # p
      BY <1>1, <1>2, <1>4, <1>5, <2>3, Around
    <3>2. c \in R \ {p, n}
      BY <1>2, <3>1
    <3>3. k[c].color = h[c].color
      BY <1>11, <3>2
    <3> HIDE DEF c
    <3>4. Color(h, c) = "black"
      BY <1>3 DEF c
    <3> QED
      BY <2>1, <2>3, <3>3, <3>4 DEF Color
  <2> QED
    BY <2>2, <2>3
<1>20. \E rr : Repairing(HandleViolation3(a, b), R, rr, NULL)
  BY <1>2, <1>12, <1>15, <1>16, <1>18, <1>19, Violation3Repaired DEF k
<1> QED
  BY <1>7, <1>10, <1>20 DEF k

-----------------------------------------------------------------------------
(* rb_tree_check_fix_violation: its loop.                                  *)

Reds(h) == {n \in DOMAIN h : h[n].color = "red"}

LEMMA CountReds ==
  ASSUME NEW h, Records(h)
  PROVE  /\ IsFiniteSet(DOMAIN h) /\ IsFiniteSet(Reds(h))
         /\ Cardinality(DOMAIN h) \in Nat /\ Cardinality(Reds(h)) \in Nat
         /\ Cardinality(Reds(h)) <= Cardinality(DOMAIN h)
<1>1. IsFiniteSet(DOMAIN h) /\ Reds(h) \in SUBSET DOMAIN h
  BY BinaryTreeAssumption, FS_Subset DEF Records, Reds
<1> QED
  BY <1>1, FS_Subset, FS_CardinalityType

LEMMA FlippedIs ==
  ASSUME NEW h, Records(h), NEW S
  PROVE  LET g == Flipped(h, S)
         IN  /\ Records(g) /\ Recolored(h, g)
             /\ \A m \in DOMAIN h :
                  g[m].color = IF m \notin S THEN h[m].color
                               ELSE IF h[m].color = "red" THEN "black" ELSE "red"
<1> DEFINE g == Flipped(h, S)
           new(m) == [h[m] EXCEPT !.color = IF @ = "red" THEN "black" ELSE "red"]
<1>1. /\ DOMAIN g = DOMAIN h
      /\ \A m \in DOMAIN h : g[m] = IF m \in S THEN new(m) ELSE h[m]
  BY DEF Flipped
<1>2. ASSUME NEW m \in DOMAIN h
      PROVE  /\ new(m) \in NodeRecords
             /\ new(m).data = h[m].data /\ new(m).parent = h[m].parent
             /\ new(m).color = IF h[m].color = "red" THEN "black" ELSE "red"
             /\ \A u \in Sides : new(m)[u] = h[m][u]
  <2>1. h[m] \in NodeRecords
    BY DEF Records, NodeRecords
  <2> QED
    BY <2>1 DEF NodeRecords, Sides, Colors
<1> HIDE DEF g, new
<1>3. Records(g)
  <2>1. \A m \in DOMAIN h : g[m] \in NodeRecords
    BY <1>1, <1>2 DEF Records, NodeRecords
  <2> QED
    BY <1>1, <2>1 DEF Records, NodeRecords
<1>4. /\ Recolored(h, g)
      /\ \A m \in DOMAIN h :
           g[m].color = IF m \notin S THEN h[m].color
                        ELSE IF h[m].color = "red" THEN "black" ELSE "red"
  BY <1>1, <1>2 DEF Recolored
<1> QED
  BY <1>3, <1>4 DEF g

(* One pass of the loop.                                                   *)
RoundOf(s) ==
  IF Violation1(s.m.heap, s.node)
  THEN [m |-> HandleViolation1(s.m, s.node),
        node |-> IF GrandParent(s.m.heap, s.node) = s.m.root THEN NULL
                 ELSE GrandParent(s.m.heap, s.node)]
  ELSE s

(* It moves the violation up, and there are fewer red nodes.               *)
LEMMA Violation1MovesUp ==
  ASSUME NEW m, NEW R, NEW range, NEW n \in R, Repairing(m, R, range, n),
         Violation1(m.heap, n)
  PROVE  LET s == RoundOf([m |-> m, node |-> n])
         IN  /\ s.node \in R \cup {NULL}
             /\ Repairing(s.m, R, range, s.node)
             /\ DOMAIN s.m.heap = DOMAIN m.heap
             /\ Cardinality(Reds(s.m.heap)) < Cardinality(Reds(m.heap))
<1> DEFINE h == m.heap
           r == m.root
<1>1. /\ m = [heap |-> h, root |-> r]
      /\ Records(h) /\ Linked(h, r, R) /\ Backed(h, r, R) /\ Ranged(h, R, range)
      /\ Colored(h, r, R, n)
  BY DEF Repairing
<1>2. RedPair(h, n) /\ Color(h, Uncle(h, n)) = "red"
  BY DEF Violation1
<1>3. PICK p \in R, g \in R, z \in Sides, u \in Sides : Family(h, r, R, n, p, g, z, u)
  BY <1>2, FamilyExists
<1> DEFINE c == Uncle(h, n)
           f == Flipped(h, {c, p, g} \ {r})
           next == IF g = r THEN NULL ELSE g
<1>4. RoundOf([m |-> m, node |-> n]) = [m |-> [heap |-> f, root |-> r], node |-> next]
  <2>1. Parent(h, n) = p /\ GrandParent(h, n) = g
    BY <1>3 DEF Family
  <2>2. HandleViolation1(m, n) = [heap |-> f, root |-> r]
    BY <1>1, <2>1 DEF HandleViolation1
  <2> QED
    BY <2>1, <2>2 DEF RoundOf
<1> HIDE DEF h, r
<1>5. R \subseteq DOMAIN h /\ NULL \notin R
  BY <1>1, Around
<1>6. /\ p \in R \ {n, r} /\ g \in R \ {n, p} /\ h[g][u] = p
      /\ h[n].parent = p /\ h[p].parent = g
      /\ c = h[g][Opposite(u)]
      /\ h[n].color = "red" /\ h[p].color = "red" /\ h[g].color = "black"
  BY <1>3 DEF Family
<1> HIDE DEF c, f
<1>7. c \in R \ {r, g, p} /\ h[c].color = "red" /\ h[c].parent = g
  <2>1. c # NULL
    BY <1>2 DEF Color, c
  <2>2. c \in R \ {r, g} /\ h[c].parent = g /\ h[g][Opposite(u)] # p
    BY <1>1, <1>5, <1>6, <2>1, TwoSides, Around
  <2>3. h[c].color = "red"
    BY <1>2, <2>1 DEF Color, c
  <2> QED
    BY <1>6, <2>2, <2>3
<1>8. /\ Records(f) /\ Recolored(h, f)
      /\ \A x \in DOMAIN h :
           f[x].color = IF x \notin {c, p, g} \ {r} THEN h[x].color
                        ELSE IF h[x].color = "red" THEN "black" ELSE "red"
  BY <1>1, FlippedIs DEF f
<1>9. /\ f[c].color = "black" /\ f[p].color = "black"
      /\ f[g].color = IF g = r THEN "black" ELSE "red"
      /\ \A x \in DOMAIN h \ {c, p, g} : f[x].color = h[x].color
  BY <1>5, <1>6, <1>7, <1>8
<1>10. /\ DOMAIN f = DOMAIN h
       /\ \A x \in DOMAIN h : f[x].parent = h[x].parent
  BY <1>8 DEF Recolored
<1>11. Linked(f, r, R) /\ Backed(f, r, R) /\ Ranged(f, R, range)
  BY <1>1, <1>8, RecoloredTree
<1>12. Color(f, r) = "black"
  <2>1. r # NULL => r \in R /\ h[r].color = "black"
    BY <1>1 DEF Linked, Colored, Color
  <2> QED
    BY <1>5, <1>6, <1>7, <1>9, <2>1 DEF Color
<1>13. ASSUME NEW x \in R \ {next}, RedPair(f, x)
       PROVE  FALSE
  <2>1. x \in DOMAIN h /\ x \in DOMAIN f
    BY <1>5, <1>10
  <2>2. f[x].color = "red" /\ Color(f, h[x].parent) = "red"
    BY <1>8, <1>10, <1>13, <2>1, ColorIs
  <2>3. x \notin {c, p, g} /\ h[x].color = "red"
    BY <1>9, <1>13, <2>1, <2>2
  <2>4. x # r
    BY <1>1, <1>5, <2>3 DEF Colored, Color
  <2>5. h[x].parent \in R /\ \E v \in Sides : h[h[x].parent][v] = x
    BY <1>1, <2>4 DEF Backed
  <2>6. h[x].parent # g
    BY <1>6, <2>3, <2>5, TwoSides
  <2>7. h[x].parent \notin {c, p}
    BY <1>5, <1>6, <1>7, <1>9, <2>2 DEF Color
  <2>8. Color(h, h[x].parent) = "red"
    BY <1>5, <1>9, <2>2, <2>5, <2>6, <2>7 DEF Color
  <2>9. RedPair(h, x)
    BY <1>1, <2>1, <2>3, <2>8, ColorIs
  <2>10. x # n
    BY <1>6, <2>7
  <2> QED
    BY <1>1, <2>9, <2>10 DEF Colored
<1>14. Repairing([heap |-> f, root |-> r], R, range, next)
  BY <1>8, <1>11, <1>12, <1>13 DEF Repairing, Colored
<1>15. Cardinality(Reds(f)) < Cardinality(Reds(h))
  <2> DEFINE A == Reds(h)
             B == (A \ {c}) \ {p}
  <2>1. IsFiniteSet(A) /\ Cardinality(A) \in Nat
    BY <1>1, CountReds
  <2>2. c \in A /\ p \in A /\ p # c
    BY <1>5, <1>6, <1>7 DEF Reds
  <2>3. Reds(f) \subseteq B \cup {g}
    BY <1>6, <1>7, <1>9, <1>10 DEF Reds
  <2> HIDE DEF A
  <2>4. IsFiniteSet(A \ {c}) /\ Cardinality(A \ {c}) = Cardinality(A) - 1
    BY <2>1, <2>2, FS_RemoveElement
  <2>5. IsFiniteSet(B) /\ Cardinality(B) = Cardinality(A \ {c}) - 1
    BY <2>2, <2>4, FS_RemoveElement
  <2> HIDE DEF B
  <2>6. /\ IsFiniteSet(B \cup {g}) /\ Cardinality(B \cup {g}) \in Nat
        /\ Cardinality(B \cup {g}) <= Cardinality(B) + 1
    <3>1. IsFiniteSet(B \cup {g})
      BY <2>5, FS_AddElement
    <3>2. Cardinality(B) \in Nat /\ Cardinality(B \cup {g}) \in Nat
      BY <2>5, <3>1, FS_CardinalityType
    <3>3. Cardinality(B \cup {g}) = IF g \in B THEN Cardinality(B) ELSE Cardinality(B) + 1
      BY <2>5, FS_AddElement
    <3> QED
      BY <3>1, <3>2, <3>3
  <2>7. Cardinality(Reds(f)) \in Nat /\ Cardinality(Reds(f)) <= Cardinality(B \cup {g})
    <3>1. Reds(f) \in SUBSET (B \cup {g})
      BY <2>3
    <3> QED
      BY <2>6, <3>1, FS_Subset, FS_CardinalityType
  <2>8. Cardinality(B) \in Nat
    BY <2>5, FS_CardinalityType
  <2>9. Cardinality(Reds(f)) < Cardinality(A)
    BY <2>1, <2>4, <2>5, <2>6, <2>7, <2>8
  <2> QED
    BY <2>9 DEF A
<1>16. next \in R \cup {NULL}
  OBVIOUS
<1> HIDE DEF next
<1> QED
  BY <1>4, <1>10, <1>14, <1>15, <1>16 DEF h, r

(* All passes.                                                             *)
Rounds(first, most, f) ==
  f = [i \in 0 .. most |-> IF i = 0 THEN first ELSE RoundOf(f[i - 1])]

LEMMA RoundsAre ==
  ASSUME NEW first, NEW most \in Nat, NEW f, Rounds(first, most, f)
  PROVE  f[0] = first /\ \A i \in 0 .. most : i # 0 => f[i] = RoundOf(f[i - 1])
<1> DEFINE g == [i \in 0 .. most |-> IF i = 0 THEN first ELSE RoundOf(f[i - 1])]
<1>1. f = g
  BY Zenon DEF Rounds
<1>2. g[0] = first /\ \A i \in 0 .. most : i # 0 => g[i] = RoundOf(f[i - 1])
  OBVIOUS
<1> HIDE DEF g
<1> QED
  BY <1>1, <1>2

LEMMA AreRounds ==
  ASSUME NEW first, NEW most \in Nat, NEW f, f = [i \in 0 .. most |-> f[i]],
         f[0] = first, \A i \in 0 .. most : i # 0 => f[i] = RoundOf(f[i - 1])
  PROVE  Rounds(first, most, f)
<1> DEFINE g == [i \in 0 .. most |-> IF i = 0 THEN first ELSE RoundOf(f[i - 1])]
<1>1. \A i \in 0 .. most : f[i] = g[i]
  OBVIOUS
<1>2. g = [i \in 0 .. most |-> g[i]]
  OBVIOUS
<1> HIDE DEF g
<1>3. f = g
  BY <1>1, <1>2, Zenon
<1> QED
  BY <1>3 DEF g, Rounds

LEMMA RoundsExist ==
  ASSUME NEW first, NEW most \in Nat
  PROVE  \E f : Rounds(first, most, f)
<1> DEFINE E == {k \in Nat : \E f : Rounds(first, k, f)}
<1>1. 0 \in E
  <2> DEFINE f == [i \in 0 .. 0 |-> first]
  <2>1. f = [i \in 0 .. 0 |-> f[i]] /\ f[0] = first
    OBVIOUS
  <2>2. \A i \in 0 .. 0 : ~(i # 0)
    OBVIOUS
  <2> HIDE DEF f
  <2>3. Rounds(first, 0, f)
    BY <2>1, <2>2, AreRounds
  <2> QED
    BY <2>3
<1>2. ASSUME NEW k \in E
      PROVE  k + 1 \in E
  <2>1. PICK f : Rounds(first, k, f)
    OBVIOUS
  <2> DEFINE g == [i \in 0 .. k + 1 |-> IF i = k + 1 THEN RoundOf(f[k]) ELSE f[i]]
  <2>2. f[0] = first /\ \A i \in 0 .. k : i # 0 => f[i] = RoundOf(f[i - 1])
    BY <2>1, RoundsAre
  <2>3. g = [i \in 0 .. k + 1 |-> g[i]]
    OBVIOUS
  <2>4. (\A i \in 0 .. k : g[i] = f[i]) /\ g[k + 1] = RoundOf(f[k])
    OBVIOUS
  <2> HIDE DEF g
  <2>5. g[0] = first
    BY <2>2, <2>4
  <2>6. ASSUME NEW i \in 0 .. k + 1, i # 0
        PROVE  g[i] = RoundOf(g[i - 1])
    <3>1. i - 1 \in 0 .. k
      BY <2>6
    <3>2. CASE i = k + 1
      BY <2>4, <3>1, <3>2
    <3>3. CASE i # k + 1
      <4>1. i \in 0 .. k
        BY <3>3
      <4> QED
        BY <2>2, <2>4, <2>6, <3>1, <4>1
    <3> QED
      BY <3>2, <3>3
  <2>7. k + 1 \in Nat
    OBVIOUS
  <2> HIDE DEF E
  <2>8. Rounds(first, k + 1, g)
    BY <2>3, <2>5, <2>6, <2>7, AreRounds
  <2> QED
    BY <2>7, <2>8 DEF E
<1>3. most \in E
  <2> SUFFICES ASSUME most \notin E PROVE FALSE
    OBVIOUS
  <2>1. PICK k \in Nat \ E : \A n \in Nat \ E : k <= n
    BY SameAssumption, T!LeastNatural
  <2>2. k # 0 /\ k - 1 \in Nat
    BY <1>1, <2>1
  <2>3. k - 1 \in E
    BY <2>1, <2>2
  <2> HIDE DEF E
  <2>4. (k - 1) + 1 = k
    BY <2>2
  <2> QED
    BY <1>2, <2>1, <2>3, <2>4
<1> QED
  BY <1>3

(* After i passes: the violation has come to s.node, and red nodes are     *)
(* left for the passes left at most, or nothing is to be done any more.    *)
Climbing(h, R, range, i, s) ==
  /\ s.node \in R \cup {NULL}
  /\ Repairing(s.m, R, range, s.node)
  /\ DOMAIN s.m.heap = DOMAIN h
  /\ Violation1(s.m.heap, s.node) => Cardinality(Reds(s.m.heap)) + i <= Cardinality(DOMAIN h)

LEMMA RoundsClimb ==
  ASSUME NEW m, NEW R, NEW range, NEW n \in R, Repairing(m, R, range, n),
         NEW most \in Nat, NEW f, Rounds([m |-> m, node |-> n], most, f)
  PROVE  \A i \in 0 .. most : Climbing(m.heap, R, range, i, f[i])
<1> DEFINE h == m.heap
           first == [m |-> m, node |-> n]
           E == {i \in Nat : i <= most /\ ~Climbing(h, R, range, i, f[i])}
<1>1. f[0] = first /\ \A i \in 0 .. most : i # 0 => f[i] = RoundOf(f[i - 1])
  BY RoundsAre
<1>2. Records(h)
  BY DEF Repairing
<1>3. Climbing(h, R, range, 0, first)
  BY <1>2, CountReds DEF Climbing
<1> HIDE DEF first
<1>4. ASSUME NEW i \in 0 .. most, i # 0, Climbing(h, R, range, i - 1, f[i - 1])
      PROVE  Climbing(h, R, range, i, f[i])
  <2> DEFINE s == f[i - 1]
             j == i - 1
  <2>1. f[i] = RoundOf(s) /\ j \in Int /\ i = j + 1
    BY <1>1, <1>4
  <2>2. Climbing(h, R, range, j, s)
    BY <1>4
  <2> HIDE DEF s, j
  <2>3. CASE ~Violation1(s.m.heap, s.node)
    BY <2>1, <2>2, <2>3 DEF RoundOf, Climbing
  <2>4. CASE Violation1(s.m.heap, s.node)
    <3> DEFINE v == RoundOf(s)
    <3>1. s.node \in R
      <4>1. Color(s.m.heap, s.node) = "red"
        BY <2>4 DEF Violation1, RedPair
      <4> QED
        BY <2>2, <4>1 DEF Color, Climbing
    <3>2. Repairing(s.m, R, range, s.node) /\ DOMAIN s.m.heap = DOMAIN h
      BY <2>2 DEF Climbing
    <3>3. v = RoundOf([m |-> s.m, node |-> s.node])
      BY <2>4 DEF RoundOf
    <3> HIDE DEF v
    <3>4. /\ v.node \in R \cup {NULL}
          /\ Repairing(v.m, R, range, v.node)
          /\ DOMAIN v.m.heap = DOMAIN s.m.heap
          /\ Cardinality(Reds(v.m.heap)) < Cardinality(Reds(s.m.heap))
      BY <2>4, <3>1, <3>2, <3>3, Violation1MovesUp
    <3>5. /\ Cardinality(Reds(v.m.heap)) \in Nat /\ Cardinality(Reds(s.m.heap)) \in Nat
          /\ Cardinality(DOMAIN h) \in Nat
      BY <1>2, <3>2, <3>4, CountReds DEF Repairing
    <3>6. Cardinality(Reds(s.m.heap)) + j <= Cardinality(DOMAIN h)
      BY <2>2, <2>4 DEF Climbing
    <3>7. Cardinality(Reds(v.m.heap)) + i <= Cardinality(DOMAIN h)
      BY <2>1, <3>4, <3>5, <3>6
    <3>8. Climbing(h, R, range, i, v)
      BY <3>2, <3>4, <3>7 DEF Climbing
    <3> QED
      BY <2>1, <3>8 DEF v
  <2> QED
    BY <2>3, <2>4
<1>5. E = {}
  <2> SUFFICES ASSUME E # {} PROVE FALSE
    OBVIOUS
  <2>1. PICK k \in E : \A i \in E : k <= i
    BY SameAssumption, T!LeastNatural
  <2>2. k \in 0 .. most /\ ~Climbing(h, R, range, k, f[k])
    BY <2>1
  <2>3. k # 0
    BY <1>1, <1>3, <2>2
  <2>4. k - 1 \in Nat /\ k - 1 <= most /\ ~(k <= k - 1)
    BY <2>2, <2>3
  <2>5. k - 1 \notin E
    BY <2>1, <2>4
  <2>6. Climbing(h, R, range, k - 1, f[k - 1])
    BY <2>4, <2>5
  <2> QED
    BY <1>4, <2>2, <2>3, <2>6
<1> QED
  BY <1>5

LEMMA CheckFixIsRounds ==
  ASSUME NEW m, NEW n
  PROVE  LET most == Cardinality(DOMAIN m.heap)
             last == (CHOOSE f : Rounds([m |-> m, node |-> n], most, f))[most]
         IN  CheckFixViolation(m, n) =
               IF ~RedPair(last.m.heap, last.node) THEN last.m
               ELSE IF Inner(last.m.heap, last.node) THEN HandleViolation2(last.m, last.node)
               ELSE HandleViolation3(last.m, last.node)
BY DEF CheckFixViolation, Rounds, RoundOf

(* What rb_tree_check_fix_violation leaves has no violation.               *)
LEMMA CheckFixRepairs ==
  ASSUME NEW m, NEW R, NEW range, NEW n \in R, Repairing(m, R, range, n)
  PROVE  \E rg : Repairing(CheckFixViolation(m, n), R, rg, NULL)
<1> DEFINE most == Cardinality(DOMAIN m.heap)
           f == CHOOSE f : Rounds([m |-> m, node |-> n], most, f)
           s == f[most]
<1>1. most \in Nat
  BY CountReds DEF Repairing
<1>2. CheckFixViolation(m, n) =
        IF ~RedPair(s.m.heap, s.node) THEN s.m
        ELSE IF Inner(s.m.heap, s.node) THEN HandleViolation2(s.m, s.node)
        ELSE HandleViolation3(s.m, s.node)
  BY CheckFixIsRounds
<1> HIDE DEF most
<1>3. Rounds([m |-> m, node |-> n], most, f)
  BY <1>1, RoundsExist
<1> HIDE DEF f
<1>4. Climbing(m.heap, R, range, most, s)
  BY <1>1, <1>3, RoundsClimb
<1> HIDE DEF s
<1>5. Repairing(s.m, R, range, s.node) /\ s.node \in R \cup {NULL}
  BY <1>4 DEF Climbing
<1>6. CASE ~RedPair(s.m.heap, s.node)
  <2>1. Repairing(s.m, R, range, NULL)
    BY <1>5, <1>6 DEF Repairing, Colored
  <2> QED
    BY <1>2, <1>6, <2>1
<1>7. CASE RedPair(s.m.heap, s.node)
  <2> DEFINE h == s.m.heap
             x == s.node
  <2>1. x \in R
    BY <1>5, <1>7 DEF RedPair, Color
  <2>2. Records(h) /\ R \subseteq DOMAIN h
    BY <1>5 DEF Repairing, Linked
  <2>3. ~Violation1(h, x)
    <3> SUFFICES ASSUME Violation1(h, x) PROVE FALSE
      OBVIOUS
    <3>1. Cardinality(Reds(h)) + most <= most
      BY <1>4 DEF Climbing, most
    <3>2. IsFiniteSet(Reds(h)) /\ Cardinality(Reds(h)) \in Nat
      BY <2>2, CountReds
    <3>3. Cardinality(Reds(h)) = 0
      BY <1>1, <3>1, <3>2
    <3>4. Reds(h) = {}
      BY <3>2, <3>3, FS_EmptySet
    <3>5. x \in Reds(h)
      BY <1>7, <2>1, <2>2, ColorIs DEF Reds
    <3> QED
      BY <3>4, <3>5
  <2>4. PICK p \in R, g \in R, z \in Sides, u \in Sides : Family(h, s.m.root, R, x, p, g, z, u)
    BY <1>5, <1>7, <2>1, FamilyExists
  <2>5. Color(h, Uncle(h, x)) = "black"
    <3>1. Uncle(h, x) \in R \cup {NULL}
      <4>1. Uncle(h, x) = h[g][Opposite(u)] /\ Opposite(u) \in Sides
        BY <2>4, TwoSides DEF Family
      <4> QED
        BY <1>5, <4>1 DEF Repairing, Linked
    <3>2. Color(h, Uncle(h, x)) \in {"red", "black"}
      BY <2>2, <3>1, ColorIs DEF Color
    <3> QED
      BY <1>7, <2>3, <3>2 DEF Violation1
  <2>6. Inner(h, x) <=> z # u
    BY <2>4 DEF Inner, Family
  <2>7. CASE z # u
    <3>1. \E rg : Repairing(HandleViolation2(s.m, x), R, rg, NULL)
      BY <1>5, <1>7, <2>1, <2>4, <2>5, <2>7, Violation2Repaired
    <3> QED
      BY <1>2, <1>7, <2>6, <2>7, <3>1
  <2>8. CASE z = u
    <3>1. \E rg : Repairing(HandleViolation3(s.m, x), R, rg, NULL)
      BY <1>5, <1>7, <2>1, <2>4, <2>5, <2>8, Violation3Repaired
    <3> QED
      BY <1>2, <1>7, <2>6, <2>8, <3>1
  <2> QED
    BY <2>7, <2>8
<1> QED
  BY <1>6, <1>7

-----------------------------------------------------------------------------
(* The inductive invariant, of any heap and root.                          *)

Good(h, r) ==
  /\ Records(h)
  /\ r \in Links
  /\ Sound(h, r)
  /\ Colored(h, r, Reachable(h, r), NULL)

LEMMA GoodIs ==
  Good(heap, rb_tree_root) /\ status \in {"running", "ended"}
    <=> TypeOK /\ SearchTree /\ ParentsExact /\ ValidColors
<1>1. TypeOK <=> Records(heap) /\ rb_tree_root \in Links /\ status \in {"running", "ended"}
  BY DEF TypeOK, Records
<1>2. ASSUME Records(heap)
      PROVE  ValidColors <=> Colored(heap, rb_tree_root, Reachable(heap, rb_tree_root), NULL)
  <2>1. NULL \notin Reachable(heap, rb_tree_root)
    BY <1>2, Reached, BinaryTreeAssumption DEF Records
  <2> QED
    BY <2>1 DEF ValidColors, Colored
<1> QED
  BY <1>1, <1>2, SoundIs DEF Good

(* What is repaired is good.                                               *)
LEMMA RepairedGood ==
  ASSUME NEW m, NEW R, NEW range, Repairing(m, R, range, NULL)
  PROVE  Good(m.heap, m.root)
<1> DEFINE h == m.heap
           r == m.root
<1>1. Records(h) /\ Linked(h, r, R) /\ Ranged(h, R, range) /\ Colored(h, r, R, NULL)
  BY DEF Repairing
<1> HIDE DEF h, r
<1>2. Sound(h, r) /\ Reachable(h, r) \subseteq R
  BY <1>1, RangedSound
<1>3. Colored(h, r, Reachable(h, r), NULL)
  BY <1>1, <1>2 DEF Colored
<1>4. r \in Links
  BY <1>1 DEF Linked, Records, Links
<1> QED
  BY <1>1, <1>2, <1>3, <1>4 DEF Good, h, r

-----------------------------------------------------------------------------
(* Insertion.                                                              *)

LEMMA FreshIs ==
  ASSUME DOMAIN heap \subseteq Nodes, DOMAIN heap # Nodes
  PROVE  Fresh \in Nodes \ DOMAIN heap
<1>1. \E n \in Nodes : n \notin DOMAIN heap
  OBVIOUS
<1> QED
  BY <1>1 DEF Fresh

LEMMA AllocatedIs ==
  ASSUME Records(heap), NEW n \in Nodes, NEW node \in NodeRecords
  PROVE  LET g == Allocated(n, node)
         IN  /\ Records(g) /\ DOMAIN g = DOMAIN heap \cup {n} /\ g[n] = node
             /\ \A m \in DOMAIN heap \ {n} : g[m] = heap[m]
<1> DEFINE g == Allocated(n, node)
<1>1. /\ DOMAIN g = DOMAIN heap \cup {n}
      /\ \A m \in DOMAIN heap \cup {n} : g[m] = IF m = n THEN node ELSE heap[m]
  BY DEF Allocated
<1> HIDE DEF g
<1>2. Records(g)
  BY <1>1 DEF Records, NodeRecords
<1> QED
  BY <1>1, <1>2 DEF g

LEMMA NewNodeIs ==
  ASSUME NEW key \in Keys, NEW c \in Colors, NEW p \in Links
  PROVE  /\ NewNode(key, c, p) \in NodeRecords
         /\ NewNode(key, c, p).data = key /\ NewNode(key, c, p).color = c
         /\ NewNode(key, c, p).parent = p
         /\ \A s \in Sides : NewNode(key, c, p)[s] = NULL
BY DEF NewNode, NodeRecords, Sides, Links

LEMMA InsertFirstGood ==
  ASSUME Good(heap, rb_tree_root), NEW key \in Keys, InsertFirst(key)
  PROVE  Good(heap', rb_tree_root')
<1> DEFINE n == Fresh
           node == NewNode(key, "black", NULL)
           g == Allocated(n, node)
<1>1. /\ DOMAIN heap # Nodes /\ heap' = g /\ rb_tree_root' = n
  BY DEF InsertFirst, Return
<1>2. Records(heap) /\ n \in Nodes
  BY <1>1, FreshIs DEF Good, Records
<1>3. /\ node \in NodeRecords /\ node.data = key /\ node.color = "black"
      /\ node.parent = NULL /\ \A s \in Sides : node[s] = NULL
  BY NewNodeIs DEF Colors, Links
<1> HIDE DEF n, node
<1>4. Records(g) /\ DOMAIN g = DOMAIN heap \cup {n} /\ g[n] = node
  BY <1>2, <1>3, AllocatedIs
<1> HIDE DEF g
<1> DEFINE m == [heap |-> g, root |-> n]
           range == [x \in {n} |-> Int]
<1>5. Linked(g, n, {n}) /\ Backed(g, n, {n})
  BY <1>3, <1>4 DEF Linked, Backed
<1>6. Ranged(g, {n}, range)
  <2>1. key \in Int
    BY BinaryTreeAssumption
  <2> QED
    BY <1>3, <1>4, <2>1 DEF Ranged
<1>7. Colored(g, n, {n}, NULL)
  BY <1>3, <1>4, ColorIs DEF Colored
<1>8. Repairing(m, {n}, range, NULL)
  BY <1>4, <1>5, <1>6, <1>7 DEF Repairing
<1>9. Good(m.heap, m.root)
  BY <1>8, RepairedGood
<1> QED
  BY <1>1, <1>9

(* The search for a key, in the words of this module.                      *)
LEMMA DescentIs ==
  ASSUME NEW h, Good(h, rb_tree_root), NEW key
  PROVE  LET R == Reachable(h, rb_tree_root)
             way == Descent(h, rb_tree_root, key)
         IN  /\ way.end # NULL => way.end \in R
             /\ way.frames = <<>> => way.end = rb_tree_root
             /\ way.frames # <<>> =>
                  /\ LastFrame(way).node \in R
                  /\ T!Fits(h, rb_tree_root, key, LastFrame(way).node)
                  /\ h[LastFrame(way).node].data # key
                  /\ LastFrame(way).side = SideOf(key, h[LastFrame(way).node].data)
                  /\ LastFrame(way).side \in Sides
                  /\ h[LastFrame(way).node][LastFrame(way).side] = way.end
<1> DEFINE way == Descent(h, rb_tree_root, key)
<1>1. T!Typed(h) /\ T!SearchTree(h, rb_tree_root) /\ rb_tree_root \in T!Links
  BY RecordsTyped, SameTree, SameNames DEF Good, Sound
<1>2. T!Found(h, rb_tree_root, key, way)
  <2>1. T!Found(h, rb_tree_root, key, T!Descent(h, rb_tree_root, key))
    BY <1>1, SameAssumption, T!DescentFinds
  <2> QED
    BY <2>1, SameDescent
<1> HIDE DEF way
<1>3. T!LastFrame(way) = LastFrame(way)
  BY DEF T!LastFrame, LastFrame
<1>4. /\ way.end # NULL => way.end \in Reachable(h, rb_tree_root)
      /\ way.frames = <<>> => way.end = rb_tree_root
      /\ way.frames # <<>> =>
           /\ LastFrame(way).node \in Reachable(h, rb_tree_root)
           /\ T!Fits(h, rb_tree_root, key, LastFrame(way).node)
           /\ h[LastFrame(way).node].data # key
           /\ LastFrame(way).side = SideOf(key, h[LastFrame(way).node].data)
           /\ LastFrame(way).side \in Sides
           /\ h[LastFrame(way).node][LastFrame(way).side] = way.end
  BY <1>2, <1>3, SameReachable, SameNames DEF T!Found
<1> QED
  BY <1>4 DEF way

LEMMA InsertNewGood ==
  ASSUME Good(heap, rb_tree_root), NEW key \in Keys, InsertNew(key)
  PROVE  Good(heap', rb_tree_root')
<1> DEFINE r == rb_tree_root
           R == Reachable(heap, r)
           way == Descent(heap, r, key)
           p == LastFrame(way).node
           s == LastFrame(way).side
           n == Fresh
           node == NewNode(key, "red", p)
           a == Allocated(n, node)
           g == [a EXCEPT ![p][s] = n]
           range == [m \in R |-> {k \in Int : T!Fits(heap, r, k, m)}]
           S == R \cup {n}
           rg == [m \in S |-> IF m = n THEN {key} ELSE range[m]]
           new == CheckFixViolation([heap |-> g, root |-> r], n)
<1>1. /\ r # NULL /\ way.end = NULL /\ DOMAIN heap # Nodes
      /\ heap' = new.heap /\ rb_tree_root' = new.root
  BY DEF InsertNew, Return
<1>2. Records(heap) /\ Sound(heap, r) /\ Colored(heap, r, R, NULL) /\ n \in Nodes \ DOMAIN heap
  BY <1>1, FreshIs DEF Good, Records
<1>3. Linked(heap, r, R) /\ Backed(heap, r, R) /\ Ranged(heap, R, range)
  BY <1>2, SoundRanged
<1>4. /\ p \in R /\ T!Fits(heap, r, key, p) /\ heap[p].data # key
      /\ s = SideOf(key, heap[p].data) /\ s \in Sides /\ heap[p][s] = NULL
  <2>1. way.frames # <<>>
    BY <1>1, DescentIs
  <2> QED
    BY <1>1, <2>1, DescentIs
<1>5. R \subseteq DOMAIN heap /\ NULL \notin R /\ n \notin R /\ n # NULL /\ p # n
  <2>1. R \subseteq DOMAIN heap
    BY <1>2, Reached
  <2> QED
    BY <1>2, <1>4, <2>1, BinaryTreeAssumption DEF Records
<1>6. key \in Int /\ key \in range[p]
  BY <1>4, BinaryTreeAssumption
<1> HIDE DEF way, p, s, n, R, range
<1>7. /\ node \in NodeRecords /\ node.data = key /\ node.color = "red"
      /\ node.parent = p /\ \A u \in Sides : node[u] = NULL
  <2>1. p \in Links
    BY <1>2, <1>4, <1>5 DEF Links, Records
  <2> QED
    BY <2>1, NewNodeIs DEF Colors
<1> HIDE DEF node
<1>8. /\ Records(a) /\ DOMAIN a = DOMAIN heap \cup {n} /\ a[n] = node
      /\ \A m \in DOMAIN heap \ {n} : a[m] = heap[m]
  BY <1>2, <1>7, AllocatedIs
<1> HIDE DEF a
<1>9. Records(g) /\ LinkSet(a, g, p, s, n)
  <2>1. p \in DOMAIN a /\ n \in Links
    BY <1>2, <1>4, <1>5, <1>8 DEF Links
  <2> QED
    BY <1>4, <1>8, <2>1, LinkStored
<1> HIDE DEF g
<1>10. /\ DOMAIN g = DOMAIN heap \cup {n}
       /\ g[n].data = key /\ g[n].color = "red" /\ g[n].parent = p
       /\ \A u \in Sides : g[n][u] = NULL
       /\ \A m \in R : /\ g[m].data = heap[m].data /\ g[m].color = heap[m].color
                       /\ g[m].parent = heap[m].parent
                       /\ \A u \in Sides : g[m][u] = IF m = p /\ u = s THEN n ELSE heap[m][u]
  <2>1. \A m \in R : m \in DOMAIN heap \ {n} /\ m \in DOMAIN a /\ a[m] = heap[m]
    BY <1>5, <1>8
  <2>2. n \in DOMAIN a
    BY <1>8
  <2> QED
    BY <1>5, <1>7, <1>8, <1>9, <2>1, <2>2 DEF LinkSet
<1>11. r \in R /\ heap[r].parent = NULL
  BY <1>1, <1>3 DEF Linked
<1>12. Linked(g, r, S)
  <2>1. S \subseteq DOMAIN g
    BY <1>5, <1>10
  <2>2. g[r].parent = NULL
    BY <1>10, <1>11
  <2>3. ASSUME NEW m \in S, NEW u \in Sides, g[m][u] # NULL
        PROVE  g[m][u] \in S /\ g[g[m][u]].parent = m
    <3>1. m \in R
      BY <1>10, <2>3
    <3>2. CASE m = p /\ u = s
      BY <1>10, <3>1, <3>2
    <3>3. CASE ~(m = p /\ u = s)
      <4>1. g[m][u] = heap[m][u]
        BY <1>10, <3>1, <3>3
      <4>2. heap[m][u] \in R /\ heap[heap[m][u]].parent = m
        BY <1>3, <2>3, <3>1, <4>1 DEF Linked
      <4> QED
        BY <1>10, <4>1, <4>2
    <3> QED
      BY <3>2, <3>3
  <2> QED
    BY <1>11, <2>1, <2>2, <2>3 DEF Linked
<1>13. Backed(g, r, S)
  <2>1. ASSUME NEW m \in S \ {r}
        PROVE  g[m].parent \in S /\ \E u \in Sides : g[g[m].parent][u] = m
    <3>1. CASE m = n
      BY <1>4, <1>10, <3>1
    <3>2. CASE m # n
      <4>1. m \in R \ {r}
        BY <2>1, <3>2
      <4>2. heap[m].parent \in R
        BY <1>3, <4>1 DEF Backed
      <4>3. PICK u \in Sides : heap[heap[m].parent][u] = m
        BY <1>3, <4>1 DEF Backed
      <4>4. g[heap[m].parent][u] = m
        BY <1>4, <1>5, <1>10, <4>1, <4>2, <4>3
      <4> QED
        BY <1>10, <4>1, <4>2, <4>4
    <3> QED
      BY <3>1, <3>2
  <2> QED
    BY <2>1 DEF Backed
<1>14. Ranged(g, S, rg)
  <2>1. rg[n] = {key} /\ \A m \in R : rg[m] = range[m]
    BY <1>5
  <2>2. \A m \in R : /\ range[m] \subseteq Int /\ heap[m].data \in range[m]
                     /\ \A u \in Sides : heap[m][u] # NULL =>
                          \A k \in range[heap[m][u]] :
                            k \in range[m] /\ k # heap[m].data /\ SideOf(k, heap[m].data) = u
    BY <1>3 DEF Ranged
  <2> HIDE DEF rg
  <2>3. ASSUME NEW m \in S
        PROVE  rg[m] \subseteq Int /\ g[m].data \in rg[m]
    BY <1>6, <1>10, <2>1, <2>2
  <2>4. ASSUME NEW m \in S, NEW u \in Sides, g[m][u] # NULL, NEW k \in rg[g[m][u]]
        PROVE  k \in rg[m] /\ k # g[m].data /\ SideOf(k, g[m].data) = u
    <3>1. m \in R
      BY <1>10, <2>4
    <3>2. CASE m = p /\ u = s
      BY <1>4, <1>6, <1>10, <2>1, <2>4, <3>1, <3>2
    <3>3. CASE ~(m = p /\ u = s)
      <4>1. g[m][u] = heap[m][u]
        BY <1>10, <3>1, <3>3
      <4>2. heap[m][u] \in R
        BY <1>3, <2>4, <3>1, <4>1 DEF Linked
      <4> QED
        BY <1>10, <2>1, <2>2, <2>4, <3>1, <4>1, <4>2
    <3> QED
      BY <3>2, <3>3
  <2> QED
    BY <2>3, <2>4 DEF Ranged
<1>15. Colored(g, r, S, n)
  <2>1. Color(g, r) = "black"
    BY <1>1, <1>2, <1>10, <1>11 DEF Colored, Color
  <2>2. ASSUME NEW m \in S \ {n}, RedPair(g, m)
        PROVE  FALSE
    <3>1. m \in R /\ m \in DOMAIN g /\ m \in DOMAIN heap
      BY <1>5, <1>10, <2>2
    <3>2. g[m].color = "red" /\ Color(g, heap[m].parent) = "red"
      BY <1>9, <1>10, <2>2, <3>1, ColorIs
    <3>3. heap[m].parent \in R \cup {NULL}
      BY <1>3, <1>11, <3>1 DEF Backed
    <3>4. Color(heap, heap[m].parent) = "red"
      BY <1>5, <1>10, <3>2, <3>3 DEF Color
    <3>5. RedPair(heap, m)
      BY <1>2, <1>10, <3>1, <3>2, <3>4, ColorIs
    <3> QED
      BY <1>2, <1>5, <3>1, <3>5 DEF Colored
  <2> QED
    BY <2>1, <2>2 DEF Colored
<1> HIDE DEF rg, S, r
<1> DEFINE m == [heap |-> g, root |-> r]
<1>16. Repairing(m, S, rg, n)
  BY <1>9, <1>12, <1>13, <1>14, <1>15 DEF Repairing
<1>17. n \in S
  BY DEF S
<1> HIDE DEF m
<1>18. \E rr : Repairing(CheckFixViolation(m, n), S, rr, NULL)
  BY <1>16, <1>17, CheckFixRepairs
<1>19. Good(CheckFixViolation(m, n).heap, CheckFixViolation(m, n).root)
  BY <1>18, RepairedGood
<1> QED
  BY <1>1, <1>19 DEF m


-----------------------------------------------------------------------------
(* The inorder successor.                                                  *)

(* The frames fs are those of rest with one more, fr, in front.            *)
OneMore(h, x, fs, fr, rest) ==
  /\ fs # <<>>
  /\ fs[Len(fs)] = IF rest = <<>> THEN fr ELSE rest[Len(rest)]
  /\ Walk(h, x, fs).end = Walk(h, h[fr.node][fr.side], rest).end

LEMMA WalkOn ==
  ASSUME NEW h, NEW S, NEW fr \in S, NEW rest \in Seq(S), NEW x
  PROVE  <<fr>> \o rest \in Seq(S) /\ OneMore(h, x, <<fr>> \o rest, fr, rest)
<1> DEFINE fs == <<fr>> \o rest
<1>1. <<fr>> \in Seq(S) /\ Len(<<fr>>) = 1 /\ <<fr>>[1] = fr
  OBVIOUS
<1>2. fs \in Seq(S) /\ Len(fs) = Len(rest) + 1 /\ Len(rest) \in Nat
  BY <1>1, ConcatProperties, LenProperties
<1>3. \A i \in 1 .. 1 + Len(rest) : fs[i] = IF i <= 1 THEN <<fr>>[i] ELSE rest[i - 1]
  <2>1. \A i \in 1 .. Len(<<fr>>) + Len(rest) :
          fs[i] = IF i <= Len(<<fr>>) THEN <<fr>>[i] ELSE rest[i - Len(<<fr>>)]
    BY <1>1, ConcatProperties
  <2> QED
    BY <1>1, <2>1
<1>4. rest = <<>> <=> Len(rest) = 0
  BY EmptySeq
<1>5. fs[Len(fs)] = IF rest = <<>> THEN fr ELSE rest[Len(rest)]
  <2>1. CASE rest = <<>>
    <3>1. Len(fs) = 1 /\ fs[1] = fr
      BY <1>1, <1>2, <1>3, <1>4, <2>1
    <3> QED
      BY <2>1, <3>1
  <2>2. CASE rest # <<>>
    <3>1. Len(fs) \in 1 .. 1 + Len(rest) /\ ~(Len(fs) <= 1) /\ Len(fs) - 1 = Len(rest)
      BY <1>2, <1>4, <2>2
    <3>2. fs[Len(fs)] = rest[Len(fs) - 1]
      BY <1>3, <3>1
    <3> QED
      BY <2>2, <3>1, <3>2
  <2> QED
    BY <2>1, <2>2
<1>6. fs # <<>>
  <2>1. Len(fs) # 0
    BY <1>2
  <2> QED
    BY <2>1, EmptySeq
<1> HIDE DEF fs
<1>7. Walk(h, x, fs).end = Walk(h, h[fr.node][fr.side], rest).end
  <2>1. Walk(h, x, fs).end = h[fs[Len(fs)].node][fs[Len(fs)].side]
    BY <1>6 DEF Walk
  <2>2. CASE rest = <<>>
    <3>1. Walk(h, h[fr.node][fr.side], rest).end = h[fr.node][fr.side]
      BY <2>2 DEF Walk
    <3> QED
      BY <1>5, <2>1, <2>2, <3>1
  <2>3. CASE rest # <<>>
    <3>1. Walk(h, h[fr.node][fr.side], rest).end
            = h[rest[Len(rest)].node][rest[Len(rest)].side]
      BY <2>3 DEF Walk
    <3> QED
      BY <1>5, <2>1, <2>3, <3>1
  <2> QED
    BY <2>2, <2>3
<1> QED
  BY <1>2, <1>5, <1>6, <1>7 DEF fs, OneMore

Frames(h) == [node : DOMAIN h, side : Sides]

(* The frames fs lead to the node of least data below x.                   *)
GoesLeft(h, x, fs) ==
  LET e == Walk(h, x, fs).end
  IN  /\ fs \in Seq(Frames(h))
      /\ e \in Reachable(h, x) /\ h[e].left = NULL
      /\ \A y \in Reachable(h, x) \ {e} : h[e].data < h[y].data
      /\ fs # <<>> => /\ fs[Len(fs)].node \in Reachable(h, x)
                      /\ fs[Len(fs)].side \in Sides
                      /\ h[fs[Len(fs)].node][fs[Len(fs)].side] = e

(* What is below a link of a tree.                                         *)
LEMMA BelowLink ==
  ASSUME NEW h, T!Typed(h), NEW r, Tree(h, r), NEW x \in Reachable(h, r), NEW s \in Sides
  PROVE  /\ h[x][s] \in Reachable(h, r) \cup {NULL}
         /\ Reachable(h, h[x][s]) \subseteq Reachable(h, x) \ {x}
         /\ \A y \in Reachable(h, h[x][s]) :
              h[y].data # h[x].data /\ SideOf(h[y].data, h[x].data) = s
         /\ \A y \in Reachable(h, x) \ {x} : \E t \in Sides : y \in Reachable(h, h[x][t])
<1>1. /\ h[x][s] \in Reachable(h, r) \cup {NULL}
      /\ \A y \in Reachable(h, h[x][s]) :
           h[y].data # h[x].data /\ SideOf(h[y].data, h[x].data) = s
  BY TreeIs
<1>2. x \in Reachable(h, x)
  BY TreeReached
<1>3. Reachable(h, h[x][s]) \subseteq Reachable(h, x) \ {x}
  BY <1>1, <1>2, TreeReached
<1>4. \A y \in Reachable(h, x) \ {x} : \E t \in Sides : y \in Reachable(h, h[x][t])
  BY SameReachable, SameNames, SameAssumption, T!ReachedThrough
<1> QED
  BY <1>1, <1>3, <1>4

LEMMA TreeData ==
  ASSUME NEW h, T!Typed(h), NEW n \in DOMAIN h
  PROVE  n \in Nodes /\ h[n].data \in Int
BY BinaryTreeAssumption DEF T!Typed

LEMMA TreeFinite ==
  ASSUME NEW h, T!Typed(h)
  PROVE  IsFiniteSet(DOMAIN h) /\ Cardinality(DOMAIN h) \in Nat
BY BinaryTreeAssumption, FS_Subset, FS_CardinalityType DEF T!Typed

LEMMA GoesLeftHere ==
  ASSUME NEW h, T!Typed(h), NEW r, Tree(h, r), NEW x \in Reachable(h, r), h[x].left = NULL
  PROVE  GoesLeft(h, x, <<>>)
<1>1. Walk(h, x, <<>>).end = x
  BY DEF Walk
<1>2. x \in DOMAIN h /\ x \in Reachable(h, x)
  BY TreeReached
<1>3. ASSUME NEW y \in Reachable(h, x) \ {x}
      PROVE  h[x].data < h[y].data
  <2>0. "left" \in Sides
    BY DEF Sides
  <2>1. PICK t \in Sides : y \in Reachable(h, h[x][t])
    BY <2>0, BelowLink
  <2>2. t # "left"
    <3>1. Reachable(h, NULL) = {}
      BY TreeIs, TreeReached
    <3> QED
      BY <2>1, <3>1
  <2>3. t = "right"
    BY <2>2 DEF Sides
  <2>4. h[y].data # h[x].data /\ SideOf(h[y].data, h[x].data) = "right"
    BY <2>1, <2>3, BelowLink
  <2>5. h[y].data \in Int /\ h[x].data \in Int
    BY <1>2, <1>3, TreeReached, TreeData
  <2> QED
    BY <2>4, <2>5 DEF SideOf
<1>4. <<>> \in Seq(Frames(h))
  BY EmptySeq
<1> QED
  BY <1>1, <1>2, <1>3, <1>4 DEF GoesLeft

LEMMA GoesLeftOn ==
  ASSUME NEW h, T!Typed(h), NEW r, Tree(h, r), NEW x \in Reachable(h, r), h[x].left # NULL,
         NEW rest, GoesLeft(h, h[x].left, rest)
  PROVE  GoesLeft(h, x, <<[node |-> x, side |-> "left"]>> \o rest)
<1> DEFINE fr == [node |-> x, side |-> "left"]
           fs == <<fr>> \o rest
           c == h[x].left
           e == Walk(h, c, rest).end
<1>1. "left" \in Sides /\ c = h[x]["left"] /\ x \in DOMAIN h /\ x \in Reachable(h, x)
  BY TreeReached DEF Sides
<1>2. fr \in Frames(h) /\ rest \in Seq(Frames(h)) /\ fr.node = x /\ fr.side = "left"
  BY <1>1 DEF Frames, GoesLeft
<1> HIDE DEF fr, c, e
<1>3. /\ fs \in Seq(Frames(h)) /\ fs # <<>>
      /\ fs[Len(fs)] = IF rest = <<>> THEN fr ELSE rest[Len(rest)]
      /\ Walk(h, x, fs).end = Walk(h, h[fr.node][fr.side], rest).end
  <2>1. fs \in Seq(Frames(h)) /\ OneMore(h, x, fs, fr, rest)
    BY <1>2, WalkOn
  <2> HIDE DEF fs
  <2> QED
    BY <2>1 DEF OneMore
<1> HIDE DEF fs
<1>4. Walk(h, x, fs).end = e
  BY <1>1, <1>2, <1>3 DEF e
<1>5. /\ Reachable(h, c) \subseteq Reachable(h, x)
      /\ \A y \in Reachable(h, c) : SideOf(h[y].data, h[x].data) = "left"
      /\ \A y \in Reachable(h, x) \ {x} : \E t \in Sides : y \in Reachable(h, h[x][t])
  BY <1>1, BelowLink
<1>6. e \in Reachable(h, c) /\ h[e].left = NULL
      /\ \A y \in Reachable(h, c) \ {e} : h[e].data < h[y].data
  BY DEF GoesLeft, c, e
<1>7. \A y \in Reachable(h, x) : h[y].data \in Int
  BY TreeReached, TreeData
<1>8. h[e].data < h[x].data
  BY <1>1, <1>5, <1>6, <1>7 DEF SideOf
<1>9. ASSUME NEW y \in Reachable(h, x) \ {e}
      PROVE  h[e].data < h[y].data
  <2>1. CASE y = x
    BY <1>8, <2>1
  <2>2. CASE y # x
    <3>1. PICK t \in Sides : y \in Reachable(h, h[x][t])
      BY <1>5, <1>9, <2>2
    <3>2. CASE t = "left"
      BY <1>1, <1>6, <1>9, <3>1, <3>2
    <3>3. CASE t = "right"
      <4>1. h[y].data # h[x].data /\ SideOf(h[y].data, h[x].data) = "right"
        BY <3>1, <3>3, BelowLink
      <4>2. h[y].data > h[x].data
        BY <1>1, <1>7, <1>9, <4>1 DEF SideOf
      <4> QED
        BY <1>1, <1>5, <1>6, <1>7, <1>8, <1>9, <4>2
    <3> QED
      BY <3>2, <3>3 DEF Sides
  <2> QED
    BY <2>1, <2>2
<1>10. fs[Len(fs)].node \in Reachable(h, x) /\ fs[Len(fs)].side \in Sides
       /\ h[fs[Len(fs)].node][fs[Len(fs)].side] = e
  <2>1. CASE rest = <<>>
    <3>1. e = c
      BY <2>1 DEF Walk, e
    <3> QED
      BY <1>1, <1>2, <1>3, <2>1, <3>1
  <2>2. CASE rest # <<>>
    <3>1. rest[Len(rest)].node \in Reachable(h, c) /\ rest[Len(rest)].side \in Sides
          /\ h[rest[Len(rest)].node][rest[Len(rest)].side] = e
      BY <2>2 DEF GoesLeft, c, e
    <3> QED
      BY <1>3, <1>5, <2>2, <3>1
  <2> QED
    BY <2>1, <2>2
<1>11. GoesLeft(h, x, fs)
  BY <1>3, <1>4, <1>5, <1>6, <1>9, <1>10 DEF GoesLeft
<1> QED
  BY <1>11 DEF fs, fr

LEMMA LeftmostIs ==
  ASSUME NEW h, T!Typed(h), NEW r, Tree(h, r), NEW x \in Reachable(h, r)
  PROVE  /\ Leftmost(h, x) = Walk(h, x, Leftmost(h, x).frames)
         /\ GoesLeft(h, x, Leftmost(h, x).frames)
<1> DEFINE most == Cardinality(DOMAIN h)
           f == CHOOSE g : T!LeftmostFrames(h, most, g)
<1>1. T!Typed(h) /\ most \in Nat
  BY TreeFinite
<1>2. T!LeftmostFrames(h, most, f)
  <2>1. \E g : T!LeftmostFrames(h, most, g)
    BY <1>1, SameAssumption, T!LeftmostFramesExist
  <2> QED
    BY <2>1
<1>3. Leftmost(h, x) = Walk(h, x, f[<<x, most>>])
  BY DEF Leftmost, T!LeftmostFrames, T!Links, Links
<1> HIDE DEF f
<1>4. f = [w \in Links \X (0 .. most) |->
             IF w[2] = 0 \/ w[1] \notin DOMAIN h THEN <<>>
             ELSE IF h[w[1]].left = NULL THEN <<>>
             ELSE <<[node |-> w[1], side |-> "left"]>> \o f[<<h[w[1]].left, w[2] - 1>>]]
  BY <1>2, Zenon DEF T!LeftmostFrames, T!Links, Links
<1>5. \A m \in Links, k \in 0 .. most :
        f[<<m, k>>] = IF k = 0 \/ m \notin DOMAIN h THEN <<>>
                      ELSE IF h[m].left = NULL THEN <<>>
                      ELSE <<[node |-> m, side |-> "left"]>> \o f[<<h[m].left, k - 1>>]
  <2> TAKE m \in Links, k \in 0 .. most
  <2> DEFINE w == <<m, k>>
  <2>1. w \in Links \X (0 .. most) /\ w[1] = m /\ w[2] = k
    OBVIOUS
  <2> HIDE DEF w
  <2>2. f[w] = IF w[2] = 0 \/ w[1] \notin DOMAIN h THEN <<>>
               ELSE IF h[w[1]].left = NULL THEN <<>>
               ELSE <<[node |-> w[1], side |-> "left"]>> \o f[<<h[w[1]].left, w[2] - 1>>]
    BY <1>4, <2>1, Zenon
  <2> QED
    BY <2>1, <2>2 DEF w
<1> DEFINE Size(m) == Cardinality(Reachable(h, m))
           E == {k \in Nat : k > most \/ \A m \in Reachable(h, r) :
                               Size(m) <= k => GoesLeft(h, m, f[<<m, k>>])}
<1>6. \A m \in Reachable(h, r) : /\ m \in DOMAIN h /\ m \in Reachable(h, m)
                                 /\ IsFiniteSet(Reachable(h, m))
                                 /\ Size(m) \in Nat /\ Size(m) <= most /\ Size(m) # 0
  <2> TAKE m \in Reachable(h, r)
  <2>1. m \in DOMAIN h /\ m \in Reachable(h, m) /\ Reachable(h, m) \subseteq DOMAIN h
    BY TreeReached
  <2>2. IsFiniteSet(DOMAIN h)
    BY TreeFinite
  <2> QED
    BY <2>1, <2>2, FS_Subset, FS_CardinalityType, FS_EmptySet
<1> HIDE DEF most
<1>7. 0 \in E
  BY <1>6
<1>8. ASSUME NEW k \in E
      PROVE  k + 1 \in E
  <2> SUFFICES ASSUME k + 1 <= most, NEW m \in Reachable(h, r), Size(m) <= k + 1
               PROVE  GoesLeft(h, m, f[<<m, k + 1>>])
    <3> HIDE DEF Size
    <3> QED
      BY <1>1
  <2>1. k + 1 \in 0 .. most /\ k + 1 # 0 /\ (k + 1) - 1 = k /\ ~(k > most)
    BY <1>1
  <2>2. m \in Links /\ m \in DOMAIN h
    BY <1>6, TreeData DEF Links
  <2>3. CASE h[m].left = NULL
    <3>1. f[<<m, k + 1>>] = <<>>
      BY <1>5, <2>1, <2>2, <2>3
    <3> QED
      BY <2>3, <3>1, GoesLeftHere
  <2>4. CASE h[m].left # NULL
    <3> DEFINE c == h[m].left
    <3>1. "left" \in Sides /\ c = h[m]["left"]
      BY DEF Sides
    <3>2. c \in Reachable(h, r) /\ Reachable(h, c) \subseteq Reachable(h, m) \ {m}
      BY <2>4, <3>1, BelowLink
    <3> HIDE DEF c
    <3>3. Size(c) <= k
      <4>1. Cardinality(Reachable(h, m) \ {m}) = Size(m) - 1
            /\ IsFiniteSet(Reachable(h, m) \ {m})
        BY <1>6, FS_RemoveElement
      <4>2. Size(c) <= Size(m) - 1
        BY <3>2, <4>1, FS_Subset
      <4> QED
        BY <1>6, <3>2, <4>2
    <3>4. GoesLeft(h, c, f[<<c, k>>])
      BY <2>1, <3>2, <3>3
    <3>5. f[<<m, k + 1>>] = <<[node |-> m, side |-> "left"]>> \o f[<<c, k>>]
      BY <1>5, <2>1, <2>2, <2>4 DEF c
    <3> HIDE DEF E
    <3> QED
      BY <2>4, <3>4, <3>5, GoesLeftOn DEF c
  <2> QED
    BY <2>3, <2>4
<1>9. most \in E
  <2> SUFFICES ASSUME most \notin E PROVE FALSE
    OBVIOUS
  <2>0. most \in Nat \ E /\ Nat \ E \in SUBSET Nat
    BY <1>1
  <2> HIDE DEF E
  <2>1. PICK i \in Nat \ E : \A j \in Nat \ E : i <= j
    BY <2>0, SameAssumption, T!LeastNatural
  <2>2. i # 0 /\ i - 1 \in Nat
    BY <1>7, <2>1
  <2>3. i - 1 \in E
    BY <2>1, <2>2
  <2>4. (i - 1) + 1 = i
    BY <2>2
  <2> QED
    BY <1>8, <2>1, <2>3, <2>4
<1>10. GoesLeft(h, x, f[<<x, most>>])
  BY <1>1, <1>6, <1>9
<1>11. Walk(h, x, f[<<x, most>>]).frames = f[<<x, most>>]
  BY DEF Walk
<1> QED
  BY <1>3, <1>10, <1>11 DEF most

-----------------------------------------------------------------------------
(* Deletion.                                                               *)

LEMMA EmptyGood ==
  ASSUME NEW h, Records(h)
  PROVE  Good(h, NULL)
<1>1. Linked(h, NULL, {}) /\ Ranged(h, {}, h)
  BY DEF Linked, Ranged
<1>2. Sound(h, NULL) /\ Reachable(h, NULL) \subseteq {}
  BY <1>1, RangedSound
<1> QED
  BY <1>2 DEF Good, Colored, Color, Links

(* What is left of a tree when nodes go and links are cleared.             *)
LEMMA PrunedGood ==
  ASSUME NEW k, NEW r, NEW R, Linked(k, r, R), Colored(k, r, R, NULL),
         NEW g, Records(g), r \in R \cap DOMAIN g,
         \A m \in R \cap DOMAIN g :
           /\ g[m].color = k[m].color /\ g[m].parent = k[m].parent
           /\ \A u \in Sides : g[m][u] # NULL => g[m][u] = k[m][u] /\ g[m][u] \in DOMAIN g,
         NEW range, Ranged(g, R \cap DOMAIN g, range)
  PROVE  Good(g, r)
<1> DEFINE S == R \cap DOMAIN g
<1>1. r \in Nodes /\ r # NULL /\ NULL \notin S
  BY BinaryTreeAssumption DEF Records
<1>2. Linked(g, r, S)
  <2>1. g[r].parent = NULL
    BY <1>1 DEF Linked
  <2>2. ASSUME NEW m \in S, NEW u \in Sides, g[m][u] # NULL
        PROVE  g[m][u] \in S /\ g[g[m][u]].parent = m
    BY <2>2 DEF Linked
  <2> QED
    BY <2>1, <2>2 DEF Linked
<1>3. Sound(g, r) /\ Reachable(g, r) \subseteq S
  BY <1>2, RangedSound
<1>4. Color(g, r) = "black"
  BY <1>1 DEF Colored, Color
<1>5. ASSUME NEW m \in Reachable(g, r), RedPair(g, m)
      PROVE  FALSE
  <2>1. m \in S /\ m # NULL /\ g[m].color = k[m].color /\ g[m].parent = k[m].parent
    BY <1>1, <1>3
  <2>2. g[m].parent \in S \cup {NULL}
    BY <1>3 DEF Sound
  <2>3. g[m].color = "red" /\ Color(g, g[m].parent) = "red"
    BY <1>5, <2>1 DEF RedPair, Color, Parent
  <2>4. Color(k, k[m].parent) = "red"
    BY <2>1, <2>2, <2>3 DEF Color
  <2>5. RedPair(k, m)
    BY <2>1, <2>3, <2>4 DEF RedPair, Color, Parent
  <2> QED
    BY <2>1, <2>5 DEF Colored
<1> QED
  BY <1>1, <1>3, <1>4, <1>5 DEF Good, Colored, Links

(* A tree with a node e that is to go, whose data need not be in its range. *)
Leaving(k, r, R, range, e) ==
  /\ Records(k) /\ r \in R /\ Linked(k, r, R) /\ Colored(k, r, R, NULL)
  /\ e \in R /\ \E s \in Sides : k[e][s] = NULL
  /\ \A m \in R :
       /\ range[m] \subseteq Int
       /\ m # e => k[m].data \in range[m]
       /\ \A u \in Sides :
            k[m][u] # NULL =>
              /\ k[m][u] # m /\ k[m][Opposite(u)] # k[m][u]
              /\ \A j \in range[k[m][u]] :
                   j \in range[m] /\ (m # e => j # k[m].data /\ SideOf(j, k[m].data) = u)

(* The frames above e.                                                     *)
Above(k, r, R, frames, e) ==
  /\ frames = <<>> => e = r
  /\ frames # <<>> =>
       /\ frames[Len(frames)].node \in R /\ frames[Len(frames)].side \in Sides
       /\ k[frames[Len(frames)].node][frames[Len(frames)].side] = e

Without(h, S) == [a \in DOMAIN h \ S |-> h[a]]

LEMMA WithoutIs ==
  ASSUME NEW h, Records(h), NEW S
  PROVE  /\ Records(Without(h, S)) /\ DOMAIN Without(h, S) = DOMAIN h \ S
         /\ \A m \in DOMAIN h \ S : Without(h, S)[m] = h[m]
BY DEF Without, Records

(* A node that gets the data d and loses its links.                        *)
Cleared(old, new, d) ==
  /\ new \in NodeRecords /\ new.data = d
  /\ new.color = old.color /\ new.parent = old.parent
  /\ \A u \in Sides : new[u] = NULL

LEMMA ClearedOf ==
  ASSUME NEW old \in NodeRecords, NEW d \in Keys
  PROVE  Cleared(old, [old EXCEPT !.data = d, !.left = NULL, !.right = NULL], d)
BY DEF NodeRecords, Sides, Links, Cleared

LEMMA DataOf ==
  ASSUME NEW old \in NodeRecords, NEW d \in Keys
  PROVE  LET new == [old EXCEPT !.data = d]
         IN  /\ new \in NodeRecords /\ new.data = d
             /\ new.color = old.color /\ new.parent = old.parent
             /\ \A u \in Sides : new[u] = old[u]
BY DEF NodeRecords, Sides

LEMMA ChildMovesUp ==
  ASSUME NEW k, NEW r, NEW R, NEW range, NEW e, Leaving(k, r, R, range, e),
         NEW s \in Sides, k[e][s] # NULL
  PROVE  LET c == k[e][s]
             g == Without([k EXCEPT ![e] = [k[e] EXCEPT !.data = k[c].data,
                                              !.left = NULL, !.right = NULL]], {c})
         IN  Good(g, r) /\ r # c
<1> DEFINE c == k[e][s]
           new == [k[e] EXCEPT !.data = k[c].data, !.left = NULL, !.right = NULL]
           moved == [k EXCEPT ![e] = new]
           g == Without(moved, {c})
<1>1. /\ Records(k) /\ r \in R /\ Linked(k, r, R) /\ Colored(k, r, R, NULL)
      /\ e \in R /\ R \subseteq DOMAIN k /\ NULL \notin DOMAIN k
  BY BinaryTreeAssumption DEF Leaving, Linked, Records
<1>2. \A m \in R :
        /\ range[m] \subseteq Int
        /\ m # e => k[m].data \in range[m]
        /\ \A u \in Sides :
             k[m][u] # NULL =>
               \A j \in range[k[m][u]] :
                 j \in range[m] /\ (m # e => j # k[m].data /\ SideOf(j, k[m].data) = u)
  BY DEF Leaving
<1>3. /\ r # NULL => k[r].parent = NULL
      /\ \A m \in R, u \in Sides : k[m][u] # NULL => k[m][u] \in R /\ k[k[m][u]].parent = m
  BY DEF Linked, Leaving
<1>4. c \in R /\ k[c].parent = e /\ c # e /\ k[c].data \in Keys
  <2>1. c \in R /\ k[c].parent = e /\ c # e
    BY <1>1, <1>3 DEF Leaving
  <2> QED
    BY <1>1, <2>1, RecordFields
<1>5. r # c
  BY <1>1, <1>3, <1>4
<1>6. k[c].data \in range[e]
  BY <1>1, <1>2, <1>4
<1> HIDE DEF c
<1>7. /\ new \in NodeRecords /\ new.data = k[c].data
      /\ new.color = k[e].color /\ new.parent = k[e].parent
      /\ \A u \in Sides : new[u] = NULL
  <2>1. k[e] \in NodeRecords
    BY <1>1 DEF Records, NodeRecords
  <2>2. Cleared(k[e], new, k[c].data)
    BY <1>4, <2>1, ClearedOf
  <2> QED
    BY <2>2 DEF Cleared
<1> HIDE DEF new
<1>8. /\ Records(moved) /\ DOMAIN moved = DOMAIN k
      /\ \A m \in DOMAIN k : moved[m] = IF m = e THEN new ELSE k[m]
  BY <1>1, <1>7, NodeStored
<1> HIDE DEF moved
<1>9. /\ Records(g) /\ DOMAIN g = DOMAIN k \ {c}
      /\ \A m \in DOMAIN k \ {c} : g[m] = IF m = e THEN new ELSE k[m]
  BY <1>8, WithoutIs
<1> HIDE DEF g
<1>10. \A m \in R \cap DOMAIN g :
         /\ g[m].color = k[m].color /\ g[m].parent = k[m].parent
         /\ \A u \in Sides : g[m][u] # NULL => g[m][u] = k[m][u] /\ g[m][u] \in DOMAIN g
  <2>1. ASSUME NEW m \in R \cap DOMAIN g, NEW u \in Sides, g[m][u] # NULL
        PROVE  g[m][u] = k[m][u] /\ g[m][u] \in DOMAIN g
    <3>1. m # e /\ g[m][u] = k[m][u]
      BY <1>7, <1>9, <2>1
    <3>2. k[m][u] \in R /\ k[k[m][u]].parent = m
      BY <1>3, <2>1, <3>1
    <3> QED
      BY <1>1, <1>4, <1>9, <3>1, <3>2
  <2> QED
    BY <1>7, <1>9, <2>1
<1>11. Ranged(g, R \cap DOMAIN g, range)
  <2>1. ASSUME NEW m \in R \cap DOMAIN g
        PROVE  range[m] \subseteq Int /\ g[m].data \in range[m]
    BY <1>2, <1>6, <1>7, <1>9
  <2>2. ASSUME NEW m \in R \cap DOMAIN g, NEW u \in Sides, g[m][u] # NULL,
               NEW j \in range[g[m][u]]
        PROVE  j \in range[m] /\ j # g[m].data /\ SideOf(j, g[m].data) = u
    <3>1. m # e /\ g[m] = k[m]
      BY <1>7, <1>9, <2>2
    <3> QED
      BY <1>2, <2>2, <3>1
  <2> QED
    BY <2>1, <2>2 DEF Ranged
<1>12. r \in R \cap DOMAIN g
  BY <1>1, <1>5, <1>9
<1>13. Good(g, r)
  BY <1>1, <1>9, <1>10, <1>11, <1>12, PrunedGood
<1> QED
  BY <1>5, <1>13 DEF g, moved, new, c

LinkCleared(k, cut, p, s) == cut = [k EXCEPT ![p][s] = NULL]
LinkLess(k, e) == \A u \in Sides : k[e][u] = NULL

LEMMA LeafGoes ==
  ASSUME NEW k, NEW r, NEW R, NEW range, NEW e, Leaving(k, r, R, range, e),
         LinkLess(k, e), NEW p \in R, NEW s \in Sides, k[p][s] = e,
         NEW cut, LinkCleared(k, cut, p, s)
  PROVE  Good(Without(cut, {e}), r) /\ r # e
<1> DEFINE g == Without(cut, {e})
<1>1. /\ Records(k) /\ r \in R /\ Linked(k, r, R) /\ Colored(k, r, R, NULL)
      /\ e \in R /\ R \subseteq DOMAIN k /\ NULL \notin DOMAIN k
  BY BinaryTreeAssumption DEF Leaving, Linked, Records
<1>2. \A m \in R :
        /\ range[m] \subseteq Int
        /\ m # e => k[m].data \in range[m]
        /\ \A u \in Sides :
             k[m][u] # NULL =>
               /\ k[m][Opposite(u)] # k[m][u]
               /\ \A j \in range[k[m][u]] :
                    j \in range[m] /\ (m # e => j # k[m].data /\ SideOf(j, k[m].data) = u)
  BY DEF Leaving
<1>3. /\ r # NULL => k[r].parent = NULL
      /\ \A m \in R, u \in Sides : k[m][u] # NULL => k[m][u] \in R /\ k[k[m][u]].parent = m
  BY DEF Linked, Leaving
<1>4. e # NULL /\ k[e].parent = p /\ p # e /\ r # e /\ p \in DOMAIN k
  BY <1>1, <1>3 DEF LinkLess
<1>5. Records(cut) /\ LinkSet(k, cut, p, s, NULL)
  BY <1>1, <1>4, LinkStored DEF Links, LinkCleared
<1>6. /\ Records(g) /\ DOMAIN g = DOMAIN k \ {e}
      /\ \A m \in DOMAIN k \ {e} :
           /\ g[m].data = k[m].data /\ g[m].color = k[m].color
           /\ g[m].parent = k[m].parent
           /\ \A u \in Sides : g[m][u] = IF m = p /\ u = s THEN NULL ELSE k[m][u]
  <2>1. /\ Records(g) /\ DOMAIN g = DOMAIN cut \ {e}
        /\ \A m \in DOMAIN cut \ {e} : g[m] = cut[m]
    BY <1>5, WithoutIs
  <2> HIDE DEF g
  <2> QED
    BY <1>5, <2>1 DEF LinkSet
<1> HIDE DEF g
<1>7. \A m \in R \cap DOMAIN g, u \in Sides :
        g[m][u] # NULL => g[m][u] = k[m][u] /\ g[m][u] \in DOMAIN g
  <2>1. ASSUME NEW m \in R \cap DOMAIN g, NEW u \in Sides, g[m][u] # NULL
        PROVE  g[m][u] = k[m][u] /\ g[m][u] \in DOMAIN g
    <3>1. g[m][u] = k[m][u] /\ ~(m = p /\ u = s)
      BY <1>6, <2>1
    <3>2. k[m][u] \in R /\ k[k[m][u]].parent = m
      BY <1>3, <2>1, <3>1
    <3>3. k[m][u] # e
      <4>1. m = p => k[p][Opposite(s)] # e /\ u = Opposite(s)
        BY <1>2, <1>4, <3>1, TwoSides
      <4> QED
        BY <1>4, <3>2, <4>1
    <3> QED
      BY <1>1, <1>6, <3>1, <3>2, <3>3
  <2> QED
    BY <2>1
<1>8. Ranged(g, R \cap DOMAIN g, range)
  <2>1. ASSUME NEW m \in R \cap DOMAIN g
        PROVE  range[m] \subseteq Int /\ g[m].data \in range[m]
    BY <1>2, <1>6
  <2>2. ASSUME NEW m \in R \cap DOMAIN g, NEW u \in Sides, g[m][u] # NULL,
               NEW j \in range[g[m][u]]
        PROVE  j \in range[m] /\ j # g[m].data /\ SideOf(j, g[m].data) = u
    <3>1. m # e /\ g[m].data = k[m].data /\ g[m][u] = k[m][u]
      BY <1>6, <1>7, <2>2
    <3> QED
      BY <1>2, <2>2, <3>1
  <2> QED
    BY <2>1, <2>2 DEF Ranged
<1>9. r \in R \cap DOMAIN g
  BY <1>1, <1>4, <1>6
<1>10. Good(g, r)
  BY <1>1, <1>6, <1>7, <1>8, <1>9, PrunedGood
<1> QED
  BY <1>4, <1>10 DEF g

LEMMA DeleteHereGood ==
  ASSUME NEW k, NEW R, NEW range, NEW e, Leaving(k, rb_tree_root, R, range, e),
         NEW frames, Above(k, rb_tree_root, R, frames, e)
  PROVE  Good(DeleteHere(k, e, frames).heap, DeleteHere(k, e, frames).root)
<1> DEFINE r == rb_tree_root
           after == DeleteHere(k, e, frames)
           last == frames[Len(frames)]
           side == IF k[e].left # NULL THEN "left" ELSE "right"
           c == k[e][side]
<1>1. Records(k) /\ e \in DOMAIN k /\ e # NULL
  BY BinaryTreeAssumption DEF Leaving, Linked, Records
<1>2. c = IF k[e].left # NULL THEN k[e].left ELSE k[e].right
  OBVIOUS
<1>3. CASE c # NULL
  <2> DEFINE g == Without([k EXCEPT ![e] = [k[e] EXCEPT !.data = k[c].data,
                                              !.left = NULL, !.right = NULL]], {c})
  <2>1. after = [heap |-> g, root |-> IF r = c THEN NULL ELSE r]
    BY <1>2, <1>3 DEF DeleteHere, Without
  <2>2. side \in Sides
    BY DEF Sides
  <2> HIDE DEF side
  <2>3. Good(g, r) /\ r # c
    BY <1>3, <2>2, ChildMovesUp
  <2> HIDE DEF g, c, after
  <2> QED
    BY <2>1, <2>3 DEF after
<1>4. CASE c = NULL /\ frames = <<>>
  <2>1. after = [heap |-> Without(k, {e}), root |-> IF r = e THEN NULL ELSE r]
    BY <1>2, <1>4 DEF DeleteHere, Without
  <2>2. r = e
    BY <1>4 DEF Above
  <2>3. Good(Without(k, {e}), NULL)
    BY <1>1, WithoutIs, EmptyGood
  <2> QED
    BY <2>1, <2>2, <2>3
<1>5. CASE c = NULL /\ frames # <<>>
  <2> DEFINE g == Without([k EXCEPT ![last.node][last.side] = NULL], {e})
  <2>1. after = [heap |-> g, root |-> IF r = e THEN NULL ELSE r]
    BY <1>2, <1>5 DEF DeleteHere, Without
  <2>2. LinkLess(k, e)
    BY <1>5 DEF Sides, LinkLess
  <2>3. last.node \in R /\ last.side \in Sides /\ k[last.node][last.side] = e
    BY <1>5 DEF Above
  <2> DEFINE p == last.node
             s == last.side
             cut == [k EXCEPT ![p][s] = NULL]
  <2> HIDE DEF p, s, cut
  <2>4. p \in R /\ s \in Sides /\ k[p][s] = e /\ LinkCleared(k, cut, p, s)
    BY <2>3 DEF p, s, cut, LinkCleared
  <2>5. Good(Without(cut, {e}), r) /\ r # e
    BY <2>2, <2>4, LeafGoes
  <2>6. g = Without(cut, {e})
    BY DEF p, s, cut
  <2> HIDE DEF g, after
  <2> QED
    BY <2>1, <2>5, <2>6 DEF after
<1> QED
  BY <1>3, <1>4, <1>5

(* The node found has one child at most.                                   *)
LEMMA TreeLeaving ==
  ASSUME NEW h, NEW r, Good(h, r), NEW e \in Reachable(h, r), \E s \in Sides : h[e][s] = NULL
  PROVE  \E range : Leaving(h, r, Reachable(h, r), range, e)
<1> DEFINE R == Reachable(h, r)
           range == [m \in R |-> {k \in Int : T!Fits(h, r, k, m)}]
<1>1. /\ Records(h) /\ Linked(h, r, R) /\ Backed(h, r, R) /\ Ranged(h, R, range)
      /\ Colored(h, r, R, NULL)
  BY SoundRanged DEF Good
<1>2. r \in R
  <2>1. r \in DOMAIN h
    BY Reached DEF Good
  <2> QED
    BY <2>1, Reached DEF Good
<1> HIDE DEF range, R
<1>3. \A m \in R, u \in Sides : h[m][u] # NULL => h[m][u] # m /\ h[m][Opposite(u)] # h[m][u]
  BY <1>1, Around
<1>4. e \in R
  BY DEF R
<1>5. Leaving(h, r, R, range, e)
  BY <1>1, <1>2, <1>3, <1>4 DEF Leaving, Ranged
<1> QED
  BY <1>5 DEF R

(* What may be below a node may be at the node.                            *)
LEMMA RangesBelow ==
  ASSUME NEW h, Records(h), NEW r, NEW R, NEW range, Linked(h, r, R), Ranged(h, R, range),
         NEW x \in R
  PROVE  \A y \in Reachable(h, x) : y \in R /\ h[y].data \in range[x]
<1> DEFINE S == {y \in R : range[y] \subseteq range[x]}
<1>1. NULL \notin DOMAIN h
  BY BinaryTreeAssumption DEF Records
<1>2. \A y \in S, s \in Sides : h[y][s] \in DOMAIN h => h[y][s] \in S
  BY <1>1 DEF Linked, Ranged
<1>3. S \in SUBSET DOMAIN h /\ x \in S
  BY DEF Linked
<1> HIDE DEF S
<1>4. Reachable(h, x) \subseteq S
  BY <1>2, <1>3, ReachedLeast
<1> QED
  BY <1>4 DEF S, Ranged

Copied(h, k, n, e) == k = [h EXCEPT ![n].data = h[e].data]

(* n gets the data of e, the node of least data on its right.              *)
LEMMA CopiedLeaving ==
  ASSUME NEW h, NEW r, Good(h, r), NEW n \in Reachable(h, r), NEW e,
         \A s \in Sides : h[n][s] # NULL,
         e \in Reachable(h, h[n]["right"]), h[e]["left"] = NULL,
         \A y \in Reachable(h, h[n]["right"]) \ {e} : h[e].data < h[y].data,
         NEW k, Copied(h, k, n, e)
  PROVE  /\ \E range : Leaving(k, r, Reachable(h, r), range, e)
         /\ \A m \in Reachable(h, r), u \in Sides : k[m][u] = h[m][u]
<1> DEFINE R == Reachable(h, r)
           Right == Reachable(h, h[n]["right"])
           range == [m \in R |-> {j \in Int : T!Fits(h, r, j, m)}]
           d == h[e].data
           rg == [m \in R |-> IF m \in Right THEN {j \in range[m] : j > d} ELSE range[m]]
<1>1. /\ Records(h) /\ Sound(h, r) /\ Linked(h, r, R) /\ Backed(h, r, R)
      /\ Ranged(h, R, range) /\ Colored(h, r, R, NULL)
  BY SoundRanged DEF Good
<1>2. r \in R
  <2>1. r \in DOMAIN h
    BY Reached DEF Good
  <2> QED
    BY <2>1, Reached DEF Good
<1>3. "right" \in Sides /\ "left" \in Sides /\ Opposite("right") = "left"
      /\ \A u \in Sides : u = "left" \/ u = "right"
  BY DEF Sides, Opposite
<1> DEFINE x == h[n]["right"]
<1>4. x \in R /\ n \in R /\ Right \subseteq R /\ n \notin Right /\ n # e
      /\ \A y \in Right : h[y].data # h[n].data /\ SideOf(h[y].data, h[n].data) = "right"
  <2>1. x \in R
    BY <1>1, <1>3 DEF Linked
  <2>2. Right \subseteq Reachable(h, n) \ {n}
    BY <1>1, <1>3, SoundTree, BelowLink
  <2>3. Right \subseteq R
    BY <1>1, <1>3, ReachedBelow
  <2> QED
    BY <1>1, <1>3, <2>1, <2>2, <2>3, SoundTree, BelowLink
<1>5. R \subseteq DOMAIN h /\ e \in R /\ NULL \notin DOMAIN h
  BY <1>1, <1>4, Reached, BinaryTreeAssumption DEF Records
<1> HIDE DEF range
<1>6. \A m \in R : /\ range[m] \subseteq Int /\ h[m].data \in range[m]
                   /\ \A u \in Sides : h[m][u] # NULL =>
                        \A j \in range[h[m][u]] :
                          j \in range[m] /\ j # h[m].data /\ SideOf(j, h[m].data) = u
  BY <1>1 DEF Ranged
<1>7. \A m \in R, u \in Sides :
        h[m][u] # NULL => h[m][u] # m /\ h[m][Opposite(u)] # h[m][u] /\ h[m][u] \in R
  BY <1>1, Around
<1>8. d \in Keys /\ d \in Int /\ h[n].data \in Int /\ h[n].data < d /\ d \in range[n]
  <2>1. d \in Keys /\ d \in Int /\ h[n].data \in Int
    BY <1>1, <1>5, RecordFields
  <2>2. d # h[n].data /\ SideOf(d, h[n].data) = "right"
    BY <1>4
  <2>3. h[n].data < d
    BY <1>3, <2>1, <2>2 DEF SideOf
  <2>4. d \in range[x]
    BY <1>1, <1>4, RangesBelow
  <2> QED
    BY <1>3, <1>6, <2>1, <2>3, <2>4
<1>9. \A m \in Right, u \in Sides : h[m][u] # NULL => h[m][u] \in Right
  BY <1>1, <1>4, <1>5, <1>7, Reached
<1>10. \A y \in Right \ {e} : d < h[y].data
  OBVIOUS
<1>11. x \in Right /\ e \in Right
  BY <1>1, <1>4, <1>5, Reached
<1> HIDE DEF R, Right, d, x
<1>12. /\ Records(k) /\ DOMAIN k = DOMAIN h
       /\ \A m \in DOMAIN h :
            /\ k[m].data = IF m = n THEN d ELSE h[m].data
            /\ k[m].color = h[m].color /\ k[m].parent = h[m].parent
            /\ \A u \in Sides : k[m][u] = h[m][u]
  <2> DEFINE new == [h[n] EXCEPT !.data = d]
             g == [h EXCEPT ![n] = new]
  <2>1. n \in DOMAIN h /\ h[n] \in NodeRecords
    BY <1>1, <1>5 DEF Records, NodeRecords, R
  <2>2. /\ new \in NodeRecords /\ new.data = d
        /\ new.color = h[n].color /\ new.parent = h[n].parent
        /\ \A u \in Sides : new[u] = h[n][u]
    BY <1>8, <2>1, DataOf
  <2>3. k = g
    BY DEF d, Copied
  <2> HIDE DEF new
  <2>4. /\ Records(g) /\ DOMAIN g = DOMAIN h
        /\ \A m \in DOMAIN h : g[m] = IF m = n THEN new ELSE h[m]
    BY <1>1, <2>1, <2>2, NodeStored
  <2> HIDE DEF g
  <2> QED
    BY <2>2, <2>3, <2>4
<1>13. Linked(k, r, R)
  <2>1. r # NULL => k[r].parent = NULL
    BY <1>1, <1>2, <1>5, <1>12 DEF Linked
  <2>2. ASSUME NEW m \in R, NEW u \in Sides, k[m][u] # NULL
        PROVE  k[m][u] \in R /\ k[k[m][u]].parent = m
    <3>1. k[m][u] = h[m][u]
      BY <1>5, <1>12, <2>2
    <3>2. h[m][u] \in R /\ h[h[m][u]].parent = m
      BY <1>1, <2>2, <3>1 DEF Linked
    <3> QED
      BY <1>5, <1>12, <3>1, <3>2
  <2> QED
    BY <1>2, <1>5, <1>12, <2>1, <2>2 DEF Linked
<1>14. Colored(k, r, R, NULL)
  <2>1. \A m \in DOMAIN h \cup {NULL} : Color(k, m) = Color(h, m) /\ Parent(k, m) = Parent(h, m)
    BY <1>12 DEF Color, Parent
  <2>2. \A m \in R : Parent(h, m) \in DOMAIN h \cup {NULL}
    <3> TAKE m \in R
    <3>1. m # NULL
      BY <1>5
    <3>2. CASE m = r
      BY <1>1, <3>1, <3>2 DEF Linked, Parent
    <3>3. CASE m # r
      BY <1>1, <1>5, <3>1, <3>3 DEF Backed, Parent
    <3> QED
      BY <3>2, <3>3
  <2> QED
    BY <1>1, <1>2, <1>5, <2>1, <2>2 DEF Colored, RedPair
<1>15. \A m \in R : rg[m] = IF m \in Right THEN {j \in range[m] : j > d} ELSE range[m]
  OBVIOUS
<1> HIDE DEF rg
<1>16. ASSUME NEW m \in R
       PROVE  rg[m] \subseteq Int /\ (m # e => k[m].data \in rg[m])
  <2>1. rg[m] \subseteq Int
    BY <1>6, <1>15
  <2>2. CASE m = n
    BY <1>4, <1>5, <1>8, <1>12, <1>15, <2>1, <2>2
  <2>3. CASE m # n /\ m # e
    <3>1. k[m].data = h[m].data /\ h[m].data \in range[m] /\ h[m].data \in Int
      BY <1>5, <1>6, <1>12, <2>3
    <3> QED
      BY <1>8, <1>10, <1>15, <2>1, <2>3, <3>1
  <2> QED
    BY <2>1, <2>2, <2>3
<1>17. ASSUME NEW m \in R, NEW u \in Sides, k[m][u] # NULL
       PROVE  /\ k[m][u] # m /\ k[m][Opposite(u)] # k[m][u]
              /\ \A j \in rg[k[m][u]] :
                   j \in rg[m] /\ (m # e => j # k[m].data /\ SideOf(j, k[m].data) = u)
  <2>1. k[m][u] = h[m][u] /\ k[m][Opposite(u)] = h[m][Opposite(u)]
    BY <1>5, <1>12, TwoSides
  <2>2. h[m][u] # NULL /\ h[m][u] \in R /\ h[m][u] # m /\ h[m][Opposite(u)] # h[m][u]
    BY <1>7, <1>17, <2>1
  <2> SUFFICES ASSUME NEW j \in rg[h[m][u]]
               PROVE  j \in rg[m] /\ (m # e => j # k[m].data /\ SideOf(j, k[m].data) = u)
    BY <2>1, <2>2
  <2>3. /\ j \in range[h[m][u]] /\ j \in range[m] /\ j \in Int
        /\ j # h[m].data /\ SideOf(j, h[m].data) = u
        /\ h[m][u] \in Right => j > d
    <3>1. j \in range[h[m][u]] /\ (h[m][u] \in Right => j > d)
      BY <1>15, <2>2
    <3>2. j \in range[m] /\ j # h[m].data /\ SideOf(j, h[m].data) = u
      BY <1>6, <2>2, <3>1
    <3>3. j \in Int
      BY <1>6, <3>2
    <3> QED
      BY <3>1, <3>2, <3>3
  <2>4. j \in rg[m]
    <3>1. m \in Right => h[m][u] \in Right
      BY <1>9, <2>2
    <3> QED
      BY <1>15, <2>3, <3>1
  <2>5. j # k[m].data /\ SideOf(j, k[m].data) = u
    <3>1. CASE m # n
      BY <1>5, <1>12, <2>3, <3>1
    <3>2. CASE m = n /\ u = "right"
      <4>1. h[m][u] \in Right /\ k[m].data = d
        BY <1>5, <1>11, <1>12, <3>2 DEF x
      <4> QED
        BY <1>8, <2>3, <3>2, <4>1 DEF SideOf
    <3>3. CASE m = n /\ u = "left"
      <4>1. k[m].data = d /\ j < h[n].data
        BY <1>5, <1>8, <1>12, <2>3, <3>3 DEF SideOf
      <4> QED
        BY <1>8, <2>3, <3>3, <4>1 DEF SideOf
    <3> QED
      BY <1>3, <3>1, <3>2, <3>3
  <2> QED
    BY <2>4, <2>5
<1>18. k[e]["left"] = NULL
  BY <1>3, <1>5, <1>12
<1>19. Leaving(k, r, R, rg, e)
  BY <1>2, <1>3, <1>5, <1>12, <1>13, <1>14, <1>16, <1>17, <1>18 DEF Leaving
<1>20. \A m \in R, u \in Sides : k[m][u] = h[m][u]
  BY <1>5, <1>12
<1> QED
  BY <1>19, <1>20 DEF R

LEMMA DeleteGood ==
  ASSUME Good(heap, rb_tree_root), NEW key \in Keys, Delete(key)
  PROVE  Good(heap', rb_tree_root')
<1> DEFINE r == rb_tree_root
           R == Reachable(heap, r)
           way == Descent(heap, r, key)
           n == way.end
           x == heap[n].right
           suc == Leftmost(heap, x)
           e == suc.end
           copied == [heap EXCEPT ![n].data = heap[e].data]
           fr == [node |-> n, side |-> "right"]
           deep == <<fr>> \o suc.frames
           one == DeleteHere(heap, n, way.frames)
           two == DeleteHere(copied, e, deep)
<1>1. n # NULL
  BY DEF Delete
<1>2. n \in R /\ Above(heap, r, R, way.frames, n)
  <2>1. /\ n \in R
        /\ way.frames = <<>> => n = r
        /\ way.frames # <<>> =>
             /\ LastFrame(way).node \in R /\ LastFrame(way).side \in Sides
             /\ heap[LastFrame(way).node][LastFrame(way).side] = n
    BY <1>1, DescentIs
  <2> QED
    BY <2>1 DEF Above, LastFrame
<1>3. CASE \E s \in Sides : heap[n][s] = NULL
  <2>1. heap' = one.heap /\ rb_tree_root' = one.root
    BY <1>3 DEF Delete, Return
  <2> HIDE DEF way, R
  <2>2. PICK range : Leaving(heap, r, R, range, n)
    BY <1>2, <1>3, TreeLeaving DEF R
  <2>3. Good(one.heap, one.root)
    BY <1>2, <2>2, DeleteHereGood
  <2> QED
    BY <2>1, <2>3
<1>4. CASE \A s \in Sides : heap[n][s] # NULL
  <2>1. heap' = two.heap /\ rb_tree_root' = two.root
    BY <1>4 DEF Delete, Return
  <2>2. Records(heap) /\ Sound(heap, r)
    BY DEF Good
  <2> HIDE DEF n
  <2>3. "right" \in Sides /\ x = heap[n]["right"] /\ x \in R
    <3>1. "right" \in Sides
      BY DEF Sides
    <3> QED
      BY <1>2, <1>4, <2>2, <3>1, SoundTree, BelowLink
  <2>4. suc = Walk(heap, x, suc.frames) /\ GoesLeft(heap, x, suc.frames)
    BY <2>2, <2>3, SoundTree, LeftmostIs
  <2>5. /\ suc.frames \in Seq(Frames(heap)) /\ e = Walk(heap, x, suc.frames).end
        /\ e \in Reachable(heap, x) /\ heap[e]["left"] = NULL
        /\ \A y \in Reachable(heap, x) \ {e} : heap[e].data < heap[y].data
        /\ suc.frames # <<>> =>
             LET l == suc.frames[Len(suc.frames)]
             IN  l.node \in Reachable(heap, x) /\ l.side \in Sides /\ heap[l.node][l.side] = e
    BY <2>4 DEF GoesLeft
  <2> HIDE DEF x, suc, e
  <2> DEFINE l == deep[Len(deep)]
  <2>6. fr \in Frames(heap) /\ fr.node = n /\ fr.side = "right"
    BY <1>2, <2>2, <2>3, Reached DEF Frames
  <2> HIDE DEF fr
  <2>7. OneMore(heap, n, deep, fr, suc.frames)
    BY <2>5, <2>6, WalkOn
  <2> HIDE DEF deep
  <2>8. deep # <<>> /\ l.node \in R /\ l.side \in Sides /\ heap[l.node][l.side] = e
    <3>1. Reachable(heap, x) \subseteq R
      BY <2>2, <2>3, ReachedBelow, Reached
    <3>2. CASE suc.frames = <<>>
      <4>1. l = fr /\ e = x
        BY <2>5, <2>7, <3>2 DEF OneMore, Walk
      <4> QED
        BY <1>2, <2>3, <2>6, <2>7, <4>1 DEF OneMore
    <3>3. CASE suc.frames # <<>>
      <4>1. l = suc.frames[Len(suc.frames)]
        BY <2>7, <3>3 DEF OneMore
      <4> QED
        BY <2>5, <2>7, <3>1, <3>3, <4>1 DEF OneMore
    <3> QED
      BY <3>2, <3>3
  <2> HIDE DEF copied, R
  <2>9. /\ \E range : Leaving(copied, r, R, range, e)
        /\ \A m \in R, u \in Sides : copied[m][u] = heap[m][u]
    <3>1. Copied(heap, copied, n, e)
      BY DEF copied, Copied
    <3> QED
      BY <1>2, <1>4, <2>3, <2>5, <3>1, CopiedLeaving DEF R
  <2>10. PICK range : Leaving(copied, r, R, range, e)
    BY <2>9
  <2>11. Above(copied, r, R, deep, e)
    BY <2>8, <2>9 DEF Above
  <2>12. Good(two.heap, two.root)
    BY <2>10, <2>11, DeleteHereGood
  <2> QED
    BY <2>1, <2>12
<1> QED
  BY <1>3, <1>4

-----------------------------------------------------------------------------
(* The theorems.                                                           *)

Safe == Good(heap, rb_tree_root) /\ status \in {"running", "ended"}

LEMMA InitSafe == Init => Safe
<1> SUFFICES ASSUME Init PROVE Safe
  OBVIOUS
<1>1. Records(<<>>)
  BY DEF Records
<1> QED
  BY <1>1, EmptyGood DEF Init, Safe

LEMMA DestroyGood ==
  ASSUME Good(heap, rb_tree_root), Destroy
  PROVE  Good(heap', rb_tree_root')
<1>1. heap' = Without(heap, Reachable(heap, rb_tree_root)) /\ rb_tree_root' = NULL
  BY DEF Destroy, Return, Without
<1>2. Records(heap)
  BY DEF Good
<1> QED
  BY <1>1, <1>2, WithoutIs, EmptyGood

LEMMA StepSafe == Safe /\ [Next]_vars => Safe'
<1> SUFFICES ASSUME Safe, [Next]_vars PROVE Safe'
  OBVIOUS
<1>1. Good(heap, rb_tree_root) /\ status \in {"running", "ended"}
  BY DEF Safe
<1>2. ASSUME NEW key \in Keys, InsertFirst(key)
      PROVE  Safe'
  BY <1>1, <1>2, InsertFirstGood DEF Safe, InsertFirst, Return
<1>3. ASSUME NEW key \in Keys, InsertNew(key)
      PROVE  Safe'
  <2>1. status' = status
    BY <1>3 DEF InsertNew, Return
  <2> QED
    BY <1>1, <1>3, <2>1, InsertNewGood DEF Safe
<1>4. ASSUME NEW key \in Keys, InsertFound(key)
      PROVE  Safe'
  <2>1. heap' = heap /\ rb_tree_root' = rb_tree_root /\ status' = "ended"
    BY <1>4 DEF InsertFound
  <2> QED
    BY <1>1, <2>1 DEF Safe
<1>5. ASSUME NEW key \in Keys, Delete(key)
      PROVE  Safe'
  <2>1. status' = status
    BY <1>5 DEF Delete, Return
  <2> QED
    BY <1>1, <1>5, <2>1, DeleteGood DEF Safe
<1>6. CASE Destroy
  <2>1. status' = status
    BY <1>6 DEF Destroy, Return
  <2> QED
    BY <1>1, <1>6, <2>1, DestroyGood DEF Safe
<1>7. CASE UNCHANGED vars
  BY <1>1, <1>7 DEF vars, Safe
<1> QED
  BY <1>2, <1>3, <1>4, <1>5, <1>6, <1>7 DEF Next, Insert

LEMMA AlwaysSafe == Spec => []Safe
BY InitSafe, StepSafe, PTL DEF Spec

(* After every call of rb_tree_insert and rb_tree_delete_node, the memory  *)
(* has nodes of the right kind, and rb_tree_root is a pointer.             *)
THEOREM RBTreeTypeCorrect == Spec => []TypeOK
<1>1. Safe => TypeOK
  BY GoodIs DEF Safe
<1> QED
  BY <1>1, AlwaysSafe, PTL

(* Through the rotations that look for sides by comparing data, the        *)
(* exchanges of data and the deletions that lose subtrees, rb_tree_root    *)
(* leads to a search tree without a dangling link, and its parent pointers *)
(* are its links backwards.                                                *)
THEOREM RBTreeAlwaysSound == Spec => []WellLinked
<1>1. Safe => WellLinked
  BY GoodIs DEF Safe, WellLinked
<1> QED
  BY <1>1, AlwaysSafe, PTL

(* rb_tree_validate_node after every call, deletions too, which repair no  *)
(* colours: the root is black, and no red node has a red parent.           *)
THEOREM RBTreeColorsValid == Spec => []ValidColors
<1>1. Safe => ValidColors
  BY GoodIs DEF Safe
<1> QED
  BY <1>1, AlwaysSafe, PTL

-----------------------------------------------------------------------------
(* The names of AVL for what it takes from BinaryTree.                     *)

(* Both modules take these from BinaryTree.                                *)
LEMMA AvlNames ==
  /\ Avl!Links = Links /\ Avl!Sides = Sides
  /\ \A s : Avl!Opposite(s) = Opposite(s)
  /\ \A k, d : Avl!SideOf(k, d) = SideOf(k, d)
  /\ \A S : Avl!Cardinality(S) = Cardinality(S)
  /\ \A h, n, fs : Avl!Walk(h, n, fs) = Walk(h, n, fs)
BY DEF Avl!Links, Links, Avl!Sides, Sides, Avl!Opposite, Opposite, Avl!SideOf, SideOf,
       Avl!Cardinality, Cardinality, Avl!Walk, Walk

LEMMA AvlReachable ==
  ASSUME NEW h, NEW n
  PROVE  Avl!Reachable(h, n) = Reachable(h, n)
<1>1. Avl!Cardinality(DOMAIN h) = Cardinality(DOMAIN h)
  BY AvlNames
<1>2. Avl!Reachable(h, n) = ReachedWithin(h, n, Avl!Cardinality(DOMAIN h))
  BY DEF Avl!Reachable, ReachedWithin, Avl!Sides, Sides
<1>3. Reachable(h, n) = ReachedWithin(h, n, Cardinality(DOMAIN h))
  BY DEF Reachable, ReachedWithin
<1> QED
  BY <1>1, <1>2, <1>3

LEMMA AvlDescent ==
  ASSUME NEW h, NEW n, NEW key
  PROVE  Avl!Descent(h, n, key) = Descent(h, n, key)
<1>1. Avl!Cardinality(DOMAIN h) = Cardinality(DOMAIN h)
  BY AvlNames
<1>2. Avl!Descent(h, n, key) = Avl!Walk(h, n, FramesWithin(h, n, key, Avl!Cardinality(DOMAIN h)))
  BY DEF Avl!Descent, FramesWithin, Avl!Links, Links, Avl!SideOf, SideOf
<1>3. Descent(h, n, key) = Walk(h, n, FramesWithin(h, n, key, Cardinality(DOMAIN h)))
  BY DEF Descent, FramesWithin
<1> QED
  BY <1>1, <1>2, <1>3, AvlNames

LeftWithin(h, node, most) ==
  LET frames[w \in Links \X (0 .. most)] ==
        LET n == w[1]
        IN  IF w[2] = 0 \/ n \notin DOMAIN h THEN <<>>
            ELSE IF h[n].left = NULL THEN <<>>
            ELSE <<[node |-> n, side |-> "left"]>> \o frames[<<h[n].left, w[2] - 1>>]
  IN  frames[<<node, most>>]

LEMMA AvlLeftmost ==
  ASSUME NEW h, NEW n
  PROVE  Avl!Leftmost(h, n) = Leftmost(h, n)
<1>1. Avl!Cardinality(DOMAIN h) = Cardinality(DOMAIN h)
  BY AvlNames
<1>2. Avl!Leftmost(h, n) = Avl!Walk(h, n, LeftWithin(h, n, Avl!Cardinality(DOMAIN h)))
  BY DEF Avl!Leftmost, LeftWithin, Avl!Links, Links
<1>3. Leftmost(h, n) = Walk(h, n, LeftWithin(h, n, Cardinality(DOMAIN h)))
  BY DEF Leftmost, LeftWithin
<1> QED
  BY <1>1, <1>2, <1>3, AvlNames

LEMMA AvlTree ==
  ASSUME NEW h, NEW r
  PROVE  Avl!IsTree(h, r) /\ Avl!InSearchOrder(h, r) <=> Tree(h, r)
<1>1. Avl!IsTree(h, r) <=> IsTree(h, r)
  BY AvlReachable DEF Avl!IsTree, IsTree, Avl!Sides, Sides
<1>2. Avl!InSearchOrder(h, r) <=> InSearchOrder(h, r)
  BY AvlReachable DEF Avl!InSearchOrder, InSearchOrder
<1> QED
  BY <1>1, <1>2 DEF Tree

-----------------------------------------------------------------------------
(* Search trees of any records.                                            *)

(* Heaps with the same data and links have the same trees.                 *)
Alike(h, g) ==
  /\ DOMAIN g = DOMAIN h
  /\ \A n \in DOMAIN h : g[n].data = h[n].data /\ \A s \in Sides : g[n][s] = h[n][s]

LEMMA AlikeReached ==
  ASSUME NEW h, T!Typed(h), NEW g, T!Typed(g), Alike(h, g), NEW x
  PROVE  Reachable(g, x) = Reachable(h, x)
<1>1. T!Relabelled(h, g, NULL, NULL)
  BY SameNames, SameAssumption DEF Alike, T!Relabelled, T!Typed
<1> QED
  BY <1>1, SameReachable, SameAssumption, T!RelabelledReached

LEMMA AlikeTree ==
  ASSUME NEW h, T!Typed(h), NEW g, T!Typed(g), Alike(h, g), NEW r, Tree(h, r)
  PROVE  Tree(g, r)
<1>1. \A x : T!Reachable(g, x) = T!Reachable(h, x)
  BY AlikeReached, SameReachable
<1>2. T!Reachable(h, r) \subseteq DOMAIN h /\ DOMAIN g = DOMAIN h
  BY TreeReached, SameReachable DEF Alike
<1>3. \A n \in DOMAIN h : g[n].data = h[n].data /\ \A s \in T!Sides : g[n][s] = h[n][s]
  BY SameNames DEF Alike
<1>4. T!IsTree(h, r) /\ T!InSearchOrder(h, r)
  BY SameTree DEF Tree, T!SearchTree
<1>5. T!Treelike(g, r)
  <2>1. T!Treelike(h, r)
    BY <1>4, SameAssumption, T!TreeLinks
  <2> QED
    BY <1>1, <1>2, <1>3, <2>1 DEF T!Treelike
<1>6. T!InSearchOrder(g, r)
  <2>1. \A m \in T!Reachable(h, r), s \in T!Sides : \A y \in T!Reachable(h, h[m][s]) :
            h[y].data # h[m].data /\ T!SideOf(h[y].data, h[m].data) = s
    BY <1>4, SameAssumption, T!SearchOrder
  <2>2. \A m \in T!Reachable(h, r), s \in T!Sides : T!Reachable(h, h[m][s]) \subseteq DOMAIN h
    BY TreeReached, SameReachable
  <2>3. \A m \in T!Reachable(g, r), s \in T!Sides : \A y \in T!Reachable(g, g[m][s]) :
            g[y].data # g[m].data /\ T!SideOf(g[y].data, g[m].data) = s
    BY <1>1, <1>2, <1>3, <2>1, <2>2
  <2> QED
    BY <2>3, SameAssumption, T!SearchOrder
<1> QED
  BY <1>5, <1>6, SameAssumption, SameTree, T!TreeLinks DEF Tree, T!SearchTree

-----------------------------------------------------------------------------
(* The nodes of avl_tree and their shadows, nodes of rb_tree with the same  *)
(* data and links.                                                         *)

AvlNodes == [data : Keys, height : Nat \ {0}, left : Links, right : Links]

AvlRecords(h) == DOMAIN h \subseteq Nodes /\ \A n \in DOMAIN h : h[n] \in AvlNodes

(* What BSTProofs assumes of a heap, and what the fields hold.             *)
LEMMA AvlTyped ==
  ASSUME NEW h, AvlRecords(h)
  PROVE  T!Typed(h)
<1>1. DOMAIN h \subseteq Nodes
  BY DEF AvlRecords
<1>2. ASSUME NEW n \in DOMAIN h, NEW s \in Sides
      PROVE  h[n].data \in Keys /\ h[n][s] \in Links
  <2>1. h[n] \in AvlNodes
    BY DEF AvlRecords
  <2> QED
    BY <2>1, <1>2 DEF AvlNodes, Sides
<1> QED
  BY <1>1, <1>2, SameNames DEF T!Typed, Sides

LEMMA AvlFields ==
  ASSUME NEW h, AvlRecords(h), NEW n \in DOMAIN h
  PROVE  /\ n \in Nodes /\ n # NULL /\ h[n].data \in Keys /\ h[n].data \in Int
         /\ h[n].height \in Nat /\ h[n].height # 0
         /\ \A s \in Sides : h[n][s] \in Links
<1>1. h[n] \in AvlNodes /\ n \in Nodes
  BY DEF AvlRecords
<1>2. h[n].data \in Keys /\ h[n].height \in Nat /\ h[n].height # 0
  BY <1>1 DEF AvlNodes
<1>3. \A s \in Sides : h[n][s] \in Links
  BY <1>1 DEF AvlNodes, Sides
<1> QED
  BY <1>1, <1>2, <1>3, BinaryTreeAssumption

(* The node of rb_tree for each node of avl_tree, with the given parents.  *)
Shadow(h, parent) ==
  [n \in DOMAIN h |-> [data |-> h[n].data, color |-> "black", parent |-> parent[n],
                       left |-> h[n]["left"], right |-> h[n]["right"]]]

LEMMA ShadowIs ==
  ASSUME NEW h, AvlRecords(h), NEW parent, \A n \in DOMAIN h : parent[n] \in Links
  PROVE  LET k == Shadow(h, parent)
         IN  /\ Records(k) /\ Alike(h, k) /\ Alike(k, h)
             /\ \A n \in DOMAIN h : k[n].parent = parent[n]
<1> DEFINE k == Shadow(h, parent)
<1>1. DOMAIN k = DOMAIN h /\ DOMAIN h \subseteq Nodes
  BY DEF Shadow, AvlRecords
<1>2. ASSUME NEW n \in DOMAIN h
      PROVE  /\ k[n] \in [data : Keys, color : Colors, parent : Links,
                          left : Links, right : Links]
             /\ k[n].data = h[n].data /\ k[n].parent = parent[n]
             /\ k[n]["left"] = h[n]["left"] /\ k[n]["right"] = h[n]["right"]
  <2>1. k[n] = [data |-> h[n].data, color |-> "black", parent |-> parent[n],
                left |-> h[n]["left"], right |-> h[n]["right"]]
    BY <1>2 DEF Shadow
  <2>2. h[n].data \in Keys /\ h[n]["left"] \in Links /\ h[n]["right"] \in Links
    BY AvlFields DEF Sides
  <2>3. parent[n] \in Links /\ "black" \in Colors
    BY DEF Colors
  <2> HIDE DEF k
  <2> QED
    BY <2>1, <2>2, <2>3
<1> HIDE DEF k
<1> QED
  BY <1>1, <1>2 DEF Records, Alike, Sides, k

(* Where the links of the search tree of h come from.                      *)
Origin(h, r) ==
  [n \in DOMAIN h |-> IF n \in Reachable(h, r) \ {r}
                      THEN CHOOSE p \in Reachable(h, r) : \E s \in Sides : h[p][s] = n
                      ELSE NULL]

(* A search tree of avl_tree is a sound one of rb_tree, with the parents   *)
(* that its links determine.                                               *)
LEMMA OriginSound ==
  ASSUME NEW h, AvlRecords(h), NEW r, Tree(h, r)
  PROVE  /\ \A n \in DOMAIN h : Origin(h, r)[n] \in Links
         /\ Sound(Shadow(h, Origin(h, r)), r)
<1> DEFINE R == Reachable(h, r)
           o == Origin(h, r)
           k == Shadow(h, o)
<1>1. T!Typed(h) /\ R \subseteq DOMAIN h /\ DOMAIN h \subseteq Nodes
  BY AvlTyped, TreeReached DEF AvlRecords
<1>2. ASSUME NEW n \in R \ {r}
      PROVE  o[n] \in R /\ \E s \in Sides : h[o[n]][s] = n
  <2>1. \E p \in R : \E s \in Sides : h[p][s] = n
    BY <1>1, <1>2, TreeIs
  <2>2. o[n] = CHOOSE p \in R : \E s \in Sides : h[p][s] = n
    BY <1>1, <1>2 DEF Origin
  <2> QED
    BY <2>1, <2>2
<1>3. ASSUME NEW n \in DOMAIN h, n \notin R \/ n = r
      PROVE  o[n] = NULL
  BY <1>3 DEF Origin
<1> HIDE DEF o
<1>4. \A n \in DOMAIN h : o[n] \in Links
  <2> TAKE n \in DOMAIN h
  <2>1. CASE n \in R \ {r}
    BY <1>1, <1>2, <2>1 DEF Links
  <2>2. CASE n \notin R \/ n = r
    BY <1>3, <2>2 DEF Links
  <2> QED
    BY <2>1, <2>2
<1>5. Records(k) /\ Alike(h, k) /\ \A n \in DOMAIN h : k[n].parent = o[n]
  BY <1>4, ShadowIs
<1> HIDE DEF k
<1>6. Tree(k, r) /\ Reachable(k, r) = R
  BY <1>1, <1>5, RecordsTyped, AlikeReached, AlikeTree
<1>7. \A n \in R : IF n = r THEN k[n].parent = NULL
              ELSE /\ k[n].parent \in R
                   /\ \E s \in Sides : k[k[n].parent][s] = n
  <2> TAKE n \in R
  <2>1. k[n].parent = o[n] /\ n \in DOMAIN h
    BY <1>1, <1>5
  <2>2. CASE n = r
    BY <1>3, <2>1, <2>2
  <2>3. CASE n # r
    BY <1>1, <1>2, <1>5, <2>1, <2>3 DEF Alike
  <2> QED
    BY <2>2, <2>3
<1> QED
  BY <1>4, <1>6, <1>7 DEF Sound, Tree, k, o

(* g is h after a rotation that lifts y = h[x][s] over x: t is the node on *)
(* top then, b the one below.                                              *)
LinksTurned(h, r, g, q, x, s, t, b) ==
  LET y == h[x][s]
      o == Opposite(s)
  IN  /\ DOMAIN g = DOMAIN h
      /\ t # b /\ t \in {x, y} /\ b \in {x, y}
      /\ q = IF x = r THEN t ELSE r
      /\ g[t].data = h[y].data /\ g[b].data = h[x].data
      /\ g[t][s] = h[y][s] /\ g[t][o] = b
      /\ g[b][s] = h[y][o] /\ g[b][o] = h[x][o]
      /\ \A m \in Reachable(h, r) \ {x, y} :
           /\ g[m].data = h[m].data
           /\ \A u \in Sides : g[m][u] = IF h[m][u] = x THEN t ELSE h[m][u]

(* The parents once x has turned with its child on side s.                 *)
TurnedOrigin(h, r, x, s, t, b) ==
  LET o == Origin(h, r)
      y == h[x][s]
  IN  [m \in DOMAIN h |->
         IF m = t THEN o[x] ELSE IF m = b THEN t
         ELSE IF o[m] = x THEN b
         ELSE IF o[m] # y THEN o[m]
         ELSE IF m = h[y][s] THEN t ELSE b]

(* A rotation keeps the search tree and its nodes: by what is proved of    *)
(* rb_tree.                                                                *)
LEMMA TurnedTree ==
  ASSUME NEW h, AvlRecords(h), NEW r, Tree(h, r), NEW g, AvlRecords(g), NEW q,
         NEW x \in Reachable(h, r), NEW s \in Sides, h[x][s] # NULL, NEW t, NEW b,
         LinksTurned(h, r, g, q, x, s, t, b)
  PROVE  Tree(g, q) /\ Reachable(g, q) = Reachable(h, r)
<1> DEFINE R == Reachable(h, r)
           y == h[x][s]
           u == Opposite(s)
           o == Origin(h, r)
           o2 == TurnedOrigin(h, r, x, s, t, b)
           k == Shadow(h, o)
           k2 == Shadow(g, o2)
<1>1. T!Typed(h) /\ T!Typed(g) /\ R \subseteq DOMAIN h /\ x \in R /\ y \in R
  BY AvlTyped, TreeIs
<1>2. Records(k) /\ Alike(h, k) /\ Sound(k, r) /\ \A n \in DOMAIN h : k[n].parent = o[n] /\ o[n] \in Links
  BY OriginSound, ShadowIs
<1>3. LET range == [m \in R |-> {j \in Int : T!Fits(k, r, j, m)}]
      IN  Linked(k, r, R) /\ Backed(k, r, R) /\ Ranged(k, R, range)
  <2>1. Reachable(k, r) = R
    BY <1>1, <1>2, RecordsTyped, AlikeReached
  <2> QED
    BY <1>2, <2>1, SoundRanged
<1>4. PICK range : Linked(k, r, R) /\ Backed(k, r, R) /\ Ranged(k, R, range)
  BY <1>3
<1>5. /\ DOMAIN g = DOMAIN h /\ t # b /\ t \in {x, y} /\ b \in {x, y}
      /\ q = IF x = r THEN t ELSE r
      /\ g[t].data = h[y].data /\ g[b].data = h[x].data
      /\ g[t][s] = h[y][s] /\ g[t][u] = b
      /\ g[b][s] = h[y][u] /\ g[b][u] = h[x][u]
      /\ \A m \in R \ {x, y} :
           /\ g[m].data = h[m].data
           /\ \A v \in Sides : g[m][v] = IF h[m][v] = x THEN t ELSE h[m][v]
  BY DEF LinksTurned
<1>6. u \in Sides /\ \A v \in Sides : v = s \/ v = u
  BY TwoSides
<1>7. \A m \in DOMAIN h :
        o2[m] = IF m = t THEN o[x] ELSE IF m = b THEN t
                ELSE IF o[m] = x THEN b
                ELSE IF o[m] # y THEN o[m]
                ELSE IF m = h[y][s] THEN t ELSE b
  BY DEF TurnedOrigin
<1>8. \A m \in DOMAIN g : o2[m] \in Links
  <2>1. t \in Links /\ b \in Links /\ o[x] \in Links
    BY <1>1, <1>2, <1>5 DEF AvlRecords, Links
  <2> HIDE DEF o, o2
  <2> QED
    BY <1>2, <1>5, <1>7, <2>1
<1> HIDE DEF o, o2
<1>9. Records(k2) /\ Alike(g, k2) /\ Alike(k2, g) /\ \A n \in DOMAIN g : k2[n].parent = o2[n]
  BY <1>8, ShadowIs
<1> HIDE DEF k, k2
<1>10. Turned(k, r, k2, q, R, x, s, t, b)
  <2>1. k[x][s] = y /\ k[y][s] = h[y][s] /\ k[y][u] = h[y][u] /\ k[x][u] = h[x][u]
        /\ k[y].data = h[y].data /\ k[x].data = h[x].data /\ k[x].parent = o[x]
    BY <1>1, <1>2, <1>6 DEF Alike
  <2>2. /\ k2[t].data = g[t].data /\ k2[b].data = g[b].data
        /\ \A v \in Sides : k2[t][v] = g[t][v] /\ k2[b][v] = g[b][v]
        /\ k2[t].parent = o[x] /\ k2[b].parent = t
    BY <1>1, <1>5, <1>7, <1>9 DEF Alike
  <2>3. DOMAIN k2 = DOMAIN k
    BY <1>2, <1>5, <1>9 DEF Alike
  <2>4. ASSUME NEW m \in R \ {x, y}
        PROVE  /\ k2[m].data = k[m].data
               /\ \A v \in Sides : k2[m][v] = IF k[m][v] = x THEN t ELSE k[m][v]
               /\ k2[m].parent = IF k[m].parent = x THEN b
                                ELSE IF k[m].parent # y THEN k[m].parent
                                ELSE IF m = k[y][s] THEN t ELSE b
    <3>1. m \in DOMAIN h /\ m # t /\ m # b
      BY <1>1, <1>5, <2>4
    <3>2. k2[m].data = g[m].data /\ k[m].data = h[m].data
          /\ (\A v \in Sides : k2[m][v] = g[m][v] /\ k[m][v] = h[m][v])
      BY <1>2, <1>5, <1>9, <3>1 DEF Alike
    <3>3. k2[m].parent = o2[m] /\ k[m].parent = o[m]
      BY <1>2, <1>5, <1>9, <3>1
    <3>4. o2[m] = IF o[m] = x THEN b
                  ELSE IF o[m] # y THEN o[m]
                  ELSE IF m = h[y][s] THEN t ELSE b
      BY <1>7, <3>1
    <3> QED
      BY <1>5, <2>1, <2>4, <3>2, <3>3, <3>4
  <2> HIDE DEF y, u
  <2> QED
    BY <1>5, <1>6, <2>1, <2>2, <2>3, <2>4 DEF Turned, u
<1>11. Sound(k2, q) /\ Reachable(k2, q) \subseteq R
  <2>1. k[x][s] # NULL
    BY <1>1, <1>2 DEF Alike
  <2>2. Linked(k2, q, R) /\ Ranged(k2, R, TurnedRange(k, R, range, x, s, t, b))
    BY <1>1, <1>2, <1>4, <1>10, <2>1, TurnedRanged
  <2> QED
    BY <1>9, <2>2, RangedSound
<1>12. Tree(g, q) /\ Reachable(g, q) \subseteq R
  <2>1. Tree(k2, q)
    BY <1>11 DEF Sound, Tree
  <2> QED
    BY <1>1, <1>9, <1>11, <2>1, RecordsTyped, AlikeReached, AlikeTree
<1>13. R \subseteq Reachable(g, q)
  <2> DEFINE S == Reachable(g, q)
  <2>1. S \subseteq R /\ t \in DOMAIN g /\ b \in DOMAIN g /\ NULL \notin DOMAIN g
        /\ q \in S \cup {NULL}
    BY <1>1, <1>5, <1>12, TreeIs
  <2>2. \A m \in S, v \in Sides : g[m][v] # NULL => g[m][v] \in S
    BY <1>1, <1>12, TreeIs
  <2>3. t \in S => b \in S
    BY <1>5, <1>6, <2>1, <2>2
  <2>4. b \in S => t \in S
    <3> SUFFICES ASSUME b \in S PROVE t \in S
      OBVIOUS
    <3>1. b # q
      <4>1. CASE x = r
        BY <1>5, <4>1
      <4>2. CASE x # r
        <5>1. x # r /\ y # r
          BY <1>1, <4>2, TreeIs
        <5> QED
          BY <1>5, <4>2, <5>1
      <4> QED
        BY <4>1, <4>2
    <3>2. PICK p \in S, v \in Sides : g[p][v] = b
      BY <1>1, <1>12, <3>1, TreeIs
    <3>3. CASE p \in R \ {x, y}
      <4>1. g[p][v] = IF h[p][v] = x THEN t ELSE h[p][v]
        BY <1>5, <3>2, <3>3
      <4>2. h[p][v] = b /\ h[p][v] # x
        BY <1>5, <3>2, <4>1
      <4>3. h[p][v] = y
        BY <1>5, <4>2
      <4> QED
        BY <1>1, <3>3, <4>3, TreeIs
    <3>4. CASE p = b
      <4>1. b \in Reachable(g, g[b][v])
        BY <1>1, <2>1, <3>2, <3>4, TreeReached
      <4> QED
        BY <1>1, <1>12, <3>2, <3>4, <4>1, TreeIs
    <3> QED
      BY <1>5, <2>1, <3>2, <3>3, <3>4
  <2>5. x \in S <=> y \in S
    BY <1>5, <2>3, <2>4
  <2>6. r \in DOMAIN h => r \in S
    <3>1. CASE x = r
      <4>1. t \in S
        BY <1>5, <2>1, <3>1
      <4> QED
        BY <1>5, <2>3, <2>4, <3>1, <4>1
    <3>2. CASE x # r
      <4>1. r # NULL
        BY <1>1, TreeIs, TreeReached
      <4> QED
        BY <1>5, <2>1, <3>2, <4>1
    <3> QED
      BY <3>1, <3>2
  <2>7. ASSUME NEW m \in S, NEW v \in Sides, h[m][v] \in DOMAIN h
        PROVE  h[m][v] \in S
    <3>0. h[m][v] # NULL
      BY <2>1, <2>7, <1>5
    <3>1. CASE m \in R \ {x, y}
      <4>1. g[m][v] = IF h[m][v] = x THEN t ELSE h[m][v]
        BY <1>5, <3>1
      <4>2. g[m][v] \in S
        BY <2>1, <2>2, <2>7, <3>0, <4>1
      <4>3. t \in S => x \in S
        BY <1>5, <2>3
      <4> QED
        BY <4>1, <4>2, <4>3
    <3>2. CASE m \in {x, y}
      <4>1. x \in S /\ y \in S /\ t \in S /\ b \in S
        BY <1>5, <2>3, <2>4, <2>5, <2>7, <3>2
      <4> QED
        BY <1>5, <1>6, <2>2, <2>7, <3>0, <3>2, <4>1
    <3> QED
      BY <2>1, <2>7, <3>1, <3>2
  <2>8. S \in SUBSET DOMAIN h
    BY <1>1, <2>1
  <2> HIDE DEF S
  <2> QED
    BY <1>1, <2>6, <2>7, <2>8, TreeLeast DEF S
<1> QED
  BY <1>12, <1>13

-----------------------------------------------------------------------------
(* Subtrees and cut links.                                                 *)

(* What is below a node of a search tree is a search tree.                 *)
LEMMA Subtree ==
  ASSUME NEW h, T!Typed(h), NEW r, Tree(h, r), NEW x \in Reachable(h, r)
  PROVE  Tree(h, x)
<1> DEFINE R == Reachable(h, r)
           X == Reachable(h, x)
<1>1. X \subseteq R /\ x \in X /\ x \in DOMAIN h
  BY TreeReached
<1>2. T!Treelike(h, x)
  <2>1. ASSUME NEW m \in X, NEW s \in Sides, h[m][s] # NULL
        PROVE  /\ h[m][s] \in DOMAIN h /\ h[m][s] # x
               /\ \A p \in X, t \in Sides : h[p][t] = h[m][s] => p = m /\ t = s
    <3>1. h[m][s] \in R /\ h[m][s] \in DOMAIN h
      BY <1>1, <2>1, TreeIs
    <3>2. h[m][s] # x
      <4> SUFFICES ASSUME h[m][s] = x PROVE FALSE
        OBVIOUS
      <4>1. m \in Reachable(h, h[m][s])
        OBVIOUS
      <4> QED
        BY <1>1, <4>1, TreeIs
    <3> QED
      BY <1>1, <2>1, <3>1, <3>2, TreeIs
  <2> QED
    BY <1>1, <2>1, SameReachable, SameNames DEF T!Treelike
<1>3. T!IsTree(h, x)
  BY <1>2, SameAssumption, T!TreeLinks
<1>4. T!InSearchOrder(h, x)
  <2>1. \A m \in X, s \in Sides : \A y \in Reachable(h, h[m][s]) :
          h[y].data # h[m].data /\ SideOf(h[y].data, h[m].data) = s
    BY <1>1, TreeIs
  <2> QED
    BY <2>1, SameReachable, SameNames, SameAssumption, T!SearchOrder
<1> QED
  BY <1>3, <1>4, SameTree DEF Tree, T!SearchTree

(* g is h without some of the links, from r on.                            *)
Cut(h, g, r) ==
  \A m \in Reachable(h, r) \cap DOMAIN g :
    \A s \in Sides : g[m][s] # NULL => g[m][s] = h[m][s] /\ g[m][s] \in DOMAIN g

(* What g then has at and below its nodes may still be in order.           *)
CutOrder(h, g, r) ==
  \A m \in Reachable(h, r) \cap DOMAIN g, s \in Sides :
    g[m][s] # NULL =>
      \A y \in Reachable(h, h[m][s]) \cap DOMAIN g :
        g[y].data # g[m].data /\ SideOf(g[y].data, g[m].data) = s

(* A heap that cuts links leads to no other nodes, and to a search tree if *)
(* their data is in order.                                                 *)
LEMMA CutReached ==
  ASSUME NEW h, T!Typed(h), NEW g, T!Typed(g), NEW r, Tree(h, r), Cut(h, g, r),
         NEW x, x \in Reachable(h, r) \/ x = NULL
  PROVE  Reachable(g, x) \subseteq Reachable(h, x)
<1> DEFINE S == Reachable(h, x) \cap DOMAIN g
<1>0. NULL \notin DOMAIN g
  BY SameAssumption DEF T!Typed
<1>1. Reachable(h, x) \subseteq Reachable(h, r)
  BY <1>0, TreeReached, TreeIs
<1>2. \A m \in S, s \in Sides : g[m][s] \in DOMAIN g => g[m][s] \in S
  <2> TAKE m \in S, s \in Sides
  <2> HAVE g[m][s] \in DOMAIN g
  <2>1. g[m][s] = h[m][s]
    BY <1>0, <1>1 DEF Cut
  <2>2. g[m][s] \in Reachable(h, r)
    BY <1>0, <1>1, <2>1, TreeIs
  <2>3. h[m][s] \in DOMAIN h
    BY <2>1, <2>2, TreeReached
  <2> QED
    BY <2>1, <2>3, TreeReached
<1>3. x \in DOMAIN g => x \in S
  BY <1>0, TreeReached
<1>4. Reachable(g, x) \subseteq S
  BY <1>2, <1>3, TreeLeast
<1> QED
  BY <1>4

LEMMA CutTree ==
  ASSUME NEW h, T!Typed(h), NEW g, T!Typed(g), NEW r, Tree(h, r), Cut(h, g, r),
         CutOrder(h, g, r), r \in DOMAIN g
  PROVE  Tree(g, r) /\ Reachable(g, r) \subseteq Reachable(h, r)
<1> DEFINE R == Reachable(h, r)
           G == Reachable(g, r)
<1>1. r \in R /\ NULL \notin DOMAIN g /\ G \subseteq DOMAIN g
  BY TreeIs, TreeReached, SameAssumption DEF T!Typed
<1>2. G \subseteq R
  BY <1>1, CutReached
<1>3. \A m \in G, s \in Sides : g[m][s] # NULL => g[m][s] = h[m][s] /\ g[m][s] \in DOMAIN g
  BY <1>1, <1>2 DEF Cut
<1>4. T!Treelike(g, r)
  <2>1. ASSUME NEW m \in G, NEW s \in Sides, g[m][s] # NULL
        PROVE  /\ g[m][s] \in DOMAIN g /\ g[m][s] # r
               /\ \A p \in G, t \in Sides : g[p][t] = g[m][s] => p = m /\ t = s
    BY <1>2, <1>3, <2>1, TreeIs
  <2> QED
    BY <1>1, <2>1, SameReachable, SameNames DEF T!Treelike
<1>5. \A m \in G, s \in Sides : \A y \in Reachable(g, g[m][s]) :
        g[y].data # g[m].data /\ SideOf(g[y].data, g[m].data) = s
  <2> TAKE m \in G, s \in Sides
  <2> TAKE y \in Reachable(g, g[m][s])
  <2>1. g[m][s] # NULL
    BY <1>1, TreeReached
  <2>2. g[m][s] = h[m][s] /\ h[m][s] \in R
    BY <1>2, <1>3, <2>1, TreeIs
  <2>3. y \in Reachable(h, h[m][s]) /\ y \in G
    BY <2>2, CutReached, TreeReached
  <2> QED
    BY <1>1, <1>2, <2>1, <2>3 DEF CutOrder
<1> QED
  BY <1>2, <1>4, <1>5, SameReachable, SameNames, SameAssumption, SameTree, T!TreeLinks,
     T!SearchOrder DEF Tree, T!SearchTree

-----------------------------------------------------------------------------
(* The frames of a call that have not returned yet: the first j of fs.      *)

(* The first j frames are a way down from r.                               *)
Chain(h, r, fs, j) ==
  /\ j \in Nat
  /\ \A k \in 1 .. j : fs[k].node \in DOMAIN h /\ fs[k].side \in Sides
  /\ j > 0 => fs[1].node = r
  /\ \A k \in 1 .. j - 1 : h[fs[k].node][fs[k].side] = fs[k + 1].node

Frame(fs, j) == {fs[k].node : k \in 1 .. j}

(* Induction, for a set of numbers.                                        *)
LEMMA Up ==
  ASSUME NEW E, NEW j \in Nat, 0 \in E, \A k \in Nat : k \in E => k + 1 \in E
  PROVE  j \in E
<1> SUFFICES ASSUME j \notin E PROVE FALSE
  OBVIOUS
<1> DEFINE M == Nat \ E
<1>1. M \in SUBSET Nat /\ M # {}
  OBVIOUS
<1> HIDE DEF M
<1>2. PICK i \in M : \A k \in M : i <= k
  BY <1>1, SameAssumption, T!LeastNatural
<1>3. i # 0 /\ i - 1 \in Nat /\ i \in Nat /\ i \notin E
  BY <1>2 DEF M
<1>4. i - 1 \in E
  BY <1>2, <1>3 DEF M
<1>5. (i - 1) + 1 = i
  BY <1>3
<1> QED
  BY <1>3, <1>4, <1>5

(* The nodes of a way are in the tree, each below the ones before.         *)
LEMMA ChainReached ==
  ASSUME NEW h, T!Typed(h), NEW r, Tree(h, r), NEW fs, NEW j, Chain(h, r, fs, j)
  PROVE  \A k \in 1 .. j : fs[k].node \in Reachable(h, r)
<1> DEFINE E == {k \in Nat : k + 1 \in 1 .. j => fs[k + 1].node \in Reachable(h, r)}
<1>1. j \in Nat
  BY DEF Chain
<1>2. 0 \in E
  BY <1>1, TreeReached DEF Chain
<1>3. \A k \in Nat : k \in E => k + 1 \in E
  <2> TAKE k \in Nat
  <2> HAVE k \in E
  <2>1. CASE (k + 1) + 1 \in 1 .. j
    <3>1. k + 1 \in 1 .. j /\ k + 1 \in 1 .. j - 1
      BY <1>1, <2>1
    <3>2. fs[k + 1].node \in Reachable(h, r) /\ fs[k + 1].side \in Sides
      BY <3>1 DEF Chain
    <3>3. h[fs[k + 1].node][fs[k + 1].side] = fs[(k + 1) + 1].node
      BY <3>1 DEF Chain
    <3>4. fs[(k + 1) + 1].node \in DOMAIN h
      BY <2>1 DEF Chain
    <3>5. fs[(k + 1) + 1].node \in Reachable(h, r)
      BY <3>2, <3>3, <3>4, TreeReached
    <3> QED
      BY <3>5
  <2>2. CASE (k + 1) + 1 \notin 1 .. j
    BY <2>2
  <2> QED
    BY <2>1, <2>2
<1> HIDE DEF E
<1>4. ASSUME NEW k \in 1 .. j
      PROVE  fs[k].node \in Reachable(h, r)
  <2>1. k - 1 \in Nat /\ (k - 1) + 1 = k
    BY <1>1
  <2>2. k - 1 \in E
    BY <1>2, <1>3, <2>1, Up
  <2> QED
    BY <2>1, <2>2 DEF E
<1> QED
  BY <1>4

(* The node of a frame is below the nodes of the frames above it.          *)
LEMMA ChainBelow ==
  ASSUME NEW h, T!Typed(h), NEW r, Tree(h, r), NEW fs, NEW j, Chain(h, r, fs, j)
  PROVE  \A k, l \in 1 .. j : k < l =>
           /\ fs[l].node \in Reachable(h, h[fs[k].node][fs[k].side])
           /\ fs[k].node # fs[l].node
           /\ fs[k].node \notin Reachable(h, fs[l].node)
<1>0. j \in Nat
  BY DEF Chain
<1>1. ASSUME NEW k \in 1 .. j
      PROVE  \A l \in 1 .. j : k < l => fs[l].node \in Reachable(h, h[fs[k].node][fs[k].side])
  <2> DEFINE x == h[fs[k].node][fs[k].side]
             E == {d \in Nat : (k + 1) + d \in 1 .. j => fs[(k + 1) + d].node \in Reachable(h, x)}
  <2>1. 0 \in E
    <3> SUFFICES ASSUME (k + 1) + 0 \in 1 .. j PROVE fs[(k + 1) + 0].node \in Reachable(h, x)
      OBVIOUS
    <3>1. k \in 1 .. j - 1 /\ (k + 1) + 0 = k + 1
      BY <1>0
    <3>2. fs[k + 1].node = x /\ fs[k + 1].node \in DOMAIN h
      BY <3>1 DEF Chain
    <3> QED
      BY <3>1, <3>2, TreeReached
  <2>2. \A d \in Nat : d \in E => d + 1 \in E
    <3> TAKE d \in Nat
    <3> HAVE d \in E
    <3> DEFINE i == (k + 1) + d
    <3>1. CASE i + 1 \in 1 .. j
      <4>1. i \in 1 .. j /\ i \in 1 .. j - 1 /\ (k + 1) + (d + 1) = i + 1
        BY <1>0, <3>1
      <4>2. fs[i].node \in Reachable(h, x) /\ fs[i].side \in Sides
        BY <4>1 DEF Chain
      <4> HIDE DEF i
      <4>3. h[fs[i].node][fs[i].side] = fs[i + 1].node /\ fs[i + 1].node \in DOMAIN h
        BY <3>1, <4>1 DEF Chain
      <4>4. fs[i + 1].node \in Reachable(h, x)
        BY <4>2, <4>3, TreeReached
      <4> QED
        BY <4>1, <4>4
    <3>2. CASE i + 1 \notin 1 .. j
      <4>1. (k + 1) + (d + 1) = i + 1
        BY <1>0
      <4> QED
        BY <3>2, <4>1
    <3> QED
      BY <3>1, <3>2
  <2> HIDE DEF E
  <2>3. ASSUME NEW l \in 1 .. j, k < l
        PROVE  fs[l].node \in Reachable(h, x)
    <3>1. l - (k + 1) \in Nat /\ (k + 1) + (l - (k + 1)) = l
      BY <1>0, <2>3
    <3>2. l - (k + 1) \in E
      BY <2>1, <2>2, <3>1, Up
    <3>3. (k + 1) + (l - (k + 1)) \in 1 .. j => fs[(k + 1) + (l - (k + 1))].node \in Reachable(h, x)
      BY <3>2 DEF E
    <3> QED
      BY <3>1, <3>3
  <2> QED
    BY <2>3
<1>2. ASSUME NEW k \in 1 .. j, NEW l \in 1 .. j, k < l
      PROVE  /\ fs[k].node # fs[l].node
             /\ fs[k].node \notin Reachable(h, fs[l].node)
  <2>1. fs[k].node \in Reachable(h, r) /\ fs[k].side \in Sides
    BY ChainReached DEF Chain
  <2>2. fs[l].node \in Reachable(h, h[fs[k].node][fs[k].side])
    BY <1>1, <1>2
  <2>3. fs[k].node \notin Reachable(h, h[fs[k].node][fs[k].side])
    BY <2>1, TreeIs
  <2> QED
    BY <2>2, <2>3, TreeReached
<1> QED
  BY <1>1, <1>2

-----------------------------------------------------------------------------
(* Stores in a node, and heights.                                          *)

(* A node, a link of it, and its data with its links stored.               *)
LEMMA AvlStored ==
  ASSUME NEW h, AvlRecords(h), NEW n \in DOMAIN h, NEW new \in AvlNodes
  PROVE  LET g == [h EXCEPT ![n] = new]
         IN  /\ AvlRecords(g) /\ DOMAIN g = DOMAIN h
             /\ \A m \in DOMAIN h : g[m] = IF m = n THEN new ELSE h[m]
BY DEF AvlRecords

AvlLink(old, new, s, v) ==
  /\ new \in AvlNodes
  /\ new.data = old.data /\ new.height = old.height
  /\ \A u \in Sides : new[u] = IF u = s THEN v ELSE old[u]

LEMMA AvlLinkOf ==
  ASSUME NEW old \in AvlNodes, NEW s \in Sides, NEW v \in Links
  PROVE  AvlLink(old, [old EXCEPT ![s] = v], s, v)
BY DEF AvlNodes, Sides, AvlLink

AvlReplaced(old, new, d, l, r) ==
  /\ new \in AvlNodes
  /\ new.data = d /\ new.height = old.height /\ new["left"] = l /\ new["right"] = r

LEMMA AvlReplacedOf ==
  ASSUME NEW old \in AvlNodes, NEW d \in Keys, NEW l \in Links, NEW r \in Links
  PROVE  AvlReplaced(old, [old EXCEPT !.data = d, !.left = l, !.right = r], d, l, r)
BY DEF AvlNodes, AvlReplaced

LEMMA AvlHeightOf ==
  ASSUME NEW old \in AvlNodes, NEW v \in Nat \ {0}
  PROVE  LET new == [old EXCEPT !.height = v]
         IN  /\ new \in AvlNodes
             /\ new.data = old.data /\ new.height = v
             /\ \A u \in Sides : new[u] = old[u]
             /\ v = old.height => new = old
BY DEF AvlNodes, Sides

(* The height that a node's subtrees give it.                              *)
Rise(h, n) ==
  1 + Avl!Greater(Avl!Height(h, h[n]["left"]), Avl!Height(h, h[n]["right"]))

(* The heights of the nodes of S are the heights of their subtrees.        *)
Exact(h, S) == \A n \in S : h[n].height = Rise(h, n)

LEMMA HeightIs ==
  ASSUME NEW h, AvlRecords(h), NEW v \in DOMAIN h \cup {NULL}
  PROVE  /\ Avl!Height(h, v) \in Nat
         /\ v = NULL => Avl!Height(h, v) = 0
         /\ v # NULL => Avl!Height(h, v) = h[v].height /\ Avl!Height(h, v) # 0
<1>1. CASE v = NULL
  BY <1>1 DEF Avl!Height
<1>2. CASE v # NULL
  <2>1. v \in DOMAIN h /\ Avl!Height(h, v) = h[v].height
    BY <1>2 DEF Avl!Height
  <2>2. h[v].height \in Nat /\ h[v].height # 0
    BY <2>1, AvlFields
  <2> QED
    BY <1>2, <2>1, <2>2
<1> QED
  BY <1>1, <1>2

LEMMA RiseIs ==
  ASSUME NEW h, AvlRecords(h), NEW n \in DOMAIN h, \A s \in Sides : h[n][s] \in DOMAIN h \cup {NULL}
  PROVE  /\ Rise(h, n) \in Nat \ {0}
         /\ \A s \in Sides : Avl!Height(h, h[n][s]) < Rise(h, n)
<1>1. h[n]["left"] \in DOMAIN h \cup {NULL} /\ h[n]["right"] \in DOMAIN h \cup {NULL}
  BY DEF Sides
<1> DEFINE a == Avl!Height(h, h[n]["left"])
           b == Avl!Height(h, h[n]["right"])
<1>2. a \in Nat /\ b \in Nat
  BY <1>1, HeightIs
<1> HIDE DEF a, b
<1>3. Rise(h, n) = 1 + (IF a > b THEN a ELSE b)
  BY DEF Rise, Avl!Greater, a, b
<1>4. Rise(h, n) \in Nat \ {0} /\ a < Rise(h, n) /\ b < Rise(h, n)
  BY <1>2, <1>3
<1> QED
  BY <1>4 DEF a, b, Sides

(* A node keeps its height if its links lead to nodes of the same heights. *)
LEMMA SameRise ==
  ASSUME NEW h, NEW g, NEW n, \A s \in Sides : g[n][s] = h[n][s],
         \A s \in Sides : h[n][s] # NULL => g[h[n][s]].height = h[h[n][s]].height
  PROVE  Rise(g, n) = Rise(h, n)
<1>1. \A s \in Sides : Avl!Height(g, g[n][s]) = Avl!Height(h, h[n][s])
  BY DEF Avl!Height
<1>2. "left" \in Sides /\ "right" \in Sides
  BY DEF Sides
<1> QED
  BY <1>1, <1>2 DEF Rise

(* In g the height of n is that of its subtree, the rest as in h.          *)
Risen(h, g, n) ==
  /\ AvlRecords(g) /\ DOMAIN g = DOMAIN h /\ Alike(h, g)
  /\ \A m \in DOMAIN h \ {n} : g[m] = h[m]
  /\ g[n].height = Rise(h, n)
  /\ g[n].data = h[n].data /\ (\A s \in Sides : g[n][s] = h[n][s])
  /\ h[n].height = Rise(h, n) => g[n] = h[n]

LEMMA UpdatedIs ==
  ASSUME NEW h, AvlRecords(h), NEW n \in DOMAIN h, \A s \in Sides : h[n][s] \in DOMAIN h \cup {NULL}
  PROVE  Risen(h, Avl!Updated(h, n), n)
<1> DEFINE v == Rise(h, n)
           new == [h[n] EXCEPT !.height = v]
           g == [h EXCEPT ![n] = new]
<1>1. Avl!Updated(h, n) = g
  BY DEF Avl!Updated, Rise
<1>2. h[n] \in AvlNodes /\ v \in Nat \ {0}
  BY RiseIs DEF AvlRecords
<1> HIDE DEF v
<1>3. /\ new \in AvlNodes
      /\ new.data = h[n].data /\ new.height = v
      /\ \A u \in Sides : new[u] = h[n][u]
      /\ v = h[n].height => new = h[n]
  BY <1>2, AvlHeightOf
<1> HIDE DEF new
<1>4. /\ AvlRecords(g) /\ DOMAIN g = DOMAIN h
      /\ \A m \in DOMAIN h : g[m] = IF m = n THEN new ELSE h[m]
  BY <1>3, AvlStored
<1> HIDE DEF g
<1>5. Risen(h, g, n)
  BY <1>3, <1>4 DEF Risen, Alike, v
<1> QED
  BY <1>1, <1>5

-----------------------------------------------------------------------------
(* The rotations of avl_tree.                                              *)

(* A node x of a search tree, its child y = h[x][s], and what they link.   *)
LEMMA Kin ==
  ASSUME NEW h, AvlRecords(h), NEW r, Tree(h, r), NEW x \in Reachable(h, r), NEW s \in Sides,
         h[x][s] # NULL
  PROVE  LET y == h[x][s]
             D == DOMAIN h \cup {NULL}
         IN  /\ x \in DOMAIN h /\ y \in DOMAIN h /\ y \in Reachable(h, r) /\ x # y /\ y # r
             /\ y \in Reachable(h, x)
             /\ h[x][Opposite(s)] \in D \ {x, y}
             /\ \A v \in Sides : h[y][v] \in D \ {x, y}
             /\ \A u, v \in Sides : h[y][v] # NULL => h[x][u] # h[y][v]
             /\ \A m \in Reachable(h, r), v \in Sides : h[m][v] = y => m = x /\ v = s
<1> DEFINE y == h[x][s]
           R == Reachable(h, r)
<1>1. T!Typed(h)
  BY AvlTyped
<1>2. /\ R \subseteq DOMAIN h /\ NULL \notin DOMAIN h
      /\ \A m \in R, u \in Sides :
           /\ h[m][u] \in R \cup {NULL}
           /\ h[m][u] # NULL => h[m][u] # r
           /\ m \notin Reachable(h, h[m][u])
      /\ \A m, p \in R, u, t \in Sides :
           h[m][u] # NULL /\ h[p][t] = h[m][u] => p = m /\ t = u
  BY <1>1, TreeIs
<1>3. y \in R /\ y \in Reachable(h, x) /\ y \in Reachable(h, y) /\ x \in Reachable(h, x)
  BY <1>1, <1>2, TreeReached
<1>4. x # y
  BY <1>2, <1>3
<1>5. Opposite(s) \in Sides /\ Opposite(s) # s
  BY TwoSides
<1>6. h[x][Opposite(s)] # y
  BY <1>2, <1>5
<1>7. h[x][Opposite(s)] # x
  BY <1>2, <1>3, <1>5
<1>8. ASSUME NEW v \in Sides
      PROVE  h[y][v] # x /\ h[y][v] # y
  <2>1. h[y][v] # y
    BY <1>2, <1>3
  <2>2. h[y][v] # x
    <3> SUFFICES ASSUME h[y][v] = x PROVE FALSE
      OBVIOUS
    <3>1. h[y][v] \in DOMAIN h
      BY <1>2, <1>3
    <3>2. x \in Reachable(h, y)
      BY <1>1, <1>3, <3>1, TreeReached
    <3> QED
      BY <1>2, <3>2
  <2> QED
    BY <2>1, <2>2
<1> HIDE DEF y
<1>9. \A u, v \in Sides : h[y][v] # NULL => h[x][u] # h[y][v]
  BY <1>2, <1>3, <1>4
<1>10. \A m \in R, v \in Sides : h[m][v] = y => m = x /\ v = s
  BY <1>2 DEF y
<1>11. y # r
  BY <1>2 DEF y
<1> QED
  BY <1>2, <1>3, <1>4, <1>5, <1>6, <1>7, <1>8, <1>9, <1>10, <1>11 DEF y

(* What a rotation leaves: t over b, the two of them x and its child.      *)
AvlTurned(h, g, x, s, t, b) ==
  LET y == h[x][s]
      o == Opposite(s)
  IN  /\ AvlRecords(g) /\ DOMAIN g = DOMAIN h
      /\ t # b /\ t \in {x, y} /\ b \in {x, y}
      /\ g[t].data = h[y].data /\ g[b].data = h[x].data
      /\ g[t][s] = h[y][s] /\ g[t][o] = b
      /\ g[b][s] = h[y][o] /\ g[b][o] = h[x][o]
      /\ \A m \in DOMAIN h \ {x, y} : g[m] = h[m]
      /\ g[t].height = Rise(g, t) /\ g[b].height = Rise(g, b)

(* The memory of a call that has not failed.                               *)
Memory(m) == m = [heap |-> m.heap, root |-> m.root, top |-> m.top, ok |-> TRUE]

(* A memory, and one with a field stored.                                  *)
Made(m, h, r, t, k) == m = [heap |-> h, root |-> r, top |-> t, ok |-> k]

LEMMA FieldPut ==
  ASSUME NEW m, NEW h, NEW r, NEW t, NEW k, Made(m, h, r, t, k), NEW v
  PROVE  /\ Made([m EXCEPT !.heap = v], v, r, t, k)
         /\ Made([m EXCEPT !.root = v], h, v, t, k)
         /\ Made([m EXCEPT !.top = v], h, r, v, k)
         /\ [m EXCEPT !.ok = v].ok = v
         /\ m.heap = h /\ m.root = r /\ m.top = t /\ m.ok = k
<1>1. Made([m EXCEPT !.heap = v], v, r, t, k)
  BY DEF Made
<1>2. Made([m EXCEPT !.root = v], h, v, t, k)
  BY DEF Made
<1>3. Made([m EXCEPT !.top = v], h, r, v, k)
  BY DEF Made
<1>4. [m EXCEPT !.ok = v].ok = v
  BY DEF Made
<1>5. m.heap = h /\ m.root = r /\ m.top = t /\ m.ok = k
  BY DEF Made
<1> QED
  BY <1>1, <1>2, <1>3, <1>4, <1>5, Zenon

LEMMA MemoryPut ==
  ASSUME NEW m, Memory(m), NEW h, NEW r, NEW t
  PROVE  /\ Made([m EXCEPT !.heap = h, !.root = r, !.top = t], h, r, t, TRUE)
         /\ Made([m EXCEPT !.heap = h, !.root = r], h, r, m.top, TRUE)
         /\ Made([m EXCEPT !.heap = h, !.top = t], h, m.root, t, TRUE)
         /\ Made([m EXCEPT !.heap = h], h, m.root, m.top, TRUE)
         /\ Made([m EXCEPT !.top = t], m.heap, m.root, t, TRUE)
         /\ m.ok = TRUE
         /\ [m EXCEPT !.ok = FALSE].ok = FALSE
<1>1. Made(m, m.heap, m.root, m.top, TRUE)
  BY Zenon DEF Memory, Made
<1> DEFINE a == [m EXCEPT !.heap = h]
           b == [a EXCEPT !.root = r]
<1>2. [m EXCEPT !.heap = h, !.root = r, !.top = t] = [b EXCEPT !.top = t]
  OBVIOUS
<1>3. [m EXCEPT !.heap = h, !.root = r] = b
  OBVIOUS
<1>4. [m EXCEPT !.heap = h, !.top = t] = [a EXCEPT !.top = t]
  OBVIOUS
<1>5. Made(a, h, m.root, m.top, TRUE)
  BY <1>1, FieldPut, Zenon
<1> HIDE DEF a
<1>6. Made(b, h, r, m.top, TRUE)
  BY <1>5, FieldPut, Zenon
<1> HIDE DEF b
<1>7. Made([b EXCEPT !.top = t], h, r, t, TRUE) /\ Made([a EXCEPT !.top = t], h, m.root, t, TRUE)
  BY <1>5, <1>6, FieldPut, Zenon
<1>8. Made([m EXCEPT !.top = t], m.heap, m.root, t, TRUE) /\ m.ok = TRUE
      /\ [m EXCEPT !.ok = FALSE].ok = FALSE
  BY <1>1, FieldPut, Zenon
<1> QED
  BY <1>2, <1>3, <1>4, <1>5, <1>6, <1>7, <1>8, Zenon DEF a

LEMMA MadeIs ==
  ASSUME NEW m, NEW h, NEW r, NEW t, Made(m, h, r, t, TRUE)
  PROVE  Memory(m) /\ m.heap = h /\ m.root = r /\ m.top = t
<1>1. m.heap = h /\ m.root = r /\ m.top = t
  BY FieldPut, Zenon
<1> QED
  BY <1>1, Zenon DEF Made, Memory

(* The memory a has the child of x on side s lifted over x.                *)
Lifts(m, a, x, s) ==
  LET y == m.heap[x][s]
  IN  /\ Memory(a)
      /\ a.top \in {x, y}
      /\ AvlTurned(m.heap, a.heap, x, s, a.top, IF a.top = x THEN y ELSE x)
      /\ a.root = IF x = m.root THEN a.top ELSE m.root

(* Rotate does, whatever the side.                                         *)
LEMMA AvlRotateLifts ==
  ASSUME NEW m, Memory(m), AvlRecords(m.heap), Tree(m.heap, m.root),
         NEW x \in Reachable(m.heap, m.root), NEW s \in Sides, m.heap[x][s] # NULL
  PROVE  Lifts(m, Avl!Rotate(m, x, s), x, s)
<1> DEFINE h == m.heap
           y == h[x][s]
           o == Opposite(s)
           c == h[y][o]
           low == [h[x] EXCEPT ![s] = c]
           high == [h[y] EXCEPT ![o] = x]
           g0 == [h EXCEPT ![x] = low]
           g1 == [g0 EXCEPT ![y] = high]
           g2 == Avl!Updated(g1, x)
           g3 == Avl!Updated(g2, y)
           a == Avl!Rotate(m, x, s)
           linked == [h EXCEPT ![x][s] = c, ![y][o] = x]
<1>1. o \in Sides /\ o # s /\ Opposite(o) = s /\ \A u \in Sides : u = s \/ u = o
  BY TwoSides
<1>2. /\ x \in DOMAIN h /\ y \in DOMAIN h /\ x # y
      /\ h[x][o] \in (DOMAIN h \cup {NULL}) \ {x, y}
      /\ \A v \in Sides : h[y][v] \in (DOMAIN h \cup {NULL}) \ {x, y}
  BY Kin
<1>3. h[x] \in AvlNodes /\ h[y] \in AvlNodes /\ x \in Links /\ c \in Links
  BY <1>1, <1>2, AvlFields DEF AvlRecords, Links
<1>4. linked = g1
  <2>1. g0[y] = h[y]
    BY <1>2
  <2>2. linked = [g0 EXCEPT ![y] = [g0[y] EXCEPT ![o] = x]]
    OBVIOUS
  <2> QED
    BY <2>1, <2>2
<1>5. Made(a, g3, IF x = m.root THEN y ELSE m.root, y, TRUE)
  <2>1. a = [m EXCEPT !.heap = Avl!Updated(Avl!Updated(linked, x), y),
                      !.root = IF x = m.root THEN y ELSE m.root, !.top = y]
    BY AvlNames DEF Avl!Rotate
  <2>2. Avl!Updated(Avl!Updated(linked, x), y) = g3
    BY <1>4
  <2> HIDE DEF linked, g3, a, y
  <2> QED
    BY <2>1, <2>2, MemoryPut, Zenon
<1>6. AvlLink(h[x], low, s, c) /\ AvlLink(h[y], high, o, x)
  <2> HIDE DEF y, c, o
  <2> QED
    BY <1>1, <1>3, AvlLinkOf
<1> HIDE DEF low, high, a, linked
<1>7. /\ AvlRecords(g0) /\ DOMAIN g0 = DOMAIN h
      /\ \A n \in DOMAIN h : g0[n] = IF n = x THEN low ELSE h[n]
  BY <1>2, <1>6, AvlStored DEF AvlLink
<1> HIDE DEF y, c, o, g0
<1>8. /\ AvlRecords(g1) /\ DOMAIN g1 = DOMAIN h
      /\ \A n \in DOMAIN h : g1[n] = IF n = y THEN high ELSE IF n = x THEN low ELSE h[n]
  <2>1. y \in DOMAIN g0 /\ high \in AvlNodes
    BY <1>2, <1>6, <1>7 DEF AvlLink
  <2> QED
    BY <1>7, <2>1, AvlStored
<1> HIDE DEF g1
<1>9. /\ g1[x].data = h[x].data /\ g1[x][s] = c /\ g1[x][o] = h[x][o]
      /\ g1[y].data = h[y].data /\ g1[y][s] = h[y][s] /\ g1[y][o] = x
      /\ c \in (DOMAIN h \cup {NULL}) \ {x, y}
      /\ h[y][s] \in (DOMAIN h \cup {NULL}) \ {x, y}
      /\ \A n \in DOMAIN h \ {x, y} : g1[n] = h[n]
  <2>1. g1[x] = low /\ g1[y] = high
    BY <1>2, <1>8
  <2>2. low.data = h[x].data /\ low[s] = c /\ low[o] = h[x][o]
    BY <1>1, <1>6 DEF AvlLink
  <2>3. high.data = h[y].data /\ high[s] = h[y][s] /\ high[o] = x
    BY <1>1, <1>6 DEF AvlLink
  <2>4. c = h[y][o]
    BY DEF c
  <2> QED
    BY <1>1, <1>2, <1>8, <2>1, <2>2, <2>3, <2>4
<1>10. Risen(g1, g2, x)
  <2>1. \A u \in Sides : g1[x][u] \in DOMAIN g1 \cup {NULL}
    BY <1>1, <1>2, <1>8, <1>9
  <2> QED
    BY <1>2, <1>8, <2>1, UpdatedIs
<1> HIDE DEF g2
<1>11. Risen(g2, g3, y)
  <2>1. g2[y] = g1[y] /\ DOMAIN g2 = DOMAIN h /\ AvlRecords(g2)
    BY <1>2, <1>8, <1>10 DEF Risen
  <2>2. \A u \in Sides : g2[y][u] \in DOMAIN g2 \cup {NULL}
    BY <1>1, <1>2, <1>9, <2>1
  <2> QED
    BY <1>2, <2>1, <2>2, UpdatedIs
<1> HIDE DEF g3
<1>12. /\ AvlRecords(g3) /\ DOMAIN g3 = DOMAIN h
       /\ g3[x].data = h[x].data /\ g3[x][s] = c /\ g3[x][o] = h[x][o]
       /\ g3[y].data = h[y].data /\ g3[y][s] = h[y][s] /\ g3[y][o] = x
       /\ \A n \in DOMAIN h \ {x, y} : g3[n] = h[n]
       /\ g3[x] = g2[x] /\ g2[y] = g1[y]
  BY <1>1, <1>2, <1>8, <1>9, <1>10, <1>11 DEF Risen
<1>13. g3[x].height = Rise(g3, x)
  <2>1. \A u \in Sides : g3[x][u] = g1[x][u] /\ g1[x][u] \in (DOMAIN h \cup {NULL}) \ {x, y}
    BY <1>1, <1>2, <1>9, <1>12
  <2>2. \A u \in Sides : g1[x][u] # NULL => g3[g1[x][u]].height = g1[g1[x][u]].height
    BY <1>9, <1>12, <2>1
  <2>3. Rise(g3, x) = Rise(g1, x)
    BY <2>1, <2>2, SameRise
  <2> QED
    BY <1>10, <1>12, <2>3 DEF Risen
<1>14. g3[y].height = Rise(g3, y)
  <2>1. \A u \in Sides : g3[y][u] = g2[y][u] /\ g2[y][u] \in (DOMAIN h \cup {NULL}) \ {y}
    BY <1>1, <1>2, <1>9, <1>12
  <2>2. \A u \in Sides : g2[y][u] # NULL => g3[g2[y][u]].height = g2[g2[y][u]].height
    BY <1>8, <1>10, <1>11, <2>1 DEF Risen
  <2>3. Rise(g3, y) = Rise(g2, y)
    BY <2>1, <2>2, SameRise
  <2> QED
    BY <1>11, <1>12, <2>3 DEF Risen
<1>15. a.heap = g3 /\ a.top = y /\ a.root = (IF x = m.root THEN y ELSE m.root) /\ Memory(a)
  BY <1>5, MadeIs, Zenon
<1>16. AvlTurned(h, g3, x, s, y, x)
  BY <1>2, <1>12, <1>13, <1>14 DEF AvlTurned, y, o, c
<1> HIDE DEF h
<1>17. Lifts(m, a, x, s)
  BY <1>2, <1>15, <1>16 DEF Lifts, h, y
<1> QED
  BY <1>17 DEF a

(* bst_handle_spl_right_rotate does, with x on top and the data exchanged. *)
LEMMA AvlSplLifts ==
  ASSUME NEW m, Memory(m), AvlRecords(m.heap), Tree(m.heap, m.root),
         NEW x \in Reachable(m.heap, m.root),
         m.heap[x]["left"] # NULL, m.heap[x]["right"] = NULL,
         m.heap[m.heap[x]["left"]]["left"] # NULL,
         Exact(m.heap, {m.heap[m.heap[x]["left"]]["left"]})
  PROVE  Lifts(m, Avl!SplRightRotate(m, x), x, "left")
<1> DEFINE h == m.heap
           y == h[x]["left"]
           z == h[y]["left"]
           c == h[y]["right"]
           high == [h[x] EXCEPT !.data = h[y].data, !.left = z, !.right = y]
           low == [h[y] EXCEPT !.data = h[x].data, !.left = c, !.right = NULL]
           g0 == [h EXCEPT ![x] = high]
           g1 == [g0 EXCEPT ![y] = low]
           g2 == Avl!Updated(g1, y)
           g3 == Avl!Updated(g2, z)
           g4 == Avl!Updated(g3, x)
           a == Avl!SplRightRotate(m, x)
           linked == [h EXCEPT ![x] = [@ EXCEPT !.data = h[y].data, !.left = z, !.right = y],
                               ![y] = [@ EXCEPT !.data = h[x].data, !.left = c, !.right = NULL]]
<1>1. /\ "left" \in Sides /\ "right" \in Sides /\ Opposite("left") = "right"
      /\ Opposite("right") = "left" /\ \A u \in Sides : u = "left" \/ u = "right"
  BY DEF Sides, Opposite
<1>2. /\ x \in DOMAIN h /\ y \in DOMAIN h /\ x # y /\ y \in Reachable(h, m.root)
      /\ \A v \in Sides : h[y][v] \in (DOMAIN h \cup {NULL}) \ {x, y}
  BY <1>1, Kin
<1>3. /\ z \in DOMAIN h \ {x, y} /\ z \in Reachable(h, y)
      /\ \A v \in Sides : h[z][v] \in (DOMAIN h \cup {NULL}) \ {x, y, z}
  <2>1. z \in DOMAIN h \ {x, y} /\ z \in Reachable(h, y)
        /\ \A v \in Sides : h[z][v] \in (DOMAIN h \cup {NULL}) \ {y, z}
    BY <1>1, <1>2, Kin
  <2>2. T!Typed(h)
    BY AvlTyped
  <2>3. x \notin Reachable(h, y)
    BY <1>1, <2>2, TreeIs
  <2>4. \A v \in Sides : h[z][v] \in DOMAIN h => h[z][v] \in Reachable(h, y)
    BY <2>1, <2>2, TreeReached
  <2> HIDE DEF y, z
  <2> QED
    BY <1>2, <2>1, <2>3, <2>4
<1>4. h[x] \in AvlNodes /\ h[y] \in AvlNodes /\ y \in Links /\ z \in Links /\ c \in Links
      /\ NULL \in Links /\ h[x].data \in Keys /\ h[y].data \in Keys
  BY <1>1, <1>2, AvlFields DEF AvlRecords, Links
<1>5. linked = g1
  <2>1. g0[y] = h[y]
    BY <1>2
  <2>2. linked = [g0 EXCEPT ![y] = [g0[y] EXCEPT !.data = h[x].data, !.left = c, !.right = NULL]]
    OBVIOUS
  <2> QED
    BY <2>1, <2>2
<1>6. Made(a, g4, m.root, x, TRUE)
  <2>1. a = [m EXCEPT !.heap = Avl!Updated(Avl!Updated(Avl!Updated(linked, y), z), x), !.top = x]
    BY DEF Avl!SplRightRotate
  <2>2. Avl!Updated(Avl!Updated(Avl!Updated(linked, y), z), x) = g4
    BY <1>5
  <2> HIDE DEF linked, g4, a, y, z
  <2> QED
    BY <2>1, <2>2, MemoryPut, Zenon
<1>7. AvlReplaced(h[x], high, h[y].data, z, y)
  <2> HIDE DEF y, z
  <2> QED
    BY <1>4, AvlReplacedOf
<1>8. AvlReplaced(h[y], low, h[x].data, c, NULL)
  <2> HIDE DEF y, c
  <2> QED
    BY <1>4, AvlReplacedOf
<1> HIDE DEF low, high, a, linked
<1>9. /\ AvlRecords(g0) /\ DOMAIN g0 = DOMAIN h
      /\ \A n \in DOMAIN h : g0[n] = IF n = x THEN high ELSE h[n]
  BY <1>2, <1>7, AvlStored DEF AvlReplaced
<1> HIDE DEF y, c, z, g0
<1>10. /\ AvlRecords(g1) /\ DOMAIN g1 = DOMAIN h
       /\ \A n \in DOMAIN h : g1[n] = IF n = y THEN low ELSE IF n = x THEN high ELSE h[n]
  <2>1. y \in DOMAIN g0 /\ low \in AvlNodes
    BY <1>2, <1>8, <1>9 DEF AvlReplaced
  <2> QED
    BY <1>9, <2>1, AvlStored
<1> HIDE DEF g1
<1>11. /\ g1[x].data = h[y].data /\ g1[x]["left"] = z /\ g1[x]["right"] = y
       /\ g1[y].data = h[x].data /\ g1[y]["left"] = c /\ g1[y]["right"] = NULL
       /\ c \in (DOMAIN h \cup {NULL}) \ {x, y}
       /\ z = h[y]["left"] /\ c = h[y]["right"] /\ c # z
       /\ \A n \in DOMAIN h \ {x, y} : g1[n] = h[n]
  <2>1. g1[x] = high /\ g1[y] = low
    BY <1>2, <1>10
  <2>2. c = h[y]["right"] /\ z = h[y]["left"]
    BY DEF c, z
  <2>3. c # z
    <3>1. T!Typed(h) /\ z # NULL
      BY AvlTyped DEF z, y
    <3>2. "left" # "right"
      OBVIOUS
    <3> QED
      BY <1>1, <1>2, <2>2, <3>1, <3>2, TreeIs
  <2> QED
    BY <1>1, <1>2, <1>7, <1>8, <1>10, <2>1, <2>2, <2>3 DEF AvlReplaced
<1>12. Risen(g1, g2, y)
  <2>1. \A u \in Sides : g1[y][u] \in DOMAIN g1 \cup {NULL}
    BY <1>1, <1>2, <1>10, <1>11
  <2> QED
    BY <1>2, <1>10, <2>1, UpdatedIs
<1> HIDE DEF g2
<1>13. Risen(g2, g3, z) /\ g3[z] = g2[z] /\ g2[z] = h[z]
  <2>1. g2[z] = g1[z] /\ g1[z] = h[z] /\ DOMAIN g2 = DOMAIN h /\ AvlRecords(g2)
    BY <1>3, <1>10, <1>11, <1>12 DEF Risen
  <2>2. \A u \in Sides : g2[z][u] \in DOMAIN g2 \cup {NULL}
    BY <1>3, <2>1
  <2>3. Risen(g2, g3, z)
    BY <1>3, <2>1, <2>2, UpdatedIs
  <2>4. g2[z].height = Rise(g2, z)
    <3>1. h[z].height = Rise(h, z)
      BY DEF Exact, z, y
    <3>2. \A u \in Sides : g2[z][u] = h[z][u]
      BY <2>1
    <3>3. \A u \in Sides : h[z][u] # NULL => g2[h[z][u]].height = h[h[z][u]].height
      BY <1>3, <1>10, <1>11, <1>12 DEF Risen
    <3> QED
      BY <2>1, <3>1, <3>2, <3>3, SameRise
  <2> QED
    BY <2>1, <2>3, <2>4 DEF Risen
<1> HIDE DEF g3
<1>14. Risen(g3, g4, x) /\ g3[x] = g1[x]
  <2>1. g3[x] = g1[x] /\ DOMAIN g3 = DOMAIN h /\ AvlRecords(g3)
    BY <1>2, <1>3, <1>10, <1>12, <1>13 DEF Risen
  <2>2. \A u \in Sides : g3[x][u] \in DOMAIN g3 \cup {NULL}
    BY <1>1, <1>2, <1>3, <1>11, <2>1
  <2> QED
    BY <1>2, <2>1, <2>2, UpdatedIs
<1> HIDE DEF g4
<1>15. /\ AvlRecords(g4) /\ DOMAIN g4 = DOMAIN h
       /\ g4[y] = g2[y] /\ g4[z] = h[z]
       /\ \A n \in DOMAIN h \ {x, y} : g4[n] = h[n]
       /\ g4[x].data = h[y].data /\ g4[x]["left"] = z /\ g4[x]["right"] = y
       /\ g4[y].data = h[x].data /\ g4[y]["left"] = c /\ g4[y]["right"] = NULL
  <2>1. AvlRecords(g4) /\ DOMAIN g2 = DOMAIN h /\ DOMAIN g3 = DOMAIN h /\ DOMAIN g4 = DOMAIN h
    BY <1>10, <1>12, <1>13, <1>14 DEF Risen
  <2>2. \A n \in DOMAIN h \ {x} : g4[n] = g3[n]
    BY <2>1, <1>14 DEF Risen
  <2>3. \A n \in DOMAIN h \ {z} : g3[n] = g2[n]
    BY <2>1, <1>13 DEF Risen
  <2>4. \A n \in DOMAIN h \ {y} : g2[n] = g1[n]
    BY <1>10, <1>12 DEF Risen
  <2>5. g4[y] = g2[y] /\ g4[z] = h[z] /\ \A n \in DOMAIN h \ {x, y} : g4[n] = h[n]
    BY <1>2, <1>3, <1>11, <1>13, <2>2, <2>3, <2>4
  <2>6. g4[x].data = g1[x].data /\ \A u \in Sides : g4[x][u] = g1[x][u]
    BY <1>14 DEF Risen
  <2>7. g2[y].data = g1[y].data /\ \A u \in Sides : g2[y][u] = g1[y][u]
    BY <1>12 DEF Risen
  <2> QED
    BY <1>1, <1>11, <2>1, <2>5, <2>6, <2>7
<1>16. g4[y].height = Rise(g4, y)
  <2>0. NULL # x /\ NULL # y
    BY <1>2, AvlFields
  <2>1. \A u \in Sides : g4[y][u] = g1[y][u] /\ g1[y][u] \in (DOMAIN h \cup {NULL}) \ {x, y}
    BY <1>1, <1>2, <1>11, <1>15, <2>0
  <2>2. \A u \in Sides : g1[y][u] # NULL => g4[g1[y][u]].height = g1[g1[y][u]].height
    BY <1>11, <1>15, <2>1
  <2>3. Rise(g4, y) = Rise(g1, y)
    BY <2>1, <2>2, SameRise
  <2> QED
    BY <1>12, <1>15, <2>3 DEF Risen
<1>17. g4[x].height = Rise(g4, x)
  <2>1. \A u \in Sides : g4[x][u] = g3[x][u] /\ g3[x][u] \in (DOMAIN h \cup {NULL}) \ {x}
    BY <1>1, <1>2, <1>3, <1>11, <1>14, <1>15
  <2>2. \A u \in Sides : g3[x][u] # NULL => g4[g3[x][u]].height = g3[g3[x][u]].height
    BY <1>10, <1>12, <1>13, <1>14, <2>1 DEF Risen
  <2>3. Rise(g4, x) = Rise(g3, x)
    BY <2>1, <2>2, SameRise
  <2> QED
    BY <1>14, <2>3 DEF Risen
<1>18. a.heap = g4 /\ a.top = x /\ a.root = m.root /\ Memory(a)
  BY <1>6, MadeIs, Zenon
<1>19. AvlTurned(h, g4, x, "left", x, y)
  <2>1. h[x]["right"] = NULL
    OBVIOUS
  <2>2. y = h[x]["left"]
    BY DEF y
  <2> HIDE DEF h
  <2> QED
    BY <1>1, <1>2, <1>11, <1>15, <1>16, <1>17, <2>1, <2>2 DEF AvlTurned
<1> HIDE DEF h
<1>20. Lifts(m, a, x, "left")
  <2>1. (IF x = m.root THEN x ELSE m.root) = m.root
    OBVIOUS
  <2>2. y = m.heap[x]["left"] /\ h = m.heap
    BY DEF y, h
  <2> QED
    BY <1>2, <1>18, <1>19, <2>1, <2>2 DEF Lifts
<1> QED
  BY <1>20 DEF a

(* A rotation lifts a child or fails.                                      *)
LEMMA RightRotateLifts ==
  ASSUME NEW m, Memory(m), AvlRecords(m.heap), Tree(m.heap, m.root),
         NEW x \in Reachable(m.heap, m.root), m.heap[x]["left"] # NULL,
         m.heap[m.heap[x]["left"]]["left"] # NULL =>
           Exact(m.heap, {m.heap[m.heap[x]["left"]]["left"]})
  PROVE  LET a == Avl!RightRotate(m, x)
         IN  a.ok = FALSE \/ Lifts(m, a, x, "left")
<1>0. "left" \in Sides
  BY DEF Sides
<1>1. CASE m.heap[x]["right"] # NULL
  <2>1. Avl!RightRotate(m, x) = Avl!Rotate(m, x, "left")
    BY <1>1 DEF Avl!RightRotate
  <2> QED
    BY <1>0, <2>1, AvlRotateLifts
<1>2. CASE m.heap[x]["right"] = NULL /\ m.heap[m.heap[x]["left"]]["left"] # NULL
  <2>1. Avl!RightRotate(m, x) = Avl!SplRightRotate(m, x)
    BY <1>2 DEF Avl!RightRotate
  <2> QED
    BY <1>2, <2>1, AvlSplLifts
<1>3. CASE m.heap[x]["right"] = NULL /\ m.heap[m.heap[x]["left"]]["left"] = NULL
  <2>1. Avl!RightRotate(m, x) = [m EXCEPT !.ok = FALSE]
    BY <1>3 DEF Avl!RightRotate, Avl!SplRightRotate, Avl!Failed
  <2> QED
    BY <2>1, MemoryPut, Zenon
<1> QED
  BY <1>1, <1>2, <1>3

(* avl_left_rotate fails or lifts the right child.                         *)
LEMMA LeftRotateLifts ==
  ASSUME NEW m, Memory(m), AvlRecords(m.heap), Tree(m.heap, m.root),
         NEW x \in Reachable(m.heap, m.root)
  PROVE  LET a == Avl!LeftRotate(m, x)
         IN  \/ a.ok = FALSE
             \/ m.heap[x]["right"] # NULL /\ Lifts(m, a, x, "right")
<1>0. "right" \in Sides
  BY DEF Sides
<1>1. CASE m.heap[x]["right"] # NULL
  <2>1. Avl!LeftRotate(m, x) = Avl!Rotate(m, x, "right")
    BY <1>1 DEF Avl!LeftRotate
  <2> QED
    BY <1>0, <1>1, <2>1, AvlRotateLifts
<1>2. CASE m.heap[x]["right"] = NULL
  <2>1. Avl!LeftRotate(m, x) = [m EXCEPT !.ok = FALSE]
    BY <1>2 DEF Avl!LeftRotate, Avl!Failed
  <2> QED
    BY <2>1, MemoryPut, Zenon
<1> QED
  BY <1>1, <1>2

-----------------------------------------------------------------------------
(* A rotation in the tree, once its top is stored where it was called for. *)

(* A pointer stored as a child.                                            *)
StoredLink(h, p, u, v) == [h EXCEPT ![p][u] = v]

LEMMA StoredLinkIs ==
  ASSUME NEW h, AvlRecords(h), NEW p \in DOMAIN h, NEW u \in Sides, NEW v \in Links
  PROVE  LET g == StoredLink(h, p, u, v)
         IN  /\ AvlRecords(g) /\ DOMAIN g = DOMAIN h
             /\ \A m \in DOMAIN h \ {p} : g[m] = h[m]
             /\ g[p].data = h[p].data /\ g[p].height = h[p].height
             /\ \A s \in Sides : g[p][s] = IF s = u THEN v ELSE h[p][s]
             /\ h[p][u] = v => \A m \in DOMAIN h : g[m] = h[m]
<1> DEFINE new == [h[p] EXCEPT ![u] = v]
           g == [h EXCEPT ![p] = new]
<1>1. StoredLink(h, p, u, v) = g
  BY DEF StoredLink
<1>2. h[p] \in AvlNodes
  BY DEF AvlRecords
<1>3. AvlLink(h[p], new, u, v)
  BY <1>2, AvlLinkOf
<1>4. h[p][u] = v => new = h[p]
  BY <1>2 DEF AvlNodes
<1> HIDE DEF new
<1>5. /\ AvlRecords(g) /\ DOMAIN g = DOMAIN h
      /\ \A m \in DOMAIN h : g[m] = IF m = p THEN new ELSE h[m]
  BY <1>3, AvlStored DEF AvlLink
<1> HIDE DEF g
<1> QED
  BY <1>1, <1>3, <1>4, <1>5 DEF AvlLink

(* The nodes outside the tree have the heights they had in it.             *)
Low(h, r) == \A n \in DOMAIN h \ Reachable(h, r) : h[n].height <= Cardinality(Nodes)

(* Node p links to the node x that is lifted over; x is the root if not.   *)
Lifted1(h, g0, r, x, p, u, t, g, q) ==
  IF x = r THEN g = g0 /\ q = t
  ELSE /\ p \in Reachable(h, r) /\ u \in Sides /\ h[p][u] = x
       /\ g = StoredLink(g0, p, u, t) /\ q = r

(* With the top stored as the child that was rotated, the whole is a       *)
(* search tree.                                                            *)
LEMMA LiftedTree ==
  ASSUME NEW h, AvlRecords(h), NEW r, Tree(h, r), NEW x \in Reachable(h, r), NEW s \in Sides,
         h[x][s] # NULL, NEW g0, NEW t, NEW b, AvlTurned(h, g0, x, s, t, b),
         NEW p, NEW u, NEW g, NEW q, Lifted1(h, g0, r, x, p, u, t, g, q),
         NEW St, Exact(h, Reachable(h, r) \ St), x # r => p \in St
  PROVE  /\ AvlRecords(g) /\ DOMAIN g = DOMAIN h
         /\ Tree(g, q) /\ Reachable(g, q) = Reachable(h, r)
         /\ Exact(g, (Reachable(h, r) \ St) \cup {x, h[x][s]})
         /\ \A m \in DOMAIN h \ {x, h[x][s]} : x = r \/ m # p => g[m] = h[m]
         /\ x # r => /\ p \notin {x, h[x][s]} /\ g[p][u] = t
                     /\ \A v \in Sides \ {u} : g[p][v] = h[p][v]
         /\ t \in DOMAIN h
<1> DEFINE y == h[x][s]
           o == Opposite(s)
           R == Reachable(h, r)
<1>1. T!Typed(h) /\ R \subseteq DOMAIN h /\ NULL \notin DOMAIN h
  BY AvlTyped, TreeIs
<1>2. o \in Sides /\ o # s /\ \A v \in Sides : v = s \/ v = o
  BY TwoSides
<1>3. /\ x \in DOMAIN h /\ y \in DOMAIN h /\ y \in R /\ x # y /\ y # r /\ y \in Reachable(h, x)
      /\ h[x][o] \in (DOMAIN h \cup {NULL}) \ {x, y}
      /\ \A v \in Sides : h[y][v] \in (DOMAIN h \cup {NULL}) \ {x, y}
      /\ \A m \in R, v \in Sides : h[m][v] = y => m = x /\ v = s
  BY Kin
<1>4. /\ AvlRecords(g0) /\ DOMAIN g0 = DOMAIN h
      /\ t # b /\ t \in {x, y} /\ b \in {x, y}
      /\ g0[t].data = h[y].data /\ g0[b].data = h[x].data
      /\ g0[t][s] = h[y][s] /\ g0[t][o] = b
      /\ g0[b][s] = h[y][o] /\ g0[b][o] = h[x][o]
      /\ \A m \in DOMAIN h \ {x, y} : g0[m] = h[m]
      /\ g0[t].height = Rise(g0, t) /\ g0[b].height = Rise(g0, b)
  BY DEF AvlTurned
<1>5. \A m \in R, v \in Sides : h[m][v] = x => m \notin {x, y} /\ x # r
  <2> TAKE m \in R, v \in Sides
  <2> HAVE h[m][v] = x
  <2>1. m \notin Reachable(h, x) /\ x # r
    BY <1>1, <1>3, TreeIs
  <2>2. x \in Reachable(h, x)
    BY <1>1, <1>3, TreeReached
  <2> QED
    BY <1>3, <2>1, <2>2
<1>6. ASSUME x # r
      PROVE  /\ p \in R \ {x, y} /\ p \in DOMAIN h /\ u \in Sides /\ h[p][u] = x
             /\ g = StoredLink(g0, p, u, t) /\ t \in Links
             /\ \A m \in R, v \in Sides : h[m][v] = x => m = p /\ v = u
  <2>1. p \in R /\ u \in Sides /\ h[p][u] = x /\ g = StoredLink(g0, p, u, t)
    BY <1>6 DEF Lifted1
  <2>2. t \in Links
    BY <1>3, <1>4 DEF AvlRecords, Links
  <2>3. \A m \in R, v \in Sides : h[m][v] = x => m = p /\ v = u
    BY <1>1, <1>3, <2>1, TreeIs
  <2> QED
    BY <1>1, <1>5, <2>1, <2>2, <2>3
<1> HIDE DEF y, o
<1>7. /\ AvlRecords(g) /\ DOMAIN g = DOMAIN h
      /\ \A m \in DOMAIN h : g[m].data = g0[m].data /\ g[m].height = g0[m].height
      /\ \A m \in DOMAIN h : x = r \/ m # p => g[m] = g0[m]
      /\ x # r => g[p][u] = t /\ \A v \in Sides \ {u} : g[p][v] = g0[p][v]
      /\ q = IF x = r THEN t ELSE r
  <2>1. CASE x = r
    <3>1. g = g0 /\ q = t
      BY <2>1 DEF Lifted1
    <3> QED
      BY <1>4, <2>1, <3>1
  <2>2. CASE x # r
    <3>1. g = StoredLink(g0, p, u, t) /\ q = r
      BY <2>2 DEF Lifted1
    <3>2. p \in DOMAIN g0 /\ u \in Sides /\ t \in Links
      BY <1>4, <1>6, <2>2
    <3>3. /\ AvlRecords(g) /\ DOMAIN g = DOMAIN g0
          /\ \A m \in DOMAIN g0 \ {p} : g[m] = g0[m]
          /\ g[p].data = g0[p].data /\ g[p].height = g0[p].height
          /\ \A v \in Sides : g[p][v] = IF v = u THEN t ELSE g0[p][v]
      <4> DEFINE k == StoredLink(g0, p, u, t)
      <4>1. /\ AvlRecords(k) /\ DOMAIN k = DOMAIN g0
            /\ \A m \in DOMAIN g0 \ {p} : k[m] = g0[m]
            /\ k[p].data = g0[p].data /\ k[p].height = g0[p].height
            /\ \A v \in Sides : k[p][v] = IF v = u THEN t ELSE g0[p][v]
        <5>1. AvlRecords(g0)
          BY <1>4
        <5> QED
          BY <5>1, <3>2, StoredLinkIs
      <4>2. g = k
        BY <3>1
      <4> HIDE DEF k
      <4> QED
        BY <4>1, <4>2
    <3> QED
      BY <1>4, <2>2, <3>1, <3>2, <3>3
  <2> QED
    BY <2>1, <2>2
<1>8. g[x] = g0[x] /\ g[y] = g0[y]
  BY <1>3, <1>6, <1>7
<1>9. LinksTurned(h, r, g, q, x, s, t, b)
  <2>1. ASSUME NEW m \in R \ {x, y}
        PROVE  /\ g[m].data = h[m].data
               /\ \A v \in Sides : g[m][v] = IF h[m][v] = x THEN t ELSE h[m][v]
    <3>1. m \in DOMAIN h /\ g0[m] = h[m]
      BY <1>1, <1>4, <2>1
    <3>2. CASE x = r \/ m # p
      <4>1. g[m] = h[m]
        BY <1>7, <3>1, <3>2
      <4>2. \A v \in Sides : h[m][v] # x
        BY <1>5, <1>6, <2>1, <3>2
      <4> QED
        BY <4>1, <4>2
    <3>3. CASE x # r /\ m = p
      <4>1. g[p].data = h[p].data
        BY <1>7, <3>1, <3>3
      <4>2. ASSUME NEW v \in Sides
            PROVE  g[p][v] = IF h[p][v] = x THEN t ELSE h[p][v]
        <5>1. CASE v = u
          BY <1>6, <1>7, <3>3, <5>1
        <5>2. CASE v # u
          <6>1. h[p][v] # x
            BY <1>6, <3>3, <5>2
          <6> QED
            BY <1>7, <3>1, <3>3, <5>2, <6>1
        <5> QED
          BY <5>1, <5>2
      <4> QED
        BY <3>3, <4>1, <4>2
    <3> QED
      BY <3>2, <3>3
  <2>2. g[t] = g0[t] /\ g[b] = g0[b]
    BY <1>4, <1>8
  <2> QED
    BY <1>4, <1>7, <2>1, <2>2 DEF LinksTurned, y, o
<1>10. Tree(g, q) /\ Reachable(g, q) = R
  <2>1. AvlRecords(g)
    BY <1>7
  <2> QED
    BY <2>1, <1>9, TurnedTree
<1>11. \A m \in DOMAIN h \ {x, y} : x = r \/ m # p => g[m] = h[m]
  BY <1>4, <1>7
<1>12. \A m \in DOMAIN h \ {x, y} : g[m].height = h[m].height
  BY <1>4, <1>7
<1>13. Exact(g, {x, y})
  <2>1. \A n \in {t, b} : g[n] = g0[n] /\ g0[n].height = Rise(g0, n)
    BY <1>4, <1>8
  <2>2. \A n \in {t, b}, v \in Sides : g0[n][v] \in DOMAIN h \cup {NULL}
    <3>1. x \in DOMAIN h /\ y \in DOMAIN h
      BY <1>3
    <3>2. \A v \in Sides : g0[t][v] \in DOMAIN h \cup {NULL}
      BY <1>2, <1>3, <1>4
    <3>3. \A v \in Sides : g0[b][v] \in DOMAIN h \cup {NULL}
      BY <1>2, <1>3, <1>4
    <3> QED
      BY <3>2, <3>3
  <2>3. ASSUME NEW n \in {t, b}
        PROVE  Rise(g, n) = Rise(g0, n)
    <3>1. \A v \in Sides : g[n][v] = g0[n][v]
      BY <2>1
    <3>2. \A v \in Sides : g0[n][v] # NULL => g[g0[n][v]].height = g0[g0[n][v]].height
      BY <1>7, <2>2
    <3> QED
      BY <3>1, <3>2, SameRise
  <2> QED
    BY <1>4, <2>1, <2>3 DEF Exact
<1>14. ASSUME NEW m \in R \ St, m \notin {x, y}
       PROVE  g[m].height = Rise(g, m)
  <2>1. g[m] = h[m] /\ (x # r => m # p) /\ m \in DOMAIN h
    BY <1>1, <1>11, <1>14
  <2>2. \A v \in Sides : h[m][v] # x /\ h[m][v] # y
    BY <1>3, <1>5, <1>6, <1>14, <2>1
  <2>3. \A v \in Sides : h[m][v] # NULL => h[m][v] \in DOMAIN h
    BY <1>1, <1>14, TreeIs
  <2>4. \A v \in Sides : h[m][v] # NULL => g[h[m][v]].height = h[h[m][v]].height
    BY <1>12, <2>2, <2>3
  <2>5. Rise(g, m) = Rise(h, m)
    BY <2>1, <2>4, SameRise
  <2> QED
    BY <1>14, <2>1, <2>5 DEF Exact
<1>15. Exact(g, (R \ St) \cup {x, y})
  BY <1>13, <1>14 DEF Exact
<1>16. x # r => /\ p \notin {x, y} /\ g[p][u] = t
                /\ \A v \in Sides \ {u} : g[p][v] = h[p][v]
  BY <1>4, <1>6, <1>7
<1> HIDE DEF R
<1> QED
  BY <1>3, <1>4, <1>7, <1>10, <1>11, <1>15, <1>16 DEF y, R

-----------------------------------------------------------------------------
(* A call whose first j frames have not returned: the tree of h from r has *)
(* exact heights but for the nodes of these frames.                        *)

Pending(h, r, fs, j) ==
  /\ AvlRecords(h) /\ Tree(h, r) /\ Chain(h, r, fs, j)
  /\ Exact(h, Reachable(h, r) \ Frame(fs, j))
  /\ Low(h, r)

(* The heap once frame j has stored v as the subtree it went to.           *)
Hung(h, fs, j, v) == IF j = 0 THEN h ELSE StoredLink(h, fs[j].node, fs[j].side, v)

(* Frame j is about to store what the call below returned, or has done so. *)
Returning(m, fs, j) == Memory(m) /\ Pending(Hung(m.heap, fs, j, m.top), m.root, fs, j)

Standing(m, fs, j) == Memory(m) /\ j # 0 /\ Pending(m.heap, m.root, fs, j)

(* What holds where a frame balances its node.                             *)
LEMMA StandingIs ==
  ASSUME NEW m, NEW fs, NEW j, Standing(m, fs, j)
  PROVE  LET h == m.heap
             r == m.root
             x == fs[j].node
         IN  /\ j \in Nat /\ j - 1 \in Nat /\ j \in 1 .. j
             /\ T!Typed(h) /\ AvlRecords(h) /\ Tree(h, r) /\ Chain(h, r, fs, j)
             /\ x \in Reachable(h, r) /\ x \in Frame(fs, j)
             /\ fs[j].side \in Sides
             /\ \A k \in 1 .. j - 1 : /\ fs[k].node \in Reachable(h, r) /\ fs[k].side \in Sides
                                      /\ fs[k].node # x /\ fs[k].node \notin Reachable(h, x)
                                      /\ fs[k].node \in Frame(fs, j)
             /\ Frame(fs, j) = Frame(fs, j - 1) \cup {x}
             /\ j = 1 => x = r
             /\ j # 1 => /\ j - 1 \in 1 .. j - 1 /\ x # r /\ fs[1].node = r
                         /\ h[fs[j - 1].node][fs[j - 1].side] = x
                         /\ \A k \in 1 .. j - 2 : fs[k].node # fs[j - 1].node
             /\ \A k \in 1 .. j - 1 : h[fs[k].node][fs[k].side] = fs[k + 1].node
<1> DEFINE h == m.heap
           r == m.root
           x == fs[j].node
<1>1. j \in Nat /\ j # 0 /\ j - 1 \in Nat /\ j \in 1 .. j /\ 1 \in 1 .. j
  BY DEF Standing, Pending, Chain
<1>2. AvlRecords(h) /\ Tree(h, r) /\ Chain(h, r, fs, j)
  BY DEF Standing, Pending
<1>3. T!Typed(h)
  BY <1>2, AvlTyped
<1>4. \A k \in 1 .. j : fs[k].node \in Reachable(h, r)
  BY <1>2, <1>3, ChainReached
<1>5. \A k, l \in 1 .. j : k < l => /\ fs[k].node # fs[l].node
                                    /\ fs[k].node \notin Reachable(h, fs[l].node)
  BY <1>2, <1>3, ChainBelow
<1>6. /\ \A k \in 1 .. j : fs[k].side \in Sides
      /\ fs[1].node = r
      /\ \A k \in 1 .. j - 1 : h[fs[k].node][fs[k].side] = fs[k + 1].node
  BY <1>1, <1>2 DEF Chain
<1>7. \A k \in 1 .. j - 1 : k \in 1 .. j /\ k < j
  BY <1>1
<1>8. Frame(fs, j) = Frame(fs, j - 1) \cup {x}
  <2>1. 1 .. j = (1 .. j - 1) \cup {j}
    BY <1>1
  <2> QED
    BY <2>1 DEF Frame
<1>9. \A k \in 1 .. j : fs[k].node \in Frame(fs, j)
  BY DEF Frame
<1>10. ASSUME j # 1
       PROVE  /\ j - 1 \in 1 .. j - 1 /\ x # r
              /\ h[fs[j - 1].node][fs[j - 1].side] = x
              /\ \A k \in 1 .. j - 2 : fs[k].node # fs[j - 1].node
  <2>1. j - 1 \in 1 .. j - 1 /\ (j - 1) + 1 = j /\ 1 < j
    BY <1>1, <1>10
  <2>2. \A k \in 1 .. j - 2 : k \in 1 .. j /\ j - 1 \in 1 .. j /\ k < j - 1
    BY <1>1
  <2> QED
    BY <1>1, <1>5, <1>6, <2>1, <2>2
<1> HIDE DEF h, r, x
<1>11. \A k \in 1 .. j - 1 : /\ fs[k].node \in Reachable(h, r) /\ fs[k].side \in Sides
                             /\ fs[k].node # x /\ fs[k].node \notin Reachable(h, x)
                             /\ fs[k].node \in Frame(fs, j)
  BY <1>1, <1>4, <1>5, <1>6, <1>7, <1>9 DEF x
<1> QED
  BY <1>1, <1>2, <1>3, <1>4, <1>6, <1>8, <1>9, <1>10, <1>11 DEF h, r, x

(* The hypotheses and the result of LiftedTree, as one formula each.       *)
Lifting(h, r, x, s, g0, t, b, p, u, g, q, St) ==
  /\ AvlRecords(h) /\ Tree(h, r) /\ x \in Reachable(h, r) /\ s \in Sides /\ h[x][s] # NULL
  /\ AvlTurned(h, g0, x, s, t, b)
  /\ Lifted1(h, g0, r, x, p, u, t, g, q)
  /\ Exact(h, Reachable(h, r) \ St)
  /\ x # r => p \in St

Uplifted(h, r, x, y, p, u, t, g, q, St, R) ==
  /\ AvlRecords(g) /\ DOMAIN g = DOMAIN h
  /\ Tree(g, q) /\ Reachable(g, q) = R
  /\ Exact(g, (R \ St) \cup {x, y})
  /\ \A m \in DOMAIN h \ {x, y} : x = r \/ m # p => g[m] = h[m]
  /\ x # r => g[p][u] = t
  /\ t \in DOMAIN h

LEMMA LiftingLifts ==
  ASSUME NEW h, NEW r, NEW x, NEW s, NEW g0, NEW t, NEW b, NEW p, NEW u, NEW g, NEW q, NEW St,
         Lifting(h, r, x, s, g0, t, b, p, u, g, q, St)
  PROVE  Uplifted(h, r, x, h[x][s], p, u, t, g, q, St, Reachable(h, r))
<1>1. AvlRecords(h)
  BY DEF Lifting
<1>2. Tree(h, r)
  BY DEF Lifting
<1>3. x \in Reachable(h, r) /\ s \in Sides /\ h[x][s] # NULL
  BY DEF Lifting
<1>4. AvlTurned(h, g0, x, s, t, b)
  BY DEF Lifting
<1>5. Lifted1(h, g0, r, x, p, u, t, g, q)
  BY DEF Lifting
<1>6. Exact(h, Reachable(h, r) \ St)
  BY DEF Lifting
<1>7. x # r => p \in St
  BY DEF Lifting
<1>8. /\ AvlRecords(g) /\ DOMAIN g = DOMAIN h
      /\ Tree(g, q) /\ Reachable(g, q) = Reachable(h, r)
      /\ Exact(g, (Reachable(h, r) \ St) \cup {x, h[x][s]})
      /\ \A m \in DOMAIN h \ {x, h[x][s]} : x = r \/ m # p => g[m] = h[m]
      /\ x # r => /\ p \notin {x, h[x][s]} /\ g[p][u] = t
                  /\ \A v \in Sides \ {u} : g[p][v] = h[p][v]
      /\ t \in DOMAIN h
  BY <1>1, <1>2, <1>3, <1>4, <1>5, <1>6, <1>7, LiftedTree
<1> QED
  BY <1>8 DEF Uplifted

(* The frames above do not notice.                                         *)
LEMMA ChainKept ==
  ASSUME NEW h, NEW r, NEW fs, NEW j, Chain(h, r, fs, j), NEW g, NEW q, NEW i \in 0 .. j,
         DOMAIN g = DOMAIN h, i # 0 => q = r,
         \A k \in 1 .. i - 1 : g[fs[k].node] = h[fs[k].node]
  PROVE  Chain(g, q, fs, i)
<1>1. j \in Nat /\ i \in Nat /\ i <= j
  BY DEF Chain
<1>2. \A k \in 1 .. i : fs[k].node \in DOMAIN g /\ fs[k].side \in Sides
  BY <1>1 DEF Chain
<1>3. i > 0 => fs[1].node = q
  BY <1>1 DEF Chain
<1>4. \A k \in 1 .. i - 1 : g[fs[k].node][fs[k].side] = fs[k + 1].node
  <2> TAKE k \in 1 .. i - 1
  <2>1. k \in 1 .. j - 1
    BY <1>1
  <2> QED
    BY <2>1 DEF Chain
<1> QED
  BY <1>1, <1>2, <1>3, <1>4 DEF Chain

(* A rotation at the node of frame j, with its heights exact, leaves a     *)
(* call that returns from this frame.                                      *)
LEMMA LiftedReturns ==
  ASSUME NEW m, NEW fs, NEW j, Standing(m, fs, j), NEW s \in Sides,
         m.heap[fs[j].node][s] # NULL, NEW a, Lifts(m, a, fs[j].node, s)
  PROVE  Returning(a, fs, j - 1)
<1> DEFINE h == m.heap
           r == m.root
           x == fs[j].node
           y == h[x][s]
           i == j - 1
           p == fs[i].node
           u == fs[i].side
           t == a.top
           b == IF t = x THEN y ELSE x
           g == Hung(a.heap, fs, i, t)
           R == Reachable(h, r)
<1>1. /\ j \in Nat /\ i \in Nat /\ T!Typed(h) /\ AvlRecords(h) /\ Tree(h, r)
      /\ Chain(h, r, fs, j) /\ x \in R
      /\ \A k \in 1 .. j - 1 : /\ fs[k].node \in Reachable(h, r) /\ fs[k].side \in Sides
                               /\ fs[k].node # x /\ fs[k].node \notin Reachable(h, x)
                               /\ fs[k].node \in Frame(fs, j)
      /\ Frame(fs, j) = Frame(fs, i) \cup {x}
      /\ j = 1 => x = r
      /\ j # 1 => /\ i \in 1 .. i /\ x # r /\ h[p][u] = x
                  /\ \A k \in 1 .. j - 2 : fs[k].node # p
  BY StandingIs
<1>2. Exact(h, R \ Frame(fs, j)) /\ Low(h, r)
  BY DEF Standing, Pending
<1>3. /\ Memory(a) /\ AvlTurned(h, a.heap, x, s, t, b)
      /\ a.root = IF x = r THEN t ELSE r
  BY DEF Lifts
<1>4. y \in DOMAIN h /\ y \in Reachable(h, x) /\ y \in R /\ x \in DOMAIN h /\ R \subseteq DOMAIN h
  <2>1. y \in DOMAIN h /\ y \in Reachable(h, x) /\ y \in R /\ x \in DOMAIN h
    BY <1>1, Kin
  <2> QED
    BY <1>1, <2>1, TreeReached
<1>5. Lifted1(h, a.heap, r, x, p, u, t, g, a.root)
  <2>1. CASE j = 1
    <3>1. g = a.heap
      BY <2>1 DEF Hung
    <3> QED
      BY <1>1, <1>3, <2>1, <3>1 DEF Lifted1
  <2>2. CASE j # 1
    <3>1. g = StoredLink(a.heap, p, u, t)
      BY <1>1, <2>2 DEF Hung
    <3> QED
      BY <1>1, <1>3, <2>2, <3>1 DEF Lifted1
  <2> QED
    BY <2>1, <2>2
<1>6. x # r => p \in Frame(fs, j)
  BY <1>1
<1> HIDE DEF h, r, x, i, p, u, t, b, g
<1>7. /\ AvlRecords(g) /\ DOMAIN g = DOMAIN h
      /\ Tree(g, a.root) /\ Reachable(g, a.root) = R
      /\ Exact(g, (R \ Frame(fs, j)) \cup {x, y})
      /\ \A n \in DOMAIN h \ {x, y} : x = r \/ n # p => g[n] = h[n]
  <2>1. Lifting(h, r, x, s, a.heap, t, b, p, u, g, a.root, Frame(fs, j))
    <3>1. h[x][s] # NULL
      BY DEF h, x
    <3> QED
      BY <1>1, <1>2, <1>3, <1>5, <1>6, <3>1 DEF Lifting
  <2>2. Uplifted(h, r, x, y, p, u, t, g, a.root, Frame(fs, j), R)
    BY <2>1, LiftingLifts
  <2> QED
    BY <2>2 DEF Uplifted
<1>8. Chain(g, a.root, fs, i)
  <2>1. i # 0 => a.root = r
    BY <1>1, <1>3 DEF i
  <2>2. \A k \in 1 .. i - 1 : g[fs[k].node] = h[fs[k].node]
    <3> TAKE k \in 1 .. i - 1
    <3>1. k \in 1 .. j - 1 /\ k \in 1 .. j - 2 /\ j # 1
      BY <1>1 DEF i
    <3>2. fs[k].node \in DOMAIN h \ {x, y} /\ fs[k].node # p
      BY <1>1, <1>4, <3>1 DEF r
    <3> QED
      BY <1>7, <3>2
  <2>3. i \in 0 .. j
    BY <1>1 DEF i
  <2> QED
    BY <1>1, <1>7, <2>1, <2>2, <2>3, ChainKept
<1>9. Exact(g, Reachable(g, a.root) \ Frame(fs, i))
  BY <1>1, <1>7 DEF Exact
<1>10. Low(g, a.root)
  <2>1. \A n \in DOMAIN h \ R : n \notin {x, y} /\ (x = r \/ n # p)
    BY <1>1, <1>4 DEF r, i, p
  <2> QED
    BY <1>2, <1>7, <2>1 DEF Low
<1>11. Pending(g, a.root, fs, i)
  BY <1>7, <1>8, <1>9, <1>10 DEF Pending
<1> QED
  BY <1>3, <1>11 DEF Returning, g, i, t

(* A child of the node is lifted over, and linked by it.                   *)
LEMMA LiftedChild ==
  ASSUME NEW m, NEW fs, NEW j, Standing(m, fs, j), NEW side \in Sides, NEW s \in Sides,
         m.heap[fs[j].node][side] # NULL, m.heap[m.heap[fs[j].node][side]][s] # NULL,
         NEW a, Lifts(m, a, m.heap[fs[j].node][side], s)
  PROVE  LET c == [a EXCEPT !.heap[fs[j].node][side] = a.top]
         IN  Standing(c, fs, j) /\ c.heap[fs[j].node][side] # NULL
<1> DEFINE h == m.heap
           r == m.root
           n == fs[j].node
           x == h[n][side]
           y == h[x][s]
           t == a.top
           b == IF t = x THEN y ELSE x
           g == StoredLink(a.heap, n, side, t)
           R == Reachable(h, r)
           c == [a EXCEPT !.heap[n][side] = t]
<1>1. /\ j \in Nat /\ T!Typed(h) /\ AvlRecords(h) /\ Tree(h, r) /\ Chain(h, r, fs, j) /\ n \in R
      /\ \A k \in 1 .. j - 1 : /\ fs[k].node \in Reachable(h, r)
                               /\ fs[k].node # n /\ fs[k].node \notin Reachable(h, n)
      /\ n \in Frame(fs, j) /\ j \in 1 .. j
  BY StandingIs
<1>2. Exact(h, R \ Frame(fs, j)) /\ Low(h, r) /\ j # 0
  BY DEF Standing, Pending
<1>3. /\ Memory(a) /\ AvlTurned(h, a.heap, x, s, t, b)
      /\ a.root = IF x = r THEN t ELSE r
  BY DEF Lifts
<1>4. x \in R /\ x # r /\ x # n /\ x \in Reachable(h, n) /\ R \subseteq DOMAIN h /\ NULL \notin DOMAIN h
  <2>1. x \in R /\ x # r /\ x # n /\ x \in Reachable(h, n)
    BY <1>1, Kin
  <2> QED
    BY <1>1, <2>1, TreeIs
<1> HIDE DEF x
<1>5. y \in R /\ y \in Reachable(h, x) /\ h[x][s] # NULL
  <2>1. h[x][s] # NULL
    BY DEF x
  <2> QED
    BY <1>1, <1>4, <2>1, Kin
<1>6. y \in Reachable(h, n)
  BY <1>1, <1>4, <1>5, TreeReached
<1>7. Lifted1(h, a.heap, r, x, n, side, t, g, a.root)
  <2>1. h[n][side] = x
    BY DEF x
  <2> QED
    BY <1>1, <1>3, <1>4, <2>1 DEF Lifted1
<1>8. Made(c, g, a.root, a.top, TRUE)
  <2>1. c = [a EXCEPT !.heap = g]
    BY DEF StoredLink
  <2> HIDE DEF c, g
  <2> QED
    BY <1>3, <2>1, MemoryPut, Zenon
<1> HIDE DEF h, r, n, t, b, g, c
<1>9. /\ AvlRecords(g) /\ DOMAIN g = DOMAIN h
      /\ Tree(g, a.root) /\ Reachable(g, a.root) = R
      /\ Exact(g, (R \ Frame(fs, j)) \cup {x, y})
      /\ \A k \in DOMAIN h \ {x, y} : k # n => g[k] = h[k]
      /\ g[n][side] = t /\ t \in DOMAIN h
  <2>1. Lifting(h, r, x, s, a.heap, t, b, n, side, g, a.root, Frame(fs, j))
    BY <1>1, <1>2, <1>3, <1>4, <1>5, <1>7 DEF Lifting
  <2>2. Uplifted(h, r, x, y, n, side, t, g, a.root, Frame(fs, j), R)
    BY <2>1, LiftingLifts
  <2> QED
    BY <1>4, <2>2 DEF Uplifted
<1>10. a.root = r
  BY <1>3, <1>4
<1>11. Chain(g, a.root, fs, j)
  <2>1. \A k \in 1 .. j - 1 : g[fs[k].node] = h[fs[k].node]
    <3> TAKE k \in 1 .. j - 1
    <3>1. fs[k].node \in DOMAIN h \ {x, y} /\ fs[k].node # n
      BY <1>1, <1>4, <1>6 DEF r
    <3> QED
      BY <1>9, <3>1
  <2>2. j \in 0 .. j
    BY <1>1
  <2> QED
    BY <1>1, <1>9, <1>10, <2>1, <2>2, ChainKept
<1>12. Exact(g, Reachable(g, a.root) \ Frame(fs, j))
  BY <1>9 DEF Exact
<1>13. Low(g, a.root)
  <2>1. \A k \in DOMAIN h \ R : k \notin {x, y} /\ k # n
    BY <1>1, <1>4, <1>5
  <2> QED
    BY <1>2, <1>9, <2>1 DEF Low
<1>14. Pending(g, a.root, fs, j)
  BY <1>9, <1>11, <1>12, <1>13 DEF Pending
<1>15. Memory(c) /\ c.heap = g /\ c.root = a.root
  BY <1>8, MadeIs, Zenon
<1>16. Standing(c, fs, j) /\ c.heap[n][side] # NULL
  BY <1>2, <1>4, <1>9, <1>14, <1>15 DEF Standing
<1> QED
  BY <1>16 DEF c, n, t

(* Nothing has to be done at the node.                                     *)
LEMMA StandingReturns ==
  ASSUME NEW m, NEW fs, NEW j, Standing(m, fs, j), Exact(m.heap, {fs[j].node})
  PROVE  Returning([m EXCEPT !.top = fs[j].node], fs, j - 1)
<1> DEFINE h == m.heap
           r == m.root
           x == fs[j].node
           i == j - 1
           a == [m EXCEPT !.top = x]
           g == Hung(h, fs, i, x)
           R == Reachable(h, r)
<1>1. /\ j \in Nat /\ i \in Nat /\ T!Typed(h) /\ AvlRecords(h) /\ Tree(h, r)
      /\ Chain(h, r, fs, j) /\ x \in R
      /\ Frame(fs, j) = Frame(fs, i) \cup {x}
      /\ \A k \in 1 .. j - 1 : fs[k].node \in R /\ fs[k].side \in Sides
      /\ j # 1 => i \in 1 .. i /\ h[fs[i].node][fs[i].side] = x
  BY StandingIs
<1>2. Exact(h, R \ Frame(fs, j)) /\ Low(h, r) /\ Memory(m)
  BY DEF Standing, Pending
<1>3. R \subseteq DOMAIN h
  BY <1>1, TreeReached
<1>4. AvlRecords(g) /\ DOMAIN g = DOMAIN h /\ \A n \in DOMAIN h : g[n] = h[n]
  <2>1. CASE j = 1
    BY <1>1, <2>1 DEF Hung
  <2>2. CASE j # 1
    <3>1. g = StoredLink(h, fs[i].node, fs[i].side, x)
      BY <1>1, <2>2 DEF Hung
    <3>2. fs[i].node \in DOMAIN h /\ fs[i].side \in Sides /\ x \in Links
          /\ h[fs[i].node][fs[i].side] = x
      BY <1>1, <1>3, <2>2 DEF AvlRecords, Links
    <3> DEFINE k == StoredLink(h, fs[i].node, fs[i].side, x)
    <3>3. AvlRecords(k) /\ DOMAIN k = DOMAIN h /\ \A n \in DOMAIN h : k[n] = h[n]
      <4> HIDE DEF h, x, i
      <4> QED
        BY <1>1, <3>2, StoredLinkIs
    <3> HIDE DEF k, g
    <3> QED
      BY <3>1, <3>3 DEF k
  <2> QED
    BY <2>1, <2>2
<1> HIDE DEF g
<1>5. Tree(g, r) /\ Reachable(g, r) = R
  <2>1. T!Typed(g) /\ Alike(h, g)
    BY <1>4, AvlTyped DEF Alike
  <2> QED
    BY <1>1, <2>1, AlikeReached, AlikeTree
<1>6. Chain(g, r, fs, i)
  <2>1. \A k \in 1 .. i - 1 : g[fs[k].node] = h[fs[k].node]
    BY <1>1, <1>3, <1>4
  <2>2. i \in 0 .. j
    BY <1>1
  <2> QED
    BY <1>1, <1>4, <2>1, <2>2, ChainKept
<1>7. Exact(g, R \ Frame(fs, i))
  <2> SUFFICES ASSUME NEW n \in R, n \notin Frame(fs, i)
               PROVE  g[n].height = Rise(g, n)
    BY DEF Exact
  <2>1. h[n].height = Rise(h, n)
    BY <1>1, <1>2 DEF Exact
  <2>2. \A v \in Sides : h[n][v] # NULL => h[n][v] \in DOMAIN h
    BY <1>1, <1>3, TreeIs
  <2>3. Rise(g, n) = Rise(h, n)
    <3>1. \A v \in Sides : g[n][v] = h[n][v]
      BY <1>3, <1>4
    <3>2. \A v \in Sides : h[n][v] # NULL => g[h[n][v]].height = h[h[n][v]].height
      BY <1>4, <2>2
    <3> QED
      BY <3>1, <3>2, SameRise
  <2> QED
    BY <1>3, <1>4, <2>1, <2>3
<1>8. Low(g, r)
  BY <1>2, <1>4, <1>5 DEF Low
<1>9. Pending(g, r, fs, i)
  BY <1>4, <1>5, <1>6, <1>7, <1>8 DEF Pending
<1>10. Memory(a) /\ a.heap = h /\ a.root = r /\ a.top = x
  <2>1. Made(a, h, r, x, TRUE)
    BY <1>2, MemoryPut, Zenon
  <2> HIDE DEF a
  <2> QED
    BY <2>1, MadeIs, Zenon
<1> HIDE DEF a
<1>11. Returning(a, fs, i)
  BY <1>9, <1>10 DEF Returning, g
<1> QED
  BY <1>11 DEF a, x, i

(* Once the frame has linked what was returned and updated its height, the *)
(* height of its node is exact as well.                                    *)
LEMMA LinkedStands ==
  ASSUME NEW m, NEW fs, NEW j, Returning(m, fs, j), j # 0
  PROVE  LET c == Avl!Linked(m, fs[j])
         IN  Standing(c, fs, j) /\ Exact(c.heap, {fs[j].node})
<1> DEFINE h == Hung(m.heap, fs, j, m.top)
           r == m.root
           x == fs[j].node
           R == Reachable(h, r)
           g == Avl!Updated(h, x)
           w == [m EXCEPT !.heap = h]
           c == [m EXCEPT !.heap = g]
<1>1. c = Avl!Linked(m, fs[j])
  BY DEF Avl!Linked, Hung, StoredLink
<1>2. Memory(m) /\ Pending(h, r, fs, j)
  BY DEF Returning
<1>3. /\ Memory(w) /\ w.heap = h /\ w.root = r
      /\ Memory(c) /\ c.heap = g /\ c.root = r
  <2>1. Made(w, h, r, m.top, TRUE) /\ Made(c, g, r, m.top, TRUE)
    <3> HIDE DEF h, g
    <3> QED
      BY <1>2, MemoryPut, Zenon
  <2> HIDE DEF w, c, h, g
  <2> QED
    BY <2>1, MadeIs, Zenon
<1> HIDE DEF h, r, w, c
<1>4. Standing(w, fs, j)
  BY <1>2, <1>3 DEF Standing
<1>5. /\ j \in Nat /\ T!Typed(h) /\ AvlRecords(h) /\ Tree(h, r) /\ Chain(h, r, fs, j)
      /\ x \in R
      /\ \A k \in 1 .. j - 1 : fs[k].node \in R /\ fs[k].node # x
      /\ j = 1 => x = r
      /\ j # 1 => /\ j - 1 \in 1 .. j - 1 /\ x # r
                  /\ h[fs[j - 1].node][fs[j - 1].side] = x
      /\ \A k \in 1 .. j - 1 : fs[k].node \in Frame(fs, j) /\ fs[k].side \in Sides
      /\ x \in Frame(fs, j)
  BY <1>3, <1>4, StandingIs
<1>6. Exact(h, R \ Frame(fs, j)) /\ Low(h, r)
  BY <1>2 DEF Pending
<1> HIDE DEF x
<1>7. /\ R \subseteq DOMAIN h /\ NULL \notin DOMAIN h
      /\ \A n \in R, s \in Sides : /\ h[n][s] \in R \cup {NULL}
                                   /\ n \notin Reachable(h, h[n][s])
                                   /\ h[n][s] # NULL => h[n][s] # r
  BY <1>5, TreeIs
<1>8. \A n \in R, s \in Sides : h[n][s] # n
  BY <1>5, <1>7, TreeReached
<1>9. \A n \in R \ Frame(fs, j), s \in Sides : h[n][s] # x
  <2> SUFFICES ASSUME NEW n \in R \ Frame(fs, j), NEW s \in Sides, h[n][s] = x
               PROVE  FALSE
    OBVIOUS
  <2>1. x # r /\ x # NULL
    BY <1>5, <1>7
  <2>2. j # 1
    BY <1>5, <2>1
  <2> DEFINE p == fs[j - 1].node
             u == fs[j - 1].side
  <2>3. p \in R /\ u \in Sides /\ h[p][u] = x /\ p \in Frame(fs, j)
    BY <1>5, <2>2
  <2> HIDE DEF p, u
  <2>4. n = p
    <3>1. h[n][s] # NULL /\ h[p][u] = h[n][s]
      BY <2>1, <2>3
    <3> QED
      BY <1>5, <2>3, <3>1, TreeIs
  <2> QED
    BY <2>3, <2>4
<1>10. Risen(h, g, x)
  BY <1>5, <1>7, UpdatedIs
<1> HIDE DEF g
<1>11. /\ AvlRecords(g) /\ DOMAIN g = DOMAIN h /\ Alike(h, g) /\ T!Typed(g)
       /\ \A n \in DOMAIN h \ {x} : g[n] = h[n]
       /\ g[x].height = Rise(h, x)
       /\ \A s \in Sides : g[x][s] = h[x][s]
  BY <1>10, AvlTyped DEF Risen
<1>12. Tree(g, r) /\ Reachable(g, r) = R
  BY <1>5, <1>11, AlikeReached, AlikeTree
<1>13. Chain(g, r, fs, j)
  <2>1. \A k \in 1 .. j - 1 : g[fs[k].node] = h[fs[k].node]
    BY <1>5, <1>7, <1>11
  <2>2. j \in 0 .. j
    BY <1>5
  <2> QED
    BY <1>5, <1>11, <2>1, <2>2, ChainKept
<1>14. \A n \in R : (\A s \in Sides : h[n][s] # x) => Rise(g, n) = Rise(h, n)
  <2> SUFFICES ASSUME NEW n \in R, \A s \in Sides : h[n][s] # x
               PROVE  Rise(g, n) = Rise(h, n)
    OBVIOUS
  <2>1. \A s \in Sides : g[n][s] = h[n][s]
    BY <1>7, <1>11
  <2>2. \A s \in Sides : h[n][s] # NULL => g[h[n][s]].height = h[h[n][s]].height
    BY <1>7, <1>11
  <2> QED
    BY <2>1, <2>2, SameRise
<1>15. Exact(g, {x})
  BY <1>5, <1>8, <1>11, <1>14 DEF Exact
<1>16. Exact(g, R \ Frame(fs, j))
  <2> SUFFICES ASSUME NEW n \in R, n \notin Frame(fs, j)
               PROVE  g[n].height = Rise(g, n)
    BY DEF Exact
  <2>1. h[n].height = Rise(h, n)
    BY <1>6 DEF Exact
  <2>2. g[n] = h[n]
    BY <1>5, <1>7, <1>11
  <2> QED
    BY <1>9, <1>14, <2>1, <2>2
<1>17. Low(g, r)
  BY <1>5, <1>6, <1>11, <1>12 DEF Low
<1>18. Pending(g, r, fs, j)
  BY <1>11, <1>12, <1>13, <1>16, <1>17 DEF Pending
<1>19. Standing(c, fs, j) /\ Exact(c.heap, {x})
  BY <1>3, <1>15, <1>18 DEF Standing
<1> QED
  BY <1>1, <1>19 DEF x

(* What balancing at the node leads to.                                    *)
Settled(a, fs, i) == a.ok = FALSE \/ Returning(a, fs, i)

(* A grandchild of the node on the way is not on it: its height is exact.  *)
LEMMA BelowExact ==
  ASSUME NEW m, NEW fs, NEW j, Standing(m, fs, j), NEW s \in Sides, NEW u \in Sides,
         m.heap[fs[j].node][s] # NULL, m.heap[m.heap[fs[j].node][s]][u] # NULL
  PROVE  Exact(m.heap, {m.heap[m.heap[fs[j].node][s]][u]})
<1> DEFINE h == m.heap
           r == m.root
           x == fs[j].node
           y == h[x][s]
           z == h[y][u]
           R == Reachable(h, r)
<1>1. /\ j \in Nat /\ T!Typed(h) /\ AvlRecords(h) /\ Tree(h, r) /\ x \in R
      /\ \A k \in 1 .. j - 1 : fs[k].node \notin Reachable(h, x)
  BY StandingIs
<1>2. Exact(h, R \ Frame(fs, j))
  BY DEF Standing, Pending
<1> HIDE DEF h, r
<1>3. y \in R /\ y \in Reachable(h, x) /\ y # x
  <2>1. h[x][s] # NULL
    BY DEF h
  <2> HIDE DEF x
  <2> QED
    BY <1>1, <2>1, Kin
<1>4. z \in R /\ z \in Reachable(h, y) /\ z # x
  <2>1. h[y][u] # NULL
    BY DEF h
  <2>2. h[x][s] # NULL
    BY DEF h
  <2> HIDE DEF x
  <2>3. z # x
    BY <1>1, <2>1, <2>2, Kin
  <2> HIDE DEF y
  <2> QED
    BY <1>1, <1>3, <2>1, <2>3, Kin
<1>5. z \in Reachable(h, x)
  <2> HIDE DEF x, y, z
  <2> QED
    BY <1>1, <1>3, <1>4, TreeReached
<1>6. \A k \in 1 .. j : fs[k].node # z
  <2> SUFFICES ASSUME NEW k \in 1 .. j, fs[k].node = z
               PROVE  FALSE
    OBVIOUS
  <2>1. k = j \/ k \in 1 .. j - 1
    BY <1>1
  <2> QED
    BY <1>1, <1>4, <1>5, <2>1
<1>7. z \in R \ Frame(fs, j)
  BY <1>4, <1>6 DEF Frame
<1>8. Exact(h, {z})
  BY <1>2, <1>7 DEF Exact
<1> QED
  BY <1>8 DEF h

(* avl_right_rotate, avl_left_rotate, and the first rotation of a double   *)
(* case.                                                                   *)
LEMMA RightRotateReturns ==
  ASSUME NEW m, NEW fs, NEW j, Standing(m, fs, j), m.heap[fs[j].node]["left"] # NULL
  PROVE  Settled(Avl!RightRotate(m, fs[j].node), fs, j - 1)
<1> DEFINE x == fs[j].node
           a == Avl!RightRotate(m, x)
<1>1. Memory(m) /\ AvlRecords(m.heap) /\ Tree(m.heap, m.root)
  BY DEF Standing, Pending
<1>2. x \in Reachable(m.heap, m.root) /\ "left" \in Sides
  BY StandingIs DEF Sides
<1>3. m.heap[m.heap[x]["left"]]["left"] # NULL =>
        Exact(m.heap, {m.heap[m.heap[x]["left"]]["left"]})
  BY <1>2, BelowExact
<1>4. m.heap[x]["left"] # NULL
  OBVIOUS
<1> HIDE DEF x
<1>5. a.ok = FALSE \/ Lifts(m, a, x, "left")
  BY <1>1, <1>2, <1>3, <1>4, RightRotateLifts
<1> HIDE DEF a
<1>6. Lifts(m, a, x, "left") => Returning(a, fs, j - 1)
  BY <1>2, <1>4, LiftedReturns DEF x
<1> QED
  BY <1>5, <1>6 DEF Settled, a, x

LEMMA LeftRotateReturns ==
  ASSUME NEW m, NEW fs, NEW j, Standing(m, fs, j)
  PROVE  Settled(Avl!LeftRotate(m, fs[j].node), fs, j - 1)
<1> DEFINE x == fs[j].node
           a == Avl!LeftRotate(m, x)
<1>1. Memory(m) /\ AvlRecords(m.heap) /\ Tree(m.heap, m.root)
  BY DEF Standing, Pending
<1>2. x \in Reachable(m.heap, m.root) /\ "right" \in Sides
  BY StandingIs DEF Sides
<1> HIDE DEF x
<1>3. a.ok = FALSE \/ (m.heap[x]["right"] # NULL /\ Lifts(m, a, x, "right"))
  BY <1>1, <1>2, LeftRotateLifts
<1> HIDE DEF a
<1>4. m.heap[x]["right"] # NULL /\ Lifts(m, a, x, "right") => Returning(a, fs, j - 1)
  BY <1>2, LiftedReturns DEF x
<1> QED
  BY <1>3, <1>4 DEF Settled, a, x

LEMMA RotateChildStands ==
  ASSUME NEW m, NEW fs, NEW j, Standing(m, fs, j), NEW side \in Sides,
         m.heap[fs[j].node][side] # NULL
  PROVE  LET c == Avl!RotateChild(m, fs[j].node, side)
         IN  c.ok = FALSE \/ (Standing(c, fs, j) /\ c.heap[fs[j].node][side] # NULL)
<1> DEFINE x == fs[j].node
           y == m.heap[x][side]
           a == Avl!LeftRotate(m, y)
           c == [a EXCEPT !.heap[x][side] = a.top]
           b == Avl!RotateChild(m, x, side)
<1>1. b = IF a.ok THEN c ELSE a
  BY DEF Avl!RotateChild
<1>2. Memory(m) /\ AvlRecords(m.heap) /\ Tree(m.heap, m.root) /\ "right" \in Sides
  BY DEF Standing, Pending, Sides
<1>3. y \in Reachable(m.heap, m.root)
  <2>1. x \in Reachable(m.heap, m.root)
    BY StandingIs
  <2>2. m.heap[x][side] # NULL
    OBVIOUS
  <2> HIDE DEF x
  <2> QED
    BY <1>2, <2>1, <2>2, Kin
<1> HIDE DEF y
<1>4. a.ok = FALSE \/ (m.heap[y]["right"] # NULL /\ Lifts(m, a, y, "right"))
  BY <1>2, <1>3, LeftRotateLifts
<1> HIDE DEF a
<1>5. ASSUME m.heap[y]["right"] # NULL, Lifts(m, a, y, "right")
      PROVE  Standing(c, fs, j) /\ c.heap[x][side] # NULL
  BY <1>2, <1>5, LiftedChild DEF y
<1>6. Lifts(m, a, y, "right") => a.ok = TRUE
  <2>1. ASSUME Lifts(m, a, y, "right") PROVE Memory(a)
    BY <2>1 DEF Lifts
  <2>2. ASSUME Memory(a) PROVE a.ok = TRUE
    BY <2>2, MemoryPut, Zenon
  <2> QED
    BY <2>1, <2>2
<1> HIDE DEF b, c
<1>7. b.ok = FALSE \/ (Standing(b, fs, j) /\ b.heap[x][side] # NULL)
  BY <1>1, <1>4, <1>5, <1>6
<1> QED
  BY <1>7 DEF b, x

(* So balancing fails or returns from the frame, whichever case is taken.  *)
LEMMA Rebalanced ==
  ASSUME NEW m, NEW fs, NEW j, Standing(m, fs, j), Exact(m.heap, {fs[j].node}),
         NEW outer, NEW inner, outer \cap inner = {}
  PROVE  Settled(Avl!Rebalance(m, fs[j].node, outer, inner), fs, j - 1)
<1> DEFINE h == m.heap
           x == fs[j].node
           i == j - 1
           bf == Avl!BalanceFactor(h, x)
           left == Avl!RotateChild(m, x, "left")
           right == Avl!RotateChild(m, x, "right")
           a == Avl!Rebalance(m, x, outer, inner)
<1>1. a = CASE bf > 1 /\ "left" \in outer -> Avl!RightRotate(m, x)
            [] bf < -1 /\ "right" \in outer -> Avl!LeftRotate(m, x)
            [] bf > 1 /\ "left" \in inner -> IF left.ok THEN Avl!RightRotate(left, x) ELSE left
            [] bf < -1 /\ "right" \in inner -> IF right.ok THEN Avl!LeftRotate(right, x) ELSE right
            [] OTHER -> [m EXCEPT !.top = x]
  BY DEF Avl!Rebalance
<1>2. "left" \in Sides /\ "right" \in Sides
  BY DEF Sides
<1>3. /\ bf \in Int
      /\ bf > 1 => h[x]["left"] # NULL
      /\ bf < -1 => h[x]["right"] # NULL
  <2>1. /\ x \in DOMAIN h /\ x # NULL /\ AvlRecords(h)
        /\ \A s \in Sides : h[x][s] \in DOMAIN h \cup {NULL}
    <3>1. T!Typed(h) /\ AvlRecords(h) /\ Tree(h, m.root) /\ x \in Reachable(h, m.root)
      BY StandingIs
    <3> HIDE DEF h, x
    <3> QED
      BY <3>1, TreeIs
  <2> HIDE DEF h, x
  <2>2. bf = Avl!Height(h, h[x]["left"]) - Avl!Height(h, h[x]["right"])
    BY <2>1 DEF Avl!BalanceFactor
  <2>3. \A s \in Sides : /\ Avl!Height(h, h[x][s]) \in Nat
                         /\ h[x][s] = NULL => Avl!Height(h, h[x][s]) = 0
    BY <2>1, HeightIs
  <2> HIDE DEF bf
  <2> QED
    BY <1>2, <2>2, <2>3
<1> HIDE DEF a, bf, left, right
<1>4. CASE bf > 1 /\ "left" \in outer
  <2>1. Settled(Avl!RightRotate(m, x), fs, i)
    BY <1>3, <1>4, RightRotateReturns
  <2>2. a = Avl!RightRotate(m, x)
    <3>1. ~(bf < -1) /\ "left" \notin inner
      BY <1>3, <1>4
    <3> QED
      BY <1>1, <1>4, <3>1
  <2> QED
    BY <2>1, <2>2 DEF a
<1>5. CASE bf < -1 /\ "right" \in outer
  <2>1. Settled(Avl!LeftRotate(m, x), fs, i)
    BY LeftRotateReturns
  <2>2. a = Avl!LeftRotate(m, x)
    <3>1. ~(bf > 1) /\ "right" \notin inner
      BY <1>3, <1>5
    <3> QED
      BY <1>1, <1>5, <3>1
  <2> QED
    BY <2>1, <2>2 DEF a
<1>6. CASE bf > 1 /\ "left" \in inner /\ "left" \notin outer
  <2>1. a = IF left.ok THEN Avl!RightRotate(left, x) ELSE left
    BY <1>1, <1>3, <1>6
  <2>2. left.ok = FALSE \/ (Standing(left, fs, j) /\ left.heap[x]["left"] # NULL)
    BY <1>2, <1>3, <1>6, RotateChildStands DEF left
  <2>3. CASE left.ok = FALSE
    BY <2>1, <2>3 DEF Settled, a
  <2>4. CASE left.ok # FALSE /\ Standing(left, fs, j) /\ left.heap[x]["left"] # NULL
    <3>1. Settled(Avl!RightRotate(left, x), fs, i)
      BY <2>4, RightRotateReturns
    <3>2. left.ok = TRUE
      <4>1. Memory(left)
        BY <2>4 DEF Standing
      <4> QED
        BY <4>1, MemoryPut, Zenon
    <3> QED
      BY <2>1, <3>1, <3>2 DEF a
  <2> QED
    BY <2>2, <2>3, <2>4
<1>7. CASE bf < -1 /\ "right" \in inner /\ "right" \notin outer
  <2>1. a = IF right.ok THEN Avl!LeftRotate(right, x) ELSE right
    BY <1>1, <1>3, <1>7
  <2>2. right.ok = FALSE \/ (Standing(right, fs, j) /\ right.heap[x]["right"] # NULL)
    BY <1>2, <1>3, <1>7, RotateChildStands DEF right
  <2>3. CASE right.ok = FALSE
    BY <2>1, <2>3 DEF Settled, a
  <2>4. CASE right.ok # FALSE /\ Standing(right, fs, j)
    <3>1. Settled(Avl!LeftRotate(right, x), fs, i)
      BY <2>4, LeftRotateReturns
    <3>2. right.ok = TRUE
      <4>1. Memory(right)
        BY <2>4 DEF Standing
      <4> QED
        BY <4>1, MemoryPut, Zenon
    <3> QED
      BY <2>1, <3>1, <3>2 DEF a
  <2> QED
    BY <2>2, <2>3, <2>4
<1>8. CASE /\ ~(bf > 1 /\ ("left" \in outer \/ "left" \in inner))
           /\ ~(bf < -1 /\ ("right" \in outer \/ "right" \in inner))
  <2>1. a = [m EXCEPT !.top = x]
    BY <1>1, <1>8
  <2>2. Returning([m EXCEPT !.top = x], fs, i)
    BY StandingReturns
  <2> QED
    BY <2>1, <2>2 DEF Settled, a
<1> QED
  BY <1>4, <1>5, <1>6, <1>7, <1>8

(* One frame returns.                                                      *)
BackOf(below, f, op, key) ==
  IF below.ok THEN Avl!Balance(Avl!Linked(below, f), f.node, op, key) ELSE below

(* The frame that returns i-th.                                            *)
FrameAt(fs, len, i) == fs[len + 1 - i]

(* f is the recursive function of Return, over its frames.                 *)
Back(m, fs, op, key, len, most, f) ==
  f = [i \in 0 .. most |->
         IF i = 0 THEN m ELSE BackOf(f[i - 1], FrameAt(fs, len, i), op, key)]

(* The function that Return computes has a value for every frame.          *)
LEMMA BackIs ==
  ASSUME NEW m, NEW fs, NEW op, NEW key, NEW len, NEW most \in Nat, NEW f,
         Back(m, fs, op, key, len, most, f)
  PROVE  /\ f[0] = m
         /\ \A i \in 0 .. most : i # 0 => f[i] = BackOf(f[i - 1], FrameAt(fs, len, i), op, key)
<1> DEFINE g == [i \in 0 .. most |->
                   IF i = 0 THEN m ELSE BackOf(f[i - 1], FrameAt(fs, len, i), op, key)]
<1>1. f = g
  BY Zenon DEF Back
<1>2. g[0] = m /\ \A i \in 0 .. most : i # 0 => g[i] = BackOf(f[i - 1], FrameAt(fs, len, i), op, key)
  OBVIOUS
<1> HIDE DEF g
<1> QED
  BY <1>1, <1>2

LEMMA IsBack ==
  ASSUME NEW m, NEW fs, NEW op, NEW key, NEW len, NEW most \in Nat, NEW f,
         f = [i \in 0 .. most |-> f[i]], f[0] = m,
         \A i \in 0 .. most : i # 0 => f[i] = BackOf(f[i - 1], FrameAt(fs, len, i), op, key)
  PROVE  Back(m, fs, op, key, len, most, f)
<1> DEFINE g == [i \in 0 .. most |->
                   IF i = 0 THEN m ELSE BackOf(f[i - 1], FrameAt(fs, len, i), op, key)]
<1>1. \A i \in 0 .. most : f[i] = g[i]
  OBVIOUS
<1>2. g = [i \in 0 .. most |-> g[i]]
  OBVIOUS
<1> HIDE DEF g
<1>3. f = g
  BY <1>1, <1>2, Zenon
<1> QED
  BY <1>3 DEF g, Back

LEMMA BackExists ==
  ASSUME NEW m, NEW fs, NEW op, NEW key, NEW len, NEW most \in Nat
  PROVE  \E f : Back(m, fs, op, key, len, most, f)
<1> DEFINE E == {k \in Nat : \E f : Back(m, fs, op, key, len, k, f)}
<1>1. 0 \in E
  <2> DEFINE f == [i \in 0 .. 0 |-> m]
  <2>1. f = [i \in 0 .. 0 |-> f[i]] /\ f[0] = m
    OBVIOUS
  <2>2. \A i \in 0 .. 0 : ~(i # 0)
    OBVIOUS
  <2> HIDE DEF f
  <2>3. Back(m, fs, op, key, len, 0, f)
    BY <2>1, <2>2, IsBack
  <2> QED
    BY <2>3
<1>2. ASSUME NEW k \in Nat, k \in E
      PROVE  k + 1 \in E
  <2>1. PICK f : Back(m, fs, op, key, len, k, f)
    BY <1>2
  <2> DEFINE g == [i \in 0 .. k + 1 |->
                     IF i = k + 1 THEN BackOf(f[k], FrameAt(fs, len, k + 1), op, key) ELSE f[i]]
  <2>2. /\ f[0] = m
        /\ \A i \in 0 .. k : i # 0 => f[i] = BackOf(f[i - 1], FrameAt(fs, len, i), op, key)
    BY <2>1, BackIs
  <2>3. g = [i \in 0 .. k + 1 |-> g[i]]
    OBVIOUS
  <2>4. /\ \A i \in 0 .. k : g[i] = f[i]
        /\ g[k + 1] = BackOf(f[k], FrameAt(fs, len, k + 1), op, key)
    OBVIOUS
  <2> HIDE DEF g
  <2>5. g[0] = m
    BY <2>2, <2>4
  <2>6. ASSUME NEW i \in 0 .. k + 1, i # 0
        PROVE  g[i] = BackOf(g[i - 1], FrameAt(fs, len, i), op, key)
    <3>1. i - 1 \in 0 .. k /\ g[i - 1] = f[i - 1]
      <4>1. i - 1 \in 0 .. k
        BY <2>6
      <4> QED
        BY <2>4, <4>1
    <3>2. CASE i = k + 1
      BY <2>4, <3>1, <3>2
    <3>3. CASE i # k + 1
      <4>1. i \in 0 .. k
        BY <3>3
      <4> QED
        BY <2>2, <2>4, <2>6, <3>1, <4>1
    <3> QED
      BY <3>2, <3>3
  <2>7. k + 1 \in Nat
    OBVIOUS
  <2> HIDE DEF E
  <2>8. Back(m, fs, op, key, len, k + 1, g)
    BY <2>3, <2>5, <2>6, <2>7, IsBack
  <2> QED
    BY <2>7, <2>8 DEF E
<1> HIDE DEF E
<1>3. most \in E
  BY <1>1, <1>2, Up
<1> QED
  BY <1>3 DEF E

LEMMA ReturnIsBack ==
  ASSUME NEW m, NEW fs, NEW op, NEW key
  PROVE  Avl!Return(m, fs, op, key) =
           (CHOOSE f : Back(m, fs, op, key, Len(fs), Len(fs), f))[Len(fs)]
BY DEF Avl!Return, Back, BackOf, FrameAt

(* Balancing after an insertion and after a deletion.                      *)
LEMMA BalanceCases ==
  ASSUME NEW m, NEW n, NEW op, NEW key
  PROVE  \E S, U : Avl!Balance(m, n, op, key) = Avl!Rebalance(m, n, S, U \ S)
<1> DEFINE other == {side \in Sides : /\ m.heap[n][side] # NULL
                                      /\ m.heap[m.heap[n][side]].data # key}
           outer == {side \in other : SideOf(key, m.heap[m.heap[n][side]].data) = side}
           Factor(side) == Avl!BalanceFactor(m.heap, m.heap[n][side])
           heavy == {side \in Sides :
                       IF side = "left" THEN Factor(side) >= 0 ELSE Factor(side) <= 0}
<1>1. Avl!DoBalance(m, n, key) = Avl!Rebalance(m, n, outer, other \ outer)
  BY AvlNames DEF Avl!DoBalance
<1>2. Avl!DoBalanceAfterDelete(m, n) = Avl!Rebalance(m, n, heavy, Sides \ heavy)
  BY AvlNames DEF Avl!DoBalanceAfterDelete
<1> HIDE DEF other, outer, heavy
<1>3. \/ Avl!Balance(m, n, op, key) = Avl!Rebalance(m, n, outer, other \ outer)
      \/ Avl!Balance(m, n, op, key) = Avl!Rebalance(m, n, heavy, Sides \ heavy)
  BY <1>1, <1>2 DEF Avl!Balance
<1> QED
  BY <1>3

(* Each frame that returns balances what it has linked.                    *)
LEMMA Balances ==
  ASSUME NEW m, NEW fs, NEW j, Standing(m, fs, j), Exact(m.heap, {fs[j].node}),
         NEW op, NEW key
  PROVE  Settled(Avl!Balance(m, fs[j].node, op, key), fs, j - 1)
<1> DEFINE x == fs[j].node
<1>1. PICK S, U : Avl!Balance(m, x, op, key) = Avl!Rebalance(m, x, S, U \ S)
  BY BalanceCases
<1>2. S \cap (U \ S) = {}
  OBVIOUS
<1>3. Settled(Avl!Rebalance(m, x, S, U \ S), fs, j - 1)
  BY <1>2, Rebalanced
<1> QED
  BY <1>1, <1>3

LEMMA BackSettles ==
  ASSUME NEW m, NEW fs, NEW j, Settled(m, fs, j), j # 0, NEW op, NEW key
  PROVE  Settled(BackOf(m, fs[j], op, key), fs, j - 1)
<1> DEFINE c == Avl!Linked(m, fs[j])
           a == Avl!Balance(c, fs[j].node, op, key)
<1>1. CASE m.ok = FALSE
  BY <1>1 DEF Settled, BackOf
<1>2. CASE Returning(m, fs, j)
  <2>1. Standing(c, fs, j) /\ Exact(c.heap, {fs[j].node})
    BY <1>2, LinkedStands
  <2>2. m.ok = TRUE
    <3>1. Memory(m)
      BY <1>2 DEF Returning
    <3> QED
      BY <3>1, MemoryPut, Zenon
  <2> HIDE DEF c
  <2>3. Settled(a, fs, j - 1)
    BY <2>1, Balances
  <2>4. BackOf(m, fs[j], op, key) = a
    BY <2>2 DEF BackOf, c
  <2> QED
    BY <2>3, <2>4
<1> QED
  BY <1>1, <1>2 DEF Settled

(* The whole call returns.                                                 *)
LEMMA ReturnSettles ==
  ASSUME NEW m, NEW fs, Len(fs) \in Nat, Settled(m, fs, Len(fs)), NEW op, NEW key
  PROVE  Settled(Avl!Return(m, fs, op, key), fs, 0)
<1> DEFINE len == Len(fs)
           f == CHOOSE f : Back(m, fs, op, key, len, len, f)
           E == {k \in Nat : k <= len => Settled(f[k], fs, len - k)}
<1>1. Avl!Return(m, fs, op, key) = f[len]
  BY ReturnIsBack
<1> HIDE DEF len
<1>2. Back(m, fs, op, key, len, len, f)
  <2>1. len \in Nat
    BY DEF len
  <2> QED
    BY <2>1, BackExists
<1> HIDE DEF f
<1>3. /\ f[0] = m
      /\ \A i \in 0 .. len : i # 0 => f[i] = BackOf(f[i - 1], FrameAt(fs, len, i), op, key)
  <2>1. len \in Nat
    BY DEF len
  <2> QED
    BY <1>2, <2>1, BackIs
<1>4. 0 \in E
  BY <1>3 DEF len
<1>5. ASSUME NEW k \in Nat, k \in E
      PROVE  k + 1 \in E
  <2>1. ASSUME k + 1 <= len
        PROVE  Settled(f[k + 1], fs, len - (k + 1))
    <3> DEFINE j == len - k
    <3>1. k <= len /\ j # 0 /\ j - 1 = len - (k + 1) /\ len + 1 - (k + 1) = j
          /\ k + 1 \in 0 .. len /\ (k + 1) - 1 = k /\ k + 1 # 0
      BY <2>1 DEF len
    <3>2. Settled(f[k], fs, j)
      BY <1>5, <3>1
    <3> HIDE DEF j
    <3>3. Settled(BackOf(f[k], fs[j], op, key), fs, j - 1)
      BY <3>1, <3>2, BackSettles
    <3>4. f[k + 1] = BackOf(f[k], fs[j], op, key)
      <4>1. FrameAt(fs, len, k + 1) = fs[j]
        BY <3>1 DEF FrameAt
      <4> QED
        BY <1>3, <3>1, <4>1
    <3> QED
      BY <3>1, <3>3, <3>4
  <2> QED
    BY <2>1
<1> HIDE DEF E
<1>6. len \in E
  BY <1>4, <1>5, Up DEF len
<1>7. Settled(f[len], fs, 0)
  <2>1. len <= len /\ len - len = 0
    BY DEF len
  <2> QED
    BY <1>6, <2>1 DEF E
<1> QED
  BY <1>1, <1>7

-----------------------------------------------------------------------------
(* Where a call starts to return.                                          *)

(* A tree between two calls.                                               *)
Whole(h, r) ==
  /\ AvlRecords(h) /\ Tree(h, r)
  /\ Exact(h, Reachable(h, r))
  /\ \A n \in DOMAIN h : h[n].height <= Cardinality(Nodes)

LEMMA WholeIs ==
  ASSUME NEW h, NEW r, Whole(h, r)
  PROVE  /\ AvlRecords(h) /\ Tree(h, r) /\ T!Typed(h)
         /\ Exact(h, Reachable(h, r))
         /\ \A n \in DOMAIN h : h[n].height <= Cardinality(Nodes)
BY AvlTyped DEF Whole

(* The heap g comes from h by changes at nodes of the frames and at nodes  *)
(* whose height is exact in g.                                             *)
LEMMA Starts ==
  ASSUME NEW h, NEW r, Whole(h, r), NEW fs, NEW j, Chain(h, r, fs, j),
         NEW g, NEW q, AvlRecords(g), Tree(g, q), j # 0 => q = r,
         \A n \in DOMAIN g : g[n].height <= Cardinality(Nodes),
         \A k \in 1 .. j : fs[k].node \in DOMAIN g,
         \A k \in 1 .. j - 1 : g[fs[k].node][fs[k].side] = h[fs[k].node][fs[k].side],
         \A n \in Reachable(g, q) \ Frame(fs, j) :
           \/ g[n].height = Rise(g, n)
           \/ /\ n \in Reachable(h, r)
              /\ \A s \in Sides :
                   /\ g[n][s] = h[n][s]
                   /\ h[n][s] # NULL /\ h[n][s] \notin Frame(fs, j) =>
                        g[h[n][s]].height = h[h[n][s]].height
              /\ g[n].height = h[n].height
  PROVE  Pending(g, q, fs, j)
<1>1. /\ AvlRecords(h) /\ Tree(h, r) /\ T!Typed(h) /\ Exact(h, Reachable(h, r)) /\ T!Typed(g)
  BY WholeIs, AvlTyped
<1>2. /\ j \in Nat /\ \A k \in 1 .. j : fs[k].node \in DOMAIN h /\ fs[k].side \in Sides
      /\ j > 0 => fs[1].node = r
      /\ \A k \in 1 .. j - 1 : h[fs[k].node][fs[k].side] = fs[k + 1].node
  BY DEF Chain
<1>3. Chain(g, q, fs, j)
  BY <1>2 DEF Chain
<1>4. ASSUME NEW n \in Reachable(h, r), n \notin Frame(fs, j), NEW s \in Sides, h[n][s] # NULL
      PROVE  h[n][s] \notin Frame(fs, j)
  <2> SUFFICES ASSUME NEW k \in 1 .. j, fs[k].node = h[n][s]
               PROVE  FALSE
    BY DEF Frame
  <2>1. k # 1
    <3>1. h[n][s] # r
      BY <1>1, <1>4, TreeIs
    <3> QED
      BY <1>2, <3>1
  <2>2. k - 1 \in 1 .. j /\ k - 1 \in 1 .. j - 1 /\ (k - 1) + 1 = k
    BY <1>2, <2>1
  <2> DEFINE p == fs[k - 1].node
             u == fs[k - 1].side
  <2>3. p \in Reachable(h, r) /\ u \in Sides /\ h[p][u] = h[n][s] /\ p \in Frame(fs, j)
    <3>1. \A l \in 1 .. j : fs[l].node \in Reachable(h, r)
      BY <1>1, ChainReached
    <3>2. h[p][u] = fs[(k - 1) + 1].node
      BY <1>2, <2>2
    <3>3. h[p][u] = h[n][s]
      BY <2>2, <3>2
    <3> QED
      BY <1>2, <2>2, <3>1, <3>3 DEF Frame
  <2> HIDE DEF p, u
  <2>4. n = p
    BY <1>1, <1>4, <2>3, TreeIs
  <2> QED
    BY <1>4, <2>3, <2>4
<1>5. Exact(g, Reachable(g, q) \ Frame(fs, j))
  <2> SUFFICES ASSUME NEW n \in Reachable(g, q) \ Frame(fs, j), g[n].height # Rise(g, n)
               PROVE  FALSE
    BY DEF Exact
  <2>1. /\ n \in Reachable(h, r) /\ g[n].height = h[n].height
        /\ \A s \in Sides :
             /\ g[n][s] = h[n][s]
             /\ h[n][s] # NULL /\ h[n][s] \notin Frame(fs, j) =>
                  g[h[n][s]].height = h[h[n][s]].height
    OBVIOUS
  <2>2. \A s \in Sides : h[n][s] # NULL => g[h[n][s]].height = h[h[n][s]].height
    BY <1>4, <2>1
  <2>3. Rise(g, n) = Rise(h, n)
    BY <2>1, <2>2, SameRise
  <2>4. h[n].height = Rise(h, n)
    BY <1>1, <2>1 DEF Exact
  <2> QED
    BY <2>1, <2>3, <2>4
<1>6. Low(g, q)
  BY DEF Low
<1> QED
  BY <1>3, <1>5, <1>6 DEF Pending

(* Between two calls no frame is pending.                                  *)
LEMMA WholePending ==
  ASSUME NEW h, NEW r, NEW fs
  PROVE  Whole(h, r) => Pending(h, r, fs, 0)
<1>1. Chain(h, r, fs, 0)
  BY DEF Chain
<1> QED
  BY <1>1 DEF Whole, Pending, Low, Exact

(* Two ways, one after the other.                                          *)
LEMMA ChainJoined ==
  ASSUME NEW h, NEW r, NEW S, NEW a \in Seq(S), NEW b \in Seq(S), NEW x,
         Chain(h, r, a, Len(a)), Chain(h, x, b, Len(b)),
         IF a = <<>> THEN x = r ELSE h[a[Len(a)].node][a[Len(a)].side] = x
  PROVE  /\ a \o b \in Seq(S) /\ Len(a \o b) = Len(a) + Len(b)
         /\ Chain(h, r, a \o b, Len(a) + Len(b))
         /\ \A k \in 1 .. Len(a) : (a \o b)[k] = a[k]
         /\ \A k \in 1 .. Len(b) : (a \o b)[Len(a) + k] = b[k]
<1> DEFINE c == a \o b
           m == Len(a)
           n == Len(b)
<1>1. /\ c \in Seq(S) /\ Len(c) = m + n /\ m \in Nat /\ n \in Nat
      /\ \A k \in 1 .. m : c[k] = a[k]
      /\ \A k \in 1 .. n : c[m + k] = b[k]
      /\ a = <<>> <=> m = 0
  OBVIOUS
<1> HIDE DEF c, m, n
<1>2. /\ \A k \in 1 .. m : a[k].node \in DOMAIN h /\ a[k].side \in Sides
      /\ m > 0 => a[1].node = r
      /\ \A k \in 1 .. m - 1 : h[a[k].node][a[k].side] = a[k + 1].node
  BY DEF Chain, m
<1>3. /\ \A k \in 1 .. n : b[k].node \in DOMAIN h /\ b[k].side \in Sides
      /\ n > 0 => b[1].node = x
      /\ \A k \in 1 .. n - 1 : h[b[k].node][b[k].side] = b[k + 1].node
  BY DEF Chain, n
<1>4. \A k \in 1 .. m + n : k \in 1 .. m \/ (k - m \in 1 .. n /\ m + (k - m) = k)
  BY <1>1
<1>5. \A k \in 1 .. m + n : c[k] = IF k \in 1 .. m THEN a[k] ELSE b[k - m]
  <2> TAKE k \in 1 .. m + n
  <2>1. CASE k \in 1 .. m
    BY <1>1, <2>1
  <2>2. CASE k \notin 1 .. m
    <3>1. k - m \in 1 .. n /\ m + (k - m) = k
      BY <1>4, <2>2
    <3>2. c[m + (k - m)] = b[k - m]
      BY <1>1, <3>1
    <3> QED
      BY <2>2, <3>1, <3>2
  <2> QED
    BY <2>1, <2>2
<1>6. \A k \in 1 .. m + n : c[k].node \in DOMAIN h /\ c[k].side \in Sides
  BY <1>2, <1>3, <1>4, <1>5
<1>7. ASSUME m + n > 0
      PROVE  c[1].node = r
  <2>1. 1 \in 1 .. m + n
    BY <1>1, <1>7
  <2>2. CASE m = 0
    <3>1. 1 \notin 1 .. m /\ n > 0 /\ 1 - m = 1
      BY <1>1, <1>7, <2>2
    <3> QED
      BY <1>1, <1>3, <1>5, <2>1, <2>2, <3>1
  <2>3. CASE m # 0
    <3>1. 1 \in 1 .. m /\ m > 0
      BY <1>1, <2>3
    <3> QED
      BY <1>2, <1>5, <2>1, <3>1
  <2> QED
    BY <2>2, <2>3
<1>8. ASSUME NEW k \in 1 .. m + n - 1
      PROVE  h[c[k].node][c[k].side] = c[k + 1].node
  <2>1. k \in 1 .. m + n /\ k + 1 \in 1 .. m + n
    BY <1>1
  <2>2. CASE k < m
    <3>1. k \in 1 .. m - 1 /\ k \in 1 .. m /\ k + 1 \in 1 .. m
      BY <1>1, <2>2
    <3> QED
      BY <1>2, <1>5, <2>1, <3>1
  <2>3. CASE k = m
    <3>1. k \in 1 .. m /\ k + 1 \notin 1 .. m /\ (k + 1) - m = 1 /\ n > 0 /\ m # 0
      BY <1>1, <2>3
    <3>2. c[k] = a[m] /\ c[k + 1] = b[1]
      BY <1>5, <2>1, <2>3, <3>1
    <3>3. h[a[m].node][a[m].side] = x
      BY <1>1, <3>1 DEF m
    <3> QED
      BY <1>3, <3>1, <3>2, <3>3
  <2>4. CASE k > m
    <3>1. k \notin 1 .. m /\ k + 1 \notin 1 .. m /\ (k + 1) - m = (k - m) + 1 /\ k - m \in 1 .. n - 1
      BY <1>1, <2>4
    <3>2. c[k] = b[k - m] /\ c[k + 1] = b[(k - m) + 1]
      BY <1>5, <2>1, <3>1
    <3> QED
      BY <1>3, <3>1, <3>2
  <2> QED
    BY <1>1, <2>2, <2>3, <2>4
<1>9. Chain(h, r, c, m + n)
  BY <1>1, <1>6, <1>7, <1>8 DEF Chain
<1> QED
  BY <1>1, <1>9 DEF c, m, n

(* A way of one frame, and the members of a sequence.                      *)
LEMMA ChainOfOne ==
  ASSUME NEW h, NEW n \in DOMAIN h, NEW s \in Sides
  PROVE  LET fs == <<[node |-> n, side |-> s]>>
         IN  /\ fs \in Seq([node : DOMAIN h, side : Sides]) /\ Len(fs) = 1
             /\ fs # <<>> /\ fs[1].node = n /\ fs[1].side = s
             /\ Chain(h, n, fs, 1)
<1> DEFINE f == [node |-> n, side |-> s]
           fs == <<f>>
<1>1. f \in [node : DOMAIN h, side : Sides] /\ f.node = n /\ f.side = s
  OBVIOUS
<1> HIDE DEF f
<1>2. /\ fs \in Seq([node : DOMAIN h, side : Sides]) /\ Len(fs) = 1 /\ fs # <<>>
      /\ fs[1] = f
  BY <1>1
<1>3. \A k \in 1 .. 1 : k = 1
  OBVIOUS
<1>4. \A k \in 1 .. 1 - 1 : FALSE
  OBVIOUS
<1> HIDE DEF fs
<1>5. Chain(h, n, fs, 1)
  BY <1>1, <1>2, <1>3, <1>4 DEF Chain
<1> QED
  BY <1>1, <1>2, <1>5 DEF f, fs

LEMMA SeqMembers ==
  ASSUME NEW S, NEW fs \in Seq(S)
  PROVE  \A k \in 1 .. Len(fs) : fs[k] \in S
OBVIOUS

(* What the search finds.                                                  *)
WayTo(h, r, key, way) ==
  LET fs == way.frames
      l == fs[Len(fs)]
      R == Reachable(h, r)
  IN  /\ fs \in Seq([node : DOMAIN h, side : Sides]) /\ Len(fs) \in Nat
      /\ Chain(h, r, fs, Len(fs))
      /\ way.end = IF fs = <<>> THEN r ELSE h[l.node][l.side]
      /\ way.end \in R \cup {NULL}
      /\ way.end # NULL => h[way.end].data = key
      /\ \A y \in R : h[y].data = key => y = way.end
      /\ fs # <<>> => /\ l.node \in R /\ l.side \in Sides
                      /\ T!Fits(h, r, key, l.node)
                      /\ h[l.node].data # key
                      /\ SideOf(key, h[l.node].data) = l.side

(* Descent finds the node with the key, or where it would be.              *)
LEMMA WayIs ==
  ASSUME NEW h, AvlRecords(h), NEW r, Tree(h, r), NEW key
  PROVE  WayTo(h, r, key, Descent(h, r, key))
<1> DEFINE way == Descent(h, r, key)
           fs == way.frames
           l == fs[Len(fs)]
           R == Reachable(h, r)
<1>1. T!Typed(h) /\ T!SearchTree(h, r) /\ r \in T!Links /\ R \subseteq DOMAIN h
  <2>1. T!Typed(h)
    BY AvlTyped
  <2>2. r \in DOMAIN h \cup {NULL} /\ R \subseteq DOMAIN h
    BY <2>1, TreeIs
  <2>3. r \in T!Links
    BY <2>2 DEF AvlRecords, T!Links
  <2> QED
    BY <2>1, <2>2, <2>3, SameTree DEF Tree
<1>2. T!Found(h, r, key, way)
  <2>1. T!Found(h, r, key, T!Descent(h, r, key))
    BY <1>1, SameAssumption, T!DescentFinds
  <2> QED
    BY <2>1, SameDescent
<1>3. way = Walk(h, r, fs) /\ T!Going(h, key, r, fs, Cardinality(DOMAIN h))
  <2>1. LET w == T!Descent(h, r, key)
        IN w = T!Walk(h, r, w.frames) /\ T!Going(h, key, r, w.frames, T!Cardinality(DOMAIN h))
    BY <1>1, SameAssumption, T!DescentGoes
  <2> QED
    BY <2>1, SameDescent, SameNames
<1> HIDE DEF way
<1>4. fs \in Seq([node : DOMAIN h, side : Sides]) /\ Len(fs) \in Nat
  BY <1>3, SameNames DEF T!Going
<1>5. Chain(h, r, fs, Len(fs))
  <2>1. \A k \in 1 .. Len(fs) : fs[k] \in [node : DOMAIN h, side : Sides]
    BY <1>4, SeqMembers
  <2>2. \A k \in 1 .. Len(fs) : fs[k].node \in DOMAIN h /\ fs[k].side \in Sides
    BY <2>1
  <2>3. Len(fs) > 0 => fs # <<>>
    BY <1>4
  <2> QED
    BY <1>3, <1>4, <2>2, <2>3 DEF T!Going, Chain
<1>6. way.end = IF fs = <<>> THEN r ELSE h[l.node][l.side]
  BY <1>3 DEF Walk
<1>7. T!LastFrame(way) = l /\ T!Reachable(h, r) = R
  BY SameReachable DEF T!LastFrame
<1> QED
  BY <1>2, <1>4, <1>5, <1>6, <1>7, SameNames DEF T!Found, WayTo, way

(* Only the frames that have not returned matter.                          *)
LEMMA SettledSame ==
  ASSUME NEW a, NEW fs, NEW gs, NEW j, j \in Nat, \A k \in 1 .. j : gs[k] = fs[k],
         Settled(a, fs, j)
  PROVE  Settled(a, gs, j)
<1>1. CASE a.ok = FALSE
  BY <1>1 DEF Settled
<1>2. CASE Returning(a, fs, j)
  <2> DEFINE h == Hung(a.heap, fs, j, a.top)
  <2>1. h = Hung(a.heap, gs, j, a.top)
    <3>1. j # 0 => j \in 1 .. j
      OBVIOUS
    <3> QED
      BY <3>1 DEF Hung
  <2>2. Memory(a) /\ Pending(h, a.root, fs, j)
    BY <1>2 DEF Returning
  <2> HIDE DEF h
  <2>3. Frame(fs, j) = Frame(gs, j)
    BY DEF Frame
  <2>4. Chain(h, a.root, gs, j)
    <3>1. Chain(h, a.root, fs, j)
      BY <2>2 DEF Pending
    <3>2. \A k \in 1 .. j - 1 : k \in 1 .. j /\ k + 1 \in 1 .. j
      OBVIOUS
    <3>3. j > 0 => 1 \in 1 .. j
      OBVIOUS
    <3> QED
      BY <3>1, <3>2, <3>3 DEF Chain
  <2>5. Pending(h, a.root, gs, j)
    BY <2>2, <2>3, <2>4 DEF Pending
  <2> QED
    BY <2>1, <2>2, <2>5 DEF Settled, Returning, h
<1> QED
  BY <1>1, <1>2 DEF Settled

(* A record of the four fields is the memory of a call.                    *)
LEMMA MemoryOf ==
  ASSUME NEW h, NEW r, NEW t
  PROVE  LET m == [heap |-> h, root |-> r, top |-> t, ok |-> TRUE]
         IN  Memory(m) /\ m.heap = h /\ m.root = r /\ m.top = t
BY DEF Memory

(* What storing a link changes.                                            *)
LinkPut(h, g, p, u, v) ==
  /\ AvlRecords(g) /\ DOMAIN g = DOMAIN h
  /\ \A n \in DOMAIN h \ {p} : g[n] = h[n]
  /\ g[p].data = h[p].data /\ g[p].height = h[p].height
  /\ \A s \in Sides : g[p][s] = IF s = u THEN v ELSE h[p][s]

LEMMA LinkPutIs ==
  ASSUME NEW h, AvlRecords(h), NEW p \in DOMAIN h, NEW u \in Sides, NEW v \in Links
  PROVE  LinkPut(h, StoredLink(h, p, u, v), p, u, v)
<1> DEFINE g == StoredLink(h, p, u, v)
<1>1. /\ AvlRecords(g) /\ DOMAIN g = DOMAIN h
      /\ \A n \in DOMAIN h \ {p} : g[n] = h[n]
      /\ g[p].data = h[p].data /\ g[p].height = h[p].height
      /\ \A s \in Sides : g[p][s] = IF s = u THEN v ELSE h[p][s]
  BY StoredLinkIs
<1> HIDE DEF g
<1>2. LinkPut(h, g, p, u, v)
  BY <1>1 DEF LinkPut
<1> QED
  BY <1>2 DEF g

(* The last frame of the way to n.                                         *)
LEMMA LastLink ==
  ASSUME NEW h, AvlRecords(h), NEW r, Tree(h, r), NEW fs, NEW j, Chain(h, r, fs, j), j # 0
  PROVE  LET p == fs[j].node
             u == fs[j].side
         IN  /\ j \in Nat /\ j \in 1 .. j /\ p \in Reachable(h, r) /\ u \in Sides /\ p \in DOMAIN h
             /\ p \in Frame(fs, j) /\ h[p][u] \in Reachable(h, r) \cup {NULL}
             /\ \A k \in 1 .. j - 1 : fs[k].node # p
<1> DEFINE p == fs[j].node
           u == fs[j].side
<1>1. j \in Nat /\ j \in 1 .. j
  BY DEF Chain
<1>2. T!Typed(h)
  BY AvlTyped
<1>3. p \in DOMAIN h /\ u \in Sides
  BY <1>1 DEF Chain
<1>4. p \in Reachable(h, r)
  BY <1>1, <1>2, ChainReached
<1>5. \A k \in 1 .. j - 1 : k \in 1 .. j /\ k < j
  BY <1>1
<1>6. \A k \in 1 .. j - 1 : fs[k].node # p
  BY <1>1, <1>2, <1>5, ChainBelow
<1>7. p \in Frame(fs, j)
  BY <1>1 DEF Frame
<1> HIDE DEF p, u
<1>8. h[p][u] \in Reachable(h, r) \cup {NULL}
  BY <1>2, <1>3, <1>4, TreeIs
<1> QED
  BY <1>1, <1>3, <1>4, <1>6, <1>7, <1>8 DEF p, u

(* The frame stores NULL: what was below is lost.                          *)
LEMMA NullReturns ==
  ASSUME NEW h, NEW r, Whole(h, r), NEW fs, NEW j, Chain(h, r, fs, j)
  PROVE  Returning([heap |-> h, root |-> r, top |-> NULL, ok |-> TRUE], fs, j)
<1> DEFINE m == [heap |-> h, root |-> r, top |-> NULL, ok |-> TRUE]
           g == Hung(h, fs, j, NULL)
           p == fs[j].node
           u == fs[j].side
           R == Reachable(h, r)
<1>1. Memory(m) /\ m.heap = h /\ m.root = r /\ m.top = NULL
  BY MemoryOf
<1>2. /\ AvlRecords(h) /\ Tree(h, r) /\ T!Typed(h)
      /\ \A n \in DOMAIN h : h[n].height <= Cardinality(Nodes)
  BY WholeIs
<1>3. CASE j = 0
  <2>1. Pending(h, r, fs, 0)
    BY WholePending
  <2> QED
    BY <1>1, <1>3, <2>1 DEF Returning, Hung
<1>4. CASE j # 0
  <2>1. /\ j \in Nat /\ j \in 1 .. j /\ p \in R /\ u \in Sides /\ p \in DOMAIN h
        /\ p \in Frame(fs, j)
        /\ \A k \in 1 .. j - 1 : fs[k].node # p
    BY <1>2, <1>4, LastLink
  <2>2. g = StoredLink(h, p, u, NULL)
    BY <1>4 DEF Hung
  <2> HIDE DEF p, u, g
  <2>3. /\ AvlRecords(g) /\ DOMAIN g = DOMAIN h
        /\ \A n \in DOMAIN h \ {p} : g[n] = h[n]
        /\ g[p].data = h[p].data /\ g[p].height = h[p].height
        /\ \A s \in Sides : g[p][s] = IF s = u THEN NULL ELSE h[p][s]
    <3>1. NULL \in Links
      BY DEF Links
    <3>2. LinkPut(h, g, p, u, NULL)
      BY <1>2, <2>1, <2>2, <3>1, LinkPutIs
    <3> QED
      BY <3>2 DEF LinkPut
  <2>4. T!Typed(g)
    BY <2>3, AvlTyped
  <2>5. /\ R \subseteq DOMAIN h /\ r \in DOMAIN g
        /\ \A n \in R, s \in Sides : h[n][s] \in R \cup {NULL}
    <3>1. /\ R \subseteq DOMAIN h /\ r \in R \cup {NULL} /\ NULL \notin DOMAIN h
          /\ \A n \in R, s \in Sides : h[n][s] \in R \cup {NULL}
      BY <1>2, TreeIs
    <3>2. r # NULL
      BY <1>2, <2>1, <3>1, TreeReached
    <3> QED
      BY <2>3, <3>1, <3>2
  <2>6. Cut(h, g, r)
    BY <2>3, <2>5 DEF Cut
  <2>7. CutOrder(h, g, r)
    <3>1. \A n \in DOMAIN h : g[n].data = h[n].data
      BY <2>3
    <3>2. ASSUME NEW n \in R \cap DOMAIN g, NEW s \in Sides, g[n][s] # NULL,
                 NEW y \in Reachable(h, h[n][s]) \cap DOMAIN g
          PROVE  g[y].data # g[n].data /\ SideOf(g[y].data, g[n].data) = s
      <4>1. h[y].data # h[n].data /\ SideOf(h[y].data, h[n].data) = s
        BY <1>2, <3>2, TreeIs
      <4> QED
        BY <2>3, <3>1, <3>2, <4>1
    <3> QED
      BY <3>2 DEF CutOrder
  <2>8. Tree(g, r) /\ Reachable(g, r) \subseteq R
    BY <1>2, <2>4, <2>5, <2>6, <2>7, CutTree
  <2>9. \A n \in DOMAIN g : g[n].height = h[n].height /\ g[n].height <= Cardinality(Nodes)
    BY <1>2, <2>3
  <2>10. \A k \in 1 .. j : fs[k].node \in DOMAIN g /\ fs[k].side \in Sides
    BY <2>3 DEF Chain
  <2>11. \A k \in 1 .. j - 1 : g[fs[k].node][fs[k].side] = h[fs[k].node][fs[k].side]
    <3> TAKE k \in 1 .. j - 1
    <3>1. k \in 1 .. j
      BY <2>1
    <3> QED
      BY <2>1, <2>3, <2>10, <3>1
  <2>12. \A n \in Reachable(g, r) \ Frame(fs, j) :
           /\ n \in R
           /\ \A s \in Sides :
                /\ g[n][s] = h[n][s]
                /\ h[n][s] # NULL /\ h[n][s] \notin Frame(fs, j) =>
                     g[h[n][s]].height = h[h[n][s]].height
           /\ g[n].height = h[n].height
    BY <2>1, <2>3, <2>5, <2>8, <2>9
  <2>13. Pending(g, r, fs, j)
    BY <2>3, <2>8, <2>9, <2>10, <2>11, <2>12, Starts
  <2> QED
    BY <1>1, <2>13 DEF Returning, g
<1> QED
  BY <1>3, <1>4

(* A new node hangs where the search for its key ended.                    *)
LEMMA NewNodeReturns ==
  ASSUME NEW h, NEW r, Whole(h, r), NEW key \in Keys, Descent(h, r, key).end = NULL,
         NEW n \in Nodes \ DOMAIN h, NEW h1,
         h1 = [a \in DOMAIN h \cup {n} |-> IF a = n THEN Avl!NewNode(key) ELSE h[a]]
  PROVE  LET fs == Descent(h, r, key).frames
         IN  Returning([heap |-> h1, root |-> IF r = NULL THEN n ELSE r, top |-> n, ok |-> TRUE],
                       fs, Len(fs))
<1> DEFINE way == Descent(h, r, key)
           fs == way.frames
           j == Len(fs)
           q == IF r = NULL THEN n ELSE r
           m == [heap |-> h1, root |-> q, top |-> n, ok |-> TRUE]
           g == Hung(h1, fs, j, n)
           p == fs[j].node
           u == fs[j].side
           R == Reachable(h, r)
           new == Avl!NewNode(key)
<1>1. Memory(m) /\ m.heap = h1 /\ m.root = q /\ m.top = n
  BY MemoryOf
<1>2. /\ AvlRecords(h) /\ Tree(h, r) /\ T!Typed(h)
      /\ \A k \in DOMAIN h : h[k].height <= Cardinality(Nodes)
  BY WholeIs
<1>3. /\ Chain(h, r, fs, j) /\ j \in Nat
      /\ NULL = IF fs = <<>> THEN r ELSE h[p][u]
      /\ fs # <<>> => /\ T!Fits(h, r, key, p)
                      /\ h[p].data # key
                      /\ SideOf(key, h[p].data) = u
      /\ fs = <<>> <=> j = 0
  <2> DEFINE S == [node : DOMAIN h, side : Sides]
  <2>1. /\ fs \in Seq(S) /\ Chain(h, r, fs, j)
        /\ way.end = IF fs = <<>> THEN r ELSE h[p][u]
        /\ fs # <<>> => /\ T!Fits(h, r, key, p)
                        /\ h[p].data # key
                        /\ SideOf(key, h[p].data) = u
    <3>1. WayTo(h, r, key, way)
      BY <1>2, WayIs
    <3> HIDE DEF way
    <3> QED
      BY <3>1 DEF WayTo
  <2>2. way.end = NULL
    OBVIOUS
  <2> HIDE DEF way, fs, S
  <2>3. (fs = <<>> <=> j = 0) /\ j \in Nat
    BY <2>1
  <2> QED
    BY <2>1, <2>2, <2>3
<1>4. new \in AvlNodes /\ new.data = key /\ new.height = 1 /\ \A s \in Sides : new[s] = NULL
  BY DEF Avl!NewNode, Avl!AVL_MIN_HEIGHT, AvlNodes, Links, Sides
<1>5. n \in Nodes /\ n \notin DOMAIN h /\ n # NULL /\ 1 <= Cardinality(Nodes)
  <2>1. IsFiniteSet(Nodes) /\ NULL \notin Nodes
    BY BinaryTreeAssumption
  <2>2. Cardinality(Nodes) # 0 /\ Cardinality(Nodes) \in Nat
    BY <2>1, FS_EmptySet, FS_CardinalityType
  <2> QED
    BY <2>1, <2>2
<1> HIDE DEF new
<1>6. /\ AvlRecords(h1) /\ DOMAIN h1 = DOMAIN h \cup {n} /\ h1[n] = new
      /\ \A k \in DOMAIN h : h1[k] = h[k]
  <2>1. /\ DOMAIN h1 = DOMAIN h \cup {n} /\ h1[n] = new
        /\ \A k \in DOMAIN h : h1[k] = h[k]
    BY <1>5 DEF new
  <2> QED
    BY <1>2, <1>4, <1>5, <2>1 DEF AvlRecords
<1> HIDE DEF way, fs
<1>7. CASE j = 0
  <2>1. g = h1 /\ r = NULL /\ q = n
    BY <1>3, <1>7 DEF Hung
  <2>2. T!Typed(h1) /\ n \in DOMAIN h1 /\ \A s \in T!Sides : h1[n][s] = NULL
    BY <1>4, <1>6, AvlTyped, SameNames
  <2>3. Tree(h1, n) /\ Reachable(h1, n) = {n}
    BY <2>2, SameAssumption, SameTree, SameReachable, T!FirstNode DEF Tree
  <2>4. Chain(h1, n, fs, 0)
    BY DEF Chain
  <2>5. Exact(h1, {n})
    BY <1>4, <1>6 DEF Exact, Rise, Avl!Height, Avl!Greater, Sides
  <2>6. Low(h1, n)
    BY <1>2, <1>6, <2>3 DEF Low
  <2>7. Pending(h1, n, fs, 0)
    BY <1>6, <2>3, <2>4, <2>5, <2>6 DEF Pending, Exact
  <2> QED
    BY <1>1, <1>7, <2>1, <2>7 DEF Returning, fs, way
<1>8. CASE j # 0
  <2>0. fs # <<>>
    BY <1>3, <1>8
  <2>1. /\ j \in Nat /\ j \in 1 .. j /\ p \in R /\ u \in Sides /\ p \in DOMAIN h
        /\ p \in Frame(fs, j)
        /\ \A k \in 1 .. j - 1 : fs[k].node # p
    BY <1>2, <1>3, <1>8, LastLink
  <2>2. g = StoredLink(h1, p, u, n) /\ h[p][u] = NULL
    BY <1>3, <1>8, <2>0 DEF Hung
  <2>3. q = r /\ r \in DOMAIN h
    <3>1. r \in R \cup {NULL} /\ NULL \notin DOMAIN h /\ R \subseteq DOMAIN h
      BY <1>2, TreeIs
    <3>2. r # NULL
      BY <1>2, <2>1, <3>1, TreeReached
    <3> QED
      BY <3>1, <3>2
  <2> HIDE DEF p, u, g, q, j
  <2>4. /\ AvlRecords(g) /\ DOMAIN g = DOMAIN h \cup {n}
        /\ \A k \in DOMAIN h \ {p} : g[k] = h[k]
        /\ g[n] = new
        /\ g[p].data = h[p].data /\ g[p].height = h[p].height
        /\ \A s \in Sides : g[p][s] = IF s = u THEN n ELSE h[p][s]
    <3>1. n \in Links /\ p \in DOMAIN h1 /\ p # n
      BY <1>5, <1>6, <2>1 DEF Links
    <3>3. AvlRecords(h1) /\ u \in Sides
      BY <1>6, <2>1
    <3>4. LinkPut(h1, g, p, u, n)
      BY <2>2, <3>1, <3>3, LinkPutIs
    <3> QED
      BY <1>6, <2>1, <3>1, <3>4 DEF LinkPut
  <2>5. T!Typed(g)
    BY <2>4, AvlTyped
  <2>6. T!LeafAdded(h, g, n, p, u)
    BY <1>4, <2>2, <2>4, SameNames DEF T!LeafAdded
  <2>7. /\ g[n].data # h[p].data /\ T!SideOf(g[n].data, h[p].data) = u
        /\ T!Fits(h, r, g[n].data, p)
    BY <1>3, <1>4, <2>0, <2>4, SameNames DEF p, u, j
  <2>8. Tree(g, r) /\ Reachable(g, r) = R \cup {n}
    <3>1. T!SearchTree(h, r) /\ p \in T!Reachable(h, r) /\ u \in T!Sides
      BY <1>2, <2>1, SameTree, SameReachable, SameNames DEF Tree
    <3>2. T!SearchTree(g, r) /\ T!Reachable(g, r) = T!Reachable(h, r) \cup {n}
      BY <1>2, <2>2, <2>5, <2>6, <2>7, <3>1, SameAssumption, T!LeafKeepsTree
    <3> QED
      BY <3>2, SameTree, SameReachable DEF Tree
  <2>9. /\ \A k \in DOMAIN g : g[k].height <= Cardinality(Nodes)
        /\ \A k \in DOMAIN h : g[k].height = h[k].height
    BY <1>2, <1>4, <1>5, <2>4
  <2>10. \A k \in 1 .. j : fs[k].node \in DOMAIN g /\ fs[k].node \in DOMAIN h /\ fs[k].side \in Sides
    BY <1>3, <2>4 DEF Chain
  <2>11. \A k \in 1 .. j - 1 : g[fs[k].node][fs[k].side] = h[fs[k].node][fs[k].side]
    <3> TAKE k \in 1 .. j - 1
    <3>1. k \in 1 .. j
      BY <2>1
    <3> QED
      BY <2>1, <2>4, <2>10, <3>1
  <2>12. \A k \in Reachable(g, r) \ Frame(fs, j) :
           \/ g[k].height = Rise(g, k)
           \/ /\ k \in R
              /\ \A s \in Sides :
                   /\ g[k][s] = h[k][s]
                   /\ h[k][s] # NULL /\ h[k][s] \notin Frame(fs, j) =>
                        g[h[k][s]].height = h[h[k][s]].height
              /\ g[k].height = h[k].height
    <3> TAKE k \in Reachable(g, r) \ Frame(fs, j)
    <3>1. CASE k = n
      <4>1. g[k].height = Rise(g, k)
        BY <1>4, <2>4, <3>1 DEF Rise, Avl!Height, Avl!Greater, Sides
      <4> QED
        BY <4>1
    <3>2. CASE k # n
      <4>1. k \in R /\ k # p /\ k \in DOMAIN h
        BY <1>2, <2>1, <2>8, <3>2, TreeReached
      <4>2. \A s \in Sides : h[k][s] \in DOMAIN h \cup {NULL}
        BY <1>2, <4>1, TreeIs
      <4> QED
        BY <2>4, <2>9, <4>1, <4>2
    <3> QED
      BY <3>1, <3>2
  <2>13. Pending(g, r, fs, j)
    BY <1>3, <2>4, <2>8, <2>9, <2>10, <2>11, <2>12, Starts
  <2>14. Returning(m, fs, j)
    <3> HIDE DEF m
    <3> QED
      BY <1>1, <2>3, <2>13 DEF Returning, g
  <2> QED
    BY <2>14 DEF fs, way, j, q
<1> QED
  BY <1>7, <1>8

(* Deletion at the node t.  Where t has the successor of n, k is h with    *)
(* the data of t copied to n.                                              *)
Doubled(h, r, k, n, t) ==
  /\ AvlRecords(k) /\ DOMAIN k = DOMAIN h
  /\ \A m \in DOMAIN h :
       /\ k[m].height = h[m].height
       /\ \A s \in Sides : k[m][s] = h[m][s]
       /\ k[m].data = IF m = n THEN h[t].data ELSE h[m].data
  /\ n \in Reachable(h, r) =>
       /\ t \in Reachable(h, h[n]["right"])
       /\ \A y \in Reachable(h, h[n]["right"]) \ {t} : h[t].data < h[y].data

(* In g the data of c is at t, and that of t at n.                         *)
Shifted(h, r, g, n, t, c) ==
  /\ \A m \in Reachable(h, r) \cap DOMAIN g :
       g[m].data = IF m = t THEN h[c].data ELSE IF m = n THEN h[t].data ELSE h[m].data
  /\ t \in DOMAIN g => c # t /\ \A s \in Sides : g[t][s] = NULL

(* The order of the data after a deletion.                                 *)
LEMMA ShiftedOrder ==
  ASSUME NEW h, AvlRecords(h), NEW r, Tree(h, r), NEW t \in Reachable(h, r),
         NEW c \in Reachable(h, t), NEW n, NEW k, Doubled(h, r, k, n, t),
         NEW g, Shifted(h, r, g, n, t, c)
  PROVE  CutOrder(h, g, r)
<1> DEFINE R == Reachable(h, r)
           From(m) == IF m = t THEN c ELSE IF m = n THEN t ELSE m
<1>1. T!Typed(h)
  BY AvlTyped
<1>2. ASSUME NEW m \in R \cap DOMAIN g, NEW s \in Sides, g[m][s] # NULL,
             NEW y \in Reachable(h, h[m][s]) \cap DOMAIN g
      PROVE  g[y].data # g[m].data /\ SideOf(g[y].data, g[m].data) = s
  <2>1. m # t
    BY <1>2 DEF Shifted
  <2>2. y \in R /\ Reachable(h, y) \subseteq Reachable(h, h[m][s])
    BY <1>1, <1>2, TreeReached
  <2>3. g[y].data = h[From(y)].data
    BY <1>2, <2>2 DEF Shifted
  <2>4. n \in R => t \in Reachable(h, n)
    <3>1. "right" \in Sides
      BY DEF Sides
    <3>2. ASSUME n \in R PROVE Reachable(h, h[n]["right"]) \subseteq Reachable(h, n)
      <4>1. n \in Reachable(h, n)
        BY <1>1, <3>2, TreeReached
      <4> QED
        BY <1>1, <3>1, <4>1, TreeReached
    <3> QED
      BY <3>2 DEF Doubled
  <2>5. From(y) \in Reachable(h, y)
    <3>1. y \in Reachable(h, y)
      BY <1>1, <2>2, TreeReached
    <3> QED
      BY <2>2, <2>4, <3>1
  <2>6. From(y) \in Reachable(h, h[m][s])
    BY <2>2, <2>5
  <2> HIDE DEF From
  <2>7. h[From(y)].data # h[m].data /\ SideOf(h[From(y)].data, h[m].data) = s
    BY <1>1, <1>2, <2>6, TreeIs
  <2>8. CASE m # n
    BY <1>2, <2>1, <2>3, <2>7, <2>8 DEF Shifted
  <2>9. CASE m = n
    <3>1. g[m].data = h[t].data
      BY <1>2, <2>1, <2>9 DEF Shifted
    <3>2. y # n
      BY <1>1, <1>2, <2>9, TreeIs
    <3>3. From(y) # t
      BY <1>2, <3>2 DEF From, Shifted
    <3>4. /\ "right" \in Sides
          /\ h[t].data # h[m].data /\ SideOf(h[t].data, h[m].data) = "right"
      <4>1. "right" \in Sides /\ t \in Reachable(h, h[m]["right"])
        BY <1>2, <2>9 DEF Doubled, Sides
      <4> QED
        BY <1>1, <1>2, <4>1, TreeIs
    <3>5. h[From(y)].data \in Int /\ h[m].data \in Int /\ h[t].data \in Int
      <4>1. From(y) \in DOMAIN h /\ m \in DOMAIN h /\ t \in DOMAIN h
        BY <1>1, <1>2, <2>2, <2>5, TreeReached
      <4> QED
        BY <4>1, AvlFields
    <3>6. CASE s = "right"
      <4>1. h[t].data < h[From(y)].data
        BY <1>2, <2>6, <2>9, <3>3, <3>6 DEF Doubled
      <4> QED
        BY <2>3, <3>1, <3>5, <3>6, <4>1 DEF SideOf
    <3>7. CASE s = "left"
      <4>1. h[From(y)].data < h[m].data /\ h[m].data < h[t].data
        BY <2>7, <3>4, <3>5, <3>7 DEF SideOf
      <4> QED
        BY <2>3, <3>1, <3>5, <3>7, <4>1 DEF SideOf
    <3> QED
      BY <3>6, <3>7 DEF Sides
  <2> QED
    BY <2>8, <2>9
<1> QED
  BY <1>2 DEF CutOrder

(* The frames of the way to t, which is that of frame j + 1.               *)
WayAbove(h, r, fs, j, t) ==
  /\ j \in Nat /\ Chain(h, r, fs, j) /\ t \in Reachable(h, r) /\ t \in DOMAIN h
  /\ \A k \in 1 .. j : /\ fs[k].node \in Reachable(h, r) /\ fs[k].node \in DOMAIN h
                       /\ fs[k].node \notin Reachable(h, t) /\ fs[k].side \in Sides
  /\ Frame(fs, j) \subseteq Reachable(h, r) /\ Frame(fs, j) \cap Reachable(h, t) = {}
  /\ j = 0 => t = r
  /\ j # 0 => /\ t # r /\ r \in DOMAIN h
              /\ h[fs[j].node][fs[j].side] = t
              /\ j \in 1 .. j /\ fs[j].node \in Frame(fs, j)
              /\ \A k \in 1 .. j - 1 : fs[k].node # fs[j].node
              /\ \A m \in Reachable(h, r), s \in Sides :
                   h[m][s] = t => m = fs[j].node /\ s = fs[j].side

(* A node that a way leads to, and the frames above it.                    *)
LEMMA OnTheWay ==
  ASSUME NEW h, AvlRecords(h), NEW r, Tree(h, r), NEW fs, NEW j \in Nat, Chain(h, r, fs, j + 1)
  PROVE  WayAbove(h, r, fs, j, fs[j + 1].node)
<1> DEFINE t == fs[j + 1].node
           R == Reachable(h, r)
<1>1. T!Typed(h) /\ j + 1 \in 1 .. j + 1
  BY AvlTyped
<1>2. \A k \in 1 .. j + 1 : /\ fs[k].node \in DOMAIN h /\ fs[k].side \in Sides
                            /\ fs[k].node \in R
  BY <1>1, ChainReached DEF Chain
<1>3. \A k \in 1 .. j : k \in 1 .. j + 1 /\ k < j + 1
  OBVIOUS
<1>4. \A k \in 1 .. j : fs[k].node \notin Reachable(h, t)
  BY <1>1, <1>3, ChainBelow
<1>5. Chain(h, r, fs, j)
  <2>1. \A k \in 1 .. j - 1 : k \in 1 .. (j + 1) - 1
    OBVIOUS
  <2> QED
    BY <1>3, <2>1 DEF Chain
<1>6. j = 0 => t = r
  BY DEF Chain
<1>7. ASSUME j # 0
      PROVE  /\ h[fs[j].node][fs[j].side] = t /\ t # r /\ r \in DOMAIN h
             /\ j \in 1 .. j /\ fs[j].node \in Frame(fs, j)
             /\ \A k \in 1 .. j - 1 : fs[k].node # fs[j].node
             /\ \A m \in R, s \in Sides : h[m][s] = t => m = fs[j].node /\ s = fs[j].side
  <2>1. /\ j \in 1 .. j /\ j \in 1 .. (j + 1) - 1 /\ j \in 1 .. j + 1
    BY <1>7
  <2>2. h[fs[j].node][fs[j].side] = t
    BY <2>1 DEF Chain
  <2> DEFINE p == fs[j].node
             u == fs[j].side
  <2>3. p \in R /\ u \in Sides /\ t \in DOMAIN h /\ p \in Frame(fs, j)
    BY <1>1, <1>2, <2>1 DEF Frame
  <2>4. \A k \in 1 .. j - 1 : fs[k].node # p
    BY <1>5, <1>7, LastLink
  <2> HIDE DEF p, u, t
  <2>5. NULL \notin DOMAIN h /\ R \subseteq DOMAIN h /\ r \in R \cup {NULL} /\ t # r
        /\ \A m \in R, s \in Sides : h[m][s] = t => m = p /\ s = u
    <3>1. h[p][u] = t /\ t # NULL
      BY <1>1, <2>2, <2>3, TreeIs DEF p, u
    <3> QED
      BY <1>1, <2>3, <3>1, TreeIs
  <2>6. r \in DOMAIN h
    BY <1>1, <2>3, <2>5, TreeReached
  <2> QED
    BY <2>1, <2>2, <2>3, <2>4, <2>5, <2>6 DEF p, u
<1>8. Frame(fs, j) \subseteq R /\ Frame(fs, j) \cap Reachable(h, t) = {}
  BY <1>2, <1>3, <1>4 DEF Frame
<1>9. t \in R /\ t \in DOMAIN h
  BY <1>1, <1>2
<1> HIDE DEF t
<1>10. WayAbove(h, r, fs, j, t)
  BY <1>2, <1>3, <1>4, <1>5, <1>6, <1>7, <1>8, <1>9 DEF WayAbove
<1> QED
  BY <1>10 DEF t

(* The tree without a node.                                                *)
LEMMA EmptyTree ==
  ASSUME NEW h, AvlRecords(h)
  PROVE  Tree(h, NULL) /\ Reachable(h, NULL) = {}
<1>1. T!Typed(h) /\ NULL \notin DOMAIN h
  BY AvlTyped, BinaryTreeAssumption DEF AvlRecords
<1>2. Reachable(h, NULL) = {}
  BY <1>1, TreeReached
<1>3. T!Treelike(h, NULL)
  BY <1>2, SameReachable DEF T!Treelike
<1>4. T!IsTree(h, NULL)
  BY <1>1, <1>3, SameAssumption, T!TreeLinks
<1>5. T!InSearchOrder(h, NULL)
  BY <1>2, SameReachable DEF T!InSearchOrder
<1> QED
  BY <1>2, <1>4, <1>5, SameTree DEF Tree, T!SearchTree

(* A node freed.                                                           *)
Dropped(h, n) == [x \in DOMAIN h \ {n} |-> h[x]]

WithoutNode(h, g, n) ==
  /\ AvlRecords(g) /\ DOMAIN g = DOMAIN h \ {n}
  /\ \A m \in DOMAIN g : g[m] = h[m]

LEMMA DroppedIs ==
  ASSUME NEW h, AvlRecords(h), NEW n
  PROVE  WithoutNode(h, Dropped(h, n), n)
BY DEF AvlRecords, Dropped, WithoutNode

(* The data of c goes to t, which loses its children.                      *)
Emptied(h, t, c) ==
  [h EXCEPT ![t] = [@ EXCEPT !.data = h[c].data, !.left = NULL, !.right = NULL]]

LEMMA EmptiedIs ==
  ASSUME NEW h, AvlRecords(h), NEW t \in DOMAIN h, NEW c \in DOMAIN h
  PROVE  LET g == Emptied(h, t, c)
         IN  /\ AvlRecords(g) /\ DOMAIN g = DOMAIN h
             /\ \A m \in DOMAIN h \ {t} : g[m] = h[m]
             /\ g[t].data = h[c].data /\ \A s \in Sides : g[t][s] = NULL
<1> DEFINE new == [h[t] EXCEPT !.data = h[c].data, !.left = NULL, !.right = NULL]
           g == [h EXCEPT ![t] = new]
<1>1. AvlReplaced(h[t], new, h[c].data, NULL, NULL)
  <2>1. h[t] \in AvlNodes /\ h[c].data \in Keys /\ NULL \in Links
    BY DEF AvlRecords, AvlNodes, Links
  <2> QED
    BY <2>1, AvlReplacedOf
<1>2. Emptied(h, t, c) = g
  BY DEF Emptied
<1> HIDE DEF new
<1>3. new \in AvlNodes /\ new.data = h[c].data /\ \A s \in Sides : new[s] = NULL
  BY <1>1 DEF AvlReplaced, Sides
<1>4. /\ AvlRecords(g) /\ DOMAIN g = DOMAIN h
      /\ \A m \in DOMAIN h : g[m] = IF m = t THEN new ELSE h[m]
  BY <1>3, AvlStored
<1> HIDE DEF g
<1> QED
  BY <1>2, <1>3, <1>4

(* A leaf is taken out.                                                    *)
LEMMA LeafDrops ==
  ASSUME NEW h, NEW r, Whole(h, r), NEW fs, NEW j, NEW t, WayAbove(h, r, fs, j, t),
         NEW k, NEW n, Doubled(h, r, k, n, t), \A s \in Sides : h[t][s] = NULL,
         NEW g0, g0 = Dropped(k, t)
  PROVE  Returning([heap |-> g0, root |-> IF r = t THEN NULL ELSE r, top |-> NULL, ok |-> TRUE],
                   fs, j)
<1> DEFINE q == IF r = t THEN NULL ELSE r
           m == [heap |-> g0, root |-> q, top |-> NULL, ok |-> TRUE]
           g == Hung(g0, fs, j, NULL)
           p == fs[j].node
           u == fs[j].side
           R == Reachable(h, r)
<1>1. Memory(m) /\ m.heap = g0 /\ m.root = q /\ m.top = NULL
  BY MemoryOf
<1>2. /\ AvlRecords(h) /\ Tree(h, r) /\ T!Typed(h)
      /\ \A x \in DOMAIN h : h[x].height <= Cardinality(Nodes)
  BY WholeIs
<1>3. /\ AvlRecords(k) /\ DOMAIN k = DOMAIN h
      /\ \A x \in DOMAIN h :
           /\ k[x].height = h[x].height
           /\ \A s \in Sides : k[x][s] = h[x][s]
           /\ k[x].data = IF x = n THEN h[t].data ELSE h[x].data
  BY DEF Doubled
<1>4. /\ AvlRecords(g0) /\ DOMAIN g0 = DOMAIN h \ {t}
      /\ \A x \in DOMAIN g0 : g0[x] = k[x]
  <2>1. WithoutNode(k, g0, t)
    BY <1>3, DroppedIs
  <2> QED
    BY <1>3, <2>1 DEF WithoutNode
<1> HIDE DEF q, m
<1>5. CASE j = 0
  <2>1. g = g0 /\ q = NULL
    BY <1>5 DEF Hung, WayAbove, q
  <2>2. Tree(g0, NULL) /\ Reachable(g0, NULL) = {}
    BY <1>4, EmptyTree
  <2>3. Chain(g0, NULL, fs, 0)
    BY DEF Chain
  <2>4. Low(g0, NULL)
    BY <1>2, <1>3, <1>4 DEF Low
  <2>5. Pending(g0, NULL, fs, 0)
    BY <1>4, <2>2, <2>3, <2>4 DEF Pending, Exact
  <2> QED
    BY <1>1, <1>5, <2>1, <2>5 DEF Returning, m, q
<1>6. CASE j # 0
  <2>1. /\ j \in Nat /\ j \in 1 .. j /\ p \in R /\ u \in Sides /\ p \in DOMAIN h
        /\ p \in Frame(fs, j) /\ p # t /\ t # r /\ q = r /\ r \in DOMAIN h /\ t \in R
        /\ t \in DOMAIN h
        /\ h[p][u] = t
        /\ \A i \in 1 .. j - 1 : fs[i].node # p
        /\ \A x \in R, s \in Sides : h[x][s] = t => x = p /\ s = u
        /\ \A i \in 1 .. j : fs[i].node \in DOMAIN h /\ fs[i].node # t /\ fs[i].side \in Sides
    <3>1. t \in Reachable(h, t)
      BY <1>2, TreeReached DEF WayAbove
    <3> QED
      BY <1>6, <3>1 DEF WayAbove, q
  <2>2. g = StoredLink(g0, p, u, NULL)
    BY <1>6 DEF Hung
  <2> HIDE DEF p, u, g
  <2>3. LinkPut(g0, g, p, u, NULL)
    BY <1>4, <2>1, <2>2, LinkPutIs DEF Links
  <2>4. /\ AvlRecords(g) /\ DOMAIN g = DOMAIN h \ {t}
        /\ \A x \in DOMAIN g : /\ g[x].data = k[x].data /\ g[x].height = h[x].height
                               /\ \A s \in Sides : g[x][s] = IF x = p /\ s = u THEN NULL ELSE h[x][s]
    BY <1>3, <1>4, <2>1, <2>3 DEF LinkPut
  <2>5. T!Typed(g)
    BY <2>4, AvlTyped
  <2>6. R \subseteq DOMAIN h /\ \A x \in R, s \in Sides : h[x][s] \in R \cup {NULL}
    BY <1>2, TreeIs
  <2>7. Cut(h, g, r)
    BY <2>1, <2>4, <2>6 DEF Cut
  <2>8. CutOrder(h, g, r)
    <3>1. Shifted(h, r, g, n, t, t)
      BY <1>3, <2>4, <2>6 DEF Shifted
    <3>2. t \in Reachable(h, t)
      BY <1>2, <2>1, TreeReached
    <3> QED
      BY <1>2, <2>1, <3>1, <3>2, ShiftedOrder
  <2>9. Tree(g, r) /\ Reachable(g, r) \subseteq R
    BY <1>2, <2>1, <2>4, <2>5, <2>7, <2>8, CutTree
  <2>10. /\ \A x \in DOMAIN g : g[x].height <= Cardinality(Nodes)
         /\ \A i \in 1 .. j : fs[i].node \in DOMAIN g
    BY <1>2, <2>1, <2>4
  <2>11. \A i \in 1 .. j - 1 : g[fs[i].node][fs[i].side] = h[fs[i].node][fs[i].side]
    <3> TAKE i \in 1 .. j - 1
    <3>1. i \in 1 .. j
      BY <2>1
    <3> QED
      BY <2>1, <2>4, <2>10, <3>1
  <2>12. \A x \in Reachable(g, r) \ Frame(fs, j) :
           /\ x \in R
           /\ \A s \in Sides :
                /\ g[x][s] = h[x][s]
                /\ h[x][s] # NULL /\ h[x][s] \notin Frame(fs, j) =>
                     g[h[x][s]].height = h[h[x][s]].height
           /\ g[x].height = h[x].height
    <3> TAKE x \in Reachable(g, r) \ Frame(fs, j)
    <3>1. x \in R /\ x \in DOMAIN g /\ x # p
      BY <2>1, <2>5, <2>9, TreeReached
    <3>2. \A s \in Sides : g[x][s] = h[x][s] /\ (h[x][s] # NULL => h[x][s] \in DOMAIN g)
      BY <2>1, <2>4, <2>6, <3>1
    <3> QED
      BY <2>4, <3>1, <3>2
  <2>13. Pending(g, r, fs, j)
    <3>1. Chain(h, r, fs, j)
      BY DEF WayAbove
    <3> QED
      BY <2>4, <2>9, <2>10, <2>11, <2>12, <3>1, Starts
  <2>14. Returning(m, fs, j)
    BY <1>1, <2>1, <2>13 DEF Returning, g
  <2> QED
    BY <2>14 DEF m, q
<1> QED
  BY <1>5, <1>6

(* A child is taken out and its data moves up: the node is balanced next.  *)
ChildDropped(h, r, fs, j, t, k, c) ==
  LET g == Avl!Updated(Dropped(Emptied(k, t, c), c), t)
  IN  /\ Standing([heap |-> g, root |-> r, top |-> NULL, ok |-> TRUE], fs, j + 1)
      /\ Exact(g, {t}) /\ r # c

(* The only child of t is freed, its data at t, and the height of t is     *)
(* exact.                                                                  *)
LEMMA ChildDrops ==
  ASSUME NEW h, NEW r, Whole(h, r), NEW fs, NEW j \in Nat, Chain(h, r, fs, j + 1), NEW t,
         t = fs[j + 1].node, NEW k, NEW n, Doubled(h, r, k, n, t),
         NEW sc \in Sides, h[t][sc] # NULL
  PROVE  ChildDropped(h, r, fs, j, t, k, h[t][sc])
<1> DEFINE R == Reachable(h, r)
           c == h[t][sc]
           k1 == Emptied(k, t, c)
           g1 == Dropped(k1, c)
           g == Avl!Updated(g1, t)
           m == [heap |-> g, root |-> r, top |-> NULL, ok |-> TRUE]
<1>1. Memory(m) /\ m.heap = g /\ m.root = r
  BY MemoryOf
<1>2. /\ AvlRecords(h) /\ Tree(h, r) /\ T!Typed(h)
      /\ \A x \in DOMAIN h : h[x].height <= Cardinality(Nodes)
  BY WholeIs
<1>3. WayAbove(h, r, fs, j, t)
  BY <1>2, OnTheWay
<1>4. t \in R /\ t \in DOMAIN h /\ t \in Reachable(h, t)
  BY <1>2, <1>3, TreeReached DEF WayAbove
<1>5. /\ AvlRecords(k) /\ DOMAIN k = DOMAIN h
      /\ \A x \in DOMAIN h :
           /\ k[x].height = h[x].height
           /\ \A s \in Sides : k[x][s] = h[x][s]
           /\ k[x].data = IF x = n THEN h[t].data ELSE h[x].data
  BY DEF Doubled
<1>6. /\ c \in R /\ c # t /\ c # r /\ c \in DOMAIN h /\ c \in Reachable(h, t)
      /\ \A x \in R, s \in Sides : h[x][s] = c => x = t
  BY <1>2, <1>4, Kin
<1> HIDE DEF c, k1, g1, g, m
<1>7. c # n
  <2>1. ASSUME c = n
        PROVE  FALSE
    <3>1. t \in Reachable(h, h[c]["right"]) /\ "right" \in Sides
      BY <1>6, <2>1 DEF Doubled, Sides
    <3>2. Reachable(h, h[c]["right"]) \subseteq Reachable(h, c) /\ c \in Reachable(h, c)
      BY <1>2, <1>6, <3>1, TreeReached
    <3>3. t \in Reachable(h, c)
      BY <3>1, <3>2
    <3>4. t \notin Reachable(h, c)
      BY <1>2, <1>4, TreeIs DEF c
    <3> QED
      BY <3>3, <3>4
  <2> QED
    BY <2>1
<1>10. /\ AvlRecords(k1) /\ DOMAIN k1 = DOMAIN h
       /\ \A x \in DOMAIN h \ {t} : k1[x] = k[x]
       /\ k1[t].data = k[c].data /\ \A s \in Sides : k1[t][s] = NULL
  BY <1>4, <1>5, <1>6, EmptiedIs DEF k1
<1>11. /\ AvlRecords(g1) /\ DOMAIN g1 = DOMAIN h \ {c}
       /\ \A x \in DOMAIN g1 : g1[x] = k1[x]
  <2>1. WithoutNode(k1, g1, c)
    BY <1>10, DroppedIs DEF g1
  <2> QED
    BY <1>10, <2>1 DEF WithoutNode
<1>12. t \in DOMAIN g1 /\ (\A s \in Sides : g1[t][s] = NULL) /\ g1[t].data = k[c].data
  BY <1>4, <1>6, <1>10, <1>11
<1>13. Risen(g1, g, t)
  BY <1>11, <1>12, UpdatedIs DEF g
<1>14. Rise(g1, t) = 1
  BY <1>12 DEF Rise, Avl!Height, Avl!Greater, Sides
<1>15. /\ AvlRecords(g) /\ DOMAIN g = DOMAIN h \ {c}
       /\ \A x \in DOMAIN g \ {t} : g[x] = k[x]
       /\ g[t].data = h[c].data /\ g[t].height = 1 /\ \A s \in Sides : g[t][s] = NULL
  BY <1>5, <1>6, <1>7, <1>10, <1>11, <1>12, <1>13, <1>14 DEF Risen
<1>16. T!Typed(g)
  BY <1>15, AvlTyped
<1>17. /\ R \subseteq DOMAIN h /\ r \in DOMAIN g
       /\ \A x \in R, s \in Sides : h[x][s] \in R \cup {NULL}
  <2>1. /\ R \subseteq DOMAIN h
        /\ \A x \in R, s \in Sides : h[x][s] \in R \cup {NULL}
    BY <1>2, TreeIs
  <2>2. r \in DOMAIN h
    BY <1>3, <1>4 DEF WayAbove
  <2> QED
    BY <1>6, <1>15, <2>1, <2>2
<1>18. Cut(h, g, r)
  BY <1>5, <1>6, <1>15, <1>17 DEF Cut
<1>19. CutOrder(h, g, r)
  <2>1. Shifted(h, r, g, n, t, c)
    BY <1>5, <1>6, <1>15, <1>17 DEF Shifted
  <2> QED
    BY <1>2, <1>4, <1>6, <2>1, ShiftedOrder
<1>20. Tree(g, r) /\ Reachable(g, r) \subseteq R
  BY <1>2, <1>16, <1>17, <1>18, <1>19, CutTree
<1>21. Exact(g, {t})
  <2>1. Rise(g, t) = 1
    BY <1>15 DEF Rise, Avl!Height, Avl!Greater, Sides
  <2> QED
    BY <1>15, <2>1 DEF Exact
<1>22. \A x \in DOMAIN g : g[x].height <= Cardinality(Nodes)
  <2>1. 1 <= Cardinality(Nodes)
    <3>1. IsFiniteSet(Nodes) /\ t \in Nodes
      BY <1>2, <1>4, BinaryTreeAssumption DEF AvlRecords
    <3>2. Cardinality(Nodes) # 0 /\ Cardinality(Nodes) \in Nat
      BY <3>1, FS_EmptySet, FS_CardinalityType
    <3> QED
      BY <3>2
  <2> QED
    BY <1>2, <1>5, <1>15, <2>1
<1>23. /\ j + 1 \in Nat /\ j + 1 # 0 /\ t \in Frame(fs, j + 1)
       /\ \A i \in 1 .. j + 1 : fs[i].node \in DOMAIN g
       /\ \A i \in 1 .. (j + 1) - 1 : g[fs[i].node][fs[i].side] = h[fs[i].node][fs[i].side]
  <2>1. \A i \in 1 .. j + 1 : i \in 1 .. j \/ i = j + 1
    OBVIOUS
  <2>2. \A i \in 1 .. j : /\ fs[i].node \in DOMAIN h /\ fs[i].node \notin Reachable(h, t)
                          /\ fs[i].side \in Sides
    BY <1>3 DEF WayAbove
  <2>3. \A i \in 1 .. j : fs[i].node \in DOMAIN g \ {t} /\ fs[i].side \in Sides
    BY <1>4, <1>6, <1>15, <2>2
  <2>4. \A i \in 1 .. j : g[fs[i].node][fs[i].side] = h[fs[i].node][fs[i].side]
    BY <1>5, <1>15, <2>2, <2>3
  <2>5. (j + 1) - 1 = j /\ j + 1 \in 1 .. j + 1
    OBVIOUS
  <2> QED
    BY <1>12, <1>11, <1>15, <2>1, <2>3, <2>4, <2>5 DEF Frame
<1>24. \A x \in Reachable(g, r) \ Frame(fs, j + 1) :
         /\ x \in R
         /\ \A s \in Sides :
              /\ g[x][s] = h[x][s]
              /\ h[x][s] # NULL /\ h[x][s] \notin Frame(fs, j + 1) =>
                   g[h[x][s]].height = h[h[x][s]].height
         /\ g[x].height = h[x].height
  <2> TAKE x \in Reachable(g, r) \ Frame(fs, j + 1)
  <2>1. x \in R /\ x \in DOMAIN g \ {t} /\ x \in DOMAIN h
    BY <1>16, <1>17, <1>20, <1>23, TreeReached
  <2>2. g[x] = k[x]
    BY <1>15, <2>1
  <2>3. ASSUME NEW s \in Sides
        PROVE  /\ g[x][s] = h[x][s]
               /\ h[x][s] # NULL /\ h[x][s] \notin Frame(fs, j + 1) =>
                    g[h[x][s]].height = h[h[x][s]].height
    <3>1. g[x][s] = h[x][s]
      BY <1>5, <2>1, <2>2
    <3>2. h[x][s] # NULL => h[x][s] \in DOMAIN h /\ h[x][s] # c
      BY <1>6, <1>17, <2>1
    <3> QED
      BY <1>5, <1>15, <1>23, <3>1, <3>2
  <2> QED
    BY <1>5, <2>1, <2>2, <2>3
<1>25. Pending(g, r, fs, j + 1)
  BY <1>15, <1>20, <1>22, <1>23, <1>24, Starts
<1>26. Standing(m, fs, j + 1)
  BY <1>1, <1>23, <1>25 DEF Standing
<1> QED
  BY <1>6, <1>21, <1>26 DEF m, g, g1, k1, c, ChildDropped

(* An exact height is at most the number of nodes of the subtree.          *)
LEMMA HeightCounts ==
  ASSUME NEW h, AvlRecords(h), NEW r, Tree(h, r), Exact(h, Reachable(h, r)),
         NEW n \in Reachable(h, r)
  PROVE  h[n].height <= Cardinality(Reachable(h, n))
<1> DEFINE R == Reachable(h, r)
           Below(x) == Reachable(h, x)
           Bad == {x \in R : ~(h[x].height <= Cardinality(Below(x)))}
           S == {h[x].height : x \in Bad}
<1>1. T!Typed(h) /\ R \subseteq DOMAIN h /\ NULL \notin DOMAIN h
  BY AvlTyped, TreeIs
<1>2. \A x \in R : /\ x \in DOMAIN h /\ h[x].height \in Nat /\ IsFiniteSet(Below(x))
                   /\ Cardinality(Below(x)) \in Nat /\ x \in Below(x)
  <2> TAKE x \in R
  <2>1. x \in DOMAIN h /\ h[x].height \in Nat /\ x \in Below(x) /\ Below(x) \subseteq DOMAIN h
    BY <1>1, AvlFields, TreeReached
  <2>2. IsFiniteSet(DOMAIN h)
    BY <1>1, TreeFinite
  <2> QED
    BY <2>1, <2>2, FS_Subset, FS_CardinalityType
<1>3. SUFFICES ASSUME Bad # {} PROVE FALSE
  <2>1. h[n].height \in Nat
    BY <1>2
  <2> QED
    BY <2>1
<1>4. S \in SUBSET Nat /\ S # {}
  BY <1>2, <1>3
<1>5. PICK x \in Bad : \A y \in Bad : h[x].height <= h[y].height
  <2> HIDE DEF Bad
  <2>1. PICK v \in S : \A w \in S : v <= w
    <3> HIDE DEF S
    <3> QED
      BY <1>4, SameAssumption, T!LeastNatural
  <2>2. PICK x \in Bad : v = h[x].height
    OBVIOUS
  <2> QED
    BY <2>1, <2>2
<1>6. x \in R /\ ~(h[x].height <= Cardinality(Below(x)))
  OBVIOUS
<1>7. \A s \in Sides : h[x][s] # NULL =>
        /\ h[x][s] \in R /\ h[h[x][s]].height < Cardinality(Below(x))
  <2> SUFFICES ASSUME NEW s \in Sides, h[x][s] # NULL
               PROVE  h[x][s] \in R /\ h[h[x][s]].height < Cardinality(Below(x))
    OBVIOUS
  <2> DEFINE y == h[x][s]
  <2>1. y \in R /\ x \notin Below(y) /\ Below(y) \subseteq Below(x)
    BY <1>1, <1>2, <1>6, TreeIs, TreeReached
  <2>2. h[y].height < h[x].height
    <3>1. \A v \in Sides : h[x][v] \in DOMAIN h \cup {NULL}
      BY <1>1, <1>6, TreeIs
    <3>2. x \in DOMAIN h /\ Rise(h, x) = h[x].height
      BY <1>2, <1>6 DEF Exact
    <3>3. Avl!Height(h, y) < Rise(h, x)
      BY <3>1, <3>2, RiseIs
    <3>4. Avl!Height(h, y) = h[y].height
      BY DEF Avl!Height
    <3> QED
      BY <3>2, <3>3, <3>4
  <2>3. h[y].height <= Cardinality(Below(y))
    <3> HIDE DEF y
    <3>1. y \notin Bad
      <4>1. ASSUME y \in Bad PROVE FALSE
        <5>1. h[x].height <= h[y].height
          BY <1>5, <4>1
        <5> QED
          BY <1>2, <1>6, <2>1, <2>2, <5>1
      <4> QED
        BY <4>1
    <3> QED
      BY <2>1, <3>1
  <2> HIDE DEF y, Below
  <2>4. Cardinality(Below(y)) < Cardinality(Below(x))
    <3>1. Below(y) \in SUBSET (Below(x) \ {x})
      BY <2>1
    <3>2. /\ IsFiniteSet(Below(x) \ {x})
          /\ Cardinality(Below(x) \ {x}) = Cardinality(Below(x)) - 1
      BY <1>2, <1>6, FS_RemoveElement
    <3>3. Cardinality(Below(y)) <= Cardinality(Below(x) \ {x})
      BY <3>1, <3>2, FS_Subset
    <3> QED
      BY <1>2, <1>6, <2>1, <3>2, <3>3
  <2>5. h[y].height < Cardinality(Below(x))
    BY <1>2, <1>6, <2>1, <2>3, <2>4
  <2> QED
    BY <2>1, <2>5 DEF y
<1> HIDE DEF Below
<1>8. Cardinality(Below(x)) # 0
  BY <1>2, <1>6, FS_EmptySet
<1>9. h[x].height <= Cardinality(Below(x))
  <2>1. h[x].height = Rise(h, x)
    BY <1>6 DEF Exact
  <2>2. \A s \in Sides : /\ Avl!Height(h, h[x][s]) \in Nat
                         /\ Avl!Height(h, h[x][s]) < Cardinality(Below(x))
    <3> TAKE s \in Sides
    <3>1. h[x][s] \in DOMAIN h \cup {NULL}
      BY <1>1, <1>6, TreeIs
    <3> QED
      BY <1>2, <1>6, <1>7, <1>8, <3>1, HeightIs
  <2>3. "left" \in Sides /\ "right" \in Sides
    BY DEF Sides
  <2> QED
    BY <1>2, <1>6, <2>1, <2>2, <2>3 DEF Rise, Avl!Greater
<1> QED
  BY <1>6, <1>9

(* What a call that has returned leaves.                                   *)
LEMMA ReturnedWhole ==
  ASSUME NEW a, NEW fs, Returning(a, fs, 0)
  PROVE  a.ok = TRUE /\ Whole(a.heap, a.root)
<1> DEFINE h == a.heap
           r == a.root
           R == Reachable(h, r)
<1>1. Memory(a) /\ Pending(h, r, fs, 0)
  BY DEF Returning, Hung
<1>2. a.ok = TRUE
  BY <1>1, MemoryPut, Zenon
<1> HIDE DEF h, r
<1>3. AvlRecords(h) /\ Tree(h, r) /\ Exact(h, R) /\ Low(h, r)
  BY <1>1 DEF Pending, Frame
<1>4. ASSUME NEW n \in DOMAIN h
      PROVE  h[n].height <= Cardinality(Nodes)
  <2>1. CASE n \in R
    <3>1. h[n].height <= Cardinality(Reachable(h, n))
      BY <1>3, <2>1, HeightCounts
    <3>2. Reachable(h, n) \subseteq Nodes
      BY <1>3, AvlTyped, TreeReached DEF AvlRecords
    <3>3. /\ Cardinality(Reachable(h, n)) \in Nat /\ Cardinality(Nodes) \in Nat
          /\ Cardinality(Reachable(h, n)) <= Cardinality(Nodes)
      BY <3>2, BinaryTreeAssumption, FS_Subset, FS_CardinalityType
    <3>4. h[n].height \in Nat
      BY <1>3, AvlFields
    <3> QED
      BY <3>1, <3>3, <3>4
  <2>2. CASE n \notin R
    BY <1>3, <2>2 DEF Low
  <2> QED
    BY <2>1, <2>2
<1>5. Whole(h, r)
  BY <1>3, <1>4 DEF Whole
<1> QED
  BY <1>2, <1>5 DEF h, r

(* The end of a call.                                                      *)
LEMMA FinishWhole ==
  ASSUME Whole(avl_heap, avl_root), status \in {"running", "ended"},
         NEW a, NEW fs, Settled(a, fs, 0), Avl!Finish(a)
  PROVE  Whole(avl_heap', avl_root') /\ status' \in {"running", "ended"}
<1>1. CASE a.ok = FALSE
  BY <1>1 DEF Avl!Finish
<1>2. CASE Returning(a, fs, 0)
  BY <1>2, ReturnedWhole DEF Avl!Finish
<1> QED
  BY <1>1, <1>2 DEF Settled

(* What avl_delete_node leaves of a node without children, and of a node   *)
(* whose only child moves up.                                              *)
HereLeaf(m, n) ==
  [[m EXCEPT !.heap = Dropped(m.heap, n),
             !.root = IF m.root = n THEN NULL ELSE m.root]
   EXCEPT !.top = NULL]

HereChild(m, n, child) ==
  [m EXCEPT !.heap = Dropped(Emptied(m.heap, n, child), child),
            !.root = IF m.root = child THEN NULL ELSE m.root]

HereUp(m, n, child) ==
  [HereChild(m, n, child) EXCEPT !.heap = Avl!Updated(HereChild(m, n, child).heap, n)]

(* avl_delete_node at a node that has not both children.                   *)
LEMMA DeleteLeafIs ==
  ASSUME NEW m, NEW n, m.heap[n]["left"] = NULL, m.heap[n]["right"] = NULL
  PROVE  Avl!DeleteHere(m, n) = HereLeaf(m, n)
BY DEF Avl!DeleteHere, HereLeaf, Dropped

LEMMA DeleteChildIs ==
  ASSUME NEW m, NEW n, NEW s \in Sides, m.heap[n][s] # NULL, m.heap[n][Opposite(s)] = NULL
  PROVE  Avl!DeleteHere(m, n)
           = Avl!DoBalanceAfterDelete(HereUp(m, n, m.heap[n][s]), n)
<1> DEFINE child == IF m.heap[n].left # NULL THEN m.heap[n].left ELSE m.heap[n].right
<1>1. child = m.heap[n][s]
  BY DEF Sides, Opposite
<1>2. child # NULL => Avl!DeleteHere(m, n) = Avl!DoBalanceAfterDelete(HereUp(m, n, child), n)
  BY DEF Avl!DeleteHere, HereUp, HereChild, Dropped, Emptied
<1> QED
  BY <1>1, <1>2

(* The two memories, field by field.                                       *)
LEMMA LeafMade ==
  ASSUME NEW m, Memory(m), NEW n
  PROVE  Made(HereLeaf(m, n), Dropped(m.heap, n), IF m.root = n THEN NULL ELSE m.root, NULL, m.ok)
<1> DEFINE g == Dropped(m.heap, n)
           q == IF m.root = n THEN NULL ELSE m.root
           m1 == [m EXCEPT !.heap = g, !.root = q]
<1>1. HereLeaf(m, n) = [m1 EXCEPT !.top = NULL]
  BY DEF HereLeaf
<1> HIDE DEF g, q
<1>2. Made(m1, g, q, m.top, m.ok)
  BY MemoryPut, Zenon
<1> HIDE DEF m1
<1>3. Made([m1 EXCEPT !.top = NULL], g, q, NULL, m.ok)
  BY <1>2, FieldPut, Zenon
<1>4. Made(HereLeaf(m, n), g, q, NULL, m.ok)
  BY <1>1, <1>3
<1> QED
  BY <1>4 DEF g, q

LEMMA UpMade ==
  ASSUME NEW m, Memory(m), NEW n, NEW child
  PROVE  Made(HereUp(m, n, child),
              Avl!Updated(Dropped(Emptied(m.heap, n, child), child), n),
              IF m.root = child THEN NULL ELSE m.root, m.top, m.ok)
<1> DEFINE g == Dropped(Emptied(m.heap, n, child), child)
           q == IF m.root = child THEN NULL ELSE m.root
           m1 == HereChild(m, n, child)
<1>1. m1 = [m EXCEPT !.heap = g, !.root = q]
  BY DEF HereChild
<1> HIDE DEF g, q, m1
<1>2. Made(m1, g, q, m.top, TRUE) /\ m.ok = TRUE
  <2>1. Made([m EXCEPT !.heap = g, !.root = q], g, q, m.top, TRUE) /\ m.ok = TRUE
    BY MemoryPut, Zenon
  <2> QED
    BY <1>1, <2>1
<1>3. m1.heap = g
  BY <1>2, MadeIs, Zenon
<1>4. HereUp(m, n, child) = [m1 EXCEPT !.heap = Avl!Updated(g, n)]
  BY <1>3 DEF HereUp, m1
<1> DEFINE g1 == Avl!Updated(g, n)
<1> HIDE DEF g1
<1>5. Made([m1 EXCEPT !.heap = g1], g1, q, m.top, TRUE)
  BY <1>2, FieldPut, Zenon
<1>6. Made(HereUp(m, n, child), g1, q, m.top, m.ok)
  BY <1>2, <1>4, <1>5 DEF g1
<1> QED
  BY <1>6 DEF g, q, g1

(* A deletion at t fails or returns to the frame above t.                  *)
LEMMA DeleteHereSettles ==
  ASSUME NEW h, NEW r, Whole(h, r), NEW fs, NEW j \in Nat, Chain(h, r, fs, j + 1), NEW t,
         t = fs[j + 1].node, NEW k, NEW n, Doubled(h, r, k, n, t),
         \E s \in Sides : h[t][s] = NULL
  PROVE  Settled(Avl!DeleteHere([heap |-> k, root |-> r, top |-> NULL, ok |-> TRUE], t), fs, j)
<1> DEFINE m == [heap |-> k, root |-> r, top |-> NULL, ok |-> TRUE]
           a == Avl!DeleteHere(m, t)
<1>1. Memory(m) /\ m.heap = k /\ m.root = r /\ m.top = NULL /\ m.ok = TRUE
  BY MemoryOf
<1>2. WayAbove(h, r, fs, j, t)
  BY WholeIs, OnTheWay
<1>3. /\ t \in DOMAIN h /\ DOMAIN k = DOMAIN h /\ \A s \in Sides : k[t][s] = h[t][s]
  BY <1>2 DEF WayAbove, Doubled
<1> HIDE DEF m
<1>5. CASE \A s \in Sides : h[t][s] = NULL
  <2> DEFINE g0 == Dropped(k, t)
             q == IF r = t THEN NULL ELSE r
             b == [heap |-> g0, root |-> q, top |-> NULL, ok |-> TRUE]
  <2>2. Returning(b, fs, j)
    BY <1>2, <1>5, LeafDrops
  <2>3. a = b
    <3>1. a = HereLeaf(m, t)
      <4>1. m.heap[t]["left"] = NULL /\ m.heap[t]["right"] = NULL
        BY <1>1, <1>3, <1>5 DEF Sides
      <4> QED
        BY <4>1, DeleteLeafIs
    <3>2. Made(HereLeaf(m, t), g0, q, NULL, TRUE)
      BY <1>1, LeafMade
    <3> HIDE DEF a, g0, q
    <3> QED
      BY <3>1, <3>2 DEF Made
  <2> HIDE DEF b
  <2> QED
    BY <2>2, <2>3 DEF Settled, m, a
<1>6. CASE \E s \in Sides : h[t][s] # NULL
  <2>1. PICK sc \in Sides : h[t][sc] # NULL /\ h[t][Opposite(sc)] = NULL
    BY <1>6 DEF Sides, Opposite
  <2> DEFINE child == h[t][sc]
             g1 == Dropped(Emptied(k, t, child), child)
             g == Avl!Updated(g1, t)
             b == [heap |-> g, root |-> r, top |-> NULL, ok |-> TRUE]
  <2>2. Standing(b, fs, j + 1) /\ Exact(g, {t}) /\ r # child
    <3>1. ChildDropped(h, r, fs, j, t, k, h[t][sc])
      BY <2>1, ChildDrops
    <3> QED
      BY <3>1 DEF ChildDropped
  <2>3. a = Avl!DoBalanceAfterDelete(b, t)
    <3>1. a = Avl!DoBalanceAfterDelete(HereUp(m, t, child), t)
      <4>1. m.heap[t][sc] = child /\ m.heap[t][Opposite(sc)] = NULL
        BY <1>1, <1>3, <2>1 DEF Sides, Opposite
      <4> QED
        BY <2>1, <4>1, DeleteChildIs
    <3>2. Made(HereUp(m, t, child), g, IF m.root = child THEN NULL ELSE m.root, m.top, m.ok)
      BY <1>1, UpMade
    <3> HIDE DEF a, g, child
    <3>3. HereUp(m, t, child) = b
      BY <1>1, <2>2, <3>2 DEF Made
    <3> QED
      BY <3>1, <3>3
  <2> DEFINE c == Avl!Balance(b, t, "delete", NULL)
  <2>4. c = a
    BY <2>3 DEF Avl!Balance
  <2>5. Settled(c, fs, (j + 1) - 1)
    <3>1. b.heap = g
      OBVIOUS
    <3> HIDE DEF b, g
    <3> QED
      BY <2>2, <3>1, Balances
  <2>6. (j + 1) - 1 = j
    OBVIOUS
  <2> HIDE DEF c, b
  <2> QED
    BY <2>4, <2>5, <2>6 DEF m, a
<1> QED
  BY <1>5, <1>6

(* The frames fs are a way from x to t.                                    *)
Leads(h, x, fs, t) ==
  /\ fs \in Seq([node : DOMAIN h, side : Sides]) /\ Len(fs) \in Nat
  /\ Chain(h, x, fs, Len(fs))
  /\ t = IF fs = <<>> THEN x ELSE h[fs[Len(fs)].node][fs[Len(fs)].side]

LEMMA LeadsOne ==
  ASSUME NEW h, NEW n \in DOMAIN h, NEW s \in Sides
  PROVE  Leads(h, n, <<[node |-> n, side |-> s]>>, h[n][s])
<1> DEFINE fs == <<[node |-> n, side |-> s]>>
<1>1. /\ fs \in Seq([node : DOMAIN h, side : Sides]) /\ Len(fs) = 1
      /\ fs # <<>> /\ fs[1].node = n /\ fs[1].side = s
      /\ Chain(h, n, fs, 1)
  BY ChainOfOne
<1> HIDE DEF fs
<1>2. Leads(h, n, fs, h[n][s])
  BY <1>1 DEF Leads
<1> QED
  BY <1>2 DEF fs

(* Two ways after each other.                                              *)
LEMMA LeadsOn ==
  ASSUME NEW h, NEW x, NEW a, NEW y, Leads(h, x, a, y), NEW b, NEW t, Leads(h, y, b, t)
  PROVE  Leads(h, x, a \o b, t)
<1> DEFINE S == [node : DOMAIN h, side : Sides]
<1>1. /\ a \in Seq(S) /\ Len(a) \in Nat /\ Chain(h, x, a, Len(a))
      /\ y = IF a = <<>> THEN x ELSE h[a[Len(a)].node][a[Len(a)].side]
  BY DEF Leads
<1>2. /\ b \in Seq(S) /\ Len(b) \in Nat /\ Chain(h, y, b, Len(b))
      /\ t = IF b = <<>> THEN y ELSE h[b[Len(b)].node][b[Len(b)].side]
  BY DEF Leads
<1> HIDE DEF S
<1>3. IF a = <<>> THEN y = x ELSE h[a[Len(a)].node][a[Len(a)].side] = y
  BY <1>1
<1>4. /\ a \o b \in Seq(S) /\ Len(a \o b) = Len(a) + Len(b)
      /\ Chain(h, x, a \o b, Len(a) + Len(b))
      /\ \A k \in 1 .. Len(b) : (a \o b)[Len(a) + k] = b[k]
  BY <1>1, <1>2, <1>3, ChainJoined
<1>5. CASE b = <<>>
  <2>1. a \o b = a
    BY <1>1, <1>5
  <2> QED
    BY <1>1, <1>2, <1>5, <2>1 DEF Leads
<1>6. CASE b # <<>>
  <2>1. Len(b) \in 1 .. Len(b) /\ Len(b) > 0
    BY <1>2, <1>6
  <2>2. (a \o b)[Len(a \o b)] = b[Len(b)] /\ Len(a \o b) \in Nat /\ Len(a \o b) > 0
    BY <1>1, <1>2, <1>4, <2>1
  <2>3. a \o b # <<>>
    BY <2>2
  <2> DEFINE c == a \o b
  <2> HIDE DEF c
  <2>4. Chain(h, x, c, Len(c)) /\ c \in Seq(S) /\ Len(c) \in Nat /\ c # <<>>
        /\ c[Len(c)] = b[Len(b)]
    BY <1>4, <2>2, <2>3 DEF c
  <2>5. Leads(h, x, c, t)
    BY <1>2, <1>6, <2>4 DEF Leads, S
  <2> QED
    BY <2>5 DEF c
<1> QED
  BY <1>5, <1>6

LEMMA WayLeads ==
  ASSUME NEW h, NEW r, NEW key, NEW way, WayTo(h, r, key, way)
  PROVE  Leads(h, r, way.frames, way.end)
BY DEF WayTo, Leads

(* A sequence made longer.                                                 *)
LEMMA LongerBy ==
  ASSUME NEW S, NEW a \in Seq(S), NEW b \in Seq(S)
  PROVE  /\ Len(a \o b) = Len(a) + Len(b) /\ Len(a) \in Nat
         /\ \A i \in 1 .. Len(a) : (a \o b)[i] = a[i]
         /\ \A i \in 1 .. Len(b) : (a \o b)[Len(a) + i] = b[i]
OBVIOUS

LEMMA LongerByOne ==
  ASSUME NEW S, NEW a \in Seq(S), NEW b \in Seq(S)
  PROVE  Len(b) = 1 => /\ Len(a) \in Nat /\ Len(a \o b) = Len(a) + 1
                       /\ \A i \in 1 .. Len(a) : (a \o b)[i] = a[i]
                       /\ (a \o b)[Len(a) + 1] = b[1]
<1>1. /\ Len(a \o b) = Len(a) + Len(b) /\ Len(a) \in Nat
      /\ \A i \in 1 .. Len(a) : (a \o b)[i] = a[i]
      /\ \A i \in 1 .. Len(b) : (a \o b)[Len(a) + i] = b[i]
  BY LongerBy
<1> DEFINE c == a \o b
<1> HIDE DEF c
<1> QED
  BY <1>1 DEF c

(* A deletion at the end of a way.                                         *)
LEMMA DeleteAt ==
  ASSUME NEW h, NEW r, Whole(h, r), NEW fs, NEW t \in DOMAIN h, Leads(h, r, fs, t),
         NEW k, NEW n, Doubled(h, r, k, n, t), \E s \in Sides : h[t][s] = NULL,
         NEW op, NEW key
  PROVE  Settled(Avl!Return(
                   Avl!DeleteHere([heap |-> k, root |-> r, top |-> NULL, ok |-> TRUE], t),
                   fs, op, key), fs, 0)
<1> DEFINE last == <<[node |-> t, side |-> "left"]>>
           S == [node : DOMAIN h, side : Sides]
           gs == fs \o last
           j == Len(fs)
           m == [heap |-> k, root |-> r, top |-> NULL, ok |-> TRUE]
           a == Avl!DeleteHere(m, t)
<1>1. /\ fs \in Seq(S) /\ j \in Nat /\ Chain(h, r, fs, j)
      /\ IF fs = <<>> THEN t = r ELSE h[fs[j].node][fs[j].side] = t
  BY DEF Leads
<1>2. "left" \in Sides
  BY DEF Sides
<1>3. /\ last \in Seq(S) /\ Len(last) = 1 /\ last[1].node = t
      /\ Chain(h, t, last, Len(last))
  BY <1>2, ChainOfOne
<1> HIDE DEF last, S, a
<1>4. /\ Chain(h, r, gs, j + 1)
      /\ \A i \in 1 .. j : gs[i] = fs[i]
      /\ gs[j + 1] = last[1]
  <2>1. Leads(h, t, last, h[t]["left"])
    BY <1>2, LeadsOne DEF last
  <2>2. Leads(h, r, gs, h[t]["left"])
    BY <2>1, LeadsOn DEF gs
  <2>3. /\ Len(gs) = j + 1 /\ \A i \in 1 .. j : gs[i] = fs[i]
        /\ gs[j + 1] = last[1]
    <3>1. last \in Seq(S) /\ fs \in Seq(S)
      BY <1>1, <1>3
    <3> QED
      BY <1>3, <3>1, LongerByOne DEF gs
  <2> HIDE DEF gs
  <2>4. Chain(h, r, gs, Len(gs))
    BY <2>2 DEF Leads
  <2> QED
    BY <2>3, <2>4
<1> HIDE DEF gs
<1>5. Settled(a, gs, j)
  <2>1. t = gs[j + 1].node
    BY <1>3, <1>4
  <2> QED
    BY <1>1, <1>4, <2>1, DeleteHereSettles DEF a
<1>6. Settled(a, fs, j)
  <2>1. \A i \in 1 .. j : fs[i] = gs[i]
    BY <1>4
  <2> HIDE DEF j
  <2> QED
    BY <1>1, <1>5, <2>1, SettledSame
<1>7. Settled(Avl!Return(a, fs, op, key), fs, 0)
  BY <1>1, <1>6, ReturnSettles
<1> QED
  BY <1>7 DEF a

-----------------------------------------------------------------------------
(* avl_insert.                                                             *)
LEMMA InsertWhole ==
  ASSUME Whole(avl_heap, avl_root), status \in {"running", "ended"},
         NEW key \in Keys, Avl!Insert(key)
  PROVE  Whole(avl_heap', avl_root') /\ status' \in {"running", "ended"}
<1> DEFINE h == avl_heap
           r == avl_root
           way == Descent(h, r, key)
           fs == way.frames
           start == [heap |-> h, root |-> r, top |-> NULL, ok |-> TRUE]
           Grown(n) == [a \in DOMAIN h \cup {n} |-> IF a = n THEN Avl!NewNode(key) ELSE h[a]]
           New(n) == [heap |-> Grown(n), root |-> IF r = NULL THEN n ELSE r,
                      top |-> n, ok |-> TRUE]
<1>1. AvlRecords(h) /\ Tree(h, r)
  BY WholeIs
<1>2. WayTo(h, r, key, way)
  BY <1>1, WayIs
<1>3. Len(fs) \in Nat /\ Chain(h, r, fs, Len(fs))
  BY <1>2 DEF WayTo
<1>4. Avl!Descent(h, r, key) = way
  BY AvlDescent
<1>5. CASE way.end = NULL
  <2>1. PICK n \in Nodes \ DOMAIN h :
          Avl!Finish(Avl!Return([start EXCEPT !.heap = Grown(n),
                                              !.root = IF r = NULL THEN n ELSE r,
                                              !.top = n], fs, "insert", key))
    BY <1>4, <1>5 DEF Avl!Insert, Avl!NewNode
  <2>2. [start EXCEPT !.heap = Grown(n), !.root = IF r = NULL THEN n ELSE r, !.top = n]
          = New(n)
    <3> DEFINE g == Grown(n)
               q == IF r = NULL THEN n ELSE r
    <3>1. Memory(start)
      BY MemoryOf
    <3> HIDE DEF g, q, start
    <3>2. Made([start EXCEPT !.heap = g, !.root = q, !.top = n], g, q, n, TRUE)
      BY <3>1, MemoryPut, Zenon
    <3>3. [start EXCEPT !.heap = g, !.root = q, !.top = n]
            = [heap |-> g, root |-> q, top |-> n, ok |-> TRUE]
      BY <3>2, Zenon DEF Made
    <3> QED
      BY <3>3 DEF g, q
  <2>3. Returning(New(n), fs, Len(fs))
    BY <1>5, NewNodeReturns
  <2> DEFINE m == New(n)
             a == Avl!Return(m, fs, "insert", key)
  <2>4. Avl!Finish(a)
    BY <2>1, <2>2
  <2>5. Settled(m, fs, Len(fs))
    BY <2>3 DEF Settled
  <2> HIDE DEF m, way
  <2>6. Settled(a, fs, 0)
    BY <1>3, <2>5, ReturnSettles
  <2> HIDE DEF a
  <2> QED
    BY <2>4, <2>6, FinishWhole
<1>6. CASE way.end # NULL
  <2> DEFINE a == Avl!Return(start, fs, "insert", key)
  <2>1. Avl!Finish(a)
    BY <1>4, <1>6 DEF Avl!Insert
  <2>2. Settled(start, fs, Len(fs))
    <3>1. Returning(start, fs, Len(fs))
      BY <1>3, NullReturns
    <3> QED
      BY <3>1 DEF Settled
  <2> HIDE DEF start, way
  <2>3. Settled(a, fs, 0)
    BY <1>3, <2>2, ReturnSettles
  <2> HIDE DEF a
  <2> QED
    BY <2>1, <2>3, FinishWhole
<1> QED
  BY <1>5, <1>6

(* The data of a node replaced.                                            *)
WithData(h, n, v) == [h EXCEPT ![n].data = v]

LEMMA WithDataIs ==
  ASSUME NEW h, AvlRecords(h), NEW n \in DOMAIN h, NEW v \in Keys
  PROVE  LET k == WithData(h, n, v)
         IN  /\ AvlRecords(k) /\ DOMAIN k = DOMAIN h
             /\ \A m \in DOMAIN h :
                  /\ k[m].height = h[m].height
                  /\ \A s \in Sides : k[m][s] = h[m][s]
                  /\ k[m].data = IF m = n THEN v ELSE h[m].data
<1> DEFINE new == [h[n] EXCEPT !.data = v]
           k == [h EXCEPT ![n] = new]
<1>1. h[n] \in AvlNodes
  BY DEF AvlRecords
<1>2. new \in AvlNodes
  BY <1>1 DEF AvlNodes
<1>3. new.height = h[n].height /\ new.data = v /\ \A s \in Sides : new[s] = h[n][s]
  BY <1>1 DEF AvlNodes, Sides
<1> HIDE DEF new
<1>4. /\ AvlRecords(k) /\ DOMAIN k = DOMAIN h
      /\ \A m \in DOMAIN h : k[m] = IF m = n THEN new ELSE h[m]
  BY <1>2, AvlStored
<1>5. WithData(h, n, v) = k
  BY DEF WithData, new
<1> HIDE DEF k
<1> QED
  BY <1>3, <1>4, <1>5

(* A node with two children, and its inorder successor e.                  *)
Successor(h, r, n, e) ==
  LET y == h[n]["right"]
  IN  /\ y \in DOMAIN h /\ e \in DOMAIN h /\ e # n
      /\ e \in Reachable(h, y) /\ n \notin Reachable(h, y) /\ y \in Reachable(h, r)
      /\ h[e]["left"] = NULL
      /\ \A x \in Reachable(h, y) \ {e} : h[e].data < h[x].data

(* The leftmost node below the right child of n is its successor.          *)
LEMMA SuccessorIs ==
  ASSUME NEW h, AvlRecords(h), NEW r, Tree(h, r), NEW n \in Reachable(h, r),
         h[n]["right"] # NULL
  PROVE  Successor(h, r, n, Leftmost(h, h[n]["right"]).end)
<1> DEFINE y == h[n]["right"]
           way == Leftmost(h, y)
           e == way.end
<1>1. T!Typed(h) /\ "right" \in Sides
  BY AvlTyped DEF Sides
<1>2. /\ Reachable(h, r) \subseteq DOMAIN h /\ y \in Reachable(h, r)
      /\ n \notin Reachable(h, y) /\ Reachable(h, y) \subseteq DOMAIN h
  BY <1>1, TreeIs, TreeReached
<1> HIDE DEF y
<1>3. /\ way = Walk(h, y, way.frames)
      /\ GoesLeft(h, y, way.frames)
  BY <1>1, <1>2, LeftmostIs
<1> HIDE DEF way
<1>4. /\ e \in Reachable(h, y) /\ h[e].left = NULL
      /\ \A x \in Reachable(h, y) \ {e} : h[e].data < h[x].data
  BY <1>3 DEF GoesLeft
<1> HIDE DEF e
<1>5. Successor(h, r, n, e)
  BY <1>2, <1>4 DEF Successor, y
<1> QED
  BY <1>5 DEF e, way, y

(* In the heap where n has the data of its successor, the search for this  *)
(* data below n ends at the successor.                                     *)
LEMMA SuccessorFound ==
  ASSUME NEW h, AvlRecords(h), NEW r, Tree(h, r), NEW n \in Reachable(h, r),
         NEW e, Successor(h, r, n, e)
  PROVE  LET k == WithData(h, n, h[e].data)
             way == Descent(k, h[n]["right"], h[e].data)
         IN  /\ Doubled(h, r, k, n, e)
             /\ way.end = e
             /\ Leads(h, h[n]["right"], way.frames, e)
<1> DEFINE y == h[n]["right"]
           d == h[e].data
           k == WithData(h, n, d)
           way == Descent(k, y, d)
<1>1. T!Typed(h) /\ n \in DOMAIN h
  BY AvlTyped, TreeReached
<1>2. /\ y \in DOMAIN h /\ e \in DOMAIN h /\ e # n
      /\ e \in Reachable(h, y) /\ n \notin Reachable(h, y) /\ y \in Reachable(h, r)
      /\ \A x \in Reachable(h, y) \ {e} : h[e].data < h[x].data
  BY DEF Successor
<1>3. /\ AvlRecords(k) /\ DOMAIN k = DOMAIN h
      /\ \A m \in DOMAIN h :
           /\ k[m].height = h[m].height
           /\ \A s \in Sides : k[m][s] = h[m][s]
           /\ k[m].data = IF m = n THEN d ELSE h[m].data
  <2>1. d \in Keys
    BY <1>2, AvlFields
  <2> HIDE DEF d
  <2> QED
    BY <1>1, <2>1, WithDataIs
<1> HIDE DEF k, y
<1>4. Doubled(h, r, k, n, e)
  BY <1>2, <1>3 DEF Doubled, y
<1>5. T!Typed(k)
  BY <1>3, AvlTyped
<1>6. Tree(h, y)
  BY <1>1, <1>2, Subtree
<1>7. Cut(h, k, y)
  <2>1. \A m \in Reachable(h, y), s \in Sides : h[m][s] # NULL => h[m][s] \in DOMAIN h
    BY <1>1, <1>6, TreeIs
  <2> QED
    BY <1>3, <2>1 DEF Cut
<1>8. CutOrder(h, k, y)
  <2> SUFFICES ASSUME NEW m \in Reachable(h, y), NEW s \in Sides,
                      NEW x \in Reachable(h, h[m][s])
               PROVE  k[x].data # k[m].data /\ SideOf(k[x].data, k[m].data) = s
    BY DEF CutOrder
  <2>1. h[x].data # h[m].data /\ SideOf(h[x].data, h[m].data) = s
    BY <1>1, <1>6, TreeIs
  <2>2. x \in Reachable(h, y) /\ Reachable(h, y) \subseteq DOMAIN h
    BY <1>1, TreeReached
  <2>3. k[x].data = h[x].data /\ k[m].data = h[m].data
    BY <1>2, <1>3, <2>2
  <2> QED
    BY <2>1, <2>3
<1>9. Tree(k, y) /\ Reachable(k, y) \subseteq Reachable(h, y)
  BY <1>1, <1>2, <1>3, <1>5, <1>6, <1>7, <1>8, CutTree
<1>10. Reachable(h, y) \subseteq Reachable(k, y)
  <2> DEFINE S == Reachable(k, y)
  <2>1. S \subseteq DOMAIN h /\ y \in S
    BY <1>2, <1>3, <1>5, TreeReached
  <2>2. \A m \in S, s \in Sides : h[m][s] \in DOMAIN h => h[m][s] \in S
    BY <1>3, <1>5, <2>1, TreeReached
  <2> HIDE DEF S
  <2> QED
    BY <1>1, <2>1, <2>2, TreeLeast DEF S
<1>11. WayTo(k, y, d, way)
  BY <1>3, <1>9, WayIs
<1> HIDE DEF way
<1>12. way.end = e
  <2>1. e \in Reachable(k, y) /\ k[e].data = d
    BY <1>2, <1>3, <1>10
  <2> QED
    BY <1>11, <2>1 DEF WayTo
<1>13. Leads(k, y, way.frames, e)
  BY <1>11, <1>12, WayLeads
<1>14. Leads(h, y, way.frames, e)
  <2> DEFINE fs == way.frames
  <2> HIDE DEF fs
  <2>1. /\ fs \in Seq([node : DOMAIN h, side : Sides]) /\ Len(fs) \in Nat
        /\ Chain(k, y, fs, Len(fs))
        /\ e = IF fs = <<>> THEN y ELSE k[fs[Len(fs)].node][fs[Len(fs)].side]
    BY <1>3, <1>13 DEF Leads, fs
  <2>2. Chain(h, y, fs, Len(fs))
    BY <1>3, <2>1 DEF Chain
  <2>3. fs # <<>> => Len(fs) \in 1 .. Len(fs)
    BY <2>1
  <2>4. fs # <<>> => fs[Len(fs)].node \in DOMAIN h /\ fs[Len(fs)].side \in Sides
    BY <2>2, <2>3 DEF Chain
  <2> QED
    BY <1>3, <2>1, <2>2, <2>4 DEF Leads, fs
<1> QED
  BY <1>4, <1>12, <1>14 DEF way, k, y

(* avl_delete_node.                                                        *)
LEMMA DeleteWhole ==
  ASSUME Whole(avl_heap, avl_root), status \in {"running", "ended"},
         NEW key \in Keys, Avl!Delete(key)
  PROVE  Whole(avl_heap', avl_root') /\ status' \in {"running", "ended"}
<1> DEFINE h == avl_heap
           r == avl_root
           way == Descent(h, r, key)
           n == way.end
           fs == way.frames
           y == h[n]["right"]
           e == Leftmost(h, y).end
           k == WithData(h, n, h[e].data)
           below == Descent(k, y, h[e].data)
           deep == fs \o <<[node |-> n, side |-> "right"]>> \o below.frames
           Start(g) == [heap |-> g, root |-> r, top |-> NULL, ok |-> TRUE]
<1>1. AvlRecords(h) /\ Tree(h, r) /\ T!Typed(h)
  BY WholeIs
<1>2. WayTo(h, r, key, way)
  BY <1>1, WayIs
<1>3. /\ Len(fs) \in Nat /\ Chain(h, r, fs, Len(fs))
      /\ n \in Reachable(h, r) \cup {NULL}
  BY <1>2 DEF WayTo
<1>4. Leads(h, r, fs, n)
  BY <1>2, WayLeads
<1>5. Avl!Finish(
        CASE n = NULL -> Avl!Return(Start(h), fs, "delete", key)
          [] n # NULL /\ (\E s \in Sides : h[n][s] = NULL) ->
               Avl!Return(Avl!DeleteHere(Start(h), n), fs, "delete", key)
          [] OTHER ->
               Avl!Return(Avl!DeleteHere([Start(h) EXCEPT !.heap = k], below.end), deep,
                          "delete", key))
  BY AvlDescent, AvlLeftmost, AvlNames DEF Avl!Delete, WithData
<1> HIDE DEF way, e, k, below
<1>6. CASE n = NULL
  <2> DEFINE a == Avl!Return(Start(h), fs, "delete", key)
  <2>1. Avl!Finish(a)
    BY <1>5, <1>6
  <2>2. Settled(Start(h), fs, Len(fs))
    <3>1. Returning(Start(h), fs, Len(fs))
      BY <1>3, NullReturns
    <3> QED
      BY <3>1 DEF Settled
  <2> HIDE DEF Start
  <2>3. Settled(a, fs, 0)
    BY <1>3, <2>2, ReturnSettles
  <2> HIDE DEF a
  <2> QED
    BY <2>1, <2>3, FinishWhole
<1>7. CASE n # NULL /\ \E s \in Sides : h[n][s] = NULL
  <2> DEFINE a == Avl!Return(Avl!DeleteHere(Start(h), n), fs, "delete", key)
  <2>1. Avl!Finish(a)
    BY <1>5, <1>7
  <2>2. n \in DOMAIN h /\ NULL \notin Reachable(h, r)
    BY <1>1, <1>3, <1>7, TreeIs
  <2>3. Doubled(h, r, h, NULL, n)
    <3>1. NULL \notin DOMAIN h
      BY <1>1, TreeIs
    <3> QED
      BY <1>1, <2>2, <3>1 DEF Doubled
  <2>4. Settled(a, fs, 0)
    BY <1>4, <1>7, <2>2, <2>3, DeleteAt
  <2> HIDE DEF a
  <2> QED
    BY <2>1, <2>4, FinishWhole
<1>8. CASE n # NULL /\ ~ \E s \in Sides : h[n][s] = NULL
  <2> DEFINE a == Avl!Return(Avl!DeleteHere(Start(k), e), deep, "delete", key)
  <2>1. /\ n \in Reachable(h, r) /\ n \in DOMAIN h
        /\ "right" \in Sides /\ y # NULL
    BY <1>1, <1>3, <1>8, TreeReached DEF Sides
  <2>2. Successor(h, r, n, e)
    BY <1>1, <2>1, SuccessorIs DEF e
  <2>3. /\ Doubled(h, r, k, n, e) /\ below.end = e
        /\ Leads(h, y, below.frames, e)
    BY <1>1, <2>1, <2>2, SuccessorFound DEF k, below
  <2>4. Leads(h, r, deep, e)
    <3> DEFINE one == <<[node |-> n, side |-> "right"]>>
    <3>1. Leads(h, n, one, y)
      BY <2>1, LeadsOne
    <3> HIDE DEF one, y
    <3>2. Leads(h, r, fs \o one, y)
      BY <1>4, <3>1, LeadsOn
    <3>3. Leads(h, r, (fs \o one) \o below.frames, e)
      BY <2>3, <3>2, LeadsOn
    <3> QED
      BY <3>3 DEF one
  <2>5. [Start(h) EXCEPT !.heap = k] = Start(k)
    <3>1. Made(Start(h), h, r, NULL, TRUE)
      BY DEF Made
    <3> DEFINE m == Start(h)
    <3> HIDE DEF m
    <3>2. Made([m EXCEPT !.heap = k], k, r, NULL, TRUE)
      BY <3>1, FieldPut, Zenon DEF m
    <3> QED
      BY <3>2, Zenon DEF Made, m
  <2> HIDE DEF deep
  <2>6. Avl!Finish(a)
    BY <1>5, <1>8, <2>3, <2>5
  <2>7. e \in DOMAIN h /\ \E s \in Sides : h[e][s] = NULL
    BY <2>2 DEF Successor, Sides
  <2>8. Settled(a, deep, 0)
    BY <2>3, <2>4, <2>7, DeleteAt
  <2> HIDE DEF a
  <2> QED
    BY <2>6, <2>8, FinishWhole
<1> QED
  BY <1>6, <1>7, <1>8

-----------------------------------------------------------------------------
(* The invariant.                                                          *)
AvlSafe == Whole(avl_heap, avl_root) /\ status \in {"running", "ended"}

LEMMA EmptyWhole ==
  ASSUME NEW h, AvlRecords(h), \A n \in DOMAIN h : h[n].height <= Cardinality(Nodes)
  PROVE  Whole(h, NULL)
<1>1. Tree(h, NULL) /\ Reachable(h, NULL) = {}
  BY EmptyTree
<1> QED
  BY <1>1 DEF Whole, Exact

LEMMA AvlInitSafe == Avl!Init => AvlSafe
<1> SUFFICES ASSUME Avl!Init PROVE AvlSafe
  OBVIOUS
<1>1. AvlRecords(<<>>) /\ \A n \in DOMAIN <<>> : <<>>[n].height <= Cardinality(Nodes)
  BY DEF AvlRecords
<1>2. Whole(<<>>, NULL)
  BY <1>1, EmptyWhole
<1> QED
  BY <1>2 DEF Avl!Init, AvlSafe

(* Every call of avl_insert, avl_delete_node and avl_destroy_tree keeps    *)
(* it.                                                                     *)
LEMMA AvlStepSafe == AvlSafe /\ [Avl!Next]_(Avl!vars) => AvlSafe'
<1> SUFFICES ASSUME AvlSafe, [Avl!Next]_(Avl!vars) PROVE AvlSafe'
  OBVIOUS
<1>1. Whole(avl_heap, avl_root) /\ status \in {"running", "ended"}
  BY DEF AvlSafe
<1>2. ASSUME NEW key \in Keys, Avl!Insert(key)
      PROVE  AvlSafe'
  BY <1>1, <1>2, InsertWhole DEF AvlSafe
<1>3. ASSUME NEW key \in Keys, Avl!Delete(key)
      PROVE  AvlSafe'
  BY <1>1, <1>3, DeleteWhole DEF AvlSafe
<1>4. CASE Avl!Destroy
  <2> DEFINE g == [n \in DOMAIN avl_heap \ Avl!Reachable(avl_heap, avl_root) |-> avl_heap[n]]
  <2>1. avl_heap' = g /\ avl_root' = NULL /\ status' = status
    BY <1>4 DEF Avl!Destroy
  <2>2. AvlRecords(g) /\ \A n \in DOMAIN g : g[n].height <= Cardinality(Nodes)
    <3>1. AvlRecords(avl_heap) /\ \A n \in DOMAIN avl_heap : avl_heap[n].height <= Cardinality(Nodes)
      BY <1>1, WholeIs
    <3> QED
      BY <3>1 DEF AvlRecords
  <2> HIDE DEF g
  <2>3. Whole(g, NULL)
    BY <2>2, EmptyWhole
  <2> QED
    BY <1>1, <2>1, <2>3 DEF AvlSafe
<1>5. CASE UNCHANGED Avl!vars
  BY <1>1, <1>5 DEF Avl!vars, AvlSafe
<1> QED
  BY <1>2, <1>3, <1>4, <1>5 DEF Avl!Next

(* It is what the run checks, and the bound of the heights by the number   *)
(* of nodes follows from their being exact.                                *)
LEMMA AvlSafeIs == AvlSafe => AvlSound
<1> SUFFICES ASSUME AvlSafe PROVE AvlSound
  OBVIOUS
<1> DEFINE h == avl_heap
           r == avl_root
<1>1. /\ AvlRecords(h) /\ Tree(h, r) /\ T!Typed(h)
      /\ Exact(h, Reachable(h, r))
      /\ \A n \in DOMAIN h : h[n].height <= Cardinality(Nodes)
  BY WholeIs DEF AvlSafe
<1>2. /\ Reachable(h, r) \subseteq DOMAIN h /\ DOMAIN h \subseteq Nodes
      /\ r \in Reachable(h, r) \cup {NULL}
      /\ \A n \in Reachable(h, r), s \in Sides : h[n][s] \in DOMAIN h \cup {NULL}
  <2>1. DOMAIN h \subseteq Nodes
    BY <1>1 DEF AvlRecords
  <2> HIDE DEF h, r
  <2> QED
    BY <1>1, <2>1, TreeIs
<1>3. Avl!TypeOK
  <2>1. ASSUME NEW n \in DOMAIN h
        PROVE  h[n] \in [data : Keys, height : 1 .. Cardinality(Nodes),
                         left : Links, right : Links]
    <3>1. h[n] \in AvlNodes
      BY <1>1 DEF AvlRecords
    <3>2. Cardinality(Nodes) \in Nat
      BY BinaryTreeAssumption, FS_CardinalityType
    <3>3. h[n].height \in 1 .. Cardinality(Nodes)
      BY <1>1, <3>1, <3>2 DEF AvlNodes
    <3> QED
      BY <3>1, <3>3 DEF AvlNodes
  <2>2. r \in Links
    BY <1>2 DEF Links
  <2>3. Avl!Links = Links /\ Avl!Cardinality(Nodes) = Cardinality(Nodes)
    BY AvlNames
  <2> QED
    BY <1>2, <2>1, <2>2, <2>3 DEF Avl!TypeOK, AvlSafe
<1>4. Avl!SearchTree
  BY <1>1, AvlTree DEF Avl!SearchTree
<1>5. Avl!HeightsExact
  <2>1. Avl!Reachable(h, r) = Reachable(h, r)
    BY AvlReachable
  <2>2. ASSUME NEW n \in Reachable(h, r)
        PROVE  h[n].height = Avl!Updated(h, n)[n].height
    <3>1. Risen(h, Avl!Updated(h, n), n)
      BY <1>1, <1>2, UpdatedIs
    <3>2. h[n].height = Rise(h, n)
      BY <1>1 DEF Exact
    <3> QED
      BY <3>1, <3>2 DEF Risen
  <2> QED
    BY <2>1, <2>2 DEF Avl!HeightsExact
<1> QED
  BY <1>3, <1>4, <1>5 DEF AvlSound

(* avl_root leads to a search tree without a dangling link, in which every *)
(* cached height is the height of its subtree.                             *)
THEOREM AvlAlwaysSound == Avl!Spec => []AvlSound
<1>1. Avl!Init => AvlSafe
  BY AvlInitSafe
<1>2. AvlSafe /\ [Avl!Next]_(Avl!vars) => AvlSafe'
  BY AvlStepSafe
<1>3. AvlSafe => AvlSound
  BY AvlSafeIs
<1> QED
  BY <1>1, <1>2, <1>3, PTL DEF Avl!Spec

(* A call on one of the trees leaves the other one alone.                  *)
LEMMA TreesStep == (AvlSafe /\ Safe) /\ [TreesNext]_treesVars => (AvlSafe /\ Safe)'
<1> SUFFICES ASSUME AvlSafe, Safe, [TreesNext]_treesVars PROVE AvlSafe' /\ Safe'
  OBVIOUS
<1>1. CASE Avl!Next /\ UNCHANGED rb
  <2>1. AvlSafe'
    BY <1>1, AvlStepSafe
  <2> QED
    BY <1>1, <2>1 DEF AvlSafe, Safe, rb
<1>2. CASE Next /\ UNCHANGED avl
  <2>1. Safe'
    BY <1>2, StepSafe
  <2> QED
    BY <1>2, <2>1 DEF AvlSafe, Safe, avl
<1>3. CASE status = "running" /\ (\E key \in Keys : Insert(key)) /\ UNCHANGED avl
  <2>1. Next
    BY <1>3 DEF Next
  <2> QED
    BY <1>2, <1>3, <2>1
<1>4. CASE UNCHANGED treesVars
  BY <1>4 DEF AvlSafe, Safe, avl, rb, treesVars
<1> QED
  BY <1>1, <1>2, <1>3, <1>4 DEF TreesNext

(* The two trees of a program, each used with the other one left alone:    *)
(* both are sound search trees after every call.                           *)
THEOREM TreesAlwaysSound ==
  TreesSpec => [](AvlSound /\ TypeOK /\ WellLinked /\ ValidColors)
<1>1. TreesInit => AvlSafe /\ Safe
  BY AvlInitSafe, InitSafe DEF TreesInit
<1>2. (AvlSafe /\ Safe) /\ [TreesNext]_treesVars => (AvlSafe /\ Safe)'
  BY TreesStep
<1>3. AvlSafe /\ Safe => AvlSound /\ TypeOK /\ WellLinked /\ ValidColors
  BY AvlSafeIs, GoodIs DEF Safe, WellLinked
<1> QED
  BY <1>1, <1>2, <1>3, PTL DEF TreesSpec
=============================================================================
