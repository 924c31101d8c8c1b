----------------------------- MODULE BSTProofs -----------------------------
(***************************************************************************)
(* Theorems about module BST, for every set of keys and every number of    *)
(* nodes.                                                                  *)
(***************************************************************************)
EXTENDS BST, FiniteSetTheorems, SequenceTheorems, TLAPS

(* What the lemmas ask of a heap, whatever else its nodes hold.            *)
Typed(h) ==
  /\ DOMAIN h \subseteq Nodes
  /\ \A n \in DOMAIN h : h[n].data \in Keys /\ \A s \in Sides : h[n][s] \in Links

(* What the nodes of bst are.                                              *)
Records(h) ==
  /\ DOMAIN h \subseteq Nodes
  /\ \A n \in DOMAIN h : h[n] \in [data : Keys, left : Links, right : Links]

LEMMA RecordsTyped ==
  ASSUME NEW h, Records(h)
  PROVE  Typed(h)
BY DEF Records, Typed, Sides

LEMMA LinksTyped ==
  ASSUME NEW h, Typed(h), NEW n \in DOMAIN h
  PROVE  /\ \A s \in Sides : h[n][s] \in Links
         /\ h[n].data \in Keys /\ n \in Nodes /\ n \in Links
BY DEF Typed, Sides, Links

LEMMA Counting ==
  ASSUME NEW h, Typed(h)
  PROVE  IsFiniteSet(DOMAIN h) /\ Cardinality(DOMAIN h) \in Nat
BY BinaryTreeAssumption, FS_Subset, FS_CardinalityType DEF Typed

LEMMA LeastNatural ==
  ASSUME NEW S \in SUBSET Nat, S # {}
  PROVE  \E m \in S : \A n \in S : m <= n
<1> DEFINE R == OpToRel(<, Nat)
<1>1. IsWellFoundedOn(R, Nat)
  BY NatLessThanWellFounded
<1>2. \A n, m \in Nat : n < m => <<n, m>> \in R
  BY DEF OpToRel
<1> HIDE DEF R
<1>3. PICK m \in S : \A n \in S : <<n, m>> \notin R
  BY <1>1, WFMin
<1>4. \A n \in S : m <= n
  <2> TAKE n \in S
  <2>1. n \in Nat /\ m \in Nat
    OBVIOUS
  <2>2. ~(n < m)
    BY <1>2, <1>3, <2>1
  <2> QED
    BY <2>1, <2>2
<1> QED
  BY <1>4

-----------------------------------------------------------------------------
(* The search from a node: the frames, as the recursion builds them, exist *)
(* for every bound on their number.                                        *)

DescentFrames(h, key, most, f) ==
  f = [w \in Links \X (0 .. most) |->
         LET n == w[1]
             side == SideOf(key, h[n].data)
         IN  IF w[2] = 0 \/ n \notin DOMAIN h THEN <<>>
             ELSE IF h[n].data = key THEN <<>>
             ELSE <<[node |-> n, side |-> side]>> \o f[<<h[n][side], w[2] - 1>>]]

LEMMA DescentIsWalk ==
  ASSUME NEW h, NEW node, NEW key
  PROVE  Descent(h, node, key) =
           Walk(h, node, (CHOOSE f : DescentFrames(h, key, Cardinality(DOMAIN h), f))
                           [<<node, Cardinality(DOMAIN h)>>])
BY DEF Descent, DescentFrames

LEMMA DescentFramesExist ==
  ASSUME NEW h, Typed(h), NEW key, NEW most \in Nat
  PROVE  \E f : DescentFrames(h, key, most, f)
<1> DEFINE E == {k \in Nat : \E f : DescentFrames(h, key, k, f)}
<1>1. 0 \in E
  <2> DEFINE f == [w \in Links \X (0 .. 0) |-> <<>>]
  <2>1. \A w \in Links \X (0 .. 0) : w[2] = 0
    OBVIOUS
  <2>2. DescentFrames(h, key, 0, f)
    BY <2>1 DEF DescentFrames
  <2> QED
    BY <2>2
<1>2. ASSUME NEW k \in E
      PROVE  k + 1 \in E
  <2>1. PICK f : DescentFrames(h, key, k, f)
    OBVIOUS
  <2> DEFINE g == [w \in Links \X (0 .. k + 1) |->
                     IF w[2] = 0 \/ w[1] \notin DOMAIN h THEN <<>>
                     ELSE IF h[w[1]].data = key THEN <<>>
                     ELSE <<[node |-> w[1], side |-> SideOf(key, h[w[1]].data)]>>
                            \o f[<<h[w[1]][SideOf(key, h[w[1]].data)], w[2] - 1>>]]
  <2>2. \A w \in Links \X (0 .. k) : g[w] = f[w]
    <3> TAKE w \in Links \X (0 .. k)
    <3>1. w \in Links \X (0 .. k + 1)
      BY SMT
    <3> QED
      BY <2>1, <3>1, Zenon DEF DescentFrames
  <2>3. DescentFrames(h, key, k + 1, g)
    <3>1. ASSUME NEW w \in Links \X (0 .. k + 1), w[2] # 0, w[1] \in DOMAIN h
          PROVE  <<h[w[1]][SideOf(key, h[w[1]].data)], w[2] - 1>> \in Links \X (0 .. k)
      BY <3>1, LinksTyped DEF SideOf, Sides
    <3> QED
      BY <3>1, <2>2, Zenon DEF DescentFrames
  <2> QED
    BY <2>3
<1>3. most \in E
  <2> SUFFICES ASSUME most \notin E PROVE FALSE
    OBVIOUS
  <2>1. PICK m \in Nat \ E : \A n \in Nat \ E : m <= n
    BY LeastNatural
  <2>2. m # 0 /\ m - 1 \in Nat
    BY <1>1, <2>1
  <2>3. m - 1 \in E
    BY <2>1, <2>2
  <2> HIDE DEF E
  <2>4. (m - 1) + 1 = m
    BY <2>2
  <2> QED
    BY <1>2, <2>1, <2>3, <2>4
<1> QED
  BY <1>3

(* What such frames are: each goes to the side of the key, to the next     *)
(* one's node, and they stop when the room is used up, where no node is,   *)
(* or at a node with the key.                                              *)
Going(h, key, start, fs, room) ==
  /\ fs \in Seq([node : DOMAIN h, side : Sides])
  /\ Len(fs) <= room
  /\ fs # <<>> => fs[1].node = start
  /\ \A i \in 1 .. Len(fs) :
       /\ h[fs[i].node].data # key
       /\ fs[i].side = SideOf(key, h[fs[i].node].data)
  /\ \A i \in 1 .. Len(fs) - 1 : h[fs[i].node][fs[i].side] = fs[i + 1].node
  /\ Walk(h, start, fs).end \in Links
  /\ \/ Len(fs) = room
     \/ Walk(h, start, fs).end \notin DOMAIN h
     \/ h[Walk(h, start, fs).end].data = key

LEMMA GoingNowhere ==
  ASSUME NEW h, Typed(h), NEW key, NEW start \in Links, NEW room \in Nat,
         room = 0 \/ start \notin DOMAIN h \/ h[start].data = key
  PROVE  Going(h, key, start, <<>>, room)
<1>1. <<>> \in Seq([node : DOMAIN h, side : Sides]) /\ Len(<<>>) = 0
  BY EmptySeq
<1>2. Walk(h, start, <<>>).end = start
  BY DEF Walk
<1> QED
  BY <1>1, <1>2 DEF Going

LEMMA GoingOn ==
  ASSUME NEW h, Typed(h), NEW key, NEW n \in DOMAIN h, h[n].data # key,
         NEW room \in Nat, room # 0,
         NEW rest, Going(h, key, h[n][SideOf(key, h[n].data)], rest, room - 1)
  PROVE  Going(h, key, n, <<[node |-> n, side |-> SideOf(key, h[n].data)]>> \o rest, room)
<1> DEFINE side == SideOf(key, h[n].data)
           fr == [node |-> n, side |-> side]
           S == [node : DOMAIN h, side : Sides]
           fs == <<fr>> \o rest
<1>1. side \in Sides
  BY DEF SideOf, Sides
<1>2. fr \in S /\ <<fr>> \in Seq(S) /\ rest \in Seq(S) /\ Len(rest) <= room - 1
  BY <1>1 DEF Going
<1>3. /\ fs \in Seq(S) /\ Len(fs) = Len(rest) + 1 /\ Len(rest) \in Nat
      /\ fs[1] = fr
      /\ \A i \in 1 .. Len(rest) : fs[i + 1] = rest[i]
  <2>1. Len(<<fr>>) = 1 /\ <<fr>>[1] = fr
    OBVIOUS
  <2>2. fs \in Seq(S) /\ Len(fs) = Len(rest) + 1 /\ Len(rest) \in Nat
    BY <1>2, <2>1, ConcatProperties, LenProperties
  <2>3. \A i \in 1 .. Len(<<fr>>) + Len(rest) :
          fs[i] = IF i <= Len(<<fr>>) THEN <<fr>>[i] ELSE rest[i - Len(<<fr>>)]
    BY <1>2, ConcatProperties
  <2>4. \A i \in 1 .. 1 + Len(rest) : fs[i] = IF i <= 1 THEN <<fr>>[i] ELSE rest[i - 1]
    BY <2>1, <2>3
  <2>5. fs[1] = fr
    BY <2>1, <2>2, <2>4
  <2>6. ASSUME NEW i \in 1 .. Len(rest)
        PROVE  fs[i + 1] = rest[i]
    <3>1. i + 1 \in 1 .. 1 + Len(rest) /\ ~(i + 1 <= 1) /\ (i + 1) - 1 = i
      BY <2>2
    <3>2. fs[i + 1] = rest[(i + 1) - 1]
      BY <2>4, <3>1
    <3> QED
      BY <3>1, <3>2
  <2> QED
    BY <2>2, <2>5, <2>6
<1>4. fs # <<>> /\ fs[1].node = n
  BY <1>3
<1> DEFINE c == h[n][side]
<1>5. c \in Links /\ (rest # <<>> => rest[1].node = c)
  BY <1>1, LinksTyped DEF Going
<1>6. Walk(h, n, fs).end = Walk(h, c, rest).end
  <2>1. Walk(h, n, fs).end = h[fs[Len(fs)].node][fs[Len(fs)].side]
    BY <1>4 DEF Walk
  <2>2. CASE rest = <<>>
    <3>1. Len(fs) = 1
      BY <1>3, <2>2
    <3>2. Walk(h, c, rest).end = c
      BY <2>2 DEF Walk
    <3> QED
      BY <1>3, <2>1, <3>1, <3>2
  <2>3. CASE rest # <<>>
    <3>1. Walk(h, c, rest).end = h[rest[Len(rest)].node][rest[Len(rest)].side]
      BY <2>3 DEF Walk
    <3>2. Len(rest) \in 1 .. Len(rest)
      BY <1>2, <2>3, EmptySeq, LenProperties
    <3>3. fs[Len(fs)] = rest[Len(rest)]
      BY <1>3, <3>2
    <3> QED
      BY <2>1, <3>1, <3>3
  <2> QED
    BY <2>2, <2>3
<1> HIDE DEF fs
<1>7. \A i \in 1 .. Len(fs) :
        h[fs[i].node].data # key /\ fs[i].side = SideOf(key, h[fs[i].node].data)
  <2> TAKE i \in 1 .. Len(fs)
  <2>1. CASE i = 1
    BY <1>3, <2>1
  <2>2. CASE i # 1
    <3>1. i - 1 \in 1 .. Len(rest) /\ (i - 1) + 1 = i
      BY <1>3, <2>2
    <3>2. fs[i] = rest[i - 1]
      BY <1>3, <3>1
    <3> QED
      BY <3>1, <3>2 DEF Going
  <2> QED
    BY <2>1, <2>2
<1>8. \A i \in 1 .. Len(fs) - 1 : h[fs[i].node][fs[i].side] = fs[i + 1].node
  <2> TAKE i \in 1 .. Len(fs) - 1
  <2>1. i \in 1 .. Len(rest) /\ fs[i + 1] = rest[i]
    BY <1>3
  <2>2. CASE i = 1
    <3>1. rest # <<>>
      BY <2>1, <2>2
    <3> QED
      BY <1>3, <1>5, <2>1, <2>2, <3>1
  <2>3. CASE i # 1
    <3>1. i - 1 \in 1 .. Len(rest) - 1 /\ i - 1 \in 1 .. Len(rest) /\ (i - 1) + 1 = i
      BY <1>3, <2>1, <2>3
    <3>2. fs[i] = rest[i - 1]
      BY <1>3, <3>1
    <3>3. h[rest[i - 1].node][rest[i - 1].side] = rest[i].node
      BY <3>1 DEF Going
    <3> QED
      BY <2>1, <3>2, <3>3
  <2> QED
    BY <2>2, <2>3
<1>9. /\ Walk(h, n, fs).end \in Links
      /\ \/ Len(fs) = room
         \/ Walk(h, n, fs).end \notin DOMAIN h
         \/ h[Walk(h, n, fs).end].data = key
  BY <1>3, <1>6 DEF Going
<1>10. Len(fs) <= room
  BY <1>2, <1>3
<1>11. Going(h, key, n, fs, room)
  BY <1>3, <1>4, <1>7, <1>8, <1>9, <1>10 DEF Going
<1> QED
  BY <1>11 DEF fs

LEMMA FramesGo ==
  ASSUME NEW h, Typed(h), NEW key, NEW most \in Nat, NEW f, DescentFrames(h, key, most, f),
         NEW n \in Links, NEW room \in 0 .. most
  PROVE  Going(h, key, n, f[<<n, room>>], room)
<1> DEFINE E == {k \in Nat : k > most \/ \A m \in Links : Going(h, key, m, f[<<m, k>>], k)}
<1>1. \A m \in Links, k \in 0 .. most :
        f[<<m, k>>] = IF k = 0 \/ m \notin DOMAIN h THEN <<>>
                      ELSE IF h[m].data = key THEN <<>>
                      ELSE <<[node |-> m, side |-> SideOf(key, h[m].data)]>>
                             \o f[<<h[m][SideOf(key, h[m].data)], k - 1>>]
  <2> TAKE m \in Links, k \in 0 .. most
  <2> DEFINE w == <<m, k>>
  <2>1. w \in Links \X (0 .. most) /\ w[1] = m /\ w[2] = k
    OBVIOUS
  <2> HIDE DEF w
  <2>2. f[w] = IF w[2] = 0 \/ w[1] \notin DOMAIN h THEN <<>>
               ELSE IF h[w[1]].data = key THEN <<>>
               ELSE <<[node |-> w[1], side |-> SideOf(key, h[w[1]].data)]>>
                      \o f[<<h[w[1]][SideOf(key, h[w[1]].data)], w[2] - 1>>]
    BY <2>1, Zenon DEF DescentFrames
  <2> QED
    BY <2>1, <2>2 DEF w
<1>2. 0 \in E
  <2> SUFFICES ASSUME NEW m \in Links
               PROVE  Going(h, key, m, f[<<m, 0>>], 0)
    OBVIOUS
  <2>0. 0 \in 0 .. most
    OBVIOUS
  <2>1. f[<<m, 0>>] = <<>>
    BY <1>1, <2>0, Zenon
  <2> QED
    BY <2>1, GoingNowhere
<1>3. ASSUME NEW k \in E
      PROVE  k + 1 \in E
  <2> SUFFICES ASSUME k + 1 <= most, NEW m \in Links
               PROVE  Going(h, key, m, f[<<m, k + 1>>], k + 1)
    OBVIOUS
  <2>1. k + 1 \in 0 .. most /\ k + 1 # 0 /\ (k + 1) - 1 = k /\ k + 1 \in Nat
    OBVIOUS
  <2>2. CASE m \notin DOMAIN h
    BY <1>1, <2>1, <2>2, GoingNowhere
  <2>3. CASE m \in DOMAIN h /\ h[m].data = key
    BY <1>1, <2>1, <2>3, GoingNowhere
  <2>4. CASE m \in DOMAIN h /\ h[m].data # key
    <3> DEFINE c == h[m][SideOf(key, h[m].data)]
    <3>1. c \in Links
      BY <2>4, LinksTyped DEF SideOf, Sides
    <3>2. Going(h, key, c, f[<<c, k>>], k)
      BY <2>1, <3>1
    <3>3. f[<<m, k + 1>>] = <<[node |-> m, side |-> SideOf(key, h[m].data)]>> \o f[<<c, k>>]
      BY <1>1, <2>1, <2>4
    <3> HIDE DEF E
    <3> QED
      BY <2>1, <2>4, <3>2, <3>3, GoingOn
  <2> QED
    BY <2>2, <2>3, <2>4
<1>4. room \in E
  <2> SUFFICES ASSUME room \notin E PROVE FALSE
    OBVIOUS
  <2>0. room \in Nat \ E /\ Nat \ E \in SUBSET Nat
    OBVIOUS
  <2> HIDE DEF E
  <2>1. PICK m \in Nat \ E : \A i \in Nat \ E : m <= i
    BY <2>0, LeastNatural
  <2>2. m # 0 /\ m - 1 \in Nat
    BY <1>2, <2>1
  <2>3. m - 1 \in E
    BY <2>1, <2>2
  <2>4. (m - 1) + 1 = m
    BY <2>2
  <2> QED
    BY <1>3, <2>1, <2>3, <2>4
<1> QED
  BY <1>4

(* The search from a node of a typed heap.                                 *)
LEMMA DescentGoes ==
  ASSUME NEW h, Typed(h), NEW key, NEW n \in Links
  PROVE  LET way == Descent(h, n, key)
         IN  /\ way = Walk(h, n, way.frames)
             /\ Going(h, key, n, way.frames, Cardinality(DOMAIN h))
<1> DEFINE most == Cardinality(DOMAIN h)
           f == CHOOSE g : DescentFrames(h, key, most, g)
<1>1. most \in Nat
  BY Counting
<1>2. DescentFrames(h, key, most, f)
  <2>1. \E g : DescentFrames(h, key, most, g)
    BY <1>1, DescentFramesExist
  <2> QED
    BY <2>1
<1>3. Descent(h, n, key) = Walk(h, n, f[<<n, most>>])
  BY DescentIsWalk
<1> HIDE DEF f
<1>4. Going(h, key, n, f[<<n, most>>], most)
  BY <1>1, <1>2, FramesGo
<1>5. Walk(h, n, f[<<n, most>>]).frames = f[<<n, most>>]
  BY DEF Walk
<1> QED
  BY <1>3, <1>4, <1>5

-----------------------------------------------------------------------------
(* Reachable: the least set of allocated nodes that the links do not leave *)
(* and that has the node, if it is allocated.                              *)

Closed(h, S) ==
  /\ S \subseteq DOMAIN h
  /\ \A m \in S, s \in Sides : h[m][s] \in DOMAIN h => h[m][s] \in S

Below(h, S) == {h[n][s] : n \in S, s \in Sides} \cap DOMAIN h

Layers(h, node, most, f) ==
  f = [steps \in 0 .. most |->
         LET S == f[steps - 1]
         IN  IF steps = 0 THEN {node} \cap DOMAIN h ELSE S \cup Below(h, S)]

LEMMA ReachableIsLayer ==
  ASSUME NEW h, NEW node
  PROVE  Reachable(h, node) = (CHOOSE f : Layers(h, node, Cardinality(DOMAIN h), f))
                                [Cardinality(DOMAIN h)]
BY DEF Reachable, Layers, Below

LayerSteps(h, node, most, f) ==
  /\ f[0] = {node} \cap DOMAIN h
  /\ \A k \in 0 .. most : k # 0 => f[k] = f[k - 1] \cup Below(h, f[k - 1])

LEMMA LayersAre ==
  ASSUME NEW h, NEW node, NEW most \in Nat, NEW f, Layers(h, node, most, f)
  PROVE  LayerSteps(h, node, most, f)
<1>1. f = [steps \in 0 .. most |-> IF steps = 0 THEN {node} \cap DOMAIN h
                                   ELSE f[steps - 1] \cup Below(h, f[steps - 1])]
  BY Zenon DEF Layers
<1>2. 0 \in 0 .. most
  OBVIOUS
<1>3. \A k \in 0 .. most : f[k] = IF k = 0 THEN {node} \cap DOMAIN h
                                  ELSE f[k - 1] \cup Below(h, f[k - 1])
  BY <1>1, Zenon
<1> QED
  BY <1>2, <1>3, Zenon DEF LayerSteps

LEMMA AreLayers ==
  ASSUME NEW h, NEW node, NEW most \in Nat, NEW f,
         f = [steps \in 0 .. most |-> f[steps]],
         f[0] = {node} \cap DOMAIN h,
         \A k \in 0 .. most : k # 0 => f[k] = f[k - 1] \cup Below(h, f[k - 1])
  PROVE  Layers(h, node, most, f)
<1> DEFINE g == [k \in 0 .. most |-> IF k = 0 THEN {node} \cap DOMAIN h
                                     ELSE f[k - 1] \cup Below(h, f[k - 1])]
<1>1. \A k \in 0 .. most : f[k] = g[k]
  <2> TAKE k \in 0 .. most
  <2>1. g[k] = IF k = 0 THEN {node} \cap DOMAIN h ELSE f[k - 1] \cup Below(h, f[k - 1])
    BY Zenon
  <2> HIDE DEF g
  <2> QED
    BY <2>1
<1>2. g = [k \in 0 .. most |-> g[k]]
  OBVIOUS
<1> HIDE DEF g
<1>3. f = g
  BY <1>1, <1>2, Zenon
<1> QED
  BY <1>3 DEF g, Layers

LEMMA LayersExist ==
  ASSUME NEW h, NEW node, NEW most \in Nat
  PROVE  \E f : Layers(h, node, most, f)
<1> DEFINE E == {k \in Nat : \E f : Layers(h, node, k, f)}
<1>1. 0 \in E
  <2> DEFINE f == [k \in 0 .. 0 |-> {node} \cap DOMAIN h]
  <2>1. f = [k \in 0 .. 0 |-> f[k]] /\ f[0] = {node} \cap DOMAIN h
    OBVIOUS
  <2>2. \A k \in 0 .. 0 : ~(k # 0)
    OBVIOUS
  <2> HIDE DEF f
  <2>3. Layers(h, node, 0, f)
    BY <2>1, <2>2, AreLayers
  <2> QED
    BY <2>3
<1>2. ASSUME NEW k \in E
      PROVE  k + 1 \in E
  <2>1. PICK f : Layers(h, node, k, f)
    OBVIOUS
  <2> DEFINE g == [i \in 0 .. k + 1 |-> IF i = k + 1 THEN f[k] \cup Below(h, f[k]) ELSE f[i]]
  <2>2. /\ f[0] = {node} \cap DOMAIN h
        /\ \A i \in 0 .. k : i # 0 => f[i] = f[i - 1] \cup Below(h, f[i - 1])
    BY <2>1, LayersAre DEF LayerSteps
  <2>3. g = [i \in 0 .. k + 1 |-> g[i]]
    OBVIOUS
  <2>4. \A i \in 0 .. k : g[i] = f[i]
    OBVIOUS
  <2>5. g[k + 1] = f[k] \cup Below(h, f[k])
    OBVIOUS
  <2> HIDE DEF g
  <2>6. g[0] = {node} \cap DOMAIN h
    BY <2>2, <2>4
  <2>7. ASSUME NEW i \in 0 .. k + 1, i # 0
        PROVE  g[i] = g[i - 1] \cup Below(h, g[i - 1])
    <3>1. i - 1 \in 0 .. k
      BY <2>7
    <3>2. CASE i = k + 1
      BY <2>4, <2>5, <3>1, <3>2
    <3>3. CASE i # k + 1
      <4>1. i \in 0 .. k
        BY <3>3
      <4> QED
        BY <2>2, <2>4, <2>7, <3>1, <4>1
    <3> QED
      BY <3>2, <3>3
  <2>8. Layers(h, node, k + 1, g)
    <3>1. k + 1 \in Nat
      OBVIOUS
    <3> HIDE DEF E
    <3> QED
      BY <2>3, <2>6, <2>7, <3>1, AreLayers
  <2> QED
    BY <2>8
<1>3. most \in E
  <2> SUFFICES ASSUME most \notin E PROVE FALSE
    OBVIOUS
  <2>1. PICK m \in Nat \ E : \A n \in Nat \ E : m <= n
    BY LeastNatural
  <2>2. m # 0 /\ m - 1 \in Nat
    BY <1>1, <2>1
  <2>3. m - 1 \in E
    BY <2>1, <2>2
  <2> HIDE DEF E
  <2>4. (m - 1) + 1 = m
    BY <2>2
  <2> QED
    BY <1>2, <2>1, <2>3, <2>4
<1> QED
  BY <1>3

(* A layer is one that the links do not leave, or has one node for each    *)
(* step at least.                                                          *)
Grown(h, node, f, k) ==
  /\ f[k] \subseteq DOMAIN h
  /\ node \in DOMAIN h => node \in f[k]
  /\ Closed(h, f[k]) \/ Cardinality(f[k]) >= k

LEMMA LayersGrow ==
  ASSUME NEW h, Typed(h), NEW node, NEW most \in Nat, NEW f, Layers(h, node, most, f),
         NEW k \in 0 .. most
  PROVE  Grown(h, node, f, k)
<1> DEFINE E == {i \in Nat : i > most \/ Grown(h, node, f, i)}
<1>1. LayerSteps(h, node, most, f)
  BY LayersAre
<1>2. 0 \in E
  <2>1. f[0] \subseteq DOMAIN h /\ (node \in DOMAIN h => node \in f[0])
    BY <1>1 DEF LayerSteps
  <2>2. Cardinality(f[0]) >= 0
    <3>1. IsFiniteSet(f[0])
      BY <2>1, Counting, FS_Subset
    <3> QED
      BY <3>1, FS_CardinalityType
  <2>3. Grown(h, node, f, 0)
    BY <2>1, <2>2 DEF Grown
  <2> QED
    BY <2>3
<1>3. ASSUME NEW i \in E
      PROVE  i + 1 \in E
  <2> SUFFICES ASSUME i + 1 <= most
               PROVE  Grown(h, node, f, i + 1)
    OBVIOUS
  <2>0. i \in Nat /\ Grown(h, node, f, i)
    OBVIOUS
  <2> HIDE DEF E
  <2>1. /\ f[i] \subseteq DOMAIN h
        /\ node \in DOMAIN h => node \in f[i]
        /\ Closed(h, f[i]) \/ Cardinality(f[i]) >= i
        /\ i \in Nat
    BY <2>0 DEF Grown
  <2>2. f[i + 1] = f[i] \cup Below(h, f[i])
    <3>1. i + 1 \in 0 .. most /\ i + 1 # 0 /\ (i + 1) - 1 = i
      BY <2>1
    <3> QED
      BY <1>1, <3>1 DEF LayerSteps
  <2>3. f[i + 1] \subseteq DOMAIN h /\ (node \in DOMAIN h => node \in f[i + 1])
    BY <2>1, <2>2 DEF Below
  <2>4. Closed(h, f[i]) => f[i + 1] = f[i]
    BY <2>2 DEF Closed, Below
  <2>5. CASE ~Closed(h, f[i])
    <3>1. PICK x \in Below(h, f[i]) : x \notin f[i]
      BY <2>1, <2>5 DEF Closed, Below
    <3>2. IsFiniteSet(f[i]) /\ IsFiniteSet(f[i + 1])
      BY <2>1, <2>3, Counting, FS_Subset
    <3>3. f[i] \cup {x} \subseteq f[i + 1]
      BY <2>2, <3>1
    <3>4. Cardinality(f[i] \cup {x}) = Cardinality(f[i]) + 1 /\ IsFiniteSet(f[i] \cup {x})
      BY <3>1, <3>2, FS_AddElement
    <3>5. Cardinality(f[i] \cup {x}) <= Cardinality(f[i + 1])
      BY <3>2, <3>3, FS_Subset
    <3>6. Cardinality(f[i]) \in Nat /\ Cardinality(f[i + 1]) \in Nat
      BY <3>2, FS_CardinalityType
    <3> QED
      BY <2>1, <2>3, <2>5, <3>4, <3>5, <3>6 DEF Grown
  <2> QED
    BY <2>1, <2>2, <2>3, <2>4, <2>5 DEF Grown
<1>4. k \in E
  <2> SUFFICES ASSUME k \notin E PROVE FALSE
    OBVIOUS
  <2>0. k \in Nat \ E /\ Nat \ E \in SUBSET Nat
    OBVIOUS
  <2> HIDE DEF E
  <2>1. PICK m \in Nat \ E : \A j \in Nat \ E : m <= j
    BY <2>0, LeastNatural
  <2>2. m # 0 /\ m - 1 \in Nat
    BY <1>2, <2>1
  <2>3. m - 1 \in E
    BY <2>1, <2>2
  <2>4. (m - 1) + 1 = m
    BY <2>2
  <2> QED
    BY <1>3, <2>1, <2>3, <2>4
<1>5. k \in 0 .. most /\ ~(k > most)
  OBVIOUS
<1> QED
  BY <1>4, <1>5

LEMMA LayersWithin ==
  ASSUME NEW h, NEW node, NEW most \in Nat, NEW f, Layers(h, node, most, f),
         NEW S, Closed(h, S), node \in DOMAIN h => node \in S,
         NEW k \in 0 .. most
  PROVE  f[k] \subseteq S
<1> DEFINE E == {i \in Nat : i > most \/ f[i] \subseteq S}
<1>1. LayerSteps(h, node, most, f)
  BY LayersAre
<1>2. 0 \in E
  BY <1>1 DEF LayerSteps
<1>3. ASSUME NEW i \in E
      PROVE  i + 1 \in E
  <2> SUFFICES ASSUME i + 1 <= most
               PROVE  f[i + 1] \subseteq S
    OBVIOUS
  <2>1. f[i] \subseteq S /\ i \in Nat
    OBVIOUS
  <2>2. f[i + 1] = f[i] \cup Below(h, f[i])
    <3>1. i + 1 \in 0 .. most /\ i + 1 # 0 /\ (i + 1) - 1 = i
      BY <2>1
    <3> HIDE DEF E
    <3> QED
      BY <1>1, <3>1 DEF LayerSteps
  <2> QED
    BY <2>1, <2>2 DEF Closed, Below
<1>4. k \in E
  <2> SUFFICES ASSUME k \notin E PROVE FALSE
    OBVIOUS
  <2>0. k \in Nat \ E /\ Nat \ E \in SUBSET Nat
    OBVIOUS
  <2> HIDE DEF E
  <2>1. PICK m \in Nat \ E : \A j \in Nat \ E : m <= j
    BY <2>0, LeastNatural
  <2>2. m # 0 /\ m - 1 \in Nat
    BY <1>2, <2>1
  <2>3. m - 1 \in E
    BY <2>1, <2>2
  <2>4. (m - 1) + 1 = m
    BY <2>2
  <2> QED
    BY <1>3, <2>1, <2>3, <2>4
<1> QED
  BY <1>4

LEMMA ReachableLeast ==
  ASSUME NEW h, Typed(h), NEW node
  PROVE  /\ Closed(h, Reachable(h, node))
         /\ node \in DOMAIN h => node \in Reachable(h, node)
         /\ \A S : Closed(h, S) /\ (node \in DOMAIN h => node \in S)
                     => Reachable(h, node) \subseteq S
<1> DEFINE most == Cardinality(DOMAIN h)
           f == CHOOSE g : Layers(h, node, most, g)
           R == Reachable(h, node)
<1>1. most \in Nat /\ IsFiniteSet(DOMAIN h)
  BY Counting
<1>2. Layers(h, node, most, f)
  <2>1. \E g : Layers(h, node, most, g)
    BY <1>1, LayersExist
  <2> QED
    BY <2>1
<1>3. R = f[most]
  BY ReachableIsLayer
<1> HIDE DEF f
<1>4. most \in 0 .. most
  BY <1>1
<1>5. /\ R \subseteq DOMAIN h
      /\ node \in DOMAIN h => node \in R
      /\ Closed(h, R) \/ Cardinality(R) >= most
  <2>1. Grown(h, node, f, most)
    BY <1>1, <1>2, <1>4, LayersGrow
  <2> QED
    BY <1>3, <2>1 DEF Grown
<1>6. Closed(h, R)
  <2>1. CASE Cardinality(R) >= most
    <3>1. Cardinality(R) <= most /\ (Cardinality(R) = most => R = DOMAIN h)
          /\ Cardinality(R) \in Nat
      BY <1>1, <1>5, FS_Subset, FS_CardinalityType
    <3>2. R = DOMAIN h
      BY <1>1, <2>1, <3>1
    <3> QED
      BY <3>2 DEF Closed
  <2> QED
    BY <1>5, <2>1
<1>7. \A S : Closed(h, S) /\ (node \in DOMAIN h => node \in S) => R \subseteq S
  BY <1>1, <1>2, <1>3, <1>4, LayersWithin
<1> QED
  BY <1>5, <1>6, <1>7

(* What Reachable is, for an induction: from the node itself, along links. *)
LEMMA ReachedInDomain ==
  ASSUME NEW h, Typed(h), NEW x
  PROVE  /\ Reachable(h, x) \subseteq DOMAIN h
         /\ x \in DOMAIN h => x \in Reachable(h, x)
         /\ x \notin DOMAIN h => Reachable(h, x) = {}
         /\ \A m \in Reachable(h, x), s \in Sides :
              h[m][s] \in DOMAIN h => h[m][s] \in Reachable(h, x)
<1>1. Closed(h, {})
  BY DEF Closed
<1>2. x \notin DOMAIN h => Reachable(h, x) \subseteq {}
  BY <1>1, ReachableLeast
<1> QED
  BY <1>2, ReachableLeast DEF Closed

LEMMA ReachedBelow ==
  ASSUME NEW h, Typed(h), NEW x, NEW m \in Reachable(h, x)
  PROVE  /\ Reachable(h, m) \subseteq Reachable(h, x)
         /\ \A s \in Sides : Reachable(h, h[m][s]) \subseteq Reachable(h, x)
<1>1. Closed(h, Reachable(h, x))
  BY ReachableLeast
<1>2. Reachable(h, m) \subseteq Reachable(h, x)
  BY <1>1, ReachableLeast
<1>3. ASSUME NEW s \in Sides
      PROVE  Reachable(h, h[m][s]) \subseteq Reachable(h, x)
  <2>1. h[m][s] \in DOMAIN h => h[m][s] \in Reachable(h, x)
    BY ReachedInDomain
  <2> QED
    BY <1>1, <2>1, ReachableLeast
<1> QED
  BY <1>2, <1>3

LEMMA ReachedThrough ==
  ASSUME NEW h, Typed(h), NEW x, NEW m \in Reachable(h, x), m # x
  PROVE  \E s \in Sides : m \in Reachable(h, h[x][s])
<1> DEFINE S == {x} \cup UNION {Reachable(h, h[x][s]) : s \in Sides}
<1>1. x \in DOMAIN h
  BY ReachedInDomain
<1>2. Closed(h, S)
  <2>1. S \subseteq DOMAIN h
    BY <1>1, ReachedInDomain
  <2>2. ASSUME NEW y \in S, NEW t \in Sides, h[y][t] \in DOMAIN h
        PROVE  h[y][t] \in S
    <3>1. CASE y = x
      <4>1. h[x][t] \in Reachable(h, h[x][t])
        BY <2>2, <3>1, ReachedInDomain
      <4> QED
        BY <3>1, <4>1
    <3>2. CASE y # x
      <4>1. PICK s \in Sides : y \in Reachable(h, h[x][s])
        BY <3>2
      <4>2. h[y][t] \in Reachable(h, h[x][s])
        BY <2>2, <4>1, ReachedInDomain
      <4> QED
        BY <4>2
    <3> QED
      BY <3>1, <3>2
  <2> QED
    BY <2>1, <2>2 DEF Closed
<1>3. Reachable(h, x) \subseteq S
  <2>1. x \in S
    OBVIOUS
  <2> HIDE DEF S
  <2> QED
    BY <1>2, <2>1, ReachableLeast
<1> QED
  BY <1>3

LEMMA ReachedFrom ==
  ASSUME NEW h, Typed(h), NEW x, NEW m \in Reachable(h, x), m # x
  PROVE  \E p \in Reachable(h, x), s \in Sides : h[p][s] = m
<1> SUFFICES ASSUME \A p \in Reachable(h, x), s \in Sides : h[p][s] # m
             PROVE  FALSE
  OBVIOUS
<1> DEFINE S == Reachable(h, x) \ {m}
<1>1. Closed(h, S)
  BY ReachedInDomain DEF Closed
<1>2. x \in DOMAIN h => x \in S
  BY ReachedInDomain
<1>3. Reachable(h, x) \subseteq S
  BY <1>1, <1>2, ReachableLeast
<1> QED
  BY <1>3

-----------------------------------------------------------------------------
(* Search trees.                                                           *)

SearchTree(h, r) ==
  /\ IsTree(h, r)
  /\ InSearchOrder(h, r)

Treelike(h, r) ==
  /\ r \in DOMAIN h \cup {NULL}
  /\ \A m \in Reachable(h, r), s \in Sides :
       h[m][s] # NULL =>
         /\ h[m][s] \in DOMAIN h /\ h[m][s] # r
         /\ \A p \in Reachable(h, r), t \in Sides :
              h[p][t] = h[m][s] => p = m /\ t = s

LEMMA TreeLinks ==
  ASSUME NEW h, NEW r, Typed(h)
  PROVE  IsTree(h, r) <=> Treelike(h, r)
<1> DEFINE R == Reachable(h, r)
           links == {l \in R \X Sides : h[l[1]][l[2]] # NULL}
           To(l) == h[l[1]][l[2]]
<1> HIDE DEF R
<1>1. \A m \in R, s \in Sides : h[m][s] # NULL =>
        <<m, s>> \in links /\ To(<<m, s>>) = h[m][s] /\ <<m, s>>[1] = m /\ <<m, s>>[2] = s
  OBVIOUS
<1>2. \A l \in links : l[1] \in R /\ l[2] \in Sides /\ l = <<l[1], l[2]>>
                       /\ h[l[1]][l[2]] # NULL
  OBVIOUS
<1>3. IsTree(h, r) <=> /\ r \in DOMAIN h \cup {NULL}
                       /\ \A l \in links : To(l) \in DOMAIN h \ {r}
                       /\ \A l, m \in links : To(l) = To(m) => l = m
  BY DEF IsTree, R
<1>4. ASSUME IsTree(h, r), NEW m \in R, NEW s \in Sides, h[m][s] # NULL
      PROVE  /\ h[m][s] \in DOMAIN h /\ h[m][s] # r
             /\ \A p \in R, t \in Sides : h[p][t] = h[m][s] => p = m /\ t = s
  <2>1. h[m][s] \in DOMAIN h /\ h[m][s] # r
    <3>1. <<m, s>> \in links /\ To(<<m, s>>) = h[m][s]
      BY <1>1, <1>4
    <3>2. To(<<m, s>>) \in DOMAIN h \ {r}
      BY <1>3, <1>4, <3>1
    <3> QED
      BY <3>1, <3>2
  <2>2. ASSUME NEW p \in R, NEW t \in Sides, h[p][t] = h[m][s]
        PROVE  p = m /\ t = s
    <3>1. <<p, t>> \in links /\ <<m, s>> \in links
          /\ To(<<p, t>>) = h[p][t] /\ To(<<m, s>>) = h[m][s]
      BY <1>1, <1>4, <2>2
    <3>2. <<p, t>> = <<m, s>>
      BY <1>3, <1>4, <2>2, <3>1
    <3> QED
      BY <3>2
  <2> QED
    BY <2>1, <2>2
<1>5. ASSUME r \in DOMAIN h \cup {NULL},
             \A m \in R, s \in Sides :
               h[m][s] # NULL =>
                 /\ h[m][s] \in DOMAIN h /\ h[m][s] # r
                 /\ \A p \in R, t \in Sides : h[p][t] = h[m][s] => p = m /\ t = s
      PROVE  IsTree(h, r)
  <2>1. \A l \in links : To(l) \in DOMAIN h \ {r}
    BY <1>2, <1>5
  <2>2. ASSUME NEW l \in links, NEW m \in links, To(l) = To(m)
        PROVE  l = m
    <3>1. l[1] = m[1] /\ l[2] = m[2]
      BY <1>2, <1>5, <2>2
    <3>2. l = <<l[1], l[2]>> /\ m = <<m[1], m[2]>>
      BY <1>2
    <3> QED
      BY <3>1, <3>2
  <2> QED
    BY <1>3, <1>5, <2>1, <2>2
<1> QED
  BY <1>3, <1>4, <1>5 DEF R, Treelike

(* In a search tree every node lies to the side of the others that its     *)
(* data tell, and none is below itself.                                    *)
LEMMA SearchOrder ==
  ASSUME NEW h, Typed(h), NEW r
  PROVE  InSearchOrder(h, r) <=>
           \A m \in Reachable(h, r), s \in Sides : \A y \in Reachable(h, h[m][s]) :
             h[y].data # h[m].data /\ SideOf(h[y].data, h[m].data) = s
<1>1. ASSUME NEW m \in Reachable(h, r), NEW s \in Sides, NEW y \in Reachable(h, h[m][s])
      PROVE  h[m].data \in Int /\ h[y].data \in Int
  BY ReachedInDomain, LinksTyped, BinaryTreeAssumption
<1>2. \A m \in Reachable(h, r) : h[m].left = h[m]["left"] /\ h[m].right = h[m]["right"]
  OBVIOUS
<1>3. ASSUME InSearchOrder(h, r), NEW m \in Reachable(h, r), NEW s \in Sides,
             NEW y \in Reachable(h, h[m][s])
      PROVE  h[y].data # h[m].data /\ SideOf(h[y].data, h[m].data) = s
  BY <1>1, <1>3 DEF InSearchOrder, SideOf, Sides
<1>4. ASSUME \A m \in Reachable(h, r), s \in Sides : \A y \in Reachable(h, h[m][s]) :
               h[y].data # h[m].data /\ SideOf(h[y].data, h[m].data) = s
      PROVE  InSearchOrder(h, r)
  <2> SUFFICES ASSUME NEW m \in Reachable(h, r)
               PROVE  /\ \A l \in Reachable(h, h[m].left) : h[l].data < h[m].data
                      /\ \A l \in Reachable(h, h[m].right) : h[l].data > h[m].data
    BY DEF InSearchOrder
  <2>1. ASSUME NEW l \in Reachable(h, h[m].left)
        PROVE  h[l].data < h[m].data
    <3>1. "left" \in Sides
      BY DEF Sides
    <3>2. SideOf(h[l].data, h[m].data) = "left"
      BY <1>4, <2>1, <3>1
    <3> QED
      BY <3>2 DEF SideOf
  <2>2. ASSUME NEW l \in Reachable(h, h[m].right)
        PROVE  h[l].data > h[m].data
    <3>1. "right" \in Sides
      BY DEF Sides
    <3>2. h[l].data # h[m].data /\ SideOf(h[l].data, h[m].data) = "right"
      BY <1>4, <2>2, <3>1
    <3>3. h[m].data \in Int /\ h[l].data \in Int
      BY <1>1, <2>2, <3>1
    <3> QED
      BY <3>2, <3>3 DEF SideOf
  <2> QED
    BY <2>1, <2>2
<1> QED
  BY <1>3, <1>4

LEMMA NotBelowItself ==
  ASSUME NEW h, Typed(h), NEW r, SearchTree(h, r),
         NEW m \in Reachable(h, r), NEW s \in Sides
  PROVE  m \notin Reachable(h, h[m][s])
BY SearchOrder DEF SearchTree

LEMMA RootNotBelow ==
  ASSUME NEW h, Typed(h), NEW r, SearchTree(h, r),
         NEW m \in Reachable(h, r), NEW s \in Sides
  PROVE  r \notin Reachable(h, h[m][s])
<1> DEFINE S == Reachable(h, r) \ {r}
<1>1. \A p \in Reachable(h, r), t \in Sides : h[p][t] \in DOMAIN h => h[p][t] \in S
  <2> TAKE p \in Reachable(h, r), t \in Sides
  <2> HAVE h[p][t] \in DOMAIN h
  <2>1. h[p][t] # NULL
    BY BinaryTreeAssumption DEF Typed
  <2> QED
    BY <2>1, TreeLinks, ReachedInDomain DEF SearchTree, Treelike
<1>2. Closed(h, S)
  BY <1>1, ReachedInDomain DEF Closed
<1>3. Reachable(h, h[m][s]) \subseteq S
  BY <1>1, <1>2, ReachableLeast
<1> QED
  BY <1>3

-----------------------------------------------------------------------------
(* The search in a search tree.                                            *)

(* The data of every node above x send key to the side x is on.            *)
Fits(h, r, key, x) ==
  \A m \in Reachable(h, r), t \in Sides :
    x \in Reachable(h, h[m][t]) => key # h[m].data /\ SideOf(key, h[m].data) = t

(* x is where the i-th frame of the search may be: the key is below x, if  *)
(* it is anywhere, and i - 1 nodes at least are not below x.               *)
Seeks(h, r, key, x, i) ==
  /\ \/ x = NULL
     \/ /\ x \in Reachable(h, r)
        /\ Fits(h, r, key, x)
        /\ Cardinality(Reachable(h, x)) + i <= Cardinality(DOMAIN h) + 1
  /\ \A y \in Reachable(h, r) : h[y].data = key => y \in Reachable(h, x)

LEMMA ReachedFinite ==
  ASSUME NEW h, Typed(h), NEW x
  PROVE  /\ IsFiniteSet(Reachable(h, x))
         /\ Cardinality(Reachable(h, x)) \in Nat
         /\ Cardinality(Reachable(h, x)) <= Cardinality(DOMAIN h)
         /\ Cardinality(DOMAIN h) \in Nat
<1>1. Reachable(h, x) \subseteq DOMAIN h /\ IsFiniteSet(DOMAIN h)
  BY ReachedInDomain, Counting
<1> QED
  BY <1>1, FS_Subset, FS_CardinalityType

LEMMA SeeksRoot ==
  ASSUME NEW h, Typed(h), NEW r, SearchTree(h, r), NEW key
  PROVE  Seeks(h, r, key, r, 1)
<1>1. r = NULL \/ r \in DOMAIN h
  BY TreeLinks DEF SearchTree, Treelike
<1>2. Fits(h, r, key, r)
  BY RootNotBelow DEF Fits
<1>3. r \in DOMAIN h => r \in Reachable(h, r)
  BY ReachedInDomain
<1>4. Cardinality(Reachable(h, r)) + 1 <= Cardinality(DOMAIN h) + 1
  BY ReachedFinite
<1> QED
  BY <1>1, <1>2, <1>3, <1>4 DEF Seeks

LEMMA SeeksOn ==
  ASSUME NEW h, Typed(h), NEW r, SearchTree(h, r), NEW key, NEW i \in Nat,
         NEW p \in DOMAIN h, h[p].data # key, Seeks(h, r, key, p, i)
  PROVE  Seeks(h, r, key, h[p][SideOf(key, h[p].data)], i + 1)
<1> DEFINE side == SideOf(key, h[p].data)
           c == h[p][side]
<1>1. side \in Sides
  BY DEF SideOf, Sides
<1>2. p # NULL
  BY BinaryTreeAssumption DEF Typed
<1>3. p \in Reachable(h, r) /\ Fits(h, r, key, p)
      /\ Cardinality(Reachable(h, p)) + i <= Cardinality(DOMAIN h) + 1
  BY <1>2 DEF Seeks
<1>4. c # NULL => c \in DOMAIN h
  BY <1>1, <1>3, TreeLinks DEF SearchTree, Treelike
<1>5. ASSUME c # NULL
      PROVE  /\ c \in Reachable(h, r)
             /\ Fits(h, r, key, c)
             /\ Cardinality(Reachable(h, c)) + (i + 1) <= Cardinality(DOMAIN h) + 1
  <2>1. c \in Reachable(h, r)
    BY <1>1, <1>3, <1>4, <1>5, ReachedInDomain
  <2>2. ASSUME NEW m \in Reachable(h, r), NEW t \in Sides, c \in Reachable(h, h[m][t])
        PROVE  key # h[m].data /\ SideOf(key, h[m].data) = t
    <3>1. CASE c = h[m][t]
      <4>1. m = p /\ t = side
        BY <1>1, <1>3, <1>5, <3>1, TreeLinks DEF SearchTree, Treelike
      <4> QED
        BY <4>1
    <3>2. CASE c # h[m][t]
      <4>1. PICK q \in Reachable(h, h[m][t]), s \in Sides : h[q][s] = c
        BY <2>2, <3>2, ReachedFrom
      <4>2. q \in Reachable(h, r)
        BY ReachedBelow
      <4>3. q = p
        BY <1>1, <1>3, <1>5, <4>1, <4>2, TreeLinks DEF SearchTree, Treelike
      <4> QED
        BY <1>3, <4>1, <4>3 DEF Fits
    <3> QED
      BY <3>1, <3>2
  <2>3. Cardinality(Reachable(h, c)) + 1 <= Cardinality(Reachable(h, p))
    <3>1. p \in Reachable(h, p)
      BY ReachedInDomain
    <3>2. Reachable(h, c) \subseteq Reachable(h, p) /\ p \notin Reachable(h, c)
      BY <1>1, <1>3, <3>1, ReachedBelow, NotBelowItself
    <3>3. Cardinality(Reachable(h, c)) <= Cardinality(Reachable(h, p))
          /\ (Cardinality(Reachable(h, c)) = Cardinality(Reachable(h, p))
                => Reachable(h, c) = Reachable(h, p))
      BY <3>2, ReachedFinite, FS_Subset
    <3> QED
      BY <3>1, <3>2, <3>3, ReachedFinite
  <2>4. /\ Cardinality(Reachable(h, c)) \in Nat /\ Cardinality(Reachable(h, p)) \in Nat
        /\ Cardinality(DOMAIN h) \in Nat
    BY ReachedFinite
  <2>5. Cardinality(Reachable(h, c)) + (i + 1) <= Cardinality(DOMAIN h) + 1
    BY <1>3, <2>3, <2>4
  <2> QED
    BY <2>1, <2>2, <2>5 DEF Fits
<1>6. ASSUME NEW y \in Reachable(h, r), h[y].data = key
      PROVE  y \in Reachable(h, c)
  <2>1. y \in Reachable(h, p) /\ y # p
    BY <1>6 DEF Seeks
  <2>2. PICK s \in Sides : y \in Reachable(h, h[p][s])
    BY <2>1, ReachedThrough
  <2>3. SideOf(h[y].data, h[p].data) = s
    BY <1>3, <2>2, SearchOrder DEF SearchTree
  <2> QED
    BY <1>6, <2>2, <2>3
<1> QED
  BY <1>5, <1>6 DEF Seeks

LEMMA GoingSeeks ==
  ASSUME NEW h, Typed(h), NEW r \in Links, SearchTree(h, r), NEW key, NEW room,
         NEW fs, Going(h, key, r, fs, room)
  PROVE  /\ \A i \in 1 .. Len(fs) : Seeks(h, r, key, fs[i].node, i)
         /\ Seeks(h, r, key, Walk(h, r, fs).end, Len(fs) + 1)
<1>1. /\ fs \in Seq([node : DOMAIN h, side : Sides])
      /\ Len(fs) \in Nat
  BY LenProperties DEF Going
<1>2. \A i \in 1 .. Len(fs) : fs[i].node \in DOMAIN h
  <2> TAKE i \in 1 .. Len(fs)
  <2>1. fs[i] \in [node : DOMAIN h, side : Sides]
    BY <1>1, ElementOfSeq
  <2> QED
    BY <2>1
<1> DEFINE E == {k \in Nat : k + 1 > Len(fs) \/ Seeks(h, r, key, fs[k + 1].node, k + 1)}
<1>3. 0 \in E
  <2>1. ASSUME ~(0 + 1 > Len(fs))
        PROVE  Seeks(h, r, key, fs[0 + 1].node, 0 + 1)
    <3>1. fs # <<>> /\ 0 + 1 = 1
      BY <1>1, <2>1, EmptySeq
    <3>2. fs[1].node = r
      BY <3>1 DEF Going
    <3> QED
      BY <3>1, <3>2, SeeksRoot
  <2> QED
    BY <2>1
<1>4. ASSUME NEW k \in E
      PROVE  k + 1 \in E
  <2> SUFFICES ASSUME ~((k + 1) + 1 > Len(fs))
               PROVE  Seeks(h, r, key, fs[(k + 1) + 1].node, (k + 1) + 1)
    OBVIOUS
  <2>1. k \in Nat /\ k + 1 \in Nat /\ k + 1 \in 1 .. Len(fs) /\ k + 1 \in 1 .. Len(fs) - 1
    BY <1>1
  <2>2. Seeks(h, r, key, fs[k + 1].node, k + 1)
    BY <1>1, <2>1
  <2> HIDE DEF E
  <2> DEFINE j == k + 1
  <2>3. /\ h[fs[j].node].data # key /\ fs[j].side = SideOf(key, h[fs[j].node].data)
        /\ h[fs[j].node][fs[j].side] = fs[j + 1].node
        /\ fs[j].node \in DOMAIN h
    BY <1>2, <2>1 DEF Going
  <2> HIDE DEF j
  <2>4. Seeks(h, r, key, h[fs[j].node][SideOf(key, h[fs[j].node].data)], j + 1)
    BY <2>1, <2>2, <2>3, SeeksOn DEF j
  <2> QED
    BY <2>3, <2>4 DEF j
<1>5. ASSUME NEW i \in 1 .. Len(fs)
      PROVE  Seeks(h, r, key, fs[i].node, i)
  <2>1. i - 1 \in Nat /\ (i - 1) + 1 = i /\ ~(i > Len(fs))
    BY <1>1
  <2>2. i - 1 \in E
    <3> SUFFICES ASSUME i - 1 \notin E PROVE FALSE
      OBVIOUS
    <3>0. i - 1 \in Nat \ E /\ Nat \ E \in SUBSET Nat
      BY <2>1
    <3> HIDE DEF E
    <3>1. PICK m \in Nat \ E : \A j \in Nat \ E : m <= j
      BY <3>0, LeastNatural
    <3>2. m # 0 /\ m - 1 \in Nat
      BY <1>3, <3>1
    <3>3. m - 1 \in E
      BY <3>1, <3>2
    <3>4. (m - 1) + 1 = m
      BY <3>2
    <3> QED
      BY <1>4, <3>1, <3>3, <3>4
  <2> QED
    BY <2>1, <2>2
<1> HIDE DEF E
<1>6. Seeks(h, r, key, Walk(h, r, fs).end, Len(fs) + 1)
  <2>1. CASE fs = <<>>
    <3>1. Walk(h, r, fs).end = r /\ Len(fs) + 1 = 1
      BY <2>1 DEF Walk
    <3> QED
      BY <3>1, SeeksRoot
  <2>2. CASE fs # <<>>
    <3> DEFINE k == Len(fs)
    <3>1. k \in 1 .. Len(fs) /\ k \in Nat
      BY <1>1, <2>2, EmptySeq
    <3>2. Walk(h, r, fs).end = h[fs[k].node][fs[k].side]
      BY <2>2 DEF Walk
    <3>3. Seeks(h, r, key, fs[k].node, k)
      BY <1>5, <3>1
    <3>4. /\ h[fs[k].node].data # key /\ fs[k].side = SideOf(key, h[fs[k].node].data)
          /\ fs[k].node \in DOMAIN h
      BY <1>2, <3>1 DEF Going
    <3>5. Seeks(h, r, key, h[fs[k].node][SideOf(key, h[fs[k].node].data)], k + 1)
      BY <3>1, <3>3, <3>4, SeeksOn
    <3> QED
      BY <3>2, <3>4, <3>5
  <2> QED
    BY <2>1, <2>2
<1> QED
  BY <1>5, <1>6

(* The search ends at the only node with the key, or at NULL if there is   *)
(* none, and its last frame is the node that leads there.                  *)
Found(h, r, key, way) ==
  /\ way.end = NULL \/ (/\ way.end \in Reachable(h, r)
                        /\ h[way.end].data = key
                        /\ Fits(h, r, key, way.end))
  /\ \A y \in Reachable(h, r) : h[y].data = key => y = way.end
  /\ way.frames = <<>> => way.end = r
  /\ way.frames # <<>> =>
       /\ LastFrame(way).node \in Reachable(h, r)
       /\ Fits(h, r, key, LastFrame(way).node)
       /\ h[LastFrame(way).node].data # key
       /\ LastFrame(way).side = SideOf(key, h[LastFrame(way).node].data)
       /\ LastFrame(way).side \in Sides
       /\ h[LastFrame(way).node][LastFrame(way).side] = way.end

LEMMA DescentFinds ==
  ASSUME NEW h, Typed(h), NEW r \in Links, SearchTree(h, r), NEW key
  PROVE  Found(h, r, key, Descent(h, r, key))
<1> DEFINE way == Descent(h, r, key)
           fs == way.frames
           most == Cardinality(DOMAIN h)
<1>1. way = Walk(h, r, fs) /\ Going(h, key, r, fs, most)
  BY DescentGoes
<1> HIDE DEF way
<1>2. /\ \A i \in 1 .. Len(fs) : Seeks(h, r, key, fs[i].node, i)
      /\ Seeks(h, r, key, way.end, Len(fs) + 1)
  BY <1>1, GoingSeeks
<1>3. fs \in Seq([node : DOMAIN h, side : Sides]) /\ Len(fs) \in Nat
  BY <1>1, LenProperties DEF Going
<1>4. ASSUME way.end # NULL
      PROVE  /\ way.end \in Reachable(h, r)
             /\ h[way.end].data = key
             /\ Fits(h, r, key, way.end)
  <2>1. /\ way.end \in Reachable(h, r) /\ Fits(h, r, key, way.end)
        /\ Cardinality(Reachable(h, way.end)) + (Len(fs) + 1) <= most + 1
    BY <1>2, <1>4 DEF Seeks
  <2>2. way.end \in DOMAIN h /\ way.end \in Reachable(h, way.end)
    BY <2>1, ReachedInDomain
  <2>3. /\ Cardinality(Reachable(h, way.end)) \in Nat /\ most \in Nat
        /\ Cardinality(Reachable(h, way.end)) # 0
    BY <2>2, ReachedFinite, FS_EmptySet
  <2>4. Len(fs) # most
    BY <1>3, <2>1, <2>3
  <2> QED
    BY <1>1, <2>1, <2>2, <2>4 DEF Going
<1>5. ASSUME NEW y \in Reachable(h, r), h[y].data = key
      PROVE  y = way.end
  <2>1. y \in Reachable(h, way.end)
    BY <1>2, <1>5 DEF Seeks
  <2>2. way.end \in DOMAIN h
    BY <2>1, ReachedInDomain
  <2>3. way.end # NULL
    BY <2>2, BinaryTreeAssumption DEF Typed
  <2>4. way.end \in Reachable(h, r) /\ h[way.end].data = key
    BY <1>4, <2>3
  <2> SUFFICES ASSUME y # way.end PROVE FALSE
    OBVIOUS
  <2>5. PICK s \in Sides : y \in Reachable(h, h[way.end][s])
    BY <2>1, ReachedThrough
  <2>6. h[y].data # h[way.end].data
    BY <2>4, <2>5, SearchOrder DEF SearchTree
  <2> QED
    BY <1>5, <2>4, <2>6
<1>6. fs = <<>> => way.end = r
  BY <1>1 DEF Walk
<1>7. ASSUME fs # <<>>
      PROVE  /\ LastFrame(way).node \in Reachable(h, r)
             /\ Fits(h, r, key, LastFrame(way).node)
             /\ h[LastFrame(way).node].data # key
             /\ LastFrame(way).side = SideOf(key, h[LastFrame(way).node].data)
             /\ LastFrame(way).side \in Sides
             /\ h[LastFrame(way).node][LastFrame(way).side] = way.end
  <2> DEFINE l == fs[Len(fs)]
  <2>1. LastFrame(way) = l
    BY DEF LastFrame
  <2>2. Len(fs) \in 1 .. Len(fs)
    BY <1>3, <1>7, EmptySeq
  <2>3. l \in [node : DOMAIN h, side : Sides]
    BY <1>3, <2>2, ElementOfSeq
  <2>4. Seeks(h, r, key, l.node, Len(fs))
    BY <1>2, <2>2
  <2>5. h[l.node].data # key /\ l.side = SideOf(key, h[l.node].data)
    BY <1>1, <2>2 DEF Going
  <2>6. way.end = h[l.node][l.side]
    <3>1. Walk(h, r, fs).end = h[l.node][l.side]
      BY <1>7 DEF Walk
    <3> QED
      BY <1>1, <3>1
  <2> HIDE DEF l
  <2>7. l.node \in DOMAIN h /\ l.side \in Sides
    BY <2>3
  <2>8. l.node # NULL
    BY <2>7, BinaryTreeAssumption DEF Typed
  <2>9. l.node \in Reachable(h, r) /\ Fits(h, r, key, l.node)
    BY <2>4, <2>8 DEF Seeks
  <2> QED
    BY <2>1, <2>5, <2>6, <2>7, <2>9
<1>8. Found(h, r, key, way)
  BY <1>4, <1>5, <1>6, <1>7 DEF Found
<1> QED
  BY <1>8 DEF way

-----------------------------------------------------------------------------
(* Type correctness.                                                       *)

LEMMA LinkStored ==
  ASSUME NEW h, Records(h), NEW p, NEW s \in Sides, NEW v \in Links
  PROVE  Records([h EXCEPT ![p][s] = v])
<1> DEFINE g == [h EXCEPT ![p][s] = v]
<1>1. DOMAIN g = DOMAIN h
  OBVIOUS
<1>2. ASSUME NEW n \in DOMAIN h
      PROVE  g[n] \in [data : Keys, left : Links, right : Links]
  <2>1. h[n] \in [data : Keys, left : Links, right : Links]
    BY DEF Records
  <2>2. g[n] = IF n = p THEN [h[n] EXCEPT ![s] = v] ELSE h[n]
    OBVIOUS
  <2>3. [h[n] EXCEPT ![s] = v] \in [data : Keys, left : Links, right : Links]
    BY <2>1 DEF Sides
  <2> HIDE DEF g
  <2> QED
    BY <2>1, <2>2, <2>3
<1> HIDE DEF g
<1>3. Records(g)
  BY <1>1, <1>2 DEF Records
<1> QED
  BY <1>3 DEF g

LEMMA DataStored ==
  ASSUME NEW h, Records(h), NEW p, NEW v \in Keys
  PROVE  Records([h EXCEPT ![p].data = v])
<1> DEFINE g == [h EXCEPT ![p].data = v]
<1>1. DOMAIN g = DOMAIN h
  OBVIOUS
<1>2. ASSUME NEW n \in DOMAIN h
      PROVE  g[n] \in [data : Keys, left : Links, right : Links]
  <2>1. h[n] \in [data : Keys, left : Links, right : Links]
    BY DEF Records
  <2>2. g[n] = IF n = p THEN [h[n] EXCEPT !.data = v] ELSE h[n]
    OBVIOUS
  <2>3. [h[n] EXCEPT !.data = v] \in [data : Keys, left : Links, right : Links]
    BY <2>1
  <2> HIDE DEF g
  <2> QED
    BY <2>1, <2>2, <2>3
<1> HIDE DEF g
<1>3. Records(g)
  BY <1>1, <1>2 DEF Records
<1> QED
  BY <1>3 DEF g

LEMMA NodeFreed ==
  ASSUME NEW h, Records(h), NEW n
  PROVE  Records(Without(h, n))
BY DEF Records, Without

LEMMA NodeAllocated ==
  ASSUME Records(heap), NEW n \in Nodes, NEW key \in Keys
  PROVE  Records(Allocated(n, key))
<1> DEFINE g == Allocated(n, key)
           new == [data |-> key, left |-> NULL, right |-> NULL]
<1>1. DOMAIN g = DOMAIN heap \cup {n}
  BY DEF Allocated
<1>2. new \in [data : Keys, left : Links, right : Links]
  BY DEF Links
<1>3. ASSUME NEW m \in DOMAIN heap \cup {n}
      PROVE  g[m] \in [data : Keys, left : Links, right : Links]
  <2>1. g[m] = IF m = n THEN new ELSE heap[m]
    BY DEF Allocated
  <2> HIDE DEF g, new
  <2> QED
    BY <1>2, <2>1 DEF Records
<1> HIDE DEF g
<1>4. DOMAIN g \subseteq Nodes
  BY <1>1 DEF Records
<1>5. Records(g)
  BY <1>1, <1>3, <1>4 DEF Records
<1> QED
  BY <1>5 DEF g

LEMMA LastFrameTyped ==
  ASSUME NEW h, Typed(h), NEW r \in Links, NEW key
  PROVE  LET way == Descent(h, r, key)
         IN  /\ way.end \in Links
             /\ way.frames = <<>> => way.end = r
             /\ way.frames # <<>> =>
                  LastFrame(way).node \in DOMAIN h /\ LastFrame(way).side \in Sides
<1> DEFINE way == Descent(h, r, key)
           fs == way.frames
<1>1. way = Walk(h, r, fs) /\ Going(h, key, r, fs, Cardinality(DOMAIN h))
  BY DescentGoes
<1> HIDE DEF way
<1>2. way.end \in Links
  BY <1>1 DEF Going
<1>3. fs = <<>> => way.end = r
  BY <1>1 DEF Walk
<1>4. ASSUME fs # <<>>
      PROVE  LastFrame(way).node \in DOMAIN h /\ LastFrame(way).side \in Sides
  <2>1. fs \in Seq([node : DOMAIN h, side : Sides])
    BY <1>1 DEF Going
  <2>2. Len(fs) \in 1 .. Len(fs)
    BY <1>4, <2>1, EmptySeq, LenProperties
  <2>3. fs[Len(fs)] \in [node : DOMAIN h, side : Sides]
    BY <2>1, <2>2, ElementOfSeq
  <2> QED
    BY <2>3 DEF LastFrame
<1>5. /\ way.end \in Links
      /\ way.frames = <<>> => way.end = r
      /\ way.frames # <<>> =>
           LastFrame(way).node \in DOMAIN h /\ LastFrame(way).side \in Sides
  BY <1>2, <1>3, <1>4
<1> QED
  BY <1>5 DEF way

LEMMA TypedIs ==
  /\ TypeOK <=> Records(heap) /\ bst_root \in Links /\ status \in {"running", "ended"}
  /\ TypeOK => Typed(heap)
BY RecordsTyped DEF TypeOK, Records

LEMMA TypedNext == TypeOK' => Typed(heap')
BY DEF TypeOK, Typed, Sides

(* One step of the program.                                                *)
LEMMA InsertTyped ==
  ASSUME TypeOK, NEW key \in Keys, Insert(key)
  PROVE  TypeOK'
<1> DEFINE way == Descent(heap, bst_root, key)
<1>1. Records(heap) /\ bst_root \in Links /\ status \in {"running", "ended"}
  BY TypedIs
<1>2. way.frames # <<>> => LastFrame(way).side \in Sides
  BY <1>1, RecordsTyped, LastFrameTyped
<1>3. NULL \in Links /\ Nodes \subseteq Links
  BY DEF Links
<1> HIDE DEF way
<1>4. CASE InsertNew(key)
  <2>1. PICK n \in Nodes \ DOMAIN heap :
          IF way.frames = <<>>
          THEN /\ heap' = Allocated(n, key)
               /\ bst_root' = n
          ELSE /\ heap' = [Allocated(n, key) EXCEPT
                             ![LastFrame(way).node][LastFrame(way).side] = n]
               /\ UNCHANGED bst_root
    BY <1>4 DEF InsertNew, way
  <2>2. Records(Allocated(n, key))
    BY <1>1, NodeAllocated
  <2>3. CASE way.frames = <<>>
    <3>1. heap' = Allocated(n, key) /\ bst_root' = n
      BY <2>1, <2>3
    <3>2. Records(heap')
      BY <2>2, <3>1
    <3> QED
      BY <1>1, <1>3, <1>4, <3>1, <3>2 DEF TypeOK, Records, InsertNew
  <2>4. CASE way.frames # <<>>
    <3> DEFINE p == LastFrame(way).node
               s == LastFrame(way).side
    <3>1. heap' = [Allocated(n, key) EXCEPT ![p][s] = n] /\ bst_root' = bst_root
      BY <2>1, <2>4
    <3>2. s \in Sides /\ n \in Links
      BY <1>2, <1>3, <2>4
    <3> HIDE DEF p, s
    <3>3. Records(heap')
      BY <2>2, <3>1, <3>2, LinkStored
    <3> QED
      BY <1>1, <1>3, <1>4, <3>1, <3>3 DEF TypeOK, Records, InsertNew
  <2> QED
    BY <2>3, <2>4
<1>5. CASE InsertFound(key)
  <2>1. /\ heap' = IF way.frames = <<>> THEN heap
                   ELSE [heap EXCEPT ![LastFrame(way).node][LastFrame(way).side] = NULL]
        /\ bst_root' = bst_root /\ status' = status
    BY <1>5 DEF InsertFound, way
  <2>2. Records(heap')
    BY <1>1, <1>2, <1>3, <2>1, LinkStored
  <2> QED
    BY <1>1, <2>1, <2>2 DEF TypeOK, Records
<1>6. CASE InsertEnds(key)
  BY <1>1, <1>6 DEF InsertEnds, End, TypeOK, Records
<1> QED
  BY <1>4, <1>5, <1>6 DEF Insert

LEMMA DeleteTyped ==
  ASSUME TypeOK, NEW key \in Keys, Delete(key)
  PROVE  TypeOK'
<1> DEFINE n == Target(key)
           p == Parent(key)
<1>1. Records(heap) /\ bst_root \in Links /\ status \in {"running", "ended"}
  BY TypedIs
<1>2. NULL \in Links /\ "left" \in Sides /\ "right" \in Sides
  BY DEF Links, Sides
<1>3. n \in DOMAIN heap => heap[n].left \in Links /\ heap[n].right \in Links
  BY <1>1 DEF Records
<1> HIDE DEF n, p
<1>4. CASE DeleteLeaf(key)
  <2>1. /\ \/ bst_root' = NULL /\ heap' = Without(heap, n)
           \/ /\ bst_root' = bst_root
              /\ heap' = Without([heap EXCEPT ![p].left = NULL, ![p].right = NULL], n)
        /\ status' = status
    BY <1>4 DEF DeleteLeaf, n, p
  <2>2. Records([[heap EXCEPT ![p]["left"] = NULL] EXCEPT ![p]["right"] = NULL])
    BY <1>1, <1>2, LinkStored
  <2>3. [heap EXCEPT ![p].left = NULL, ![p].right = NULL]
          = [[heap EXCEPT ![p]["left"] = NULL] EXCEPT ![p]["right"] = NULL]
    OBVIOUS
  <2>4. Records(heap')
    BY <1>1, <2>1, <2>2, <2>3, NodeFreed
  <2> QED
    BY <1>1, <1>2, <2>1, <2>4 DEF TypeOK, Records
<1>5. CASE DeleteOneChild(key)
  <2> DEFINE side == IF heap[n].left # NULL THEN "left" ELSE "right"
  <2>1. /\ \/ bst_root' = heap[n][side] /\ heap' = Without(heap, n)
           \/ /\ bst_root' = bst_root
              /\ heap' = Without([heap EXCEPT ![p][side] = heap[n][side]], n)
        /\ status' = status
        /\ n \in DOMAIN heap
    BY <1>5 DEF DeleteOneChild, n, p
  <2>2. side \in Sides /\ heap[n][side] \in Links
    BY <1>2, <1>3, <2>1
  <2> HIDE DEF side
  <2>3. Records(heap')
    BY <1>1, <2>1, <2>2, LinkStored, NodeFreed
  <2> QED
    BY <1>1, <2>1, <2>2, <2>3 DEF TypeOK, Records
<1>6. CASE DeleteTwoChildren(key)
  <2> DEFINE way == Leftmost(heap, heap[n].right)
             suc == way.end
             side == IF way.frames # <<>> THEN "left" ELSE "right"
  <2>1. /\ suc \in DOMAIN heap
        /\ heap' = Without([heap EXCEPT ![n].data = heap[suc].data,
                                        ![n][side] = heap[suc].right], suc)
        /\ bst_root' = bst_root /\ status' = status
    BY <1>6 DEF DeleteTwoChildren, n
  <2>2. side \in Sides
    BY <1>2
  <2> HIDE DEF suc, side
  <2>3. heap[suc].data \in Keys /\ heap[suc].right \in Links
    BY <1>1, <2>1 DEF Records
  <2>4. Records([[heap EXCEPT ![n].data = heap[suc].data] EXCEPT ![n][side] = heap[suc].right])
    BY <1>1, <2>2, <2>3, DataStored, LinkStored
  <2>5. [heap EXCEPT ![n].data = heap[suc].data, ![n][side] = heap[suc].right]
          = [[heap EXCEPT ![n].data = heap[suc].data] EXCEPT ![n][side] = heap[suc].right]
    OBVIOUS
  <2>6. Records(heap')
    BY <2>1, <2>4, <2>5, NodeFreed
  <2> QED
    BY <1>1, <2>1, <2>6 DEF TypeOK, Records
<1>7. CASE DeleteEnds(key)
  BY <1>1, <1>7 DEF DeleteEnds, End, TypeOK, Records
<1> QED
  BY <1>4, <1>5, <1>6, <1>7 DEF Delete

LEMMA StepTyped == TypeOK /\ [Next]_vars => TypeOK'
<1> SUFFICES ASSUME TypeOK, [Next]_vars
             PROVE  TypeOK'
  OBVIOUS
<1>1. ASSUME NEW key \in Keys, Insert(key)
      PROVE  TypeOK'
  BY <1>1, InsertTyped
<1>2. ASSUME NEW key \in Keys, Delete(key)
      PROVE  TypeOK'
  BY <1>2, DeleteTyped
<1>3. CASE Destroy
  <2>1. \/ /\ heap' = [n \in DOMAIN heap \ Reachable(heap, bst_root) |-> heap[n]]
           /\ bst_root' = NULL /\ status' = status
        \/ heap' = heap /\ bst_root' = bst_root /\ status' = "ended"
    BY <1>3 DEF Destroy, End
  <2> QED
    BY <2>1 DEF TypeOK, Links
<1>4. CASE UNCHANGED vars
  BY <1>4 DEF vars, TypeOK
<1> QED
  BY <1>1, <1>2, <1>3, <1>4 DEF Next

(* The nodes in memory are records with a key and two links, whatever was  *)
(* called: what dangles is a link to an address, never a node that is no   *)
(* record any more.                                                        *)
THEOREM BSTTypeCorrect == Spec => []TypeOK
<1>1. Init => TypeOK
  BY DEF Init, TypeOK, Links
<1> QED
  BY <1>1, StepTyped, PTL DEF Spec

-----------------------------------------------------------------------------
(* What the calls do to a search tree: a leaf is added, a node with one    *)
(* child at most is taken out, the data of a node are replaced.            *)

(* g is h with a new leaf n on side s of p.                                *)
LeafAdded(h, g, n, p, s) ==
  /\ DOMAIN g = DOMAIN h \cup {n}
  /\ \A t \in Sides : g[n][t] = NULL
  /\ \A m \in DOMAIN h :
       /\ g[m].data = h[m].data
       /\ \A t \in Sides : g[m][t] = IF m = p /\ t = s THEN n ELSE h[m][t]

LEMMA LinkOrNull ==
  ASSUME NEW h, Typed(h), NEW r, IsTree(h, r),
         NEW m \in Reachable(h, r), NEW s \in Sides
  PROVE  h[m][s] \in Reachable(h, r) \cup {NULL}
BY TreeLinks, ReachedInDomain DEF Treelike

LEMMA LeafReached ==
  ASSUME NEW h, Typed(h), NEW g, Typed(g), NEW r, IsTree(h, r),
         NEW n \in Nodes \ DOMAIN h, NEW p \in Reachable(h, r), NEW s \in Sides,
         h[p][s] = NULL, LeafAdded(h, g, n, p, s)
  PROVE  /\ Reachable(g, n) = {n}
         /\ \A x \in Reachable(h, r) \cup {NULL} :
              /\ Reachable(h, x) \subseteq Reachable(g, x)
              /\ Reachable(g, x) \subseteq Reachable(h, x) \cup {n}
              /\ n \in Reachable(g, x) => p \in Reachable(h, x)
<1>1. NULL \notin DOMAIN h /\ NULL \notin DOMAIN g
  BY BinaryTreeAssumption DEF Typed
<1>2. Reachable(g, n) = {n}
  <2>1. n \in DOMAIN g
    BY DEF LeafAdded
  <2>2. Closed(g, {n})
    BY <1>1, <2>1 DEF Closed, LeafAdded
  <2>3. Reachable(g, n) \subseteq {n}
    BY <2>2, ReachableLeast
  <2> QED
    BY <2>1, <2>3, ReachedInDomain
<1>3. ASSUME NEW x \in Reachable(h, r) \cup {NULL}
      PROVE  /\ Reachable(h, x) \subseteq Reachable(g, x)
             /\ Reachable(g, x) \subseteq Reachable(h, x) \cup {n}
             /\ n \in Reachable(g, x) => p \in Reachable(h, x)
  <2>1. /\ Reachable(h, x) \subseteq Reachable(h, r) /\ Reachable(h, x) \subseteq DOMAIN h
        /\ x \in DOMAIN h => x \in Reachable(h, x)
    BY <1>1, ReachedBelow, ReachedInDomain
  <2>2. \A m \in Reachable(h, x), t \in Sides : h[m][t] # n
    <3> TAKE m \in Reachable(h, x), t \in Sides
    <3>1. h[m][t] \in Reachable(h, r) \cup {NULL}
      BY <2>1, LinkOrNull
    <3> QED
      BY <3>1, BinaryTreeAssumption, ReachedInDomain
  <2>3. x # n
    BY BinaryTreeAssumption, ReachedInDomain
  <2>4. Closed(g, Reachable(h, x) \cup {n})
    <3>1. \A t \in Sides : g[n][t] \notin DOMAIN g
      BY <1>1 DEF LeafAdded
    <3>2. ASSUME NEW m \in Reachable(h, x), NEW t \in Sides, g[m][t] \in DOMAIN g
          PROVE  g[m][t] \in Reachable(h, x) \cup {n}
      BY <2>1, <3>2, ReachedInDomain DEF LeafAdded
    <3> QED
      BY <2>1, <3>1, <3>2 DEF Closed, LeafAdded
  <2>5. Reachable(g, x) \subseteq Reachable(h, x) \cup {n}
    <3>1. x \in DOMAIN g => x \in Reachable(h, x) \cup {n}
      BY <2>1 DEF LeafAdded
    <3> QED
      BY <2>4, <3>1, ReachableLeast
  <2>6. ASSUME p \notin Reachable(h, x)
        PROVE  n \notin Reachable(g, x)
    <3>1. Closed(g, Reachable(h, x))
      <4>1. ASSUME NEW m \in Reachable(h, x), NEW t \in Sides, g[m][t] \in DOMAIN g
            PROVE  g[m][t] \in Reachable(h, x)
        <5>1. g[m][t] = h[m][t] /\ h[m][t] \in DOMAIN h
          BY <2>1, <2>2, <2>6, <4>1 DEF LeafAdded
        <5> QED
          BY <5>1, ReachedInDomain
      <4> QED
        BY <2>1, <4>1 DEF Closed, LeafAdded
    <3>2. x \in DOMAIN g => x \in Reachable(h, x)
      BY <2>1, <2>3 DEF LeafAdded
    <3>3. Reachable(g, x) \subseteq Reachable(h, x)
      BY <3>1, <3>2, ReachableLeast
    <3> QED
      BY <2>1, <3>3
  <2>7. Reachable(h, x) \subseteq Reachable(g, x)
    <3> DEFINE S == Reachable(h, x) \cap Reachable(g, x)
    <3>1. Closed(h, S)
      <4>1. ASSUME NEW m \in S, NEW t \in Sides, h[m][t] \in DOMAIN h
            PROVE  h[m][t] \in S
        <5>1. g[m][t] = h[m][t] /\ h[m][t] \in DOMAIN g
          BY <1>1, <2>1, <4>1 DEF LeafAdded
        <5>2. h[m][t] \in Reachable(h, x)
          BY <4>1, ReachedInDomain
        <5>3. h[m][t] \in Reachable(g, x)
          BY <5>1, ReachedInDomain
        <5> QED
          BY <5>2, <5>3
      <4> QED
        BY <2>1, <4>1 DEF Closed
    <3>2. x \in DOMAIN h => x \in S
      BY <2>1, ReachedInDomain DEF LeafAdded
    <3>3. Reachable(h, x) \subseteq S
      BY <3>1, <3>2, ReachableLeast
    <3> QED
      BY <3>3
  <2> QED
    BY <2>5, <2>6, <2>7
<1> QED
  BY <1>2, <1>3

LEMMA LeafKeepsTree ==
  ASSUME NEW h, Typed(h), NEW g, Typed(g), NEW r, SearchTree(h, r),
         NEW n \in Nodes \ DOMAIN h, NEW p \in Reachable(h, r), NEW s \in Sides,
         h[p][s] = NULL, LeafAdded(h, g, n, p, s),
         g[n].data # h[p].data, SideOf(g[n].data, h[p].data) = s,
         Fits(h, r, g[n].data, p)
  PROVE  SearchTree(g, r) /\ Reachable(g, r) = Reachable(h, r) \cup {n}
<1> DEFINE R == Reachable(h, r)
<1>1. /\ NULL \notin DOMAIN h /\ NULL \notin DOMAIN g /\ n # NULL
      /\ R \subseteq DOMAIN h /\ r \in DOMAIN h /\ r \in R
  <2>1. r \in DOMAIN h \cup {NULL}
    BY TreeLinks DEF SearchTree, Treelike
  <2> QED
    BY <2>1, BinaryTreeAssumption, ReachedInDomain DEF Typed
<1>2. IsTree(h, r) /\ InSearchOrder(h, r)
  BY DEF SearchTree
<1>3. /\ Reachable(g, n) = {n}
      /\ \A x \in R \cup {NULL} :
           /\ Reachable(h, x) \subseteq Reachable(g, x)
           /\ Reachable(g, x) \subseteq Reachable(h, x) \cup {n}
           /\ n \in Reachable(g, x) => p \in Reachable(h, x)
  BY <1>2, LeafReached
<1>4. Reachable(g, r) = R \cup {n}
  <2>1. p \in Reachable(g, r) /\ g[p][s] = n /\ n \in DOMAIN g
    BY <1>1, <1>3 DEF LeafAdded
  <2>2. n \in Reachable(g, r)
    BY <2>1, ReachedInDomain
  <2> QED
    BY <1>1, <1>3, <2>2
<1>5. \A m \in R, t \in Sides :
        /\ h[m][t] \in R \cup {NULL}
        /\ h[m][t] # n
        /\ g[m][t] = IF m = p /\ t = s THEN n ELSE h[m][t]
        /\ g[m].data = h[m].data
  BY <1>1, <1>2, LinkOrNull DEF LeafAdded
<1>6. \A t \in Sides : g[n][t] = NULL
  BY DEF LeafAdded
<1>7. Treelike(h, r)
  BY <1>2, TreeLinks
<1>8. Treelike(g, r)
  <2>1. r \in DOMAIN g
    BY <1>1 DEF LeafAdded
  <2>2. ASSUME NEW m \in R \cup {n}, NEW t \in Sides, g[m][t] # NULL
        PROVE  /\ g[m][t] \in DOMAIN g /\ g[m][t] # r
               /\ \A q \in R \cup {n}, u \in Sides : g[q][u] = g[m][t] => q = m /\ u = t
    <3>1. m \in R
      BY <1>6, <2>2
    <3>2. CASE m = p /\ t = s
      BY <1>1, <1>5, <1>6, <3>1, <3>2 DEF LeafAdded
    <3>3. CASE ~(m = p /\ t = s)
      <4>1. g[m][t] = h[m][t] /\ h[m][t] # NULL /\ h[m][t] # n
        BY <1>5, <2>2, <3>1, <3>3
      <4>2. h[m][t] \in DOMAIN h /\ h[m][t] # r
            /\ \A q \in R, u \in Sides : h[q][u] = h[m][t] => q = m /\ u = t
        BY <1>7, <3>1, <4>1 DEF Treelike
      <4>3. ASSUME NEW q \in R \cup {n}, NEW u \in Sides, g[q][u] = g[m][t]
            PROVE  q = m /\ u = t
        <5>1. q \in R
          BY <1>6, <2>2, <4>3
        <5>2. g[q][u] = h[q][u]
          BY <1>5, <4>1, <4>3, <5>1
        <5> QED
          BY <4>1, <4>2, <4>3, <5>1, <5>2
      <4>4. g[m][t] \in DOMAIN g /\ g[m][t] # r
        BY <4>1, <4>2 DEF LeafAdded
      <4> QED
        BY <4>3, <4>4
    <3> QED
      BY <3>2, <3>3
  <2> QED
    BY <1>4, <2>1, <2>2 DEF Treelike
<1>9. \A m \in Reachable(g, r), t \in Sides : \A y \in Reachable(g, g[m][t]) :
        g[y].data # g[m].data /\ SideOf(g[y].data, g[m].data) = t
  <2> TAKE m \in Reachable(g, r), t \in Sides
  <2> TAKE y \in Reachable(g, g[m][t])
  <2>1. m \in R
    <3>1. m = n => g[m][t] = NULL
      BY <1>6
    <3>2. Reachable(g, NULL) = {}
      BY <1>1, ReachedInDomain
    <3> QED
      BY <1>4, <3>1, <3>2
  <2>2. g[m].data = h[m].data
    BY <1>5, <2>1
  <2>3. CASE m = p /\ t = s
    <3>1. y = n
      BY <1>3, <1>5, <2>1, <2>3
    <3> QED
      BY <2>2, <2>3, <3>1
  <2>4. CASE ~(m = p /\ t = s)
    <3>1. g[m][t] = h[m][t] /\ h[m][t] \in R \cup {NULL}
      BY <1>5, <2>1, <2>4
    <3>2. CASE y = n
      <4>1. p \in Reachable(h, h[m][t])
        BY <1>3, <3>1, <3>2
      <4> QED
        BY <2>1, <2>2, <3>2, <4>1 DEF Fits
    <3>3. CASE y # n
      <4>1. y \in Reachable(h, h[m][t])
        BY <1>3, <3>1, <3>3
      <4>2. h[y].data # h[m].data /\ SideOf(h[y].data, h[m].data) = t
        BY <1>2, <2>1, <4>1, SearchOrder
      <4>3. g[y].data = h[y].data
        BY <4>1, ReachedInDomain DEF LeafAdded
      <4> QED
        BY <2>2, <4>2, <4>3
    <3> QED
      BY <3>2, <3>3
  <2> QED
    BY <2>3, <2>4
<1>10. SearchTree(g, r)
  BY <1>8, <1>9, TreeLinks, SearchOrder DEF SearchTree
<1> QED
  BY <1>4, <1>10

(* The first node is a search tree.                                        *)
LEMMA FirstNode ==
  ASSUME NEW g, Typed(g), NEW n \in DOMAIN g, \A t \in Sides : g[n][t] = NULL
  PROVE  SearchTree(g, n) /\ Reachable(g, n) = {n}
<1>1. NULL \notin DOMAIN g
  BY BinaryTreeAssumption DEF Typed
<1>2. Reachable(g, n) = {n}
  <2>1. Closed(g, {n})
    BY <1>1 DEF Closed
  <2>2. Reachable(g, n) \subseteq {n}
    BY <2>1, ReachableLeast
  <2> QED
    BY <2>2, ReachedInDomain
<1>3. IsTree(g, n)
  BY <1>2, TreeLinks DEF Treelike
<1>4. Reachable(g, NULL) = {}
  BY <1>1, ReachedInDomain
<1>5. InSearchOrder(g, n)
  BY <1>2, <1>4, SearchOrder
<1> QED
  BY <1>2, <1>3, <1>5 DEF SearchTree

(* n, which has no child but c, is taken out of the tree from r, and c     *)
(* takes its place.                                                        *)
Past(n, c, x) == IF x = n THEN c ELSE x

Spliced(h, g, r, n, c) ==
  /\ DOMAIN g = DOMAIN h \ {n}
  /\ \A m \in Reachable(h, r) \ {n} :
       /\ g[m].data = h[m].data
       /\ \A t \in Sides : g[m][t] = Past(n, c, h[m][t])

OnlyChild(h, n, c) ==
  \E s \in Sides : h[n][s] = c /\ \A t \in Sides \ {s} : h[n][t] = NULL

LEMMA OnlyChildIs ==
  ASSUME NEW h, Typed(h), NEW r, SearchTree(h, r), NEW n \in Reachable(h, r),
         NEW c, OnlyChild(h, n, c)
  PROVE  /\ c \in Reachable(h, r) \cup {NULL}
         /\ c # n
         /\ \A t \in Sides : h[n][t] = c \/ h[n][t] = NULL
<1>1. PICK s \in Sides : h[n][s] = c /\ \A t \in Sides \ {s} : h[n][t] = NULL
  BY DEF OnlyChild
<1>2. c \in Reachable(h, r) \cup {NULL}
  BY <1>1, LinkOrNull DEF SearchTree
<1>3. c # n
  <2> SUFFICES ASSUME c = n PROVE FALSE
    OBVIOUS
  <2>1. n \in Reachable(h, h[n][s])
    BY <1>1, ReachedInDomain
  <2> QED
    BY <2>1, NotBelowItself
<1> QED
  BY <1>1, <1>2, <1>3

LEMMA SplicedReached ==
  ASSUME NEW h, Typed(h), NEW g, Typed(g), NEW r, SearchTree(h, r),
         NEW n \in Reachable(h, r), NEW c, OnlyChild(h, n, c), Spliced(h, g, r, n, c),
         NEW x \in Reachable(h, r) \cup {NULL}
  PROVE  Reachable(g, Past(n, c, x)) = Reachable(h, x) \ {n}
<1> DEFINE R == Reachable(h, r)
           X == Reachable(h, x)
           G == Reachable(g, Past(n, c, x))
<1>1. /\ c \in R \cup {NULL} /\ c # n
      /\ \A t \in Sides : h[n][t] = c \/ h[n][t] = NULL
  BY OnlyChildIs
<1>2. /\ NULL \notin DOMAIN h /\ NULL \notin DOMAIN g /\ n # NULL
      /\ R \subseteq DOMAIN h /\ X \subseteq DOMAIN h /\ n \in DOMAIN h
      /\ DOMAIN g = DOMAIN h \ {n}
  BY BinaryTreeAssumption, ReachedInDomain DEF Typed, Spliced
<1>3. X \subseteq R
  BY <1>2, ReachedBelow, ReachedInDomain
<1>4. \A m \in R, t \in Sides : h[m][t] \in R \cup {NULL}
  BY LinkOrNull DEF SearchTree
<1>5. \A m \in R \ {n}, t \in Sides : g[m][t] = Past(n, c, h[m][t])
  BY DEF Spliced
<1>6. \A m \in X, t \in Sides : h[m][t] \in DOMAIN h => h[m][t] \in X
  BY ReachedInDomain
<1>7. n \in X /\ c # NULL => c \in X
  <2>1. PICK s \in Sides : h[n][s] = c
    BY DEF OnlyChild
  <2> QED
    BY <1>1, <1>2, <1>6, <2>1
<1>8. G \subseteq X \ {n}
  <2>1. ASSUME NEW m \in X \ {n}, NEW t \in Sides, g[m][t] \in DOMAIN g
        PROVE  g[m][t] \in X \ {n}
    <3>1. g[m][t] = Past(n, c, h[m][t]) /\ h[m][t] \in R \cup {NULL}
      BY <1>3, <1>4, <1>5
    <3>2. CASE h[m][t] = n
      <4>1. n \in X /\ g[m][t] = c
        BY <1>2, <1>6, <3>1, <3>2 DEF Past
      <4> QED
        BY <1>1, <1>2, <1>7, <2>1, <4>1
    <3>3. CASE h[m][t] # n
      BY <1>2, <1>6, <2>1, <3>1, <3>3 DEF Past
    <3> QED
      BY <3>2, <3>3
  <2>2. Closed(g, X \ {n})
    BY <1>2, <2>1 DEF Closed
  <2>3. Past(n, c, x) \in DOMAIN g => Past(n, c, x) \in X \ {n}
    <3>1. x \in DOMAIN h => x \in X
      BY ReachedInDomain
    <3> QED
      BY <1>1, <1>2, <1>7, <3>1 DEF Past
  <2> QED
    BY <2>2, <2>3, ReachableLeast
<1>9. X \ {n} \subseteq G
  <2> DEFINE T == {m \in X : Past(n, c, m) \in G \cup {NULL}}
  <2>1. \A m \in G, t \in Sides : g[m][t] \in DOMAIN g => g[m][t] \in G
    BY ReachedInDomain
  <2>2. ASSUME NEW m \in T, NEW t \in Sides, h[m][t] \in DOMAIN h
        PROVE  h[m][t] \in T
    <3>1. m \in X /\ Past(n, c, m) \in G \cup {NULL} /\ h[m][t] \in X /\ h[m][t] # NULL
      BY <1>2, <1>6, <2>2
    <3>2. CASE m = n
      <4>1. h[m][t] = c /\ c # NULL
        BY <1>1, <3>1, <3>2
      <4>2. Past(n, c, c) = c /\ Past(n, c, n) = c
        BY <1>1 DEF Past
      <4> QED
        BY <3>1, <3>2, <4>1, <4>2
    <3>3. CASE m # n
      <4>1. m \in G
        BY <1>2, <3>1, <3>3 DEF Past
      <4>2. g[m][t] = Past(n, c, h[m][t])
        BY <1>3, <1>5, <3>1, <3>3
      <4>3. Past(n, c, h[m][t]) \in DOMAIN g \cup {NULL}
        BY <1>1, <1>2, <2>2 DEF Past
      <4>4. Past(n, c, h[m][t]) \in G \cup {NULL}
        BY <2>1, <4>1, <4>2, <4>3
      <4> QED
        BY <3>1, <4>4
    <3> QED
      BY <3>2, <3>3
  <2>3. Closed(h, T)
    BY <1>2, <2>2 DEF Closed
  <2>4. x \in DOMAIN h => x \in T
    <3>1. x \in DOMAIN h => x \in X
      BY ReachedInDomain
    <3>2. Past(n, c, x) \in DOMAIN g => Past(n, c, x) \in G
      BY ReachedInDomain
    <3>3. Past(n, c, x) \in DOMAIN g \cup {NULL}
      BY <1>1, <1>2 DEF Past
    <3> QED
      BY <3>1, <3>2, <3>3
  <2>5. X \subseteq T
    BY <2>3, <2>4, ReachableLeast
  <2>6. \A m \in X \ {n} : Past(n, c, m) = m /\ m # NULL
    BY <1>2 DEF Past
  <2> QED
    BY <2>5, <2>6
<1> QED
  BY <1>8, <1>9

LEMMA SplicedTree ==
  ASSUME NEW h, Typed(h), NEW g, Typed(g), NEW r, SearchTree(h, r),
         NEW n \in Reachable(h, r), NEW c, OnlyChild(h, n, c), Spliced(h, g, r, n, c)
  PROVE  /\ SearchTree(g, Past(n, c, r))
         /\ Reachable(g, Past(n, c, r)) = Reachable(h, r) \ {n}
<1> DEFINE R == Reachable(h, r)
           root == Past(n, c, r)
<1>1. /\ c \in R \cup {NULL} /\ c # n
      /\ \A t \in Sides : h[n][t] = c \/ h[n][t] = NULL
  BY OnlyChildIs
<1>2. Treelike(h, r)
  BY TreeLinks DEF SearchTree
<1>3. /\ NULL \notin DOMAIN h /\ NULL \notin DOMAIN g /\ n # NULL
      /\ R \subseteq DOMAIN h /\ r \in DOMAIN h /\ r \in R
      /\ DOMAIN g = DOMAIN h \ {n}
  <2>1. r \in DOMAIN h \cup {NULL}
    BY <1>2 DEF Treelike
  <2> QED
    BY <2>1, BinaryTreeAssumption, ReachedInDomain DEF Typed, Spliced
<1>4. Reachable(g, root) = R \ {n}
  BY <1>3, SplicedReached
<1>5. \A m \in R, t \in Sides : h[m][t] \in R \cup {NULL}
  BY LinkOrNull DEF SearchTree
<1>6. \A m \in R \ {n} :
        /\ g[m].data = h[m].data
        /\ \A t \in Sides : g[m][t] = Past(n, c, h[m][t])
  BY DEF Spliced
<1>7. PICK s \in Sides : h[n][s] = c
  BY DEF OnlyChild
<1>8. ASSUME NEW m \in R \ {n}, NEW t \in Sides, g[m][t] # NULL
      PROVE  /\ g[m][t] \in DOMAIN g /\ g[m][t] # root
             /\ \A q \in R \ {n}, u \in Sides : g[q][u] = g[m][t] => q = m /\ u = t
  <2>1. g[m][t] = Past(n, c, h[m][t])
    BY <1>6
  <2>2. h[m][t] # NULL
    BY <1>3, <1>8, <2>1 DEF Past
  <2>3. h[m][t] \in DOMAIN h /\ h[m][t] # r
        /\ \A q \in R, u \in Sides : h[q][u] = h[m][t] => q = m /\ u = t
    BY <1>2, <2>2 DEF Treelike
  <2>4. c # NULL => /\ c \in DOMAIN h /\ c # r
                    /\ \A q \in R, u \in Sides : h[q][u] = c => q = n /\ u = s
    BY <1>2, <1>7 DEF Treelike
  <2>5. g[m][t] \in DOMAIN g
    BY <1>1, <1>3, <1>8, <2>1, <2>3, <2>4 DEF Past
  <2>6. g[m][t] # root
    BY <1>8, <2>1, <2>3, <2>4 DEF Past
  <2>7. ASSUME NEW q \in R \ {n}, NEW u \in Sides, g[q][u] = g[m][t]
        PROVE  q = m /\ u = t
    <3>1. g[q][u] = Past(n, c, h[q][u])
      BY <1>6
    <3>2. h[q][u] # c /\ h[m][t] # c
      BY <1>8, <2>1, <2>2, <2>4, <2>7, <3>1 DEF Past
    <3>3. h[q][u] = h[m][t]
      BY <2>1, <2>7, <3>1, <3>2 DEF Past
    <3> QED
      BY <2>3, <3>3
  <2> QED
    BY <2>5, <2>6, <2>7
<1>9. Treelike(g, root)
  <2>1. root \in DOMAIN g \cup {NULL}
    BY <1>1, <1>3 DEF Past
  <2> QED
    BY <1>4, <1>8, <2>1 DEF Treelike
<1>10. \A m \in Reachable(g, root), t \in Sides : \A y \in Reachable(g, g[m][t]) :
         g[y].data # g[m].data /\ SideOf(g[y].data, g[m].data) = t
  <2> TAKE m \in Reachable(g, root), t \in Sides
  <2> TAKE y \in Reachable(g, g[m][t])
  <2>1. m \in R \ {n} /\ g[m][t] = Past(n, c, h[m][t]) /\ h[m][t] \in R \cup {NULL}
    BY <1>4, <1>5, <1>6
  <2>2. y \in Reachable(h, h[m][t]) \ {n}
    BY <2>1, SplicedReached
  <2>3. y \in R
    BY <2>1, <2>2, ReachedBelow
  <2>4. h[y].data # h[m].data /\ SideOf(h[y].data, h[m].data) = t
    BY <2>1, <2>2, SearchOrder DEF SearchTree
  <2> QED
    BY <1>6, <2>1, <2>2, <2>3, <2>4
<1>11. SearchTree(g, root)
  BY <1>9, <1>10, TreeLinks, SearchOrder DEF SearchTree
<1> QED
  BY <1>4, <1>11

-----------------------------------------------------------------------------
(* The data of n are replaced.                                             *)
Relabelled(h, g, n, d) ==
  /\ DOMAIN g = DOMAIN h
  /\ \A m \in DOMAIN h :
       /\ g[m].data = IF m = n THEN d ELSE h[m].data
       /\ \A t \in Sides : g[m][t] = h[m][t]

LEMMA RelabelledReached ==
  ASSUME NEW h, Typed(h), NEW g, Typed(g), NEW n, NEW d, Relabelled(h, g, n, d), NEW x
  PROVE  Reachable(g, x) = Reachable(h, x)
<1>1. Closed(g, Reachable(h, x))
  BY ReachedInDomain DEF Closed, Relabelled
<1>2. Closed(h, Reachable(g, x))
  BY ReachedInDomain DEF Closed, Relabelled
<1>3. DOMAIN g = DOMAIN h
  BY DEF Relabelled
<1>4. x \in DOMAIN h => x \in Reachable(h, x) /\ x \in Reachable(g, x)
  BY <1>3, ReachedInDomain
<1>5. Reachable(g, x) \subseteq Reachable(h, x)
  BY <1>1, <1>3, <1>4, ReachableLeast
<1>6. Reachable(h, x) \subseteq Reachable(g, x)
  BY <1>2, <1>4, ReachableLeast
<1> QED
  BY <1>5, <1>6

LEMMA RelabelledTree ==
  ASSUME NEW h, Typed(h), NEW g, Typed(g), NEW r, SearchTree(h, r),
         NEW n \in Reachable(h, r), NEW d, Relabelled(h, g, n, d), Fits(h, r, d, n),
         \A t \in Sides : \A y \in Reachable(h, h[n][t]) :
           h[y].data # d /\ SideOf(h[y].data, d) = t
  PROVE  SearchTree(g, r) /\ Reachable(g, r) = Reachable(h, r)
<1> DEFINE R == Reachable(h, r)
<1>1. \A x : Reachable(g, x) = Reachable(h, x)
  BY RelabelledReached
<1>2. R \subseteq DOMAIN h
  BY ReachedInDomain
<1>3. \A m \in R, t \in Sides : g[m][t] = h[m][t]
  BY <1>2 DEF Relabelled
<1>4. Treelike(g, r)
  <2>1. Treelike(h, r) /\ DOMAIN g = DOMAIN h
    BY TreeLinks DEF SearchTree, Relabelled
  <2> QED
    BY <1>1, <1>3, <2>1 DEF Treelike
<1>5. \A m \in Reachable(g, r), t \in Sides : \A y \in Reachable(g, g[m][t]) :
        g[y].data # g[m].data /\ SideOf(g[y].data, g[m].data) = t
  <2> TAKE m \in Reachable(g, r), t \in Sides
  <2> TAKE y \in Reachable(g, g[m][t])
  <2>1. m \in R /\ y \in Reachable(h, h[m][t])
    BY <1>1, <1>3
  <2>2. y \in DOMAIN h /\ m \in DOMAIN h
    BY <2>1, ReachedInDomain
  <2>3. h[y].data # h[m].data /\ SideOf(h[y].data, h[m].data) = t /\ y # m
    BY <2>1, SearchOrder DEF SearchTree
  <2>4. CASE m = n
    BY <2>1, <2>2, <2>3, <2>4 DEF Relabelled
  <2>5. CASE y = n
    <3>1. d # h[m].data /\ SideOf(d, h[m].data) = t
      BY <2>1, <2>5 DEF Fits
    <3> QED
      BY <2>2, <2>3, <2>5, <3>1 DEF Relabelled
  <2>6. CASE m # n /\ y # n
    BY <2>2, <2>3, <2>6 DEF Relabelled
  <2> QED
    BY <2>4, <2>5, <2>6
<1>6. SearchTree(g, r)
  BY <1>4, <1>5, TreeLinks, SearchOrder DEF SearchTree
<1> QED
  BY <1>1, <1>6

-----------------------------------------------------------------------------
(* The stores of the calls.                                                *)

(* g is h with v as the link of p on side s.                               *)
LinkSet(h, g, p, s, v) ==
  /\ DOMAIN g = DOMAIN h
  /\ \A m \in DOMAIN h :
       /\ g[m].data = h[m].data
       /\ \A t \in Sides : g[m][t] = IF m = p /\ t = s THEN v ELSE h[m][t]

LEMMA LinkStoredIs ==
  ASSUME NEW h, Records(h), NEW p, NEW s \in Sides, NEW v
  PROVE  LinkSet(h, [h EXCEPT ![p][s] = v], p, s, v)
<1> DEFINE g == [h EXCEPT ![p][s] = v]
<1>1. DOMAIN g = DOMAIN h
  OBVIOUS
<1>2. ASSUME NEW m \in DOMAIN h
      PROVE  /\ g[m].data = h[m].data
             /\ \A t \in Sides : g[m][t] = IF m = p /\ t = s THEN v ELSE h[m][t]
  <2>1. h[m] \in [data : Keys, left : Links, right : Links]
    BY DEF Records
  <2>2. g[m] = IF m = p THEN [h[m] EXCEPT ![s] = v] ELSE h[m]
    OBVIOUS
  <2>3. /\ [h[m] EXCEPT ![s] = v].data = h[m].data
        /\ \A t \in Sides : [h[m] EXCEPT ![s] = v][t] = IF t = s THEN v ELSE h[m][t]
    BY <2>1 DEF Sides
  <2> HIDE DEF g
  <2> QED
    BY <2>2, <2>3
<1> HIDE DEF g
<1>3. LinkSet(h, g, p, s, v)
  BY <1>1, <1>2 DEF LinkSet
<1> QED
  BY <1>3 DEF g

LEMMA WithoutIs ==
  ASSUME NEW h, NEW n
  PROVE  /\ DOMAIN Without(h, n) = DOMAIN h \ {n}
         /\ \A m \in DOMAIN h \ {n} : Without(h, n)[m] = h[m]
BY DEF Without

(* The link to n gets its child.                                           *)
LEMMA LinkSpliced ==
  ASSUME NEW h, Records(h), NEW r, SearchTree(h, r), NEW n \in Reachable(h, r),
         NEW p \in Reachable(h, r), NEW s \in Sides, h[p][s] = n, NEW c
  PROVE  /\ Spliced(h, Without([h EXCEPT ![p][s] = c], n), r, n, c)
         /\ n # r
<1> DEFINE e == [h EXCEPT ![p][s] = c]
           g == Without(e, n)
<1>1. LinkSet(h, e, p, s, c)
  BY LinkStoredIs
<1> HIDE DEF e
<1> Typed(h)
  BY RecordsTyped
<1>2. DOMAIN g = DOMAIN e \ {n} /\ \A m \in DOMAIN e \ {n} : g[m] = e[m]
  BY WithoutIs
<1> HIDE DEF g
<1>3. Reachable(h, r) \subseteq DOMAIN h
  BY ReachedInDomain
<1>4. n # NULL
  BY <1>3, BinaryTreeAssumption DEF Typed
<1>5. n # r /\ \A m \in Reachable(h, r), t \in Sides : h[m][t] = n => m = p /\ t = s
  BY <1>4, TreeLinks DEF SearchTree, Treelike
<1>6. Spliced(h, g, r, n, c)
  <2>1. DOMAIN g = DOMAIN h \ {n}
    BY <1>1, <1>2 DEF LinkSet
  <2>2. ASSUME NEW m \in Reachable(h, r) \ {n}
        PROVE  /\ g[m].data = h[m].data
               /\ \A t \in Sides : g[m][t] = Past(n, c, h[m][t])
    <3>1. m \in DOMAIN h /\ g[m] = e[m]
      BY <1>1, <1>2, <1>3 DEF LinkSet
    <3> QED
      BY <1>1, <1>5, <3>1 DEF LinkSet, Past
  <2> QED
    BY <2>1, <2>2 DEF Spliced
<1> QED
  BY <1>5, <1>6 DEF e, g

(* The root is no node's child.                                            *)
LEMMA RootSpliced ==
  ASSUME NEW h, Typed(h), NEW r, SearchTree(h, r), r \in DOMAIN h, NEW c
  PROVE  Spliced(h, Without(h, r), r, r, c)
<1>1. r # NULL /\ Reachable(h, r) \subseteq DOMAIN h
  BY BinaryTreeAssumption, ReachedInDomain DEF Typed
<1>2. \A m \in Reachable(h, r), t \in Sides : h[m][t] # r
  BY <1>1, TreeLinks DEF SearchTree, Treelike
<1> DEFINE g == Without(h, r)
<1>3. DOMAIN g = DOMAIN h \ {r} /\ \A m \in DOMAIN h \ {r} : g[m] = h[m]
  BY WithoutIs
<1> HIDE DEF g
<1>4. Spliced(h, g, r, r, c)
  BY <1>1, <1>2, <1>3 DEF Spliced, Past
<1> QED
  BY <1>4 DEF g

-----------------------------------------------------------------------------
(* Insertion.                                                              *)

LEMMA SoundIs ==
  /\ Sound <=> SearchTree(heap, bst_root)
  /\ Stored = {heap[m].data : m \in Reachable(heap, bst_root)}
BY DEF Sound, SearchTree, Stored, Contents

LEMMA InsertAdds ==
  ASSUME TypeOK, status = "running", Sound, NEW key \in Keys, key \notin Stored, Insert(key)
  PROVE  Sound' /\ Stored' = Stored \cup {key} /\ status' = "running"
<1> DEFINE way == Descent(heap, bst_root, key)
           R == Reachable(heap, bst_root)
<1>1. Typed(heap) /\ Records(heap) /\ bst_root \in Links
  BY TypedIs
<1>2. SearchTree(heap, bst_root) /\ Stored = {heap[m].data : m \in R}
  BY SoundIs
<1>3. Typed(heap')
  <2>1. TypeOK'
    BY InsertTyped
  <2> QED
    BY <2>1, TypedNext
<1>4. Found(heap, bst_root, key, way)
  BY <1>1, <1>2, DescentFinds
<1>5. way.end = NULL
  BY <1>2, <1>4 DEF Found
<1>6. NULL \notin DOMAIN heap
  BY <1>1, BinaryTreeAssumption DEF Typed
<1>7. InsertNew(key)
  BY <1>5, <1>6 DEF Insert, InsertFound, InsertEnds, way
<1>8. PICK n \in Nodes \ DOMAIN heap :
        IF way.frames = <<>>
        THEN /\ heap' = Allocated(n, key)
             /\ bst_root' = n
        ELSE /\ heap' = [Allocated(n, key) EXCEPT
                           ![LastFrame(way).node][LastFrame(way).side] = n]
             /\ UNCHANGED bst_root
  BY <1>7 DEF InsertNew, way
<1>9. status' = "running"
  BY <1>7 DEF InsertNew
<1> HIDE DEF way
<1> DEFINE a == Allocated(n, key)
<1>10. /\ Typed(a) /\ Records(a)
       /\ DOMAIN a = DOMAIN heap \cup {n}
       /\ \A m \in DOMAIN heap : a[m] = heap[m]
       /\ a[n].data = key /\ \A t \in Sides : a[n][t] = NULL
  <2>1. Typed(a) /\ Records(a)
    BY <1>1, NodeAllocated, RecordsTyped
  <2>2. /\ DOMAIN a = DOMAIN heap \cup {n}
        /\ \A m \in DOMAIN heap : a[m] = heap[m]
        /\ a[n] = [data |-> key, left |-> NULL, right |-> NULL]
    BY DEF Allocated
  <2> HIDE DEF a
  <2> QED
    BY <2>1, <2>2 DEF Sides
<1> HIDE DEF a
<1>11. CASE way.frames = <<>>
  <2>1. heap' = a /\ bst_root' = n
    BY <1>8, <1>11 DEF a
  <2>2. R = {}
    BY <1>1, <1>4, <1>5, <1>6, <1>11, ReachedInDomain DEF Found
  <2>3. SearchTree(a, n) /\ Reachable(a, n) = {n}
    BY <1>10, FirstNode
  <2>4. SearchTree(heap', bst_root') /\ {heap'[m].data : m \in Reachable(heap', bst_root')} = {key}
    BY <1>10, <2>1, <2>3
  <2>5. Stored = {}
    BY <1>2, <2>2
  <2> QED
    BY <1>9, <2>4, <2>5 DEF Sound, SearchTree, Stored, Contents
<1>12. CASE way.frames # <<>>
  <2> DEFINE p == LastFrame(way).node
             s == LastFrame(way).side
             g == [a EXCEPT ![p][s] = n]
  <2>1. heap' = g /\ bst_root' = bst_root
    BY <1>8, <1>12 DEF a
  <2>2. /\ p \in R /\ Fits(heap, bst_root, key, p) /\ heap[p].data # key
        /\ s = SideOf(key, heap[p].data) /\ s \in Sides /\ heap[p][s] = NULL
    BY <1>4, <1>5, <1>12 DEF Found
  <2> HIDE DEF p, s
  <2>3. LinkSet(a, g, p, s, n)
    BY <1>10, <2>2, LinkStoredIs
  <2> HIDE DEF g
  <2>4. R \subseteq DOMAIN heap
    BY <1>1, ReachedInDomain
  <2>5. LeafAdded(heap, g, n, p, s)
    BY <1>10, <2>2, <2>3, <2>4 DEF LeafAdded, LinkSet
  <2>6. g[n].data = key
    BY <1>10, <2>3 DEF LinkSet
  <2>7. Typed(g)
    BY <1>3, <2>1
  <2>8. SearchTree(g, bst_root) /\ Reachable(g, bst_root) = R \cup {n}
    BY <1>1, <1>2, <2>2, <2>5, <2>6, <2>7, LeafKeepsTree
  <2>9. {g[m].data : m \in R \cup {n}} = Stored \cup {key}
    <3>1. \A m \in R : g[m].data = heap[m].data
      BY <2>4, <2>5 DEF LeafAdded
    <3> QED
      BY <1>2, <2>6, <3>1
  <2>10. /\ SearchTree(heap', bst_root')
         /\ {heap'[m].data : m \in Reachable(heap', bst_root')} = Stored \cup {key}
    BY <2>1, <2>8, <2>9
  <2> QED
    BY <1>9, <2>10 DEF Sound, SearchTree, Stored, Contents
<1> QED
  BY <1>11, <1>12

-----------------------------------------------------------------------------
(* Deletion.                                                               *)

(* A search for the inorder successor that has nowhere to go.              *)
LeftmostFrames(h, most, f) ==
  f = [w \in Links \X (0 .. most) |->
         LET n == w[1]
         IN  IF w[2] = 0 \/ n \notin DOMAIN h THEN <<>>
             ELSE IF h[n].left = NULL THEN <<>>
             ELSE <<[node |-> n, side |-> "left"]>> \o f[<<h[n].left, w[2] - 1>>]]

LEMMA LeftmostIsWalk ==
  ASSUME NEW h, NEW node
  PROVE  Leftmost(h, node) =
           Walk(h, node, (CHOOSE f : LeftmostFrames(h, Cardinality(DOMAIN h), f))
                           [<<node, Cardinality(DOMAIN h)>>])
BY DEF Leftmost, LeftmostFrames

LEMMA LeftmostFramesExist ==
  ASSUME NEW h, Typed(h), NEW most \in Nat
  PROVE  \E f : LeftmostFrames(h, most, f)
<1> DEFINE E == {k \in Nat : \E f : LeftmostFrames(h, k, f)}
<1>1. 0 \in E
  <2> DEFINE f == [w \in Links \X (0 .. 0) |-> <<>>]
  <2>1. \A w \in Links \X (0 .. 0) : w[2] = 0
    OBVIOUS
  <2>2. LeftmostFrames(h, 0, f)
    BY <2>1 DEF LeftmostFrames
  <2> QED
    BY <2>2
<1>2. ASSUME NEW k \in E
      PROVE  k + 1 \in E
  <2>1. PICK f : LeftmostFrames(h, k, f)
    OBVIOUS
  <2> DEFINE g == [w \in Links \X (0 .. k + 1) |->
                     IF w[2] = 0 \/ w[1] \notin DOMAIN h THEN <<>>
                     ELSE IF h[w[1]].left = NULL THEN <<>>
                     ELSE <<[node |-> w[1], side |-> "left"]>>
                            \o f[<<h[w[1]].left, w[2] - 1>>]]
  <2>2. \A w \in Links \X (0 .. k) : g[w] = f[w]
    <3> TAKE w \in Links \X (0 .. k)
    <3>1. w \in Links \X (0 .. k + 1)
      BY SMT
    <3> QED
      BY <2>1, <3>1, Zenon DEF LeftmostFrames
  <2>3. LeftmostFrames(h, k + 1, g)
    <3>1. ASSUME NEW w \in Links \X (0 .. k + 1), w[2] # 0, w[1] \in DOMAIN h
          PROVE  <<h[w[1]].left, w[2] - 1>> \in Links \X (0 .. k)
      BY <3>1 DEF Typed, Sides
    <3> QED
      BY <3>1, <2>2, Zenon DEF LeftmostFrames
  <2> QED
    BY <2>3
<1>3. most \in E
  <2> SUFFICES ASSUME most \notin E PROVE FALSE
    OBVIOUS
  <2>1. PICK m \in Nat \ E : \A n \in Nat \ E : m <= n
    BY LeastNatural
  <2>2. m # 0 /\ m - 1 \in Nat
    BY <1>1, <2>1
  <2>3. m - 1 \in E
    BY <2>1, <2>2
  <2> HIDE DEF E
  <2>4. (m - 1) + 1 = m
    BY <2>2
  <2> QED
    BY <1>2, <2>1, <2>3, <2>4
<1> QED
  BY <1>3

LEMMA LeftmostHere ==
  ASSUME NEW h, Typed(h), NEW x \in DOMAIN h, h[x].left = NULL
  PROVE  Leftmost(h, x).frames = <<>> /\ Leftmost(h, x).end = x
<1> DEFINE most == Cardinality(DOMAIN h)
           f == CHOOSE g : LeftmostFrames(h, most, g)
           w == <<x, most>>
<1>1. most \in Nat
  BY Counting
<1>2. LeftmostFrames(h, most, f)
  <2>1. \E g : LeftmostFrames(h, most, g)
    BY <1>1, LeftmostFramesExist
  <2> QED
    BY <2>1
<1>3. Leftmost(h, x) = Walk(h, x, f[w])
  BY LeftmostIsWalk
<1> HIDE DEF f
<1>4. w \in Links \X (0 .. most) /\ w[1] = x
  BY <1>1 DEF Typed, Links
<1> HIDE DEF w
<1>5. f[w] = <<>>
  BY <1>2, <1>4, Zenon DEF LeftmostFrames
<1> QED
  BY <1>3, <1>5 DEF Walk

(* What a search for a key of the tree is in a call of bst_delete_node.    *)
LEMMA TargetIs ==
  ASSUME TypeOK, Sound, NEW key \in Stored
  PROVE  /\ Target(key) \in Reachable(heap, bst_root)
         /\ Target(key) \in DOMAIN heap
         /\ heap[Target(key)].data = key
         /\ key \in Keys
         /\ \A y \in Reachable(heap, bst_root) : heap[y].data = key => y = Target(key)
         /\ Fits(heap, bst_root, key, Target(key))
         /\ \A s \in Sides : heap[Target(key)][s] \in Reachable(heap, bst_root) \cup {NULL}
<1> DEFINE way == Descent(heap, bst_root, key)
           R == Reachable(heap, bst_root)
<1>1. Typed(heap) /\ bst_root \in Links
  BY TypedIs
<1>2. SearchTree(heap, bst_root) /\ Stored = {heap[m].data : m \in R}
  BY SoundIs
<1>3. Found(heap, bst_root, key, way)
  BY <1>1, <1>2, DescentFinds
<1> HIDE DEF way
<1>4. PICK y \in R : heap[y].data = key
  BY <1>2
<1>5. y = way.end
  BY <1>3, <1>4 DEF Found
<1>6. R \subseteq DOMAIN heap /\ NULL \notin DOMAIN heap
  BY <1>1, BinaryTreeAssumption, ReachedInDomain DEF Typed
<1>7. Fits(heap, bst_root, key, y)
  BY <1>3, <1>4, <1>5, <1>6 DEF Found
<1>8. key \in Keys
  BY <1>1, <1>4, <1>6, LinksTyped
<1>9. \A s \in Sides : heap[y][s] \in R \cup {NULL}
  BY <1>1, <1>2, LinkOrNull DEF SearchTree
<1>10. Target(key) = y
  BY <1>5 DEF Target, way
<1> QED
  BY <1>3, <1>4, <1>5, <1>6, <1>7, <1>8, <1>9, <1>10 DEF Found

LEMMA ParentIs ==
  ASSUME TypeOK, Sound, NEW key \in Stored, Target(key) # bst_root
  PROVE  LET l == LastFrame(Descent(heap, bst_root, key))
         IN  /\ Parent(key) = l.node
             /\ l.node \in Reachable(heap, bst_root)
             /\ l.side \in Sides
             /\ heap[l.node][l.side] = Target(key)
<1> DEFINE way == Descent(heap, bst_root, key)
<1>1. Typed(heap) /\ bst_root \in Links
  BY TypedIs
<1>2. SearchTree(heap, bst_root)
  BY SoundIs
<1>3. Found(heap, bst_root, key, way)
  BY <1>1, <1>2, DescentFinds
<1>4. Target(key) = way.end /\ Parent(key) = LastFrame(way).node
  BY DEF Target, Parent
<1> HIDE DEF way
<1>5. /\ Parent(key) = LastFrame(way).node
      /\ LastFrame(way).node \in Reachable(heap, bst_root)
      /\ LastFrame(way).side \in Sides
      /\ heap[LastFrame(way).node][LastFrame(way).side] = Target(key)
  BY <1>3, <1>4 DEF Found
<1> QED
  BY <1>5 DEF way

(* A deletion that takes the node with the key out of the tree.            *)
LEMMA TargetSpliced ==
  ASSUME TypeOK, Sound, NEW key \in Stored, Typed(heap'),
         NEW c, OnlyChild(heap, Target(key), c),
         Spliced(heap, heap', bst_root, Target(key), c),
         bst_root' = Past(Target(key), c, bst_root)
  PROVE  /\ Sound' /\ Stored' = Stored \ {key}
         /\ Cardinality(DOMAIN heap') = Cardinality(DOMAIN heap) - 1
<1> DEFINE n == Target(key)
           R == Reachable(heap, bst_root)
           g == heap'
           root == bst_root'
<1>1. Typed(heap) /\ IsFiniteSet(DOMAIN heap)
  <2>1. Typed(heap)
    BY TypedIs
  <2> QED
    BY <2>1, Counting
<1>2. SearchTree(heap, bst_root) /\ Stored = {heap[m].data : m \in R}
  BY SoundIs
<1>3. /\ n \in R /\ n \in DOMAIN heap /\ heap[n].data = key
      /\ \A y \in R : heap[y].data = key => y = n
  BY TargetIs
<1> HIDE DEF n
<1>4. SearchTree(g, root) /\ Reachable(g, root) = R \ {n}
  BY <1>1, <1>2, <1>3, SplicedTree DEF n
<1>5. DOMAIN g = DOMAIN heap \ {n} /\ \A m \in R \ {n} : g[m].data = heap[m].data
  BY DEF Spliced, n
<1>6. {g[m].data : m \in R \ {n}} = Stored \ {key}
  BY <1>2, <1>3, <1>5
<1>7. Cardinality(DOMAIN g) = Cardinality(DOMAIN heap) - 1
  BY <1>1, <1>3, <1>5, FS_RemoveElement
<1>8. {g[m].data : m \in Reachable(g, root)} = Stored \ {key}
  BY <1>4, <1>6
<1> QED
  BY <1>4, <1>7, <1>8 DEF Sound, SearchTree, Stored, Contents

LEMMA DeleteLeafTakes ==
  ASSUME TypeOK, Sound, NEW key \in Stored, LinkedRight(key), DeleteLeaf(key), Typed(heap')
  PROVE  /\ Sound' /\ Stored' = Stored \ {key}
         /\ Cardinality(DOMAIN heap') = Cardinality(DOMAIN heap) - 1
<1> DEFINE n == Target(key)
           p == Parent(key)
           l == LastFrame(Descent(heap, bst_root, key))
<1>1. Typed(heap) /\ SearchTree(heap, bst_root)
  BY TypedIs, SoundIs
<1>2. n \in Reachable(heap, bst_root) /\ n \in DOMAIN heap /\ n # NULL
  BY <1>1, TargetIs, BinaryTreeAssumption DEF Typed
<1>3. Children(n) = {} /\ \A s \in Sides : heap[n][s] = NULL
  BY DEF DeleteLeaf, Children
<1>4. OnlyChild(heap, n, NULL)
  BY <1>3 DEF OnlyChild, Sides
<1>5. CASE n = bst_root
  <2>1. bst_root' = NULL /\ heap' = Without(heap, n)
    BY <1>5 DEF DeleteLeaf
  <2>2. Spliced(heap, heap', bst_root, n, NULL)
    BY <1>1, <1>2, <1>5, <2>1, RootSpliced
  <2>3. bst_root' = Past(n, NULL, bst_root)
    BY <1>5, <2>1 DEF Past
  <2> HIDE DEF n
  <2> QED
    BY <1>4, <2>2, <2>3, TargetSpliced DEF n
<1>6. CASE n # bst_root
  <2>1. p = l.node /\ p \in Reachable(heap, bst_root) /\ l.side \in Sides
        /\ heap[p][l.side] = n
    BY <1>6, ParentIs
  <2>2. Children(p) = {n}
    <3>1. Cardinality(Children(n)) # 1
      BY <1>3, FS_EmptySet
    <3>2. n = bst_root \/ Children(l.node) = {n}
      BY <1>3, <3>1 DEF LinkedRight, Target
    <3> QED
      BY <1>6, <2>1, <3>2
  <2>3. bst_root' = bst_root
        /\ heap' = Without([heap EXCEPT ![p].left = NULL, ![p].right = NULL], n)
    BY <1>6 DEF DeleteLeaf
  <2> DEFINE s == l.side
             e == [heap EXCEPT ![p][s] = NULL]
             b == [heap EXCEPT ![p].left = NULL, ![p].right = NULL]
  <2>4. p \in DOMAIN heap /\ s \in Sides /\ heap[p][s] = n
    BY <1>1, <2>1, ReachedInDomain
  <2> HIDE DEF l, p, n, s
  <2>5. \A t \in Sides : t # s => heap[p][t] = NULL
    <3> SUFFICES ASSUME NEW t \in Sides, t # s, heap[p][t] # NULL
                 PROVE  FALSE
      OBVIOUS
    <3>1. heap[p][t] = n
      BY <2>2 DEF Children
    <3>2. Treelike(heap, bst_root)
      BY <1>1, TreeLinks DEF SearchTree
    <3> QED
      BY <1>2, <2>1, <2>4, <3>1, <3>2 DEF Treelike
  <2>6. heap[p] \in [data : Keys, left : Links, right : Links]
    BY <2>4, TypedIs DEF Records
  <2>7. b = e
    <3>1. [heap[p] EXCEPT !.left = NULL, !.right = NULL] = [heap[p] EXCEPT ![s] = NULL]
      BY <2>4, <2>5, <2>6 DEF Sides
    <3>2. b = [heap EXCEPT ![p] = [heap[p] EXCEPT !.left = NULL, !.right = NULL]]
      BY <2>4
    <3>3. e = [heap EXCEPT ![p] = [heap[p] EXCEPT ![s] = NULL]]
      OBVIOUS
    <3> QED
      BY <3>1, <3>2, <3>3
  <2>8. Spliced(heap, Without(e, n), bst_root, n, NULL)
    BY <1>1, <1>2, <2>1, <2>4, TypedIs, LinkSpliced
  <2>9. heap' = Without(e, n)
    BY <2>3, <2>7
  <2>10. bst_root' = Past(n, NULL, bst_root)
    BY <1>6, <2>3 DEF Past
  <2>11. Spliced(heap, heap', bst_root, n, NULL)
    BY <2>8, <2>9
  <2> HIDE DEF e, b
  <2> QED
    BY <1>4, <2>10, <2>11, TargetSpliced DEF n
<1> QED
  BY <1>5, <1>6

LEMMA DeleteOneChildTakes ==
  ASSUME TypeOK, Sound, NEW key \in Stored, LinkedRight(key), DeleteOneChild(key), Typed(heap')
  PROVE  /\ Sound' /\ Stored' = Stored \ {key}
         /\ Cardinality(DOMAIN heap') = Cardinality(DOMAIN heap) - 1
<1> DEFINE n == Target(key)
           p == Parent(key)
           l == LastFrame(Descent(heap, bst_root, key))
           side == IF heap[n].left # NULL THEN "left" ELSE "right"
           c == heap[n][side]
<1>1. Typed(heap) /\ SearchTree(heap, bst_root)
  BY TypedIs, SoundIs
<1>2. n \in Reachable(heap, bst_root) /\ n \in DOMAIN heap /\ n # NULL
  BY <1>1, TargetIs, BinaryTreeAssumption DEF Typed
<1>3. Children(n) # {} /\ \E s \in Sides : heap[n][s] = NULL
  BY DEF DeleteOneChild
<1>4. /\ side \in Sides /\ c # NULL
      /\ \A t \in Sides \ {side} : heap[n][t] = NULL
      /\ Children(n) = {c}
  <2> HIDE DEF n
  <2>1. \/ heap[n].left # NULL /\ heap[n].right = NULL
        \/ heap[n].left = NULL /\ heap[n].right # NULL
    BY <1>3 DEF Children, Sides
  <2>2. side \in Sides /\ c # NULL /\ \A t \in Sides \ {side} : heap[n][t] = NULL
    BY <2>1 DEF Sides
  <2> HIDE DEF c, side
  <2>3. c = heap[n][side]
    BY DEF c
  <2> QED
    BY <2>2, <2>3 DEF Children
<1>5. OnlyChild(heap, n, c)
  BY <1>4 DEF OnlyChild
<1>6. CASE n = bst_root
  <2>1. bst_root' = c /\ heap' = Without(heap, n)
    BY <1>6 DEF DeleteOneChild
  <2> HIDE DEF c
  <2>2. Spliced(heap, heap', bst_root, n, c)
    BY <1>1, <1>2, <1>6, <2>1, RootSpliced
  <2>3. bst_root' = Past(n, c, bst_root)
    BY <1>6, <2>1 DEF Past
  <2> HIDE DEF n
  <2> QED
    BY <1>5, <2>2, <2>3, TargetSpliced DEF n
<1>7. CASE n # bst_root
  <2>1. p = l.node /\ p \in Reachable(heap, bst_root) /\ l.side \in Sides
        /\ heap[p][l.side] = n
    BY <1>7, ParentIs
  <2>2. heap[n][l.side] # NULL
    <3>1. Cardinality(Children(n)) = 1
      BY <1>4, FS_Singleton
    <3>2. n = bst_root \/ heap[n][l.side] # NULL
      BY <1>3, <3>1 DEF LinkedRight, Target
    <3> QED
      BY <1>7, <3>2
  <2>3. l.side = side
    BY <1>4, <2>1, <2>2
  <2>4. bst_root' = bst_root /\ heap' = Without([heap EXCEPT ![p][side] = c], n)
    BY <1>7 DEF DeleteOneChild
  <2> HIDE DEF l, p, n, side, c
  <2>5. Spliced(heap, heap', bst_root, n, c)
    BY <1>1, <1>2, <1>4, <2>1, <2>3, <2>4, TypedIs, LinkSpliced
  <2>6. bst_root' = Past(n, c, bst_root)
    BY <1>7, <2>4 DEF Past
  <2> QED
    BY <1>5, <2>5, <2>6, TargetSpliced DEF n
<1> QED
  BY <1>6, <1>7

(* Where the right child has no left one, it is the inorder successor.     *)
LEMMA SuccessorIs ==
  ASSUME TypeOK, Sound, NEW key \in Stored, LinkedRight(key),
         \A s \in Sides : heap[Target(key)][s] # NULL
  PROVE  LET suc == heap[Target(key)].right
             way == Leftmost(heap, suc)
         IN  /\ suc \in Reachable(heap, bst_root) /\ suc \in DOMAIN heap
             /\ heap[suc].left = NULL
             /\ way.frames = <<>> /\ way.end = suc
<1> DEFINE n == Target(key)
           suc == heap[n].right
           l == heap[n].left
<1>1. Typed(heap) /\ SearchTree(heap, bst_root)
  BY TypedIs, SoundIs
<1>2. n \in Reachable(heap, bst_root)
  BY TargetIs
<1>3. "left" \in Sides /\ "right" \in Sides /\ suc = heap[n]["right"] /\ l = heap[n]["left"]
  BY DEF Sides
<1>4. suc # NULL /\ l # NULL
  BY <1>3
<1>5. suc # l
  <2>1. Treelike(heap, bst_root)
    BY <1>1, TreeLinks DEF SearchTree
  <2>2. heap[n]["right"] = heap[n]["left"] => "left" = "right"
    BY <1>2, <1>3, <1>4, <2>1 DEF Treelike
  <2> QED
    BY <1>3, <2>2
<1>6. suc \in Reachable(heap, bst_root) /\ suc \in DOMAIN heap
  <2>1. suc \in Reachable(heap, bst_root) \cup {NULL}
    BY <1>3, TargetIs
  <2> QED
    BY <1>1, <1>4, <2>1, ReachedInDomain
<1>7. Children(n) = {l, suc}
  BY <1>4 DEF Children, Sides
<1>8. Cardinality(Children(n)) = 2
  <2>1. IsFiniteSet({l}) /\ Cardinality({l}) = 1
    BY FS_Singleton
  <2>2. suc \notin {l} /\ {l, suc} = {l} \cup {suc}
    BY <1>5
  <2> HIDE DEF l, suc
  <2>3. Cardinality({l} \cup {suc}) = Cardinality({l}) + 1
    BY <2>1, <2>2, FS_AddElement
  <2> QED
    BY <1>7, <2>1, <2>2, <2>3
<1>9. heap[suc].left = NULL
  <2>1. Children(n) # {} /\ Cardinality(Children(n)) # 1
    BY <1>7, <1>8
  <2> QED
    BY <2>1 DEF LinkedRight, Target
<1>10. Leftmost(heap, suc).frames = <<>> /\ Leftmost(heap, suc).end = suc
  BY <1>1, <1>6, <1>9, LeftmostHere
<1> QED
  BY <1>6, <1>9, <1>10

(* The successor, the right child, is taken out, and the node gets its     *)
(* data.                                                                   *)
LEMMA DeleteTwoChildrenTakes ==
  ASSUME TypeOK, Sound, NEW key \in Stored, LinkedRight(key), DeleteTwoChildren(key),
         Typed(heap')
  PROVE  /\ Sound' /\ Stored' = Stored \ {key}
         /\ Cardinality(DOMAIN heap') = Cardinality(DOMAIN heap) - 1
<1> DEFINE n == Target(key)
           R == Reachable(heap, bst_root)
           x == heap[n].right
           c == heap[x].right
           d == heap[x].data
<1>1. /\ Typed(heap) /\ SearchTree(heap, bst_root) /\ Stored = {heap[m].data : m \in R}
      /\ IsFiniteSet(DOMAIN heap)
  <2>1. Typed(heap)
    BY TypedIs
  <2> QED
    BY <2>1, SoundIs, Counting
<1>2. /\ n \in R /\ n \in DOMAIN heap /\ heap[n].data = key
      /\ \A y \in R : heap[y].data = key => y = n
      /\ Fits(heap, bst_root, key, n)
  BY TargetIs
<1>3. /\ x \in R /\ x \in DOMAIN heap /\ heap[x].left = NULL
      /\ Leftmost(heap, x).frames = <<>> /\ Leftmost(heap, x).end = x
      /\ \A s \in Sides : heap[n][s] # NULL
  <2>1. \A s \in Sides : heap[n][s] # NULL
    BY DEF DeleteTwoChildren
  <2> QED
    BY <2>1, SuccessorIs
<1>4. /\ heap' = Without([heap EXCEPT ![n].data = d, ![n]["right"] = c], x)
      /\ bst_root' = bst_root
  BY <1>3 DEF DeleteTwoChildren
<1> HIDE DEF n
<1>5. "right" \in Sides /\ "left" \in Sides /\ x = heap[n]["right"] /\ c = heap[x]["right"]
      /\ heap[x]["left"] = NULL /\ c \in Links /\ d \in Keys
      /\ \A t \in Sides : t = "left" \/ t = "right"
  BY <1>1, <1>3, LinksTyped DEF Sides
<1> HIDE DEF x, c, d
<1> DEFINE e == [heap EXCEPT ![n]["right"] = c]
           g == Without(e, x)
           k == heap'
<1>6. Spliced(heap, g, bst_root, x, c) /\ x # bst_root
  BY <1>1, <1>2, <1>3, <1>5, TypedIs, LinkSpliced
<1>7. OnlyChild(heap, x, c)
  <2>1. \A t \in Sides \ {"right"} : t = "left"
    BY <1>5
  <2> QED
    BY <1>5, <2>1 DEF OnlyChild
<1>8. Typed(e) /\ Typed(g)
  BY <1>1, <1>5, TypedIs, RecordsTyped, LinkStored, NodeFreed
<1>9. LinkSet(heap, e, n, "right", c)
  BY <1>1, <1>5, TypedIs, LinkStoredIs
<1>10. DOMAIN g = DOMAIN heap \ {x} /\ \A m \in DOMAIN heap \ {x} : g[m] = e[m]
  BY <1>9, WithoutIs DEF LinkSet
<1>11. Relabelled(g, k, n, d)
  <2> DEFINE b == [heap EXCEPT ![n].data = d, ![n]["right"] = c]
  <2>1. DOMAIN b = DOMAIN heap
    OBVIOUS
  <2>2. ASSUME NEW m \in DOMAIN heap
        PROVE  /\ b[m].data = IF m = n THEN d ELSE e[m].data
               /\ \A t \in Sides : b[m][t] = e[m][t]
    <3>1. heap[m] \in [data : Keys, left : Links, right : Links]
      BY TypedIs DEF Records
    <3>2. b[m] = IF m = n THEN [[heap[m] EXCEPT !.data = d] EXCEPT !["right"] = c] ELSE heap[m]
      OBVIOUS
    <3>3. e[m] = IF m = n THEN [heap[m] EXCEPT !["right"] = c] ELSE heap[m]
      OBVIOUS
    <3>4. /\ [[heap[m] EXCEPT !.data = d] EXCEPT !["right"] = c].data = d
          /\ \A t \in Sides : [[heap[m] EXCEPT !.data = d] EXCEPT !["right"] = c][t]
                                = [heap[m] EXCEPT !["right"] = c][t]
      BY <3>1 DEF Sides
    <3> HIDE DEF b, e
    <3> QED
      BY <3>2, <3>3, <3>4
  <2> HIDE DEF b
  <2>3. DOMAIN Without(b, x) = DOMAIN heap \ {x}
        /\ \A m \in DOMAIN heap \ {x} : Without(b, x)[m] = b[m]
    BY <2>1, WithoutIs
  <2>4. k = Without(b, x)
    BY <1>4 DEF b
  <2> HIDE DEF g, k
  <2> QED
    BY <1>10, <2>2, <2>3, <2>4 DEF Relabelled
<1> HIDE DEF e, g, k
<1>12. SearchTree(g, bst_root) /\ Reachable(g, bst_root) = R \ {x}
  <2>1. Past(x, c, bst_root) = bst_root
    BY <1>6 DEF Past
  <2> QED
    BY <1>1, <1>3, <1>6, <1>7, <1>8, <2>1, SplicedTree
<1>13. /\ n # x
       /\ heap[x].data # heap[n].data /\ SideOf(heap[x].data, heap[n].data) = "right"
  <2>1. x \in Reachable(heap, heap[n]["right"])
    BY <1>1, <1>3, <1>5, ReachedInDomain
  <2> QED
    BY <1>1, <1>2, <1>5, <2>1, SearchOrder DEF SearchTree
<1>14. \A m \in R \ {x}, t \in Sides :
         /\ g[m].data = heap[m].data
         /\ heap[m][t] \in R \cup {NULL}
         /\ Reachable(g, g[m][t]) = Reachable(heap, heap[m][t]) \ {x}
  <2> TAKE m \in R \ {x}, t \in Sides
  <2>1. g[m].data = heap[m].data /\ g[m][t] = Past(x, c, heap[m][t])
    BY <1>6 DEF Spliced
  <2>2. heap[m][t] \in R \cup {NULL}
    BY <1>1, LinkOrNull DEF SearchTree
  <2>3. Reachable(g, Past(x, c, heap[m][t])) = Reachable(heap, heap[m][t]) \ {x}
    BY <1>1, <1>3, <1>6, <1>7, <1>8, <2>2, SplicedReached
  <2> QED
    BY <2>1, <2>2, <2>3
<1>15. Fits(g, bst_root, d, n)
  <2> SUFFICES ASSUME NEW m \in R \ {x}, NEW t \in Sides, n \in Reachable(g, g[m][t])
               PROVE  d # g[m].data /\ SideOf(d, g[m].data) = t
    BY <1>12 DEF Fits
  <2>1. n \in Reachable(heap, heap[m][t])
    BY <1>14
  <2>2. x \in Reachable(heap, heap[m][t])
    BY <1>1, <1>3, <1>5, <2>1, ReachedInDomain
  <2>3. heap[x].data # heap[m].data /\ SideOf(heap[x].data, heap[m].data) = t
    BY <1>1, <2>2, SearchOrder DEF SearchTree
  <2> QED
    BY <1>14, <2>3 DEF d
<1>16. \A t \in Sides : \A y \in Reachable(g, g[n][t]) :
         g[y].data # d /\ SideOf(g[y].data, d) = t
  <2> TAKE t \in Sides
  <2> TAKE y \in Reachable(g, g[n][t])
  <2>1. y \in Reachable(heap, heap[n][t]) /\ y # x
    BY <1>2, <1>13, <1>14
  <2>2. y \in R \ {x} /\ y \in DOMAIN heap
    BY <1>1, <1>2, <2>1, ReachedBelow, ReachedInDomain
  <2>3. g[y].data = heap[y].data
    BY <1>5, <1>14, <2>2
  <2>4. heap[y].data \in Int /\ heap[x].data \in Int /\ heap[n].data \in Int
    BY <1>1, <1>2, <1>3, <2>2, LinksTyped, BinaryTreeAssumption
  <2>5. CASE t = "right"
    <3>1. y \in Reachable(heap, x)
      BY <1>5, <2>1, <2>5
    <3>2. PICK s \in Sides : y \in Reachable(heap, heap[x][s])
      BY <1>1, <2>1, <3>1, ReachedThrough
    <3>3. s = "right"
      <4>1. Reachable(heap, NULL) = {}
        BY <1>1, BinaryTreeAssumption, ReachedInDomain DEF Typed
      <4> QED
        BY <1>5, <3>2, <4>1
    <3>4. heap[y].data # heap[x].data /\ SideOf(heap[y].data, heap[x].data) = "right"
      BY <1>1, <1>3, <3>2, <3>3, SearchOrder DEF SearchTree
    <3> QED
      BY <2>3, <2>5, <3>4 DEF d
  <2>6. CASE t = "left"
    <3>1. SideOf(heap[y].data, heap[n].data) = "left"
      BY <1>1, <1>2, <2>1, <2>6, SearchOrder DEF SearchTree
    <3>2. heap[y].data < heap[n].data /\ heap[n].data < heap[x].data
      BY <1>13, <2>4, <3>1 DEF SideOf
    <3> QED
      BY <2>3, <2>4, <2>6, <3>2 DEF d, SideOf
  <2> QED
    BY <1>5, <2>5, <2>6
<1>17. SearchTree(k, bst_root) /\ Reachable(k, bst_root) = R \ {x}
  <2>1. n \in Reachable(g, bst_root)
    BY <1>2, <1>12, <1>13
  <2>2. Typed(k)
    BY DEF k
  <2> QED
    BY <1>8, <1>11, <1>12, <1>15, <1>16, <2>1, <2>2, RelabelledTree
<1>18. {k[m].data : m \in R \ {x}} = Stored \ {key}
  <2>1. \A m \in R \ {x} : k[m].data = IF m = n THEN d ELSE heap[m].data
    <3> TAKE m \in R \ {x}
    <3>1. m \in DOMAIN g /\ g[m].data = heap[m].data
      BY <1>1, <1>5, <1>10, <1>14, ReachedInDomain
    <3> QED
      BY <1>11, <3>1 DEF Relabelled
  <2>2. d = heap[x].data
    BY DEF d
  <2> QED
    BY <1>1, <1>2, <1>3, <1>13, <2>1, <2>2
<1>19. Cardinality(DOMAIN k) = Cardinality(DOMAIN heap) - 1
  <2>1. DOMAIN k = DOMAIN heap \ {x}
    BY <1>10, <1>11 DEF Relabelled
  <2> QED
    BY <1>1, <1>3, <2>1, FS_RemoveElement
<1>20. {k[m].data : m \in Reachable(k, bst_root)} = Stored \ {key}
  BY <1>17, <1>18
<1>21. k = heap'
  BY DEF k
<1> QED
  BY <1>4, <1>17, <1>19, <1>20, <1>21 DEF Sound, SearchTree, Stored, Contents

LEMMA DeleteTakes ==
  ASSUME TypeOK, Sound, NEW key \in Stored, LinkedRight(key), Delete(key)
  PROVE  /\ Sound' /\ Stored' = Stored \ {key}
         /\ Cardinality(DOMAIN heap') = Cardinality(DOMAIN heap) - 1
<1>1. Typed(heap')
  <2>1. key \in Keys
    BY TargetIs
  <2>2. TypeOK'
    BY <2>1, DeleteTyped
  <2> QED
    BY <2>2, TypedNext
<1>2. ~DeleteEnds(key)
  <2> SUFFICES ASSUME DeleteEnds(key) PROVE FALSE
    OBVIOUS
  <2>1. Target(key) \in DOMAIN heap
    BY TargetIs
  <2>2. /\ \A s \in Sides : heap[Target(key)][s] # NULL
        /\ Leftmost(heap, heap[Target(key)].right).end \notin DOMAIN heap
    BY <2>1 DEF DeleteEnds
  <2> QED
    BY <2>2, SuccessorIs
<1> QED
  BY <1>1, <1>2, DeleteLeafTakes, DeleteOneChildTakes, DeleteTwoChildrenTakes DEF Delete

-----------------------------------------------------------------------------
(* In a search tree, whatever freed addresses its garbage still names:     *)
(* bst_insert of a key that is not there adds that key and nothing else,   *)
(* and bst_delete_node, at the positions it was written for, takes its key *)
(* and one node out and leaves a search tree.                              *)
THEOREM BSTOneKeyAtATime == Spec => OneKeyAtATime
<1>1. TypeOK /\ [Next]_vars =>
        [\A key \in Keys :
           Sound /\ key \notin Stored /\ Insert(key) =>
             Sound' /\ Stored' = Stored \cup {key} /\ status' = "running"]_vars
  BY InsertAdds DEF Next
<1>2. TypeOK /\ [Next]_vars =>
        [\A key \in Stored :
           Sound /\ LinkedRight(key) /\ Delete(key) =>
             /\ Sound'
             /\ Stored' = Stored \ {key}
             /\ Cardinality(DOMAIN heap') = Cardinality(DOMAIN heap) - 1]_vars
  BY DeleteTakes
<1> QED
  BY <1>1, <1>2, BSTTypeCorrect, PTL
     DEF Spec, OneKeyAtATime, InsertAddsOneKey, DeleteTakesOneKey
=============================================================================
