---------------------------- MODULE BPlusProofs ----------------------------
(***************************************************************************)
(* Theorems about insertion into the B+ tree on disk, with crashes: for    *)
(* every set of keys, every number of node files and crashes, and nodes of *)
(* every size.                                                             *)
(*                                                                         *)
(* In the order of the modules: what the routines inside nodes return;     *)
(* that the writes of an operation, in their order, lead from one sound    *)
(* disk to another (Midway); that a search ends in a leaf and has kept the *)
(* nodes above it (PathOK); that what an insertion prepares in memory can  *)
(* be written (Ready), and is the tree with the key (Grown), whatever      *)
(* splits; and what the tree is, as a set of nodes (IsReach).              *)
(***************************************************************************)
EXTENDS BPlusCrash, FiniteSetTheorems, SequenceTheorems, NaturalsInduction,
        WellFoundedInduction, TLAPS

NodeType ==
  [level : Levels, nr_items : Nat, items : Seq(Keys), word : [Words -> Keys \cup NodeIds \cup {0}]]

(* The keys of an internal node are in their part of the block.            *)
KeysOK(node) == \A w \in 0 .. MAX_KEYS - 1 : node.word[w] \in Keys \cup {0}

(* The disk children 0 to last are node files, those behind them are zero. *)
DcsOK(node, last) ==
  /\ \A i \in 0 .. last : Dc(node, i) \in NodeIds
  /\ \A i \in last + 1 .. MAX_DC : Dc(node, i) = 0

NodeOK(node) ==
  /\ node \in NodeType
  /\ node.level <= 3
  /\ node.level = 0 => node.nr_items = 0 /\ Len(node.items) <= MAX_ITEMS
  /\ node.level # 0 =>
       /\ node.items = <<>>
       /\ NrKeys(node) \in 1 .. MAX_KEYS /\ node.nr_items = 2 * NrKeys(node) + 1
       /\ KeysOK(node) /\ DcsOK(node, NrKeys(node))

DcsUpTo(node, last) == {Dc(node, i) : i \in 0 .. last}
LinksOf(node) ==
  IF IsLeaf(node) THEN {} ELSE {Dc(node, i) : i \in 0 .. NrKeys(node)}

-----------------------------------------------------------------------------
(* The least of some natural numbers.                                      *)
LEMMA LeastNatural ==
  ASSUME NEW S \in SUBSET Nat, S # {}
  PROVE  Least(S) \in S /\ \A n \in S : Least(S) <= n
<1> DEFINE R == OpToRel(<, Nat)
<1>1. IsWellFoundedOn(R, Nat)
  BY NatLessThanWellFounded
<1>2. \A n, m \in Nat : n < m => <<n, m>> \in R
  BY DEF OpToRel
<1> HIDE DEF R
<1>3. PICK m \in S : \A n \in S : <<n, m>> \notin R
  BY <1>1, WFMin
<1>4. \A n \in S : m <= n
  <2> TAKE n \in S
  <2>1. n \in Nat /\ m \in Nat
    OBVIOUS
  <2>2. ~(n < m)
    BY <1>2, <1>3, <2>1
  <2> QED
    BY <2>1, <2>2
<1> QED
  BY <1>4, Zenon DEF Least

(* What a search in a node comes to.                                       *)
LEMMA FirstOrIn ==
  ASSUME NEW S \in SUBSET Nat, NEW end
  PROVE  /\ S = {} => FirstOr(S, end) = end
         /\ S # {} => FirstOr(S, end) \in S
BY LeastNatural DEF FirstOr

(* An item comes into a leaf, and no other leaves it.                      *)
LEMMA PunchedIn ==
  ASSUME NEW items \in Seq(Keys), NEW item \in Keys
  PROVE  /\ Punched(items, item) \in Seq(Keys)
         /\ Len(Punched(items, item)) = Len(items) + 1
         /\ {Punched(items, item)[i] : i \in 1 .. Len(items) + 1}
              = {items[i] : i \in 1 .. Len(items)} \cup {item}
<1> DEFINE n == Len(items)
           S == {i \in 1 .. n : item < items[i]}
           place == FirstOr(S, n + 1)
           p == Punched(items, item)
<1>1. n \in Nat /\ \A i \in 1 .. n : items[i] \in Keys
  BY ElementOfSeq
<1>2. place \in 1 .. n + 1
  <2>1. S \in SUBSET Nat /\ S \subseteq 1 .. n
    BY <1>1
  <2>2. (S = {} => place = n + 1) /\ (S # {} => place \in S)
    BY <2>1, FirstOrIn
  <2>3. n \in Nat
    OBVIOUS
  <2> HIDE DEF n
  <2>4. CASE S = {}
    <3>1. place = n + 1
      BY <2>2, <2>4
    <3> QED
      BY <2>3, <3>1
  <2>5. CASE S # {}
    <3>1. place \in 1 .. n
      BY <2>1, <2>2, <2>5
    <3> HIDE DEF place
    <3> QED
      BY <2>3, <3>1
  <2> QED
    BY <2>4, <2>5
<1>3. p = [i \in 1 .. n + 1 |-> IF i < place THEN items[i]
                               ELSE IF i = place THEN item ELSE items[i - 1]]
  BY DEF Punched
<1> HIDE DEF n, place, p
<1>4. ASSUME NEW i \in 1 .. n + 1 PROVE p[i] \in Keys
  BY <1>1, <1>2, <1>3
<1>5. p \in Seq(Keys) /\ Len(p) = n + 1
  <2>1. p = [i \in 1 .. n + 1 |-> p[i]]
    BY <1>3
  <2> QED
    BY <1>1, <1>4, <2>1
<1>6. ASSUME NEW i \in 1 .. n + 1 PROVE p[i] = item \/ \E j \in 1 .. n : p[i] = items[j]
  <2>1. CASE i < place
    BY <1>1, <1>2, <1>3, <2>1
  <2>2. CASE i = place
    BY <1>1, <1>2, <1>3, <2>2
  <2>3. CASE i > place
    <3>1. i - 1 \in 1 .. n /\ p[i] = items[i - 1]
      BY <1>1, <1>2, <1>3, <2>3
    <3> QED
      BY <3>1
  <2> QED
    BY <1>1, <1>2, <2>1, <2>2, <2>3
<1>7. ASSUME NEW j \in 1 .. n PROVE \E i \in 1 .. n + 1 : p[i] = items[j]
  <2>1. CASE j < place
    BY <1>1, <1>2, <1>3, <2>1
  <2>2. CASE j >= place
    <3>1. j + 1 \in 1 .. n + 1 /\ p[j + 1] = items[j]
      BY <1>1, <1>2, <1>3, <2>2
    <3> QED
      BY <3>1
  <2> QED
    BY <1>1, <1>2, <2>1, <2>2
<1>8. p[place] = item
  BY <1>2, <1>3
<1> QED
  BY <1>2, <1>5, <1>6, <1>7, <1>8 DEF n, p

(* A full leaf is split into two that have room, and all its items and the *)
(* new one are in the two.                                                 *)
Halved(items, item, halves) ==
  /\ halves.leaf \in Seq(Keys) /\ Len(halves.leaf) \in 1 .. MAX_ITEMS
  /\ halves.new \in Seq(Keys) /\ Len(halves.new) \in 1 .. MAX_ITEMS
  /\ {halves.leaf[i] : i \in DOMAIN halves.leaf}
       \cup {halves.new[i] : i \in DOMAIN halves.new}
       = {items[i] : i \in DOMAIN items} \cup {item}

(* bplus_tree_adjust_leaf: two halves that are not empty and hold the      *)
(* items and the new one between them.                                     *)
LEMMA AdjustedLeafIn ==
  ASSUME NEW items \in Seq(Keys), Len(items) = MAX_ITEMS, NEW item \in Keys,
         NEW halves, halves = AdjustedLeaf(items, item)
  PROVE  Halved(items, item, halves)
<1> DEFINE h == MAX_ITEMS \div 2
           kept == SubSeq(items, 1, Len(items) - MAX_ITEMS \div 2)
           flown == SubSeq(items, Len(kept) + 1, Len(items))
<1>1. h \in Nat \ {0} /\ MAX_ITEMS = 2 * h
  BY BPlusNodeAssumption
<1>2. \A i \in 1 .. 2 * h : items[i] \in Keys
  BY <1>1, ElementOfSeq
<1>3. kept \in Seq(Keys) /\ Len(kept) = h /\ \A i \in 1 .. h : kept[i] = items[i]
  <2>1. kept = SubSeq(items, 1, h)
    <3>1. Len(items) - MAX_ITEMS \div 2 = h
      BY <1>1
    <3> QED
      BY <3>1
  <2>2. \A i \in 1 .. h : items[i] \in Keys
    BY <1>1, <1>2
  <2> HIDE DEF h
  <2>3. /\ SubSeq(items, 1, h) \in Seq(Keys)
        /\ Len(SubSeq(items, 1, h)) = IF 1 <= h THEN h - 1 + 1 ELSE 0
        /\ \A i \in 1 .. h - 1 + 1 : SubSeq(items, 1, h)[i] = items[1 + i - 1]
    BY <1>1, <2>2, SubSeqProperties
  <2> HIDE DEF kept
  <2> QED
    BY <1>1, <2>1, <2>3
<1>4. flown \in Seq(Keys) /\ Len(flown) = h /\ \A i \in 1 .. h : flown[i] = items[h + i]
  <2>1. flown = SubSeq(items, h + 1, 2 * h)
    BY <1>1, <1>3
  <2>2. \A i \in h + 1 .. 2 * h : items[i] \in Keys
    BY <1>1, <1>2
  <2> HIDE DEF h
  <2> DEFINE b == 2 * h
             a == h + 1
  <2>3. a \in Nat /\ b \in Nat /\ \A i \in a .. b : items[i] \in Keys
    BY <1>1, <2>2
  <2> HIDE DEF a, b
  <2>4. /\ SubSeq(items, a, b) \in Seq(Keys)
        /\ Len(SubSeq(items, a, b)) = IF a <= b THEN b - a + 1 ELSE 0
        /\ \A i \in 1 .. b - a + 1 : SubSeq(items, a, b)[i] = items[a + i - 1]
    BY <2>3, SubSeqProperties
  <2> HIDE DEF flown
  <2>5. a = h + 1 /\ b = 2 * h
    BY DEF a, b
  <2> QED
    BY <1>1, <2>1, <2>4, <2>5
<1>5. halves = [leaf |-> Punched(kept, item), new |-> flown]
        \/ halves = [leaf |-> kept, new |-> Punched(flown, item)]
  BY DEF AdjustedLeaf
<1> HIDE DEF h, kept, flown
<1>6. /\ Punched(kept, item) \in Seq(Keys) /\ Len(Punched(kept, item)) = h + 1
      /\ {Punched(kept, item)[i] : i \in 1 .. h + 1} = {kept[i] : i \in 1 .. h} \cup {item}
  BY <1>1, <1>3, PunchedIn
<1>7. /\ Punched(flown, item) \in Seq(Keys) /\ Len(Punched(flown, item)) = h + 1
      /\ {Punched(flown, item)[i] : i \in 1 .. h + 1} = {flown[i] : i \in 1 .. h} \cup {item}
  BY <1>1, <1>4, PunchedIn
<1>8. {items[i] : i \in DOMAIN items} = {kept[i] : i \in 1 .. h} \cup {flown[i] : i \in 1 .. h}
  <2>1. DOMAIN items = 1 .. 2 * h
    BY <1>1
  <2>2. \A i \in 1 .. 2 * h : i \in 1 .. h \/ (i - h \in 1 .. h /\ items[i] = flown[i - h])
    BY <1>1, <1>4
  <2>3. \A i \in 1 .. h : i \in 1 .. 2 * h /\ h + i \in 1 .. 2 * h
    BY <1>1
  <2>4. \A i \in 1 .. h : kept[i] = items[i] /\ flown[i] = items[h + i]
    BY <1>3, <1>4
  <2>5. {items[i] : i \in 1 .. 2 * h} \subseteq {kept[i] : i \in 1 .. h} \cup {flown[i] : i \in 1 .. h}
    BY <2>2, <2>4
  <2>6. {kept[i] : i \in 1 .. h} \subseteq {items[i] : i \in 1 .. 2 * h}
    BY <2>3, <2>4
  <2>7. {flown[i] : i \in 1 .. h} \subseteq {items[i] : i \in 1 .. 2 * h}
    BY <2>3, <2>4
  <2> QED
    BY <2>1, <2>5, <2>6, <2>7
<1>9. h + 1 \in 1 .. MAX_ITEMS /\ h \in 1 .. MAX_ITEMS
  BY <1>1
<1>10. CASE halves = [leaf |-> Punched(kept, item), new |-> flown]
  <2>1. halves.leaf = Punched(kept, item) /\ halves.new = flown
    BY <1>10
  <2>2. DOMAIN halves.leaf = 1 .. h + 1 /\ DOMAIN halves.new = 1 .. h
    BY <1>1, <1>4, <1>6, <2>1
  <2>3. {halves.leaf[i] : i \in DOMAIN halves.leaf} = {kept[i] : i \in 1 .. h} \cup {item}
    BY <1>6, <2>1, <2>2
  <2>4. {halves.new[i] : i \in DOMAIN halves.new} = {flown[i] : i \in 1 .. h}
    BY <2>1, <2>2
  <2>5. /\ halves.leaf \in Seq(Keys) /\ Len(halves.leaf) \in 1 .. MAX_ITEMS
        /\ halves.new \in Seq(Keys) /\ Len(halves.new) \in 1 .. MAX_ITEMS
    BY <1>4, <1>6, <1>9, <2>1
  <2> QED
    BY <1>8, <2>3, <2>4, <2>5 DEF Halved
<1>11. CASE halves = [leaf |-> kept, new |-> Punched(flown, item)]
  <2>1. halves.leaf = kept /\ halves.new = Punched(flown, item)
    BY <1>11
  <2>2. DOMAIN halves.leaf = 1 .. h /\ DOMAIN halves.new = 1 .. h + 1
    BY <1>1, <1>3, <1>7, <2>1
  <2>3. {halves.leaf[i] : i \in DOMAIN halves.leaf} = {kept[i] : i \in 1 .. h}
    BY <2>1, <2>2
  <2>4. {halves.new[i] : i \in DOMAIN halves.new} = {flown[i] : i \in 1 .. h} \cup {item}
    BY <1>7, <2>1, <2>2
  <2>5. /\ halves.leaf \in Seq(Keys) /\ Len(halves.leaf) \in 1 .. MAX_ITEMS
        /\ halves.new \in Seq(Keys) /\ Len(halves.new) \in 1 .. MAX_ITEMS
    BY <1>3, <1>7, <1>9, <2>1
  <2> QED
    BY <1>8, <2>3, <2>4, <2>5 DEF Halved
<1> QED
  BY <1>5, <1>10, <1>11

-----------------------------------------------------------------------------
(* Recursive functions over the first natural numbers.                     *)
LEMMA Steps ==
  ASSUME NEW n \in Nat, NEW P \in SUBSET Nat, 0 \in P,
         \A i \in 1 .. n : i - 1 \in P => i \in P
  PROVE  0 .. n \subseteq P
<1> DEFINE S == 0 .. n \ P
<1> SUFFICES ASSUME S # {} PROVE FALSE
  OBVIOUS
<1>1. S \in SUBSET Nat
  OBVIOUS
<1>2. PICK m \in S : \A i \in S : m <= i
  BY <1>1, LeastNatural
<1>3. m \in 1 .. n /\ m - 1 \notin S
  BY <1>2
<1> QED
  BY <1>2, <1>3

HasRun(S, n, a, F) ==
  \E f \in [0 .. n -> S] : f[0] = a /\ \A i \in 1 .. n : f[i] = F[<<i, f[i - 1]>>]

(* A recursive function over 1 .. n exists, by the least n for which it    *)
(* would not.                                                              *)
LEMMA RecursionExists ==
  ASSUME NEW S, NEW n \in Nat, NEW a \in S, NEW F \in [(1 .. n) \X S -> S]
  PROVE  HasRun(S, n, a, F)
<1> DEFINE Rec(k, f) == f[0] = a /\ \A i \in 1 .. k : f[i] = F[<<i, f[i - 1]>>]
           P == {k \in Nat : k <= n => \E f \in [0 .. k -> S] : Rec(k, f)}
<1>1. 0 \in P
  <2> DEFINE f == [k \in 0 .. 0 |-> a]
  <2>1. f \in [0 .. 0 -> S] /\ Rec(0, f)
    OBVIOUS
  <2> HIDE DEF Rec
  <2> QED
    BY <2>1
<1>2. ASSUME NEW k \in 1 .. n, k - 1 \in P
      PROVE  k \in P
  <2>1. PICK f \in [0 .. k - 1 -> S] : Rec(k - 1, f)
    BY <1>2
  <2> DEFINE g == [i \in 0 .. k |-> IF i = k THEN F[<<k, f[k - 1]>>] ELSE f[i]]
  <2>2. f[k - 1] \in S /\ F[<<k, f[k - 1]>>] \in S
    OBVIOUS
  <2>3. g \in [0 .. k -> S]
    BY <2>2
  <2>4. (\A i \in 0 .. k - 1 : g[i] = f[i]) /\ g[k] = F[<<k, f[k - 1]>>]
    OBVIOUS
  <2> HIDE DEF g
  <2>5. g[0] = a
    BY <2>1, <2>4
  <2>6. ASSUME NEW i \in 1 .. k PROVE g[i] = F[<<i, g[i - 1]>>]
    <3>1. g[i - 1] = f[i - 1]
      BY <2>4
    <3>2. CASE i = k
      BY <2>4, <3>1, <3>2
    <3>3. CASE i # k
      <4>1. i \in 1 .. k - 1
        BY <3>3
      <4>2. g[i] = f[i]
        BY <2>4, <4>1
      <4> QED
        BY <2>1, <3>1, <4>1, <4>2
    <3> QED
      BY <3>2, <3>3
  <2>7. Rec(k, g)
    BY <2>5, <2>6
  <2> HIDE DEF Rec
  <2> QED
    BY <2>3, <2>7
<1> HIDE DEF P
<1>3. 0 .. n \subseteq P
  <2>1. P \in SUBSET Nat
    BY DEF P
  <2> QED
    BY <1>1, <1>2, <2>1, Steps
<1> QED
  BY <1>3 DEF P, HasRun

-----------------------------------------------------------------------------
(* Internal nodes.                                                         *)
Values == Keys \cup NodeIds \cup {0}

(* The place for a new key is among the keys or behind them.               *)
LEMMA KeyPlaceIn ==
  ASSUME NEW node, NEW key, NEW nr \in Nat
  PROVE  KeyPlace(node, key, nr) \in 0 .. nr
<1> DEFINE S == {i \in 0 .. nr - 1 : key < Key(node, i)}
<1>1. S \in SUBSET Nat /\ S \subseteq 0 .. nr - 1
  OBVIOUS
<1>2. KeyPlace(node, key, nr) = FirstOr(S, nr)
  BY DEF KeyPlace
<1>3. (S = {} => FirstOr(S, nr) = nr) /\ (S # {} => FirstOr(S, nr) \in S)
  BY <1>1, FirstOrIn
<1> HIDE DEF S
<1>4. CASE S = {}
  BY <1>2, <1>3, <1>4
<1>5. CASE S # {}
  <2>1. FirstOr(S, nr) \in 0 .. nr - 1
    BY <1>1, <1>3, <1>5
  <2> QED
    BY <1>2, <2>1
<1> QED
  BY <1>4, <1>5

(* A key comes in between keys.                                            *)
LEMMA KeyInserted ==
  ASSUME NEW word \in [Words -> Values], NEW first \in Nat, NEW last \in Nat,
         first <= last, last < MAX_KEYS, NEW key \in Keys \cup {0},
         \A w \in 0 .. MAX_KEYS - 1 : word[w] \in Keys \cup {0}
  PROVE  /\ Inserted(word, first, last, key) \in [Words -> Values]
         /\ \A w \in 0 .. MAX_KEYS - 1 : Inserted(word, first, last, key)[w] \in Keys \cup {0}
         /\ \A w \in Words : w >= MAX_KEYS => Inserted(word, first, last, key)[w] = word[w]
<1> DEFINE ins == Inserted(word, first, last, key)
<1> USE BPlusNodeAssumption DEF MAX_DC
<1>1. 0 .. MAX_KEYS - 1 \subseteq Words
  BY DEF Words
<1>2. ins = [w \in Words |-> IF w = first THEN key
                   ELSE IF w \in first + 1 .. last THEN word[w - 1] ELSE word[w]]
  BY DEF Inserted
<1>3. \A w \in first + 1 .. last : w - 1 \in 0 .. MAX_KEYS - 1
  OBVIOUS
<1>4. ASSUME NEW w \in 0 .. MAX_KEYS - 1 PROVE ins[w] \in Keys \cup {0}
  BY <1>1, <1>2, <1>3
<1>5. ASSUME NEW w \in Words, w >= MAX_KEYS PROVE ins[w] = word[w]
  BY <1>2, <1>5 DEF Words
<1>6. ASSUME NEW w \in Words PROVE ins[w] \in Values
  <2>1. CASE w >= MAX_KEYS
    BY <1>5, <2>1
  <2>2. CASE w < MAX_KEYS
    <3>1. w \in 0 .. MAX_KEYS - 1
      BY <2>2 DEF Words
    <3> QED
      BY <1>4, <3>1 DEF Values
  <2> QED
    BY <2>1, <2>2 DEF Words
<1>7. ins \in [Words -> Values]
  BY <1>2, <1>6
<1> QED
  BY <1>4, <1>5, <1>7

(* A disk child comes in between disk children.                            *)
LEMMA DcInserted ==
  ASSUME NEW word \in [Words -> Values], NEW j \in Nat, NEW nr_dc \in Nat,
         1 <= j, j <= nr_dc, nr_dc <= MAX_KEYS, NEW dc \in NodeIds
  PROVE  LET new == Inserted(word, MAX_KEYS + j, MAX_KEYS + nr_dc, dc)
         IN  /\ new \in [Words -> Values]
             /\ \A w \in 0 .. MAX_KEYS - 1 : new[w] = word[w]
             /\ \A p \in 0 .. MAX_DC : new[MAX_KEYS + p] =
                  IF p = j THEN dc
                  ELSE IF p \in j + 1 .. nr_dc THEN word[MAX_KEYS + (p - 1)]
                  ELSE word[MAX_KEYS + p]
<1> DEFINE ins == Inserted(word, MAX_KEYS + j, MAX_KEYS + nr_dc, dc)
<1> USE BPlusNodeAssumption DEF MAX_DC
<1>1. ins = [w \in Words |-> IF w = MAX_KEYS + j THEN dc
                   ELSE IF w \in MAX_KEYS + j + 1 .. MAX_KEYS + nr_dc THEN word[w - 1]
                   ELSE word[w]]
  BY DEF Inserted
<1>2. \A w \in MAX_KEYS + j + 1 .. MAX_KEYS + nr_dc : w - 1 \in Words
  BY DEF Words
<1>3. ins \in [Words -> Values]
  BY <1>1, <1>2 DEF Values
<1>4. ASSUME NEW w \in 0 .. MAX_KEYS - 1 PROVE ins[w] = word[w]
  BY <1>1 DEF Words
<1>5. ASSUME NEW p \in 0 .. MAX_DC
      PROVE  ins[MAX_KEYS + p] = IF p = j THEN dc
                  ELSE IF p \in j + 1 .. nr_dc THEN word[MAX_KEYS + (p - 1)]
                  ELSE word[MAX_KEYS + p]
  <2>1. MAX_KEYS + p \in Words /\ (MAX_KEYS + p) - 1 = MAX_KEYS + (p - 1)
    BY DEF Words
  <2>2. MAX_KEYS + p = MAX_KEYS + j <=> p = j
    OBVIOUS
  <2>3. MAX_KEYS + p \in MAX_KEYS + j + 1 .. MAX_KEYS + nr_dc <=> p \in j + 1 .. nr_dc
    OBVIOUS
  <2> QED
    BY <1>1, <2>1, <2>2, <2>3
<1> QED
  BY <1>3, <1>4, <1>5

(* A disk child and its key come into an internal node with room for them: *)
(* it has nr_keys keys and disk children up to last.                       *)
HasRoom(node, nr_keys, nr_dc, last) ==
  /\ node \in NodeType /\ KeysOK(node) /\ DcsOK(node, last)
  /\ nr_keys \in 0 .. MAX_KEYS - 1 /\ nr_dc \in 1 .. nr_keys + 1
  /\ nr_dc = nr_keys \/ nr_dc = nr_keys + 1
  /\ last = nr_dc - 1

TookIn(new, node, nr_dc, last, dc) ==
  /\ new \in NodeType /\ new.level = node.level /\ new.items = node.items
  /\ new.nr_items = node.nr_items + 2
  /\ KeysOK(new) /\ DcsOK(new, nr_dc)
  /\ DcsUpTo(new, nr_dc) = DcsUpTo(node, last) \cup {dc}

(* bplus_tree_adjust_internal: with room for it, the node has the new disk *)
(* child beside those it had.                                              *)
LEMMA AdjustedInternalIn ==
  ASSUME NEW node, NEW nr_keys, NEW nr_dc, NEW last, HasRoom(node, nr_keys, nr_dc, last),
         NEW key \in Keys, NEW dc \in NodeIds,
         NEW new, new = AdjustedInternal(node, nr_keys, nr_dc, key, dc)
  PROVE  TookIn(new, node, nr_dc, last, dc)
<1> USE BPlusNodeAssumption DEF MAX_DC
<1>14. /\ node \in NodeType /\ KeysOK(node) /\ nr_keys \in 0 .. MAX_KEYS - 1
       /\ nr_dc \in 1 .. nr_keys + 1 /\ (nr_dc = nr_keys \/ nr_dc = nr_keys + 1)
       /\ DcsOK(node, nr_dc - 1)
  BY DEF HasRoom
<1> USE <1>14
<1> DEFINE i == KeyPlace(node, key, nr_keys)
           j == IF i < nr_dc THEN i + 1 ELSE nr_dc
           keys == Inserted(node.word, i, nr_keys, key)
           word == Inserted(keys, MAX_KEYS + j, MAX_KEYS + nr_dc, dc)
<1>0. node.word \in [Words -> Values] /\ node.nr_items \in Nat
  BY DEF NodeType, Values
<1>1. i \in 0 .. nr_keys
  BY KeyPlaceIn
<1>2. j \in 1 .. nr_dc
  BY <1>1
<1>3. new = [node EXCEPT !.word = word, !.nr_items = @ + 2]
  BY DEF AdjustedInternal
<1> HIDE DEF i, j
<1>4. /\ keys \in [Words -> Values]
      /\ \A w \in 0 .. MAX_KEYS - 1 : keys[w] \in Keys \cup {0}
      /\ \A w \in Words : w >= MAX_KEYS => keys[w] = node.word[w]
  BY <1>0, <1>1, KeyInserted DEF KeysOK
<1> HIDE DEF keys
<1>5. /\ word \in [Words -> Values]
      /\ \A w \in 0 .. MAX_KEYS - 1 : word[w] = keys[w]
      /\ \A p \in 0 .. MAX_DC : word[MAX_KEYS + p] =
           IF p = j THEN dc
           ELSE IF p \in j + 1 .. nr_dc THEN keys[MAX_KEYS + (p - 1)]
           ELSE keys[MAX_KEYS + p]
  <2>1. j \in Nat /\ nr_dc \in Nat /\ 1 <= j /\ j <= nr_dc /\ nr_dc <= MAX_KEYS
    BY <1>2
  <2>2. keys \in [Words -> Values]
    BY <1>4
  <2> HIDE <1>14, BPlusNodeAssumption DEF MAX_DC
  <2> QED
    BY <2>1, <2>2, DcInserted
<1> HIDE DEF word
<1>6. \A p \in 0 .. MAX_DC : MAX_KEYS + p \in Words /\ keys[MAX_KEYS + p] = Dc(node, p)
  BY <1>4 DEF Words, Dc
<1>7. /\ new.word = word /\ new.level = node.level /\ new.items = node.items
      /\ new.nr_items = node.nr_items + 2 /\ new \in NodeType
  <2>1. word \in [Words -> Keys \cup NodeIds \cup {0}]
    BY <1>5 DEF Values
  <2>2. node.nr_items + 2 \in Nat
    BY <1>0
  <2> QED
    BY <1>3, <2>1, <2>2 DEF NodeType
<1>8. \A p \in 0 .. MAX_DC : Dc(new, p) = IF p = j THEN dc
                             ELSE IF p \in j + 1 .. nr_dc THEN Dc(node, p - 1)
                             ELSE Dc(node, p)
  <2> TAKE p \in 0 .. MAX_DC
  <2>1. Dc(new, p) = word[MAX_KEYS + p]
    BY <1>7 DEF Dc
  <2>2. p \in j + 1 .. nr_dc => p - 1 \in 0 .. MAX_DC
    BY <1>2
  <2>3. p \in j + 1 .. nr_dc => keys[MAX_KEYS + (p - 1)] = Dc(node, p - 1)
    BY <1>6, <2>2
  <2> QED
    BY <1>5, <1>6, <2>1, <2>3
<1>9. KeysOK(new)
  BY <1>4, <1>5, <1>7 DEF KeysOK
<1>10. DcsOK(new, nr_dc)
  <2>1. ASSUME NEW p \in 0 .. nr_dc PROVE Dc(new, p) \in NodeIds
    <3>1. p \in 0 .. MAX_DC
      OBVIOUS
    <3>2. \A q \in 0 .. nr_dc - 1 : Dc(node, q) \in NodeIds
      BY DEF DcsOK
    <3>3. CASE p = j
      BY <1>8, <3>1, <3>3
    <3>4. CASE p \in j + 1 .. nr_dc
      <4>1. p - 1 \in 0 .. nr_dc - 1
        BY <1>2, <3>4
      <4>2. Dc(new, p) = Dc(node, p - 1)
        BY <1>2, <1>8, <3>1, <3>4
      <4> QED
        BY <3>2, <4>1, <4>2
    <3>5. CASE p < j
      <4>1. p \in 0 .. nr_dc - 1
        BY <1>2, <3>5
      <4>2. Dc(new, p) = Dc(node, p)
        BY <1>2, <1>8, <3>1, <3>5
      <4> QED
        BY <3>2, <4>1, <4>2
    <3> QED
      BY <1>2, <3>3, <3>4, <3>5
  <2>2. ASSUME NEW p \in nr_dc + 1 .. MAX_DC PROVE Dc(new, p) = 0
    <3>1. p \in 0 .. MAX_DC /\ p # j /\ p \notin j + 1 .. nr_dc /\ p \in nr_dc - 1 + 1 .. MAX_DC
      BY <1>2
    <3> QED
      BY <1>8, <3>1 DEF DcsOK
  <2> QED
    BY <2>1, <2>2 DEF DcsOK
<1>11. ASSUME NEW p \in 0 .. nr_dc
       PROVE  Dc(new, p) = dc \/ \E q \in 0 .. nr_dc - 1 : Dc(new, p) = Dc(node, q)
  <2>1. p \in 0 .. MAX_DC
    OBVIOUS
  <2>2. CASE p = j
    BY <1>8, <2>1, <2>2
  <2>3. CASE p \in j + 1 .. nr_dc
    <3>1. p - 1 \in 0 .. nr_dc - 1 /\ Dc(new, p) = Dc(node, p - 1)
      BY <1>2, <1>8, <2>1, <2>3
    <3> QED
      BY <3>1
  <2>4. CASE p < j
    <3>1. p \in 0 .. nr_dc - 1 /\ Dc(new, p) = Dc(node, p)
      BY <1>2, <1>8, <2>1, <2>4
    <3> QED
      BY <3>1
  <2> QED
    BY <1>2, <2>2, <2>3, <2>4
<1>12. ASSUME NEW q \in 0 .. nr_dc - 1
       PROVE  \E p \in 0 .. nr_dc : Dc(new, p) = Dc(node, q)
  <2>1. CASE q < j
    <3>1. q \in 0 .. nr_dc /\ q \in 0 .. MAX_DC /\ Dc(new, q) = Dc(node, q)
      BY <1>2, <1>8, <2>1
    <3> QED
      BY <3>1
  <2>2. CASE q >= j
    <3>1. q + 1 \in 0 .. nr_dc /\ q + 1 \in 0 .. MAX_DC /\ (q + 1) - 1 = q
      BY <1>2
    <3>2. q + 1 \in j + 1 .. nr_dc /\ q + 1 # j
      BY <1>2, <2>2
    <3>3. Dc(new, q + 1) = Dc(node, q)
      BY <1>8, <3>1, <3>2
    <3> QED
      BY <3>1, <3>3
  <2> QED
    BY <1>2, <2>1, <2>2
<1>13. j \in 0 .. nr_dc /\ j \in 0 .. MAX_DC /\ Dc(new, j) = dc
  BY <1>2, <1>8
<1>15. DcsUpTo(new, nr_dc) = DcsUpTo(node, nr_dc - 1) \cup {dc}
  BY <1>11, <1>12, <1>13 DEF DcsUpTo
<1> QED
  BY <1>7, <1>9, <1>10, <1>15 DEF TookIn, HasRoom

(* Splitting a full internal node: first its upper keys flow to the new    *)
(* node, then its upper disk children.                                     *)
HalfType == [level : Levels, nr_items : Int, items : Seq(Keys), word : [Words -> Values]]
Halves == [src : HalfType, dest : HalfType, ok : BOOLEAN]

Rewrite(node, word, n) == [node EXCEPT !.word = word, !.nr_items = n]

LEMMA Rewritten ==
  ASSUME NEW node \in HalfType, NEW word \in [Words -> Values], NEW n \in Int
  PROVE  LET new == Rewrite(node, word, n)
         IN  /\ new \in HalfType /\ new.word = word /\ new.nr_items = n
             /\ new.level = node.level /\ new.items = node.items
BY DEF HalfType, Rewrite

KeysFlow(node, nr_keys, nr_flow, f) ==
  f = [i \in 0 .. nr_flow |->
         IF i = 0 THEN [src |-> node, dest |-> [FormattedNode EXCEPT !.level = node.level],
                        ok |-> TRUE]
                  ELSE FlowKey(f[i - 1], nr_keys - i, i - 1)]

DcsFlow(pair, nr_keys, nr_flow, f) ==
  f = [i \in 0 .. nr_flow + 1 |->
         IF i = 0 THEN pair ELSE FlowDc(f[i - 1], nr_keys + 1 - i, nr_flow + 1 - i)]

LEMMA SplitIsFlow ==
  ASSUME NEW node
  PROVE  LET nr_keys == NrKeys(node)
             nr_flow == nr_keys \div 2
             keyed == CHOOSE f : KeysFlow(node, nr_keys, nr_flow, f)
         IN  SplitInternal(node)
               = (CHOOSE f : DcsFlow(keyed[nr_flow], nr_keys, nr_flow, f))[nr_flow + 1]
BY DEF SplitInternal, KeysFlow, DcsFlow

(* Moving one key or one disk child to the new half keeps keys and disk    *)
(* children apart.                                                         *)
LEMMA FlowKeyIn ==
  ASSUME NEW pair \in Halves, NEW p \in 0 .. MAX_KEYS - 1, NEW nr \in 0 .. MAX_KEYS - 1,
         KeysOK(pair.src), KeysOK(pair.dest), NEW new, new = FlowKey(pair, p, nr)
  PROVE  /\ new \in Halves /\ KeysOK(new.src) /\ KeysOK(new.dest)
         /\ new.src.level = pair.src.level /\ new.dest.level = pair.dest.level
         /\ new.src.items = pair.src.items /\ new.dest.items = pair.dest.items
         /\ new.src.nr_items = pair.src.nr_items - 1
         /\ new.dest.nr_items = pair.dest.nr_items + 1
         /\ \A i \in 0 .. MAX_DC : /\ Dc(new.src, i) = Dc(pair.src, i)
                                   /\ Dc(new.dest, i) = Dc(pair.dest, i)
<1> DEFINE key == Key(pair.src, p)
           i == KeyPlace(pair.dest, key, nr)
           swd == [pair.src.word EXCEPT ![p] = 0]
           dwd == Inserted(pair.dest.word, i, nr, key)
           src == [pair.src EXCEPT !.word = swd, !.nr_items = @ - 1]
           dest == [pair.dest EXCEPT !.word = dwd, !.nr_items = @ + 1]
<1> USE BPlusNodeAssumption DEF MAX_DC
<1>1. /\ pair.src.word \in [Words -> Values] /\ pair.dest.word \in [Words -> Values]
      /\ pair.src.nr_items \in Int /\ pair.dest.nr_items \in Int /\ pair.ok \in BOOLEAN
  BY DEF Halves, HalfType
<1>2. key \in Keys \cup {0} /\ i \in 0 .. nr
  BY KeyPlaceIn DEF Key, KeysOK
<1>3. new.src = src /\ new.dest = dest /\ new.ok \in BOOLEAN
      /\ new = [src |-> new.src, dest |-> new.dest, ok |-> new.ok]
  <2>1. new = [src |-> [pair.src EXCEPT !.word[p] = 0, !.nr_items = @ - 1],
               dest |-> dest,
               ok |-> pair.ok /\ (i < nr \/ Key(pair.dest, i) = 0)]
    BY DEF FlowKey
  <2>2. [pair.src EXCEPT !.word[p] = 0, !.nr_items = @ - 1] = src
    BY <1>1 DEF Halves, HalfType
  <2> HIDE DEF src, dest, i
  <2>3. (pair.ok /\ (i < nr \/ Key(pair.dest, i) = 0)) \in BOOLEAN
    OBVIOUS
  <2> QED
    BY <2>1, <2>2, <2>3
<1>4. /\ swd \in [Words -> Values]
      /\ \A w \in 0 .. MAX_KEYS - 1 : swd[w] \in Keys \cup {0}
      /\ \A w \in Words : w >= MAX_KEYS => swd[w] = pair.src.word[w]
  BY <1>1 DEF Words, KeysOK, Values
<1> HIDE DEF i, key
<1>5. /\ dwd \in [Words -> Values]
      /\ \A w \in 0 .. MAX_KEYS - 1 : dwd[w] \in Keys \cup {0}
      /\ \A w \in Words : w >= MAX_KEYS => dwd[w] = pair.dest.word[w]
  <2>1. i \in Nat /\ nr \in Nat /\ i <= nr /\ nr < MAX_KEYS
    BY <1>2
  <2>2. \A w \in 0 .. MAX_KEYS - 1 : pair.dest.word[w] \in Keys \cup {0}
    BY DEF KeysOK
  <2> QED
    BY <1>1, <1>2, <2>1, <2>2, KeyInserted
<1> HIDE DEF swd, dwd
<1>6. /\ src \in HalfType
      /\ src.word = swd /\ src.level = pair.src.level /\ src.items = pair.src.items
      /\ src.nr_items = pair.src.nr_items - 1
  <2>1. pair.src \in HalfType /\ pair.src.nr_items - 1 \in Int
    BY <1>1 DEF Halves
  <2>2. src = Rewrite(pair.src, swd, pair.src.nr_items - 1)
    BY DEF Rewrite
  <2> HIDE DEF src
  <2> HIDE BPlusNodeAssumption DEF MAX_DC
  <2> QED
    BY <1>4, <2>1, <2>2, Rewritten, SMTT(20)
<1>7. /\ dest \in HalfType
      /\ dest.word = dwd /\ dest.level = pair.dest.level /\ dest.items = pair.dest.items
      /\ dest.nr_items = pair.dest.nr_items + 1
  <2>1. pair.dest \in HalfType /\ pair.dest.nr_items + 1 \in Int
    BY <1>1 DEF Halves
  <2>2. dest = Rewrite(pair.dest, dwd, pair.dest.nr_items + 1)
    BY DEF Rewrite
  <2> HIDE DEF dest
  <2> HIDE BPlusNodeAssumption DEF MAX_DC
  <2> QED
    BY <1>5, <2>1, <2>2, Rewritten, SMTT(20)
<1> HIDE DEF src, dest
<1>8. \A k \in 0 .. MAX_DC : MAX_KEYS + k \in Words /\ MAX_KEYS + k >= MAX_KEYS
  BY DEF Words
<1>9. \A k \in 0 .. MAX_DC : Dc(src, k) = Dc(pair.src, k) /\ Dc(dest, k) = Dc(pair.dest, k)
  BY <1>4, <1>5, <1>6, <1>7, <1>8 DEF Dc
<1>10. new \in Halves
  BY <1>3, <1>6, <1>7 DEF Halves
<1>11. KeysOK(src) /\ KeysOK(dest)
  BY <1>4, <1>5, <1>6, <1>7 DEF KeysOK
<1> QED
  BY <1>3, <1>6, <1>7, <1>9, <1>10, <1>11

DcMoved(pair, p, q, new) ==
  /\ new \in Halves /\ KeysOK(new.src) /\ KeysOK(new.dest)
  /\ new.src.level = pair.src.level /\ new.dest.level = pair.dest.level
  /\ new.src.items = pair.src.items /\ new.dest.items = pair.dest.items
  /\ new.src.nr_items = pair.src.nr_items - 1
  /\ new.dest.nr_items = pair.dest.nr_items + 1
  /\ \A i \in 0 .. MAX_DC :
       /\ Dc(new.src, i) = IF i = p THEN 0 ELSE Dc(pair.src, i)
       /\ Dc(new.dest, i) = IF i = q THEN Dc(pair.src, p) ELSE Dc(pair.dest, i)

LEMMA FlowDcIn ==
  ASSUME NEW pair \in Halves, NEW p \in 0 .. MAX_DC, NEW q \in 0 .. MAX_DC,
         KeysOK(pair.src), KeysOK(pair.dest), NEW new, new = FlowDc(pair, p, q)
  PROVE  DcMoved(pair, p, q, new)
<1> DEFINE swd == [pair.src.word EXCEPT ![MAX_KEYS + p] = 0]
           dwd == [pair.dest.word EXCEPT ![MAX_KEYS + q] = Dc(pair.src, p)]
           src == [pair.src EXCEPT !.word = swd, !.nr_items = @ - 1]
           dest == [pair.dest EXCEPT !.word = dwd, !.nr_items = @ + 1]
<1> USE BPlusNodeAssumption DEF MAX_DC
<1>0. \A k \in 0 .. MAX_DC : MAX_KEYS + k \in Words
  BY DEF Words
<1>1. /\ pair.src.word \in [Words -> Values] /\ pair.dest.word \in [Words -> Values]
      /\ pair.src.nr_items \in Int /\ pair.dest.nr_items \in Int /\ pair.ok \in BOOLEAN
  BY DEF Halves, HalfType
<1>2. Dc(pair.src, p) \in Values
  BY <1>0, <1>1 DEF Dc
<1>3. new.src = src /\ new.dest = dest /\ new.ok \in BOOLEAN
      /\ new = [src |-> new.src, dest |-> new.dest, ok |-> new.ok]
  <2>1. new = [src |-> [pair.src EXCEPT !.word[MAX_KEYS + p] = 0, !.nr_items = @ - 1],
               dest |-> [pair.dest EXCEPT !.word[MAX_KEYS + q] = Dc(pair.src, p),
                                          !.nr_items = @ + 1],
               ok |-> pair.ok /\ Dc(pair.dest, q) = 0]
    BY DEF FlowDc
  <2>2. [pair.src EXCEPT !.word[MAX_KEYS + p] = 0, !.nr_items = @ - 1] = src
    BY <1>1 DEF Halves, HalfType
  <2>3. [pair.dest EXCEPT !.word[MAX_KEYS + q] = Dc(pair.src, p), !.nr_items = @ + 1] = dest
    BY <1>1 DEF Halves, HalfType
  <2> HIDE DEF src, dest
  <2>4. (pair.ok /\ Dc(pair.dest, q) = 0) \in BOOLEAN
    OBVIOUS
  <2> QED
    BY <2>1, <2>2, <2>3, <2>4
<1>4. /\ swd \in [Words -> Values]
      /\ \A w \in 0 .. MAX_KEYS - 1 : swd[w] = pair.src.word[w]
      /\ \A k \in 0 .. MAX_DC : swd[MAX_KEYS + k] = IF k = p THEN 0 ELSE Dc(pair.src, k)
  <2>1. swd \in [Words -> Values]
    BY <1>0, <1>1 DEF Values
  <2>2. \A w \in 0 .. MAX_KEYS - 1 : swd[w] = pair.src.word[w]
    BY <1>1 DEF Words
  <2>3. \A k \in 0 .. MAX_DC : swd[MAX_KEYS + k] = IF k = p THEN 0 ELSE Dc(pair.src, k)
    BY <1>0, <1>1 DEF Dc
  <2> QED
    BY <2>1, <2>2, <2>3
<1>5. /\ dwd \in [Words -> Values]
      /\ \A w \in 0 .. MAX_KEYS - 1 : dwd[w] = pair.dest.word[w]
      /\ \A k \in 0 .. MAX_DC : dwd[MAX_KEYS + k]
                                  = IF k = q THEN Dc(pair.src, p) ELSE Dc(pair.dest, k)
  <2>1. dwd \in [Words -> Values]
    BY <1>0, <1>1, <1>2
  <2>2. \A w \in 0 .. MAX_KEYS - 1 : dwd[w] = pair.dest.word[w]
    BY <1>1 DEF Words
  <2>3. \A k \in 0 .. MAX_DC : dwd[MAX_KEYS + k]
                                 = IF k = q THEN Dc(pair.src, p) ELSE pair.dest.word[MAX_KEYS + k]
    BY <1>0, <1>1
  <2> QED
    BY <2>1, <2>2, <2>3 DEF Dc
<1> HIDE DEF swd, dwd
<1>6. /\ src \in HalfType
      /\ src.word = swd /\ src.level = pair.src.level /\ src.items = pair.src.items
      /\ src.nr_items = pair.src.nr_items - 1
  <2>1. pair.src \in HalfType /\ pair.src.nr_items - 1 \in Int
    BY <1>1 DEF Halves
  <2>2. src = Rewrite(pair.src, swd, pair.src.nr_items - 1)
    BY DEF Rewrite
  <2> HIDE DEF src
  <2> HIDE BPlusNodeAssumption DEF MAX_DC
  <2> QED
    BY <1>4, <2>1, <2>2, Rewritten, SMTT(20)
<1>7. /\ dest \in HalfType
      /\ dest.word = dwd /\ dest.level = pair.dest.level /\ dest.items = pair.dest.items
      /\ dest.nr_items = pair.dest.nr_items + 1
  <2>1. pair.dest \in HalfType /\ pair.dest.nr_items + 1 \in Int
    BY <1>1 DEF Halves
  <2>2. dest = Rewrite(pair.dest, dwd, pair.dest.nr_items + 1)
    BY DEF Rewrite
  <2> HIDE DEF dest
  <2> HIDE BPlusNodeAssumption DEF MAX_DC
  <2> QED
    BY <1>5, <2>1, <2>2, Rewritten, SMTT(20)
<1> HIDE DEF src, dest
<1>9. \A k \in 0 .. MAX_DC :
        /\ Dc(src, k) = IF k = p THEN 0 ELSE Dc(pair.src, k)
        /\ Dc(dest, k) = IF k = q THEN Dc(pair.src, p) ELSE Dc(pair.dest, k)
  <2> TAKE k \in 0 .. MAX_DC
  <2>1. Dc(src, k) = swd[MAX_KEYS + k] /\ Dc(dest, k) = dwd[MAX_KEYS + k]
    BY <1>6, <1>7 DEF Dc
  <2> QED
    BY <1>4, <1>5, <2>1
<1>10. new \in Halves
  BY <1>3, <1>6, <1>7 DEF Halves
<1>11. KeysOK(src) /\ KeysOK(dest)
  BY <1>4, <1>5, <1>6, <1>7 DEF KeysOK
<1> QED
  BY <1>3, <1>6, <1>7, <1>9, <1>10, <1>11 DEF DcMoved
KeyHalves == {pair \in Halves : KeysOK(pair.src) /\ KeysOK(pair.dest)}

LEMMA KeysFlowExists ==
  ASSUME NEW node, NEW h \in 0 .. MAX_KEYS,
         [src |-> node, dest |-> [FormattedNode EXCEPT !.level = node.level], ok |-> TRUE]
           \in KeyHalves
  PROVE  \E f : KeysFlow(node, MAX_KEYS, h, f)
<1> DEFINE a == [src |-> node, dest |-> [FormattedNode EXCEPT !.level = node.level],
                 ok |-> TRUE]
           Step(i, p) == FlowKey(p, MAX_KEYS - i, i - 1)
           F == [p \in (1 .. h) \X KeyHalves |-> Step(p[1], p[2])]
<1>1. ASSUME NEW i \in 1 .. h, NEW p \in KeyHalves PROVE Step(i, p) \in KeyHalves
  <2>1. p \in Halves /\ KeysOK(p.src) /\ KeysOK(p.dest)
    BY DEF KeyHalves
  <2>2. MAX_KEYS - i \in 0 .. MAX_KEYS - 1 /\ i - 1 \in 0 .. MAX_KEYS - 1
    BY BPlusNodeAssumption
  <2>3. Step(i, p) \in Halves /\ KeysOK(Step(i, p).src) /\ KeysOK(Step(i, p).dest)
    BY <2>1, <2>2, FlowKeyIn
  <2> QED
    BY <2>3 DEF KeyHalves
<1> HIDE DEF a, Step
<1>2. F \in [(1 .. h) \X KeyHalves -> KeyHalves]
  BY <1>1
<1>3. a \in KeyHalves
  BY DEF a
<1>4. \A i \in 1 .. h, p \in KeyHalves : F[<<i, p>>] = Step(i, p)
  OBVIOUS
<1> HIDE DEF F
<1>5. h \in Nat
  BY BPlusNodeAssumption
<1>6. PICK f \in [0 .. h -> KeyHalves] :
        f[0] = a /\ \A i \in 1 .. h : f[i] = F[<<i, f[i - 1]>>]
  <2>1. HasRun(KeyHalves, h, a, F)
    BY <1>2, <1>3, <1>5, RecursionExists
  <2> QED
    BY <2>1 DEF HasRun
<1>7. ASSUME NEW i \in 0 .. h
      PROVE  f[i] = IF i = 0 THEN a ELSE Step(i, f[i - 1])
  <2>1. CASE i = 0
    BY <1>6, <2>1
  <2>2. CASE i # 0
    <3>1. i \in 1 .. h /\ i - 1 \in 0 .. h
      BY <1>5, <2>2
    <3>2. f[i - 1] \in KeyHalves
      BY <3>1
    <3> QED
      BY <1>4, <1>6, <2>2, <3>1, <3>2
  <2> QED
    BY <2>1, <2>2
<1>8. f = [i \in 0 .. h |-> IF i = 0 THEN a ELSE Step(i, f[i - 1])]
  <2> DEFINE g == [i \in 0 .. h |-> IF i = 0 THEN a ELSE Step(i, f[i - 1])]
  <2>1. \A i \in 0 .. h : f[i] = g[i]
    BY <1>7
  <2>2. f \in [0 .. h -> KeyHalves] /\ g = [i \in 0 .. h |-> g[i]]
    OBVIOUS
  <2> HIDE DEF g
  <2>3. f = g
    BY <2>1, <2>2
  <2> QED
    BY <2>3 DEF g
<1>9. KeysFlow(node, MAX_KEYS, h, f)
  BY <1>8, Zenon DEF KeysFlow, a, Step
<1> QED
  BY <1>9

LEMMA DcsFlowExists ==
  ASSUME NEW pair \in KeyHalves, NEW h \in 0 .. MAX_KEYS
  PROVE  \E f : DcsFlow(pair, MAX_KEYS, h, f)
<1> DEFINE Step(i, p) == FlowDc(p, MAX_KEYS + 1 - i, h + 1 - i)
           F == [p \in (1 .. h + 1) \X KeyHalves |-> Step(p[1], p[2])]
<1>0. h \in Nat /\ h + 1 \in Nat
  BY BPlusNodeAssumption
<1>1. ASSUME NEW i \in 1 .. h + 1, NEW p \in KeyHalves PROVE Step(i, p) \in KeyHalves
  <2>1. p \in Halves /\ KeysOK(p.src) /\ KeysOK(p.dest)
    BY DEF KeyHalves
  <2>2. MAX_KEYS + 1 - i \in 0 .. MAX_DC /\ h + 1 - i \in 0 .. MAX_DC
    BY BPlusNodeAssumption DEF MAX_DC
  <2>3. Step(i, p) \in Halves /\ KeysOK(Step(i, p).src) /\ KeysOK(Step(i, p).dest)
    BY <2>1, <2>2, FlowDcIn DEF DcMoved
  <2> QED
    BY <2>3 DEF KeyHalves
<1> HIDE DEF Step
<1>2. F \in [(1 .. h + 1) \X KeyHalves -> KeyHalves]
  BY <1>1
<1>4. \A i \in 1 .. h + 1, p \in KeyHalves : F[<<i, p>>] = Step(i, p)
  OBVIOUS
<1> HIDE DEF F
<1>6. PICK f \in [0 .. h + 1 -> KeyHalves] :
        f[0] = pair /\ \A i \in 1 .. h + 1 : f[i] = F[<<i, f[i - 1]>>]
  <2>1. HasRun(KeyHalves, h + 1, pair, F)
    BY <1>0, <1>2, RecursionExists
  <2> QED
    BY <2>1 DEF HasRun
<1>7. ASSUME NEW i \in 0 .. h + 1
      PROVE  f[i] = IF i = 0 THEN pair ELSE Step(i, f[i - 1])
  <2>1. CASE i = 0
    BY <1>6, <2>1
  <2>2. CASE i # 0
    <3>1. i \in 1 .. h + 1 /\ i - 1 \in 0 .. h + 1
      BY <1>0, <2>2
    <3>2. f[i - 1] \in KeyHalves
      BY <3>1
    <3> QED
      BY <1>4, <1>6, <2>2, <3>1, <3>2
  <2> QED
    BY <2>1, <2>2
<1>8. f = [i \in 0 .. h + 1 |-> IF i = 0 THEN pair ELSE Step(i, f[i - 1])]
  <2> DEFINE g == [i \in 0 .. h + 1 |-> IF i = 0 THEN pair ELSE Step(i, f[i - 1])]
  <2>1. \A i \in 0 .. h + 1 : f[i] = g[i]
    BY <1>7
  <2>2. f \in [0 .. h + 1 -> KeyHalves] /\ g = [i \in 0 .. h + 1 |-> g[i]]
    OBVIOUS
  <2> HIDE DEF g
  <2>3. f = g
    BY <2>1, <2>2
  <2> QED
    BY <2>3 DEF g
<1>9. DcsFlow(pair, MAX_KEYS, h, f)
  BY <1>8, Zenon DEF DcsFlow, Step
<1> QED
  BY <1>9

(* After the keys have flown.                                              *)
KeysFlown(node, n, pair) ==
  /\ pair \in KeyHalves
  /\ pair.src.level = node.level /\ pair.dest.level = node.level
  /\ pair.src.items = <<>> /\ pair.dest.items = <<>>
  /\ pair.src.nr_items = node.nr_items - n /\ pair.dest.nr_items = n
  /\ \A i \in 0 .. MAX_DC : Dc(pair.src, i) = Dc(node, i) /\ Dc(pair.dest, i) = 0

(* What the two loops of bplus_tree_flow_item_case2 have done after each   *)
(* round, and so at their end.                                             *)
LEMMA KeysFlowTo ==
  ASSUME NEW node, NEW h \in 0 .. MAX_KEYS, NEW f, KeysFlow(node, MAX_KEYS, h, f),
         KeysFlown(node, 0, [src |-> node,
                             dest |-> [FormattedNode EXCEPT !.level = node.level],
                             ok |-> TRUE])
  PROVE  KeysFlown(node, h, f[h])
<1> DEFINE a == [src |-> node, dest |-> [FormattedNode EXCEPT !.level = node.level],
                 ok |-> TRUE]
           P == {i \in Nat : i <= h => KeysFlown(node, i, f[i])}
<1>0. h \in Nat
  BY BPlusNodeAssumption
<1>1. f = [i \in 0 .. h |-> IF i = 0 THEN a ELSE FlowKey(f[i - 1], MAX_KEYS - i, i - 1)]
  BY Zenon DEF KeysFlow
<1>2. \A i \in 0 .. h : f[i] = IF i = 0 THEN a ELSE FlowKey(f[i - 1], MAX_KEYS - i, i - 1)
  BY <1>1, Zenon
<1>3. KeysFlown(node, 0, a)
  OBVIOUS
<1> HIDE DEF a
<1>4. 0 \in P
  BY <1>0, <1>2, <1>3
<1>5. ASSUME NEW i \in 1 .. h, i - 1 \in P PROVE i \in P
  <2> DEFINE p == f[i - 1]
             q == f[i]
  <2>1. KeysFlown(node, i - 1, p)
    BY <1>0, <1>5
  <2>2. i \in 0 .. h /\ i # 0
    OBVIOUS
  <2>3. q = FlowKey(p, MAX_KEYS - i, i - 1)
    BY <1>2, <2>2
  <2>4. MAX_KEYS - i \in 0 .. MAX_KEYS - 1 /\ i - 1 \in 0 .. MAX_KEYS - 1
    BY BPlusNodeAssumption
  <2> HIDE DEF p, q
  <2>5. p \in Halves /\ KeysOK(p.src) /\ KeysOK(p.dest)
    BY <2>1 DEF KeysFlown, KeyHalves
  <2>6. /\ q \in Halves /\ KeysOK(q.src) /\ KeysOK(q.dest)
        /\ q.src.level = p.src.level /\ q.dest.level = p.dest.level
        /\ q.src.items = p.src.items /\ q.dest.items = p.dest.items
        /\ q.src.nr_items = p.src.nr_items - 1 /\ q.dest.nr_items = p.dest.nr_items + 1
        /\ \A k \in 0 .. MAX_DC : Dc(q.src, k) = Dc(p.src, k) /\ Dc(q.dest, k) = Dc(p.dest, k)
    BY <2>3, <2>4, <2>5, FlowKeyIn
  <2>7. node.nr_items \in Int
    <3>1. a.src = node /\ a.src \in HalfType
      BY <1>3 DEF KeysFlown, KeyHalves, Halves, a
    <3> QED
      BY <3>1 DEF HalfType
  <2>8. KeysFlown(node, i, q)
    BY <2>1, <2>6, <2>7 DEF KeysFlown, KeyHalves
  <2> QED
    BY <2>8 DEF q
<1> HIDE DEF P
<1>6. 0 .. h \subseteq P
  <2>1. P \in SUBSET Nat
    BY DEF P
  <2> QED
    BY <1>0, <1>4, <1>5, <2>1, Steps
<1> QED
  BY <1>0, <1>6 DEF P

(* After the disk children have flown, too: the lower half of the disk     *)
(* children, up to that at h, are where they were.                         *)
DcsFlown(pair0, h, n, pair) ==
  /\ pair \in KeyHalves
  /\ pair.src.level = pair0.src.level /\ pair.dest.level = pair0.dest.level
  /\ pair.src.items = pair0.src.items /\ pair.dest.items = pair0.dest.items
  /\ pair.src.nr_items = pair0.src.nr_items - n
  /\ pair.dest.nr_items = pair0.dest.nr_items + n
  /\ \A i \in 0 .. MAX_KEYS :
       Dc(pair.src, i) = IF i >= MAX_KEYS + 1 - n THEN 0 ELSE Dc(pair0.src, i)
  /\ Dc(pair.src, MAX_DC) = Dc(pair0.src, MAX_DC)
  /\ \A i \in 0 .. MAX_DC :
       Dc(pair.dest, i) = IF i \in h + 1 - n .. h THEN Dc(pair0.src, i + MAX_KEYS - h)
                          ELSE Dc(pair0.dest, i)

LEMMA DcsFlowTo ==
  ASSUME NEW pair \in KeyHalves, NEW h \in 0 .. MAX_KEYS - 1, NEW f,
         DcsFlow(pair, MAX_KEYS, h, f)
  PROVE  DcsFlown(pair, h, h + 1, f[h + 1])
<1> DEFINE P == {i \in Nat : i <= h + 1 => DcsFlown(pair, h, i, f[i])}
<1>0. h \in Nat /\ h + 1 \in Nat
  BY BPlusNodeAssumption
<1>1. f = [i \in 0 .. h + 1 |->
             IF i = 0 THEN pair ELSE FlowDc(f[i - 1], MAX_KEYS + 1 - i, h + 1 - i)]
  BY Zenon DEF DcsFlow
<1>2. \A i \in 0 .. h + 1 :
        f[i] = IF i = 0 THEN pair ELSE FlowDc(f[i - 1], MAX_KEYS + 1 - i, h + 1 - i)
  BY <1>1, Zenon
<1>3. DcsFlown(pair, h, 0, pair)
  <2>1. pair.src.nr_items \in Int /\ pair.dest.nr_items \in Int
    BY DEF KeyHalves, Halves, HalfType
  <2> QED
    BY <1>0, <2>1, BPlusNodeAssumption DEF DcsFlown, MAX_DC
<1>4. 0 \in P
  BY <1>0, <1>2, <1>3
<1>5. ASSUME NEW i \in 1 .. h + 1, i - 1 \in P PROVE i \in P
  <2> DEFINE p == f[i - 1]
             q == f[i]
             s == MAX_KEYS + 1 - i
             d == h + 1 - i
  <2>1. DcsFlown(pair, h, i - 1, p)
    BY <1>0, <1>5
  <2>2. i \in 0 .. h + 1 /\ i # 0
    OBVIOUS
  <2>3. q = FlowDc(p, s, d)
    BY <1>2, <2>2
  <2>4. s \in 0 .. MAX_KEYS /\ s \in 0 .. MAX_DC /\ d \in 0 .. MAX_DC /\ d \in 0 .. h
    BY BPlusNodeAssumption DEF MAX_DC
  <2>5. s < MAX_KEYS + 1 - (i - 1) /\ d + MAX_KEYS - h = s /\ i - 1 \in Nat
    BY <1>0, BPlusNodeAssumption
  <2> HIDE DEF p, q
  <2>6. p \in Halves /\ KeysOK(p.src) /\ KeysOK(p.dest)
    BY <2>1 DEF DcsFlown, KeyHalves
  <2>7. Dc(p.src, s) = Dc(pair.src, d + MAX_KEYS - h)
    <3>1. \A k \in 0 .. MAX_KEYS :
            Dc(p.src, k) = IF k >= MAX_KEYS + 1 - (i - 1) THEN 0 ELSE Dc(pair.src, k)
      BY <2>1 DEF DcsFlown
    <3>2. ~(s >= MAX_KEYS + 1 - (i - 1))
      BY BPlusNodeAssumption
    <3>3. d + MAX_KEYS - h = s
      BY <2>5
    <3> HIDE DEF s, d
    <3> QED
      BY <2>4, <3>1, <3>2, <3>3
  <2> HIDE DEF s, d
  <2>8. /\ q \in Halves /\ KeysOK(q.src) /\ KeysOK(q.dest)
        /\ q.src.level = p.src.level /\ q.dest.level = p.dest.level
        /\ q.src.items = p.src.items /\ q.dest.items = p.dest.items
        /\ q.src.nr_items = p.src.nr_items - 1 /\ q.dest.nr_items = p.dest.nr_items + 1
        /\ \A k \in 0 .. MAX_DC :
              /\ Dc(q.src, k) = IF k = s THEN 0 ELSE Dc(p.src, k)
              /\ Dc(q.dest, k) = IF k = d THEN Dc(p.src, s) ELSE Dc(p.dest, k)
    <3>1. s \in 0 .. MAX_DC /\ d \in 0 .. MAX_DC
      BY <2>4
    <3>2. DcMoved(p, s, d, q)
      BY <2>3, <2>6, <3>1, FlowDcIn
    <3> QED
      BY <3>2 DEF DcMoved
  <2>9. pair.src.nr_items \in Int /\ pair.dest.nr_items \in Int
    BY DEF KeyHalves, Halves, HalfType
  <2>10. ASSUME NEW k \in 0 .. MAX_KEYS
         PROVE  Dc(q.src, k) = IF k >= MAX_KEYS + 1 - i THEN 0 ELSE Dc(pair.src, k)
    <3>1. k \in 0 .. MAX_DC /\ (k >= MAX_KEYS + 1 - i <=> k = s \/ k >= MAX_KEYS + 1 - (i - 1))
      BY BPlusNodeAssumption DEF s, MAX_DC
    <3>2. Dc(p.src, k) = IF k >= MAX_KEYS + 1 - (i - 1) THEN 0 ELSE Dc(pair.src, k)
      BY <2>1 DEF DcsFlown
    <3> QED
      BY <2>8, <3>1, <3>2
  <2>11. Dc(q.src, MAX_DC) = Dc(pair.src, MAX_DC)
    <3>1. MAX_DC \in 0 .. MAX_DC /\ MAX_DC # s
      BY BPlusNodeAssumption DEF s, MAX_DC
    <3> QED
      BY <2>1, <2>8, <3>1 DEF DcsFlown
  <2>12. ASSUME NEW k \in 0 .. MAX_DC
         PROVE  Dc(q.dest, k) = IF k \in h + 1 - i .. h THEN Dc(pair.src, k + MAX_KEYS - h)
                                ELSE Dc(pair.dest, k)
    <3>1. k \in h + 1 - i .. h <=> k = d \/ k \in h + 1 - (i - 1) .. h
      BY <1>0 DEF d
    <3>2. Dc(p.dest, k) = IF k \in h + 1 - (i - 1) .. h THEN Dc(pair.src, k + MAX_KEYS - h)
                          ELSE Dc(pair.dest, k)
      BY <2>1 DEF DcsFlown
    <3>3. CASE k = d
      BY <2>7, <2>8, <3>1, <3>3
    <3>4. CASE k # d
      BY <2>8, <3>1, <3>2, <3>4
    <3> QED
      BY <3>3, <3>4
  <2>13. q.src.nr_items = pair.src.nr_items - i /\ q.dest.nr_items = pair.dest.nr_items + i
    BY <2>1, <2>8, <2>9 DEF DcsFlown
  <2>14. DcsFlown(pair, h, i, q)
    BY <2>1, <2>8, <2>10, <2>11, <2>12, <2>13 DEF DcsFlown, KeyHalves
  <2> QED
    BY <2>14 DEF q
<1> HIDE DEF P
<1>6. 0 .. h + 1 \subseteq P
  <2>1. P \in SUBSET Nat
    BY DEF P
  <2> QED
    BY <1>0, <1>4, <1>5, <2>1, Steps
<1> QED
  BY <1>0, <1>6 DEF P

(* Each disk child of a full node that is split is in one of the halves.   *)
LEMMA SplitIn ==
  ASSUME NEW node, NodeOK(node), node.level # 0, node.nr_items = MAX_KEYS + MAX_DC,
         NEW h \in Nat, MAX_KEYS = 2 * h + 1, NEW pair, pair = SplitInternal(node)
  PROVE  /\ pair.src \in NodeType /\ pair.dest \in NodeType
         /\ pair.src.level = node.level /\ pair.dest.level = node.level
         /\ pair.src.items = <<>> /\ pair.dest.items = <<>>
         /\ pair.src.nr_items = 2 * h + 2 /\ pair.dest.nr_items = 2 * h + 1
         /\ KeysOK(pair.src) /\ KeysOK(pair.dest)
         /\ DcsOK(pair.src, h) /\ DcsOK(pair.dest, h)
         /\ DcsUpTo(pair.src, h) \cup DcsUpTo(pair.dest, h) = LinksOf(node)
<1> DEFINE a == [src |-> node, dest |-> [FormattedNode EXCEPT !.level = node.level],
                 ok |-> TRUE]
           keyed == CHOOSE f : KeysFlow(node, MAX_KEYS, h, f)
           flown == CHOOSE f : DcsFlow(keyed[h], MAX_KEYS, h, f)
<1>1. /\ node \in NodeType /\ NrKeys(node) = MAX_KEYS /\ KeysOK(node)
      /\ DcsOK(node, MAX_KEYS) /\ node.items = <<>> /\ node.nr_items = 4 * h + 3
  BY BPlusNodeAssumption DEF NodeOK, MAX_DC
<1>2. NrKeys(node) \div 2 = h
  BY <1>1
<1>3. pair = flown[h + 1]
  BY <1>1, <1>2, SplitIsFlow, Zenon
<1>4. h \in 0 .. MAX_KEYS /\ h \in 0 .. MAX_KEYS - 1
  OBVIOUS
<1>5. KeysFlown(node, 0, a)
  <2> DEFINE blank == [FormattedNode EXCEPT !.level = node.level]
  <2>1. node \in HalfType /\ node.level \in Levels
    BY <1>1 DEF NodeType, HalfType, Values
  <2>2. /\ blank \in HalfType /\ blank.level = node.level /\ blank.items = <<>>
        /\ blank.nr_items = 0 /\ blank.word = [w \in Words |-> 0]
    <3>1. blank = [level |-> node.level, nr_items |-> 0, items |-> <<>>,
                   word |-> [w \in Words |-> 0]]
      BY DEF FormattedNode, BTREE_LEAF_LEVEL
    <3>2. [w \in Words |-> 0] \in [Words -> Values]
      BY DEF Values
    <3>3. blank \in HalfType
      <4> DEFINE word == [w \in Words |-> 0]
                 items == <<>>
      <4>1. items \in Seq(Keys) /\ word \in [Words -> Values]
        BY <3>2
      <4>2. blank = [level |-> node.level, nr_items |-> 0, items |-> items, word |-> word]
        BY <3>1
      <4> HIDE DEF blank, items, word
      <4> QED
        BY <2>1, <4>1, <4>2 DEF HalfType
    <3> QED
      BY <3>1, <3>3
  <2>3. \A w \in 0 .. MAX_KEYS - 1 : w \in Words
    BY BPlusNodeAssumption DEF Words, MAX_DC
  <2>4. \A i \in 0 .. MAX_DC : MAX_KEYS + i \in Words
    BY BPlusNodeAssumption DEF Words, MAX_DC
  <2> HIDE DEF blank
  <2>5. KeysOK(blank) /\ \A i \in 0 .. MAX_DC : Dc(blank, i) = 0
    BY <2>2, <2>3, <2>4 DEF KeysOK, Dc
  <2>6. a = [src |-> node, dest |-> blank, ok |-> TRUE]
    BY DEF blank
  <2> HIDE DEF a
  <2>7. a.src = node /\ a.dest = blank /\ a \in Halves
    BY <2>1, <2>2, <2>6 DEF Halves
  <2> QED
    BY <1>1, <2>2, <2>5, <2>7 DEF KeysFlown, KeyHalves
<1>6. a \in KeyHalves
  BY <1>5 DEF KeysFlown
<1>7. KeysFlow(node, MAX_KEYS, h, keyed)
  <2>1. \E f : KeysFlow(node, MAX_KEYS, h, f)
    BY <1>4, <1>6, KeysFlowExists
  <2> QED
    BY <2>1, Zenon
<1> HIDE DEF keyed
<1>8. KeysFlown(node, h, keyed[h])
  BY <1>4, <1>5, <1>7, KeysFlowTo
<1>9. DcsFlow(keyed[h], MAX_KEYS, h, flown)
  <2>1. \E f : DcsFlow(keyed[h], MAX_KEYS, h, f)
    BY <1>4, <1>8, DcsFlowExists DEF KeysFlown
  <2> QED
    BY <2>1, Zenon
<1> HIDE DEF flown
<1> DEFINE k == keyed[h]
<1>10. DcsFlown(k, h, h + 1, pair)
  BY <1>3, <1>4, <1>8, <1>9, DcsFlowTo DEF KeysFlown
<1>11. KeysFlown(node, h, k)
  BY <1>8
<1> HIDE DEF k
<1>12. /\ \A i \in 0 .. h : Dc(pair.src, i) = Dc(node, i)
       /\ \A i \in h + 1 .. MAX_DC : Dc(pair.src, i) = 0
  <2>1. Dc(node, MAX_DC) = 0
    BY <1>1, BPlusNodeAssumption DEF DcsOK, MAX_DC
  <2>2. MAX_DC \in 0 .. MAX_DC /\ MAX_DC = 2 * h + 2
    BY DEF MAX_DC
  <2>3. \A i \in 0 .. MAX_DC : Dc(k.src, i) = Dc(node, i)
    BY <1>11 DEF KeysFlown
  <2>4. \A i \in 0 .. MAX_KEYS :
          Dc(pair.src, i) = IF i >= MAX_KEYS + 1 - (h + 1) THEN 0 ELSE Dc(k.src, i)
    BY <1>10 DEF DcsFlown
  <2>5. Dc(pair.src, MAX_DC) = 0
    BY <1>10, <2>1, <2>2, <2>3 DEF DcsFlown
  <2>6. \A i \in 0 .. h : Dc(pair.src, i) = Dc(node, i)
    BY <2>2, <2>3, <2>4
  <2>7. ASSUME NEW i \in h + 1 .. MAX_DC PROVE Dc(pair.src, i) = 0
    BY <2>2, <2>4, <2>5
  <2> QED
    BY <2>6, <2>7
<1>13. /\ \A i \in 0 .. h : Dc(pair.dest, i) = Dc(node, i + (h + 1))
       /\ \A i \in h + 1 .. MAX_DC : Dc(pair.dest, i) = 0
  <2>1. \A i \in 0 .. MAX_DC : Dc(k.src, i) = Dc(node, i) /\ Dc(k.dest, i) = 0
    BY <1>11 DEF KeysFlown
  <2>2. \A i \in 0 .. MAX_DC :
          Dc(pair.dest, i) = IF i \in h + 1 - (h + 1) .. h THEN Dc(k.src, i + MAX_KEYS - h)
                             ELSE Dc(k.dest, i)
    BY <1>10 DEF DcsFlown
  <2>3. MAX_DC = 2 * h + 2
    BY DEF MAX_DC
  <2>4. ASSUME NEW i \in 0 .. h PROVE Dc(pair.dest, i) = Dc(node, i + (h + 1))
    <3>1. i \in 0 .. MAX_DC /\ i \in h + 1 - (h + 1) .. h
      BY <2>3
    <3>2. i + MAX_KEYS - h = i + (h + 1) /\ i + (h + 1) \in 0 .. MAX_DC
      BY <2>3
    <3> QED
      BY <2>1, <2>2, <3>1, <3>2
  <2>5. ASSUME NEW i \in h + 1 .. MAX_DC PROVE Dc(pair.dest, i) = 0
    <3>1. i \in 0 .. MAX_DC /\ i \notin h + 1 - (h + 1) .. h
      BY <2>3
    <3> QED
      BY <2>1, <2>2, <3>1
  <2> QED
    BY <2>4, <2>5
<1>14. \A i \in 0 .. MAX_KEYS : Dc(node, i) \in NodeIds
  BY <1>1 DEF DcsOK
<1>15. DcsOK(pair.src, h) /\ DcsOK(pair.dest, h)
  <2>1. \A i \in 0 .. h : i \in 0 .. MAX_KEYS /\ i + (h + 1) \in 0 .. MAX_KEYS
    OBVIOUS
  <2> QED
    BY <1>12, <1>13, <1>14, <2>1 DEF DcsOK
<1>16. {Dc(pair.src, i) : i \in 0 .. h} \cup {Dc(pair.dest, i) : i \in 0 .. h} = LinksOf(node)
  <2>1. LinksOf(node) = {Dc(node, i) : i \in 0 .. MAX_KEYS}
    BY <1>1 DEF LinksOf, IsLeaf, BTREE_LEAF_LEVEL
  <2>2. \A i \in 0 .. h : i \in 0 .. MAX_KEYS /\ i + (h + 1) \in 0 .. MAX_KEYS
    OBVIOUS
  <2>3. \A i \in 0 .. MAX_KEYS : i \in 0 .. h \/ (i - (h + 1) \in 0 .. h
                                                  /\ (i - (h + 1)) + (h + 1) = i)
    OBVIOUS
  <2>4. \A i \in 0 .. MAX_KEYS : \/ \E j \in 0 .. h : Dc(node, i) = Dc(pair.src, j)
                                 \/ \E j \in 0 .. h : Dc(node, i) = Dc(pair.dest, j)
    BY <1>12, <1>13, <2>3
  <2>5. \A j \in 0 .. h : /\ \E i \in 0 .. MAX_KEYS : Dc(pair.src, j) = Dc(node, i)
                          /\ \E i \in 0 .. MAX_KEYS : Dc(pair.dest, j) = Dc(node, i)
    BY <1>12, <1>13, <2>2
  <2> QED
    BY <2>1, <2>4, <2>5
<1>17. /\ pair.src.level = node.level /\ pair.dest.level = node.level
       /\ pair.src.items = <<>> /\ pair.dest.items = <<>>
       /\ pair.src.nr_items = 2 * h + 2 /\ pair.dest.nr_items = 2 * h + 1
  BY <1>1, <1>10, <1>11 DEF DcsFlown, KeysFlown
<1>18. pair.src \in HalfType /\ pair.dest \in HalfType /\ KeysOK(pair.src) /\ KeysOK(pair.dest)
  BY <1>10 DEF DcsFlown, KeyHalves, Halves
<1>19. pair.src \in NodeType /\ pair.dest \in NodeType
  <2>1. 2 * h + 2 \in Nat /\ 2 * h + 1 \in Nat
    OBVIOUS
  <2> QED
    BY <1>17, <1>18, <2>1 DEF HalfType, NodeType, Values
<1> QED
  BY <1>15, <1>16, <1>17, <1>18, <1>19 DEF DcsUpTo

-----------------------------------------------------------------------------
(* The disk.                                                               *)
Nodes == {node \in NodeType : NodeOK(node)}

Below(level) == IF level = 3 THEN 1 ELSE level - 1

Hangs(d, x, level) == x \in DOMAIN d /\ NrItems(d[x]) # 0 /\ d[x].level = level

DiskOK(d) ==
  /\ DOMAIN d \subseteq NodeIds
  /\ d \in [DOMAIN d -> Nodes]
  /\ \A id \in DOMAIN d : \A x \in LinksOf(d[id]) : Hangs(d, x, Below(d[id].level))

ElementType == [id : NodeIds \cup {0}, position : Int, node : NodeType]

Mem(d, r, p, n, left, right, ok) ==
  [disk |-> d, root |-> r, pe |-> p, length |-> n, left |-> left, right |-> right,
   ok |-> ok]

IsMem(m) == m = Mem(m.disk, m.root, m.pe, m.length, m.left, m.right, m.ok)

At(m, d) == [m EXCEPT !.disk = d]

LEMMA AtIs ==
  ASSUME NEW m, IsMem(m), NEW d
  PROVE  /\ IsMem(At(m, d)) /\ At(m, d).disk = d /\ At(m, d).root = m.root
         /\ At(m, d).ok = m.ok /\ At(m, m.disk) = m
         /\ \A e : [At(m, d) EXCEPT !.disk = e] = At(m, e)
<1> DEFINE M(x) == Mem(x, m.root, m.pe, m.length, m.left, m.right, m.ok)
<1>1. m = M(m.disk)
  BY DEF IsMem
<1>2. \A x, y : [M(x) EXCEPT !.disk = y] = M(y)
  BY DEF Mem
<1>3. \A x : M(x).disk = x /\ M(x).root = m.root /\ M(x).ok = m.ok
  BY DEF Mem
<1>4. \A x : IsMem(M(x))
  BY DEF IsMem, Mem
<1> HIDE DEF M
<1>5. \A x : At(m, x) = M(x)
  BY <1>1, <1>2 DEF At
<1> QED
  BY <1>1, <1>2, <1>3, <1>4, <1>5

Rewrites(elements, n, f) ==
  \A k \in 1 .. n : f[k] = IF elements[k].id = 0 THEN f[k - 1]
                           ELSE [f[k - 1] EXCEPT ![elements[k].id] = elements[k].node]

(* Without empty nodes and unknown ids, flushing only rewrites nodes.      *)
LEMMA FlushIs ==
  ASSUME NEW m, IsMem(m), m.disk \in [DOMAIN m.disk -> NodeType],
         NEW n \in Nat, n = Len(Elements(m)), Elements(m) \in Seq(ElementType),
         \A k \in 1 .. n : Elements(m)[k].id = 0 \/ /\ Elements(m)[k].id \in DOMAIN m.disk
                                                    /\ NrItems(Elements(m)[k].node) # 0
  PROVE  \E f \in [0 .. n -> [DOMAIN m.disk -> NodeType]] :
           /\ f[0] = m.disk /\ Rewrites(Elements(m), n, f)
           /\ \A k \in 0 .. n : Flush(m)[k] = At(m, f[k])
<1> DEFINE E == Elements(m)
           S == [DOMAIN m.disk -> NodeType]
           Step(i, d) == IF E[i].id = 0 THEN d ELSE [d EXCEPT ![E[i].id] = E[i].node]
           F == [p \in (1 .. n) \X S |-> Step(p[1], p[2])]
           Is(f) == f = [k \in 0 .. n |-> IF k = 0 THEN m ELSE Written(f[k - 1], E[k])]
<1>1. \A k \in 1 .. n : E[k] \in ElementType /\ E[k].node \in NodeType
  <2>1. E \in Seq(ElementType) /\ n = Len(E)
    OBVIOUS
  <2> HIDE DEF E
  <2>2. \A k \in 1 .. n : E[k] \in ElementType
    BY <2>1, ElementOfSeq
  <2> QED
    BY <2>2 DEF ElementType
<1>2. ASSUME NEW i \in 1 .. n, NEW d \in S PROVE Step(i, d) \in S
  BY <1>1
<1>3. ASSUME NEW i \in 1 .. n, NEW d \in S PROVE Written(At(m, d), E[i]) = At(m, Step(i, d))
  <2>1. At(m, d).disk = d /\ DOMAIN d = DOMAIN m.disk
    BY AtIs
  <2>2. \A e : [At(m, d) EXCEPT !.disk = e] = At(m, e)
    BY AtIs
  <2>3. CASE E[i].id = 0
    BY <2>3 DEF Written
  <2>4. CASE E[i].id # 0
    <3>1. E[i].id \in DOMAIN m.disk /\ NrItems(E[i].node) # 0
      BY <2>4
    <3> DEFINE id == E[i].id
               node == E[i].node
    <3>2. Written(At(m, d), E[i]) = [At(m, d) EXCEPT !.disk = [d EXCEPT ![id] = node]]
      <4>1. Written(At(m, d), E[i]) = [At(m, d) EXCEPT !.disk[id] = node]
        BY <2>1, <2>4, <3>1 DEF Written
      <4> QED
        BY <2>1, <4>1 DEF At
    <3> QED
      BY <2>2, <2>4, <3>2
  <2> QED
    BY <2>3, <2>4
<1> HIDE DEF E, S, Step
<1>4. F \in [(1 .. n) \X S -> S]
  BY <1>2
<1>5. \A i \in 1 .. n, d \in S : F[<<i, d>>] = Step(i, d)
  OBVIOUS
<1> HIDE DEF F
<1>6. m.disk \in S
  BY DEF S
<1>7. PICK f \in [0 .. n -> S] : f[0] = m.disk /\ \A i \in 1 .. n : f[i] = F[<<i, f[i - 1]>>]
  <2>1. HasRun(S, n, m.disk, F)
    BY <1>4, <1>6, RecursionExists
  <2> QED
    BY <2>1 DEF HasRun
<1>8. \A i \in 1 .. n : f[i - 1] \in S /\ f[i] = Step(i, f[i - 1])
  <2> TAKE i \in 1 .. n
  <2>1. i - 1 \in 0 .. n
    OBVIOUS
  <2>2. f[i - 1] \in S
    BY <2>1
  <2> QED
    BY <1>5, <1>7, <2>2
<1> DEFINE g == [k \in 0 .. n |-> At(m, f[k])]
<1>9. Is(g)
  <2> DEFINE h == [k \in 0 .. n |-> IF k = 0 THEN m ELSE Written(g[k - 1], E[k])]
  <2>1. ASSUME NEW k \in 0 .. n PROVE g[k] = h[k]
    <3>1. CASE k = 0
      BY <1>7, <3>1, AtIs
    <3>2. CASE k # 0
      <4>1. k \in 1 .. n /\ k - 1 \in 0 .. n
        BY <3>2
      <4>2. g[k] = At(m, f[k]) /\ g[k - 1] = At(m, f[k - 1])
        BY <4>1
      <4>3. h[k] = Written(g[k - 1], E[k])
        BY <3>2
      <4> HIDE DEF g, h
      <4>4. f[k] = Step(k, f[k - 1]) /\ f[k - 1] \in S
        BY <1>8, <4>1
      <4> QED
        BY <1>3, <4>1, <4>2, <4>3, <4>4
    <3> QED
      BY <3>1, <3>2
  <2>2. g = [k \in 0 .. n |-> g[k]] /\ h = [k \in 0 .. n |-> h[k]]
    OBVIOUS
  <2> HIDE DEF g, h
  <2>3. g = h
    BY <2>1, <2>2
  <2> QED
    BY <2>3, Zenon DEF h
<1> DEFINE fl == Flush(m)
<1>10. Is(fl)
  <2>1. fl = CHOOSE f1 : Is(f1)
    BY Zenon DEF Flush, E
  <2>2. \E f1 : Is(f1)
    BY <1>9, Zenon
  <2> HIDE DEF Is, fl
  <2> QED
    BY <2>1, <2>2, Zenon
<1>11. \A k \in 0 .. n : fl[k] = IF k = 0 THEN m ELSE Written(fl[k - 1], E[k])
  BY <1>10, Zenon
<1>12. \A k \in 0 .. n : g[k] = IF k = 0 THEN m ELSE Written(g[k - 1], E[k])
  BY <1>9, Zenon
<1>13. \A k \in 0 .. n : g[k] = At(m, f[k])
  OBVIOUS
<1> HIDE DEF fl, g
<1> DEFINE P == {k \in Nat : k <= n => fl[k] = g[k]}
<1>14. 0 \in P
  BY <1>11, <1>12
<1>15. ASSUME NEW k \in 1 .. n, k - 1 \in P PROVE k \in P
  <2>1. fl[k - 1] = g[k - 1]
    BY <1>15
  <2>2. k \in 0 .. n /\ k # 0
    OBVIOUS
  <2> QED
    BY <1>11, <1>12, <2>1, <2>2
<1> HIDE DEF P
<1>16. 0 .. n \subseteq P
  <2>1. P \in SUBSET Nat
    BY DEF P
  <2> QED
    BY <1>14, <1>15, <2>1, Steps
<1>17. \A k \in 0 .. n : Flush(m)[k] = At(m, f[k])
  BY <1>13, <1>16 DEF P, fl
<1>18. Rewrites(Elements(m), n, f)
  BY <1>8 DEF Rewrites, Step, E
<1> QED
  BY <1>7, <1>17, <1>18 DEF S

(* What may be written where the disk d is to become fin.                  *)
Fits(e, d, fin) ==
  /\ e.id \in DOMAIN d /\ e.node \in Nodes /\ NrItems(e.node) # 0
  /\ e.node.level = fin[e.id].level /\ e.node \in {d[e.id], fin[e.id]}

Settled(elements, n, j, fin, id) ==
  /\ elements[j].id = id
  /\ \A k \in j .. n : elements[k].id = id => elements[k].node = fin[id]

ChildrenFirst(elements, n, d, fin) ==
  \A k \in 1 .. n : elements[k].id # 0 =>
    \A x \in LinksOf(elements[k].node) :
      \/ Hangs(d, x, Below(elements[k].node.level))
      \/ \E j \in 1 .. k - 1 : /\ elements[j].id = x
                               /\ fin[x].level = Below(elements[k].node.level)

Leads(elements, n, d, fin) ==
  /\ fin \in [DOMAIN d -> Nodes]
  /\ \A id \in DOMAIN d : NrItems(d[id]) # 0 => fin[id].level = d[id].level
  /\ \A k \in 1 .. n : elements[k].id = 0 \/ Fits(elements[k], d, fin)
  /\ ChildrenFirst(elements, n, d, fin)
  /\ \A id \in DOMAIN d : fin[id] = d[id] \/ \E j \in 1 .. n : Settled(elements, n, j, fin, id)

Wrote(elements, k, id, node) ==
  \E j \in 1 .. k : elements[j].id = id /\ elements[j].node = node

(* The disk g after k writes.                                              *)
Midway(elements, n, d, fin, k, g) ==
  /\ g \in [DOMAIN d -> Nodes]
  /\ \A id \in DOMAIN d : g[id] \in {d[id], fin[id]}
  /\ \A id \in DOMAIN d : NrItems(g[id]) # 0 => g[id].level = fin[id].level
  /\ \A id \in DOMAIN d : NrItems(d[id]) # 0 => NrItems(g[id]) # 0
  /\ \A j \in 1 .. k : elements[j].id # 0 => NrItems(g[elements[j].id]) # 0
  /\ \A id \in DOMAIN d : \A x \in LinksOf(g[id]) :
       x \in DOMAIN d /\ NrItems(g[x]) # 0 /\ fin[x].level = Below(g[id].level)
  /\ \A id \in DOMAIN d, j \in 1 .. k : Settled(elements, n, j, fin, id) => g[id] = fin[id]
  /\ \A id \in DOMAIN d : g[id] = d[id] \/ Wrote(elements, k, id, g[id])

(* One write.                                                              *)
LEMMA MidwayStep ==
  ASSUME NEW E, NEW n \in Nat, NEW d, DiskOK(d), NEW fin, Leads(E, n, d, fin),
         NEW k \in 1 .. n, NEW f, Midway(E, n, d, fin, k - 1, f),
         NEW g, g = IF E[k].id = 0 THEN f ELSE [f EXCEPT ![E[k].id] = E[k].node]
  PROVE  Midway(E, n, d, fin, k, g)
<1> DEFINE D == DOMAIN d
           y == E[k].id
           node == E[k].node
<1>0. /\ f \in [D -> Nodes]
      /\ \A id \in D : f[id] \in {d[id], fin[id]}
      /\ \A id \in D : NrItems(f[id]) # 0 => f[id].level = fin[id].level
      /\ \A id \in D : NrItems(d[id]) # 0 => NrItems(f[id]) # 0
      /\ \A j \in 1 .. k - 1 : E[j].id # 0 => NrItems(f[E[j].id]) # 0
      /\ \A id \in D : \A x \in LinksOf(f[id]) :
           x \in D /\ NrItems(f[x]) # 0 /\ fin[x].level = Below(f[id].level)
      /\ \A id \in D, j \in 1 .. k - 1 : Settled(E, n, j, fin, id) => f[id] = fin[id]
      /\ \A id \in D : f[id] = d[id] \/ Wrote(E, k - 1, id, f[id])
  BY DEF Midway
<1>9. \A id, w : Wrote(E, k - 1, id, w) => Wrote(E, k, id, w)
  BY DEF Wrote
<1>1. CASE y = 0
  <2>1. g = f
    BY <1>1
  <2>2. \A j \in 1 .. k : j \in 1 .. k - 1 \/ j = k
    OBVIOUS
  <2>3. \A id \in D : ~Settled(E, n, k, fin, id)
    <3>1. 0 \notin D
      BY BPlusTreeAssumption DEF DiskOK
    <3> QED
      BY <1>1, <3>1 DEF Settled
  <2>4. \A id \in D : g[id] = d[id] \/ Wrote(E, k, id, g[id])
    BY <1>0, <1>9, <2>1
  <2> HIDE DEF D
  <2> QED
    BY <1>0, <1>1, <2>1, <2>2, <2>3, <2>4 DEF Midway, D
<1>2. CASE y # 0
  <2>1. Fits(E[k], d, fin)
    BY <1>2 DEF Leads
  <2>2. /\ y \in D /\ node \in Nodes /\ NrItems(node) # 0
        /\ node.level = fin[y].level /\ node \in {d[y], fin[y]}
    BY <2>1 DEF Fits
  <2>3. \A x \in LinksOf(node) :
          \/ Hangs(d, x, Below(node.level))
          \/ \E j \in 1 .. k - 1 : E[j].id = x /\ fin[x].level = Below(node.level)
    BY <1>2 DEF Leads, ChildrenFirst
  <2>4. g = [f EXCEPT ![y] = node]
    BY <1>2
  <2>5. \A j \in 1 .. k : j \in 1 .. k - 1 \/ j = k
    OBVIOUS
  <2>6. /\ \A j \in 1 .. k - 1 : j \in 1 .. n
        /\ k \in k .. n
    OBVIOUS
  <2>7. \A j \in 1 .. k - 1 : E[j].id = 0 \/ E[j].id \in D
    BY <2>6 DEF Leads, Fits
  <2>8. \A id \in D : NrItems(d[id]) # 0 => fin[id].level = d[id].level
    BY DEF Leads
  <2>9. 0 \notin D
    BY BPlusTreeAssumption DEF DiskOK
  <2> HIDE DEF D, y, node
  <2>10. g \in [D -> Nodes] /\ g[y] = node /\ \A id \in D : id # y => g[id] = f[id]
    BY <1>0, <2>2, <2>4
  <2>11. \A id \in D : g[id] \in {d[id], fin[id]}
    BY <1>0, <2>2, <2>10
  <2>12. \A id \in D : NrItems(g[id]) # 0 => g[id].level = fin[id].level
    BY <1>0, <2>2, <2>10
  <2>13. \A id \in D : NrItems(f[id]) # 0 => NrItems(g[id]) # 0
    BY <2>2, <2>10
  <2>14. \A id \in D : NrItems(d[id]) # 0 => NrItems(g[id]) # 0
    BY <1>0, <2>13
  <2>15. \A j \in 1 .. k : E[j].id # 0 => NrItems(g[E[j].id]) # 0
    BY <1>0, <2>2, <2>5, <2>7, <2>10, <2>13 DEF y
  <2>16. ASSUME NEW id \in D, NEW x \in LinksOf(g[id])
         PROVE  x \in D /\ NrItems(g[x]) # 0 /\ fin[x].level = Below(g[id].level)
    <3>1. CASE id # y
      <4>1. x \in D /\ NrItems(f[x]) # 0 /\ fin[x].level = Below(f[id].level)
        BY <1>0, <2>10, <3>1
      <4> QED
        BY <2>10, <2>13, <3>1, <4>1
    <3>2. CASE id = y
      <4>1. x \in LinksOf(node) /\ g[id] = node
        BY <2>10, <3>2
      <4>2. CASE Hangs(d, x, Below(node.level))
        <5>1. x \in D /\ NrItems(d[x]) # 0 /\ d[x].level = Below(node.level)
          BY <4>2 DEF Hangs, D
        <5> QED
          BY <2>8, <2>14, <4>1, <5>1
      <4>3. CASE \E j \in 1 .. k - 1 : E[j].id = x /\ fin[x].level = Below(node.level)
        <5>1. PICK j \in 1 .. k - 1 : E[j].id = x /\ fin[x].level = Below(node.level)
          BY <4>3
        <5>2. x # 0
          <6>1. node \in NodeType /\ NodeOK(node)
            BY <2>2 DEF Nodes
          <6>2. node.level # 0 /\ \E i \in 0 .. NrKeys(node) : x = Dc(node, i)
            BY <4>1 DEF LinksOf, IsLeaf, BTREE_LEAF_LEVEL
          <6>3. x \in NodeIds
            BY <6>1, <6>2 DEF NodeOK, DcsOK
          <6> QED
            BY <6>3, BPlusTreeAssumption
        <5>3. x \in D /\ NrItems(f[x]) # 0
          BY <1>0, <2>7, <5>1, <5>2
        <5> QED
          BY <2>13, <4>1, <5>1, <5>3
      <4> QED
        BY <2>3, <4>1, <4>2, <4>3
    <3> QED
      BY <3>1, <3>2
  <2>17. ASSUME NEW id \in D, NEW j \in 1 .. k, Settled(E, n, j, fin, id)
         PROVE  g[id] = fin[id]
    <3>1. CASE id = y
      <4>1. E[k].id = id /\ k \in j .. n
        BY <3>1 DEF y
      <4>2. E[k].node = fin[id]
        BY <2>17, <4>1 DEF Settled
      <4> QED
        BY <2>10, <3>1, <4>2 DEF node
    <3>2. CASE id # y
      <4>1. j # k
        BY <2>17, <3>2 DEF Settled, y
      <4>2. j \in 1 .. k - 1
        BY <2>5, <4>1
      <4> QED
        BY <1>0, <2>10, <2>17, <3>2, <4>2
    <3> QED
      BY <3>1, <3>2
  <2>18. ASSUME NEW id \in D PROVE g[id] = d[id] \/ Wrote(E, k, id, g[id])
    <3>1. CASE id = y
      <4>1. k \in 1 .. k /\ E[k].id = id /\ E[k].node = g[id]
        BY <2>10, <3>1 DEF y, node
      <4> QED
        BY <4>1 DEF Wrote
    <3>2. CASE id # y
      BY <1>0, <1>9, <2>10, <3>2
    <3> QED
      BY <3>1, <3>2
  <2> QED
    BY <2>10, <2>11, <2>12, <2>14, <2>15, <2>16, <2>17, <2>18 DEF Midway, D
<1> QED
  BY <1>1, <1>2

(* After any of the writes the disk is sound.                              *)
LEMMA MidwayIsOK ==
  ASSUME NEW E, NEW n \in Nat, NEW d, DiskOK(d), NEW fin, Leads(E, n, d, fin),
         NEW k \in 0 .. n, NEW g, Midway(E, n, d, fin, k, g)
  PROVE  DiskOK(g) /\ DOMAIN g = DOMAIN d /\ (k = n => g = fin)
<1>1. /\ g \in [DOMAIN d -> Nodes] /\ DOMAIN d \subseteq NodeIds /\ DOMAIN g = DOMAIN d
      /\ \A id \in DOMAIN d : NrItems(g[id]) # 0 => g[id].level = fin[id].level
      /\ \A id \in DOMAIN d : \A x \in LinksOf(g[id]) :
           x \in DOMAIN d /\ NrItems(g[x]) # 0 /\ fin[x].level = Below(g[id].level)
  BY DEF Midway, DiskOK
<1>2. DiskOK(g)
  BY <1>1 DEF DiskOK, Hangs
<1>3. ASSUME k = n PROVE g = fin
  <2>1. \A id \in DOMAIN d : g[id] = fin[id]
    BY <1>3 DEF Midway, Leads
  <2>2. fin \in [DOMAIN d -> Nodes]
    BY DEF Leads
  <2> QED
    BY <1>1, <2>1, <2>2
<1> QED
  BY <1>1, <1>2, <1>3

(* The disk is whole after each write, and fin after the last.             *)
LEMMA FlushLeads ==
  ASSUME NEW m, IsMem(m), DiskOK(m.disk), NEW n \in Nat, n = Len(Elements(m)),
         Elements(m) \in Seq(ElementType), NEW fin, Leads(Elements(m), n, m.disk, fin)
  PROVE  /\ \A k \in 0 .. n :
              /\ Flush(m)[k] = At(m, Flush(m)[k].disk)
              /\ DiskOK(Flush(m)[k].disk) /\ DOMAIN Flush(m)[k].disk = DOMAIN m.disk
              /\ Midway(Elements(m), n, m.disk, fin, k, Flush(m)[k].disk)
         /\ Flush(m)[n] = At(m, fin)
<1> DEFINE E == Elements(m)
           d == m.disk
<1>1. \A k \in 1 .. n : E[k].id = 0 \/ (E[k].id \in DOMAIN d /\ NrItems(E[k].node) # 0)
  BY DEF Leads, Fits
<1>2. d \in [DOMAIN d -> Nodes] /\ d \in [DOMAIN d -> NodeType]
  BY DEF DiskOK, Nodes
<1>3. PICK f \in [0 .. n -> [DOMAIN d -> NodeType]] :
        /\ f[0] = d /\ Rewrites(E, n, f)
        /\ \A k \in 0 .. n : Flush(m)[k] = At(m, f[k])
  BY <1>1, <1>2, FlushIs
<1>4. Leads(E, n, d, fin)
  OBVIOUS
<1> HIDE DEF E
<1> DEFINE P == {k \in Nat : k <= n => Midway(E, n, d, fin, k, f[k])}
<1>5. 0 \in P
  <2>1. \A id \in DOMAIN d : \A x \in LinksOf(d[id]) :
          x \in DOMAIN d /\ NrItems(d[x]) # 0 /\ fin[x].level = Below(d[id].level)
    BY <1>4 DEF DiskOK, Hangs, Leads
  <2>2. \A id \in DOMAIN d : NrItems(d[id]) # 0 => d[id].level = fin[id].level
    BY <1>4 DEF Leads
  <2>3. Midway(E, n, d, fin, 0, d)
    BY <1>2, <2>1, <2>2 DEF Midway
  <2> QED
    BY <1>3, <2>3
<1>6. ASSUME NEW k \in 1 .. n, k - 1 \in P PROVE k \in P
  <2>1. Midway(E, n, d, fin, k - 1, f[k - 1])
    BY <1>6
  <2>2. f[k] = IF E[k].id = 0 THEN f[k - 1] ELSE [f[k - 1] EXCEPT ![E[k].id] = E[k].node]
    BY <1>3 DEF Rewrites
  <2>3. Midway(E, n, d, fin, k, f[k])
    BY <1>4, <2>1, <2>2, MidwayStep
  <2> QED
    BY <2>3
<1> HIDE DEF P
<1>7. 0 .. n \subseteq P
  <2>1. P \in SUBSET Nat
    BY DEF P
  <2> QED
    BY <1>5, <1>6, <2>1, Steps
<1>8. \A k \in 0 .. n : Midway(E, n, d, fin, k, f[k])
  BY <1>7 DEF P
<1>9. \A k \in 0 .. n : /\ DiskOK(f[k]) /\ DOMAIN f[k] = DOMAIN d
                        /\ (k = n => f[k] = fin)
  BY <1>4, <1>8, MidwayIsOK
<1>10. \A k \in 0 .. n : Flush(m)[k].disk = f[k]
  BY <1>3, AtIs
<1> HIDE DEF d
<1>11. \A k \in 0 .. n : Midway(E, n, d, fin, k, Flush(m)[k].disk)
  BY <1>8, <1>10
<1>12. \A k \in 0 .. n : DiskOK(Flush(m)[k].disk) /\ DOMAIN Flush(m)[k].disk = DOMAIN d
  BY <1>9, <1>10
<1>13. \A k \in 0 .. n : Flush(m)[k] = At(m, Flush(m)[k].disk)
  BY <1>3, <1>10
<1>14. Flush(m)[n] = At(m, fin)
  BY <1>3, <1>9
<1> QED
  BY <1>11, <1>12, <1>13, <1>14, Zenon DEF E, d

-----------------------------------------------------------------------------
(* The order in which the nodes in memory are written.                     *)
Ran(s) == {s[i] : i \in 1 .. Len(s)}
IdsOf(S) == {e.id : e \in S}

Joined(T, s, t, both) ==
  /\ both \in Seq(T) /\ Len(both) = Len(s) + Len(t)
  /\ \A i \in 1 .. Len(s) : both[i] = s[i]
  /\ \A i \in 1 .. Len(t) : both[Len(s) + i] = t[i]
  /\ \A k \in 1 .. Len(both) :
       k \in 1 .. Len(s) \/ \E i \in 1 .. Len(t) : k = Len(s) + i
  /\ Ran(both) = Ran(s) \cup Ran(t)

LEMMA Concatenated ==
  ASSUME NEW T, NEW s \in Seq(T), NEW t \in Seq(T)
  PROVE  Joined(T, s, t, s \o t)
<1> DEFINE both == s \o t
<1>1. /\ both \in Seq(T) /\ Len(both) = Len(s) + Len(t)
      /\ Len(s) \in Nat /\ Len(t) \in Nat
  OBVIOUS
<1>2. /\ \A i \in 1 .. Len(s) : both[i] = s[i]
      /\ \A i \in 1 .. Len(t) : both[Len(s) + i] = t[i]
  OBVIOUS
<1> DEFINE a == Len(s)
           b == Len(t)
<1> HIDE DEF a, b
<1>3. a \in Nat /\ b \in Nat /\ Len(both) = a + b
  BY <1>1 DEF a, b
<1>4. ASSUME NEW k \in 1 .. a + b PROVE k \in 1 .. a \/ \E i \in 1 .. b : k = a + i
  <2>1. k \in 1 .. a \/ (k - a \in 1 .. b /\ k = a + (k - a))
    BY <1>3
  <2> QED
    BY <2>1
<1>5. (\A i \in 1 .. a : i \in 1 .. a + b) /\ \A i \in 1 .. b : a + i \in 1 .. a + b
  BY <1>3
<1>6. /\ \A i \in 1 .. a : both[i] = s[i]
      /\ \A i \in 1 .. b : both[a + i] = t[i]
  BY <1>2 DEF a, b
<1>7. {both[k] : k \in 1 .. a + b} = {s[i] : i \in 1 .. a} \cup {t[i] : i \in 1 .. b}
  <2>1. \A k \in 1 .. a + b : \/ \E i \in 1 .. a : both[k] = s[i]
                              \/ \E i \in 1 .. b : both[k] = t[i]
    BY <1>4, <1>6
  <2>2. \A i \in 1 .. a : \E k \in 1 .. a + b : s[i] = both[k]
    BY <1>5, <1>6
  <2>3. \A i \in 1 .. b : \E k \in 1 .. a + b : t[i] = both[k]
    BY <1>5, <1>6
  <2> DEFINE X == {both[k] : k \in 1 .. a + b}
             Y == {s[i] : i \in 1 .. a} \cup {t[i] : i \in 1 .. b}
  <2>4. X \subseteq Y
    BY <2>1
  <2>5. ASSUME NEW y \in Y PROVE y \in X
    <3>1. (\E i \in 1 .. a : y = s[i]) \/ \E i \in 1 .. b : y = t[i]
      OBVIOUS
    <3>2. \E k \in 1 .. a + b : y = both[k]
      BY <2>2, <2>3, <3>1
    <3> QED
      BY <3>2
  <2> HIDE DEF X, Y
  <2>6. X = Y
    BY <2>4, <2>5
  <2> QED
    BY <2>6 DEF X, Y
<1> HIDE DEF both
<1>8. Joined(T, s, t, both)
  BY <1>1, <1>3, <1>4, <1>6, <1>7 DEF a, b, Ran, Joined
<1> QED
  BY <1>8 DEF both

(* What the nodes of s lead to is on the disk d, in W or before them.      *)
Supported(W, d, fin, s) ==
  \A k \in 1 .. Len(s) : s[k].id # 0 =>
    \A x \in LinksOf(s[k].node) :
      \/ Hangs(d, x, Below(s[k].node.level))
      \/ /\ x \in W \/ \E j \in 1 .. k - 1 : s[j].id = x
         /\ fin[x].level = Below(s[k].node.level)

LEMMA SupportedTogether ==
  ASSUME NEW T, NEW s \in Seq(T), NEW t \in Seq(T), NEW both, both = s \o t,
         NEW W, NEW d, NEW fin, Supported(W, d, fin, s),
         Supported(W \cup IdsOf(Ran(s)), d, fin, t)
  PROVE  Supported(W, d, fin, both)
<1>1. /\ both \in Seq(T) /\ Len(both) = Len(s) + Len(t)
      /\ \A i \in 1 .. Len(s) : both[i] = s[i]
      /\ \A i \in 1 .. Len(t) : both[Len(s) + i] = t[i]
      /\ \A k \in 1 .. Len(both) :
           k \in 1 .. Len(s) \/ \E i \in 1 .. Len(t) : k = Len(s) + i
  <2>1. Joined(T, s, t, both)
    BY Concatenated
  <2> QED
    BY <2>1 DEF Joined
<1>2. Len(s) \in Nat /\ Len(t) \in Nat
  OBVIOUS
<1> SUFFICES ASSUME NEW k \in 1 .. Len(both), both[k].id # 0,
                    NEW x \in LinksOf(both[k].node),
                    ~Hangs(d, x, Below(both[k].node.level))
             PROVE  /\ x \in W \/ \E j \in 1 .. k - 1 : both[j].id = x
                    /\ fin[x].level = Below(both[k].node.level)
  BY DEF Supported
<1>3. CASE k \in 1 .. Len(s)
  <2>1. both[k] = s[k]
    BY <1>1, <1>3
  <2>2. /\ x \in W \/ \E j \in 1 .. k - 1 : s[j].id = x
        /\ fin[x].level = Below(s[k].node.level)
    BY <1>3, <2>1 DEF Supported
  <2>3. \A j \in 1 .. k - 1 : j \in 1 .. Len(s)
    BY <1>2, <1>3
  <2> QED
    BY <1>1, <2>1, <2>2, <2>3
<1>4. CASE \E i \in 1 .. Len(t) : k = Len(s) + i
  <2>1. PICK i \in 1 .. Len(t) : k = Len(s) + i
    BY <1>4
  <2>2. both[k] = t[i]
    BY <1>1, <2>1
  <2>3. /\ x \in W \cup IdsOf(Ran(s)) \/ \E j \in 1 .. i - 1 : t[j].id = x
        /\ fin[x].level = Below(t[i].node.level)
    BY <2>2 DEF Supported
  <2>4. CASE x \in IdsOf(Ran(s))
    <3>1. PICK j \in 1 .. Len(s) : s[j].id = x
      BY <2>4 DEF IdsOf, Ran
    <3>2. j \in 1 .. k - 1 /\ both[j] = s[j]
      BY <1>1, <1>2, <2>1
    <3> QED
      BY <2>2, <2>3, <3>1, <3>2
  <2>5. CASE \E j \in 1 .. i - 1 : t[j].id = x
    <3>1. PICK j \in 1 .. i - 1 : t[j].id = x
      BY <2>5
    <3>2. Len(s) + j \in 1 .. k - 1 /\ both[Len(s) + j] = t[j]
      BY <1>1, <1>2, <2>1
    <3> QED
      BY <2>2, <2>3, <3>1, <3>2
  <2> QED
    BY <2>2, <2>3, <2>4, <2>5
<1> QED
  BY <1>1, <1>3, <1>4

Around(m, level) == Ran(m.left[level]) \cup Ran(m.right[level])

(* A memory that, written to its disk, makes it fin.                       *)
Linked(d, fin, e, W) ==
  \A x \in LinksOf(e.node) :
    Hangs(d, x, Below(e.node.level)) \/ (x \in W /\ fin[x].level = Below(e.node.level))

Ready(m, fin) ==
  /\ fin \in [DOMAIN m.disk -> Nodes]
  /\ \A id \in DOMAIN m.disk : NrItems(m.disk[id]) # 0 => fin[id].level = m.disk[id].level
  /\ m.left \in [Levels -> Seq(ElementType)] /\ m.right \in [Levels -> Seq(ElementType)]
  /\ m.pe \in [Levels -> ElementType]
  /\ \A l \in Levels : \A e \in Around(m, l) :
       /\ Fits(e, m.disk, fin)
       /\ Linked(m.disk, fin, e, UNION {IdsOf(Around(m, i)) : i \in 0 .. l - 1})
  /\ \A l \in Levels : m.pe[l].id # 0 =>
       /\ Fits(m.pe[l], m.disk, fin) /\ m.pe[l].node = fin[m.pe[l].id]
       /\ Linked(m.disk, fin, m.pe[l], UNION {IdsOf(Around(m, i)) : i \in Levels})
  /\ \A id \in DOMAIN m.disk :
       \/ fin[id] = m.disk[id]
       \/ \E l \in Levels : m.pe[l].id = id
       \/ /\ \E l \in Levels : id \in IdsOf(Around(m, l))
          /\ \A l \in Levels : \A e \in Around(m, l) : e.id = id => e.node = fin[id]

LEMMA NeighboursAre ==
  ASSUME NEW m, NEW fin, Ready(m, fin), NEW l \in Levels, NEW W,
         \A i \in 0 .. l - 1 : IdsOf(Around(m, i)) \subseteq W
  PROVE  /\ Neighbours(m, l) \in Seq(ElementType)
         /\ Ran(Neighbours(m, l)) = Around(m, l)
         /\ Supported(W, m.disk, fin, Neighbours(m, l))
<1>1. m.left[l] \in Seq(ElementType) /\ m.right[l] \in Seq(ElementType)
  BY DEF Ready
<1> DEFINE nb == Neighbours(m, l)
<1>2. nb = m.left[l] \o m.right[l]
  BY DEF Neighbours
<1> HIDE DEF nb
<1>3. nb \in Seq(ElementType) /\ Ran(nb) = Around(m, l)
  <2>1. Joined(ElementType, m.left[l], m.right[l], nb)
    BY <1>1, <1>2, Concatenated
  <2> QED
    BY <2>1 DEF Joined, Around
<1>4. ASSUME NEW k \in 1 .. Len(nb), NEW x \in LinksOf(nb[k].node),
             ~Hangs(m.disk, x, Below(nb[k].node.level))
      PROVE  x \in W /\ fin[x].level = Below(nb[k].node.level)
  <2>1. nb[k] \in Around(m, l)
    BY <1>3 DEF Ran
  <2>2. Linked(m.disk, fin, nb[k], UNION {IdsOf(Around(m, i)) : i \in 0 .. l - 1})
    BY <2>1 DEF Ready
  <2>3. /\ x \in UNION {IdsOf(Around(m, i)) : i \in 0 .. l - 1}
        /\ fin[x].level = Below(nb[k].node.level)
    BY <1>4, <2>2 DEF Linked
  <2> QED
    BY <2>3
<1>5. Supported(W, m.disk, fin, nb)
  BY <1>4 DEF Supported
<1> QED
  BY <1>3, <1>5 DEF nb

LEMMA AllNeighboursAre ==
  ASSUME NEW m, NEW fin, Ready(m, fin)
  PROVE  /\ AllNeighbours(m) \in Seq(ElementType)
         /\ Ran(AllNeighbours(m)) = UNION {Around(m, l) : l \in Levels}
         /\ Supported({}, m.disk, fin, AllNeighbours(m))
<1> DEFINE n0 == Neighbours(m, 0)
           n1 == Neighbours(m, 1)
           n2 == Neighbours(m, 2)
           n3 == Neighbours(m, 3)
           n4 == Neighbours(m, 4)
           a1 == n0 \o n1
           a2 == a1 \o n2
           a3 == a2 \o n3
           a4 == a3 \o n4
           A(l) == Around(m, l)
           d == m.disk
<1>0. Levels = 0 .. 4
  BY DEF Levels, BPLUS_MAX_HEIGHT
<1>1. AllNeighbours(m) = a4
  BY DEF AllNeighbours
<1>2. \A W : \A l \in 0 .. 4 : (\A i \in 0 .. l - 1 : IdsOf(A(i)) \subseteq W) =>
        /\ Neighbours(m, l) \in Seq(ElementType) /\ Ran(Neighbours(m, l)) = A(l)
        /\ Supported(W, d, fin, Neighbours(m, l))
  BY <1>0, NeighboursAre
<1>3. \A l \in 0 .. 4 :
        Neighbours(m, l) \in Seq(ElementType) /\ Ran(Neighbours(m, l)) = A(l)
  <2> TAKE l \in 0 .. 4
  <2> DEFINE W == UNION {IdsOf(A(i)) : i \in 0 .. l - 1}
  <2>1. \A i \in 0 .. l - 1 : IdsOf(A(i)) \subseteq W
    OBVIOUS
  <2> HIDE DEF W, A
  <2> QED
    BY <1>2, <2>1
<1>4. /\ n0 \in Seq(ElementType) /\ Ran(n0) = A(0)
      /\ n1 \in Seq(ElementType) /\ Ran(n1) = A(1)
      /\ n2 \in Seq(ElementType) /\ Ran(n2) = A(2)
      /\ n3 \in Seq(ElementType) /\ Ran(n3) = A(3)
      /\ n4 \in Seq(ElementType) /\ Ran(n4) = A(4)
  BY <1>3
<1>5. \A W : Supported(W, d, fin, n0)
  BY <1>2
<1>6. \A W : IdsOf(A(0)) \subseteq W => Supported(W, d, fin, n1)
  <2>1. \A i \in 0 .. 1 - 1 : i = 0
    OBVIOUS
  <2> HIDE DEF n1, A
  <2> QED
    BY <1>2, <2>1 DEF n1
<1>7. \A W : IdsOf(A(0)) \subseteq W /\ IdsOf(A(1)) \subseteq W => Supported(W, d, fin, n2)
  <2>1. \A i \in 0 .. 2 - 1 : i = 0 \/ i = 1
    OBVIOUS
  <2> HIDE DEF n2, A
  <2> QED
    BY <1>2, <2>1 DEF n2
<1> HIDE DEF n0, n1, n2, n3, n4
<1>10. a1 \in Seq(ElementType) /\ Ran(a1) = A(0) \cup A(1)
  <2>1. Joined(ElementType, n0, n1, a1)
    BY <1>4, Concatenated
  <2> HIDE DEF A, a1
  <2> QED
    BY <1>4, <2>1 DEF Joined
<1>11. Supported({}, d, fin, a1)
  <2>1. Supported({} \cup IdsOf(Ran(n0)), d, fin, n1)
    BY <1>4, <1>6
  <2> QED
    BY <1>4, <1>5, <2>1, SupportedTogether
<1> HIDE DEF a1
<1>12. a2 \in Seq(ElementType) /\ Ran(a2) = A(0) \cup A(1) \cup A(2)
  <2>1. Joined(ElementType, a1, n2, a2)
    BY <1>4, <1>10, Concatenated
  <2> HIDE DEF A, a2
  <2> QED
    BY <1>4, <1>10, <2>1 DEF Joined
<1>13. Supported({}, d, fin, a2)
  <2>1. Supported({} \cup IdsOf(Ran(a1)), d, fin, n2)
    BY <1>7, <1>10 DEF IdsOf
  <2> QED
    BY <1>4, <1>10, <1>11, <2>1, SupportedTogether
<1> HIDE DEF a2
<1>14. a3 \in Seq(ElementType) /\ Ran(a3) = A(0) \cup A(1) \cup A(2) \cup A(3)
  <2>1. Joined(ElementType, a2, n3, a3)
    BY <1>4, <1>12, Concatenated
  <2> HIDE DEF A, a3
  <2> QED
    BY <1>4, <1>12, <2>1 DEF Joined
<1>15. Supported({}, d, fin, a3)
  <2>1. Supported({} \cup IdsOf(Ran(a2)), d, fin, n3)
    <3> DEFINE W == {} \cup IdsOf(Ran(a2))
    <3>1. ASSUME NEW i \in 0 .. 3 - 1 PROVE IdsOf(A(i)) \subseteq W
      <4>1. i = 0 \/ i = 1 \/ i = 2
        OBVIOUS
      <4>2. A(i) \subseteq Ran(a2)
        BY <1>12, <4>1
      <4> QED
        BY <4>2 DEF IdsOf
    <3>2. 3 \in 0 .. 4
      OBVIOUS
    <3> HIDE DEF W, A
    <3>3. Supported(W, d, fin, Neighbours(m, 3))
      BY <1>2, <3>1, <3>2
    <3> QED
      BY <3>3 DEF W, n3
  <2> QED
    BY <1>4, <1>12, <1>13, <2>1, SupportedTogether
<1> HIDE DEF a3
<1>16. a4 \in Seq(ElementType) /\ Ran(a4) = A(0) \cup A(1) \cup A(2) \cup A(3) \cup A(4)
  <2>1. Joined(ElementType, a3, n4, a4)
    BY <1>4, <1>14, Concatenated
  <2> HIDE DEF A, a4
  <2> QED
    BY <1>4, <1>14, <2>1 DEF Joined
<1>17. Supported({}, d, fin, a4)
  <2>1. Supported({} \cup IdsOf(Ran(a3)), d, fin, n4)
    <3> DEFINE W == {} \cup IdsOf(Ran(a3))
    <3>1. ASSUME NEW i \in 0 .. 4 - 1 PROVE IdsOf(A(i)) \subseteq W
      <4>1. i = 0 \/ i = 1 \/ i = 2 \/ i = 3
        OBVIOUS
      <4>2. A(i) \subseteq Ran(a3)
        BY <1>14, <4>1
      <4> QED
        BY <4>2 DEF IdsOf
    <3>2. 4 \in 0 .. 4
      OBVIOUS
    <3> HIDE DEF W, A
    <3>3. Supported(W, d, fin, Neighbours(m, 4))
      BY <1>2, <3>1, <3>2
    <3> QED
      BY <3>3 DEF W, n4
  <2> QED
    BY <1>4, <1>14, <1>15, <2>1, SupportedTogether
<1>18. \A l \in 0 .. 4 : l = 0 \/ l = 1 \/ l = 2 \/ l = 3 \/ l = 4
  OBVIOUS
<1>19. A(0) \cup A(1) \cup A(2) \cup A(3) \cup A(4) = UNION {A(l) : l \in 0 .. 4}
  <2> HIDE DEF A
  <2>1. {0, 1, 2, 3, 4} = 0 .. 4
    OBVIOUS
  <2> QED
    BY <1>18, <2>1
<1> QED
  BY <1>0, <1>1, <1>16, <1>17, <1>19

(* The neighbours are written before the path, from its leaf up.           *)
PathLast(m) ==
  \E la \in Nat :
    /\ Len(Elements(m)) = la + 5
    /\ \A j \in 1 .. la : \E l \in Levels : Elements(m)[j] \in Around(m, l)
    /\ \A j \in 1 .. la + 5 : j \notin 1 .. la =>
         \E l \in Levels : j = la + (l + 1) /\ Elements(m)[j] = m.pe[l]
    /\ Elements(m)[la + 1] = m.pe[0]

(* A memory that is ready is written children first.                       *)
LEMMA ReadyLeads ==
  ASSUME NEW m, DiskOK(m.disk), NEW fin, Ready(m, fin)
  PROVE  /\ Elements(m) \in Seq(ElementType) /\ Len(Elements(m)) \in Nat
         /\ Leads(Elements(m), Len(Elements(m)), m.disk, fin)
         /\ PathLast(m)
<1> DEFINE a == AllNeighbours(m)
           p == Path(m)
           E == Elements(m)
           d == m.disk
           la == Len(a)
<1>0. Levels = 0 .. 4
  BY DEF Levels, BPLUS_MAX_HEIGHT
<1>1. /\ a \in Seq(ElementType) /\ Ran(a) = UNION {Around(m, l) : l \in Levels}
      /\ Supported({}, d, fin, a)
  BY AllNeighboursAre
<1>2. /\ p \in Seq(ElementType) /\ Len(p) = 5
      /\ \A l \in Levels : l + 1 \in 1 .. 5 /\ p[l + 1] = m.pe[l]
      /\ \A i \in 1 .. 5 : i - 1 \in Levels /\ p[i] = m.pe[i - 1]
  <2>1. m.pe \in [Levels -> ElementType]
    BY DEF Ready
  <2>2. /\ m.pe[0] \in ElementType /\ m.pe[1] \in ElementType /\ m.pe[2] \in ElementType
        /\ m.pe[3] \in ElementType /\ m.pe[4] \in ElementType
    BY <1>0, <2>1
  <2>3. p = <<m.pe[0], m.pe[1], m.pe[2], m.pe[3], m.pe[4]>>
    BY DEF Path
  <2>4. \A l \in 0 .. 4 : l = 0 \/ l = 1 \/ l = 2 \/ l = 3 \/ l = 4
    OBVIOUS
  <2>5. p \in Seq(ElementType) /\ Len(p) = 5
    BY <2>2, <2>3
  <2>6. /\ p[1] = m.pe[0] /\ p[2] = m.pe[1] /\ p[3] = m.pe[2] /\ p[4] = m.pe[3]
        /\ p[5] = m.pe[4]
    BY <2>3
  <2> HIDE DEF p
  <2>7. \A l \in 0 .. 4 : l + 1 \in 1 .. 5 /\ p[l + 1] = m.pe[l]
    BY <2>4, <2>6
  <2>8. \A i \in 1 .. 5 : i - 1 \in 0 .. 4 /\ p[i] = m.pe[i - 1]
    <3>1. \A i \in 1 .. 5 : i = 1 \/ i = 2 \/ i = 3 \/ i = 4 \/ i = 5
      OBVIOUS
    <3> QED
      BY <2>6, <3>1
  <2> QED
    BY <1>0, <2>5, <2>7, <2>8
<1>3. E = a \o p
  BY DEF Elements
<1> HIDE DEF E, a, p
<1>4. Joined(ElementType, a, p, E)
  BY <1>1, <1>2, <1>3, Concatenated
<1>5. /\ E \in Seq(ElementType) /\ Len(E) = la + 5 /\ la \in Nat
      /\ \A i \in 1 .. la : E[i] = a[i]
      /\ \A i \in 1 .. 5 : E[la + i] = p[i]
      /\ \A k \in 1 .. la + 5 : k \in 1 .. la \/ \E i \in 1 .. 5 : k = la + i
  <2>1. la \in Nat
    BY <1>1
  <2> QED
    BY <1>2, <1>4, <2>1 DEF Joined
<1> HIDE DEF la
<1>6. ASSUME NEW k \in 1 .. la
      PROVE  \E l \in Levels : E[k] \in Around(m, l)
  <2>1. E[k] \in Ran(a)
    BY <1>5 DEF Ran, la
  <2> QED
    BY <1>1, <2>1
<1>7. ASSUME NEW k \in 1 .. la + 5, k \notin 1 .. la
      PROVE  \E l \in Levels : k = la + (l + 1) /\ E[k] = m.pe[l]
  <2>1. PICK i \in 1 .. 5 : k = la + i
    BY <1>5, <1>7
  <2>2. i - 1 \in Levels /\ E[k] = m.pe[i - 1] /\ i = (i - 1) + 1
    BY <1>2, <1>5, <2>1
  <2> QED
    BY <2>1, <2>2
<1>8. ASSUME NEW k \in 1 .. la + 5 PROVE E[k].id = 0 \/ Fits(E[k], d, fin)
  <2>1. CASE k \in 1 .. la
    <3>1. PICK l \in Levels : E[k] \in Around(m, l)
      BY <1>6, <2>1
    <3> QED
      BY <3>1 DEF Ready
  <2>2. CASE k \notin 1 .. la
    <3>1. PICK l \in Levels : E[k] = m.pe[l]
      BY <1>7, <2>2
    <3> QED
      BY <3>1 DEF Ready
  <2> QED
    BY <2>1, <2>2
<1>9. Supported({}, d, fin, E)
  <2>1. ASSUME NEW k \in 1 .. Len(p), p[k].id # 0, NEW x \in LinksOf(p[k].node),
               ~Hangs(d, x, Below(p[k].node.level))
        PROVE  x \in IdsOf(Ran(a)) /\ fin[x].level = Below(p[k].node.level)
    <3>1. k - 1 \in Levels /\ p[k] = m.pe[k - 1]
      BY <1>2
    <3>2. Linked(d, fin, p[k], UNION {IdsOf(Around(m, i)) : i \in Levels})
      BY <2>1, <3>1 DEF Ready
    <3>3. /\ x \in UNION {IdsOf(Around(m, i)) : i \in Levels}
          /\ fin[x].level = Below(p[k].node.level)
      BY <2>1, <3>2 DEF Linked
    <3>4. PICK i \in Levels : x \in IdsOf(Around(m, i))
      BY <3>3
    <3>5. Around(m, i) \subseteq Ran(a)
      BY <1>1
    <3> QED
      BY <3>3, <3>4, <3>5 DEF IdsOf
  <2>2. Supported({} \cup IdsOf(Ran(a)), d, fin, p)
    BY <2>1 DEF Supported
  <2> QED
    BY <1>1, <1>2, <1>3, <2>2, SupportedTogether
<1>10. ChildrenFirst(E, la + 5, d, fin)
  BY <1>5, <1>9 DEF ChildrenFirst, Supported
<1>11. ASSUME NEW id \in DOMAIN d, fin[id] # d[id]
       PROVE  \E j \in 1 .. la + 5 : Settled(E, la + 5, j, fin, id)
  <2>0. id # 0
    BY BPlusTreeAssumption DEF DiskOK
  <2>1. ASSUME NEW k \in 1 .. la + 5, k \notin 1 .. la, E[k].id = id
        PROVE  E[k].node = fin[id]
    <3>1. PICK l \in Levels : E[k] = m.pe[l]
      BY <1>7, <2>1
    <3> QED
      BY <2>0, <2>1, <3>1 DEF Ready
  <2>2. CASE \E l \in Levels : m.pe[l].id = id
    <3>1. PICK l \in Levels : m.pe[l].id = id
      BY <2>2
    <3> DEFINE j == la + (l + 1)
    <3>2. j \in 1 .. la + 5 /\ E[j] = m.pe[l] /\ (\A k \in j .. la + 5 : k \notin 1 .. la)
      BY <1>0, <1>2, <1>5
    <3>3. \A k \in j .. la + 5 : k \in 1 .. la + 5
      BY <1>0, <1>5
    <3> HIDE DEF j
    <3>4. Settled(E, la + 5, j, fin, id)
      BY <2>1, <3>1, <3>2, <3>3 DEF Settled
    <3> QED
      BY <3>2, <3>4
  <2>3. CASE /\ \E l \in Levels : id \in IdsOf(Around(m, l))
             /\ \A l \in Levels : \A e \in Around(m, l) : e.id = id => e.node = fin[id]
    <3>1. \E e \in Ran(a) : e.id = id
      BY <1>1, <2>3 DEF IdsOf
    <3>2. PICK j \in 1 .. la : a[j].id = id
      BY <3>1 DEF Ran, la
    <3>3. j \in 1 .. la + 5 /\ E[j].id = id /\ (\A k \in j .. la + 5 : k \in 1 .. la + 5)
      BY <1>5, <3>2
    <3>4. ASSUME NEW k \in j .. la + 5, E[k].id = id PROVE E[k].node = fin[id]
      <4>1. CASE k \in 1 .. la
        BY <1>6, <2>3, <3>4, <4>1
      <4>2. CASE k \notin 1 .. la
        BY <2>1, <3>3, <3>4, <4>2
      <4> QED
        BY <4>1, <4>2
    <3>5. Settled(E, la + 5, j, fin, id)
      BY <3>3, <3>4 DEF Settled
    <3> QED
      BY <3>3, <3>5
  <2> QED
    BY <1>11, <2>2, <2>3 DEF Ready
<1>12. Leads(E, la + 5, d, fin)
  <2>1. /\ fin \in [DOMAIN d -> Nodes]
        /\ \A id \in DOMAIN d : NrItems(d[id]) # 0 => fin[id].level = d[id].level
    BY DEF Ready
  <2> QED
    BY <1>8, <1>10, <1>11, <2>1 DEF Leads
<1>13. PathLast(m)
  <2>1. E[la + 1] = m.pe[0]
    BY <1>0, <1>2, <1>5
  <2>2. Elements(m) = E
    BY DEF E
  <2> HIDE DEF d
  <2> QED
    BY <1>5, <1>6, <1>7, <2>1, <2>2 DEF PathLast
<1> QED
  BY <1>5, <1>12, <1>13 DEF E

(* What flushing such a memory does.                                       *)
LEMMA ReadyFlushed ==
  ASSUME NEW m, IsMem(m), m.ok, DiskOK(m.disk), NEW fin, Ready(m, fin)
  PROVE  /\ \A k \in DOMAIN Elements(m) :
              /\ DiskOK(Flush(m)[k - 1].disk)
              /\ DOMAIN Flush(m)[k - 1].disk = DOMAIN m.disk
              /\ Elements(m)[k].id # 0 => NrItems(Elements(m)[k].node) # 0
         /\ Flushed(m) = At(m, fin) /\ DiskOK(fin) /\ DOMAIN fin = DOMAIN m.disk
<1> DEFINE n == Len(Elements(m))
<1>1. /\ Elements(m) \in Seq(ElementType) /\ n \in Nat
      /\ Leads(Elements(m), n, m.disk, fin)
  BY ReadyLeads
<1>2. DOMAIN Elements(m) = 1 .. n
  BY <1>1
<1> HIDE DEF n
<1>3. /\ \A k \in 0 .. n :
           /\ Flush(m)[k] = At(m, Flush(m)[k].disk)
           /\ DiskOK(Flush(m)[k].disk) /\ DOMAIN Flush(m)[k].disk = DOMAIN m.disk
      /\ Flush(m)[n] = At(m, fin)
  BY <1>1, FlushLeads DEF n
<1>4. Flushed(m) = At(m, fin)
  BY <1>3 DEF Flushed, n
<1>5. At(m, fin).disk = fin
  BY AtIs
<1>6. n \in 0 .. n
  BY <1>1
<1>7. DiskOK(fin) /\ DOMAIN fin = DOMAIN m.disk
  BY <1>3, <1>5, <1>6
<1>8. \A k \in 1 .. n : k - 1 \in 0 .. n
  BY <1>1
<1>9. \A k \in 1 .. n : Elements(m)[k].id # 0 => NrItems(Elements(m)[k].node) # 0
  BY <1>1 DEF Leads, Fits
<1> QED
  BY <1>2, <1>3, <1>4, <1>7, <1>8, <1>9

-----------------------------------------------------------------------------
(* bin_search, pass by pass.                                               *)
LastOf(node) ==
  IF IsLeaf(node) THEN NrItems(node) - 1 ELSE NR_KEYS(node.nr_items - 1)

BinPass(node, key, w) ==
  LET At1(mid) == IF IsLeaf(node) THEN node.items[mid + 1] ELSE Key(node, mid)
      mid == (w.position + w.end) \div 2
  IN  IF w.found \/ w.position > w.end THEN w
      ELSE IF At1(mid) > key THEN [w EXCEPT !.end = mid - 1]
      ELSE IF At1(mid) < key THEN [w EXCEPT !.position = mid + 1]
      ELSE [w EXCEPT !.found = TRUE,
                     !.position = IF IsLeaf(node) THEN mid ELSE mid + 1]

BinRun(node, key, f) ==
  f = [n \in 0 .. LastOf(node) + 1 |->
         IF n = 0 THEN [position |-> 0, end |-> LastOf(node), found |-> FALSE]
                  ELSE BinPass(node, key, f[n - 1])]

(* The loop of bin_search as a run of passes, each of which stays in the   *)
(* window.                                                                 *)
LEMMA BinSearchIs ==
  ASSUME NEW node, NEW key
  PROVE  BinSearch(node, key) = (CHOOSE f : BinRun(node, key, f))[LastOf(node) + 1]
BY Zenon DEF BinSearch, BinRun, LastOf, BinPass

Windows(last) ==
  {w \in [position : Int, end : Int, found : BOOLEAN] :
     /\ 0 <= w.position /\ w.position <= last + 1 /\ w.end <= last
     /\ ~w.found => w.position <= w.end + 1}

WithEnd(w, v) == [w EXCEPT !.end = v]
WithPosition(w, v) == [w EXCEPT !.position = v]
WithFound(w, v) == [w EXCEPT !.found = TRUE, !.position = v]

LEMMA BinPassIn ==
  ASSUME NEW node, NEW key, NEW last \in Int, NEW w \in Windows(last)
  PROVE  BinPass(node, key, w) \in Windows(last)
<1> DEFINE p == w.position
           e == w.end
           mid == (p + e) \div 2
<1>1. /\ w = [position |-> p, end |-> e, found |-> w.found]
      /\ p \in Int /\ e \in Int /\ w.found \in BOOLEAN
      /\ 0 <= p /\ p <= last + 1 /\ e <= last
      /\ ~w.found => p <= e + 1
  BY DEF Windows
<1>2. BinPass(node, key, w) \in {w, WithEnd(w, mid - 1), WithPosition(w, mid + 1),
                                 WithFound(w, mid), WithFound(w, mid + 1)}
  BY DEF BinPass, WithEnd, WithPosition, WithFound
<1>3. CASE w.found \/ p > e
  BY <1>3 DEF BinPass
<1>4. CASE ~(w.found \/ p > e)
  <2>1. mid \in Int /\ p <= mid /\ mid <= e
    BY <1>1, <1>4
  <2> HIDE DEF mid, p, e
  <2> DEFINE T == [position : Int, end : Int, found : BOOLEAN]
  <2>2. \A v \in Int : LET u == WithEnd(w, v)
                      IN  u \in T /\ u.position = w.position /\ u.end = v /\ u.found = w.found
    BY DEF Windows, WithEnd
  <2>3. \A v \in Int : LET u == WithPosition(w, v)
                      IN  u \in T /\ u.position = v /\ u.end = w.end /\ u.found = w.found
    BY DEF Windows, WithPosition
  <2>4. \A v \in Int : LET u == WithFound(w, v)
                      IN  u \in T /\ u.position = v /\ u.end = w.end /\ u.found = TRUE
    BY DEF Windows, WithFound
  <2>5. p = w.position /\ e = w.end /\ mid - 1 \in Int /\ mid + 1 \in Int
    BY <2>1 DEF p, e
  <2>6. ASSUME NEW z \in T, 0 <= z.position, z.position <= last + 1, z.end <= last,
               z.position <= z.end + 1
        PROVE  z \in Windows(last)
    BY <2>6 DEF Windows
  <2> HIDE DEF T
  <2>11. w.position \in Int /\ w.end \in Int /\ 0 <= w.position /\ w.position <= mid
         /\ mid <= w.end /\ w.end <= last /\ w.position <= last + 1
    BY <1>1, <2>1, <2>5
  <2>7. WithEnd(w, mid - 1) \in Windows(last)
    <3> DEFINE u == WithEnd(w, mid - 1)
    <3>1. u \in T /\ u.position = w.position /\ u.end = mid - 1
      BY <2>2, <2>5
    <3> HIDE DEF u
    <3>2. 0 <= u.position /\ u.position <= last + 1 /\ u.end <= last /\ u.position <= u.end + 1
      BY <2>1, <2>11, <3>1
    <3>3. u \in Windows(last)
      BY <2>6, <3>1, <3>2
    <3> QED
      BY <3>3 DEF u
  <2>8. WithPosition(w, mid + 1) \in Windows(last)
    <3> DEFINE u == WithPosition(w, mid + 1)
    <3>1. u \in T /\ u.position = mid + 1 /\ u.end = w.end
      BY <2>3, <2>5
    <3> HIDE DEF u
    <3>2. 0 <= u.position /\ u.position <= last + 1 /\ u.end <= last /\ u.position <= u.end + 1
      BY <2>1, <2>11, <3>1
    <3>3. u \in Windows(last)
      BY <2>6, <3>1, <3>2
    <3> QED
      BY <3>3 DEF u
  <2>9. ASSUME NEW v \in {mid, mid + 1} PROVE WithFound(w, v) \in Windows(last)
    <3> DEFINE u == WithFound(w, v)
    <3>1. u \in T /\ u.position = v /\ u.end = w.end /\ u.found = TRUE
      BY <2>1, <2>4, <2>5
    <3> HIDE DEF u
    <3>2. 0 <= u.position /\ u.position <= last + 1 /\ u.end <= last /\ u.position <= u.end + 1
      BY <2>1, <2>11, <3>1
    <3>3. u \in Windows(last)
      BY <2>6, <3>1, <3>2
    <3> QED
      BY <3>3 DEF u
  <2> QED
    BY <1>2, <2>7, <2>8, <2>9
<1> QED
  BY <1>3, <1>4

StartWindow(n) == [position |-> 0, end |-> n - 1, found |-> FALSE]

(* The passes of bin_search in a node of n places.                         *)
BinRuns(node, key, n) ==
  \E r \in [0 .. n -> Windows(n - 1)] :
    /\ r[0] = StartWindow(n) /\ BinSearch(node, key) = r[n]
    /\ \A k \in 1 .. n : r[k] = BinPass(node, key, r[k - 1])

LEMMA BinRunIs ==
  ASSUME NEW node, NEW key, NEW n \in Nat, LastOf(node) = n - 1
  PROVE  BinRuns(node, key, n)
<1> DEFINE S == Windows(n - 1)
           a == StartWindow(n)
           F == [p \in (1 .. n) \X S |-> BinPass(node, key, p[2])]
           Is(f) == BinRun(node, key, f)
<1>0. \A f : Is(f) <=> f = [k \in 0 .. n |-> IF k = 0 THEN a ELSE BinPass(node, key, f[k - 1])]
  <2>1. LastOf(node) + 1 = n
    OBVIOUS
  <2> QED
    BY <2>1 DEF BinRun, StartWindow
<1>1. \A w \in S : BinPass(node, key, w) \in S
  BY BinPassIn
<1>2. a \in S
  BY DEF Windows, StartWindow
<1> HIDE DEF S, a
<1>3. F \in [(1 .. n) \X S -> S]
  BY <1>1
<1>4. \A i \in 1 .. n, w \in S : F[<<i, w>>] = BinPass(node, key, w)
  OBVIOUS
<1> HIDE DEF F
<1>5. PICK f \in [0 .. n -> S] : f[0] = a /\ \A i \in 1 .. n : f[i] = F[<<i, f[i - 1]>>]
  <2>1. HasRun(S, n, a, F)
    BY <1>2, <1>3, RecursionExists
  <2> QED
    BY <2>1 DEF HasRun
<1>6. Is(f)
  <2> DEFINE g == [k \in 0 .. n |-> IF k = 0 THEN a ELSE BinPass(node, key, f[k - 1])]
  <2>1. ASSUME NEW k \in 0 .. n PROVE f[k] = g[k]
    <3>1. CASE k = 0
      BY <1>5, <3>1
    <3>2. CASE k # 0
      <4>1. k \in 1 .. n /\ k - 1 \in 0 .. n
        BY <3>2
      <4>2. f[k - 1] \in S
        BY <4>1
      <4> QED
        BY <1>4, <1>5, <3>2, <4>1, <4>2
    <3> QED
      BY <3>1, <3>2
  <2>2. f \in [0 .. n -> S] /\ g = [k \in 0 .. n |-> g[k]]
    OBVIOUS
  <2> HIDE DEF g, Is
  <2>3. f = g
    BY <2>1, <2>2
  <2> QED
    BY <1>0, <2>3, Zenon DEF g
<1> DEFINE r == CHOOSE f1 : Is(f1)
<1>7. Is(r)
  BY <1>6, Zenon
<1>8. \A k \in 0 .. n : r[k] = IF k = 0 THEN a ELSE BinPass(node, key, r[k - 1])
  BY <1>0, <1>7, Zenon
<1>9. BinSearch(node, key) = r[n]
  <2>1. LastOf(node) + 1 = n
    OBVIOUS
  <2> QED
    BY <2>1, BinSearchIs, Zenon
<1>14. r = [k \in 0 .. n |-> r[k]]
  <2> DEFINE g == [k \in 0 .. n |-> IF k = 0 THEN a ELSE BinPass(node, key, r[k - 1])]
  <2>1. r = g
    BY <1>0, <1>7, Zenon
  <2>2. g = [k \in 0 .. n |-> g[k]]
    OBVIOUS
  <2> HIDE DEF g, r, Is
  <2> QED
    BY <2>1, <2>2
<1> HIDE DEF Is, r
<1> DEFINE P == {k \in Nat : k <= n => r[k] \in S}
<1>10. 0 \in P
  BY <1>2, <1>8
<1>11. ASSUME NEW k \in 1 .. n, k - 1 \in P PROVE k \in P
  <2>1. r[k - 1] \in S /\ k \in 0 .. n /\ k # 0
    BY <1>11
  <2> QED
    BY <1>1, <1>8, <2>1
<1> HIDE DEF P
<1>12. 0 .. n \subseteq P
  <2>1. P \in SUBSET Nat
    BY DEF P
  <2> QED
    BY <1>10, <1>11, <2>1, Steps
<1>13. r \in [0 .. n -> S]
  BY <1>12, <1>14 DEF P
<1>15. r[0] = a /\ \A k \in 1 .. n : r[k] = BinPass(node, key, r[k - 1])
  BY <1>8
<1> QED
  BY <1>9, <1>13, <1>15 DEF S, a, BinRuns

(* bin_search stays inside the node.                                       *)
LEMMA BinSearchIn ==
  ASSUME NEW node, NEW key, NEW n \in Nat, LastOf(node) = n - 1
  PROVE  BinSearch(node, key).position \in 0 .. n
<1>1. BinSearch(node, key) \in Windows(n - 1)
  BY BinRunIs DEF BinRuns
<1> QED
  BY <1>1 DEF Windows

(* What bin_search compares the key to, in ascending order in a sorted     *)
(* node; and how far it has got.                                           *)
Place(node, i) == IF IsLeaf(node) THEN node.items[i + 1] ELSE Key(node, i)

PlacesAscend(node, n) ==
  /\ \A i \in 0 .. n - 1 : Place(node, i) \in Int
  /\ \A i, j \in 0 .. n - 1 : i < j => Place(node, i) < Place(node, j)

Narrowed(node, key, last, w) ==
  /\ ~w.found => /\ \A i \in 0 .. w.position - 1 : Place(node, i) < key
                 /\ \A i \in w.end + 1 .. last : key < Place(node, i)
  /\ w.found => \E i \in 0 .. last : /\ Place(node, i) = key
                                     /\ w.position = IF IsLeaf(node) THEN i ELSE i + 1

PassesLeft(w, c) == w.found \/ w.end - w.position < c

LEMMA BinPassNarrows ==
  ASSUME NEW node, NEW key \in Int, NEW last \in Int, PlacesAscend(node, last + 1),
         NEW w \in Windows(last), Narrowed(node, key, last, w),
         NEW c \in Nat, PassesLeft(w, c + 1)
  PROVE  /\ Narrowed(node, key, last, BinPass(node, key, w))
         /\ PassesLeft(BinPass(node, key, w), c)
<1> DEFINE p == w.position
           e == w.end
           mid == (p + e) \div 2
           T == [position : Int, end : Int, found : BOOLEAN]
<1>1. /\ w \in T /\ p \in Int /\ e \in Int /\ w.found \in BOOLEAN
      /\ 0 <= p /\ p <= last + 1 /\ e <= last
      /\ ~w.found => p <= e + 1
  BY DEF Windows
<1>2. \A i \in 0 .. last : Place(node, i) \in Int
  BY DEF PlacesAscend
<1>3. \A i, j \in 0 .. last : i < j => Place(node, i) < Place(node, j)
  BY DEF PlacesAscend
<1>4. CASE w.found \/ p > e
  <2>1. BinPass(node, key, w) = w
    BY <1>4 DEF BinPass
  <2> QED
    BY <1>1, <1>4, <2>1 DEF PassesLeft
<1>5. CASE ~(w.found \/ p > e)
  <2>1. mid \in Int /\ p <= mid /\ mid <= e /\ mid \in 0 .. last
    BY <1>1, <1>5
  <2>2. BinPass(node, key, w) =
          IF Place(node, mid) > key THEN WithEnd(w, mid - 1)
          ELSE IF Place(node, mid) < key THEN WithPosition(w, mid + 1)
          ELSE WithFound(w, IF IsLeaf(node) THEN mid ELSE mid + 1)
    BY <1>5 DEF BinPass, Place, WithEnd, WithPosition, WithFound
  <2>3. ~w.found /\ (\A i \in 0 .. w.position - 1 : Place(node, i) < key)
        /\ (\A i \in w.end + 1 .. last : key < Place(node, i))
    BY <1>5 DEF Narrowed
  <2>4. w.end - w.position < c + 1 /\ p = w.position /\ e = w.end
    BY <1>5 DEF PassesLeft
  <2> HIDE DEF mid, p, e
  <2>5. CASE Place(node, mid) > key
    <3> DEFINE u == WithEnd(w, mid - 1)
    <3>1. u.position = p /\ u.end = mid - 1 /\ u.found = FALSE
      BY <1>1, <2>3, <2>4 DEF WithEnd
    <3>2. BinPass(node, key, w) = u
      BY <2>2, <2>5
    <3> HIDE DEF u
    <3>3. ASSUME NEW i \in u.end + 1 .. last PROVE key < Place(node, i)
      <4>1. i \in mid .. last
        BY <2>1, <3>1
      <4>2. i \in 0 .. last
        BY <2>1, <4>1
      <4>3. i = mid \/ Place(node, mid) < Place(node, i)
        BY <1>3, <2>1, <4>1, <4>2
      <4> QED
        BY <1>2, <2>1, <2>5, <4>2, <4>3
    <3>4. \A i \in 0 .. u.position - 1 : Place(node, i) < key
      BY <2>3, <2>4, <3>1
    <3>5. u.end - u.position < c
      BY <1>1, <2>1, <2>4, <3>1
    <3> QED
      BY <3>1, <3>2, <3>3, <3>4, <3>5 DEF Narrowed, PassesLeft
  <2>6. CASE Place(node, mid) < key
    <3> DEFINE u == WithPosition(w, mid + 1)
    <3>1. u.position = mid + 1 /\ u.end = e /\ u.found = FALSE
      BY <1>1, <2>3, <2>4 DEF WithPosition
    <3>2. BinPass(node, key, w) = u
      <4>1. ~(Place(node, mid) > key)
        BY <1>2, <2>1, <2>6
      <4> QED
        BY <2>2, <2>6, <4>1
    <3> HIDE DEF u
    <3>3. ASSUME NEW i \in 0 .. u.position - 1 PROVE Place(node, i) < key
      <4>1. i \in 0 .. mid
        BY <2>1, <3>1
      <4>2. i \in 0 .. last
        BY <2>1, <4>1
      <4>3. i = mid \/ Place(node, i) < Place(node, mid)
        BY <1>3, <2>1, <4>1, <4>2
      <4> QED
        BY <1>2, <2>1, <2>6, <4>2, <4>3
    <3>4. \A i \in u.end + 1 .. last : key < Place(node, i)
      BY <2>3, <2>4, <3>1
    <3>5. u.end - u.position < c
      BY <1>1, <2>1, <2>4, <3>1
    <3> QED
      BY <3>1, <3>2, <3>3, <3>4, <3>5 DEF Narrowed, PassesLeft
  <2>7. CASE ~(Place(node, mid) > key) /\ ~(Place(node, mid) < key)
    <3> DEFINE v == IF IsLeaf(node) THEN mid ELSE mid + 1
               u == WithFound(w, v)
    <3>1. u.position = v /\ u.found = TRUE
      BY <1>1 DEF WithFound
    <3>2. BinPass(node, key, w) = u
      BY <2>2, <2>7
    <3>3. Place(node, mid) = key
      BY <1>2, <2>1, <2>7
    <3> HIDE DEF u
    <3> QED
      BY <2>1, <3>1, <3>2, <3>3 DEF Narrowed, PassesLeft
  <2> QED
    BY <2>5, <2>6, <2>7
<1> QED
  BY <1>4, <1>5

(* bin_search in a sorted node: it finds the key, or the position that the *)
(* key belongs at.                                                         *)
LEMMA BinSearchAims ==
  ASSUME NEW node, NEW key \in Int, NEW n \in Nat, LastOf(node) = n - 1, PlacesAscend(node, n)
  PROVE  LET hit == BinSearch(node, key)
         IN  /\ hit.found \in BOOLEAN /\ hit.position \in 0 .. n
             /\ hit.found => \E i \in 0 .. n - 1 :
                  Place(node, i) = key /\ hit.position = IF IsLeaf(node) THEN i ELSE i + 1
             /\ ~hit.found => /\ \A i \in 0 .. hit.position - 1 : Place(node, i) < key
                              /\ \A i \in hit.position .. n - 1 : key < Place(node, i)
<1> DEFINE last == n - 1
           hit == BinSearch(node, key)
<1>1. PICK r \in [0 .. n -> Windows(last)] :
        /\ r[0] = StartWindow(n) /\ hit = r[n]
        /\ \A k \in 1 .. n : r[k] = BinPass(node, key, r[k - 1])
  <2>1. BinRuns(node, key, n)
    BY BinRunIs
  <2> QED
    BY <2>1 DEF BinRuns
<1>2. last \in Int /\ last + 1 = n /\ PlacesAscend(node, last + 1)
  OBVIOUS
<1> HIDE DEF last, hit
<1> DEFINE P == {k \in Nat : k <= n => /\ Narrowed(node, key, last, r[k])
                                       /\ PassesLeft(r[k], n - k)}
<1>3. 0 \in P
  <2>1. /\ r[0].position = 0 /\ r[0].end = last /\ r[0].found = FALSE
    BY <1>1 DEF StartWindow, last
  <2>2. Narrowed(node, key, last, r[0])
    BY <1>2, <2>1 DEF Narrowed
  <2>3. PassesLeft(r[0], n - 0)
    BY <1>2, <2>1 DEF PassesLeft
  <2> QED
    BY <2>2, <2>3
<1>4. ASSUME NEW k \in 1 .. n, k - 1 \in P PROVE k \in P
  <2>1. k - 1 \in 0 .. n /\ r[k - 1] \in Windows(last) /\ r[k] = BinPass(node, key, r[k - 1])
    BY <1>1
  <2>2. Narrowed(node, key, last, r[k - 1]) /\ PassesLeft(r[k - 1], n - (k - 1))
    BY <1>4
  <2>3. n - (k - 1) = (n - k) + 1 /\ n - k \in Nat
    OBVIOUS
  <2>4. PassesLeft(r[k - 1], (n - k) + 1)
    BY <2>2, <2>3, Zenon
  <2>5. Narrowed(node, key, last, r[k]) /\ PassesLeft(r[k], n - k)
    BY <1>2, <2>1, <2>2, <2>3, <2>4, BinPassNarrows
  <2> QED
    BY <2>5
<1> HIDE DEF P
<1>5. 0 .. n \subseteq P
  <2>1. P \in SUBSET Nat
    BY DEF P
  <2> QED
    BY <1>3, <1>4, <2>1, Steps
<1>6. Narrowed(node, key, last, hit) /\ PassesLeft(hit, n - n) /\ hit \in Windows(last)
  <2>1. n \in 0 .. n
    OBVIOUS
  <2> QED
    BY <1>1, <1>5, <2>1 DEF P
<1>7. /\ hit.found \in BOOLEAN /\ hit.position \in 0 .. n /\ hit.end \in Int
      /\ ~hit.found => hit.position <= hit.end + 1
  BY <1>2, <1>6 DEF Windows
<1>8. ~hit.found => hit.position = hit.end + 1
  BY <1>6, <1>7 DEF PassesLeft
<1>9. ~hit.found => /\ \A i \in 0 .. hit.position - 1 : Place(node, i) < key
                    /\ \A i \in hit.position .. last : key < Place(node, i)
  BY <1>6, <1>8 DEF Narrowed
<1>10. hit.found => \E i \in 0 .. last :
                  Place(node, i) = key /\ hit.position = IF IsLeaf(node) THEN i ELSE i + 1
  BY <1>6 DEF Narrowed
<1> QED
  BY <1>7, <1>9, <1>10 DEF hit, last

-----------------------------------------------------------------------------
(* What is in order: a leaf, the halves of one, a parent and its leaves.   *)

(* A leaf, or the keys of an internal node, in ascending order; and the    *)
(* keys that belong below a disk child.                                    *)
Ascends(items) == \A i, j \in 1 .. Len(items) : i < j => items[i] < items[j]
KeysAscend(node) == \A i, j \in 0 .. NrKeys(node) - 1 : i < j => Key(node, i) < Key(node, j)

Within(node, i, key) ==
  /\ i # 0 => Key(node, i - 1) <= key
  /\ i # NrKeys(node) => key < Key(node, i)

(* A new item keeps the order of a leaf.                                   *)
LEMMA PunchedAscends ==
  ASSUME NEW items \in Seq(Keys), Ascends(items), NEW item \in Keys,
         \A i \in 1 .. Len(items) : items[i] # item
  PROVE  Ascends(Punched(items, item))
<1> DEFINE n == Len(items)
           S == {i \in 1 .. n : item < items[i]}
           place == FirstOr(S, n + 1)
           p == Punched(items, item)
<1>1. n \in Nat /\ \A i \in 1 .. n : items[i] \in Keys
  BY ElementOfSeq
<1>0. Keys \subseteq Int /\ item \in Int
  BY BPlusTreeAssumption
<1>2. \A i \in 1 .. n : items[i] \in Int /\ item \in Int
  BY <1>0, <1>1
<1>3. \A i, j \in 1 .. n : i < j => items[i] < items[j]
  BY DEF Ascends
<1>4. \A i \in 1 .. n : items[i] # item
  OBVIOUS
<1>5. S \in SUBSET Nat /\ \A i : i \in S <=> i \in 1 .. n /\ item < items[i]
  BY <1>1
<1>6. (S = {} => place = n + 1) /\ (S # {} => place \in S)
  BY <1>5, FirstOrIn
<1>7. S # {} => \A i \in S : place <= i
  BY <1>5, LeastNatural DEF FirstOr
<1>8. p = [i \in 1 .. n + 1 |-> IF i < place THEN items[i]
                               ELSE IF i = place THEN item ELSE items[i - 1]]
  BY DEF Punched
<1> HIDE DEF n, S, place, p
<1>9. place \in 1 .. n + 1
  <2>1. CASE S = {}
    BY <1>1, <1>6, <2>1
  <2>2. CASE S # {}
    BY <1>1, <1>5, <1>6, <2>2
  <2> QED
    BY <2>1, <2>2
<1>10. ASSUME NEW i \in 1 .. n, i < place PROVE items[i] < item
  <2>1. i \notin S
    <3>1. i \in S => place <= i
      BY <1>7
    <3> QED
      BY <1>1, <1>9, <1>10, <3>1
  <2> QED
    BY <1>2, <1>4, <1>5, <2>1
<1>11. ASSUME NEW i \in 1 .. n, place <= i PROVE item < items[i]
  <2>1. place \in 1 .. n /\ item < items[place]
    <3>1. S # {}
      BY <1>1, <1>6, <1>11
    <3> QED
      BY <1>5, <1>6, <3>1
  <2>2. place = i \/ items[place] < items[i]
    BY <1>3, <1>11, <2>1
  <2> QED
    BY <1>2, <2>1, <2>2
<1>12. Len(p) = n + 1
  <2>1. n + 1 \in Nat
    BY <1>1
  <2> QED
    BY <1>8, <2>1
<1>13. ASSUME NEW i \in 1 .. n + 1, NEW j \in 1 .. n + 1, i < j PROVE p[i] < p[j]
  <2>1. CASE j < place
    <3>1. p[i] = items[i] /\ p[j] = items[j] /\ i \in 1 .. n /\ j \in 1 .. n
      BY <1>1, <1>8, <1>9, <1>13, <2>1
    <3> QED
      BY <1>3, <1>13, <3>1
  <2>2. CASE j = place
    <3>1. p[i] = items[i] /\ p[j] = item /\ i \in 1 .. n /\ i < place
      BY <1>1, <1>8, <1>9, <1>13, <2>2
    <3> QED
      BY <1>10, <3>1
  <2>3. CASE j > place
    <3>1. p[j] = items[j - 1] /\ j - 1 \in 1 .. n /\ place <= j - 1
      BY <1>1, <1>8, <1>9, <2>3
    <3>2. CASE i < place
      <4>1. p[i] = items[i] /\ i \in 1 .. n /\ i < j - 1
        BY <1>1, <1>8, <1>9, <3>1, <3>2
      <4> QED
        BY <1>3, <3>1, <4>1
    <3>3. CASE i = place
      <4>1. p[i] = item
        BY <1>8, <3>3
      <4> QED
        BY <1>11, <3>1, <4>1
    <3>4. CASE i > place
      <4>1. p[i] = items[i - 1] /\ i - 1 \in 1 .. n /\ i - 1 < j - 1
        BY <1>1, <1>8, <1>9, <1>13, <3>4
      <4> QED
        BY <1>3, <3>1, <4>1
    <3> QED
      BY <1>9, <3>2, <3>3, <3>4
  <2> QED
    BY <1>9, <2>1, <2>2, <2>3
<1>14. Ascends(p)
  BY <1>12, <1>13 DEF Ascends
<1> QED
  BY <1>14 DEF p

(* The halves of a sorted leaf, and a new item: both in order, and one     *)
(* before the other.                                                       *)
Parts(halves) ==
  /\ Ascends(halves.leaf) /\ Ascends(halves.new)
  /\ \A i \in 1 .. Len(halves.leaf), j \in 1 .. Len(halves.new) : halves.leaf[i] < halves.new[j]

LEMMA HalvesPart ==
  ASSUME NEW items \in Seq(Keys), Len(items) = MAX_ITEMS, Ascends(items), NEW item \in Keys,
         \A i \in 1 .. Len(items) : items[i] # item,
         NEW halves, halves = AdjustedLeaf(items, item)
  PROVE  Parts(halves)
<1> DEFINE h == MAX_ITEMS \div 2
           kept == SubSeq(items, 1, Len(items) - MAX_ITEMS \div 2)
           flown == SubSeq(items, Len(kept) + 1, Len(items))
<1>1. h \in Nat \ {0} /\ MAX_ITEMS = 2 * h
  BY BPlusNodeAssumption
<1>2. \A i \in 1 .. 2 * h : items[i] \in Keys
  BY <1>1, ElementOfSeq
<1>3. \A i, j \in 1 .. 2 * h : i < j => items[i] < items[j]
  BY <1>1 DEF Ascends
<1>0. Keys \subseteq Int /\ item \in Int
  BY BPlusTreeAssumption
<1>4. \A i \in 1 .. 2 * h : items[i] # item /\ items[i] \in Int /\ item \in Int
  BY <1>0, <1>1, <1>2
<1>5. kept \in Seq(Keys) /\ Len(kept) = h /\ \A i \in 1 .. h : kept[i] = items[i]
  <2>1. kept = SubSeq(items, 1, h)
    <3>1. Len(items) - MAX_ITEMS \div 2 = h
      BY <1>1
    <3> QED
      BY <3>1
  <2>2. \A i \in 1 .. h : items[i] \in Keys
    BY <1>1, <1>2
  <2> HIDE DEF h
  <2>3. /\ SubSeq(items, 1, h) \in Seq(Keys)
        /\ Len(SubSeq(items, 1, h)) = IF 1 <= h THEN h - 1 + 1 ELSE 0
        /\ \A i \in 1 .. h - 1 + 1 : SubSeq(items, 1, h)[i] = items[1 + i - 1]
    BY <1>1, <2>2, SubSeqProperties
  <2> HIDE DEF kept
  <2> QED
    BY <1>1, <2>1, <2>3
<1>6. flown \in Seq(Keys) /\ Len(flown) = h /\ \A i \in 1 .. h : flown[i] = items[h + i]
  <2>1. flown = SubSeq(items, h + 1, 2 * h)
    BY <1>1, <1>5
  <2>2. \A i \in h + 1 .. 2 * h : items[i] \in Keys
    BY <1>1, <1>2
  <2> HIDE DEF h
  <2> DEFINE b == 2 * h
             a == h + 1
  <2>3. a \in Nat /\ b \in Nat /\ \A i \in a .. b : items[i] \in Keys
    BY <1>1, <2>2
  <2> HIDE DEF a, b
  <2>4. /\ SubSeq(items, a, b) \in Seq(Keys)
        /\ Len(SubSeq(items, a, b)) = IF a <= b THEN b - a + 1 ELSE 0
        /\ \A i \in 1 .. b - a + 1 : SubSeq(items, a, b)[i] = items[a + i - 1]
    BY <2>3, SubSeqProperties
  <2> HIDE DEF flown
  <2>5. a = h + 1 /\ b = 2 * h
    BY DEF a, b
  <2> QED
    BY <1>1, <2>1, <2>4, <2>5
<1>7. halves = IF kept[Len(kept)] > item THEN [leaf |-> Punched(kept, item), new |-> flown]
               ELSE [leaf |-> kept, new |-> Punched(flown, item)]
  BY DEF AdjustedLeaf
<1> HIDE DEF h, kept, flown
<1>8. /\ Len(Punched(kept, item)) = h + 1
      /\ {Punched(kept, item)[i] : i \in 1 .. h + 1} = {kept[i] : i \in 1 .. h} \cup {item}
  BY <1>5, PunchedIn
<1>9. /\ Len(Punched(flown, item)) = h + 1
      /\ {Punched(flown, item)[i] : i \in 1 .. h + 1} = {flown[i] : i \in 1 .. h} \cup {item}
  BY <1>6, PunchedIn
<1>10. \A i \in 1 .. h : i \in 1 .. 2 * h /\ h + i \in 1 .. 2 * h
  BY <1>1
<1>11. Ascends(kept) /\ \A i \in 1 .. h : kept[i] # item
  BY <1>3, <1>4, <1>5, <1>10 DEF Ascends
<1>12. Ascends(flown) /\ \A i \in 1 .. h : flown[i] # item
  <2>1. \A i, j \in 1 .. h : i < j => h + i < h + j
    BY <1>1
  <2> QED
    BY <1>3, <1>4, <1>6, <1>10, <2>1 DEF Ascends
<1>13. \A i, j \in 1 .. h : kept[i] < flown[j]
  <2>1. \A i, j \in 1 .. h : i < h + j
    BY <1>1
  <2> QED
    BY <1>3, <1>5, <1>6, <1>10, <2>1
<1>14. h \in 1 .. h
  BY <1>1
<1>15. \A i \in 1 .. h : kept[i] \in Int /\ flown[i] \in Int
  BY <1>4, <1>5, <1>6, <1>10
<1>16. CASE kept[h] > item
  <2>1. halves.leaf = Punched(kept, item) /\ halves.new = flown
    BY <1>5, <1>7, <1>16
  <2>2. Ascends(halves.leaf) /\ Ascends(halves.new)
    BY <1>5, <1>11, <1>12, <2>1, PunchedAscends
  <2>3. ASSUME NEW i \in 1 .. h + 1, NEW j \in 1 .. h PROVE halves.leaf[i] < halves.new[j]
    <3>1. halves.leaf[i] = item \/ \E q \in 1 .. h : halves.leaf[i] = kept[q]
      BY <1>8, <2>1
    <3>2. kept[h] < flown[j]
      BY <1>13, <1>14
    <3>3. item < flown[j]
      BY <1>4, <1>10, <1>14, <1>15, <1>16, <3>2
    <3> QED
      BY <1>13, <2>1, <3>1, <3>3
  <2> QED
    BY <1>6, <1>8, <2>1, <2>2, <2>3 DEF Parts
<1>17. CASE ~(kept[h] > item)
  <2>1. halves.leaf = kept /\ halves.new = Punched(flown, item)
    BY <1>5, <1>7, <1>17
  <2>2. Ascends(halves.leaf) /\ Ascends(halves.new)
    BY <1>6, <1>11, <1>12, <2>1, PunchedAscends
  <2>3. ASSUME NEW i \in 1 .. h, NEW j \in 1 .. h + 1 PROVE halves.leaf[i] < halves.new[j]
    <3>1. halves.new[j] = item \/ \E q \in 1 .. h : halves.new[j] = flown[q]
      BY <1>9, <2>1
    <3>2. kept[h] < item
      <4>1. kept[h] \in Int /\ item \in Int /\ kept[h] # item
        BY <1>4, <1>10, <1>11, <1>14, <1>15
      <4> QED
        BY <1>17, <4>1
    <3>3. i = h \/ kept[i] < kept[h]
      <4>1. i = h \/ i < h
        BY <1>1
      <4> QED
        BY <1>3, <1>5, <1>10, <1>14, <4>1
    <3>4. kept[i] < item
      <4>1. kept[i] \in Int /\ kept[h] \in Int /\ item \in Int
        BY <1>4, <1>10, <1>14, <1>15
      <4> QED
        BY <3>2, <3>3, <4>1
    <3> QED
      BY <1>13, <2>1, <3>1, <3>4
  <2> QED
    BY <1>5, <1>9, <2>1, <2>2, <2>3 DEF Parts
<1> QED
  BY <1>16, <1>17

(* A search in a leaf finds what is in it.                                 *)
LEMMA LeafSearched ==
  ASSUME NEW node \in Nodes, node.level = 0, Ascends(node.items), NEW key \in Keys
  PROVE  BinSearch(node, key).found <=> key \in ItemsOf(node)
<1> DEFINE n == Len(node.items)
           hit == BinSearch(node, key)
<1>0. Keys \subseteq Int
  BY BPlusTreeAssumption
<1>1. node.items \in Seq(Keys) /\ IsLeaf(node)
  BY DEF Nodes, NodeType, IsLeaf, BTREE_LEAF_LEVEL
<1>2. n \in Nat /\ DOMAIN node.items = 1 .. n /\ \A i \in 1 .. n : node.items[i] \in Int
  BY <1>0, <1>1
<1>3. LastOf(node) = n - 1
  BY <1>1 DEF LastOf, NrItems
<1>4. \A i, j \in 1 .. n : i < j => node.items[i] < node.items[j]
  BY DEF Ascends
<1>5. \A i \in 0 .. n - 1 : i + 1 \in 1 .. n /\ Place(node, i) = node.items[i + 1]
  BY <1>1, <1>2 DEF Place
<1>6. \A i \in 1 .. n : i - 1 \in 0 .. n - 1 /\ Place(node, i - 1) = node.items[i]
  BY <1>1, <1>2 DEF Place
<1> HIDE DEF n
<1>7. PlacesAscend(node, n)
  <2>1. ASSUME NEW i \in 0 .. n - 1, NEW j \in 0 .. n - 1, i < j
        PROVE  Place(node, i) < Place(node, j)
    <3>1. i + 1 < j + 1 /\ i + 1 \in 1 .. n /\ j + 1 \in 1 .. n
      BY <1>2, <2>1
    <3>2. node.items[i + 1] < node.items[j + 1]
      BY <1>4, <3>1
    <3> QED
      BY <1>5, <3>2
  <2>2. \A i \in 0 .. n - 1 : Place(node, i) \in Int
    BY <1>2, <1>5
  <2> QED
    BY <2>1, <2>2 DEF PlacesAscend
<1>8. key \in Int
  BY <1>0
<1>9. /\ hit.found \in BOOLEAN /\ hit.position \in 0 .. n
      /\ hit.found => \E i \in 0 .. n - 1 :
           Place(node, i) = key /\ hit.position = IF IsLeaf(node) THEN i ELSE i + 1
      /\ ~hit.found => /\ \A i \in 0 .. hit.position - 1 : Place(node, i) < key
                       /\ \A i \in hit.position .. n - 1 : key < Place(node, i)
  BY <1>2, <1>3, <1>7, <1>8, BinSearchAims
<1> HIDE DEF hit
<1>10. ASSUME hit.found PROVE key \in ItemsOf(node)
  <2>1. PICK i \in 0 .. n - 1 : Place(node, i) = key
    BY <1>9, <1>10
  <2> QED
    BY <1>2, <1>5, <2>1 DEF ItemsOf
<1>11. ASSUME ~hit.found, key \in ItemsOf(node) PROVE FALSE
  <2>1. PICK i \in 1 .. n : node.items[i] = key
    BY <1>2, <1>11 DEF ItemsOf
  <2>2. i - 1 \in 0 .. hit.position - 1 \/ i - 1 \in hit.position .. n - 1
    BY <1>2, <1>6, <1>9
  <2>3. Place(node, i - 1) = key
    BY <1>6, <2>1
  <2> QED
    BY <1>8, <1>9, <1>11, <2>2, <2>3
<1> QED
  BY <1>10, <1>11 DEF hit

(* A key belongs below one disk child of a sorted node.                    *)
LEMMA WithinOnce ==
  ASSUME NEW node \in Nodes, node.level # 0, KeysAscend(node), NEW key \in Int,
         NEW i \in 0 .. NrKeys(node), NEW j \in 0 .. NrKeys(node),
         Within(node, i, key), Within(node, j, key)
  PROVE  i = j
<1> DEFINE n == NrKeys(node)
<1>1. n \in 1 .. MAX_KEYS /\ MAX_KEYS \in Nat
  BY BPlusNodeAssumption DEF Nodes, NodeOK
<1>2. \A a \in 0 .. n - 1 : Key(node, a) \in Int
  <2>1. \A w \in 0 .. MAX_KEYS - 1 : node.word[w] \in Keys \cup {0}
    BY DEF Nodes, NodeOK, KeysOK
  <2>2. Keys \cup {0} \subseteq Int
    BY BPlusTreeAssumption
  <2> HIDE DEF n
  <2> QED
    BY <1>1, <2>1, <2>2 DEF Key
<1>3. \A a, b \in 0 .. n - 1 : a < b => Key(node, a) < Key(node, b)
  BY DEF KeysAscend
<1> HIDE DEF n
<1>4. ASSUME NEW a \in 0 .. n, NEW b \in 0 .. n, a < b,
             Within(node, a, key), Within(node, b, key)
      PROVE  FALSE
  <2>1. a \in 0 .. n - 1 /\ b - 1 \in 0 .. n - 1 /\ a # n /\ b # 0
    BY <1>1, <1>4
  <2>2. key < Key(node, a) /\ Key(node, b - 1) <= key
    BY <1>4, <2>1 DEF Within, n
  <2>3. a = b - 1 \/ Key(node, a) < Key(node, b - 1)
    <3>1. a = b - 1 \/ a < b - 1
      BY <1>1, <1>4, <2>1
    <3> QED
      BY <1>3, <2>1, <3>1
  <2> QED
    BY <1>2, <2>1, <2>2, <2>3
<1>5. i \in Int /\ j \in Int
  BY <1>1 DEF n
<1>6. i < j \/ j < i \/ i = j
  BY <1>5
<1> QED
  BY <1>4, <1>6 DEF n

(* A search in a sorted internal node leads to where the key belongs.      *)
LEMMA InnerSearched ==
  ASSUME NEW node \in Nodes, node.level # 0, KeysAscend(node), NEW key \in Keys
  PROVE  /\ BinSearch(node, key).position \in 0 .. NrKeys(node)
         /\ Within(node, BinSearch(node, key).position, key)
<1> DEFINE n == NrKeys(node)
           hit == BinSearch(node, key)
<1>0. Keys \subseteq Int
  BY BPlusTreeAssumption
<1>1. n \in 1 .. MAX_KEYS /\ MAX_KEYS \in Nat /\ node.nr_items = 2 * n + 1 /\ ~IsLeaf(node)
  BY BPlusNodeAssumption DEF Nodes, NodeOK, IsLeaf, BTREE_LEAF_LEVEL
<1>2. \A a \in 0 .. n - 1 : Key(node, a) \in Int
  <2>1. \A w \in 0 .. MAX_KEYS - 1 : node.word[w] \in Keys \cup {0}
    BY DEF Nodes, NodeOK, KeysOK
  <2>2. Keys \cup {0} \subseteq Int
    BY BPlusTreeAssumption
  <2> HIDE DEF n
  <2> QED
    BY <1>1, <2>1, <2>2 DEF Key
<1>3. \A a, b \in 0 .. n - 1 : a < b => Key(node, a) < Key(node, b)
  BY DEF KeysAscend
<1>12. n = NrKeys(node)
  OBVIOUS
<1> HIDE DEF n
<1>4. LastOf(node) = n - 1
  BY <1>1 DEF LastOf, NR_KEYS
<1>5. \A i : Place(node, i) = Key(node, i)
  BY <1>1 DEF Place
<1>6. PlacesAscend(node, n)
  BY <1>2, <1>3, <1>5 DEF PlacesAscend
<1>7. key \in Int /\ n \in Nat
  BY <1>0, <1>1
<1>8. /\ hit.found \in BOOLEAN /\ hit.position \in 0 .. n
      /\ hit.found => \E i \in 0 .. n - 1 :
           Place(node, i) = key /\ hit.position = IF IsLeaf(node) THEN i ELSE i + 1
      /\ ~hit.found => /\ \A i \in 0 .. hit.position - 1 : Place(node, i) < key
                       /\ \A i \in hit.position .. n - 1 : key < Place(node, i)
  BY <1>4, <1>6, <1>7, BinSearchAims
<1> HIDE DEF hit
<1>9. CASE hit.found
  <2>1. PICK i \in 0 .. n - 1 : Key(node, i) = key /\ hit.position = i + 1
    BY <1>1, <1>5, <1>8, <1>9
  <2>2. Key(node, hit.position - 1) <= key
    BY <1>7, <2>1
  <2>3. ASSUME hit.position # n PROVE key < Key(node, hit.position)
    <3>1. i + 1 \in 0 .. n - 1 /\ i < i + 1
      BY <1>7, <2>1, <2>3
    <3> QED
      BY <1>3, <2>1, <3>1
  <2> QED
    BY <1>8, <1>12, <2>2, <2>3 DEF hit, Within
<1>10. CASE ~hit.found
  <2>1. ASSUME hit.position # 0 PROVE Key(node, hit.position - 1) <= key
    <3>1. hit.position - 1 \in 0 .. hit.position - 1 /\ hit.position - 1 \in 0 .. n - 1
      BY <1>7, <1>8, <2>1
    <3>2. Key(node, hit.position - 1) < key
      BY <1>5, <1>8, <1>10, <3>1
    <3> QED
      BY <1>2, <1>7, <3>1, <3>2
  <2>2. ASSUME hit.position # n PROVE key < Key(node, hit.position)
    <3>1. hit.position \in hit.position .. n - 1
      BY <1>7, <1>8, <2>2
    <3> QED
      BY <1>5, <1>8, <1>10, <3>1
  <2> QED
    BY <1>8, <1>12, <2>1, <2>2 DEF hit, Within
<1> QED
  BY <1>8, <1>9, <1>10

(* Where bplus_tree_adjust_internal puts a key and the disk child behind   *)
(* it.                                                                     *)
TookAt(new, node, i, k, key, dc) ==
  /\ NrKeys(new) = k + 1
  /\ \A q \in 0 .. k : Key(new, q) = IF q < i THEN Key(node, q)
                                     ELSE IF q = i THEN key ELSE Key(node, q - 1)
  /\ \A q \in 0 .. k + 1 : Dc(new, q) = IF q <= i THEN Dc(node, q)
                                        ELSE IF q = i + 1 THEN dc ELSE Dc(node, q - 1)

LEMMA ParentTakesAt ==
  ASSUME NEW node \in Nodes, node.level # 0, NEW k, k = NrKeys(node), k < MAX_KEYS,
         NEW key \in Keys, NEW dc \in NodeIds,
         NEW new, new = AdjustedInternal(node, k, k + 1, key, dc)
  PROVE  \E i \in 0 .. k : Within(node, i, key) /\ TookAt(new, node, i, k, key, dc)
<1> DEFINE i == KeyPlace(node, key, k)
           S == {q \in 0 .. k - 1 : key < Key(node, q)}
           keys == Inserted(node.word, i, k, key)
           first == MAX_KEYS + (i + 1)
           last == MAX_KEYS + (k + 1)
           word == Inserted(keys, first, last, dc)
<1>1. /\ k \in 1 .. MAX_KEYS /\ node.nr_items = 2 * k + 1
      /\ node.word \in [Words -> Values] /\ node.nr_items \in Nat
  BY DEF Nodes, NodeOK, NodeType, Values
<1>2. MAX_KEYS \in Nat /\ MAX_KEYS >= 3 /\ k \in Nat /\ k >= 1 /\ Words = 0 .. 2 * MAX_KEYS + 1
  BY <1>1, BPlusNodeAssumption DEF Words, MAX_DC
<1>3. \A q \in 0 .. k - 1 : Key(node, q) \in Int
  <2>1. \A w \in 0 .. MAX_KEYS - 1 : node.word[w] \in Keys \cup {0}
    BY DEF Nodes, NodeOK, KeysOK
  <2>2. Keys \cup {0} \subseteq Int
    BY BPlusTreeAssumption
  <2> QED
    BY <1>2, <2>1, <2>2 DEF Key
<1>4. i \in 0 .. k
  BY <1>2, KeyPlaceIn
<1>5. i = FirstOr(S, k)
  BY DEF KeyPlace
<1>6. (S # {} => i \in S /\ \A q \in S : i <= q) /\ (S = {} => i = k)
  <2>1. S \in SUBSET Nat
    BY <1>2
  <2> HIDE DEF S, i
  <2> QED
    BY <1>5, <2>1, FirstOrIn, LeastNatural DEF FirstOr
<1>7. new = [node EXCEPT !.word = word, !.nr_items = @ + 2]
  <2>1. i < k + 1
    BY <1>2, <1>4
  <2> HIDE DEF i
  <2> QED
    BY <2>1 DEF AdjustedInternal, i
<1>8. key \in Int
  BY BPlusTreeAssumption
<1>9. Within(node, i, key)
  <2>1. ASSUME i # 0 PROVE Key(node, i - 1) <= key
    <3>1. i - 1 \in 0 .. k - 1 /\ i - 1 < i
      BY <1>2, <1>4, <2>1
    <3> HIDE DEF i
    <3>2. i - 1 \notin S
      <4>1. i - 1 \in S => i <= i - 1
        BY <1>6
      <4> QED
        BY <1>4, <3>1, <4>1
    <3> QED
      BY <1>3, <1>8, <3>1, <3>2
  <2>2. ASSUME i # k PROVE key < Key(node, i)
    <3> HIDE DEF i
    <3> QED
      BY <1>6, <2>2
  <2> HIDE DEF i
  <2> QED
    BY <2>1, <2>2 DEF Within
<1> HIDE DEF i
<1>10. keys = [w \in Words |-> IF w = i THEN key
                   ELSE IF w \in i + 1 .. k THEN node.word[w - 1] ELSE node.word[w]]
  BY DEF Inserted
<1>11. word = [w \in Words |-> IF w = first THEN dc
                   ELSE IF w \in first + 1 .. last THEN keys[w - 1] ELSE keys[w]]
  BY Zenon DEF Inserted
<1> HIDE DEF word, keys
<1>12. new.word = word /\ new.nr_items = node.nr_items + 2
  BY <1>7 DEF Nodes, NodeType
<1>13. NrKeys(new) = k + 1
  BY <1>1, <1>2, <1>12 DEF NrKeys, NR_KEYS
<1>14. ASSUME NEW q \in 0 .. k
       PROVE  Key(new, q) = IF q < i THEN Key(node, q)
                            ELSE IF q = i THEN key ELSE Key(node, q - 1)
  <2>1. q \in Words /\ q < first /\ q \notin first + 1 .. last
    BY <1>2, <1>4
  <2>2. word[q] = keys[q]
    BY <1>11, <2>1
  <2>3. keys[q] = IF q = i THEN key
                  ELSE IF q \in i + 1 .. k THEN node.word[q - 1] ELSE node.word[q]
    BY <1>10, <2>1
  <2>4. q \in Int /\ i \in Int /\ (q \in i + 1 .. k <=> ~(q < i) /\ q # i)
    BY <1>2, <1>4
  <2> QED
    BY <1>12, <2>2, <2>3, <2>4 DEF Key
<1>15. ASSUME NEW w \in Words, w >= MAX_KEYS PROVE keys[w] = node.word[w]
  <2>1. w # i /\ w \notin i + 1 .. k
    BY <1>2, <1>4, <1>15
  <2> QED
    BY <1>10, <2>1
<1>16. ASSUME NEW q \in 0 .. k + 1
       PROVE  Dc(new, q) = IF q <= i THEN Dc(node, q)
                           ELSE IF q = i + 1 THEN dc ELSE Dc(node, q - 1)
  <2>1. MAX_KEYS + q \in Words /\ q \in Int /\ i \in Int
    BY <1>2, <1>4
  <2>2. Dc(new, q) = word[MAX_KEYS + q]
    BY <1>12 DEF Dc
  <2>3. CASE q <= i
    <3>1. MAX_KEYS + q # first /\ MAX_KEYS + q \notin first + 1 .. last
      BY <1>2, <1>4, <2>1, <2>3
    <3>2. word[MAX_KEYS + q] = keys[MAX_KEYS + q]
      BY <1>11, <2>1, <3>1
    <3>3. keys[MAX_KEYS + q] = node.word[MAX_KEYS + q]
      BY <1>2, <1>15, <2>1
    <3> QED
      BY <2>2, <2>3, <3>2, <3>3 DEF Dc
  <2>4. CASE q = i + 1
    <3>1. word[first] = dc /\ ~(q <= i)
      BY <1>11, <2>1, <2>4
    <3> QED
      BY <2>2, <2>4, <3>1
  <2>5. CASE q > i + 1
    <3>1. MAX_KEYS + q # first /\ MAX_KEYS + q \in first + 1 .. last
          /\ (MAX_KEYS + q) - 1 = MAX_KEYS + (q - 1) /\ ~(q <= i) /\ q # i + 1
      BY <1>2, <1>4, <2>1, <2>5
    <3>2. word[MAX_KEYS + q] = keys[MAX_KEYS + (q - 1)]
      BY <1>11, <2>1, <3>1
    <3>3. MAX_KEYS + (q - 1) \in Words /\ MAX_KEYS + (q - 1) >= MAX_KEYS
      BY <1>2, <1>4, <2>1, <2>5
    <3>4. keys[MAX_KEYS + (q - 1)] = node.word[MAX_KEYS + (q - 1)]
      BY <1>15, <3>3
    <3> QED
      BY <2>2, <3>1, <3>2, <3>4 DEF Dc
  <2> QED
    BY <2>1, <2>3, <2>4, <2>5
<1> QED
  BY <1>4, <1>9, <1>13, <1>14, <1>16 DEF TookAt

(* A tree of up to two levels that is sorted.                              *)
InOrder(d, node) ==
  /\ KeysAscend(node)
  /\ \A i \in 0 .. NrKeys(node) :
       /\ Ascends(d[Dc(node, i)].items)
       /\ \A item \in ItemsOf(d[Dc(node, i)]) : Within(node, i, item)

Sorted(d, r) ==
  /\ d[r].level = 0 => Ascends(d[r].items)
  /\ d[r].level = 1 => InOrder(d, d[r])

(* The leaf x hangs in the node at p, and nowhere else.                    *)
HangsAt(node, p, x) ==
  p \in 0 .. NrKeys(node) /\ \A i \in 0 .. NrKeys(node) : Dc(node, i) = x <=> i = p

KeepsOthers(d, g, node, x) ==
  \A i \in 0 .. NrKeys(node) : Dc(node, i) # x => g[Dc(node, i)] = d[Dc(node, i)]

LEMMA KeyNumbers ==
  ASSUME NEW node \in Nodes, node.level # 0
  PROVE  /\ NrKeys(node) \in 1 .. MAX_KEYS /\ MAX_KEYS \in Nat
         /\ \A i \in 0 .. NrKeys(node) - 1 : Key(node, i) \in Int
<1> DEFINE n == NrKeys(node)
<1>1. n \in 1 .. MAX_KEYS /\ MAX_KEYS \in Nat
  BY BPlusNodeAssumption DEF Nodes, NodeOK
<1>2. \A w \in 0 .. MAX_KEYS - 1 : node.word[w] \in Keys \cup {0}
  BY DEF Nodes, NodeOK, KeysOK
<1>3. Keys \cup {0} \subseteq Int
  BY BPlusTreeAssumption
<1> HIDE DEF n
<1>4. \A i \in 0 .. n - 1 : Key(node, i) \in Int
  BY <1>1, <1>2, <1>3 DEF Key
<1> QED
  BY <1>1, <1>4 DEF n

(* A leaf that is not empty hangs in a sorted node once.                   *)
LEMMA OrderedOnce ==
  ASSUME NEW d, NEW node \in Nodes, node.level # 0, InOrder(d, node),
         NEW p \in 0 .. NrKeys(node), NEW x, x = Dc(node, p),
         ItemsOf(d[x]) # {}, ItemsOf(d[x]) \subseteq Keys
  PROVE  HangsAt(node, p, x)
<1>0. Keys \subseteq Int
  BY BPlusTreeAssumption
<1>1. PICK item \in ItemsOf(d[x]) : item \in Int
  BY <1>0
<1>2. KeysAscend(node)
  BY DEF InOrder
<1>3. ASSUME NEW i \in 0 .. NrKeys(node), Dc(node, i) = x PROVE i = p
  <2>1. Within(node, i, item) /\ Within(node, p, item)
    BY <1>1, <1>3 DEF InOrder
  <2> QED
    BY <1>1, <1>2, <2>1, WithinOnce
<1> QED
  BY <1>3, Zenon DEF HangsAt

(* The node stays sorted when the leaf x takes the key, ...                *)
LEMMA OrderKept ==
  ASSUME NEW d, NEW g, NEW node, InOrder(d, node), NEW p, NEW x, HangsAt(node, p, x),
         NEW key, Within(node, p, key), KeepsOthers(d, g, node, x),
         Ascends(g[x].items), ItemsOf(g[x]) \subseteq ItemsOf(d[x]) \cup {key}
  PROVE  InOrder(g, node)
<1>1. ASSUME NEW i \in 0 .. NrKeys(node)
      PROVE  /\ Ascends(g[Dc(node, i)].items)
             /\ \A item \in ItemsOf(g[Dc(node, i)]) : Within(node, i, item)
  <2>1. CASE Dc(node, i) # x
    <3>1. g[Dc(node, i)] = d[Dc(node, i)]
      BY <2>1 DEF KeepsOthers
    <3> QED
      BY <3>1 DEF InOrder
  <2>2. CASE Dc(node, i) = x
    <3>1. i = p
      BY <2>2 DEF HangsAt
    <3>2. \A item \in ItemsOf(d[x]) : Within(node, p, item)
      BY <2>2, <3>1 DEF InOrder
    <3> QED
      BY <2>2, <3>1, <3>2
  <2> QED
    BY <2>1, <2>2
<1> QED
  BY <1>1 DEF InOrder

(* ... when it gives half of its items to the new leaf behind it, ...      *)
LEMMA OrderTakes ==
  ASSUME NEW d, NEW g, NEW node \in Nodes, node.level # 0, NEW k, k = NrKeys(node), k < MAX_KEYS,
         InOrder(d, node), NEW p, NEW x, HangsAt(node, p, x), ItemsOf(d[x]) \subseteq Keys,
         NEW key \in Keys, Within(node, p, key), KeepsOthers(d, g, node, x),
         NEW halves, Halved(d[x].items, key, halves), Parts(halves),
         NEW dc \in NodeIds, \A i \in 0 .. k : Dc(node, i) # dc,
         NEW new, new = AdjustedInternal(node, k, k + 1, Head(halves.new), dc),
         g[x].items = halves.leaf, g[dc].items = halves.new
  PROVE  InOrder(g, new)
<1> DEFINE c == Head(halves.new)
<1>1. k \in 1 .. MAX_KEYS /\ k \in Nat /\ \A i \in 0 .. k - 1 : Key(node, i) \in Int
  BY KeyNumbers
<1>2. p \in 0 .. k /\ \A i \in 0 .. k : Dc(node, i) = x <=> i = p
  BY DEF HangsAt
<1>3. \A a, b \in 0 .. k - 1 : a < b => Key(node, a) < Key(node, b)
  BY DEF InOrder, KeysAscend
<1>4. \A i \in 0 .. k : /\ Ascends(d[Dc(node, i)].items)
                        /\ \A item \in ItemsOf(d[Dc(node, i)]) : Within(node, i, item)
  BY DEF InOrder
<1>5. /\ \A item \in ItemsOf(g[x]) : item \in Keys /\ Within(node, p, item)
      /\ \A item \in ItemsOf(g[dc]) : item \in Keys /\ Within(node, p, item)
  <2>1. ItemsOf(g[x]) \cup ItemsOf(g[dc]) = ItemsOf(d[x]) \cup {key}
    BY DEF ItemsOf, Halved
  <2>2. \A item \in ItemsOf(d[x]) : Within(node, p, item)
    BY <1>2, <1>4
  <2> QED
    BY <2>1, <2>2
<1>6. /\ \A item \in ItemsOf(g[x]) : item < c
      /\ \A item \in ItemsOf(g[dc]) : c <= item
      /\ c \in ItemsOf(g[dc]) /\ ItemsOf(g[x]) # {}
  <2>1. /\ halves.leaf \in Seq(Keys) /\ Len(halves.leaf) \in 1 .. MAX_ITEMS
        /\ halves.new \in Seq(Keys) /\ Len(halves.new) \in 1 .. MAX_ITEMS
    BY DEF Halved
  <2> DEFINE l == Len(halves.leaf)
             r == Len(halves.new)
  <2>2. /\ DOMAIN halves.leaf = 1 .. l /\ DOMAIN halves.new = 1 .. r /\ 1 \in 1 .. l /\ 1 \in 1 .. r
        /\ l \in Nat /\ r \in Nat
    BY <2>1, BPlusNodeAssumption
  <2>3. \A i \in 1 .. l, j \in 1 .. r : halves.leaf[i] < halves.new[j]
    BY DEF Parts
  <2>4. \A i, j \in 1 .. r : i < j => halves.new[i] < halves.new[j]
    BY DEF Parts, Ascends
  <2>5. \A j \in 1 .. r : halves.new[j] \in Int
    <3>1. Keys \subseteq Int
      BY BPlusTreeAssumption
    <3>2. \A j \in 1 .. r : halves.new[j] \in Keys
      BY <2>1, ElementOfSeq
    <3> HIDE DEF r
    <3> QED
      BY <3>1, <3>2
  <2>6. c = halves.new[1]
    BY <2>1
  <2> HIDE DEF l, r, c
  <2>7. ASSUME NEW j \in 1 .. r PROVE c <= halves.new[j]
    <3>1. j = 1 \/ 1 < j
      BY <2>2
    <3>2. j = 1 \/ halves.new[1] < halves.new[j]
      BY <2>2, <2>4, <3>1
    <3> QED
      BY <2>2, <2>5, <2>6, <3>2
  <2> QED
    BY <2>2, <2>3, <2>6, <2>7 DEF ItemsOf
<1> HIDE DEF c
<1>7. c \in Keys /\ c \in Int /\ Within(node, p, c) /\ Keys \subseteq Int
  <2>1. Keys \subseteq Int
    BY BPlusTreeAssumption
  <2> QED
    BY <1>5, <1>6, <2>1
<1>8. TookAt(new, node, p, k, c, dc)
  <2>1. PICK i \in 0 .. k : Within(node, i, c) /\ TookAt(new, node, i, k, c, dc)
    BY <1>7, ParentTakesAt DEF c
  <2>2. KeysAscend(node)
    BY DEF InOrder
  <2>3. i = p
    BY <1>2, <1>7, <2>1, <2>2, WithinOnce
  <2> QED
    BY <2>1, <2>3
<1>9. /\ NrKeys(new) = k + 1
      /\ \A q \in 0 .. k : Key(new, q) = IF q < p THEN Key(node, q)
                                         ELSE IF q = p THEN c ELSE Key(node, q - 1)
      /\ \A q \in 0 .. k + 1 : Dc(new, q) = IF q <= p THEN Dc(node, q)
                                            ELSE IF q = p + 1 THEN dc ELSE Dc(node, q - 1)
  BY <1>8 DEF TookAt
<1>10. p # 0 => p - 1 \in 0 .. k - 1 /\ Key(node, p - 1) < c
  <2>1. SUFFICES ASSUME p # 0 PROVE p - 1 \in 0 .. k - 1 /\ Key(node, p - 1) < c
    OBVIOUS
  <2>2. p - 1 \in 0 .. k - 1
    BY <1>1, <1>2, <2>1
  <2>3. PICK item \in ItemsOf(g[x]) : item \in Keys /\ Within(node, p, item) /\ item < c
    BY <1>5, <1>6
  <2>4. Key(node, p - 1) <= item
    BY <2>1, <2>3 DEF Within
  <2> QED
    BY <1>1, <1>7, <2>2, <2>3, <2>4
<1>11. p # k => p \in 0 .. k - 1 /\ c < Key(node, p)
  BY <1>1, <1>2, <1>7 DEF Within
<1>12. ASSUME NEW a \in 0 .. k, NEW b \in 0 .. k, a < b PROVE Key(new, a) < Key(new, b)
  <2>0. p \in Int /\ k \in Int
    BY <1>1, <1>2
  <2>1. CASE b < p
    <3>1. Key(new, a) = Key(node, a) /\ Key(new, b) = Key(node, b)
          /\ a \in 0 .. k - 1 /\ b \in 0 .. k - 1
      BY <1>2, <1>9, <1>12, <2>0, <2>1
    <3> QED
      BY <1>3, <1>12, <3>1
  <2>2. CASE b = p
    <3>1. Key(new, a) = Key(node, a) /\ Key(new, b) = c /\ a \in 0 .. k - 1 /\ p # 0
      BY <1>2, <1>9, <1>12, <2>0, <2>2
    <3>2. a = p - 1 \/ a < p - 1
      BY <1>12, <2>0, <2>2
    <3>3. a = p - 1 \/ Key(node, a) < Key(node, p - 1)
      BY <1>3, <1>10, <3>1, <3>2
    <3> QED
      BY <1>1, <1>7, <1>10, <3>1, <3>3
  <2>3. CASE p < b
    <3>1. Key(new, b) = Key(node, b - 1) /\ b - 1 \in 0 .. k - 1
      BY <1>2, <1>9, <2>0, <2>3
    <3>2. CASE a < p
      <4>1. Key(new, a) = Key(node, a) /\ a \in 0 .. k - 1 /\ a < b - 1
        BY <1>2, <1>9, <2>0, <2>3, <3>2
      <4> QED
        BY <1>3, <3>1, <4>1
    <3>3. CASE a = p
      <4>1. Key(new, a) = c /\ p # k
        BY <1>9, <2>0, <2>3, <3>3
      <4>2. p = b - 1 \/ p < b - 1
        BY <2>0, <2>3
      <4>3. p = b - 1 \/ Key(node, p) < Key(node, b - 1)
        BY <1>3, <1>11, <3>1, <4>1, <4>2
      <4> QED
        BY <1>1, <1>7, <1>11, <3>1, <4>1, <4>3
    <3>4. CASE p < a
      <4>1. Key(new, a) = Key(node, a - 1) /\ a - 1 \in 0 .. k - 1 /\ a - 1 < b - 1
        BY <1>2, <1>9, <1>12, <2>0, <3>4
      <4> QED
        BY <1>3, <3>1, <4>1
    <3> QED
      BY <2>0, <3>2, <3>3, <3>4
  <2> QED
    BY <2>0, <2>1, <2>2, <2>3
<1>13. ASSUME NEW q \in 0 .. k, q # p
       PROVE  /\ Ascends(g[Dc(node, q)].items)
              /\ \A item \in ItemsOf(g[Dc(node, q)]) : Within(node, q, item)
  <2>1. g[Dc(node, q)] = d[Dc(node, q)]
    BY <1>2, <1>13 DEF KeepsOthers
  <2> QED
    BY <1>4, <2>1
<1>14. ASSUME NEW q \in 0 .. k + 1
       PROVE  /\ Ascends(g[Dc(new, q)].items)
              /\ \A item \in ItemsOf(g[Dc(new, q)]) : Within(new, q, item)
  <2>0. p \in Int /\ k \in Int /\ NrKeys(new) = k + 1
    BY <1>1, <1>2, <1>9
  <2>1. CASE q < p
    <3>1. Dc(new, q) = Dc(node, q) /\ q \in 0 .. k /\ q # p /\ q # k
      BY <1>2, <1>9, <2>0, <2>1
    <3>2. /\ q # 0 => Key(new, q - 1) = Key(node, q - 1)
          /\ Key(new, q) = Key(node, q)
      BY <1>2, <1>9, <2>0, <2>1, <3>1
    <3>3. ASSUME NEW item, Within(node, q, item) PROVE Within(new, q, item)
      BY <3>1, <3>2, <3>3 DEF Within
    <3> QED
      BY <1>13, <3>1, <3>3
  <2>2. CASE q = p
    <3>1. Dc(new, q) = x /\ Ascends(g[x].items)
      BY <1>2, <1>9, <2>0, <2>2 DEF Parts
    <3>2. /\ q # 0 => Key(new, q - 1) = Key(node, q - 1)
          /\ Key(new, q) = c
      BY <1>2, <1>9, <2>0, <2>2
    <3>3. ASSUME NEW item \in ItemsOf(g[x]) PROVE Within(new, q, item)
      <4>1. item < c /\ Within(node, p, item)
        BY <1>5, <1>6
      <4> QED
        BY <2>2, <3>2, <4>1 DEF Within
    <3> QED
      BY <3>1, <3>3
  <2>3. CASE q = p + 1
    <3>1. Dc(new, q) = dc /\ Ascends(g[dc].items)
      BY <1>9, <2>0, <2>3 DEF Parts
    <3>2. /\ Key(new, q - 1) = c /\ q - 1 = p
          /\ q # k + 1 => Key(new, q) = Key(node, p) /\ p # k
      BY <1>2, <1>9, <2>0, <2>3
    <3>3. ASSUME NEW item \in ItemsOf(g[dc]) PROVE Within(new, q, item)
      <4>1. c <= item /\ Within(node, p, item)
        BY <1>5, <1>6
      <4> QED
        BY <2>0, <3>2, <4>1 DEF Within
    <3> QED
      BY <3>1, <3>3
  <2>4. CASE p + 1 < q
    <3>1. Dc(new, q) = Dc(node, q - 1) /\ q - 1 \in 0 .. k /\ q - 1 # p /\ q - 1 # 0
      BY <1>2, <1>9, <2>0, <2>4
    <3>2. /\ Key(new, q - 1) = Key(node, (q - 1) - 1)
          /\ q # k + 1 => Key(new, q) = Key(node, q - 1) /\ q - 1 # k
      BY <1>2, <1>9, <2>0, <2>4, <3>1
    <3>3. ASSUME NEW item, Within(node, q - 1, item) PROVE Within(new, q, item)
      <4>1. /\ Key(node, (q - 1) - 1) <= item
            /\ q # k + 1 => item < Key(node, q - 1)
        BY <3>1, <3>2, <3>3 DEF Within
      <4> QED
        BY <2>0, <3>2, <4>1 DEF Within
    <3> QED
      BY <1>13, <3>1, <3>3
  <2> QED
    BY <2>0, <2>1, <2>2, <2>3, <2>4
<1>15. KeysAscend(new)
  <2>1. NrKeys(new) - 1 = k
    BY <1>1, <1>9
  <2> QED
    BY <1>12, <2>1 DEF KeysAscend
<1> QED
  BY <1>9, <1>14, <1>15 DEF InOrder

(* ... and a new root is sorted above the two halves of the old one.       *)
LEMMA OrderStarts ==
  ASSUME NEW d, NEW g, NEW x \in NodeIds, NEW dc \in NodeIds, NEW key \in Keys,
         NEW halves, Halved(d[x].items, key, halves), Parts(halves),
         NEW new, new = InternalNode(1, Head(halves.new), x, dc),
         g[x].items = halves.leaf, g[dc].items = halves.new
  PROVE  InOrder(g, new)
<1> DEFINE c == Head(halves.new)
           z == [w \in Words |-> 0]
           z1 == [z EXCEPT ![0] = c]
           z2 == [z1 EXCEPT ![MAX_KEYS] = x]
           word == [z2 EXCEPT ![MAX_KEYS + 1] = dc]
<1>1. new = [level |-> 1, nr_items |-> 3, items |-> <<>>, word |-> word]
  BY DEF InternalNode, FormattedNode
<1>2. MAX_KEYS \in Nat /\ MAX_KEYS >= 3 /\ Words = 0 .. 2 * MAX_KEYS + 1
  BY BPlusNodeAssumption DEF Words, MAX_DC
<1>3. word[0] = c /\ word[MAX_KEYS] = x /\ word[MAX_KEYS + 1] = dc
  BY <1>2
<1> HIDE DEF word
<1>4. NrKeys(new) = 1 /\ Key(new, 0) = c /\ Dc(new, 0) = x /\ Dc(new, 1) = dc
  BY <1>1, <1>2, <1>3 DEF NrKeys, NR_KEYS, Key, Dc
<1> DEFINE l == Len(halves.leaf)
           r == Len(halves.new)
<1>5. /\ halves.leaf \in Seq(Keys) /\ l \in 1 .. MAX_ITEMS
      /\ halves.new \in Seq(Keys) /\ r \in 1 .. MAX_ITEMS
  BY DEF Halved
<1>6. /\ DOMAIN halves.leaf = 1 .. l /\ DOMAIN halves.new = 1 .. r /\ 1 \in 1 .. r /\ r \in Nat
  BY <1>5, BPlusNodeAssumption
<1>7. \A i \in 1 .. l, j \in 1 .. r : halves.leaf[i] < halves.new[j]
  BY DEF Parts
<1>8. \A i, j \in 1 .. r : i < j => halves.new[i] < halves.new[j]
  BY DEF Parts, Ascends
<1>9. \A j \in 1 .. r : halves.new[j] \in Int
  <2>1. Keys \subseteq Int
    BY BPlusTreeAssumption
  <2>2. \A j \in 1 .. r : halves.new[j] \in Keys
    BY <1>5, ElementOfSeq
  <2> HIDE DEF r
  <2> QED
    BY <2>1, <2>2
<1>10. c = halves.new[1]
  BY <1>5
<1> HIDE DEF l, r, c
<1>11. ASSUME NEW j \in 1 .. r PROVE c <= halves.new[j]
  <2>1. j = 1 \/ 1 < j
    BY <1>6
  <2>2. j = 1 \/ halves.new[1] < halves.new[j]
    BY <1>6, <1>8, <2>1
  <2> QED
    BY <1>6, <1>9, <1>10, <2>2
<1>12. /\ \A item \in ItemsOf(g[x]) : Within(new, 0, item)
       /\ \A item \in ItemsOf(g[dc]) : Within(new, 1, item)
  <2>1. \A item \in ItemsOf(g[x]) : item < c
    BY <1>6, <1>7, <1>10 DEF ItemsOf
  <2>2. \A item \in ItemsOf(g[dc]) : c <= item
    BY <1>6, <1>11 DEF ItemsOf
  <2> QED
    BY <1>4, <2>1, <2>2 DEF Within
<1>13. \A i \in 0 .. 1 : i = 0 \/ i = 1
  OBVIOUS
<1>14. KeysAscend(new)
  BY <1>4 DEF KeysAscend
<1>15. Ascends(g[x].items) /\ Ascends(g[dc].items)
  BY DEF Parts
<1> QED
  BY <1>4, <1>12, <1>13, <1>14, <1>15 DEF InOrder

(* The disk g is one that the writes of an operation lead d through: only  *)
(* nodes in A are new before the leaf x of the path is.                    *)
PartWritten(d, fin, x, A, g) ==
  /\ g \in [DOMAIN d -> Nodes] /\ DiskOK(g)
  /\ \A id \in DOMAIN d : g[id] \in {d[id], fin[id]}
  /\ g[x] = fin[x] \/ \A id \in DOMAIN d : id \in A \/ g[id] = d[id]

KeptAround(m, A) ==
  \A l \in Levels : \A e \in Around(m, l) : e.id \in A \/ e.node = m.disk[e.id]

LEMMA LeafFirst ==
  ASSUME NEW m, DiskOK(m.disk), NEW fin, Ready(m, fin), NEW A, KeptAround(m, A),
         m.pe[0].id \in DOMAIN m.disk,
         NEW n, n = Len(Elements(m)), NEW k \in 0 .. n, NEW g,
         Midway(Elements(m), n, m.disk, fin, k, g)
  PROVE  PartWritten(m.disk, fin, m.pe[0].id, A, g)
<1> DEFINE E == Elements(m)
           d == m.disk
           x == m.pe[0].id
<1>0. 0 \in Levels
  BY DEF Levels, BPLUS_MAX_HEIGHT
<1>1. n \in Nat /\ Leads(E, n, d, fin) /\ PathLast(m)
  BY ReadyLeads
<1>2. PICK la \in Nat :
        /\ Len(E) = la + 5
        /\ \A j \in 1 .. la : \E l \in Levels : E[j] \in Around(m, l)
        /\ \A j \in 1 .. la + 5 : j \notin 1 .. la =>
             \E l \in Levels : j = la + (l + 1) /\ E[j] = m.pe[l]
        /\ E[la + 1] = m.pe[0]
  BY <1>1 DEF PathLast
<1>3. \A l \in Levels : m.pe[l].id # 0 => m.pe[l].node = fin[m.pe[l].id]
  BY DEF Ready
<1>4. x # 0
  BY BPlusTreeAssumption DEF DiskOK
<1>5. DiskOK(g) /\ DOMAIN g = DOMAIN d
  BY <1>1, MidwayIsOK
<1>6. /\ g \in [DOMAIN d -> Nodes]
      /\ \A id \in DOMAIN d : g[id] \in {d[id], fin[id]}
      /\ \A id \in DOMAIN d, j \in 1 .. k : Settled(E, n, j, fin, id) => g[id] = fin[id]
      /\ \A id \in DOMAIN d : g[id] = d[id] \/ Wrote(E, k, id, g[id])
  BY DEF Midway
<1>7. n = la + 5
  BY <1>2
<1> HIDE DEF E
<1>8. CASE k <= la
  <2>1. ASSUME NEW id \in DOMAIN d, id \notin A, g[id] # d[id] PROVE FALSE
    <3>1. PICK j \in 1 .. k : E[j].id = id /\ E[j].node = g[id]
      BY <1>6, <2>1 DEF Wrote
    <3>2. j \in 1 .. la
      BY <1>1, <1>2, <1>8
    <3>3. PICK l \in Levels : E[j] \in Around(m, l)
      BY <1>2, <3>2
    <3>4. E[j].id \in A \/ E[j].node = m.disk[E[j].id]
      BY <3>3 DEF KeptAround
    <3> QED
      BY <2>1, <3>1, <3>4
  <2>2. \A id \in DOMAIN d : id \in A \/ g[id] = d[id]
    BY <2>1
  <2> QED
    BY <1>5, <1>6, <2>2 DEF PartWritten
<1>9. CASE ~(k <= la)
  <2>1. la + 1 \in 1 .. k /\ la + 1 \in 1 .. la + 5
    BY <1>1, <1>2, <1>9
  <2>2. ASSUME NEW i \in la + 1 .. n, E[i].id = x PROVE E[i].node = fin[x]
    <3>1. i \in 1 .. la + 5 /\ i \notin 1 .. la
      BY <1>2, <1>7
    <3>2. PICK l \in Levels : E[i] = m.pe[l]
      BY <1>2, <3>1
    <3> QED
      BY <1>3, <1>4, <2>2, <3>2
  <2>3. Settled(E, n, la + 1, fin, x)
    BY <1>2, <2>2 DEF Settled
  <2>4. g[x] = fin[x]
    BY <1>6, <2>1, <2>3
  <2> QED
    BY <1>5, <1>6, <2>4 DEF PartWritten
<1> QED
  BY <1>8, <1>9

(* What the operation prepares is sorted, wherever its writes stop.        *)
Orders(m, fin) ==
  /\ m.pe[0].id \in DOMAIN m.disk
  /\ \E A : KeptAround(m, A)
            /\ \A g : PartWritten(m.disk, fin, m.pe[0].id, A, g) => Sorted(g, m.root)

LEMMA WritesSorted ==
  ASSUME NEW m, IsMem(m), m.ok, DiskOK(m.disk), NEW fin, Ready(m, fin), Orders(m, fin)
  PROVE  /\ \A k \in DOMAIN Elements(m) : Sorted(Flush(m)[k - 1].disk, m.root)
         /\ Sorted(fin, m.root)
<1> DEFINE n == Len(Elements(m))
<1>1. /\ Elements(m) \in Seq(ElementType) /\ n \in Nat
      /\ Leads(Elements(m), n, m.disk, fin)
  BY ReadyLeads
<1>2. DOMAIN Elements(m) = 1 .. n
  BY <1>1
<1>3. PICK A : KeptAround(m, A)
               /\ \A g : PartWritten(m.disk, fin, m.pe[0].id, A, g) => Sorted(g, m.root)
  BY DEF Orders
<1>4. /\ \A k \in 0 .. n : Midway(Elements(m), n, m.disk, fin, k, Flush(m)[k].disk)
      /\ Flush(m)[n] = At(m, fin)
  <2> DEFINE c == n
  <2>1. c = Len(Elements(m)) /\ c \in Nat /\ Leads(Elements(m), c, m.disk, fin)
    BY <1>1
  <2> HIDE DEF c
  <2>2. /\ \A k \in 0 .. c :
             /\ Flush(m)[k] = At(m, Flush(m)[k].disk)
             /\ DiskOK(Flush(m)[k].disk) /\ DOMAIN Flush(m)[k].disk = DOMAIN m.disk
             /\ Midway(Elements(m), c, m.disk, fin, k, Flush(m)[k].disk)
        /\ Flush(m)[c] = At(m, fin)
    BY <1>1, <2>1, FlushLeads
  <2> QED
    BY <2>2 DEF c
<1>5. n = Len(Elements(m))
  OBVIOUS
<1>6. m.pe[0].id \in DOMAIN m.disk
  BY DEF Orders
<1> HIDE DEF n
<1>7. ASSUME NEW k \in 0 .. n PROVE Sorted(Flush(m)[k].disk, m.root)
  <2>1. Midway(Elements(m), n, m.disk, fin, k, Flush(m)[k].disk)
    BY <1>4
  <2>2. PartWritten(m.disk, fin, m.pe[0].id, A, Flush(m)[k].disk)
    BY <1>3, <1>5, <1>6, <2>1, LeafFirst
  <2> QED
    BY <1>3, <2>2
<1>8. \A k \in 1 .. n : k - 1 \in 0 .. n
  BY <1>1
<1>9. n \in 0 .. n /\ Flush(m)[n].disk = fin
  <2>1. At(m, fin).disk = fin
    BY AtIs
  <2> QED
    BY <1>1, <1>4, <2>1
<1>10. Sorted(fin, m.root)
  BY <1>7, <1>9
<1>11. \A k \in DOMAIN Elements(m) : Sorted(Flush(m)[k - 1].disk, m.root)
  BY <1>2, <1>7, <1>8
<1> QED
  BY <1>10, <1>11

-----------------------------------------------------------------------------
(* The search: a way down that ends in a leaf.                             *)
SearchAt(p, n, x, found, end) ==
  [pe |-> p, length |-> n, id |-> x, found |-> found, end |-> end]
Descent(p, n, x, no) == SearchAt(p, n, x, no, "descending")
Landed(p, n, x, found) == SearchAt(p, n, x, found, "leaf")

OnPath(l, e) ==
  /\ e.id \in DOMAIN disk /\ e.node = disk[e.id] /\ e.node.level = l
  /\ l # 0 => e.position \in 0 .. NrKeys(e.node)

PathOK(p, n) ==
  /\ p \in [Levels -> ElementType]
  /\ \A l \in Levels : p[l].id # 0 => OnPath(l, p[l])
  /\ p[0].id # 0
  /\ \/ n = 0 /\ p[0].id = root /\ p[1].id = 0 /\ p[2].id = 0 /\ p[3].id = 0
     \/ /\ n = 1 /\ p[1].id = root /\ p[2].id = 0 /\ p[3].id = 0
        /\ p[0].id \in LinksOf(p[1].node)
     \/ /\ n = 2 /\ p[2].id = root /\ p[3].id = 0 /\ p[1].id # 0
        /\ p[1].id \in LinksOf(p[2].node) /\ p[0].id \in LinksOf(p[1].node)
     \/ /\ n = 2 /\ p[3].id = root /\ p[2].id = 0 /\ p[1].id # 0
        /\ p[1].id \in LinksOf(p[3].node) /\ p[0].id \in LinksOf(p[1].node)

LEMMA LastIs ==
  ASSUME NEW node \in Nodes
  PROVE  /\ node.level = 0 => LastOf(node) = Len(node.items) - 1 /\ Len(node.items) \in Nat
         /\ node.level # 0 => LastOf(node) = NrKeys(node) - 1 /\ NrKeys(node) \in Nat
<1>1. node \in NodeType /\ NodeOK(node)
  BY DEF Nodes
<1>2. CASE node.level = 0
  <2>1. node.items \in Seq(Keys)
    BY <1>1 DEF NodeType
  <2>2. Len(node.items) \in Nat
    BY <2>1
  <2> QED
    BY <1>2, <2>2 DEF LastOf, NrItems, IsLeaf, BTREE_LEAF_LEVEL
<1>3. CASE node.level # 0
  <2> DEFINE k == NrKeys(node)
  <2>1. k \in 1 .. MAX_KEYS /\ node.nr_items = 2 * k + 1
    BY <1>1, <1>3 DEF NodeOK
  <2>2. k \in Nat /\ k \in Int
    BY <2>1, BPlusNodeAssumption
  <2>3. LastOf(node) = NR_KEYS(node.nr_items - 1)
    BY <1>3 DEF LastOf, IsLeaf, BTREE_LEAF_LEVEL
  <2> HIDE DEF k
  <2>4. LastOf(node) = (2 * k + 1 - 1 - 1) \div 2
    BY <2>1, <2>3 DEF NR_KEYS
  <2>5. (2 * k + 1 - 1 - 1) \div 2 = k - 1
    BY <2>2
  <2> QED
    BY <1>3, <2>2, <2>4, <2>5 DEF k
<1> QED
  BY <1>2, <1>3

PathWith(p, l, e) == [p EXCEPT ![l] = e]

SetPe(s, v) == [s EXCEPT !.pe = v]
SetLength(s, v) == [s EXCEPT !.length = v]
SetId(s, v) == [s EXCEPT !.id = v]
SetFound(s, v) == [s EXCEPT !.found = v]
SetEnd(s, v) == [s EXCEPT !.end = v]

LEMMA VisitIs ==
  ASSUME NEW s, NEW key
  PROVE  /\ s.end # "descending" => Visit(s, key) = s
         /\ s.end = "descending" /\ s.id \in DOMAIN disk =>
              Visit(s, key) = LET node == disk[s.id]
                                  hit == BinSearch(node, key)
                                  visited == Visited(s, node.level, Element(s.id, hit.position, node))
                              IN  IF IsLeaf(node) THEN AtLeaf(visited, hit.found)
                                  ELSE AtChild(visited, Dc(node, hit.position))
<1> DEFINE node == disk[s.id]
           hit == BinSearch(node, key)
           visited == Visited(s, node.level, Element(s.id, hit.position, node))
<1>1. s.end # "descending" => Visit(s, key) = s
  BY DEF Visit
<1>2. s.end = "descending" /\ s.id \in DOMAIN disk =>
        Visit(s, key) = IF IsLeaf(node) THEN AtLeaf(visited, hit.found)
                        ELSE AtChild(visited, Dc(node, hit.position))
  BY DEF Visit
<1> QED
  BY <1>1, <1>2

LEMMA SearchAtIs ==
  ASSUME NEW p, NEW n, NEW x, NEW found, NEW end
  PROVE  /\ SearchAt(p, n, x, found, end).pe = p
         /\ SearchAt(p, n, x, found, end).length = n
         /\ SearchAt(p, n, x, found, end).id = x
         /\ SearchAt(p, n, x, found, end).end = end
         /\ SearchAt(p, n, x, found, end).found = found
BY DEF SearchAt

LEMMA SearchAtUpdated ==
  ASSUME NEW p, NEW n, NEW x, NEW found, NEW end, NEW v
  PROVE  /\ SetPe(SearchAt(p, n, x, found, end), v) = SearchAt(v, n, x, found, end)
         /\ SetLength(SearchAt(p, n, x, found, end), v) = SearchAt(p, v, x, found, end)
         /\ SetId(SearchAt(p, n, x, found, end), v) = SearchAt(p, n, v, found, end)
         /\ SetFound(SearchAt(p, n, x, found, end), v) = SearchAt(p, n, x, v, end)
         /\ SetEnd(SearchAt(p, n, x, found, end), v) = SearchAt(p, n, x, found, v)
BY DEF SearchAt, SetPe, SetLength, SetId, SetFound, SetEnd

LEMMA DescentGoesOn ==
  ASSUME NEW p, NEW n \in Int, NEW x, NEW l, NEW e, NEW y, NEW found, NEW no
  PROVE  /\ AtChild(Visited(Descent(p, n, x, no), l, e), y)
               = Descent(PathWith(p, l, e), n + 1, y, no)
         /\ AtLeaf(Visited(Descent(p, n, x, no), l, e), found)
               = Landed(PathWith(p, l, e), n + 1, x, found)
<1> DEFINE q == PathWith(p, l, e)
           s == SearchAt(p, n, x, no, "descending")
           t == SearchAt(q, n + 1, x, no, "descending")
<1>1. s.pe = p /\ s.length = n
  BY SearchAtIs
<1> HIDE DEF s
<1>2. Visited(s, l, e) = SetLength(SetPe(s, PathWith(s.pe, l, e)), s.length + 1)
  BY Zenon DEF Visited, SetLength, SetPe, PathWith
<1>3. Visited(s, l, e) = SetLength(SetPe(s, q), n + 1)
  BY <1>1, <1>2, Zenon
<1>4. SetPe(s, q) = SearchAt(q, n, x, no, "descending")
  BY SearchAtUpdated DEF s
<1>5. SetLength(SearchAt(q, n, x, no, "descending"), n + 1) = t
  BY SearchAtUpdated
<1>6. Visited(s, l, e) = t
  BY <1>3, <1>4, <1>5
<1>7. SetId(t, y) = SearchAt(q, n + 1, y, no, "descending")
  BY SearchAtUpdated
<1>8. SetFound(t, found) = SearchAt(q, n + 1, x, found, "descending")
  BY SearchAtUpdated
<1>9. SetEnd(SearchAt(q, n + 1, x, found, "descending"), "leaf")
        = SearchAt(q, n + 1, x, found, "leaf")
  BY SearchAtUpdated
<1> HIDE DEF t
<1>10. AtChild(t, y) = SetId(t, y) /\ AtLeaf(t, found) = SetEnd(SetFound(t, found), "leaf")
  BY Zenon DEF AtChild, AtLeaf, SetId, SetFound, SetEnd
<1> QED
  BY <1>6, <1>7, <1>8, <1>9, <1>10 DEF s, Descent, Landed

(* What a visit does at a leaf and at an inner node.                       *)
LEMMA VisitLeaf ==
  ASSUME NEW key, NEW p \in [Levels -> ElementType], NEW n \in Int, NEW x \in DOMAIN disk, NEW no,
         disk[x] \in Nodes, disk[x].level = 0
  PROVE  \E i \in Int : \E found :
           /\ found = BinSearch(disk[x], key).found
           /\ Visit(Descent(p, n, x, no), key)
                = Landed(PathWith(p, 0, Element(x, i, disk[x])), n + 1, x, found)
<1> DEFINE s == Descent(p, n, x, no)
           hit == BinSearch(disk[x], key)
           e == Element(x, hit.position, disk[x])
           q == PathWith(p, 0, e)
<1>1. hit.position \in Int
  <2>1. hit.position \in 0 .. Len(disk[x].items) /\ Len(disk[x].items) \in Nat
    BY LastIs, BinSearchIn
  <2> QED
    BY <2>1
<1>2. s.id = x /\ s.end = "descending"
  BY SearchAtIs DEF Descent
<1> HIDE DEF hit, s
<1>3. Visit(s, key) = AtLeaf(Visited(s, 0, e), hit.found)
  <2>1. s.end = "descending" /\ s.id \in DOMAIN disk =>
          Visit(s, key) = IF IsLeaf(disk[x]) THEN AtLeaf(Visited(s, disk[x].level, e), hit.found)
                          ELSE AtChild(Visited(s, disk[x].level, e), Dc(disk[x], hit.position))
    BY <1>2, VisitIs, Zenon DEF hit
  <2> QED
    BY <1>2, <2>1 DEF IsLeaf, BTREE_LEAF_LEVEL
<1>4. AtLeaf(Visited(s, 0, e), hit.found) = Landed(q, n + 1, x, hit.found)
  <2> HIDE DEF e
  <2> QED
    BY DescentGoesOn DEF s
<1>5. hit.found = BinSearch(disk[x], key).found
  BY DEF hit
<1> QED
  BY <1>1, <1>3, <1>4, <1>5, Zenon DEF s

LEMMA VisitInner ==
  ASSUME NEW key, NEW p \in [Levels -> ElementType], NEW n \in Int, NEW x \in DOMAIN disk, NEW no,
         disk[x] \in Nodes, NEW l, disk[x].level = l, l # 0
  PROVE  \E i \in 0 .. NrKeys(disk[x]) :
           /\ i = BinSearch(disk[x], key).position
           /\ Visit(Descent(p, n, x, no), key)
                = Descent(PathWith(p, l, Element(x, i, disk[x])), n + 1, Dc(disk[x], i), no)
<1> DEFINE s == Descent(p, n, x, no)
           hit == BinSearch(disk[x], key)
           i == hit.position
           e == Element(x, i, disk[x])
           q == PathWith(p, l, e)
<1>1. i \in 0 .. NrKeys(disk[x])
  BY LastIs, BinSearchIn
<1>2. s.id = x /\ s.end = "descending"
  BY SearchAtIs DEF Descent
<1> HIDE DEF i, s
<1>3. Visit(s, key) = AtChild(Visited(s, l, e), Dc(disk[x], i))
  <2>1. s.end = "descending" /\ s.id \in DOMAIN disk =>
          Visit(s, key) = IF IsLeaf(disk[x]) THEN AtLeaf(Visited(s, disk[x].level, e), hit.found)
                          ELSE AtChild(Visited(s, disk[x].level, e), Dc(disk[x], i))
    BY <1>2, VisitIs, Zenon DEF i
  <2> QED
    BY <1>2, <2>1 DEF IsLeaf, BTREE_LEAF_LEVEL
<1>4. AtChild(Visited(s, l, e), Dc(disk[x], i)) = Descent(q, n + 1, Dc(disk[x], i), no)
  <2> DEFINE y == Dc(disk[x], i)
  <2> HIDE DEF e, y
  <2>1. AtChild(Visited(s, l, e), y) = Descent(q, n + 1, y, no)
    BY DescentGoesOn DEF s
  <2> QED
    BY <2>1 DEF y
<1>5. i = BinSearch(disk[x], key).position
  BY DEF i
<1> QED
  BY <1>1, <1>3, <1>4, <1>5, Zenon DEF s

LEMMA VisitDone ==
  ASSUME NEW key, NEW p, NEW n, NEW x, NEW found
  PROVE  Visit(Landed(p, n, x, found), key) = Landed(p, n, x, found)
<1>1. Landed(p, n, x, found).end = "leaf"
  BY SearchAtIs DEF Landed
<1> QED
  BY <1>1, VisitIs

Start == Descent([l \in Levels |-> NoElement], -1, root, FALSE)

SearchRun(key, f) ==
  f = [n \in 0 .. BPLUS_MAX_HEIGHT |-> IF n = 0 THEN Start ELSE Visit(f[n - 1], key)]

LEMMA SearchIs ==
  ASSUME NEW key
  PROVE  Search(key) = (CHOOSE f : SearchRun(key, f))[BPLUS_MAX_HEIGHT]
BY Zenon DEF Search, SearchRun, Start, Descent, SearchAt

(* No more than five nodes are visited.                                    *)
LEMMA FiveVisits ==
  ASSUME NEW key, NEW s1, NEW s2, NEW s3, NEW s4, NEW s5, s1 = Visit(Start, key),
         s2 = Visit(s1, key), s3 = Visit(s2, key), s4 = Visit(s3, key), s5 = Visit(s4, key)
  PROVE  Search(key) = s5
<1> DEFINE s0 == Start
           g == [n \in 0 .. 5 |-> IF n = 0 THEN s0 ELSE IF n = 1 THEN s1
                                  ELSE IF n = 2 THEN s2 ELSE IF n = 3 THEN s3
                                  ELSE IF n = 4 THEN s4 ELSE s5]
           Run(f) == f = [n \in 0 .. 5 |-> IF n = 0 THEN s0 ELSE Visit(f[n - 1], key)]
<1> HIDE DEF s0
<1>0. \A n \in 0 .. 5 : n = 0 \/ n = 1 \/ n = 2 \/ n = 3 \/ n = 4 \/ n = 5
  OBVIOUS
<1>1. g[0] = s0 /\ g[1] = s1 /\ g[2] = s2 /\ g[3] = s3 /\ g[4] = s4 /\ g[5] = s5
  OBVIOUS
<1>2. g = [n \in 0 .. 5 |-> g[n]]
  OBVIOUS
<1> HIDE DEF g
<1>3. ASSUME NEW n \in 0 .. 5
      PROVE  g[n] = IF n = 0 THEN s0 ELSE Visit(g[n - 1], key)
  <2>1. /\ s1 = Visit(s0, key) /\ s2 = Visit(s1, key) /\ s3 = Visit(s2, key)
        /\ s4 = Visit(s3, key) /\ s5 = Visit(s4, key)
    BY DEF s0
  <2> QED
    BY <1>0, <1>1, <2>1
<1>4. Run(g)
  <2> DEFINE h == [n \in 0 .. 5 |-> IF n = 0 THEN s0 ELSE Visit(g[n - 1], key)]
  <2>1. \A n \in 0 .. 5 : g[n] = h[n]
    BY <1>3
  <2>2. h = [n \in 0 .. 5 |-> h[n]]
    OBVIOUS
  <2> HIDE DEF h
  <2>3. g = h
    BY <1>2, <2>1, <2>2
  <2> QED
    BY <2>3, Zenon DEF h
<1> DEFINE f == CHOOSE c : Run(c)
<1>5. Run(f)
  <2> HIDE DEF Run
  <2> QED
    BY <1>4, Zenon
<1> HIDE DEF f
<1>6. f[0] = s0 /\ \A n \in 1 .. 5 : f[n] = Visit(f[n - 1], key)
  <2>1. ASSUME NEW n \in 0 .. 5 PROVE f[n] = IF n = 0 THEN s0 ELSE Visit(f[n - 1], key)
    BY <1>5, Zenon
  <2> QED
    BY <2>1
<1>7. f[1] = s1
  BY <1>6 DEF s0
<1>8. f[2] = s2
  BY <1>6, <1>7
<1>9. f[3] = s3
  BY <1>6, <1>8
<1>10. f[4] = s4
  BY <1>6, <1>9
<1>11. f[5] = s5
  BY <1>6, <1>10
<1>12. Search(key) = f[5]
  BY SearchIs, Zenon DEF SearchRun, BPLUS_MAX_HEIGHT, f, s0
<1> QED
  BY <1>11, <1>12

(* A node put on the path leaves the others.                               *)
LEMMA PathWithIs ==
  ASSUME NEW p \in [Levels -> ElementType], NEW l \in Levels, NEW x \in DOMAIN disk,
         DiskOK(disk), NEW i \in Int, NEW e, e = Element(x, i, disk[x]), NEW q, q = PathWith(p, l, e)
  PROVE  /\ q \in [Levels -> ElementType] /\ q[l] = e
         /\ \A j \in Levels : j # l => q[j] = p[j]
         /\ e.id = x /\ e.position = i /\ e.node = disk[x] /\ x # 0
<1>1. x \in NodeIds /\ x # 0 /\ disk[x] \in NodeType
  BY BPlusTreeAssumption DEF DiskOK, Nodes
<1>2. e \in ElementType /\ e.id = x /\ e.position = i /\ e.node = disk[x]
  BY <1>1 DEF ElementType, Element
<1> QED
  BY <1>1, <1>2 DEF PathWith

LEMMA ChildOf ==
  ASSUME DiskOK(disk), NEW x \in DOMAIN disk, disk[x].level # 0, NEW i \in 0 .. NrKeys(disk[x])
  PROVE  /\ Dc(disk[x], i) \in LinksOf(disk[x])
         /\ Dc(disk[x], i) \in DOMAIN disk
         /\ disk[Dc(disk[x], i)].level = Below(disk[x].level)
<1>1. Dc(disk[x], i) \in LinksOf(disk[x])
  BY DEF LinksOf, IsLeaf, BTREE_LEAF_LEVEL
<1> QED
  BY <1>1 DEF DiskOK, Hangs

LEMMA DiskNode ==
  ASSUME DiskOK(disk), NEW x \in DOMAIN disk
  PROVE  /\ x \in NodeIds /\ x # 0 /\ disk[x] \in Nodes /\ disk[x].level \in 0 .. 3
         /\ disk[x].level # 0 => NrKeys(disk[x]) \in Nat
<1>1. x \in NodeIds /\ disk[x] \in Nodes
  BY DEF DiskOK
<1>2. disk[x] \in NodeType /\ NodeOK(disk[x])
  BY <1>1 DEF Nodes
<1>3. disk[x].level \in 0 .. 3
  BY <1>2 DEF NodeType, NodeOK, Levels, BPLUS_MAX_HEIGHT
<1> QED
  BY <1>1, <1>2, <1>3, BPlusTreeAssumption, BPlusNodeAssumption DEF NodeOK

LEMMA PathWithLeaf ==
  ASSUME NEW p \in [Levels -> ElementType], NEW x \in DOMAIN disk, DiskOK(disk),
         NEW i, i \in Int, NEW e, e = Element(x, i, disk[x]), NEW q, q = PathWith(p, 0, e)
  PROVE  /\ q \in [Levels -> ElementType] /\ q[0] = e
         /\ \A j \in Levels : j # 0 => q[j] = p[j]
         /\ e.id = x /\ e.position = i /\ e.node = disk[x] /\ x # 0
<1>1. x \in NodeIds /\ x # 0 /\ disk[x] \in NodeType
  BY BPlusTreeAssumption DEF DiskOK, Nodes
<1>2. e \in ElementType /\ e.id = x /\ e.position = i /\ e.node = disk[x]
  BY <1>1 DEF ElementType, Element
<1>3. 0 \in Levels
  BY DEF Levels, BPLUS_MAX_HEIGHT
<1> QED
  BY <1>1, <1>2, <1>3 DEF PathWith

(* The path goes where bin_search in its nodes points to.                  *)
Aimed(p, found, key) ==
  /\ found = BinSearch(disk[p[0].id], key).found
  /\ disk[root].level = 0 => p[0].id = root
  /\ disk[root].level = 1 => p[0].id = Dc(disk[root], BinSearch(disk[root], key).position)

LEMMA Landing ==
  ASSUME NEW s, NEW p, NEW n, NEW x, NEW found, s = Landed(p, n, x, found), PathOK(p, n),
         NEW key, Aimed(p, found, key)
  PROVE  s.end = "leaf" /\ PathOK(s.pe, s.length) /\ Aimed(s.pe, s.found, key)
<1>1. s.end = "leaf" /\ s.pe = p /\ s.length = n /\ s.found = found
  BY SearchAtIs DEF Landed
<1> QED
  BY <1>1

(* A search of a disk in order ends in a leaf.                             *)
LEMMA SearchLands ==
  ASSUME NEW key, DiskOK(disk), root \in DOMAIN disk
  PROVE  /\ Search(key).end = "leaf" /\ PathOK(Search(key).pe, Search(key).length)
         /\ Aimed(Search(key).pe, Search(key).found, key)
<1> DEFINE none == [l \in Levels |-> NoElement]
           V(s) == Visit(s, key)
<1>0. Levels = 0 .. 4
  BY DEF Levels, BPLUS_MAX_HEIGHT
<1>1. PICK no : no = FALSE
  OBVIOUS
<1>2. Start = Descent(none, -1, root, no)
  BY <1>1 DEF Start
<1>3. none \in [Levels -> ElementType] /\ \A l \in Levels : none[l].id = 0
  <2>1. NoElement \in ElementType /\ NoElement.id = 0
    <3>1. FormattedNode \in NodeType
      BY <1>0, BPlusNodeAssumption DEF FormattedNode, NodeType, BTREE_LEAF_LEVEL
    <3> QED
      BY <3>1 DEF NoElement, ElementType
  <2> QED
    BY <2>1
<1>4. /\ root # 0 /\ disk[root] \in Nodes
      /\ disk[root].level \in 0 .. 3
      /\ disk[root].level # 0 => NrKeys(disk[root]) \in Nat
  BY DiskNode
<1> HIDE DEF none
<1>5. CASE disk[root].level = 0
  <2>1. PICK i, found :
          i \in Int /\ found = BinSearch(disk[root], key).found
          /\ V(Start) = Landed(PathWith(none, 0, Element(root, i, disk[root])), -1 + 1, root, found)
    BY <1>2, <1>3, <1>4, <1>5, VisitLeaf
  <2> DEFINE e == Element(root, i, disk[root])
             q == PathWith(none, 0, e)
             s == Landed(q, 0, root, found)
  <2>2. /\ q \in [Levels -> ElementType] /\ q[0] = e /\ \A j \in Levels : j # 0 => q[j] = none[j]
        /\ e.id = root /\ e.node = disk[root] /\ e.position = i
    <3>1. e = Element(root, i, disk[root]) /\ q = PathWith(none, 0, e) /\ 0 \in Levels
      BY <1>0
    <3> HIDE DEF e, q
    <3>2. none \in [Levels -> ElementType] /\ root \in DOMAIN disk /\ i \in Int
      BY <1>3, <2>1
    <3> QED
      BY <3>1, <3>2, <1>0, PathWithLeaf
  <2> HIDE DEF q, e
  <2>3. PathOK(q, 0)
    BY <1>0, <1>3, <1>4, <1>5, <2>2 DEF PathOK, OnPath
  <2>4. -1 + 1 = 0
    OBVIOUS
  <2>5. V(Start) = s
    BY <2>1, <2>4 DEF q, e
  <2>6. V(s) = s
    BY VisitDone
  <2> HIDE DEF s
  <2>7. Search(key) = s
    BY <2>5, <2>6, FiveVisits
  <2>8. Aimed(q, found, key)
    BY <1>5, <2>1, <2>2 DEF Aimed
  <2> QED
    BY <2>3, <2>7, <2>8, Landing DEF s
<1>6. CASE disk[root].level = 1
  <2>1. PICK i \in 0 .. NrKeys(disk[root]) :
          i = BinSearch(disk[root], key).position
          /\ V(Start) = Descent(PathWith(none, 1, Element(root, i, disk[root])), -1 + 1, Dc(disk[root], i), no)
    BY <1>2, <1>3, <1>4, <1>6, VisitInner
  <2> DEFINE e == Element(root, i, disk[root])
             q == PathWith(none, 1, e)
             y == Dc(disk[root], i)
             s1 == Descent(q, 0, y, no)
  <2>2. /\ q \in [Levels -> ElementType] /\ q[1] = e /\ \A j \in Levels : j # 1 => q[j] = none[j]
        /\ e.id = root /\ e.node = disk[root] /\ e.position = i
    BY <1>0, <1>3, <1>4, PathWithIs
  <2>3. y \in LinksOf(disk[root]) /\ y \in DOMAIN disk /\ disk[y].level = 0
    BY <1>6, ChildOf DEF Below
  <2>4. -1 + 1 = 0
    OBVIOUS
  <2>5. V(Start) = s1
    BY <2>1, <2>4
  <2> HIDE DEF q, e, y
  <2>6. disk[y] \in Nodes /\ y # 0
    BY <2>3, DiskNode
  <2>7. PICK k, found :
          k \in Int /\ found = BinSearch(disk[y], key).found
          /\ V(s1) = Landed(PathWith(q, 0, Element(y, k, disk[y])), 0 + 1, y, found)
    BY <2>2, <2>3, <2>6, VisitLeaf
  <2> DEFINE f == Element(y, k, disk[y])
             r == PathWith(q, 0, f)
             s == Landed(r, 1, y, found)
  <2>8. /\ r \in [Levels -> ElementType] /\ r[0] = f /\ \A j \in Levels : j # 0 => r[j] = q[j]
        /\ f.id = y /\ f.node = disk[y] /\ f.position = k
    <3>1. f = Element(y, k, disk[y]) /\ r = PathWith(q, 0, f) /\ 0 \in Levels
      BY <1>0
    <3> HIDE DEF f, r
    <3>2. q \in [Levels -> ElementType] /\ y \in DOMAIN disk /\ k \in Int
      BY <2>2, <2>3, <2>7
    <3> QED
      BY <3>1, <3>2, <1>0, PathWithLeaf
  <2> HIDE DEF r, f
  <2>9. PathOK(r, 1)
    BY <1>0, <1>3, <1>4, <1>6, <2>2, <2>3, <2>6, <2>8 DEF PathOK, OnPath
  <2>10. V(s1) = s
    BY <2>7 DEF r, f
  <2>11. V(s) = s
    BY VisitDone
  <2> HIDE DEF s, s1
  <2>12. Search(key) = s
    BY <2>5, <2>10, <2>11, FiveVisits
  <2>13. Aimed(r, found, key)
    <3>1. y = Dc(disk[root], BinSearch(disk[root], key).position)
      BY <2>1 DEF y
    <3> QED
      BY <1>6, <2>7, <2>8, <3>1 DEF Aimed
  <2> QED
    BY <2>9, <2>12, <2>13, Landing DEF s
<1>7. CASE disk[root].level = 2 \/ disk[root].level = 3
  <2> DEFINE t == disk[root].level
  <2>0. t \in Levels /\ t # 0 /\ t # 1 /\ t > 1 /\ Below(t) = 1
    BY <1>0, <1>7 DEF Below
  <2>1. PICK i \in 0 .. NrKeys(disk[root]) :
          i = BinSearch(disk[root], key).position
          /\ V(Start) = Descent(PathWith(none, t, Element(root, i, disk[root])), -1 + 1, Dc(disk[root], i), no)
    BY <1>2, <1>3, <1>4, <2>0, VisitInner
  <2> DEFINE e == Element(root, i, disk[root])
             q == PathWith(none, t, e)
             y == Dc(disk[root], i)
             s1 == Descent(q, 0, y, no)
  <2>2. /\ q \in [Levels -> ElementType] /\ q[t] = e /\ \A j \in Levels : j # t => q[j] = none[j]
        /\ e.id = root /\ e.node = disk[root] /\ e.position = i
    BY <1>3, <1>4, <2>0, PathWithIs
  <2>3. y \in LinksOf(disk[root]) /\ y \in DOMAIN disk /\ disk[y].level = 1
    BY <2>0, ChildOf
  <2>4. -1 + 1 = 0
    OBVIOUS
  <2>5. V(Start) = s1
    BY <2>1, <2>4
  <2> HIDE DEF q, e, y
  <2>6. disk[y] \in Nodes /\ y # 0 /\ NrKeys(disk[y]) \in Nat
    BY <2>3, DiskNode
  <2>7. PICK j \in 0 .. NrKeys(disk[y]) :
          j = BinSearch(disk[y], key).position
          /\ V(s1) = Descent(PathWith(q, 1, Element(y, j, disk[y])), 0 + 1, Dc(disk[y], j), no)
    BY <2>2, <2>3, <2>6, VisitInner
  <2> DEFINE f == Element(y, j, disk[y])
             r == PathWith(q, 1, f)
             z == Dc(disk[y], j)
             s2 == Descent(r, 1, z, no)
  <2>8. /\ r \in [Levels -> ElementType] /\ r[1] = f /\ \A l \in Levels : l # 1 => r[l] = q[l]
        /\ f.id = y /\ f.node = disk[y] /\ f.position = j
    BY <1>0, <2>2, <2>3, <2>6, PathWithIs
  <2>9. z \in LinksOf(disk[y]) /\ z \in DOMAIN disk /\ disk[z].level = 0
    BY <2>3, ChildOf DEF Below
  <2>10. V(s1) = s2
    BY <2>7
  <2> HIDE DEF r, f, z, s1
  <2>11. disk[z] \in Nodes /\ z # 0
    BY <2>9, DiskNode
  <2>12. PICK k, found :
          k \in Int /\ found = BinSearch(disk[z], key).found
          /\ V(s2) = Landed(PathWith(r, 0, Element(z, k, disk[z])), 1 + 1, z, found)
    BY <2>8, <2>9, <2>11, VisitLeaf
  <2> DEFINE g == Element(z, k, disk[z])
             o == PathWith(r, 0, g)
             s == Landed(o, 2, z, found)
  <2>13. /\ o \in [Levels -> ElementType] /\ o[0] = g /\ \A l \in Levels : l # 0 => o[l] = r[l]
         /\ g.id = z /\ g.node = disk[z] /\ g.position = k
    <3>1. g = Element(z, k, disk[z]) /\ o = PathWith(r, 0, g) /\ 0 \in Levels
      BY <1>0
    <3> HIDE DEF g, o
    <3>2. r \in [Levels -> ElementType] /\ z \in DOMAIN disk /\ k \in Int
      BY <2>8, <2>9, <2>12
    <3> QED
      BY <3>1, <3>2, <1>0, PathWithLeaf
  <2> HIDE DEF o, g
  <2>14. /\ o[t] = e /\ o[1] = f /\ o[0] = g
         /\ \A l \in Levels : l # 0 /\ l # 1 /\ l # t => o[l].id = 0
    BY <1>0, <1>3, <2>0, <2>2, <2>8, <2>13
  <2>15. OnPath(t, o[t]) /\ OnPath(1, o[1]) /\ OnPath(0, o[0])
    BY <2>0, <2>2, <2>3, <2>8, <2>9, <2>13, <2>14 DEF OnPath
  <2> HIDE DEF t
  <2>16. \A l \in Levels : o[l].id # 0 => OnPath(l, o[l])
    BY <2>14, <2>15
  <2>17. PathOK(o, 2)
    <3>1. CASE t = 2
      BY <1>0, <2>2, <2>3, <2>6, <2>8, <2>9, <2>11, <2>13, <2>14, <2>16, <3>1 DEF PathOK
    <3>2. CASE t = 3
      BY <1>0, <2>2, <2>3, <2>6, <2>8, <2>9, <2>11, <2>13, <2>14, <2>16, <3>2 DEF PathOK
    <3> QED
      BY <1>7, <3>1, <3>2 DEF t
  <2>18. V(s2) = s
    BY <2>12 DEF o, g
  <2>19. V(s) = s
    BY VisitDone
  <2> HIDE DEF s, s2
  <2>20. Search(key) = s
    BY <2>5, <2>10, <2>18, <2>19, FiveVisits
  <2>21. Aimed(o, found, key)
    BY <1>7, <2>12, <2>13 DEF Aimed
  <2> QED
    BY <2>17, <2>20, <2>21, Landing DEF s
<1> QED
  BY <1>4, <1>5, <1>6, <1>7

-----------------------------------------------------------------------------
(* Memories.                                                               *)
LEMMA MemIs ==
  ASSUME NEW d, NEW r, NEW p, NEW n, NEW le, NEW ri, NEW ok
  PROVE  /\ Mem(d, r, p, n, le, ri, ok).disk = d /\ Mem(d, r, p, n, le, ri, ok).root = r
         /\ Mem(d, r, p, n, le, ri, ok).pe = p /\ Mem(d, r, p, n, le, ri, ok).length = n
         /\ Mem(d, r, p, n, le, ri, ok).left = le /\ Mem(d, r, p, n, le, ri, ok).right = ri
         /\ Mem(d, r, p, n, le, ri, ok).ok = ok
         /\ IsMem(Mem(d, r, p, n, le, ri, ok))
BY DEF Mem, IsMem

SetDisk(m, v) == [m EXCEPT !.disk = v]
SetRoot(m, v) == [m EXCEPT !.root = v]
SetPath(m, v) == [m EXCEPT !.pe = v]
SetHeight(m, v) == [m EXCEPT !.length = v]
SetLeft(m, v) == [m EXCEPT !.left = v]
SetRight(m, v) == [m EXCEPT !.right = v]
SetOk(m, v) == [m EXCEPT !.ok = v]

LEMMA MemUpdated ==
  ASSUME NEW d, NEW r, NEW p, NEW n, NEW le, NEW ri, NEW ok, NEW v
  PROVE  /\ SetDisk(Mem(d, r, p, n, le, ri, ok), v) = Mem(v, r, p, n, le, ri, ok)
         /\ SetRoot(Mem(d, r, p, n, le, ri, ok), v) = Mem(d, v, p, n, le, ri, ok)
         /\ SetPath(Mem(d, r, p, n, le, ri, ok), v) = Mem(d, r, v, n, le, ri, ok)
         /\ SetHeight(Mem(d, r, p, n, le, ri, ok), v) = Mem(d, r, p, v, le, ri, ok)
         /\ SetLeft(Mem(d, r, p, n, le, ri, ok), v) = Mem(d, r, p, n, v, ri, ok)
         /\ SetRight(Mem(d, r, p, n, le, ri, ok), v) = Mem(d, r, p, n, le, v, ok)
         /\ SetOk(Mem(d, r, p, n, le, ri, ok), v) = Mem(d, r, p, n, le, ri, v)
BY DEF Mem, SetDisk, SetRoot, SetPath, SetHeight, SetLeft, SetRight, SetOk

WithItems(e, items) == [e EXCEPT !.node.items = items]
WithNode(e, node) == [e EXCEPT !.node = node]

Updates(m, d, r, p, n, le, ri, ok) ==
  /\ \A no : no = FALSE => Failed(m) = Mem(d, r, p, n, le, ri, no)
  /\ \A v : WithDisk(m, v) = Mem(v, r, p, n, le, ri, ok)
  /\ \A l, v : WithLeft(m, l, v) = Mem(d, r, p, n, PathWith(le, l, v), ri, ok)
  /\ \A l, v : WithRight(m, l, v) = Mem(d, r, p, n, le, PathWith(ri, l, v), ok)
  /\ \A v : WithLeaf(m, v) = Mem(d, r, PathWith(p, 0, WithItems(p[0], v)), n, le, ri, ok)
  /\ \A v : WithParent(m, v) = Mem(d, r, PathWith(p, 1, WithNode(p[1], v)), n, le, ri, ok)
  /\ \A x, v : WithRoot(m, x, v)
                 = Mem(d, x, PathWith(p, n + 1, Element(x, 0, v)), n + 1, le, ri, ok)

LEMMA MemWith ==
  ASSUME NEW d, NEW r, NEW p, NEW n, NEW le, NEW ri, NEW ok, NEW m,
         m = Mem(d, r, p, n, le, ri, ok)
  PROVE  Updates(m, d, r, p, n, le, ri, ok)
<1>1. m.pe = p /\ m.length = n /\ m.left = le /\ m.right = ri
  BY MemIs
<1>2. ASSUME NEW no, no = FALSE PROVE Failed(m) = Mem(d, r, p, n, le, ri, no)
  <2>1. Failed(m) = SetOk(m, no)
    BY <1>2 DEF Failed, SetOk
  <2> QED
    BY <2>1, MemUpdated
<1>3. ASSUME NEW v PROVE WithDisk(m, v) = Mem(v, r, p, n, le, ri, ok)
  <2>1. WithDisk(m, v) = SetDisk(m, v)
    BY Zenon DEF WithDisk, SetDisk
  <2> QED
    BY <2>1, MemUpdated
<1>4. ASSUME NEW l, NEW v
      PROVE  WithLeft(m, l, v) = Mem(d, r, p, n, PathWith(le, l, v), ri, ok)
  <2>1. WithLeft(m, l, v) = SetLeft(m, PathWith(m.left, l, v))
    BY Zenon DEF WithLeft, SetLeft, PathWith
  <2> QED
    BY <1>1, <2>1, MemUpdated
<1>5. ASSUME NEW l, NEW v
      PROVE  WithRight(m, l, v) = Mem(d, r, p, n, le, PathWith(ri, l, v), ok)
  <2>1. WithRight(m, l, v) = SetRight(m, PathWith(m.right, l, v))
    BY Zenon DEF WithRight, SetRight, PathWith
  <2> QED
    BY <1>1, <2>1, MemUpdated
<1>6. ASSUME NEW v
      PROVE  WithLeaf(m, v) = Mem(d, r, PathWith(p, 0, WithItems(p[0], v)), n, le, ri, ok)
  <2>1. WithLeaf(m, v) = SetPath(m, PathWith(m.pe, 0, WithItems(m.pe[0], v)))
    BY Zenon DEF WithLeaf, SetPath, PathWith, WithItems
  <2> QED
    BY <1>1, <2>1, MemUpdated
<1>7. ASSUME NEW v
      PROVE  WithParent(m, v) = Mem(d, r, PathWith(p, 1, WithNode(p[1], v)), n, le, ri, ok)
  <2>1. WithParent(m, v) = SetPath(m, PathWith(m.pe, 1, WithNode(m.pe[1], v)))
    BY Zenon DEF WithParent, SetPath, PathWith, WithNode
  <2> QED
    BY <1>1, <2>1, MemUpdated
<1>8. ASSUME NEW x, NEW v
      PROVE  WithRoot(m, x, v)
               = Mem(d, x, PathWith(p, n + 1, Element(x, 0, v)), n + 1, le, ri, ok)
  <2> DEFINE e == Element(x, 0, v)
             m1 == SetRoot(m, x)
             m2 == SetHeight(m1, m.length + 1)
  <2>1. WithRoot(m, x, v) = SetPath(m2, PathWith(m.pe, m.length + 1, e))
    <3>1. m1 = Mem(d, x, p, n, le, ri, ok) /\ m2 = Mem(d, x, p, n + 1, le, ri, ok)
      BY <1>1, MemUpdated
    <3>2. m1.length = m.length /\ m2.pe = m.pe
      BY <1>1, <3>1, MemIs
    <3>3. WithRoot(m, x, v)
            = [[[m EXCEPT !.root = x] EXCEPT !.length = @ + 1] EXCEPT !.pe[m.length + 1] = e]
      BY Zenon DEF WithRoot
    <3>4. [[m EXCEPT !.root = x] EXCEPT !.length = @ + 1] = m2
      BY <3>2, Zenon DEF SetRoot, SetHeight
    <3>5. [m2 EXCEPT !.pe[m.length + 1] = e] = SetPath(m2, PathWith(m2.pe, m.length + 1, e))
      BY Zenon DEF SetPath, PathWith
    <3> QED
      BY <3>2, <3>3, <3>4, <3>5, Zenon
  <2>2. m2 = Mem(d, x, p, n + 1, le, ri, ok)
    BY <1>1, MemUpdated
  <2> HIDE DEF m2, e
  <2> QED
    BY <1>1, <2>1, <2>2, MemUpdated DEF e
<1> QED
  BY <1>2, <1>3, <1>4, <1>5, <1>6, <1>7, <1>8, Zenon DEF Updates

-----------------------------------------------------------------------------
(* The neighbours read from disk.                                          *)
Read(l, s) ==
  \/ s = <<>>
  \/ \E x \in DOMAIN disk : s = <<Element(x, 0, disk[x])>> /\ Hangs(disk, x, l)

NbType == [Levels -> Seq(ElementType)]
AllRead(nb) == nb \in NbType /\ \A l \in Levels : Read(l, nb[l])

Tb(m, p, n) ==
  \E le, ri, ok : m = Mem(disk, root, p, n, le, ri, ok) /\ AllRead(le) /\ AllRead(ri)

LEMMA AllReadWith ==
  ASSUME DiskOK(disk), NEW nb, AllRead(nb), NEW l \in Levels, NEW v, Read(l, v)
  PROVE  AllRead(PathWith(nb, l, v))
<1>1. v \in Seq(ElementType)
  <2>1. CASE v = <<>>
    BY <2>1
  <2>2. CASE v # <<>>
    <3>1. PICK x \in DOMAIN disk : v = <<Element(x, 0, disk[x])>>
      BY <2>2 DEF Read
    <3>2. x \in NodeIds /\ disk[x] \in NodeType
      BY DEF DiskOK, Nodes
    <3>3. Element(x, 0, disk[x]) \in ElementType
      BY <3>2 DEF Element, ElementType
    <3> QED
      BY <3>1, <3>3
  <2> QED
    BY <2>1, <2>2
<1> QED
  BY <1>1 DEF AllRead, NbType, PathWith

(* A neighbour has the level of the node.                                  *)
LEMMA NeighbourRead ==
  ASSUME DiskOK(disk), NEW p, NEW n, PathOK(p, n), NEW level \in Levels,
         level \in 0 .. n - 1, \A l \in 1 .. n : p[l].id # 0,
         NEW i, i = p[level + 1].position - 1 \/ i = p[level + 1].position + 1,
         NEW x, x = Dc(p[level + 1].node, i), x \in DOMAIN disk
  PROVE  Hangs(disk, x, level)
<1>0. Levels = 0 .. 4
  BY DEF Levels, BPLUS_MAX_HEIGHT
<1>1. n \in 0 .. 2 /\ level + 1 \in 1 .. n
  BY DEF PathOK
<1>2. p[level + 1].id # 0 /\ level + 1 \in Levels
  BY <1>0, <1>1
<1> DEFINE e == p[level + 1]
           node == e.node
           k == NrKeys(node)
           pos == e.position
<1>3. e.id \in DOMAIN disk /\ node = disk[e.id] /\ node.level = level + 1
      /\ pos \in 0 .. k
  BY <1>1, <1>2 DEF PathOK, OnPath
<1>4. node \in Nodes /\ node.level # 0
  BY <1>1, <1>3 DEF DiskOK
<1>5. k \in 1 .. MAX_KEYS /\ KeysOK(node) /\ DcsOK(node, k) /\ MAX_KEYS \in Nat
  BY <1>4, BPlusNodeAssumption DEF Nodes, NodeOK
<1>6. x = Dc(node, i) /\ (i = pos - 1 \/ i = pos + 1)
  OBVIOUS
<1>7. x \in NodeIds /\ x # 0 /\ x \notin Keys
  BY BPlusTreeAssumption DEF DiskOK
<1> HIDE DEF k, node, e, pos
<1>8. i \in 0 .. k
  <2>1. CASE i = -1
    <3>1. x = node.word[MAX_KEYS + -1]
      BY <1>6, <2>1 DEF Dc
    <3>2. MAX_KEYS + -1 \in 0 .. MAX_KEYS - 1
      BY BPlusNodeAssumption
    <3> QED
      BY <1>5, <1>7, <3>1, <3>2 DEF KeysOK
  <2>2. CASE i = k + 1
    <3>1. k + 1 \in k + 1 .. MAX_DC
      BY <1>5 DEF MAX_DC
    <3>2. Dc(node, k + 1) = 0
      BY <1>5, <3>1 DEF DcsOK
    <3> QED
      BY <1>6, <1>7, <2>2, <3>2
  <2>3. k \in Nat /\ pos \in Int /\ 0 <= pos /\ pos <= k
    BY <1>3, <1>5
  <2> QED
    BY <1>6, <2>1, <2>2, <2>3
<1>9. x \in LinksOf(node)
  BY <1>4, <1>6, <1>8 DEF LinksOf, IsLeaf, BTREE_LEAF_LEVEL, k
<1>10. Hangs(disk, x, Below(level + 1))
  BY <1>3, <1>9 DEF DiskOK
<1>11. Below(level + 1) = level
  BY <1>1 DEF Below
<1> QED
  BY <1>10, <1>11

(* A neighbour read is on disk, at the level of the node it is next to.    *)
LEMMA SideRead ==
  ASSUME DiskOK(disk), NEW p, NEW n, PathOK(p, n), NEW level \in Levels,
         level \in 0 .. n - 1, \A l \in 1 .. n : p[l].id # 0,
         NEW m, Tb(m, p, n), NEW side, side \in {"left", "right"}, NEW errno
  PROVE  Tb(ReadNeighbour(m, level, side, errno), p, n)
<1>1. PICK le, ri, ok : m = Mem(disk, root, p, n, le, ri, ok) /\ AllRead(le) /\ AllRead(ri)
  BY DEF Tb
<1>2. m.pe = p /\ m.disk = disk
  BY <1>1, MemIs
<1> DEFINE parent == m.pe[level + 1]
           i == parent.position + IF side = "left" THEN -1 ELSE 1
           id == Dc(parent.node, i)
           read == <<Element(id, 0, m.disk[id])>>
<1>3. CASE id \in DOMAIN disk
  <2>1. i = p[level + 1].position - 1 \/ i = p[level + 1].position + 1
    <3>1. level + 1 \in Levels /\ p[level + 1].id # 0
      BY DEF PathOK, Levels, BPLUS_MAX_HEIGHT
    <3>2. parent.position \in Int
      BY <1>2, <3>1 DEF PathOK, ElementType
    <3> QED
      BY <1>2, <3>2
  <2>2. id = Dc(p[level + 1].node, i)
    BY <1>2
  <2> HIDE DEF i, id
  <2>3. Hangs(disk, id, level)
    BY <1>3, <2>1, <2>2, NeighbourRead
  <2>4. Read(level, read)
    BY <1>2, <1>3, <2>3 DEF Read
  <2>5. ReadNeighbour(m, level, side, errno)
          = IF side = "left" THEN WithLeft(m, level, read) ELSE WithRight(m, level, read)
    BY <1>2, <1>3 DEF ReadNeighbour, i, id
  <2> HIDE DEF read
  <2>6. AllRead(PathWith(le, level, read)) /\ AllRead(PathWith(ri, level, read))
    BY <1>1, <2>4, AllReadWith
  <2>9. Updates(m, disk, root, p, n, le, ri, ok)
    BY <1>1, MemWith
  <2>7. /\ WithLeft(m, level, read) = Mem(disk, root, p, n, PathWith(le, level, read), ri, ok)
        /\ WithRight(m, level, read) = Mem(disk, root, p, n, le, PathWith(ri, level, read), ok)
    BY <2>9 DEF Updates
  <2>8. Tb(WithLeft(m, level, read), p, n) /\ Tb(WithRight(m, level, read), p, n)
    BY <1>1, <2>6, <2>7 DEF Tb
  <2> QED
    BY <2>5, <2>8
<1>4. CASE id \notin DOMAIN disk
  <2>1. ReadNeighbour(m, level, side, errno) = m \/ ReadNeighbour(m, level, side, errno) = Failed(m)
    BY <1>2, <1>4 DEF ReadNeighbour
  <2>2. PICK no : no = FALSE
    OBVIOUS
  <2>3. Failed(m) = Mem(disk, root, p, n, le, ri, no)
    <3>1. Updates(m, disk, root, p, n, le, ri, ok)
      BY <1>1, MemWith
    <3> QED
      BY <2>2, <3>1 DEF Updates
  <2>4. Tb(Failed(m), p, n)
    BY <1>1, <2>3 DEF Tb
  <2> QED
    BY <2>1, <2>4
<1> QED
  BY <1>3, <1>4

LEMMA LevelRead ==
  ASSUME DiskOK(disk), NEW p, NEW n, PathOK(p, n), NEW level \in Levels,
         \A l \in 1 .. n : p[l].id # 0, NEW m, Tb(m, p, n), NEW errno
  PROVE  Tb(ReadLevel(m, level, errno), p, n)
<1> DEFINE left == IF HasLeftKey(m, level)
                   THEN ReadNeighbour(m, level, "left", errno) ELSE m
           both == IF HasRightKey(left, level)
                   THEN ReadNeighbour(left, level, "right", errno) ELSE left
<1>0. n \in 0 .. 2 /\ level \in 0 .. 4
  BY DEF PathOK, Levels, BPLUS_MAX_HEIGHT
<1>1. \A t : Tb(t, p, n) => t.length = n
  BY MemIs DEF Tb
<1>2. ASSUME NEW t, Tb(t, p, n), HasLeftKey(t, level) \/ HasRightKey(t, level)
      PROVE  level \in 0 .. n - 1
  <2>1. \E l \in level + 1 .. n : TRUE
    BY <1>1, <1>2 DEF HasLeftKey, HasRightKey
  <2> QED
    BY <1>0, <2>1
<1>3. Tb(left, p, n)
  BY <1>2, SideRead
<1> HIDE DEF left
<1>4. Tb(both, p, n)
  BY <1>2, <1>3, SideRead
<1>5. ReadLevel(m, level, errno) = IF level <= m.length THEN both ELSE m
  BY Zenon DEF ReadLevel, left, both
<1> HIDE DEF both
<1> QED
  BY <1>4, <1>5

ReadRun(m, errno, f) ==
  f = [n \in 0 .. BPLUS_MAX_HEIGHT |->
         IF n = 0 THEN m ELSE ReadLevel(f[n - 1], n - 1, errno)]

LEMMA InitTbIs ==
  ASSUME NEW m, NEW errno
  PROVE  InitTb(m, errno) = IF \E l \in 1 .. m.length : m.pe[l].id = 0 THEN Failed(m)
                            ELSE (CHOOSE f : ReadRun(m, errno, f))[BPLUS_MAX_HEIGHT]
BY Zenon DEF InitTb, ReadRun

(* All that is read lies on the disk, at its level.                        *)
LEMMA TbRead ==
  ASSUME DiskOK(disk), NEW p, NEW n, PathOK(p, n), \A l \in 1 .. n : p[l].id # 0,
         NEW m, Tb(m, p, n), NEW errno
  PROVE  Tb(InitTb(m, errno), p, n)
<1> DEFINE R(t, l) == ReadLevel(t, l, errno)
           s0 == m
           s1 == R(s0, 0)
           s2 == R(s1, 1)
           s3 == R(s2, 2)
           s4 == R(s3, 3)
           s5 == R(s4, 4)
           g == [k \in 0 .. 5 |-> IF k = 0 THEN s0 ELSE IF k = 1 THEN s1
                                  ELSE IF k = 2 THEN s2 ELSE IF k = 3 THEN s3
                                  ELSE IF k = 4 THEN s4 ELSE s5]
           Run(f) == f = [k \in 0 .. 5 |-> IF k = 0 THEN m ELSE R(f[k - 1], k - 1)]
<1>0. Levels = 0 .. 4
  BY DEF Levels, BPLUS_MAX_HEIGHT
<1>1. \A k \in 0 .. 5 : k = 0 \/ k = 1 \/ k = 2 \/ k = 3 \/ k = 4 \/ k = 5
  OBVIOUS
<1>2. s1 = R(s0, 0) /\ s2 = R(s1, 1) /\ s3 = R(s2, 2) /\ s4 = R(s3, 3) /\ s5 = R(s4, 4)
  OBVIOUS
<1> HIDE DEF s0, s1, s2, s3, s4, s5, R
<1>3. g[0] = s0 /\ g[1] = s1 /\ g[2] = s2 /\ g[3] = s3 /\ g[4] = s4 /\ g[5] = s5
  OBVIOUS
<1>4. g = [k \in 0 .. 5 |-> g[k]]
  OBVIOUS
<1> HIDE DEF g
<1>5. Run(g)
  <2> DEFINE h == [k \in 0 .. 5 |-> IF k = 0 THEN m ELSE R(g[k - 1], k - 1)]
  <2>1. \A k \in 0 .. 5 : g[k] = h[k]
    BY <1>1, <1>2, <1>3 DEF s0
  <2>2. h = [k \in 0 .. 5 |-> h[k]]
    OBVIOUS
  <2> HIDE DEF h
  <2>3. g = h
    BY <1>4, <2>1, <2>2
  <2> QED
    BY <2>3, Zenon DEF h
<1> DEFINE f == CHOOSE c : Run(c)
<1>6. Run(f)
  <2> HIDE DEF Run
  <2> QED
    BY <1>5, Zenon
<1> HIDE DEF f
<1>7. /\ f[0] = m /\ \A k \in 1 .. 5 : f[k] = R(f[k - 1], k - 1)
  <2>1. ASSUME NEW k \in 0 .. 5 PROVE f[k] = IF k = 0 THEN m ELSE R(f[k - 1], k - 1)
    BY <1>6, Zenon
  <2> QED
    BY <2>1
<1> DEFINE P == {k \in Nat : Tb(f[k], p, n)}
<1>8. 0 \in P
  BY <1>7
<1>9. ASSUME NEW k \in 1 .. 5, k - 1 \in P PROVE k \in P
  <2>1. k - 1 \in Levels
    BY <1>0
  <2>2. f[k] = ReadLevel(f[k - 1], k - 1, errno) /\ Tb(f[k - 1], p, n)
    BY <1>7, <1>9 DEF R
  <2>3. Tb(f[k], p, n)
    BY <2>1, <2>2, LevelRead
  <2> QED
    BY <2>3
<1> HIDE DEF P
<1>10. 5 \in P
  <2>1. P \in SUBSET Nat
    BY DEF P
  <2>2. 0 .. 5 \subseteq P
    BY <1>8, <1>9, <2>1, Steps
  <2> QED
    BY <2>2
<1>11. Tb(f[5], p, n)
  BY <1>10 DEF P
<1>12. m.pe = p /\ m.length = n
  BY MemIs DEF Tb
<1>13. InitTb(m, errno) = f[5]
  <2>1. ~ \E l \in 1 .. m.length : m.pe[l].id = 0
    BY <1>12
  <2>2. f = CHOOSE c : ReadRun(m, errno, c)
    BY Zenon DEF ReadRun, BPLUS_MAX_HEIGHT, f, R
  <2> QED
    BY <2>1, <2>2, InitTbIs DEF BPLUS_MAX_HEIGHT
<1> QED
  BY <1>11, <1>13

-----------------------------------------------------------------------------
(* New nodes.                                                              *)
Fresh(d, new, n) ==
  /\ new \in Seq(NodeIds) /\ Len(new) = n
  /\ \A i \in 1 .. n : new[i] \in NodeIds /\ new[i] \notin DOMAIN d
  /\ \A i, j \in 1 .. n : new[i] = new[j] => i = j

(* The new node files have inode numbers that no file has.                 *)
LEMMA FreeIdsFresh ==
  ASSUME NEW d, NEW n, n \in 0 .. 3, n <= Cardinality(NodeIds \ DOMAIN d)
  PROVE  Fresh(d, FreeIds(d, n), n)
<1> DEFINE free == NodeIds \ DOMAIN d
           first == FirstOr(free, 0)
           second == FirstOr(free \ {first}, 0)
           third == FirstOr(free \ {first, second}, 0)
           new == [i \in 1 .. n |-> <<first, second, third>>[i]]
<1>1. free \in SUBSET Nat /\ IsFiniteSet(free) /\ IsFiniteSet(free \ {first})
  <2>1. IsFiniteSet(free)
    BY BPlusTreeAssumption, FS_Subset
  <2> HIDE DEF first
  <2>2. IsFiniteSet(free \ {first})
    BY <2>1, FS_RemoveElement
  <2> QED
    BY <2>1, <2>2, BPlusTreeAssumption
<1>2. FreeIds(d, n) = new
  BY Zenon DEF FreeIds
<1>3. Cardinality(free) \in Nat /\ n <= Cardinality(free)
  BY <1>1, FS_CardinalityType
<1>4. n >= 1 => first \in free
  <2>1. n >= 1 => Cardinality(free) # 0
    BY <1>3
  <2>2. n >= 1 => free # {}
    BY <2>1, FS_EmptySet
  <2> QED
    BY <1>1, <2>2, FirstOrIn
<1>5. n >= 2 => second \in free \ {first}
  <2>1. first \in free => Cardinality(free \ {first}) = Cardinality(free) - 1
    <3> HIDE DEF first, free
    <3> QED
      BY <1>1, FS_RemoveElement
  <2>2. n >= 2 => Cardinality(free \ {first}) # 0
    BY <1>3, <1>4, <2>1
  <2>3. n >= 2 => free \ {first} # {}
    BY <2>2, FS_EmptySet
  <2>4. free \ {first} \in SUBSET Nat
    BY <1>1
  <2> QED
    BY <2>3, <2>4, FirstOrIn
<1>6. n >= 3 => third \in free \ {first, second}
  <2> HIDE DEF first, second, free
  <2>1. first \in free => Cardinality(free \ {first}) = Cardinality(free) - 1
    BY <1>1, FS_RemoveElement
  <2>2. second \in free \ {first} =>
          Cardinality((free \ {first}) \ {second}) = Cardinality(free \ {first}) - 1
    BY <1>1, FS_RemoveElement
  <2>3. n >= 3 => Cardinality((free \ {first}) \ {second}) # 0
    BY <1>3, <1>4, <1>5, <2>1, <2>2
  <2>4. n >= 3 => (free \ {first}) \ {second} # {}
    BY <2>3, FS_EmptySet
  <2>5. (free \ {first}) \ {second} = free \ {first, second}
    OBVIOUS
  <2>6. free \ {first, second} \in SUBSET Nat
    BY <1>1
  <2> QED
    BY <2>4, <2>5, <2>6, FirstOrIn
<1> HIDE DEF first, second, third
<1>7. \A i \in 1 .. n : i = 1 \/ i = 2 \/ i = 3
  OBVIOUS
<1>8. /\ n >= 1 => new[1] = first
      /\ n >= 2 => new[2] = second
      /\ n >= 3 => new[3] = third
  <2>1. <<first, second, third>>[1] = first /\ <<first, second, third>>[2] = second
        /\ <<first, second, third>>[3] = third
    OBVIOUS
  <2> QED
    BY <2>1
<1>9. Len(new) = n
  OBVIOUS
<1>10. DOMAIN new = 1 .. n /\ new = [i \in 1 .. n |-> new[i]]
  OBVIOUS
<1> HIDE DEF new
<1>11. \A i \in 1 .. n : new[i] \in free
  BY <1>4, <1>5, <1>6, <1>7, <1>8
<1>12. \A i, j \in 1 .. n : new[i] = new[j] => i = j
  BY <1>4, <1>5, <1>6, <1>7, <1>8
<1>13. new \in Seq(NodeIds)
  BY <1>10, <1>11
<1> QED
  BY <1>2, <1>9, <1>11, <1>12, <1>13 DEF Fresh

Empty(node) ==
  /\ node \in Nodes /\ node.level = 0 /\ LinksOf(node) = {} /\ NrItems(node) = 0
  /\ ItemsOf(node) = {}

LEMMA FormattedIs == Empty(FormattedNode)
<1>1. FormattedNode.items = <<>> /\ FormattedNode.level = 0 /\ FormattedNode.nr_items = 0
  BY DEF FormattedNode, BTREE_LEAF_LEVEL
<1>2. FormattedNode \in NodeType
  BY BPlusNodeAssumption DEF FormattedNode, NodeType, BTREE_LEAF_LEVEL, Levels, BPLUS_MAX_HEIGHT
<1>3. Len(<<>>) = 0 /\ DOMAIN <<>> = {}
  OBVIOUS
<1>4. FormattedNode \in Nodes
  BY <1>1, <1>2, <1>3, BPlusNodeAssumption DEF Nodes, NodeOK
<1> QED
  BY <1>1, <1>3, <1>4 DEF Empty, LinksOf, NrItems, IsLeaf, BTREE_LEAF_LEVEL, ItemsOf

NewIn(d, e, new) ==
  /\ DOMAIN e = DOMAIN d \cup {new[i] : i \in DOMAIN new}
  /\ \A id \in DOMAIN d : e[id] = d[id]
  /\ \A id \in DOMAIN e \ DOMAIN d : e[id] = FormattedNode
  /\ \A x, l : Hangs(d, x, l) => Hangs(e, x, l)

(* A node allocated and not written yet is linked from nowhere.            *)
LEMMA Allocated ==
  ASSUME NEW d, DiskOK(d), NEW new, \A i \in DOMAIN new : new[i] \in NodeIds,
         NEW e, e = WithNodes(d, new)
  PROVE  DiskOK(e) /\ NewIn(d, e, new)
<1>1. /\ DOMAIN e = DOMAIN d \cup {new[i] : i \in DOMAIN new}
      /\ \A id \in DOMAIN d : e[id] = d[id]
      /\ \A id \in DOMAIN e \ DOMAIN d : e[id] = FormattedNode
      /\ e = [id \in DOMAIN e |-> e[id]]
  BY DEF WithNodes
<1>2. \A x, l : Hangs(d, x, l) => Hangs(e, x, l)
  BY <1>1 DEF Hangs
<1>3. Empty(FormattedNode)
  BY FormattedIs
<1>4. \A id \in DOMAIN e : e[id] \in Nodes
  BY <1>1, <1>3 DEF DiskOK, Empty
<1>5. DOMAIN e \subseteq NodeIds
  BY <1>1 DEF DiskOK
<1>6. ASSUME NEW id \in DOMAIN e, NEW x \in LinksOf(e[id])
      PROVE  Hangs(e, x, Below(e[id].level))
  <2>1. id \in DOMAIN d
    BY <1>1, <1>3, <1>6 DEF Empty
  <2> QED
    BY <1>1, <1>2, <1>6, <2>1 DEF DiskOK
<1>7. e \in [DOMAIN e -> Nodes]
  BY <1>1, <1>4
<1> HIDE DEF Hangs
<1>8. DiskOK(e)
  BY <1>5, <1>6, <1>7 DEF DiskOK
<1> QED
  BY <1>1, <1>2, <1>8 DEF NewIn

-----------------------------------------------------------------------------
(* Neighbours attached, and a memory made ready.                           *)
AroundOf(le, ri, l) == Ran(le[l]) \cup Ran(ri[l])

AddedAt(le, ri, le2, ri2, level, e) ==
  /\ le2 \in NbType /\ ri2 \in NbType
  /\ \A l \in Levels : l # level => AroundOf(le2, ri2, l) = AroundOf(le, ri, l)
  /\ AroundOf(le2, ri2, level) = AroundOf(le, ri, level) \cup {e}

LEMMA RanAppended ==
  ASSUME NEW T, NEW s \in Seq(T), NEW e \in T
  PROVE  Append(s, e) \in Seq(T) /\ Ran(Append(s, e)) = Ran(s) \cup {e}
<1> DEFINE n == Len(s)
           t == Append(s, e)
<1>1. t \in Seq(T) /\ Len(t) = n + 1 /\ n \in Nat
      /\ (\A i \in 1 .. n : t[i] = s[i]) /\ t[n + 1] = e
  OBVIOUS
<1> HIDE DEF n, t
<1>2. \A i \in 1 .. n + 1 : i \in 1 .. n \/ i = n + 1
  BY <1>1
<1>3. (\A i \in 1 .. n : i \in 1 .. n + 1) /\ n + 1 \in 1 .. n + 1
  BY <1>1
<1> DEFINE X == {t[i] : i \in 1 .. n + 1}
           Y == {s[i] : i \in 1 .. n} \cup {e}
<1>4. \A x \in X : x \in Y
  BY <1>1, <1>2
<1>5. \A y \in Y : y \in X
  BY <1>1, <1>3
<1> HIDE DEF X, Y
<1>6. X = Y
  BY <1>4, <1>5
<1> QED
  BY <1>1, <1>6 DEF Ran, X, Y, n, t

LEMMA AttachedIs ==
  ASSUME NEW d, NEW r, NEW p, NEW n, NEW le \in NbType, NEW ri \in NbType, NEW ok, NEW m,
         m = Mem(d, r, p, n, le, ri, ok), NEW side, NEW level \in Levels, NEW id, NEW node,
         NEW e, e = Element(id, 0, node), e \in ElementType
  PROVE  \E le2, ri2 : /\ Attached(m, side, level, id, node) = Mem(d, r, p, n, le2, ri2, ok)
                       /\ AddedAt(le, ri, le2, ri2, level, e)
<1>1. m.left = le /\ m.right = ri
  BY MemIs
<1>2. Updates(m, d, r, p, n, le, ri, ok)
  BY MemWith
<1> DEFINE sl == Append(le[level], e)
           sr == Append(ri[level], e)
           le2 == PathWith(le, level, sl)
           ri2 == PathWith(ri, level, sr)
<1>3. /\ sl \in Seq(ElementType) /\ Ran(sl) = Ran(le[level]) \cup {e}
      /\ sr \in Seq(ElementType) /\ Ran(sr) = Ran(ri[level]) \cup {e}
  <2>1. le[level] \in Seq(ElementType) /\ ri[level] \in Seq(ElementType)
    BY DEF NbType
  <2> QED
    BY <2>1, RanAppended
<1>4. Attached(m, side, level, id, node)
        = IF side = "left" THEN WithLeft(m, level, sl) ELSE WithRight(m, level, sr)
  BY <1>1 DEF Attached
<1> HIDE DEF sl, sr
<1>5. /\ WithLeft(m, level, sl) = Mem(d, r, p, n, le2, ri, ok)
      /\ WithRight(m, level, sr) = Mem(d, r, p, n, le, ri2, ok)
  BY <1>2 DEF Updates
<1>6. /\ le2 \in NbType /\ le2[level] = sl /\ \A l \in Levels : l # level => le2[l] = le[l]
      /\ ri2 \in NbType /\ ri2[level] = sr /\ \A l \in Levels : l # level => ri2[l] = ri[l]
  BY <1>3 DEF NbType, PathWith
<1> HIDE DEF le2, ri2
<1>7. AddedAt(le, ri, le2, ri, level, e)
  BY <1>3, <1>6 DEF AddedAt, AroundOf
<1>8. AddedAt(le, ri, le, ri2, level, e)
  BY <1>3, <1>6 DEF AddedAt, AroundOf
<1> QED
  BY <1>4, <1>5, <1>7, <1>8, Zenon

(* A plan: d2 is the disk with the new nodes, fin what it is to become, p2 *)
(* the path, X the elements attached at each level.                        *)
LinkOK(d2, fin, node, ids) ==
  \A x \in LinksOf(node) :
    Hangs(d2, x, Below(node.level)) \/ (x \in ids /\ fin[x].level = Below(node.level))

Plan(d2, fin, p2, X) ==
  /\ fin \in [DOMAIN d2 -> Nodes]
  /\ \A id \in DOMAIN disk :
       /\ d2[id] = disk[id] /\ id \in DOMAIN d2 /\ fin[id].level = disk[id].level
       /\ fin[id] = disk[id] \/ \E l \in Levels : p2[l].id = id
  /\ \A id \in DOMAIN d2 \ DOMAIN disk :
       /\ d2[id] = FormattedNode
       /\ (\E l \in Levels : p2[l].id = id) \/ \E l \in Levels : \E e \in X[l] : e.id = id
  /\ p2 \in [Levels -> ElementType]
  /\ \A l \in Levels : p2[l].id # 0 =>
       /\ p2[l].id \in DOMAIN d2 /\ p2[l].node = fin[p2[l].id] /\ NrItems(p2[l].node) # 0
       /\ LinkOK(d2, fin, p2[l].node, UNION {IdsOf(X[i]) : i \in Levels})
  /\ \A l \in Levels : \A e \in X[l] :
       /\ e.id \in DOMAIN d2 \ DOMAIN disk /\ e.node = fin[e.id] /\ NrItems(e.node) # 0
       /\ LinkOK(d2, fin, e.node, UNION {IdsOf(X[i]) : i \in 0 .. l - 1})

Attaching(le, ri, le2, ri2, X) ==
  /\ le2 \in NbType /\ ri2 \in NbType
  /\ \A l \in Levels : AroundOf(le2, ri2, l) = AroundOf(le, ri, l) \cup X[l]

LEMMA ReadElement ==
  ASSUME NEW le, AllRead(le), NEW ri, AllRead(ri), NEW l \in Levels,
         NEW e \in AroundOf(le, ri, l)
  PROVE  e.id \in DOMAIN disk /\ e.node = disk[e.id] /\ Hangs(disk, e.id, l)
<1>1. ASSUME NEW s, Read(l, s), NEW y \in Ran(s)
      PROVE  y.id \in DOMAIN disk /\ y.node = disk[y.id] /\ Hangs(disk, y.id, l)
  <2>1. s # <<>>
    <3>1. Ran(<<>>) = {}
      BY DEF Ran
    <3> QED
      BY <1>1, <3>1
  <2>2. PICK x \in DOMAIN disk : s = <<Element(x, 0, disk[x])>> /\ Hangs(disk, x, l)
    BY <1>1, <2>1 DEF Read
  <2>3. Ran(s) = {Element(x, 0, disk[x])}
    <3> DEFINE f == Element(x, 0, disk[x])
    <3> HIDE DEF f
    <3>1. Len(<<f>>) = 1 /\ <<f>>[1] = f
      OBVIOUS
    <3>2. 1 .. 1 = {1}
      OBVIOUS
    <3>3. Ran(<<f>>) = {f}
      BY <3>1, <3>2 DEF Ran
    <3> QED
      BY <2>2, <3>3 DEF f
  <2> QED
    BY <1>1, <2>2, <2>3 DEF Element
<1> QED
  BY <1>1 DEF AllRead, AroundOf

(* Neighbours read from disk, new nodes and a changed path are ready       *)
(* together if the new nodes and the path are.                             *)
LEMMA ReadyFrom ==
  ASSUME DiskOK(disk), NEW le, AllRead(le), NEW ri, AllRead(ri), NEW d2, NEW fin, NEW p2,
         NEW X, Plan(d2, fin, p2, X), NEW le2, NEW ri2, Attaching(le, ri, le2, ri2, X),
         NEW r, NEW n, NEW ok
  PROVE  Ready(Mem(d2, r, p2, n, le2, ri2, ok), fin)
<1> DEFINE m == Mem(d2, r, p2, n, le2, ri2, ok)
<1>1. m.disk = d2 /\ m.pe = p2 /\ m.left = le2 /\ m.right = ri2
  BY MemIs
<1> HIDE DEF m
<1>2. \A l \in Levels : Around(m, l) = AroundOf(le, ri, l) \cup X[l]
  BY <1>1 DEF Around, Attaching, AroundOf
<1>3. \A x, l : Hangs(disk, x, l) => Hangs(d2, x, l)
  BY DEF Hangs, Plan
<1>4. ASSUME NEW id \in DOMAIN d2, NrItems(d2[id]) # 0
      PROVE  fin[id].level = d2[id].level
  BY <1>4, FormattedIs DEF Plan, Empty
<1>5. ASSUME NEW l \in Levels, NEW e \in AroundOf(le, ri, l)
      PROVE  /\ Fits(e, d2, fin) /\ e.id \in DOMAIN disk
             /\ \A x \in LinksOf(e.node) : Hangs(d2, x, Below(e.node.level))
  <2>1. e.id \in DOMAIN disk /\ e.node = disk[e.id] /\ Hangs(disk, e.id, l)
    BY ReadElement
  <2>2. e.node \in Nodes /\ NrItems(e.node) # 0
    BY <2>1 DEF DiskOK, Hangs
  <2>3. e.id \in DOMAIN d2 /\ d2[e.id] = e.node /\ fin[e.id].level = e.node.level
    BY <2>1 DEF Plan
  <2>4. \A x \in LinksOf(e.node) : Hangs(disk, x, Below(e.node.level))
    BY <2>1 DEF DiskOK
  <2> QED
    BY <1>3, <2>1, <2>2, <2>3, <2>4 DEF Fits
<1>6. ASSUME NEW i, NEW e, e.id \in DOMAIN d2, e.node = fin[e.id], NrItems(e.node) # 0
      PROVE  Fits(e, d2, fin)
  BY <1>6 DEF Fits, Plan
<1>7. ASSUME NEW l \in Levels, NEW e \in Around(m, l)
      PROVE  Fits(e, d2, fin) /\ Linked(d2, fin, e, UNION {IdsOf(Around(m, i)) : i \in 0 .. l - 1})
  <2>1. CASE e \in AroundOf(le, ri, l)
    BY <1>5, <2>1 DEF Linked
  <2>2. CASE e \in X[l]
    <3>1. /\ e.id \in DOMAIN d2 \ DOMAIN disk /\ e.node = fin[e.id] /\ NrItems(e.node) # 0
          /\ LinkOK(d2, fin, e.node, UNION {IdsOf(X[i]) : i \in 0 .. l - 1})
      BY <2>2 DEF Plan
    <3>2. \A i \in 0 .. l - 1 : i \in Levels
      BY DEF Levels, BPLUS_MAX_HEIGHT
    <3>3. UNION {IdsOf(X[i]) : i \in 0 .. l - 1} \subseteq UNION {IdsOf(Around(m, i)) : i \in 0 .. l - 1}
      <4>1. \A i \in 0 .. l - 1 : IdsOf(X[i]) \subseteq IdsOf(Around(m, i))
        BY <1>2, <3>2 DEF IdsOf
      <4> QED
        BY <4>1
    <3> QED
      BY <1>6, <3>1, <3>3 DEF LinkOK, Linked
  <2> QED
    BY <1>2, <1>7, <2>1, <2>2
<1>8. ASSUME NEW l \in Levels, p2[l].id # 0
      PROVE  /\ Fits(p2[l], d2, fin) /\ p2[l].node = fin[p2[l].id]
             /\ Linked(d2, fin, p2[l], UNION {IdsOf(Around(m, i)) : i \in Levels})
  <2>1. /\ p2[l].id \in DOMAIN d2 /\ p2[l].node = fin[p2[l].id] /\ NrItems(p2[l].node) # 0
        /\ LinkOK(d2, fin, p2[l].node, UNION {IdsOf(X[i]) : i \in Levels})
    BY <1>8 DEF Plan
  <2>2. UNION {IdsOf(X[i]) : i \in Levels} \subseteq UNION {IdsOf(Around(m, i)) : i \in Levels}
    <3>1. \A i \in Levels : IdsOf(X[i]) \subseteq IdsOf(Around(m, i))
      BY <1>2 DEF IdsOf
    <3> QED
      BY <3>1
  <2> QED
    BY <1>6, <2>1, <2>2 DEF LinkOK, Linked
<1>9. ASSUME NEW id \in DOMAIN d2, fin[id] # d2[id], \A l \in Levels : p2[l].id # id
      PROVE  /\ \E l \in Levels : id \in IdsOf(Around(m, l))
             /\ \A l \in Levels : \A e \in Around(m, l) : e.id = id => e.node = fin[id]
  <2>1. id \in DOMAIN d2 \ DOMAIN disk
    BY <1>9 DEF Plan
  <2>2. PICK l \in Levels : \E e \in X[l] : e.id = id
    BY <1>9, <2>1 DEF Plan
  <2>3. id \in IdsOf(Around(m, l))
    BY <1>2, <2>2 DEF IdsOf
  <2>4. ASSUME NEW k \in Levels, NEW f \in Around(m, k), f.id = id PROVE f.node = fin[id]
    <3>1. f \notin AroundOf(le, ri, k)
      BY <1>5, <2>1, <2>4
    <3>2. f \in X[k]
      BY <1>2, <2>4, <3>1
    <3> QED
      BY <2>4, <3>2 DEF Plan
  <2> QED
    BY <2>3, <2>4
<1>10. /\ fin \in [DOMAIN d2 -> Nodes] /\ p2 \in [Levels -> ElementType]
       /\ le2 \in [Levels -> Seq(ElementType)] /\ ri2 \in [Levels -> Seq(ElementType)]
  BY DEF Plan, Attaching, NbType
<1>11. Ready(m, fin)
  BY <1>1, <1>4, <1>7, <1>8, <1>9, <1>10 DEF Ready
<1> QED
  BY <1>11 DEF m

-----------------------------------------------------------------------------
(* The nodes an insertion makes.                                           *)
LEMMA LeafIn ==
  ASSUME NEW node \in Nodes, node.level = 0, NEW v \in Seq(Keys), Len(v) \in 1 .. MAX_ITEMS,
         NEW w, w = [node EXCEPT !.items = v]
  PROVE  /\ w \in Nodes /\ w.level = 0 /\ NrItems(w) # 0 /\ LinksOf(w) = {}
         /\ w.items = v /\ ItemsOf(w) = {v[i] : i \in DOMAIN v}
<1>1. node \in NodeType /\ node.nr_items = 0
  BY DEF Nodes, NodeOK
<1>2. w \in NodeType /\ w.level = 0 /\ w.nr_items = 0 /\ w.items = v
  BY <1>1 DEF NodeType
<1>3. Len(v) # 0 /\ Len(v) <= MAX_ITEMS
  BY BPlusNodeAssumption
<1> QED
  BY <1>2, <1>3 DEF Nodes, NodeOK, NrItems, LinksOf, IsLeaf, BTREE_LEAF_LEVEL, ItemsOf

(* Each node that an insertion writes is one the code can read.            *)
LEMMA LeafNodeIn ==
  ASSUME NEW v \in Seq(Keys), Len(v) \in 1 .. MAX_ITEMS
  PROVE  /\ LeafNode(v) \in Nodes /\ LeafNode(v).level = 0 /\ NrItems(LeafNode(v)) # 0
         /\ LinksOf(LeafNode(v)) = {} /\ ItemsOf(LeafNode(v)) = {v[i] : i \in DOMAIN v}
<1>1. FormattedNode \in Nodes /\ FormattedNode.level = 0
  BY FormattedIs DEF Empty
<1>2. LeafNode(v) = [FormattedNode EXCEPT !.items = v]
  BY Zenon DEF LeafNode
<1> DEFINE w == LeafNode(v)
<1> HIDE DEF w
<1>3. w = [FormattedNode EXCEPT !.items = v]
  BY <1>2 DEF w
<1>4. /\ w \in Nodes /\ w.level = 0 /\ NrItems(w) # 0 /\ LinksOf(w) = {}
      /\ ItemsOf(w) = {v[i] : i \in DOMAIN v}
  BY <1>1, <1>3, LeafIn
<1> QED
  BY <1>4 DEF w

LEMMA InnerIn ==
  ASSUME NEW node \in NodeType, node.level \in 1 .. 3, node.items = <<>>,
         NEW k, k \in 1 .. MAX_KEYS, node.nr_items = 2 * k + 1, KeysOK(node), DcsOK(node, k)
  PROVE  /\ node \in Nodes /\ NrItems(node) # 0 /\ ItemsOf(node) = {}
         /\ LinksOf(node) = DcsUpTo(node, k)
<1>1. k \in Nat /\ k >= 1
  BY BPlusNodeAssumption
<1>2. NrKeys(node) = k
  BY <1>1 DEF NrKeys, NR_KEYS
<1>3. DOMAIN <<>> = {}
  OBVIOUS
<1> QED
  BY <1>1, <1>2, <1>3 DEF Nodes, NodeOK, NrItems, IsLeaf, BTREE_LEAF_LEVEL, LinksOf, ItemsOf,
     DcsUpTo

LEMMA RootIn ==
  ASSUME NEW level \in 1 .. 3, NEW key, key \in Keys \cup {0}, NEW a \in NodeIds, NEW b \in NodeIds,
         NEW top, top = InternalNode(level, key, a, b)
  PROVE  /\ top \in Nodes /\ top.level = level /\ NrItems(top) # 0 /\ ItemsOf(top) = {}
         /\ LinksOf(top) = {a, b}
<1> DEFINE z == [w \in Words |-> 0]
           z1 == [z EXCEPT ![0] = key]
           z2 == [z1 EXCEPT ![MAX_KEYS] = a]
           word == [z2 EXCEPT ![MAX_KEYS + 1] = b]
<1>1. top = [level |-> level, nr_items |-> 3, items |-> <<>>, word |-> word]
  BY DEF InternalNode, FormattedNode
<1>2. MAX_KEYS \in Nat /\ MAX_KEYS >= 3 /\ Words = 0 .. 2 * MAX_KEYS + 1
  BY BPlusNodeAssumption DEF Words, MAX_DC
<1>3. /\ word \in [Words -> Keys \cup NodeIds \cup {0}]
      /\ \A w \in Words : word[w] = IF w = MAX_KEYS + 1 THEN b ELSE IF w = MAX_KEYS THEN a
                                    ELSE IF w = 0 THEN key ELSE 0
  BY <1>2
<1> HIDE DEF word
<1>4. /\ top.level = level /\ top.nr_items = 3 /\ top.items = <<>> /\ top.word = word
      /\ top \in NodeType
  <2>1. <<>> \in Seq(Keys) /\ level \in Levels
    BY DEF Levels, BPLUS_MAX_HEIGHT
  <2> QED
    BY <1>1, <1>3, <2>1 DEF NodeType
<1>5. KeysOK(top)
  BY <1>2, <1>3, <1>4 DEF KeysOK
<1>6. Dc(top, 0) = a /\ Dc(top, 1) = b /\ \A i \in 2 .. MAX_DC : Dc(top, i) = 0
  <2>1. \A i \in 0 .. MAX_DC : MAX_KEYS + i \in Words
    BY <1>2 DEF MAX_DC
  <2>2. 0 \in 0 .. MAX_DC /\ 1 \in 0 .. MAX_DC /\ \A i \in 2 .. MAX_DC : i \in 0 .. MAX_DC
    BY <1>2 DEF MAX_DC
  <2> QED
    BY <1>2, <1>3, <1>4, <2>1, <2>2 DEF Dc
<1>7. \A i \in 0 .. 1 : i = 0 \/ i = 1
  OBVIOUS
<1>8. DcsOK(top, 1)
  BY <1>6, <1>7 DEF DcsOK
<1>9. 1 \in 1 .. MAX_KEYS /\ 3 = 2 * 1 + 1
  BY <1>2
<1>10. /\ top \in Nodes /\ NrItems(top) # 0 /\ ItemsOf(top) = {}
       /\ LinksOf(top) = DcsUpTo(top, 1)
  BY <1>4, <1>5, <1>8, <1>9, InnerIn
<1>11. DcsUpTo(top, 1) = {a, b}
  BY <1>6, <1>7 DEF DcsUpTo
<1> QED
  BY <1>4, <1>10, <1>11

(* A parent with room takes the new leaf.                                  *)
LEMMA ParentIn ==
  ASSUME NEW node \in Nodes, node.level # 0, node.nr_items < MAX_KEYS + MAX_DC,
         NEW key \in Keys, NEW dc \in NodeIds,
         NEW new, new = AdjustedInternal(node, NrKeys(node), NrKeys(node) + 1, key, dc)
  PROVE  /\ new \in Nodes /\ new.level = node.level /\ NrItems(new) # 0
         /\ ItemsOf(new) = {} /\ LinksOf(new) = LinksOf(node) \cup {dc}
<1> DEFINE k == NrKeys(node)
<1>1. /\ node \in NodeType /\ node.level \in 1 .. 3 /\ node.items = <<>>
      /\ k \in 1 .. MAX_KEYS /\ node.nr_items = 2 * k + 1 /\ KeysOK(node) /\ DcsOK(node, k)
  BY DEF Nodes, NodeOK, NodeType, Levels, BPLUS_MAX_HEIGHT
<1>2. LinksOf(node) = DcsUpTo(node, k)
  BY DEF LinksOf, IsLeaf, BTREE_LEAF_LEVEL, DcsUpTo
<1>3. new = AdjustedInternal(node, k, k + 1, key, dc)
  OBVIOUS
<1> HIDE DEF k
<1>4. /\ k \in Nat /\ k \in 0 .. MAX_KEYS - 1 /\ k + 1 \in 1 .. k + 1 /\ k + 1 - 1 = k
      /\ k + 1 \in 1 .. MAX_KEYS /\ 2 * k + 1 + 2 = 2 * (k + 1) + 1
  BY <1>1, BPlusNodeAssumption DEF MAX_DC
<1> DEFINE q == k + 1
<1>5. /\ q \in 1 .. k + 1 /\ q = k + 1 /\ DcsOK(node, q - 1) /\ q - 1 = k
      /\ new = AdjustedInternal(node, k, q, key, dc)
  BY <1>1, <1>3, <1>4
<1> HIDE DEF q
<1>6. /\ new \in NodeType /\ new.level = node.level /\ new.items = node.items
      /\ new.nr_items = node.nr_items + 2
      /\ KeysOK(new) /\ DcsOK(new, q)
      /\ DcsUpTo(new, q) = DcsUpTo(node, k) \cup {dc}
  <2>1. HasRoom(node, k, q, k)
    BY <1>1, <1>4, <1>5 DEF HasRoom
  <2>2. TookIn(new, node, q, k, dc)
    BY <1>5, <2>1, AdjustedInternalIn
  <2> QED
    BY <2>2 DEF TookIn
<1>7. /\ new \in Nodes /\ NrItems(new) # 0 /\ ItemsOf(new) = {}
      /\ LinksOf(new) = DcsUpTo(new, q)
  BY <1>1, <1>4, <1>5, <1>6, InnerIn
<1> QED
  BY <1>2, <1>5, <1>6, <1>7

LEMMA WithoutKeyIn ==
  ASSUME NEW node \in NodeType, NEW pos \in 0 .. MAX_KEYS - 1, KeysOK(node), NEW last \in Nat,
         DcsOK(node, last), node.nr_items # 0, NEW new, new = WithoutKeyAt(node, pos)
  PROVE  /\ new \in NodeType /\ new.level = node.level /\ new.items = node.items
         /\ new.nr_items = node.nr_items - 1 /\ KeysOK(new) /\ DcsOK(new, last)
         /\ \A i \in 0 .. MAX_DC : Dc(new, i) = Dc(node, i)
<1> DEFINE word == [node.word EXCEPT ![pos] = 0]
           n == node.nr_items - 1
<1>1. new = [node EXCEPT !.word = word, !.nr_items = n]
  BY DEF WithoutKeyAt
<1>2. MAX_KEYS \in Nat /\ MAX_KEYS >= 3 /\ Words = 0 .. 2 * MAX_KEYS + 1
  BY BPlusNodeAssumption DEF Words, MAX_DC
<1>3. /\ word \in [Words -> Keys \cup NodeIds \cup {0}]
      /\ \A w \in Words : word[w] = IF w = pos THEN 0 ELSE node.word[w]
      /\ n \in Nat
  BY <1>2 DEF NodeType
<1> HIDE DEF word, n
<1>4. /\ new.level = node.level /\ new.nr_items = n /\ new.items = node.items /\ new.word = word
      /\ new \in NodeType
  BY <1>1, <1>3 DEF NodeType
<1>5. KeysOK(new)
  BY <1>2, <1>3, <1>4 DEF KeysOK
<1>6. \A i \in 0 .. MAX_DC : Dc(new, i) = Dc(node, i)
  BY <1>2, <1>3, <1>4 DEF Dc, MAX_DC
<1>7. DcsOK(new, last)
  <2>1. DcsOK(node, last) /\ last \in Nat
    OBVIOUS
  <2>2. \A i \in 0 .. last : Dc(node, i) \in NodeIds
    BY <2>1 DEF DcsOK
  <2>3. \A i \in 0 .. last : Dc(new, i) \in NodeIds
    <3> SUFFICES ASSUME NEW i \in 0 .. last PROVE Dc(new, i) \in NodeIds
      OBVIOUS
    <3>1. node.word[MAX_KEYS + i] \in NodeIds /\ new.word[MAX_KEYS + i] = word[MAX_KEYS + i]
      BY <1>4, <2>2 DEF Dc
    <3>2. CASE MAX_KEYS + i \in Words
      BY <1>2, <1>3, <3>1, <3>2 DEF Dc
    <3>3. CASE MAX_KEYS + i \notin Words
      BY <1>2, <3>1, <3>3, <1>1 DEF Dc, word, NodeType
    <3> QED
      BY <3>2, <3>3
  <2>4. \A i \in last + 1 .. MAX_DC : i \in 0 .. MAX_DC
    BY <2>1, <1>2 DEF MAX_DC
  <2> QED
    BY <1>6, <2>1, <2>3, <2>4 DEF DcsOK
<1> QED
  BY <1>4, <1>5, <1>6, <1>7 DEF n

(* A full parent is split, and the new leaf goes to the lower half ...     *)
SplitLower(pair, h, key, dc, src, dest, pos) ==
  /\ src = AdjustedInternal(pair.src, h + 1, h + 1, key, dc)
  /\ dest = pair.dest /\ pos = h + 1

(* ... or to the upper one.                                                *)
SplitUpper(pair, h, key, dc, src, dest, pos) ==
  /\ src = pair.src
  /\ dest = AdjustedInternal(pair.dest, h, h + 1, key, dc) /\ pos = h

SplitInto(pair, h, key, dc, src, dest, pos) ==
  SplitLower(pair, h, key, dc, src, dest, pos) \/ SplitUpper(pair, h, key, dc, src, dest, pos)

Parted(node, dc, src, dest, pos, parent) ==
  /\ parent \in Nodes /\ parent.level = node.level /\ NrItems(parent) # 0
  /\ ItemsOf(parent) = {}
  /\ dest \in Nodes /\ dest.level = node.level /\ NrItems(dest) # 0 /\ ItemsOf(dest) = {}
  /\ LinksOf(parent) \cup LinksOf(dest) = LinksOf(node) \cup {dc}
  /\ src.level = node.level /\ Key(src, pos) \in Keys \cup {0}

(* The two halves of a full internal node and the new disk child in        *)
(* either: what one of them loses the other has.                           *)
LEMMA LowerSplit ==
  ASSUME NEW node \in Nodes, node.level # 0, node.nr_items = MAX_KEYS + MAX_DC,
         NEW h, h \in Nat, MAX_KEYS = 2 * h + 1, NEW pair, pair = SplitInternal(node),
         NEW key \in Keys, NEW dc \in NodeIds,
         NEW src, NEW dest, NEW pos, SplitLower(pair, h, key, dc, src, dest, pos),
         NEW parent, parent = WithoutKeyAt(src, pos)
  PROVE  Parted(node, dc, src, dest, pos, parent)
<1>0. /\ MAX_KEYS \in Nat /\ h >= 1 /\ h + 1 \in 0 .. MAX_KEYS - 1 /\ h \in 0 .. MAX_KEYS - 1
      /\ h + 1 \in 1 .. MAX_KEYS /\ h \in 1 .. MAX_KEYS /\ h + 1 \in Nat /\ h + 1 - 1 = h
      /\ h + 1 \in 1 .. h + 1 /\ h + 1 \in 1 .. h + 1 + 1
      /\ 2 * h + 2 + 2 - 1 = 2 * (h + 1) + 1 /\ 2 * h + 2 - 1 = 2 * h + 1
      /\ 2 * h + 1 + 2 = 2 * (h + 1) + 1 /\ 2 * h + 2 # 0 /\ 2 * h + 2 + 2 # 0
  BY BPlusNodeAssumption
<1> DEFINE g == h + 1
<1>1. /\ NodeOK(node) /\ node.level \in 1 .. 3
  BY DEF Nodes, NodeOK, NodeType, Levels, BPLUS_MAX_HEIGHT
<1>2. /\ pair.src \in NodeType /\ pair.dest \in NodeType
      /\ pair.src.level = node.level /\ pair.dest.level = node.level
      /\ pair.src.items = <<>> /\ pair.dest.items = <<>>
      /\ pair.src.nr_items = 2 * h + 2 /\ pair.dest.nr_items = 2 * h + 1
      /\ KeysOK(pair.src) /\ KeysOK(pair.dest)
      /\ DcsOK(pair.src, h) /\ DcsOK(pair.dest, h)
      /\ DcsUpTo(pair.src, h) \cup DcsUpTo(pair.dest, h) = LinksOf(node)
  BY <1>1, SplitIn
<1> DEFINE a == pair.src
           b == pair.dest
<1>3. /\ a \in NodeType /\ b \in NodeType /\ a.level = node.level /\ b.level = node.level
      /\ a.items = <<>> /\ b.items = <<>> /\ a.nr_items = 2 * h + 2 /\ b.nr_items = 2 * h + 1
      /\ KeysOK(a) /\ KeysOK(b) /\ DcsOK(a, h) /\ DcsOK(b, h)
      /\ DcsUpTo(a, h) \cup DcsUpTo(b, h) = LinksOf(node)
      /\ src = AdjustedInternal(a, g, g, key, dc)
      /\ dest = b
      /\ pos = g
  BY <1>2 DEF SplitLower
<1>4. g = h + 1
  OBVIOUS
<1> HIDE DEF a, b, g
<1>5. /\ g - 1 = h /\ g \in Nat /\ g \in 1 .. g /\ g \in 0 .. MAX_KEYS - 1 /\ g \in 1 .. MAX_KEYS
      /\ g \in 1 .. g + 1 /\ g \in 1 .. h + 1
  BY <1>0, <1>4
<1>11. src = AdjustedInternal(a, g, g, key, dc) /\ dest = b /\ pos = g
  BY <1>3
<1>12. /\ src \in NodeType /\ src.level = a.level /\ src.items = a.items
      /\ src.nr_items = a.nr_items + 2
      /\ KeysOK(src) /\ DcsOK(src, g)
      /\ DcsUpTo(src, g) = DcsUpTo(a, h) \cup {dc}
  <2>1. HasRoom(a, g, g, h)
    BY <1>0, <1>3, <1>5 DEF HasRoom
  <2>2. src = AdjustedInternal(a, g, g, key, dc)
    BY <1>3
  <2>3. TookIn(src, a, g, h, dc)
    BY <2>1, <2>2, AdjustedInternalIn
  <2> QED
    BY <2>3 DEF TookIn
<1>13. /\ parent \in NodeType /\ parent.level = src.level /\ parent.items = src.items
      /\ parent.nr_items = src.nr_items - 1 /\ KeysOK(parent) /\ DcsOK(parent, g)
      /\ \A i \in 0 .. MAX_DC : Dc(parent, i) = Dc(src, i)
  <2>1. src.nr_items # 0 /\ pos \in 0 .. MAX_KEYS - 1
    BY <1>0, <1>3, <1>5, <1>11, <1>12
  <2> QED
    BY <1>5, <1>12, <2>1, WithoutKeyIn
<1>14. parent.nr_items = 2 * g + 1 /\ parent.items = <<>> /\ parent.level \in 1 .. 3
  <2>1. src.nr_items = 2 * h + 2 + 2 /\ src.items = <<>> /\ src.level \in 1 .. 3
    BY <1>1, <1>3, <1>12
  <2> QED
    BY <1>0, <1>4, <1>13, <2>1
<1>15. /\ parent \in Nodes /\ NrItems(parent) # 0 /\ ItemsOf(parent) = {}
      /\ LinksOf(parent) = DcsUpTo(parent, g)
  BY <1>5, <1>13, <1>14, InnerIn
<1>16. /\ dest \in Nodes /\ NrItems(dest) # 0 /\ ItemsOf(dest) = {}
      /\ LinksOf(dest) = DcsUpTo(dest, h)
  BY <1>0, <1>1, <1>3, <1>11, InnerIn
<1>17. DcsUpTo(parent, g) = DcsUpTo(src, g)
  <2>1. \A i \in 0 .. g : Dc(parent, i) = Dc(src, i)
    BY <1>5, <1>13 DEF MAX_DC
  <2> QED
    BY <2>1 DEF DcsUpTo
<1>18. Key(src, pos) \in Keys \cup {0}
  BY <1>5, <1>11, <1>12 DEF KeysOK, Key
<1> QED
  BY <1>3, <1>5, <1>11, <1>12, <1>13, <1>15, <1>16, <1>17, <1>18 DEF Parted

LEMMA UpperSplit ==
  ASSUME NEW node \in Nodes, node.level # 0, node.nr_items = MAX_KEYS + MAX_DC,
         NEW h, h \in Nat, MAX_KEYS = 2 * h + 1, NEW pair, pair = SplitInternal(node),
         NEW key \in Keys, NEW dc \in NodeIds,
         NEW src, NEW dest, NEW pos, SplitUpper(pair, h, key, dc, src, dest, pos),
         NEW parent, parent = WithoutKeyAt(src, pos)
  PROVE  Parted(node, dc, src, dest, pos, parent)
<1>0. /\ MAX_KEYS \in Nat /\ h >= 1 /\ h + 1 \in 0 .. MAX_KEYS - 1 /\ h \in 0 .. MAX_KEYS - 1
      /\ h + 1 \in 1 .. MAX_KEYS /\ h \in 1 .. MAX_KEYS /\ h + 1 \in Nat /\ h + 1 - 1 = h
      /\ h + 1 \in 1 .. h + 1 /\ h + 1 \in 1 .. h + 1 + 1
      /\ 2 * h + 2 + 2 - 1 = 2 * (h + 1) + 1 /\ 2 * h + 2 - 1 = 2 * h + 1
      /\ 2 * h + 1 + 2 = 2 * (h + 1) + 1 /\ 2 * h + 2 # 0 /\ 2 * h + 2 + 2 # 0
  BY BPlusNodeAssumption
<1> DEFINE g == h + 1
<1>1. /\ NodeOK(node) /\ node.level \in 1 .. 3
  BY DEF Nodes, NodeOK, NodeType, Levels, BPLUS_MAX_HEIGHT
<1>2. /\ pair.src \in NodeType /\ pair.dest \in NodeType
      /\ pair.src.level = node.level /\ pair.dest.level = node.level
      /\ pair.src.items = <<>> /\ pair.dest.items = <<>>
      /\ pair.src.nr_items = 2 * h + 2 /\ pair.dest.nr_items = 2 * h + 1
      /\ KeysOK(pair.src) /\ KeysOK(pair.dest)
      /\ DcsOK(pair.src, h) /\ DcsOK(pair.dest, h)
      /\ DcsUpTo(pair.src, h) \cup DcsUpTo(pair.dest, h) = LinksOf(node)
  BY <1>1, SplitIn
<1> DEFINE a == pair.src
           b == pair.dest
<1>3. /\ a \in NodeType /\ b \in NodeType /\ a.level = node.level /\ b.level = node.level
      /\ a.items = <<>> /\ b.items = <<>> /\ a.nr_items = 2 * h + 2 /\ b.nr_items = 2 * h + 1
      /\ KeysOK(a) /\ KeysOK(b) /\ DcsOK(a, h) /\ DcsOK(b, h)
      /\ DcsUpTo(a, h) \cup DcsUpTo(b, h) = LinksOf(node)
      /\ src = a
      /\ dest = AdjustedInternal(b, h, g, key, dc)
      /\ pos = h
  BY <1>2 DEF SplitUpper
<1>4. g = h + 1
  OBVIOUS
<1> HIDE DEF a, b, g
<1>5. /\ g - 1 = h /\ g \in Nat /\ g \in 1 .. g /\ g \in 0 .. MAX_KEYS - 1 /\ g \in 1 .. MAX_KEYS
      /\ g \in 1 .. g + 1 /\ g \in 1 .. h + 1
  BY <1>0, <1>4
<1>11. src = a /\ dest = AdjustedInternal(b, h, g, key, dc) /\ pos = h
  BY <1>3
<1>12. /\ dest \in NodeType /\ dest.level = b.level /\ dest.items = b.items
      /\ dest.nr_items = b.nr_items + 2
      /\ KeysOK(dest) /\ DcsOK(dest, g)
      /\ DcsUpTo(dest, g) = DcsUpTo(b, h) \cup {dc}
  <2>1. HasRoom(b, h, g, h)
    BY <1>0, <1>3, <1>4, <1>5 DEF HasRoom
  <2>2. dest = AdjustedInternal(b, h, g, key, dc)
    BY <1>3
  <2>3. TookIn(dest, b, g, h, dc)
    BY <2>1, <2>2, AdjustedInternalIn
  <2> QED
    BY <2>3 DEF TookIn
<1>13. /\ parent \in NodeType /\ parent.level = src.level /\ parent.items = src.items
      /\ parent.nr_items = src.nr_items - 1 /\ KeysOK(parent) /\ DcsOK(parent, h)
      /\ \A i \in 0 .. MAX_DC : Dc(parent, i) = Dc(src, i)
  <2>1. src.nr_items # 0 /\ pos \in 0 .. MAX_KEYS - 1
    BY <1>0, <1>3, <1>11
  <2> QED
    BY <1>0, <1>3, <1>11, <2>1, WithoutKeyIn
<1>14. parent.nr_items = 2 * h + 1 /\ parent.items = <<>> /\ parent.level \in 1 .. 3
  BY <1>0, <1>1, <1>3, <1>11, <1>13
<1>15. /\ parent \in Nodes /\ NrItems(parent) # 0 /\ ItemsOf(parent) = {}
      /\ LinksOf(parent) = DcsUpTo(parent, h)
  BY <1>0, <1>13, <1>14, InnerIn
<1>16. dest.nr_items = 2 * g + 1 /\ dest.items = <<>> /\ dest.level \in 1 .. 3
  BY <1>0, <1>1, <1>3, <1>4, <1>12
<1>17. /\ dest \in Nodes /\ NrItems(dest) # 0 /\ ItemsOf(dest) = {}
      /\ LinksOf(dest) = DcsUpTo(dest, g)
  BY <1>5, <1>12, <1>16, InnerIn
<1>18. DcsUpTo(parent, h) = DcsUpTo(src, h)
  <2>1. \A i \in 0 .. h : Dc(parent, i) = Dc(src, i)
    BY <1>0, <1>13 DEF MAX_DC
  <2> QED
    BY <2>1 DEF DcsUpTo
<1>19. Key(src, pos) \in Keys \cup {0}
  BY <1>0, <1>3, <1>11 DEF KeysOK, Key
<1> QED
  BY <1>3, <1>5, <1>11, <1>12, <1>13, <1>15, <1>17, <1>18, <1>19 DEF Parted

-----------------------------------------------------------------------------
(* Insertion, whatever splits.                                             *)

(* S is all that r leads to in d.                                          *)
IsReach(d, r, S) ==
  /\ r \in S /\ S \subseteq DOMAIN d
  /\ \A id \in S : LinksOf(d[id]) \subseteq S
  /\ \A C : r \in C /\ (\A id \in C \cap DOMAIN d : LinksOf(d[id]) \subseteq C) => S \subseteq C

ItemsIn(d, S) == UNION {ItemsOf(d[id]) : id \in S}

(* An insertion gives the memory m: written, it makes the files fin, in    *)
(* which what was in the tree and what is new is in the tree, unless it    *)
(* put a fourth level on a tree of three.                                  *)
Grown(m, fin, key, S) ==
  /\ IsMem(m) /\ DiskOK(m.disk) /\ Ready(m, fin) /\ m.root \in DOMAIN m.disk
  /\ \E new : Fresh(disk, new, Len(new)) /\ Len(new) \in 0 .. 3 /\ m.disk = WithNodes(disk, new)
  /\ \/ fin[m.root].level = 3 /\ disk[root].level = 2
     \/ /\ IsReach(fin, m.root, S \cup (DOMAIN m.disk \ DOMAIN disk))
        /\ ItemsIn(fin, S \cup (DOMAIN m.disk \ DOMAIN disk)) = ItemsIn(disk, S) \cup {key}

LEMMA PathSet ==
  ASSUME NEW p \in [Levels -> ElementType], NEW l, l \in Levels, NEW e, e \in ElementType,
         NEW q, q = PathWith(p, l, e)
  PROVE  q \in [Levels -> ElementType] /\ q[l] = e /\ \A j \in Levels : j # l => q[j] = p[j]
BY DEF PathWith

LEMMA WithItemsIs ==
  ASSUME NEW e \in ElementType, NEW v \in Seq(Keys), NEW f, f = WithItems(e, v)
  PROVE  /\ f \in ElementType /\ f.id = e.id /\ f.node = [e.node EXCEPT !.items = v]
<1> DEFINE w == [e.node EXCEPT !.items = v]
<1>1. w \in NodeType
  BY DEF ElementType, NodeType
<1>2. f = [e EXCEPT !.node = w]
  BY Zenon DEF WithItems
<1> HIDE DEF w
<1>3. f \in ElementType /\ f.id = e.id /\ f.node = w
  BY <1>1, <1>2 DEF ElementType
<1> QED
  BY <1>3 DEF w

LEMMA WithNodeIs ==
  ASSUME NEW e \in ElementType, NEW w \in NodeType, NEW f, f = WithNode(e, w)
  PROVE  /\ f \in ElementType /\ f.id = e.id /\ f.node = w
BY DEF ElementType, WithNode

LEMMA ElementIs ==
  ASSUME NEW id \in NodeIds, NEW w \in NodeType, NEW f, f = Element(id, 0, w)
  PROVE  /\ f \in ElementType /\ f.id = id /\ f.node = w
BY DEF ElementType, Element

Nones == [l \in Levels |-> <<>>]

LEMMA MemoryIs ==
  ASSUME NEW s, NEW ok, ok = TRUE
  PROVE  Memory(s) = Mem(disk, root, s.pe, s.length, Nones, Nones, ok) /\ AllRead(Nones)
<1>1. AllRead(Nones)
  BY DEF AllRead, NbType, Nones, Read
<1> QED
  BY <1>1 DEF Memory, Mem, Nones

LEMMA PathReached ==
  ASSUME DiskOK(disk), NEW p, NEW n, PathOK(p, n), NEW S, IsReach(disk, root, S),
         NEW l \in Levels, p[l].id # 0
  PROVE  p[l].id \in S /\ l # 4
<1>0. l = 0 \/ l = 1 \/ l = 2 \/ l = 3 \/ l = 4
  BY DEF Levels, BPLUS_MAX_HEIGHT
<1>1. (\A id \in S : LinksOf(disk[id]) \subseteq S) /\ root \in S
  BY DEF IsReach
<1>2. \A k \in Levels : p[k].id # 0 => p[k].node = disk[p[k].id] /\ disk[p[k].id].level = k
                                        /\ p[k].id \in DOMAIN disk
  BY DEF PathOK, OnPath
<1>3. l # 4
  <2>1. p[l].id \in DOMAIN disk /\ disk[p[l].id].level = l
    BY <1>2
  <2>2. disk[p[l].id].level \in 0 .. 3
    BY <2>1, DiskNode
  <2> QED
    BY <2>1, <2>2
<1>4. {0, 1, 2, 3} \subseteq Levels
  BY DEF Levels, BPLUS_MAX_HEIGHT
<1>5. \/ p[0].id = root /\ p[1].id = 0 /\ p[2].id = 0 /\ p[3].id = 0
      \/ p[1].id = root /\ p[2].id = 0 /\ p[3].id = 0 /\ p[0].id \in LinksOf(p[1].node) /\ p[1].id # 0
      \/ /\ p[2].id = root /\ p[3].id = 0 /\ p[1].id # 0 /\ p[2].id # 0
         /\ p[1].id \in LinksOf(p[2].node) /\ p[0].id \in LinksOf(p[1].node)
      \/ /\ p[3].id = root /\ p[2].id = 0 /\ p[1].id # 0 /\ p[3].id # 0
         /\ p[1].id \in LinksOf(p[3].node) /\ p[0].id \in LinksOf(p[1].node)
  <2>1. root # 0
    BY <1>1, DiskNode DEF IsReach
  <2> QED
    BY <2>1 DEF PathOK
<1>6. p[0].id = root \/ (p[1].id \in S /\ p[1].id # 0 /\ p[0].id \in LinksOf(p[1].node))
  BY <1>1, <1>2, <1>4, <1>5
<1>7. p[0].id \in S
  BY <1>1, <1>2, <1>4, <1>6
<1>8. (p[1].id # 0 => p[1].id \in S) /\ (p[2].id # 0 => p[2].id \in S) /\ (p[3].id # 0 => p[3].id \in S)
  BY <1>1, <1>2, <1>4, <1>5
<1> QED
  BY <1>0, <1>3, <1>7, <1>8

(* What the path leads to stays where it was.                              *)
PathStep(d2, fin, e, ids) ==
  /\ e.id \in DOMAIN d2 /\ e.node = fin[e.id] /\ NrItems(e.node) # 0
  /\ LinkOK(d2, fin, e.node, ids)

LEMMA KeptOnPath ==
  ASSUME DiskOK(disk), NEW p, NEW n, PathOK(p, n), NEW l \in Levels, l # 0, p[l].id # 0, NEW d2,
         \A x, k : Hangs(disk, x, k) => Hangs(d2, x, k), DOMAIN disk \subseteq DOMAIN d2,
         NEW fin, fin[p[l].id] = disk[p[l].id], NEW ids
  PROVE  PathStep(d2, fin, p[l], ids)
<1> DEFINE x == p[l].id
<1>1. x \in DOMAIN disk /\ p[l].node = disk[x] /\ disk[x].level # 0
  BY DEF PathOK, OnPath
<1>2. disk[x] \in Nodes
  BY <1>1 DEF DiskOK
<1> HIDE DEF x
<1>3. NrItems(disk[x]) # 0
  <2> DEFINE node == disk[x]
             k == NrKeys(node)
  <2>1. node.level # 0 /\ k \in 1 .. MAX_KEYS /\ node.nr_items = 2 * k + 1
    BY <1>1, <1>2 DEF Nodes, NodeOK
  <2> HIDE DEF node, k
  <2>2. NrItems(node) = node.nr_items
    BY <2>1 DEF NrItems, IsLeaf, BTREE_LEAF_LEVEL
  <2>3. node.nr_items # 0
    BY <2>1, BPlusNodeAssumption
  <2> QED
    BY <2>2, <2>3 DEF node
<1>4. \A y \in LinksOf(disk[x]) : Hangs(disk, y, Below(disk[x].level))
  BY <1>1 DEF DiskOK
<1>5. LinkOK(d2, fin, disk[x], ids)
  BY <1>4 DEF LinkOK
<1> QED
  BY <1>1, <1>3, <1>5 DEF PathStep, x

(* A leaf with room takes the key.                                         *)
LEMMA NothingNew ==
  ASSUME DiskOK(disk)
  PROVE  Fresh(disk, <<>>, 0) /\ WithNodes(disk, <<>>) = disk
<1>1. DOMAIN <<>> = {} /\ <<>> \in Seq(NodeIds) /\ Len(<<>>) = 0 /\ 1 .. 0 = {}
  OBVIOUS
<1>2. Fresh(disk, <<>>, 0)
  BY <1>1 DEF Fresh
<1>3. disk = [id \in DOMAIN disk |-> disk[id]]
  BY DEF DiskOK
<1>4. WithNodes(disk, <<>>) = [id \in DOMAIN disk \cup {} |-> IF id \in DOMAIN disk THEN disk[id]
                                                              ELSE FormattedNode]
  BY <1>1 DEF WithNodes
<1> QED
  BY <1>2, <1>3, <1>4

(* Only one leaf changes, and what is new holds what it lacks.             *)
GrowsAt(d, fin, S, x, N, key) ==
  /\ x \in S /\ \A id \in S : id # x => ItemsOf(fin[id]) = ItemsOf(d[id])
  /\ ItemsOf(fin[x]) \cup ItemsIn(fin, N) = ItemsOf(d[x]) \cup {key}

(* The items of the tree, when one leaf is replaced by itself and new      *)
(* nodes that hold the key and what it gave up.                            *)
LEMMA ItemsGrow ==
  ASSUME NEW d, NEW fin, NEW S, NEW x, NEW N, NEW key, GrowsAt(d, fin, S, x, N, key)
  PROVE  ItemsIn(fin, S \cup N) = ItemsIn(d, S) \cup {key}
BY DEF ItemsIn, GrowsAt

LeafOf(p) == disk[p[0].id]

LEMMA LeafOnPath ==
  ASSUME DiskOK(disk), NEW p, NEW n, PathOK(p, n)
  PROVE  /\ p[0] \in ElementType /\ p[0].id \in DOMAIN disk /\ p[0].id # 0
         /\ p[0].node = LeafOf(p) /\ LeafOf(p) \in Nodes /\ LeafOf(p).level = 0
         /\ LeafOf(p).items \in Seq(Keys) /\ Len(LeafOf(p).items) \in 0 .. MAX_ITEMS
         /\ NrItems(p[0].node) = Len(LeafOf(p).items)
         /\ \A l \in Levels : l # 0 /\ p[l].id # 0 => p[l].id # p[0].id
<1>1. 0 \in Levels
  BY DEF Levels, BPLUS_MAX_HEIGHT
<1>2. \A l \in Levels : p[l].id # 0 => p[l].id \in DOMAIN disk /\ p[l].node = disk[p[l].id]
                                       /\ disk[p[l].id].level = l
  BY DEF PathOK, OnPath
<1>3. p[0] \in ElementType /\ p[0].id # 0
  BY <1>1 DEF PathOK
<1>4. LeafOf(p) \in Nodes /\ LeafOf(p).level = 0 /\ p[0].node = LeafOf(p)
  BY <1>1, <1>2, <1>3 DEF DiskOK, LeafOf
<1>5. LeafOf(p).items \in Seq(Keys) /\ Len(LeafOf(p).items) <= MAX_ITEMS
  BY <1>4 DEF Nodes, NodeOK, NodeType
<1>6. Len(LeafOf(p).items) \in Nat
  BY <1>5
<1> QED
  BY <1>1, <1>2, <1>3, <1>4, <1>5, <1>6, BPlusNodeAssumption DEF NrItems, IsLeaf, BTREE_LEAF_LEVEL

(* The leaf that a key belongs in.                                         *)
LeafFor(node, x, key) ==
  \E i \in 0 .. NrKeys(node) : HangsAt(node, i, x) /\ Within(node, i, key)

Belongs(x, key) ==
  /\ disk[root].level = 0 => x = root
  /\ disk[root].level = 1 => LeafFor(disk[root], x, key)
  /\ disk[root].level <= 1 => key \notin ItemsOf(disk[x])

LeafThere(y) ==
  /\ y \in DOMAIN disk /\ disk[y] \in Nodes /\ disk[y].level = 0
  /\ disk[y].items \in Seq(Keys) /\ ItemsOf(disk[y]) \subseteq Keys

LEMMA LeafItems ==
  ASSUME DiskOK(disk), NEW y \in DOMAIN disk, disk[y].level = 0
  PROVE  LeafThere(y) /\ (NrItems(disk[y]) # 0 => ItemsOf(disk[y]) # {})
<1> DEFINE items == disk[y].items
<1>1. disk[y] \in Nodes
  BY DEF DiskOK
<1>2. items \in Seq(Keys) /\ NrItems(disk[y]) = Len(items)
  BY <1>1 DEF Nodes, NodeType, NrItems, IsLeaf, BTREE_LEAF_LEVEL
<1> HIDE DEF items
<1>3. \A i \in DOMAIN items : items[i] \in Keys
  BY <1>2, ElementOfSeq
<1>4. Len(items) # 0 => 1 \in DOMAIN items
  BY <1>2
<1>5. ItemsOf(disk[y]) = {items[i] : i \in DOMAIN items}
  BY DEF ItemsOf, items
<1> QED
  BY <1>1, <1>2, <1>3, <1>4, <1>5 DEF LeafThere, items

LEMMA RootOrdered ==
  ASSUME DiskOK(disk), root \in DOMAIN disk, Sorted(disk, root), disk[root].level = 1
  PROVE  /\ disk[root] \in Nodes /\ InOrder(disk, disk[root])
         /\ NrKeys(disk[root]) \in 1 .. MAX_KEYS
         /\ \A i \in 0 .. NrKeys(disk[root]) :
              LeafThere(Dc(disk[root], i)) /\ ItemsOf(disk[Dc(disk[root], i)]) # {}
<1> DEFINE node == disk[root]
<1>1. node \in Nodes /\ node.level # 0
  BY DEF DiskOK
<1>2. InOrder(disk, node)
  BY DEF Sorted
<1>3. NrKeys(node) \in 1 .. MAX_KEYS
  BY <1>1, KeyNumbers
<1>4. ASSUME NEW i \in 0 .. NrKeys(node)
      PROVE  LeafThere(Dc(node, i)) /\ ItemsOf(disk[Dc(node, i)]) # {}
  <2>1. Dc(node, i) \in LinksOf(node)
    BY <1>1 DEF LinksOf, IsLeaf, BTREE_LEAF_LEVEL
  <2>2. Hangs(disk, Dc(node, i), 0)
    BY <2>1 DEF DiskOK, Below
  <2> QED
    BY <2>2, LeafItems DEF Hangs
<1> QED
  BY <1>1, <1>2, <1>3, <1>4

(* A search that misses a key leads to the leaf it belongs in.             *)
LEMMA SearchAims ==
  ASSUME DiskOK(disk), root \in DOMAIN disk, Sorted(disk, root), NEW key \in Keys,
         ~Search(key).found
  PROVE  Belongs(Search(key).pe[0].id, key)
<1> DEFINE p == Search(key).pe
           x == p[0].id
           node == disk[root]
<1>1. PathOK(p, Search(key).length) /\ Aimed(p, Search(key).found, key)
  BY SearchLands
<1>2. x \in DOMAIN disk /\ disk[x].level = 0 /\ LeafThere(x)
  <2>1. x \in DOMAIN disk /\ disk[x].level = 0
    BY <1>1, LeafOnPath DEF LeafOf
  <2> QED
    BY <2>1, LeafItems
<1>3. /\ ~BinSearch(disk[x], key).found
      /\ node.level = 0 => x = root
      /\ node.level = 1 => x = Dc(node, BinSearch(node, key).position)
  BY <1>1 DEF Aimed
<1> HIDE DEF p, x, node
<1>4. ASSUME Ascends(disk[x].items) PROVE key \notin ItemsOf(disk[x])
  BY <1>2, <1>3, <1>4, LeafSearched DEF LeafThere
<1>5. CASE node.level = 0
  <2>1. Ascends(disk[x].items)
    BY <1>3, <1>5 DEF Sorted, node
  <2> QED
    BY <1>3, <1>4, <1>5, <2>1 DEF Belongs, x, p, node
<1>6. CASE node.level = 1
  <2> DEFINE i == BinSearch(node, key).position
  <2>1. node \in Nodes /\ node.level # 0 /\ InOrder(disk, node)
    BY <1>6, RootOrdered DEF node
  <2>2. i \in 0 .. NrKeys(node) /\ Within(node, i, key)
    BY <2>1, InnerSearched DEF InOrder
  <2>3. x = Dc(node, i)
    BY <1>3, <1>6
  <2> HIDE DEF i
  <2>4. ItemsOf(disk[x]) # {} /\ ItemsOf(disk[x]) \subseteq Keys
    BY <1>6, <2>2, <2>3, RootOrdered DEF node, LeafThere
  <2>5. HangsAt(node, i, x)
    BY <2>1, <2>2, <2>3, <2>4, OrderedOnce
  <2>6. LeafFor(node, x, key)
    BY <2>2, <2>5 DEF LeafFor
  <2>7. Ascends(disk[x].items)
    BY <2>1, <2>2, <2>3 DEF InOrder
  <2> QED
    BY <1>4, <1>6, <2>6, <2>7 DEF Belongs, x, p, node
<1>7. CASE ~(node.level <= 1)
  BY <1>7 DEF Belongs, node
<1>8. node.level \in 0 .. 3
  BY DiskNode DEF node
<1> QED
  BY <1>5, <1>6, <1>7, <1>8

(* The leaf takes the key, or keeps what it has.                           *)
LEMMA LeafTakes ==
  ASSUME DiskOK(disk), root \in DOMAIN disk, Sorted(disk, root), NEW key, NEW x,
         Belongs(x, key), x \in DOMAIN disk, disk[x].level = 0,
         NEW g, \A id \in DOMAIN disk : id # x => g[id] = disk[id],
         g[x].level = 0, disk[root].level <= 1 => Ascends(g[x].items),
         ItemsOf(g[x]) \subseteq ItemsOf(disk[x]) \cup {key}
  PROVE  Sorted(g, root)
<1>1. CASE x = root
  BY <1>1 DEF Sorted
<1>2. CASE x # root /\ disk[root].level = 1
  <2> DEFINE node == disk[root]
  <2>1. g[root] = node
    BY <1>2
  <2>2. PICK i \in 0 .. NrKeys(node) : HangsAt(node, i, x) /\ Within(node, i, key)
    BY <1>2 DEF Belongs, LeafFor
  <2>3. InOrder(disk, node) /\ \A q \in 0 .. NrKeys(node) : Dc(node, q) \in DOMAIN disk
    BY <1>2, RootOrdered DEF LeafThere
  <2>4. KeepsOthers(disk, g, node, x)
    BY <2>3 DEF KeepsOthers
  <2>6. Ascends(g[x].items)
    BY <1>2
  <2> HIDE DEF node
  <2>5. InOrder(g, node)
    BY <2>2, <2>3, <2>4, <2>6, OrderKept
  <2> QED
    BY <1>2, <2>1, <2>5 DEF Sorted, node
<1>3. CASE x # root /\ disk[root].level # 1
  BY <1>3 DEF Sorted, Belongs
<1> QED
  BY <1>1, <1>2, <1>3

(* The leaf of the root, when it has been searched.                        *)
LEMMA LeafAscends ==
  ASSUME DiskOK(disk), root \in DOMAIN disk, Sorted(disk, root), NEW key, NEW x,
         Belongs(x, key), disk[root].level <= 1
  PROVE  Ascends(disk[x].items) /\ key \notin ItemsOf(disk[x])
<1>0. disk[root].level \in 0 .. 3
  BY DiskNode
<1>1. CASE disk[root].level = 0
  BY <1>1 DEF Sorted, Belongs
<1>2. CASE disk[root].level = 1
  <2>1. PICK i \in 0 .. NrKeys(disk[root]) : HangsAt(disk[root], i, x)
    BY <1>2 DEF Belongs, LeafFor
  <2>2. Dc(disk[root], i) = x
    BY <2>1 DEF HangsAt
  <2> QED
    BY <1>2, <2>1, <2>2 DEF Sorted, InOrder, Belongs
<1> QED
  BY <1>0, <1>1, <1>2

(* What is prepared is sorted, if it is whenever the leaf comes before     *)
(* what stays of the path.                                                 *)
NewIds(X) == UNION {IdsOf(X[l]) : l \in Levels}

WritesInOrder(d2, fin, x, A, r) == \A g : PartWritten(d2, fin, x, A, g) => Sorted(g, r)

LEMMA OrdersFrom ==
  ASSUME NEW le, AllRead(le), NEW ri, AllRead(ri), NEW d2, NEW fin, NEW p2,
         NEW X, Plan(d2, fin, p2, X), NEW le2, NEW ri2, Attaching(le, ri, le2, ri2, X),
         NEW r, NEW n, NEW ok, NEW m2, m2 = Mem(d2, r, p2, n, le2, ri2, ok),
         p2[0].id \in DOMAIN d2, WritesInOrder(d2, fin, p2[0].id, NewIds(X), r)
  PROVE  Orders(m2, fin)
<1> DEFINE A == NewIds(X)
<1>1. m2.disk = d2 /\ m2.pe = p2 /\ m2.left = le2 /\ m2.right = ri2 /\ m2.root = r
  BY MemIs
<1>2. ASSUME NEW l \in Levels, NEW e \in Around(m2, l)
      PROVE  e.id \in A \/ e.node = d2[e.id]
  <2>1. e \in AroundOf(le, ri, l) \/ e \in X[l]
    BY <1>1, <1>2 DEF Around, Attaching, AroundOf
  <2>2. e \in X[l] => e.id \in A
    BY DEF IdsOf, NewIds
  <2>3. e \in AroundOf(le, ri, l) => e.id \in DOMAIN disk /\ e.node = disk[e.id]
    BY ReadElement
  <2> QED
    BY <2>1, <2>2, <2>3 DEF Plan
<1> HIDE DEF A
<1>3. KeptAround(m2, A)
  BY <1>1, <1>2 DEF KeptAround
<1> QED
  BY <1>1, <1>3 DEF Orders, WritesInOrder, A

(* A leaf with room.                                                       *)
LEMMA KeyTaken ==
  ASSUME DiskOK(disk), root \in DOMAIN disk, NEW S, IsReach(disk, root, S), NEW p, NEW n,
         PathOK(p, n), NEW key \in Keys, NEW ok, NEW m, m = Mem(disk, root, p, n, Nones, Nones, ok),
         NrItems(p[0].node) # MAX_ITEMS, Sorted(disk, root), Belongs(p[0].id, key),
         NEW m2, m2 = WithLeaf(m, Punched(p[0].node.items, key))
  PROVE  \E fin : Grown(m2, fin, key, S) /\ Orders(m2, fin)
<1> DEFINE x == p[0].id
           leaf == disk[x]
           v == Punched(leaf.items, key)
           w == [leaf EXCEPT !.items = v]
           f == WithItems(p[0], v)
           p2 == PathWith(p, 0, f)
           fin == [id \in DOMAIN disk |-> IF id = x THEN w ELSE disk[id]]
           X == [l \in Levels |-> {}]
<1>0. 0 \in Levels /\ p \in [Levels -> ElementType]
  BY DEF Levels, BPLUS_MAX_HEIGHT, PathOK
<1>1. /\ p[0] \in ElementType /\ x \in DOMAIN disk /\ x # 0
      /\ p[0].node = leaf /\ leaf \in Nodes /\ leaf.level = 0
      /\ leaf.items \in Seq(Keys) /\ Len(leaf.items) \in 0 .. MAX_ITEMS
      /\ NrItems(p[0].node) = Len(leaf.items)
      /\ \A l \in Levels : l # 0 /\ p[l].id # 0 => p[l].id # x
  BY LeafOnPath DEF LeafOf
<1>2. /\ v \in Seq(Keys) /\ Len(v) = Len(leaf.items) + 1 /\ Len(v) \in 1 .. MAX_ITEMS
      /\ {v[i] : i \in DOMAIN v} = {leaf.items[i] : i \in DOMAIN leaf.items} \cup {key}
  <2> HIDE DEF leaf
  <2> DEFINE k == Len(leaf.items)
  <2>1. k \in Nat /\ k < MAX_ITEMS /\ MAX_ITEMS \in Nat
    BY <1>1, BPlusNodeAssumption
  <2>2. v \in Seq(Keys) /\ Len(v) = k + 1
        /\ {v[i] : i \in 1 .. k + 1} = {leaf.items[i] : i \in 1 .. k} \cup {key}
    BY <1>1, PunchedIn
  <2> HIDE DEF v
  <2>3. DOMAIN v = 1 .. k + 1 /\ DOMAIN leaf.items = 1 .. k
    BY <1>1, <2>2
  <2> HIDE DEF k
  <2>4. k + 1 \in 1 .. MAX_ITEMS
    BY <2>1
  <2> QED
    BY <2>2, <2>3, <2>4 DEF k
<1> HIDE DEF leaf, v
<1>3. /\ w \in Nodes /\ w.level = 0 /\ NrItems(w) # 0 /\ LinksOf(w) = {}
      /\ ItemsOf(w) = ItemsOf(leaf) \cup {key}
  <2>1. w = [leaf EXCEPT !.items = v]
    OBVIOUS
  <2>3. leaf \in Nodes /\ leaf.level = 0 /\ v \in Seq(Keys) /\ Len(v) \in 1 .. MAX_ITEMS
    BY <1>1, <1>2
  <2> HIDE DEF w
  <2>2. /\ w \in Nodes /\ w.level = 0 /\ NrItems(w) # 0 /\ LinksOf(w) = {}
        /\ ItemsOf(w) = {v[i] : i \in DOMAIN v}
    BY <2>1, <2>3, LeafIn
  <2> QED
    BY <1>2, <2>2 DEF ItemsOf
<1>4. f \in ElementType /\ f.id = x /\ f.node = w
  BY <1>1, <1>2, WithItemsIs
<1> HIDE DEF w, f
<1>5. p2 \in [Levels -> ElementType] /\ p2[0] = f /\ \A l \in Levels : l # 0 => p2[l] = p[l]
  BY <1>0, <1>4, PathSet
<1>6. m2 = Mem(disk, root, p2, n, Nones, Nones, ok)
  <2>1. Updates(m, disk, root, p, n, Nones, Nones, ok)
    BY MemWith
  <2>2. m2 = WithLeaf(m, v)
    BY <1>1 DEF v
  <2> QED
    BY <2>1, <2>2 DEF Updates, f
<1> HIDE DEF p2
<1>7. /\ fin \in [DOMAIN disk -> Nodes] /\ fin[x] = w
      /\ \A id \in DOMAIN disk : id # x => fin[id] = disk[id]
      /\ \A id \in DOMAIN disk : fin[id].level = disk[id].level /\ LinksOf(fin[id]) = LinksOf(disk[id])
  <2>1. LinksOf(leaf) = {}
    BY <1>1 DEF LinksOf, IsLeaf, BTREE_LEAF_LEVEL
  <2> QED
    BY <1>1, <1>3, <2>1 DEF DiskOK, leaf
<1> HIDE DEF fin, x
<1>8. Plan(disk, fin, p2, X)
  <2>1. ASSUME NEW l \in Levels, p2[l].id # 0
        PROVE  PathStep(disk, fin, p2[l], UNION {IdsOf(X[i]) : i \in Levels})
    <3>1. CASE l = 0
      BY <1>1, <1>3, <1>4, <1>5, <1>7, <3>1 DEF PathStep, LinkOK
    <3>2. CASE l # 0
      <4>1. p2[l] = p[l] /\ p[l].id # 0 /\ p[l].id # x
        BY <1>1, <1>5, <2>1, <3>2
      <4>2. p[l].id \in DOMAIN disk
        BY <4>1 DEF PathOK, OnPath
      <4>3. fin[p[l].id] = disk[p[l].id]
        BY <1>7, <4>1, <4>2
      <4> HIDE DEF X
      <4> QED
        BY <3>2, <4>1, <4>3, KeptOnPath
    <3> QED
      BY <3>1, <3>2
  <2>2. ASSUME NEW id \in DOMAIN disk
        PROVE  fin[id] = disk[id] \/ \E l \in Levels : p2[l].id = id
    BY <1>0, <1>4, <1>5, <1>7
  <2> QED
    BY <1>5, <1>7, <2>1, <2>2 DEF Plan, PathStep
<1>9. Attaching(Nones, Nones, Nones, Nones, X) /\ AllRead(Nones)
  <2>1. AllRead(Nones)
    BY DEF AllRead, NbType, Nones, Read
  <2> QED
    BY <2>1 DEF AllRead, Attaching
<1>10. Ready(m2, fin)
  BY <1>6, <1>8, <1>9, ReadyFrom
<1>11. m2.disk = disk /\ m2.root = root /\ IsMem(m2)
  BY <1>6, MemIs
<1>12. IsReach(fin, root, S \cup (DOMAIN disk \ DOMAIN disk))
  <2>1. S \cup (DOMAIN disk \ DOMAIN disk) = S
    OBVIOUS
  <2>2. DOMAIN fin = DOMAIN disk
    BY <1>7
  <2> QED
    BY <1>7, <2>1, <2>2 DEF IsReach
<1>13. ItemsIn(fin, S \cup (DOMAIN disk \ DOMAIN disk)) = ItemsIn(disk, S) \cup {key}
  <2>1. x \in S
    BY <1>0, <1>1, PathReached DEF x
  <2>2. \A id \in S : id # x => ItemsOf(fin[id]) = ItemsOf(disk[id])
    BY <1>7 DEF IsReach
  <2> DEFINE N == DOMAIN disk \ DOMAIN disk
  <2>3. ItemsIn(fin, N) = {}
    BY DEF ItemsIn
  <2>4. ItemsOf(fin[x]) \cup ItemsIn(fin, N) = ItemsOf(disk[x]) \cup {key}
    BY <1>3, <1>7, <2>3 DEF leaf
  <2> HIDE DEF N
  <2>5. ItemsIn(fin, S \cup N) = ItemsIn(disk, S) \cup {key}
    <3>1. GrowsAt(disk, fin, S, x, N, key)
      BY <2>1, <2>2, <2>4 DEF GrowsAt
    <3> QED
      BY <3>1, ItemsGrow
  <2> QED
    BY <2>5 DEF N
<1>14. \E new : Fresh(disk, new, Len(new)) /\ Len(new) \in 0 .. 3 /\ disk = WithNodes(disk, new)
  <2>1. Len(<<>>) = 0 /\ 0 \in 0 .. 3
    OBVIOUS
  <2> QED
    BY <2>1, NothingNew
<1>15. Grown(m2, fin, key, S)
  BY <1>10, <1>11, <1>12, <1>13, <1>14 DEF Grown
<1>16. Orders(m2, fin)
  <2> DEFINE A == NewIds(X)
  <2> HIDE DEF A
  <2>1. disk[root].level <= 1 => Ascends(leaf.items) /\ Ascends(v)
    <3>1. SUFFICES ASSUME disk[root].level <= 1 PROVE Ascends(leaf.items) /\ Ascends(v)
      OBVIOUS
    <3>2. Ascends(leaf.items) /\ key \notin ItemsOf(leaf)
      BY <3>1, LeafAscends DEF leaf, x
    <3>3. \A i \in 1 .. Len(leaf.items) : leaf.items[i] # key
      BY <1>1, <3>2 DEF ItemsOf
    <3> QED
      BY <1>1, <3>2, <3>3, PunchedAscends DEF v
  <2>2. ASSUME NEW h, PartWritten(disk, fin, x, A, h) PROVE Sorted(h, root)
    <3>1. \A id \in DOMAIN disk : id # x => h[id] = disk[id]
      BY <1>7, <2>2 DEF PartWritten
    <3>2. h[x] = leaf \/ h[x] = w
      BY <1>1, <1>7, <2>2 DEF PartWritten, leaf
    <3>3. leaf.level = 0 /\ w.level = 0 /\ w.items = v
      BY <1>1, <1>3 DEF w, Nodes, NodeType
    <3>4. /\ h[x].level = 0 /\ (disk[root].level <= 1 => Ascends(h[x].items))
          /\ ItemsOf(h[x]) \subseteq ItemsOf(disk[x]) \cup {key}
      BY <1>3, <2>1, <3>2, <3>3 DEF leaf
    <3>5. Belongs(x, key) /\ x \in DOMAIN disk /\ disk[x].level = 0
      BY <1>1 DEF x, leaf
    <3> QED
      BY <3>1, <3>4, <3>5, LeafTakes
  <2>3. x = p2[0].id
    BY <1>4, <1>5
  <2>4. WritesInOrder(disk, fin, p2[0].id, NewIds(X), root)
    BY <2>2, <2>3 DEF WritesInOrder, A
  <2> HIDE DEF X, w, v, leaf
  <2> QED
    BY <1>1, <1>6, <1>8, <1>9, <2>3, <2>4, OrdersFrom
<1> QED
  BY <1>15, <1>16

(* What all splits have in common.                                         *)
LEMMA Finished ==
  ASSUME DiskOK(disk), NEW S, NEW key, NEW le, AllRead(le), NEW ri, AllRead(ri),
         NEW new, NEW k, k \in 0 .. 3, Fresh(disk, new, k), NEW d2, d2 = WithNodes(disk, new),
         NEW fin, NEW p2, NEW X, Plan(d2, fin, p2, X), NEW le2, NEW ri2,
         Attaching(le, ri, le2, ri2, X), NEW r, r \in DOMAIN d2, NEW n, NEW ok, NEW m2,
         m2 = Mem(d2, r, p2, n, le2, ri2, ok), NEW N, N = DOMAIN d2 \ DOMAIN disk, NEW x,
         \/ fin[r].level = 3 /\ disk[root].level = 2
         \/ IsReach(fin, r, S \cup N) /\ GrowsAt(disk, fin, S, x, N, key)
  PROVE  Grown(m2, fin, key, S)
<1>1. Ready(m2, fin)
  BY ReadyFrom
<1>2. m2.disk = d2 /\ m2.root = r /\ IsMem(m2)
  BY MemIs
<1>3. Len(new) = k /\ DOMAIN new = 1 .. k /\ \A i \in DOMAIN new : new[i] \in NodeIds
  BY DEF Fresh
<1>4. DiskOK(d2)
  BY <1>3, Allocated
<1>5. \/ fin[r].level = 3 /\ disk[root].level = 2
      \/ IsReach(fin, r, S \cup N) /\ ItemsIn(fin, S \cup N) = ItemsIn(disk, S) \cup {key}
  BY ItemsGrow
<1> QED
  BY <1>1, <1>2, <1>3, <1>4, <1>5 DEF Grown

NewDisk(d2, new, k) ==
  /\ DOMAIN d2 = DOMAIN disk \cup {new[i] : i \in 1 .. k}
  /\ \A id \in DOMAIN disk : d2[id] = disk[id]
  /\ \A id \in DOMAIN d2 \ DOMAIN disk : d2[id] = FormattedNode
  /\ \A x, l : Hangs(disk, x, l) => Hangs(d2, x, l)

LEMMA NewDiskIs ==
  ASSUME DiskOK(disk), NEW new, NEW k, k \in 0 .. 3, Fresh(disk, new, k), NEW d2,
         d2 = WithNodes(disk, new)
  PROVE  NewDisk(d2, new, k)
<1>1. DOMAIN new = 1 .. k /\ \A i \in DOMAIN new : new[i] \in NodeIds
  BY DEF Fresh
<1>2. /\ DOMAIN d2 = DOMAIN disk \cup {new[i] : i \in DOMAIN new}
      /\ \A id \in DOMAIN disk : d2[id] = disk[id]
      /\ \A id \in DOMAIN d2 \ DOMAIN disk : d2[id] = FormattedNode
      /\ \A x, l : Hangs(disk, x, l) => Hangs(d2, x, l)
  <2>1. NewIn(disk, d2, new)
    BY <1>1, Allocated
  <2> QED
    BY <2>1 DEF NewIn
<1> QED
  BY <1>1, <1>2 DEF NewDisk

(* A full leaf is split.                                                   *)
HalvesIs(p, halves, key) ==
  /\ halves.leaf \in Seq(Keys) /\ Len(halves.leaf) \in 1 .. MAX_ITEMS
  /\ halves.new \in Seq(Keys) /\ Len(halves.new) \in 1 .. MAX_ITEMS
  /\ Head(halves.new) \in Keys
  /\ LET w == [LeafOf(p) EXCEPT !.items = halves.leaf]
         v == LeafNode(halves.new)
     IN  /\ w \in Nodes /\ w.level = 0 /\ NrItems(w) # 0 /\ LinksOf(w) = {}
         /\ v \in Nodes /\ v.level = 0 /\ NrItems(v) # 0 /\ LinksOf(v) = {}
         /\ ItemsOf(w) \cup ItemsOf(v) = ItemsOf(LeafOf(p)) \cup {key}

(* A full leaf and the node files it takes.                                *)
LEMMA LeafHalved ==
  ASSUME DiskOK(disk), NEW p, NEW n, PathOK(p, n), NrItems(p[0].node) = MAX_ITEMS,
         NEW key \in Keys, NEW halves, halves = AdjustedLeaf(p[0].node.items, key)
  PROVE  HalvesIs(p, halves, key)
<1> DEFINE leaf == LeafOf(p)
           w == [leaf EXCEPT !.items = halves.leaf]
           v == LeafNode(halves.new)
<1>1. /\ leaf \in Nodes /\ leaf.level = 0 /\ leaf.items \in Seq(Keys)
      /\ Len(leaf.items) = MAX_ITEMS /\ halves = AdjustedLeaf(leaf.items, key)
  BY LeafOnPath
<1>2. /\ halves.leaf \in Seq(Keys) /\ Len(halves.leaf) \in 1 .. MAX_ITEMS
      /\ halves.new \in Seq(Keys) /\ Len(halves.new) \in 1 .. MAX_ITEMS
      /\ {halves.leaf[i] : i \in DOMAIN halves.leaf} \cup {halves.new[i] : i \in DOMAIN halves.new}
           = {leaf.items[i] : i \in DOMAIN leaf.items} \cup {key}
  <2>1. Halved(leaf.items, key, halves)
    BY <1>1, AdjustedLeafIn
  <2> QED
    BY <2>1 DEF Halved
<1> DEFINE a == halves.leaf
           b == halves.new
<1>3. Head(b) \in Keys
  BY <1>2
<1> HIDE DEF leaf
<1>4. w = [leaf EXCEPT !.items = a] /\ a \in Seq(Keys) /\ Len(a) \in 1 .. MAX_ITEMS
  BY <1>2
<1>5. b \in Seq(Keys) /\ Len(b) \in 1 .. MAX_ITEMS
  BY <1>2
<1> HIDE DEF w, a
<1>6. /\ w \in Nodes /\ w.level = 0 /\ NrItems(w) # 0 /\ LinksOf(w) = {}
      /\ ItemsOf(w) = {a[i] : i \in DOMAIN a}
  <2>1. leaf \in Nodes /\ leaf.level = 0
    BY <1>1
  <2> QED
    BY <1>4, <2>1, LeafIn
<1> HIDE DEF b
<1>7. /\ LeafNode(b) \in Nodes /\ LeafNode(b).level = 0 /\ NrItems(LeafNode(b)) # 0
      /\ LinksOf(LeafNode(b)) = {} /\ ItemsOf(LeafNode(b)) = {b[i] : i \in DOMAIN b}
  BY <1>5, LeafNodeIn
<1>8. ItemsOf(w) \cup ItemsOf(v) = ItemsOf(leaf) \cup {key}
  BY <1>2, <1>6, <1>7 DEF a, b, ItemsOf
<1> QED
  BY <1>2, <1>3, <1>6, <1>7, <1>8 DEF HalvesIs, w, leaf, a, b

(* On a sound disk a link leads to a written node of the level below.      *)
LEMMA NodeLevel ==
  ASSUME NEW d, DiskOK(d), NEW id \in DOMAIN d
  PROVE  /\ d[id] \in Nodes /\ d[id].level \in 0 .. 3 /\ (d[id].level = 0 => LinksOf(d[id]) = {})
         /\ \A x \in LinksOf(d[id]) : x \in DOMAIN d /\ NrItems(d[x]) # 0
                                      /\ d[x].level = Below(d[id].level)
<1>1. d[id] \in Nodes
  BY DEF DiskOK
<1>2. d[id].level \in 0 .. 3
  BY <1>1 DEF Nodes, NodeOK, NodeType, Levels, BPLUS_MAX_HEIGHT
<1>3. d[id].level = 0 => LinksOf(d[id]) = {}
  BY DEF LinksOf, IsLeaf, BTREE_LEAF_LEVEL
<1>4. \A x \in LinksOf(d[id]) : Hangs(d, x, Below(d[id].level))
  BY DEF DiskOK
<1> QED
  BY <1>1, <1>2, <1>3, <1>4 DEF Hangs

(* A full leaf of a tree of up to two levels: its halves are in order.     *)
LEMMA LeafParts ==
  ASSUME DiskOK(disk), root \in DOMAIN disk, Sorted(disk, root), NEW p, NEW n, PathOK(p, n),
         NrItems(p[0].node) = MAX_ITEMS, NEW key \in Keys, Belongs(p[0].id, key),
         disk[root].level <= 1, NEW halves, halves = AdjustedLeaf(p[0].node.items, key)
  PROVE  Halved(disk[p[0].id].items, key, halves) /\ Parts(halves)
<1> DEFINE items == LeafOf(p).items
<1>1. /\ items \in Seq(Keys) /\ Len(items) = MAX_ITEMS /\ halves = AdjustedLeaf(items, key)
      /\ items = disk[p[0].id].items
  BY LeafOnPath DEF LeafOf
<1>2. Ascends(items) /\ \A i \in 1 .. Len(items) : items[i] # key
  <2>1. Ascends(items) /\ key \notin ItemsOf(LeafOf(p))
    BY LeafAscends DEF LeafOf
  <2> QED
    BY <1>1, <2>1 DEF ItemsOf
<1> HIDE DEF items
<1>3. Halved(items, key, halves) /\ Parts(halves)
  BY <1>1, <1>2, AdjustedLeafIn, HalvesPart
<1> QED
  BY <1>1, <1>3

(* The root takes the new leaf.                                            *)
LEMMA RootTakes ==
  ASSUME DiskOK(disk), root \in DOMAIN disk, Sorted(disk, root), NEW key \in Keys, NEW x,
         Belongs(x, key), x \in DOMAIN disk, disk[x].level = 0, disk[root].level = 1,
         disk[root].nr_items < MAX_KEYS + MAX_DC,
         NEW halves, Halved(disk[x].items, key, halves), Parts(halves),
         NEW a \in NodeIds, a \notin DOMAIN disk, NEW k, k = NrKeys(disk[root]),
         NEW u, u = AdjustedInternal(disk[root], k, k + 1, Head(halves.new), a),
         NEW g, \A id \in DOMAIN disk : id # x /\ id # root => g[id] = disk[id],
         g[x].items = halves.leaf, g[a].items = halves.new
  PROVE  InOrder(g, u)
<1> DEFINE node == disk[root]
<1>1. /\ node \in Nodes /\ node.level # 0 /\ InOrder(disk, node)
      /\ \A i \in 0 .. k : LeafThere(Dc(node, i))
  BY RootOrdered
<1>2. PICK i \in 0 .. k : HangsAt(node, i, x) /\ Within(node, i, key)
  BY DEF Belongs, LeafFor
<1>3. k \in Nat /\ k < MAX_KEYS
  <2>1. k \in 1 .. MAX_KEYS /\ node.nr_items = 2 * k + 1 /\ MAX_KEYS \in Nat
    BY <1>1, KeyNumbers DEF Nodes, NodeOK
  <2> HIDE DEF node
  <2>2. 2 * k + 1 < MAX_KEYS + (MAX_KEYS + 1)
    BY <2>1 DEF MAX_DC, node
  <2> QED
    BY <2>1, <2>2
<1>4. ItemsOf(disk[x]) \subseteq Keys
  BY LeafItems DEF LeafThere
<1>5. \A q \in 0 .. k : Dc(node, q) # a
  BY <1>1 DEF LeafThere
<1>6. KeepsOthers(disk, g, node, x)
  <2>1. ASSUME NEW q \in 0 .. k, Dc(node, q) # x PROVE g[Dc(node, q)] = disk[Dc(node, q)]
    <3>1. Dc(node, q) \in DOMAIN disk /\ disk[Dc(node, q)].level = 0
      BY <1>1 DEF LeafThere
    <3>2. Dc(node, q) # root
      BY <3>1
    <3> QED
      BY <2>1, <3>1, <3>2
  <2> QED
    BY <2>1 DEF KeepsOthers
<1>7. k = NrKeys(node) /\ u = AdjustedInternal(node, k, k + 1, Head(halves.new), a)
  OBVIOUS
<1> HIDE DEF node
<1> QED
  BY <1>1, <1>2, <1>3, <1>4, <1>5, <1>6, <1>7, OrderTakes

LEMMA SplitLeafIs ==
  ASSUME NEW m, NEW side, NEW halves, NEW a, NEW b
  PROVE  /\ m.pe[1].id # 0 =>
              SplitLeaf(m, side, halves, a, b)
                = Attached(WithParent(WithLeaf(m, halves.leaf),
                             AdjustedInternal(m.pe[1].node, NrKeys(m.pe[1].node),
                                              NrKeys(m.pe[1].node) + 1, Head(halves.new), a)),
                           side, 0, a, LeafNode(halves.new))
         /\ m.pe[1].id = 0 =>
              SplitLeaf(m, side, halves, a, b)
                = Attached(WithRoot(WithLeaf(m, halves.leaf), b,
                             InternalNode(m.length + 1, Head(halves.new), m.pe[0].id, a)),
                           side, 0, a, LeafNode(halves.new))
BY DEF SplitLeaf

(* The parent has room for the new leaf.                                   *)
LEMMA ParentTakes ==
  ASSUME DiskOK(disk), root \in DOMAIN disk, NEW S, IsReach(disk, root, S), NEW p, NEW n,
         PathOK(p, n), NEW key \in Keys, NEW ok, NrItems(p[0].node) = MAX_ITEMS,
         Sorted(disk, root), Belongs(p[0].id, key),
         p[1].id # 0, p[1].node.nr_items < MAX_KEYS + MAX_DC,
         NEW le, AllRead(le), NEW ri, AllRead(ri),
         NEW new, Fresh(disk, new, 1), NEW d2, d2 = WithNodes(disk, new),
         NEW m, m = Mem(d2, root, p, n, le, ri, ok), NEW side, NEW b,
         NEW halves, halves = AdjustedLeaf(p[0].node.items, key),
         NEW m2, m2 = SplitLeaf(m, side, halves, new[1], b)
  PROVE  \E fin : Grown(m2, fin, key, S) /\ Orders(m2, fin)
<1> DEFINE x == p[0].id
           y == p[1].id
           a == new[1]
           w == [LeafOf(p) EXCEPT !.items = halves.leaf]
           v == LeafNode(halves.new)
           k == Head(halves.new)
           u == AdjustedInternal(disk[y], NrKeys(disk[y]), NrKeys(disk[y]) + 1, k, a)
           f == WithItems(p[0], halves.leaf)
           g == WithNode(p[1], u)
           e == Element(a, 0, v)
           q == PathWith(p, 0, f)
           p2 == PathWith(q, 1, g)
           X == [l \in Levels |-> IF l = 0 THEN {e} ELSE {}]
           fin == [id \in DOMAIN d2 |-> IF id = x THEN w ELSE IF id = y THEN u
                                        ELSE IF id = a THEN v ELSE d2[id]]
           N == DOMAIN d2 \ DOMAIN disk
<1>0. 0 \in Levels /\ 1 \in Levels /\ p \in [Levels -> ElementType]
  BY DEF Levels, BPLUS_MAX_HEIGHT, PathOK
<1>1. /\ p[0] \in ElementType /\ x \in DOMAIN disk /\ x # 0 /\ y # x
      /\ LeafOf(p).level = 0 /\ LeafOf(p) = disk[x] /\ LeafOf(p) \in Nodes /\ p[0].node = LeafOf(p)
      /\ \A l \in Levels : l # 0 /\ p[l].id # 0 => p[l].id # x
  BY <1>0, LeafOnPath DEF LeafOf
<1>2. HalvesIs(p, halves, key)
  BY LeafHalved
<1>3. /\ w \in Nodes /\ w.level = 0 /\ NrItems(w) # 0 /\ LinksOf(w) = {}
      /\ v \in Nodes /\ v.level = 0 /\ NrItems(v) # 0 /\ LinksOf(v) = {}
      /\ ItemsOf(w) \cup ItemsOf(v) = ItemsOf(disk[x]) \cup {key}
      /\ k \in Keys /\ halves.leaf \in Seq(Keys)
  BY <1>1, <1>2 DEF HalvesIs
<1>4. /\ p[1] \in ElementType /\ y \in DOMAIN disk /\ p[1].node = disk[y] /\ disk[y].level = 1
      /\ disk[y] \in Nodes
      /\ \A l \in Levels : l # 1 /\ p[l].id # 0 => p[l].id # y
  <2>1. OnPath(1, p[1]) /\ \A l \in Levels : p[l].id # 0 => OnPath(l, p[l])
    BY <1>0 DEF PathOK
  <2> QED
    BY <1>0, <2>1 DEF OnPath, DiskOK
<1>5. a \in NodeIds /\ a \notin DOMAIN disk /\ NewDisk(d2, new, 1)
  <2>1. 1 \in 0 .. 3 /\ 1 \in 1 .. 1
    OBVIOUS
  <2>2. NewDisk(d2, new, 1)
    BY <2>1, NewDiskIs
  <2> QED
    BY <2>1, <2>2 DEF Fresh
<1>6. /\ DOMAIN d2 = DOMAIN disk \cup {a} /\ N = {a}
      /\ \A id \in DOMAIN disk : d2[id] = disk[id]
      /\ \A id \in DOMAIN d2 \ DOMAIN disk : d2[id] = FormattedNode
      /\ \A z, l : Hangs(disk, z, l) => Hangs(d2, z, l)
  <2>1. {new[i] : i \in 1 .. 1} = {a}
    <3>1. 1 .. 1 = {1}
      OBVIOUS
    <3> QED
      BY <3>1
  <2>2. DOMAIN d2 = DOMAIN disk \cup {a}
    BY <1>5, <2>1 DEF NewDisk
  <2> QED
    BY <1>5, <2>2 DEF NewDisk
<1>7. /\ u \in Nodes /\ u.level = 1 /\ NrItems(u) # 0
      /\ ItemsOf(u) = {} /\ LinksOf(u) = LinksOf(disk[y]) \cup {a}
  <2> DEFINE node == disk[y]
  <2>1. /\ node \in Nodes /\ node.level # 0 /\ node.nr_items < MAX_KEYS + MAX_DC
        /\ u = AdjustedInternal(node, NrKeys(node), NrKeys(node) + 1, k, a)
        /\ k \in Keys /\ a \in NodeIds
    BY <1>3, <1>4, <1>5
  <2>2. node.level = 1
    BY <1>4
  <2> HIDE DEF node, u, k, a
  <2>3. /\ u \in Nodes /\ u.level = node.level /\ NrItems(u) # 0
        /\ ItemsOf(u) = {} /\ LinksOf(u) = LinksOf(node) \cup {a}
    BY <2>1, ParentIn
  <2> QED
    BY <2>2, <2>3 DEF node
<1>8. /\ f \in ElementType /\ f.id = x /\ f.node = w
      /\ g \in ElementType /\ g.id = y /\ g.node = u
      /\ e \in ElementType /\ e.id = a /\ e.node = v
  <2>1. w \in NodeType /\ u \in NodeType /\ v \in NodeType
    BY <1>3, <1>7 DEF Nodes
  <2>2. f \in ElementType /\ f.id = x /\ f.node = w
    BY <1>1, <1>3, WithItemsIs
  <2> HIDE DEF u, v, a
  <2>3. g \in ElementType /\ g.id = y /\ g.node = u
    BY <1>4, <2>1, WithNodeIs
  <2>4. e \in ElementType /\ e.id = a /\ e.node = v
    BY <1>5, <2>1, ElementIs
  <2> QED
    BY <2>2, <2>3, <2>4
<1>9. \E le2, ri2 : /\ m2 = Mem(d2, root, p2, n, le2, ri2, ok)
                    /\ AddedAt(le, ri, le2, ri2, 0, e)
  <2> DEFINE m3 == WithLeaf(m, halves.leaf)
             m4 == WithParent(m3, u)
  <2>1. m.pe = p /\ m.length = n
    BY MemIs
  <2>2. m2 = Attached(m4, side, 0, a, v)
    BY <1>4, <2>1, SplitLeafIs
  <2> HIDE DEF u
  <2>3. m3 = Mem(d2, root, q, n, le, ri, ok)
    <3>1. Updates(m, d2, root, p, n, le, ri, ok)
      BY MemWith
    <3> QED
      BY <3>1 DEF Updates
  <2> HIDE DEF m3
  <2>4. q[1] = p[1]
    BY <1>0 DEF PathWith
  <2> HIDE DEF q
  <2>5. m4 = Mem(d2, root, p2, n, le, ri, ok)
    <3>1. Updates(m3, d2, root, q, n, le, ri, ok)
      BY <2>3, MemWith
    <3> QED
      BY <2>4, <3>1 DEF Updates
  <2>6. le \in NbType /\ ri \in NbType
    BY DEF AllRead
  <2>7. e = Element(a, 0, v) /\ e \in ElementType
    BY <1>8
  <2> HIDE DEF m4, p2, e, v, a
  <2>8. \E le2, ri2 : /\ Attached(m4, side, 0, a, v) = Mem(d2, root, p2, n, le2, ri2, ok)
                      /\ AddedAt(le, ri, le2, ri2, 0, e)
    BY <1>0, <2>5, <2>6, <2>7, AttachedIs
  <2> QED
    BY <2>2, <2>8
<1> HIDE DEF w, v, u, f, g, e
<1>10. /\ p2 \in [Levels -> ElementType] /\ p2[0] = f /\ p2[1] = g
       /\ \A l \in Levels : l # 0 /\ l # 1 => p2[l] = p[l]
  <2>1. q \in [Levels -> ElementType] /\ q[0] = f /\ \A l \in Levels : l # 0 => q[l] = p[l]
    BY <1>0, <1>8, PathSet
  <2> HIDE DEF q
  <2>2. p2 = PathWith(q, 1, g) /\ 1 \in Levels /\ g \in ElementType
    BY <1>0, <1>8
  <2> HIDE DEF p2
  <2>3. p2 \in [Levels -> ElementType] /\ p2[1] = g /\ \A l \in Levels : l # 1 => p2[l] = q[l]
    BY <2>1, <2>2, PathSet
  <2> QED
    BY <1>0, <2>1, <2>3
<1>11. /\ fin \in [DOMAIN d2 -> Nodes] /\ fin[x] = w /\ fin[y] = u /\ fin[a] = v
       /\ \A id \in DOMAIN disk : id # x /\ id # y => fin[id] = disk[id]
  BY <1>1, <1>3, <1>4, <1>5, <1>6, <1>7 DEF DiskOK
<1> HIDE DEF fin, p2, x, y, a
<1> DEFINE ids == UNION {IdsOf(X[i]) : i \in Levels}
<1>12. ids = {a} /\ \A l \in Levels : X[l] = IF l = 0 THEN {e} ELSE {}
  <2>1. \A l \in Levels : IdsOf(X[l]) = IF l = 0 THEN {a} ELSE {}
    BY <1>8 DEF IdsOf
  <2>2. \A l \in Levels : X[l] = IF l = 0 THEN {e} ELSE {}
    OBVIOUS
  <2> HIDE DEF X
  <2>3. 0 \in Levels /\ IdsOf(X[0]) = {a} /\ \A l \in Levels : IdsOf(X[l]) \subseteq {a}
    BY <1>0, <2>1
  <2>4. ids = {a}
    BY <2>3
  <2> QED
    BY <2>2, <2>4
<1> HIDE DEF X
<1>13. Plan(d2, fin, p2, X)
  <2>1. ASSUME NEW l \in Levels, p2[l].id # 0
        PROVE  PathStep(d2, fin, p2[l], ids)
    <3>1. CASE l = 0
      BY <1>1, <1>3, <1>6, <1>8, <1>10, <1>11, <3>1 DEF PathStep, LinkOK
    <3>2. CASE l = 1
      <4>1. p2[l] = g /\ g.id \in DOMAIN d2 /\ g.node = fin[g.id] /\ NrItems(g.node) # 0
        BY <1>4, <1>6, <1>7, <1>8, <1>10, <1>11, <3>2
      <4>2. \A z \in LinksOf(disk[y]) : Hangs(d2, z, 0)
        BY <1>4, <1>6 DEF DiskOK, Below
      <4>3. LinkOK(d2, fin, u, ids)
        BY <1>3, <1>7, <1>11, <1>12, <4>2 DEF LinkOK, Below
      <4> QED
        BY <1>8, <4>1, <4>3 DEF PathStep
    <3>3. CASE l # 0 /\ l # 1
      <4>1. p2[l] = p[l] /\ p[l].id # 0 /\ p[l].id # x /\ p[l].id # y
        BY <1>1, <1>4, <1>10, <2>1, <3>3
      <4>2. p[l].id \in DOMAIN disk
        BY <4>1 DEF PathOK, OnPath
      <4>3. fin[p[l].id] = disk[p[l].id]
        BY <1>11, <4>1, <4>2
      <4>4. \A z, i : Hangs(disk, z, i) => Hangs(d2, z, i)
        BY <1>6
      <4>5. DOMAIN disk \subseteq DOMAIN d2
        BY <1>6
      <4> HIDE DEF ids
      <4> QED
        BY <3>3, <4>1, <4>3, <4>4, <4>5, KeptOnPath
    <3> QED
      BY <3>1, <3>2, <3>3
  <2>2. ASSUME NEW id \in DOMAIN disk
        PROVE  /\ d2[id] = disk[id] /\ id \in DOMAIN d2 /\ fin[id].level = disk[id].level
               /\ fin[id] = disk[id] \/ \E l \in Levels : p2[l].id = id
    BY <1>0, <1>1, <1>3, <1>4, <1>6, <1>7, <1>8, <1>10, <1>11
  <2>3. ASSUME NEW id \in DOMAIN d2 \ DOMAIN disk
        PROVE  d2[id] = FormattedNode /\ \E l \in Levels : \E z \in X[l] : z.id = id
    BY <1>0, <1>6, <1>8, <1>12
  <2>4. ASSUME NEW l \in Levels, NEW z \in X[l]
        PROVE  /\ z.id \in DOMAIN d2 \ DOMAIN disk /\ z.node = fin[z.id] /\ NrItems(z.node) # 0
               /\ LinksOf(z.node) = {}
    BY <1>3, <1>5, <1>6, <1>8, <1>11, <1>12, <2>4
  <2> HIDE DEF ids
  <2>5. \A l \in Levels : p2[l].id # 0 => PathStep(d2, fin, p2[l], ids)
    BY <2>1
  <2>6. \A l \in Levels : \A z \in X[l] :
          /\ z.id \in DOMAIN d2 \ DOMAIN disk /\ z.node = fin[z.id] /\ NrItems(z.node) # 0
          /\ LinkOK(d2, fin, z.node, UNION {IdsOf(X[i]) : i \in 0 .. l - 1})
    BY <2>4 DEF LinkOK
  <2> QED
    BY <1>10, <1>11, <2>2, <2>3, <2>5, <2>6 DEF Plan, PathStep, ids
<1>14. IsReach(fin, root, S \cup N)
  <2>0. DOMAIN fin = DOMAIN d2
    BY <1>11
  <2>1. S \subseteq DOMAIN disk /\ root \in S /\ y \in S
    <3>1. p[1].id \in S
      BY <1>0, PathReached
    <3> QED
      BY <3>1 DEF IsReach, y
  <2>2. \A id \in S : LinksOf(disk[id]) \subseteq S
    BY DEF IsReach
  <2>3. LinksOf(disk[x]) = {}
    BY <1>1 DEF LinksOf, IsLeaf, BTREE_LEAF_LEVEL
  <2>4. \A id \in DOMAIN disk : LinksOf(fin[id]) = IF id = y THEN LinksOf(disk[id]) \cup {a}
                                                   ELSE LinksOf(disk[id])
    BY <1>1, <1>3, <1>7, <1>11, <2>3
  <2>5. \A id \in S \cup N : LinksOf(fin[id]) \subseteq S \cup N
    BY <1>3, <1>6, <1>11, <2>1, <2>2, <2>4
  <2>6. ASSUME NEW C, root \in C, \A id \in C \cap DOMAIN fin : LinksOf(fin[id]) \subseteq C
        PROVE  S \cup N \subseteq C
    <3>1. \A id \in C \cap DOMAIN disk : LinksOf(disk[id]) \subseteq C
      BY <1>6, <2>0, <2>4, <2>6
    <3>2. S \subseteq C
      BY <2>6, <3>1 DEF IsReach
    <3>3. a \in C
      BY <1>4, <1>6, <2>0, <2>1, <2>4, <2>6, <3>2
    <3> QED
      BY <1>6, <3>2, <3>3
  <2> QED
    BY <1>6, <2>0, <2>1, <2>5, <2>6 DEF IsReach
<1>15. GrowsAt(disk, fin, S, x, N, key)
  <2>1. x \in S
    BY <1>0, <1>1, PathReached DEF x
  <2>2. ItemsOf(disk[y]) = {}
    <3>1. disk[y].items = <<>>
      BY <1>4 DEF Nodes, NodeOK
    <3> QED
      BY <3>1 DEF ItemsOf
  <2>3. \A id \in S : id # x => ItemsOf(fin[id]) = ItemsOf(disk[id])
    BY <1>7, <1>11, <2>2 DEF IsReach
  <2>4. ItemsIn(fin, N) = ItemsOf(v)
    BY <1>6, <1>11 DEF ItemsIn
  <2> QED
    BY <1>3, <1>11, <2>1, <2>3, <2>4 DEF GrowsAt
<1>16. PICK le2, ri2 : /\ m2 = Mem(d2, root, p2, n, le2, ri2, ok)
                       /\ AddedAt(le, ri, le2, ri2, 0, e)
  BY <1>9
<1>17. Attaching(le, ri, le2, ri2, X)
  BY <1>12, <1>16 DEF AddedAt, Attaching
<1>18. root \in DOMAIN d2 /\ 1 \in 0 .. 3
  BY <1>6
<1> HIDE DEF N
<1>19. N = DOMAIN d2 \ DOMAIN disk
  BY DEF N
<1>20. Grown(m2, fin, key, S)
  BY <1>13, <1>14, <1>15, <1>16, <1>17, <1>18, <1>19, Finished
<1>21. NewIds(X) = {a}
  BY <1>12 DEF NewIds
<1> HIDE DEF ids
<1>22. ASSUME NEW h, PartWritten(d2, fin, x, NewIds(X), h) PROVE Sorted(h, root)
  <2>1. \A id \in DOMAIN disk : id # x /\ id # y => h[id] = disk[id]
    BY <1>6, <1>11, <1>22 DEF PartWritten
  <2>2. h[x] \in {disk[x], w} /\ h[y] \in {disk[y], u} /\ h[a] \in {FormattedNode, v}
    BY <1>1, <1>4, <1>5, <1>6, <1>11, <1>22 DEF PartWritten
  <2>3. CASE root # y
    <3>1. root # 0 /\ {0, 1, 2, 3} \subseteq Levels
      BY DiskNode DEF Levels, BPLUS_MAX_HEIGHT
    <3>2. disk[root].level = 2 \/ disk[root].level = 3
      BY <2>3, <3>1 DEF PathOK, OnPath, y
    <3>3. h[root] = disk[root]
      BY <1>1, <2>1, <2>3, <3>2
    <3> QED
      BY <3>2, <3>3 DEF Sorted
  <2>4. CASE root = y
    <3>1. /\ Belongs(x, key) /\ disk[x].level = 0 /\ disk[root].level = 1
          /\ disk[root].nr_items < MAX_KEYS + MAX_DC
      BY <1>1, <1>4, <2>4 DEF x, y
    <3>2. Halved(disk[x].items, key, halves) /\ Parts(halves)
      BY <3>1, LeafParts DEF x
    <3>3. w.items = halves.leaf /\ w.level = 0 /\ v.items = halves.new
      BY <1>1, <1>3 DEF w, v, LeafNode, Nodes, NodeType
    <3>4. CASE h[y] = disk[y]
      <4>1. \A id \in DOMAIN disk : id # x => h[id] = disk[id]
        BY <2>1, <3>4
      <4>2. /\ h[x].level = 0 /\ Ascends(h[x].items)
            /\ ItemsOf(h[x]) \subseteq ItemsOf(disk[x]) \cup {key}
        <5>1. Ascends(disk[x].items)
          BY <3>1, LeafAscends
        <5> QED
          BY <1>3, <2>2, <3>1, <3>2, <3>3, <5>1 DEF Parts
      <4> QED
        BY <1>1, <3>1, <4>1, <4>2, LeafTakes
    <3>5. CASE h[y] = u /\ h[y] # disk[y]
      <4>1. h[x] = w
        BY <1>4, <1>5, <1>6, <1>11, <1>21, <1>22, <3>5 DEF PartWritten
      <4>2. h[a] = v
        <5>1. a \in LinksOf(h[y]) /\ y \in DOMAIN h /\ h[y].level = 1 /\ DiskOK(h)
          BY <1>4, <1>6, <1>7, <1>22, <3>5 DEF PartWritten
        <5>2. NrItems(h[a]) # 0
          BY <5>1, NodeLevel
        <5> QED
          BY <2>2, <5>2, FormattedIs DEF Empty
      <4>3. u = AdjustedInternal(disk[root], NrKeys(disk[root]), NrKeys(disk[root]) + 1,
                                 Head(halves.new), a)
        BY <2>4 DEF u, k
      <4>4. InOrder(h, u)
        BY <1>1, <1>5, <2>1, <2>4, <3>1, <3>2, <3>3, <4>1, <4>2, <4>3, RootTakes
      <4> QED
        BY <1>7, <2>4, <3>5, <4>4 DEF Sorted
    <3> QED
      BY <2>2, <3>4, <3>5
  <2> QED
    BY <2>3, <2>4
<1>23. p2[0].id = x /\ x \in DOMAIN d2
  BY <1>1, <1>6, <1>8, <1>10
<1>24. WritesInOrder(d2, fin, p2[0].id, NewIds(X), root)
  BY <1>22, <1>23 DEF WritesInOrder
<1>25. Orders(m2, fin)
  BY <1>13, <1>16, <1>17, <1>23, <1>24, OrdersFrom
<1> QED
  BY <1>20, <1>25

(* The leaf was the root: both halves get a new root.                      *)
LEMMA RootSplits ==
  ASSUME DiskOK(disk), root \in DOMAIN disk, NEW S, IsReach(disk, root, S), NEW p, NEW n,
         PathOK(p, n), NEW key \in Keys, NEW ok, NrItems(p[0].node) = MAX_ITEMS,
         Sorted(disk, root), Belongs(p[0].id, key),
         p[1].id = 0,
         NEW le, AllRead(le), NEW ri, AllRead(ri),
         NEW new, Fresh(disk, new, 2), NEW d2, d2 = WithNodes(disk, new),
         NEW m, m = Mem(d2, root, p, n, le, ri, ok), NEW side,
         NEW halves, halves = AdjustedLeaf(p[0].node.items, key),
         NEW m2, m2 = SplitLeaf(m, side, halves, new[1], new[2])
  PROVE  \E fin : Grown(m2, fin, key, S) /\ Orders(m2, fin)
<1> DEFINE x == p[0].id
           t == new[2]
           a == new[1]
           w == [LeafOf(p) EXCEPT !.items = halves.leaf]
           v == LeafNode(halves.new)
           k == Head(halves.new)
           u == InternalNode(1, k, x, a)
           f == WithItems(p[0], halves.leaf)
           g == Element(t, 0, u)
           e == Element(a, 0, v)
           q == PathWith(p, 0, f)
           p2 == PathWith(q, 1, g)
           X == [l \in Levels |-> IF l = 0 THEN {e} ELSE {}]
           fin == [id \in DOMAIN d2 |-> IF id = x THEN w ELSE IF id = t THEN u
                                        ELSE IF id = a THEN v ELSE d2[id]]
           N == DOMAIN d2 \ DOMAIN disk
<1>0. 0 \in Levels /\ 1 \in Levels /\ p \in [Levels -> ElementType] /\ n = 0 /\ p[0].id = root
      /\ root # 0 /\ \A l \in Levels : l # 0 => p[l].id = 0
  <2>1. 0 \in Levels /\ 1 \in Levels /\ p \in [Levels -> ElementType]
    BY DEF Levels, BPLUS_MAX_HEIGHT, PathOK
  <2>2. root # 0
    BY DiskNode
  <2>3. n = 0 /\ p[0].id = root /\ p[1].id = 0 /\ p[2].id = 0 /\ p[3].id = 0
    BY <2>2 DEF PathOK
  <2>4. \A l \in Levels : l # 0 => p[l].id = 0
    <3>1. \A l \in Levels : p[l].id # 0 => l # 4
      BY PathReached
    <3>2. \A l \in Levels : l = 0 \/ l = 1 \/ l = 2 \/ l = 3 \/ l = 4
      BY DEF Levels, BPLUS_MAX_HEIGHT
    <3> QED
      BY <2>3, <3>1, <3>2
  <2> QED
    BY <2>1, <2>2, <2>3, <2>4
<1>1. /\ p[0] \in ElementType /\ x \in DOMAIN disk /\ x # 0
      /\ LeafOf(p).level = 0 /\ LeafOf(p) = disk[x] /\ LeafOf(p) \in Nodes /\ p[0].node = LeafOf(p)
  BY <1>0, LeafOnPath DEF LeafOf
<1>2. HalvesIs(p, halves, key)
  BY LeafHalved
<1>3. /\ w \in Nodes /\ w.level = 0 /\ NrItems(w) # 0 /\ LinksOf(w) = {}
      /\ v \in Nodes /\ v.level = 0 /\ NrItems(v) # 0 /\ LinksOf(v) = {}
      /\ ItemsOf(w) \cup ItemsOf(v) = ItemsOf(disk[x]) \cup {key}
      /\ k \in Keys /\ halves.leaf \in Seq(Keys)
  BY <1>1, <1>2 DEF HalvesIs
<1>5. /\ a \in NodeIds /\ a \notin DOMAIN disk /\ t \in NodeIds /\ t \notin DOMAIN disk /\ t # a
      /\ NewDisk(d2, new, 2)
  <2>1. 2 \in 0 .. 3 /\ 1 \in 1 .. 2 /\ 2 \in 1 .. 2 /\ 1 # 2
    OBVIOUS
  <2>2. NewDisk(d2, new, 2)
    BY <2>1, NewDiskIs
  <2> QED
    BY <2>1, <2>2 DEF Fresh
<1>6. /\ DOMAIN d2 = DOMAIN disk \cup {a, t} /\ N = {a, t}
      /\ \A id \in DOMAIN disk : d2[id] = disk[id]
      /\ \A id \in DOMAIN d2 \ DOMAIN disk : d2[id] = FormattedNode
      /\ \A z, l : Hangs(disk, z, l) => Hangs(d2, z, l)
  <2>1. {new[i] : i \in 1 .. 2} = {a, t}
    <3>1. 1 .. 2 = {1, 2}
      OBVIOUS
    <3> QED
      BY <3>1
  <2>2. DOMAIN d2 = DOMAIN disk \cup {a, t}
    BY <1>5, <2>1 DEF NewDisk
  <2> QED
    BY <1>5, <2>2 DEF NewDisk
<1>7. /\ u \in Nodes /\ u.level = 1 /\ NrItems(u) # 0
      /\ ItemsOf(u) = {} /\ LinksOf(u) = {x, a}
  <2>1. k \in Keys \cup {0} /\ x \in NodeIds /\ a \in NodeIds /\ 1 \in 1 .. 3
    BY <1>1, <1>3, <1>5 DEF DiskOK
  <2>2. u = InternalNode(1, k, x, a)
    OBVIOUS
  <2> HIDE DEF u, k, a, x
  <2> QED
    BY <2>1, <2>2, RootIn, SMTT(20)
<1>8. /\ f \in ElementType /\ f.id = x /\ f.node = w
      /\ g \in ElementType /\ g.id = t /\ g.node = u
      /\ e \in ElementType /\ e.id = a /\ e.node = v
  <2>1. w \in NodeType /\ u \in NodeType /\ v \in NodeType
    BY <1>3, <1>7 DEF Nodes
  <2>2. f \in ElementType /\ f.id = x /\ f.node = w
    BY <1>1, <1>3, WithItemsIs
  <2> HIDE DEF u, v, a, t
  <2>3. g \in ElementType /\ g.id = t /\ g.node = u
    BY <1>5, <2>1, ElementIs
  <2>4. e \in ElementType /\ e.id = a /\ e.node = v
    BY <1>5, <2>1, ElementIs
  <2> QED
    BY <2>2, <2>3, <2>4
<1>9. \E le2, ri2 : /\ m2 = Mem(d2, t, p2, 1, le2, ri2, ok)
                    /\ AddedAt(le, ri, le2, ri2, 0, e)
  <2> DEFINE m3 == WithLeaf(m, halves.leaf)
             m4 == WithRoot(m3, t, u)
  <2>1. m.pe = p /\ m.length = n
    BY MemIs
  <2>2. m2 = Attached(m4, side, 0, a, v)
    <3>1. m.length + 1 = 1
      BY <1>0, <2>1
    <3> QED
      BY <2>1, <3>1, SplitLeafIs
  <2> HIDE DEF u
  <2>3. m3 = Mem(d2, root, q, n, le, ri, ok)
    <3>1. Updates(m, d2, root, p, n, le, ri, ok)
      BY MemWith
    <3> QED
      BY <3>1 DEF Updates
  <2> HIDE DEF m3
  <2> HIDE DEF q
  <2>5. m4 = Mem(d2, t, p2, 1, le, ri, ok)
    <3>1. Updates(m3, d2, root, q, n, le, ri, ok)
      BY <2>3, MemWith
    <3>2. n + 1 = 1
      BY <1>0
    <3>3. m4 = Mem(d2, t, PathWith(q, n + 1, Element(t, 0, u)), n + 1, le, ri, ok)
      BY <3>1 DEF Updates
    <3> QED
      BY <3>2, <3>3
  <2>6. le \in NbType /\ ri \in NbType
    BY DEF AllRead
  <2>7. e = Element(a, 0, v) /\ e \in ElementType
    BY <1>8
  <2> HIDE DEF m4, p2, e, v, a, t
  <2>8. \E le2, ri2 : /\ Attached(m4, side, 0, a, v) = Mem(d2, t, p2, 1, le2, ri2, ok)
                      /\ AddedAt(le, ri, le2, ri2, 0, e)
    BY <1>0, <2>5, <2>6, <2>7, AttachedIs
  <2> QED
    BY <2>2, <2>8
<1> HIDE DEF w, v, u, f, g, e
<1>10. /\ p2 \in [Levels -> ElementType] /\ p2[0] = f /\ p2[1] = g
       /\ \A l \in Levels : l # 0 /\ l # 1 => p2[l] = p[l]
  <2>1. q \in [Levels -> ElementType] /\ q[0] = f /\ \A l \in Levels : l # 0 => q[l] = p[l]
    BY <1>0, <1>8, PathSet
  <2> HIDE DEF q
  <2>2. p2 = PathWith(q, 1, g) /\ 1 \in Levels /\ g \in ElementType
    BY <1>0, <1>8
  <2> HIDE DEF p2
  <2>3. p2 \in [Levels -> ElementType] /\ p2[1] = g /\ \A l \in Levels : l # 1 => p2[l] = q[l]
    BY <2>1, <2>2, PathSet
  <2> QED
    BY <1>0, <2>1, <2>3
<1>11. /\ fin \in [DOMAIN d2 -> Nodes] /\ fin[x] = w /\ fin[t] = u /\ fin[a] = v
       /\ \A id \in DOMAIN disk : id # x => fin[id] = disk[id]
  BY <1>1, <1>3, <1>5, <1>6, <1>7 DEF DiskOK
<1> HIDE DEF fin, p2, x, t, a
<1> DEFINE ids == UNION {IdsOf(X[i]) : i \in Levels}
<1>12. ids = {a} /\ \A l \in Levels : X[l] = IF l = 0 THEN {e} ELSE {}
  <2>1. \A l \in Levels : IdsOf(X[l]) = IF l = 0 THEN {a} ELSE {}
    BY <1>8 DEF IdsOf
  <2>2. \A l \in Levels : X[l] = IF l = 0 THEN {e} ELSE {}
    OBVIOUS
  <2> HIDE DEF X
  <2>3. 0 \in Levels /\ IdsOf(X[0]) = {a} /\ \A l \in Levels : IdsOf(X[l]) \subseteq {a}
    BY <1>0, <2>1
  <2>4. ids = {a}
    BY <2>3
  <2> QED
    BY <2>2, <2>4
<1> HIDE DEF X
<1>13. Plan(d2, fin, p2, X)
  <2>1. ASSUME NEW l \in Levels, p2[l].id # 0
        PROVE  PathStep(d2, fin, p2[l], ids)
    <3>1. CASE l = 0
      BY <1>1, <1>3, <1>6, <1>8, <1>10, <1>11, <3>1 DEF PathStep, LinkOK
    <3>2. CASE l = 1
      <4>1. p2[l] = g /\ g.id \in DOMAIN d2 /\ g.node = fin[g.id] /\ NrItems(g.node) # 0
        BY <1>5, <1>6, <1>7, <1>8, <1>10, <1>11, <3>2
      <4>2. Hangs(d2, x, 0)
        <5>0. NrItems(disk[x]) # 0
          BY <1>1, BPlusNodeAssumption
        <5>1. Hangs(disk, x, 0)
          BY <1>1, <5>0 DEF Hangs
        <5> QED
          BY <1>6, <5>1
      <4>3. LinkOK(d2, fin, u, ids)
        BY <1>3, <1>7, <1>11, <1>12, <4>2 DEF LinkOK, Below
      <4> QED
        BY <1>8, <4>1, <4>3 DEF PathStep
    <3>3. CASE l # 0 /\ l # 1
      BY <1>0, <1>10, <2>1, <3>3
    <3> QED
      BY <3>1, <3>2, <3>3
  <2>2. ASSUME NEW id \in DOMAIN disk
        PROVE  /\ d2[id] = disk[id] /\ id \in DOMAIN d2 /\ fin[id].level = disk[id].level
               /\ fin[id] = disk[id] \/ \E l \in Levels : p2[l].id = id
    BY <1>0, <1>1, <1>3, <1>6, <1>7, <1>8, <1>10, <1>11
  <2>3. ASSUME NEW id \in DOMAIN d2 \ DOMAIN disk
        PROVE  /\ d2[id] = FormattedNode
               /\ \/ \E l \in Levels : p2[l].id = id
                  \/ \E l \in Levels : \E z \in X[l] : z.id = id
    BY <1>0, <1>6, <1>8, <1>10, <1>12
  <2>4. ASSUME NEW l \in Levels, NEW z \in X[l]
        PROVE  /\ z.id \in DOMAIN d2 \ DOMAIN disk /\ z.node = fin[z.id] /\ NrItems(z.node) # 0
               /\ LinksOf(z.node) = {}
    BY <1>3, <1>5, <1>6, <1>8, <1>11, <1>12, <2>4
  <2> HIDE DEF ids
  <2>5. \A l \in Levels : p2[l].id # 0 => PathStep(d2, fin, p2[l], ids)
    BY <2>1
  <2>6. \A l \in Levels : \A z \in X[l] :
          /\ z.id \in DOMAIN d2 \ DOMAIN disk /\ z.node = fin[z.id] /\ NrItems(z.node) # 0
          /\ LinkOK(d2, fin, z.node, UNION {IdsOf(X[i]) : i \in 0 .. l - 1})
    BY <2>4 DEF LinkOK
  <2> QED
    BY <1>10, <1>11, <2>2, <2>3, <2>5, <2>6 DEF Plan, PathStep, ids
<1>14. IsReach(fin, t, S \cup N)
  <2>0. DOMAIN fin = DOMAIN d2
    BY <1>11
  <2>1. S \subseteq DOMAIN disk /\ root \in S /\ x = root
    BY <1>0 DEF IsReach, x
  <2>2. \A id \in S : LinksOf(disk[id]) \subseteq S
    BY DEF IsReach
  <2>3. LinksOf(disk[x]) = {}
    BY <1>1 DEF LinksOf, IsLeaf, BTREE_LEAF_LEVEL
  <2>4. \A id \in DOMAIN disk : LinksOf(fin[id]) = LinksOf(disk[id])
    BY <1>3, <1>11, <2>3
  <2>5. \A id \in S \cup N : LinksOf(fin[id]) \subseteq S \cup N
    BY <1>3, <1>6, <1>7, <1>11, <2>1, <2>2, <2>4
  <2>6. ASSUME NEW C, t \in C, \A id \in C \cap DOMAIN fin : LinksOf(fin[id]) \subseteq C
        PROVE  S \cup N \subseteq C
    <3>1. \A id \in C \cap DOMAIN disk : LinksOf(disk[id]) \subseteq C
      BY <1>6, <2>0, <2>4, <2>6
    <3>2. x \in C /\ a \in C
      BY <1>6, <1>7, <1>11, <2>0, <2>6
    <3>3. S \subseteq C
      BY <2>1, <3>1, <3>2 DEF IsReach
    <3> QED
      BY <1>6, <2>6, <3>2, <3>3
  <2> QED
    BY <1>6, <2>0, <2>1, <2>5, <2>6 DEF IsReach
<1>15. GrowsAt(disk, fin, S, x, N, key)
  <2>1. x \in S
    BY <1>0, <1>1, PathReached DEF x
  <2>3. \A id \in S : id # x => ItemsOf(fin[id]) = ItemsOf(disk[id])
    BY <1>11 DEF IsReach
  <2>4. ItemsIn(fin, N) = ItemsOf(v)
    BY <1>6, <1>7, <1>11 DEF ItemsIn
  <2> QED
    BY <1>3, <1>11, <2>1, <2>3, <2>4 DEF GrowsAt
<1>16. PICK le2, ri2 : /\ m2 = Mem(d2, t, p2, 1, le2, ri2, ok)
                       /\ AddedAt(le, ri, le2, ri2, 0, e)
  BY <1>9
<1>17. Attaching(le, ri, le2, ri2, X)
  BY <1>12, <1>16 DEF AddedAt, Attaching
<1>18. t \in DOMAIN d2 /\ 2 \in 0 .. 3
  BY <1>6
<1> HIDE DEF N
<1>19. N = DOMAIN d2 \ DOMAIN disk
  BY DEF N
<1>20. Grown(m2, fin, key, S)
  BY <1>13, <1>14, <1>15, <1>16, <1>17, <1>18, <1>19, Finished
<1>21. NewIds(X) = {a}
  BY <1>12 DEF NewIds
<1> HIDE DEF ids
<1>22. ASSUME NEW h, PartWritten(d2, fin, x, NewIds(X), h) PROVE Sorted(h, t)
  <2>1. h[t] \in {FormattedNode, u} /\ h[a] \in {FormattedNode, v}
    BY <1>5, <1>6, <1>11, <1>22 DEF PartWritten
  <2>2. CASE h[t] = FormattedNode
    <3>1. FormattedNode.level = 0 /\ FormattedNode.items = <<>>
      BY DEF FormattedNode, BTREE_LEAF_LEVEL
    <3> QED
      BY <2>2, <3>1 DEF Sorted, Ascends
  <2>3. CASE h[t] = u /\ h[t] # FormattedNode
    <3>1. h[x] = w
      BY <1>5, <1>6, <1>21, <1>22, <1>11, <2>3 DEF PartWritten
    <3>2. h[a] = v
      <4>1. a \in LinksOf(h[t]) /\ t \in DOMAIN h /\ DiskOK(h)
        BY <1>6, <1>7, <1>22, <2>3 DEF PartWritten
      <4>2. NrItems(h[a]) # 0
        BY <4>1, NodeLevel
      <4> QED
        BY <2>1, <4>2, FormattedIs DEF Empty
    <3>3. Halved(disk[x].items, key, halves) /\ Parts(halves)
      <4>1. disk[root].level <= 1
        BY <1>0, <1>1 DEF x
      <4> QED
        BY <4>1, LeafParts DEF x
    <3>4. w.items = halves.leaf /\ v.items = halves.new
      BY <1>1, <1>3 DEF w, v, LeafNode, Nodes, NodeType
    <3>5. u = InternalNode(1, Head(halves.new), x, a) /\ x \in NodeIds
      BY <1>1 DEF u, k, DiskOK
    <3>6. InOrder(h, u)
      BY <1>5, <3>1, <3>2, <3>3, <3>4, <3>5, OrderStarts
    <3> QED
      BY <1>7, <2>3, <3>6 DEF Sorted
  <2> QED
    BY <2>1, <2>2, <2>3
<1>23. p2[0].id = x /\ x \in DOMAIN d2
  BY <1>1, <1>6, <1>8, <1>10
<1>24. WritesInOrder(d2, fin, p2[0].id, NewIds(X), t)
  BY <1>22, <1>23 DEF WritesInOrder
<1>25. Orders(m2, fin)
  BY <1>13, <1>16, <1>17, <1>23, <1>24, OrdersFrom
<1> QED
  BY <1>20, <1>25

(* The halves of a full parent, the key that goes up taken out of the      *)
(* lower one.                                                              *)
LEMMA PartedIn ==
  ASSUME NEW node \in Nodes, node.level # 0, node.nr_items = MAX_KEYS + MAX_DC,
         NEW h, h = NrKeys(node) \div 2, NEW key \in Keys, NEW dc \in NodeIds,
         NEW src, NEW dest, NEW pos,
         SplitInto(SplitInternal(node), h, key, dc, src, dest, pos)
  PROVE  Parted(node, dc, src, dest, pos, WithoutKeyAt(src, pos))
<1>1. h \in Nat /\ MAX_KEYS = 2 * h + 1
  <2>1. NrKeys(node) = MAX_KEYS
    BY BPlusNodeAssumption DEF NrKeys, NR_KEYS, MAX_DC
  <2> QED
    BY <2>1, BPlusNodeAssumption
<1> DEFINE pair == SplitInternal(node)
           parent == WithoutKeyAt(src, pos)
<1>2. pair = SplitInternal(node) /\ parent = WithoutKeyAt(src, pos)
      /\ (SplitLower(pair, h, key, dc, src, dest, pos) \/ SplitUpper(pair, h, key, dc, src, dest, pos))
  BY DEF SplitInto
<1> HIDE DEF pair, parent
<1>3. Parted(node, dc, src, dest, pos, parent)
  BY <1>1, <1>2, LowerSplit, UpperSplit
<1> QED
  BY <1>3 DEF parent

SplitMemory(m, side, halves, a, b, c, src, dest, pos) ==
  LET top == InternalNode(m.length + 1, Key(src, pos), m.pe[src.level].id, b)
  IN  Attached(Attached(Attached(
        WithRoot(WithParent(WithLeaf(m, halves.leaf), WithoutKeyAt(src, pos)), c, top),
        side, 0, a, LeafNode(halves.new)), side, 1, b, dest), side, 2, c, top)

LEMMA SplitBothIs ==
  ASSUME NEW m, NEW side, NEW halves, NEW a, NEW b, NEW c, NEW node, node = m.pe[1].node,
         SplitInternal(node).ok
  PROVE  \E src, dest, pos :
           /\ SplitInto(SplitInternal(node), NrKeys(node) \div 2, Head(halves.new), a,
                        src, dest, pos)
           /\ SplitLeafAndParent(m, side, halves, a, b, c)
                = SplitMemory(m, side, halves, a, b, c, src, dest, pos)
<1> DEFINE h == NrKeys(node) \div 2
           key == Head(halves.new)
           pair == SplitInternal(node)
           lower == key < Key(pair.src, 0) \/ key < Key(pair.dest, 0)
           src == IF lower THEN AdjustedInternal(pair.src, h + 1, h + 1, key, a) ELSE pair.src
           dest == IF lower THEN pair.dest
                   ELSE AdjustedInternal(pair.dest, h, h + 1, key, a)
           pos == IF lower THEN h + 1 ELSE h
<1>1. SplitLeafAndParent(m, side, halves, a, b, c)
        = SplitMemory(m, side, halves, a, b, c, src, dest, pos)
  BY Zenon DEF SplitLeafAndParent, SplitMemory
<1>2. SplitInto(pair, h, key, a, src, dest, pos)
  <2> HIDE DEF lower, h, key, pair
  <2> QED
    BY DEF SplitInto, SplitLower, SplitUpper
<1> QED
  BY <1>1, <1>2

LEMMA SplitBothFails ==
  ASSUME NEW m, NEW side, NEW halves, NEW a, NEW b, NEW c, ~SplitInternal(m.pe[1].node).ok
  PROVE  SplitLeafAndParent(m, side, halves, a, b, c) = Failed(m)
BY Zenon DEF SplitLeafAndParent

(* What is attached at three levels.                                       *)
IsElement(e, id, node) == e = Element(id, 0, node) /\ e \in ElementType

ThreeLevels(e, f, g) ==
  [l \in Levels |-> IF l = 0 THEN {e} ELSE IF l = 1 THEN {f} ELSE IF l = 2 THEN {g} ELSE {}]

Attaches(m, side, a, v, b, u, c, t, d, r, p, n, le, ri, ok, X) ==
  \E le2, ri2 :
    /\ Attached(Attached(Attached(m, side, 0, a, v), side, 1, b, u), side, 2, c, t)
         = Mem(d, r, p, n, le2, ri2, ok)
    /\ Attaching(le, ri, le2, ri2, X)

LEMMA ThreeAttached ==
  ASSUME NEW d, NEW r, NEW p, NEW n, NEW le \in NbType, NEW ri \in NbType, NEW ok, NEW m,
         m = Mem(d, r, p, n, le, ri, ok), NEW side,
         NEW a, NEW v, NEW e, IsElement(e, a, v), NEW b, NEW u, NEW f, IsElement(f, b, u),
         NEW c, NEW t, NEW g, IsElement(g, c, t), NEW X, X = ThreeLevels(e, f, g)
  PROVE  Attaches(m, side, a, v, b, u, c, t, d, r, p, n, le, ri, ok, X)
<1>0. 0 \in Levels /\ 1 \in Levels /\ 2 \in Levels
  BY DEF Levels, BPLUS_MAX_HEIGHT
<1> DEFINE m1 == Attached(m, side, 0, a, v)
           m2 == Attached(m1, side, 1, b, u)
           m3 == Attached(m2, side, 2, c, t)
<1>1. PICK le1, ri1 : m1 = Mem(d, r, p, n, le1, ri1, ok) /\ AddedAt(le, ri, le1, ri1, 0, e)
  BY <1>0, AttachedIs DEF IsElement
<1> HIDE DEF m1
<1>2. le1 \in NbType /\ ri1 \in NbType
  BY <1>1 DEF AddedAt
<1>3. PICK le2, ri2 : m2 = Mem(d, r, p, n, le2, ri2, ok) /\ AddedAt(le1, ri1, le2, ri2, 1, f)
  <2>1. m1 = Mem(d, r, p, n, le1, ri1, ok)
    BY <1>1
  <2> QED
    BY <1>0, <1>2, <2>1, AttachedIs DEF IsElement
<1> HIDE DEF m2
<1>4. le2 \in NbType /\ ri2 \in NbType
  BY <1>3 DEF AddedAt
<1>5. PICK le3, ri3 : m3 = Mem(d, r, p, n, le3, ri3, ok) /\ AddedAt(le2, ri2, le3, ri3, 2, g)
  <2>1. m2 = Mem(d, r, p, n, le2, ri2, ok)
    BY <1>3
  <2> QED
    BY <1>0, <1>4, <2>1, AttachedIs DEF IsElement
<1> HIDE DEF m3
<1>6. Attaching(le, ri, le3, ri3, X)
  <2>1. le3 \in NbType /\ ri3 \in NbType
    BY <1>5 DEF AddedAt
  <2>2. ASSUME NEW l \in Levels PROVE AroundOf(le3, ri3, l) = AroundOf(le, ri, l) \cup X[l]
    <3> HIDE DEF AroundOf
    <3>1. X[l] = IF l = 0 THEN {e} ELSE IF l = 1 THEN {f} ELSE IF l = 2 THEN {g} ELSE {}
      BY DEF ThreeLevels
    <3>2. /\ l = 0 => AroundOf(le1, ri1, l) = AroundOf(le, ri, l) \cup {e}
          /\ l # 0 => AroundOf(le1, ri1, l) = AroundOf(le, ri, l)
      BY <1>1 DEF AddedAt
    <3>3. /\ l = 1 => AroundOf(le2, ri2, l) = AroundOf(le1, ri1, l) \cup {f}
          /\ l # 1 => AroundOf(le2, ri2, l) = AroundOf(le1, ri1, l)
      BY <1>3 DEF AddedAt
    <3>4. /\ l = 2 => AroundOf(le3, ri3, l) = AroundOf(le2, ri2, l) \cup {g}
          /\ l # 2 => AroundOf(le3, ri3, l) = AroundOf(le2, ri2, l)
      BY <1>5 DEF AddedAt
    <3> QED
      BY <3>1, <3>2, <3>3, <3>4
  <2> QED
    BY <2>1, <2>2 DEF Attaching
<1> QED
  BY <1>5, <1>6 DEF m3, m2, m1, Attaches

ThreeSet(p, p2, f, g, k, i) ==
  /\ p2 \in [Levels -> ElementType] /\ p2[0] = f /\ p2[1] = g /\ p2[k] = i
  /\ \A l \in Levels : l # 0 /\ l # 1 /\ l # k => p2[l] = p[l]

LEMMA PathSetThrice ==
  ASSUME NEW p, p \in [Levels -> ElementType], NEW f, f \in ElementType, NEW g, g \in ElementType,
         NEW i, i \in ElementType, NEW k, k \in Levels, k # 0, k # 1,
         NEW p2, p2 = PathWith(PathWith(PathWith(p, 0, f), 1, g), k, i)
  PROVE  ThreeSet(p, p2, f, g, k, i)
<1>1. 0 \in Levels /\ 1 \in Levels
  BY DEF Levels, BPLUS_MAX_HEIGHT
<1> QED
  BY <1>1 DEF ThreeSet, PathWith

(* The parent is full, the leaf's and the parent's new halves get a new    *)
(* root: straight above the second level also in a tree of three.          *)
LEMMA ParentSplits ==
  ASSUME DiskOK(disk), root \in DOMAIN disk, NEW S, IsReach(disk, root, S), NEW p, NEW n,
         PathOK(p, n), NEW key \in Keys, NEW ok, NrItems(p[0].node) = MAX_ITEMS,
         Sorted(disk, root), Belongs(p[0].id, key),
         p[1].id # 0, p[n].id # 0, p[1].node.nr_items = MAX_KEYS + MAX_DC,
         SplitInternal(p[1].node).ok,
         NEW le, AllRead(le), NEW ri, AllRead(ri),
         NEW new, Fresh(disk, new, 3), NEW d2, d2 = WithNodes(disk, new),
         NEW m, m = Mem(d2, root, p, n, le, ri, ok), NEW side,
         NEW halves, halves = AdjustedLeaf(p[0].node.items, key),
         NEW m2, m2 = SplitLeafAndParent(m, side, halves, new[1], new[2], new[3])
  PROVE  \E fin : Grown(m2, fin, key, S) /\ Orders(m2, fin)
<1> DEFINE x == p[0].id
           y == p[1].id
           a == new[1]
           b == new[2]
           t == new[3]
           L == n + 1
           node == disk[y]
           k == Head(halves.new)
           h == NrKeys(node) \div 2
<1>0. /\ 0 \in Levels /\ 1 \in Levels /\ 2 \in Levels /\ p \in [Levels -> ElementType]
      /\ L \in Levels /\ L \in {2, 3} /\ L \in 1 .. 3 /\ p[L].id = 0 /\ L # 0 /\ L # 1 /\ n + 1 = L
      /\ root # 0
      /\ L = 2 => p[1].id = root
      /\ L = 3 => disk[root].level = 2
  <2>0. 0 \in Levels /\ 1 \in Levels /\ 2 \in Levels /\ 3 \in Levels
    BY DEF Levels, BPLUS_MAX_HEIGHT
  <2>1. root # 0
    BY DiskNode
  <2>2. \/ n = 1 /\ p[1].id = root /\ p[2].id = 0
        \/ n = 2 /\ p[2].id = root /\ p[3].id = 0
    BY <2>1 DEF PathOK
  <2>3. p[2].id = root => disk[root].level = 2
    BY <2>0, <2>1 DEF PathOK, OnPath
  <2> QED
    BY <2>0, <2>1, <2>2, <2>3 DEF PathOK
<1>1. /\ p[0] \in ElementType /\ x \in DOMAIN disk /\ x # 0 /\ y # x
      /\ LeafOf(p).level = 0 /\ LeafOf(p) = disk[x] /\ LeafOf(p) \in Nodes /\ p[0].node = LeafOf(p)
      /\ \A l \in Levels : l # 0 /\ p[l].id # 0 => p[l].id # x
  BY <1>0, LeafOnPath DEF LeafOf
<1>2. HalvesIs(p, halves, key)
  BY LeafHalved
<1>4. /\ p[1] \in ElementType /\ y \in DOMAIN disk /\ p[1].node = node /\ node.level = 1
      /\ node \in Nodes /\ y \in NodeIds
      /\ \A l \in Levels : l # 1 /\ p[l].id # 0 => p[l].id # y
  <2>1. OnPath(1, p[1]) /\ \A l \in Levels : p[l].id # 0 => OnPath(l, p[l])
    BY <1>0 DEF PathOK
  <2> QED
    BY <1>0, <2>1 DEF OnPath, DiskOK
<1>5. /\ a \in NodeIds /\ a \notin DOMAIN disk /\ b \in NodeIds /\ b \notin DOMAIN disk
      /\ t \in NodeIds /\ t \notin DOMAIN disk /\ a # b /\ a # t /\ b # t
      /\ NewDisk(d2, new, 3)
  <2>1. 3 \in 0 .. 3 /\ 1 \in 1 .. 3 /\ 2 \in 1 .. 3 /\ 3 \in 1 .. 3 /\ 1 # 2 /\ 1 # 3 /\ 2 # 3
    OBVIOUS
  <2>2. NewDisk(d2, new, 3)
    BY <2>1, NewDiskIs
  <2> QED
    BY <2>1, <2>2 DEF Fresh
<1>7. PICK src, dest, pos :
        /\ SplitInto(SplitInternal(node), h, k, a, src, dest, pos)
        /\ m2 = SplitMemory(m, side, halves, a, b, t, src, dest, pos)
  <2>1. m.pe = p
    BY MemIs
  <2>2. node = m.pe[1].node /\ SplitInternal(node).ok
    BY <1>4, <2>1
  <2> HIDE DEF node, a, b, t
  <2>3. \E src, dest, pos :
          /\ SplitInto(SplitInternal(node), NrKeys(node) \div 2, Head(halves.new), a, src, dest, pos)
          /\ SplitLeafAndParent(m, side, halves, a, b, t)
               = SplitMemory(m, side, halves, a, b, t, src, dest, pos)
    BY <2>2, SplitBothIs
  <2> QED
    BY <2>3 DEF a, b, t
<1> DEFINE w == [LeafOf(p) EXCEPT !.items = halves.leaf]
           v == LeafNode(halves.new)
           u == WithoutKeyAt(src, pos)
           up == Key(src, pos)
           top == InternalNode(L, up, y, b)
           f == WithItems(p[0], halves.leaf)
           g == WithNode(p[1], u)
           i == Element(t, 0, top)
           e == Element(a, 0, v)
           e1 == Element(b, 0, dest)
           q == PathWith(p, 0, f)
           q2 == PathWith(q, 1, g)
           p2 == PathWith(q2, L, i)
           X == [l \in Levels |-> IF l = 0 THEN {e} ELSE IF l = 1 THEN {e1}
                                  ELSE IF l = 2 THEN {i} ELSE {}]
           fin == [id \in DOMAIN d2 |-> IF id = x THEN w ELSE IF id = y THEN u
                                        ELSE IF id = a THEN v ELSE IF id = b THEN dest
                                        ELSE IF id = t THEN top ELSE d2[id]]
           N == DOMAIN d2 \ DOMAIN disk
<1>3. /\ w \in Nodes /\ w.level = 0 /\ NrItems(w) # 0 /\ LinksOf(w) = {}
      /\ v \in Nodes /\ v.level = 0 /\ NrItems(v) # 0 /\ LinksOf(v) = {}
      /\ ItemsOf(w) \cup ItemsOf(v) = ItemsOf(disk[x]) \cup {key}
      /\ k \in Keys /\ halves.leaf \in Seq(Keys)
  BY <1>1, <1>2 DEF HalvesIs
<1>8. /\ u \in Nodes /\ u.level = 1 /\ NrItems(u) # 0 /\ ItemsOf(u) = {}
      /\ dest \in Nodes /\ dest.level = 1 /\ NrItems(dest) # 0 /\ ItemsOf(dest) = {}
      /\ LinksOf(u) \cup LinksOf(dest) = LinksOf(node) \cup {a}
      /\ src.level = 1 /\ Key(src, pos) \in Keys \cup {0}
  <2>1. /\ node \in Nodes /\ node.level # 0 /\ node.nr_items = MAX_KEYS + MAX_DC
        /\ k \in Keys /\ a \in NodeIds /\ h = NrKeys(node) \div 2
        /\ SplitInto(SplitInternal(node), h, k, a, src, dest, pos)
    BY <1>3, <1>4, <1>5, <1>7
  <2>2. node.level = 1
    BY <1>4
  <2> HIDE DEF node, h, k, a
  <2>3. Parted(node, a, src, dest, pos, WithoutKeyAt(src, pos))
    BY <2>1, PartedIn
  <2> QED
    BY <2>2, <2>3 DEF Parted
<1> HIDE DEF h, k
<1>9. /\ top \in Nodes /\ top.level = L /\ NrItems(top) # 0
      /\ ItemsOf(top) = {} /\ LinksOf(top) = {y, b}
  <2>1. up \in Keys \cup {0} /\ y \in NodeIds /\ b \in NodeIds /\ L \in 1 .. 3
    BY <1>0, <1>4, <1>5, <1>8
  <2>2. top = InternalNode(L, up, y, b)
    OBVIOUS
  <2> HIDE DEF top, L, y, b, up
  <2>3. L \in 1 .. 3 /\ up \in Keys \cup {0} /\ y \in NodeIds /\ b \in NodeIds
        /\ top = InternalNode(L, up, y, b)
    BY <2>1, <2>2
  <2> QED
    BY <2>3, RootIn
<1>10. /\ f \in ElementType /\ f.id = x /\ f.node = w
       /\ g \in ElementType /\ g.id = y /\ g.node = u
       /\ i \in ElementType /\ i.id = t /\ i.node = top
       /\ e \in ElementType /\ e.id = a /\ e.node = v
       /\ e1 \in ElementType /\ e1.id = b /\ e1.node = dest
  <2>1. w \in NodeType /\ u \in NodeType /\ v \in NodeType /\ dest \in NodeType /\ top \in NodeType
    BY <1>3, <1>8, <1>9 DEF Nodes
  <2>2. f \in ElementType /\ f.id = x /\ f.node = w
    BY <1>1, <1>3, WithItemsIs
  <2> HIDE DEF u, v, a, b, t, top
  <2>3. g \in ElementType /\ g.id = y /\ g.node = u
    <3>1. p[1] \in ElementType /\ u \in NodeType /\ g = WithNode(p[1], u)
      BY <1>4, <2>1
    <3> HIDE DEF g
    <3> QED
      BY <3>1, WithNodeIs
  <2>4. i \in ElementType /\ i.id = t /\ i.node = top
    BY <1>5, <2>1, ElementIs
  <2>5. e \in ElementType /\ e.id = a /\ e.node = v
    BY <1>5, <2>1, ElementIs
  <2>6. e1 \in ElementType /\ e1.id = b /\ e1.node = dest
    BY <1>5, <2>1, ElementIs
  <2> QED
    BY <2>2, <2>3, <2>4, <2>5, <2>6
<1>11. \E le2, ri2 : m2 = Mem(d2, t, p2, L, le2, ri2, ok) /\ Attaching(le, ri, le2, ri2, X)
  <2> DEFINE m3 == WithLeaf(m, halves.leaf)
             m4 == WithParent(m3, u)
             m5 == WithRoot(m4, t, top)
  <2>1. m.pe = p /\ m.length = n
    BY MemIs
  <2>2. m2 = Attached(Attached(Attached(m5, side, 0, a, v), side, 1, b, dest), side, 2, t, top)
    <3>1. m.length + 1 = L /\ m.pe[src.level].id = y
      BY <1>8, <2>1
    <3>2. m2 = SplitMemory(m, side, halves, a, b, t, src, dest, pos)
      BY <1>7
    <3> HIDE DEF a, b, t, L, y
    <3> QED
      BY <3>1, <3>2 DEF SplitMemory
  <2> HIDE DEF u, top, a, b, t
  <2>3. m3 = Mem(d2, root, q, n, le, ri, ok)
    <3>1. Updates(m, d2, root, p, n, le, ri, ok)
      BY MemWith
    <3> QED
      BY <3>1 DEF Updates
  <2> HIDE DEF m3
  <2>4. q[1] = p[1]
    BY <1>0 DEF PathWith
  <2> HIDE DEF q
  <2>5. m4 = Mem(d2, root, q2, n, le, ri, ok)
    <3>1. Updates(m3, d2, root, q, n, le, ri, ok)
      BY <2>3, MemWith
    <3> QED
      BY <2>4, <3>1 DEF Updates
  <2> HIDE DEF m4, q2
  <2>6. m5 = Mem(d2, t, p2, L, le, ri, ok)
    <3>1. Updates(m4, d2, root, q2, n, le, ri, ok)
      BY <2>5, MemWith
    <3>2. m5 = Mem(d2, t, PathWith(q2, n + 1, Element(t, 0, top)), n + 1, le, ri, ok)
      BY <3>1 DEF Updates
    <3> QED
      BY <3>2
  <2>7. le \in NbType /\ ri \in NbType
    BY DEF AllRead
  <2>8. IsElement(e, a, v) /\ IsElement(e1, b, dest) /\ IsElement(i, t, top)
    BY <1>10 DEF IsElement
  <2>9. X = ThreeLevels(e, e1, i)
    BY DEF ThreeLevels
  <2> HIDE DEF m5, p2, e, e1, i, v, X, L
  <2>10. Attaches(m5, side, a, v, b, dest, t, top, d2, t, p2, L, le, ri, ok, X)
    BY <2>6, <2>7, <2>8, <2>9, ThreeAttached
  <2> QED
    BY <2>2, <2>10 DEF Attaches
<1> HIDE DEF w, v, u, top, f, g, e, e1, i
<1>12. /\ p2 \in [Levels -> ElementType] /\ p2[0] = f /\ p2[1] = g /\ p2[L] = i
       /\ \A l \in Levels : l # 0 /\ l # 1 /\ l # L => p2[l] = p[l]
  <2>1. L \in Levels /\ L # 0 /\ L # 1
    BY <1>0
  <2>2. p2 = PathWith(PathWith(PathWith(p, 0, f), 1, g), L, i)
    OBVIOUS
  <2> HIDE DEF L, p2
  <2>3. p \in [Levels -> ElementType] /\ f \in ElementType /\ g \in ElementType /\ i \in ElementType
    BY <1>0, <1>10
  <2>4. ThreeSet(p, p2, f, g, L, i)
    BY <2>1, <2>2, <2>3, PathSetThrice
  <2> QED
    BY <2>4 DEF ThreeSet
<1>6. /\ DOMAIN d2 = DOMAIN disk \cup {a, b, t} /\ N = {a, b, t}
      /\ \A id \in DOMAIN disk : d2[id] = disk[id]
      /\ \A id \in DOMAIN d2 \ DOMAIN disk : d2[id] = FormattedNode
      /\ \A z, l : Hangs(disk, z, l) => Hangs(d2, z, l)
  <2>1. {new[j] : j \in 1 .. 3} = {a, b, t}
    <3>1. 1 .. 3 = {1, 2, 3}
      OBVIOUS
    <3> QED
      BY <3>1
  <2>2. DOMAIN d2 = DOMAIN disk \cup {a, b, t}
    BY <1>5, <2>1 DEF NewDisk
  <2> QED
    BY <1>5, <2>2 DEF NewDisk
<1> HIDE DEF x, y, a, b, t
<1>13. /\ fin \in [DOMAIN d2 -> Nodes] /\ fin[x] = w /\ fin[y] = u /\ fin[a] = v
       /\ fin[b] = dest /\ fin[t] = top
       /\ \A id \in DOMAIN disk : id # x /\ id # y => fin[id] = disk[id]
  BY <1>1, <1>3, <1>4, <1>5, <1>6, <1>8, <1>9 DEF DiskOK
<1> HIDE DEF fin, p2, L
<1> DEFINE ids == UNION {IdsOf(X[j]) : j \in Levels}
<1>14. /\ ids = {a, b, t}
       /\ \A l \in Levels : X[l] = IF l = 0 THEN {e} ELSE IF l = 1 THEN {e1}
                                   ELSE IF l = 2 THEN {i} ELSE {}
       /\ \A l \in Levels : l # 0 => a \in UNION {IdsOf(X[j]) : j \in 0 .. l - 1}
       /\ \A l \in Levels : l = 2 => b \in UNION {IdsOf(X[j]) : j \in 0 .. l - 1}
  <2>1. \A l \in Levels : IdsOf(X[l]) = IF l = 0 THEN {a} ELSE IF l = 1 THEN {b}
                                        ELSE IF l = 2 THEN {t} ELSE {}
    BY <1>10 DEF IdsOf
  <2>2. \A l \in Levels : l # 0 => 0 \in 0 .. l - 1
    BY DEF Levels, BPLUS_MAX_HEIGHT
  <2>3. \A l \in Levels : l = 2 => 1 \in 0 .. l - 1
    OBVIOUS
  <2>4. IdsOf(X[0]) = {a} /\ IdsOf(X[1]) = {b} /\ IdsOf(X[2]) = {t}
    BY <1>0, <2>1
  <2>5. \A l \in Levels : X[l] = IF l = 0 THEN {e} ELSE IF l = 1 THEN {e1}
                                   ELSE IF l = 2 THEN {i} ELSE {}
    OBVIOUS
  <2> HIDE DEF X
  <2>6. ids = {a, b, t}
    BY <1>0, <2>1, <2>4
  <2> QED
    BY <2>2, <2>3, <2>4, <2>5, <2>6
<1> HIDE DEF X
<1>15. /\ \A z \in LinksOf(node) : Hangs(d2, z, 0)
       /\ Hangs(d2, y, 1) /\ Below(L) = 1 /\ Below(1) = 0
  <2>1. NrItems(disk[y]) # 0
    <3>1. NrItems(node) = node.nr_items
      BY <1>4 DEF NrItems, IsLeaf, BTREE_LEAF_LEVEL
    <3> QED
      BY <1>4, <3>1, BPlusNodeAssumption DEF MAX_DC
  <2>2. Hangs(disk, y, 1)
    BY <1>4, <2>1 DEF Hangs
  <2> QED
    BY <1>0, <1>4, <1>6, <2>2 DEF DiskOK, Below
<1>16. Plan(d2, fin, p2, X)
  <2>1. ASSUME NEW l \in Levels, p2[l].id # 0
        PROVE  PathStep(d2, fin, p2[l], ids)
    <3>1. CASE l = 0
      BY <1>1, <1>3, <1>6, <1>10, <1>12, <1>13, <3>1 DEF PathStep, LinkOK
    <3>2. CASE l = 1
      <4>1. p2[l] = g /\ g.id \in DOMAIN d2 /\ g.node = fin[g.id] /\ NrItems(g.node) # 0
        BY <1>4, <1>6, <1>8, <1>10, <1>12, <1>13, <3>2
      <4>3. LinkOK(d2, fin, u, ids)
        BY <1>3, <1>8, <1>13, <1>14, <1>15 DEF LinkOK
      <4> QED
        BY <1>10, <4>1, <4>3 DEF PathStep
    <3>4. CASE l = L
      <4>1. p2[l] = i /\ i.id \in DOMAIN d2 /\ i.node = fin[i.id] /\ NrItems(i.node) # 0
        BY <1>6, <1>9, <1>10, <1>12, <1>13, <3>4
      <4>3. LinkOK(d2, fin, top, ids)
        BY <1>8, <1>9, <1>13, <1>14, <1>15 DEF LinkOK
      <4> QED
        BY <1>10, <4>1, <4>3 DEF PathStep
    <3>3. CASE l # 0 /\ l # 1 /\ l # L
      <4>1. p2[l] = p[l] /\ p[l].id # 0 /\ p[l].id # x /\ p[l].id # y
        BY <1>1, <1>4, <1>12, <2>1, <3>3
      <4>2. p[l].id \in DOMAIN disk
        BY <4>1 DEF PathOK, OnPath
      <4>3. fin[p[l].id] = disk[p[l].id]
        BY <1>13, <4>1, <4>2
      <4>4. \A z, j : Hangs(disk, z, j) => Hangs(d2, z, j)
        BY <1>6
      <4>5. DOMAIN disk \subseteq DOMAIN d2
        BY <1>6
      <4> HIDE DEF ids
      <4> QED
        BY <3>3, <4>1, <4>3, <4>4, <4>5, KeptOnPath
    <3> QED
      BY <3>1, <3>2, <3>3, <3>4
  <2>2. ASSUME NEW id \in DOMAIN disk
        PROVE  /\ d2[id] = disk[id] /\ id \in DOMAIN d2 /\ fin[id].level = disk[id].level
               /\ fin[id] = disk[id] \/ \E l \in Levels : p2[l].id = id
    BY <1>0, <1>1, <1>3, <1>4, <1>6, <1>8, <1>10, <1>12, <1>13
  <2>3. ASSUME NEW id \in DOMAIN d2 \ DOMAIN disk
        PROVE  d2[id] = FormattedNode /\ \E l \in Levels : \E z \in X[l] : z.id = id
    <3>1. X[0] = {e} /\ X[1] = {e1} /\ X[2] = {i}
      BY <1>0, <1>14
    <3>2. id \in {e.id, e1.id, i.id} /\ d2[id] = FormattedNode
      BY <1>6, <1>10
    <3> QED
      BY <1>0, <3>1, <3>2
  <2>4. ASSUME NEW l \in Levels, NEW z \in X[l]
        PROVE  /\ z.id \in DOMAIN d2 \ DOMAIN disk /\ z.node = fin[z.id] /\ NrItems(z.node) # 0
               /\ LinkOK(d2, fin, z.node, UNION {IdsOf(X[j]) : j \in 0 .. l - 1})
    <3> DEFINE W == UNION {IdsOf(X[j]) : j \in 0 .. l - 1}
    <3>1. (l = 0 /\ z = e) \/ (l = 1 /\ z = e1) \/ (l = 2 /\ z = i)
      BY <1>14, <2>4
    <3>2. (l # 0 => a \in W) /\ (l = 2 => b \in W)
      BY <1>14
    <3> HIDE DEF W
    <3>3. /\ z.id \in DOMAIN d2 \ DOMAIN disk /\ z.node = fin[z.id] /\ NrItems(z.node) # 0
      BY <1>3, <1>5, <1>6, <1>8, <1>9, <1>10, <1>13, <3>1
    <3>4. LinkOK(d2, fin, z.node, W)
      BY <1>3, <1>8, <1>9, <1>10, <1>13, <1>15, <3>1, <3>2 DEF LinkOK
    <3> QED
      BY <3>3, <3>4 DEF W
  <2> HIDE DEF ids
  <2>5. \A l \in Levels : p2[l].id # 0 => PathStep(d2, fin, p2[l], ids)
    BY <2>1
  <2> QED
    BY <1>12, <1>13, <2>2, <2>3, <2>4, <2>5 DEF Plan, PathStep, ids
<1>17. L = 2 => IsReach(fin, t, S \cup N)
  <2>0. DOMAIN fin = DOMAIN d2
    BY <1>13
  <2>1. S \subseteq DOMAIN disk /\ root \in S /\ y \in S
    <3>1. p[1].id \in S
      BY <1>0, PathReached
    <3> QED
      BY <3>1 DEF IsReach, y
  <2>2. \A id \in S : LinksOf(disk[id]) \subseteq S
    BY DEF IsReach
  <2>3. LinksOf(disk[x]) = {}
    BY <1>1 DEF LinksOf, IsLeaf, BTREE_LEAF_LEVEL
  <2>4. \A id \in DOMAIN disk : id # y => LinksOf(fin[id]) = LinksOf(disk[id])
    BY <1>1, <1>3, <1>13, <2>3
  <2>5. \A id \in S \cup N : LinksOf(fin[id]) \subseteq S \cup N
    BY <1>3, <1>6, <1>8, <1>9, <1>13, <2>1, <2>2, <2>4
  <2>6. ASSUME L = 2, NEW C, t \in C, \A id \in C \cap DOMAIN fin : LinksOf(fin[id]) \subseteq C
        PROVE  S \cup N \subseteq C
    <3>0. y = root
      BY <1>0, <2>6 DEF y
    <3>1. y \in C /\ b \in C
      BY <1>6, <1>9, <1>13, <2>0, <2>6
    <3>2. LinksOf(disk[y]) \subseteq C /\ a \in C
      BY <1>4, <1>6, <1>8, <1>13, <2>0, <2>6, <3>1
    <3>3. \A id \in C \cap DOMAIN disk : LinksOf(disk[id]) \subseteq C
      BY <1>6, <2>0, <2>4, <2>6, <3>2
    <3>4. S \subseteq C
      BY <3>0, <3>1, <3>3 DEF IsReach
    <3> QED
      BY <1>6, <2>6, <3>1, <3>2, <3>4
  <2> QED
    BY <1>6, <2>0, <2>1, <2>5, <2>6 DEF IsReach
<1>18. GrowsAt(disk, fin, S, x, N, key)
  <2>1. x \in S
    BY <1>0, <1>1, PathReached DEF x
  <2>2. ItemsOf(disk[y]) = {}
    <3>1. disk[y].items = <<>>
      BY <1>4 DEF Nodes, NodeOK
    <3> QED
      BY <3>1 DEF ItemsOf
  <2>3. \A id \in S : id # x => ItemsOf(fin[id]) = ItemsOf(disk[id])
    BY <1>8, <1>13, <2>2 DEF IsReach
  <2>4. ItemsIn(fin, N) = ItemsOf(v)
    BY <1>6, <1>8, <1>9, <1>13 DEF ItemsIn
  <2> QED
    BY <1>3, <1>13, <2>1, <2>3, <2>4 DEF GrowsAt
<1>19. PICK le2, ri2 : m2 = Mem(d2, t, p2, L, le2, ri2, ok) /\ Attaching(le, ri, le2, ri2, X)
  BY <1>11
<1>20. t \in DOMAIN d2 /\ 3 \in 0 .. 3
  BY <1>6
<1>21. L = 3 => fin[t].level = 3 /\ disk[root].level = 2
  BY <1>0, <1>9, <1>13
<1> HIDE DEF N
<1>22. N = DOMAIN d2 \ DOMAIN disk /\ (L = 2 \/ L = 3)
  BY <1>0 DEF N
<1>23. Grown(m2, fin, key, S)
  <2>1. CASE L = 2
    <3>1. IsReach(fin, t, S \cup N)
      BY <1>17, <2>1
    <3> HIDE <1>17, <1>21
    <3> QED
      BY <1>16, <1>18, <1>19, <1>20, <1>22, <3>1, Finished
  <2>2. CASE L = 3
    <3>1. fin[t].level = 3 /\ disk[root].level = 2
      BY <1>21, <2>2
    <3> QED
      BY <1>16, <1>19, <1>20, <1>22, <3>1, Finished
  <2> QED
    BY <1>22, <2>1, <2>2
<1> HIDE DEF ids
<1>24. ASSUME NEW d3, PartWritten(d2, fin, x, NewIds(X), d3) PROVE Sorted(d3, t)
  <2>1. d3[t] \in {FormattedNode, top}
    BY <1>5, <1>6, <1>13, <1>24 DEF PartWritten
  <2>2. FormattedNode.level = 0 /\ FormattedNode.items = <<>>
    BY DEF FormattedNode, BTREE_LEAF_LEVEL
  <2>3. top.level = 2 \/ top.level = 3
    BY <1>9, <1>22
  <2> QED
    BY <2>1, <2>2, <2>3 DEF Sorted, Ascends
<1>25. p2[0].id = x /\ x \in DOMAIN d2
  BY <1>1, <1>6, <1>10, <1>12
<1>26. WritesInOrder(d2, fin, p2[0].id, NewIds(X), t)
  BY <1>24, <1>25 DEF WritesInOrder
<1>27. Orders(m2, fin)
  BY <1>16, <1>19, <1>25, <1>26, OrdersFrom
<1> QED
  BY <1>23, <1>27

(* bplus_tree_insert_item on the path that a search found.                 *)
LEMMA RebalanceIs ==
  ASSUME NEW m, NEW key, NEW new, new = FreeIds(m.disk, NewNodes(m)),
         NEW halves, halves = AdjustedLeaf(m.pe[0].node.items, key),
         NEW m1, m1 = WithDisk(m, WithNodes(m.disk, new))
  PROVE  \E side :
           /\ Len(new) = 1 => RebalanceInsert(m, key) = SplitLeaf(m1, side, halves, new[1], 0)
           /\ Len(new) = 2 => RebalanceInsert(m, key) = SplitLeaf(m1, side, halves, new[1], new[2])
           /\ Len(new) = 3 => RebalanceInsert(m, key)
                                = SplitLeafAndParent(m1, side, halves, new[1], new[2], new[3])
<1> DEFINE side == IF m.pe[0].position >= MAX_ITEMS \div 2 THEN "right" ELSE "left"
           R == CASE Len(new) = 1 -> SplitLeaf(m1, side, halves, new[1], 0)
                  [] Len(new) = 2 -> SplitLeaf(m1, side, halves, new[1], new[2])
                  [] Len(new) = 3 -> SplitLeafAndParent(m1, side, halves, new[1], new[2], new[3])
<1>1. RebalanceInsert(m, key) = R
  BY Zenon DEF RebalanceInsert
<1> HIDE DEF side
<1>2. /\ Len(new) = 1 => R = SplitLeaf(m1, side, halves, new[1], 0)
      /\ Len(new) = 2 => R = SplitLeaf(m1, side, halves, new[1], new[2])
      /\ Len(new) = 3 => R = SplitLeafAndParent(m1, side, halves, new[1], new[2], new[3])
  OBVIOUS
<1> QED
  BY <1>1, <1>2

LEMMA NewNodesIs ==
  ASSUME DiskOK(disk), NEW p, NEW n, PathOK(p, n), NEW m, m.pe = p, NrItems(p[0].node) = MAX_ITEMS
  PROVE  \/ NewNodes(m) = 2 /\ p[1].id = 0
         \/ NewNodes(m) = 1 /\ p[1].id # 0 /\ p[1].node.nr_items < MAX_KEYS + MAX_DC
         \/ NewNodes(m) = 3 /\ p[1].id # 0 /\ p[1].node.nr_items = MAX_KEYS + MAX_DC
<1>1. p[1].id # 0 => \/ p[1].node.nr_items < MAX_KEYS + MAX_DC
                     \/ p[1].node.nr_items = MAX_KEYS + MAX_DC
  <2>1. SUFFICES ASSUME p[1].id # 0
                 PROVE  \/ p[1].node.nr_items < MAX_KEYS + MAX_DC
                        \/ p[1].node.nr_items = MAX_KEYS + MAX_DC
    OBVIOUS
  <2>2. p[1].id \in DOMAIN disk /\ p[1].node = disk[p[1].id] /\ p[1].node.level = 1
    BY <2>1 DEF PathOK, OnPath, Levels, BPLUS_MAX_HEIGHT
  <2> DEFINE node == p[1].node
             k == NrKeys(node)
  <2>3. node \in Nodes /\ node.level # 0
    BY <2>2 DEF DiskOK
  <2>4. k \in 1 .. MAX_KEYS /\ node.nr_items = 2 * k + 1
    BY <2>3 DEF Nodes, NodeOK
  <2> HIDE DEF node, k
  <2>5. node.nr_items < MAX_KEYS + MAX_DC \/ node.nr_items = MAX_KEYS + MAX_DC
    BY <2>4, BPlusNodeAssumption DEF MAX_DC
  <2> QED
    BY <2>5 DEF node
<1>2. p[1].node.nr_items = MAX_KEYS + MAX_DC => ~(p[1].node.nr_items < MAX_KEYS + MAX_DC)
  BY BPlusNodeAssumption DEF MAX_DC
<1> QED
  BY <1>1, <1>2 DEF NewNodes

(* bplus_tree_insert_item fails or prepares the tree with the key.         *)
LEMMA InsertGrows ==
  ASSUME DiskOK(disk), root \in DOMAIN disk, NEW S, IsReach(disk, root, S), NEW key \in Keys,
         NEW errno, NEW m0, m0 = Memory(Search(key)),
         NewNodes(m0) <= Cardinality(NodeIds \ DOMAIN disk),
         Sorted(disk, root), ~Search(key).found,
         NEW m2, m2 = InsertItem(m0, key, errno), m2.ok
  PROVE  \E fin : Grown(m2, fin, key, S) /\ Orders(m2, fin)
<1> DEFINE p == Search(key).pe
           n == Search(key).length
<1>1. PathOK(p, n) /\ Belongs(p[0].id, key)
  BY SearchLands, SearchAims
<1>2. PICK ok : ok = TRUE
  OBVIOUS
<1>3. m0 = Mem(disk, root, p, n, Nones, Nones, ok) /\ AllRead(Nones)
  BY <1>2, MemoryIs
<1> HIDE DEF p, n
<1>4. m0.pe = p /\ m0.length = n /\ m0.disk = disk
  BY <1>3, MemIs
<1> DEFINE tb == InitTb(m0, errno)
<1>5. m2 = IF NrItems(p[0].node) # MAX_ITEMS THEN WithLeaf(m0, Punched(p[0].node.items, key))
           ELSE IF ~tb.ok THEN tb ELSE RebalanceInsert(tb, key)
  BY <1>4, Zenon DEF InsertItem
<1>6. CASE NrItems(p[0].node) # MAX_ITEMS
  <2>1. m2 = WithLeaf(m0, Punched(p[0].node.items, key))
    BY <1>5, <1>6
  <2>2. m0 = Mem(disk, root, p, n, Nones, Nones, ok)
    BY <1>3
  <2> QED
    BY <1>1, <1>6, <2>1, <2>2, KeyTaken
<1>7. CASE NrItems(p[0].node) = MAX_ITEMS
  <2>1. tb.ok /\ m2 = RebalanceInsert(tb, key)
    <3> HIDE DEF tb
    <3> QED
      BY <1>5, <1>7
  <2>2. \A l \in 1 .. n : p[l].id # 0
    <3>1. SUFFICES ASSUME \E l \in 1 .. n : p[l].id = 0 PROVE FALSE
      OBVIOUS
    <3>2. tb = Failed(m0)
      BY <1>4, <3>1, InitTbIs
    <3>3. PICK no : no = FALSE
      OBVIOUS
    <3>4. tb = Mem(disk, root, p, n, Nones, Nones, no)
      <4>1. Updates(m0, disk, root, p, n, Nones, Nones, ok)
        BY <1>3, MemWith
      <4> QED
        BY <3>2, <3>3, <4>1 DEF Updates
    <3>5. tb.ok = no
      BY <3>4, MemIs
    <3> QED
      BY <2>1, <3>3, <3>5
  <2>3. Tb(tb, p, n)
    <3>1. Tb(m0, p, n)
      BY <1>3 DEF Tb
    <3> QED
      BY <1>1, <2>2, <3>1, TbRead
  <2> HIDE DEF tb
  <2>4. PICK le, ri, o : tb = Mem(disk, root, p, n, le, ri, o) /\ AllRead(le) /\ AllRead(ri)
    BY <2>3 DEF Tb
  <2>5. tb.pe = p /\ tb.disk = disk
    BY <2>4, MemIs
  <2> DEFINE new == FreeIds(disk, NewNodes(tb))
             halves == AdjustedLeaf(p[0].node.items, key)
             d2 == WithNodes(disk, new)
             m1 == WithDisk(tb, d2)
  <2>6. NewNodes(tb) = NewNodes(m0)
    BY <1>4, <2>5 DEF NewNodes
  <2>7. PICK side :
          /\ Len(new) = 1 => m2 = SplitLeaf(m1, side, halves, new[1], 0)
          /\ Len(new) = 2 => m2 = SplitLeaf(m1, side, halves, new[1], new[2])
          /\ Len(new) = 3 => m2 = SplitLeafAndParent(m1, side, halves, new[1], new[2], new[3])
    BY <2>1, <2>5, RebalanceIs
  <2>8. m1 = Mem(d2, root, p, n, le, ri, o)
    <3>1. Updates(tb, disk, root, p, n, le, ri, o)
      BY <2>4, MemWith
    <3> HIDE DEF d2
    <3> QED
      BY <3>1 DEF Updates
  <2>9. \A c : c = NewNodes(tb) /\ c \in 0 .. 3 => Fresh(disk, new, c) /\ Len(new) = c
    <3>1. ASSUME NEW c, c = NewNodes(tb), c \in 0 .. 3 PROVE Fresh(disk, new, c)
      <4>1. c <= Cardinality(NodeIds \ DOMAIN disk)
        BY <2>6, <3>1
      <4>2. new = FreeIds(disk, c)
        BY <3>1
      <4> HIDE DEF new
      <4> QED
        BY <3>1, <4>1, <4>2, FreeIdsFresh
    <3> QED
      BY <3>1 DEF Fresh
  <2> HIDE DEF m1, new
  <2>10. d2 = WithNodes(disk, new) /\ halves = AdjustedLeaf(p[0].node.items, key)
         /\ AllRead(le) /\ AllRead(ri) /\ PathOK(p, n) /\ Belongs(p[0].id, key)
    BY <1>1, <2>4
  <2> HIDE DEF d2, halves
  <2>11. CASE NewNodes(tb) = 2 /\ p[1].id = 0
    <3>1. 2 \in 0 .. 3
      OBVIOUS
    <3>2. Fresh(disk, new, 2) /\ m2 = SplitLeaf(m1, side, halves, new[1], new[2])
      BY <2>7, <2>9, <2>11, <3>1
    <3> QED
      BY <1>7, <2>8, <2>10, <2>11, <3>2, RootSplits
  <2>12. CASE NewNodes(tb) = 1 /\ p[1].id # 0 /\ p[1].node.nr_items < MAX_KEYS + MAX_DC
    <3>1. 1 \in 0 .. 3
      OBVIOUS
    <3>2. Fresh(disk, new, 1) /\ m2 = SplitLeaf(m1, side, halves, new[1], 0)
      BY <2>7, <2>9, <2>12, <3>1
    <3> QED
      BY <1>7, <2>8, <2>10, <2>12, <3>2, ParentTakes
  <2>13. CASE NewNodes(tb) = 3 /\ p[1].id # 0 /\ p[1].node.nr_items = MAX_KEYS + MAX_DC
    <3>1. 3 \in 0 .. 3
      OBVIOUS
    <3>2. Fresh(disk, new, 3)
          /\ m2 = SplitLeafAndParent(m1, side, halves, new[1], new[2], new[3])
      BY <2>7, <2>9, <2>13, <3>1
    <3>3. p[n].id # 0
      <4>1. root # 0
        BY DiskNode
      <4>2. n \in 1 .. n
        BY <1>1, <2>13, <4>1 DEF PathOK
      <4> QED
        BY <2>2, <4>2
    <3>4. SplitInternal(p[1].node).ok
      <4>1. SUFFICES ASSUME ~SplitInternal(p[1].node).ok PROVE FALSE
        OBVIOUS
      <4>2. m1.pe = p
        BY <2>8, MemIs
      <4>3. m2 = Failed(m1)
        BY <3>2, <4>1, <4>2, SplitBothFails
      <4>4. PICK no : no = FALSE
        OBVIOUS
      <4>5. m2 = Mem(d2, root, p, n, le, ri, no)
        <5>1. Updates(m1, d2, root, p, n, le, ri, o)
          BY <2>8, MemWith
        <5> QED
          BY <4>3, <4>4, <5>1 DEF Updates
      <4>6. Mem(d2, root, p, n, le, ri, no).ok = no
        BY MemIs
      <4>7. m2.ok = no
        BY <4>5, <4>6, Zenon
      <4> QED
        BY <4>4, <4>7, Zenon
    <3> QED
      BY <1>7, <2>8, <2>10, <2>13, <3>2, <3>3, <3>4, ParentSplits
  <2>14. \/ NewNodes(tb) = 2 /\ p[1].id = 0
         \/ NewNodes(tb) = 1 /\ p[1].id # 0 /\ p[1].node.nr_items < MAX_KEYS + MAX_DC
         \/ NewNodes(tb) = 3 /\ p[1].id # 0 /\ p[1].node.nr_items = MAX_KEYS + MAX_DC
    BY <1>1, <1>7, <2>5, NewNodesIs
  <2> QED
    BY <2>11, <2>12, <2>13, <2>14
<1> QED
  BY <1>6, <1>7

-----------------------------------------------------------------------------
(* The nodes of the tree.                                                  *)
LinkedFrom(d, S) == S \cup UNION {LinksOf(d[id]) \cap DOMAIN d : id \in S}

ReachOf(d, r) ==
  LinkedFrom(d, LinkedFrom(d, LinkedFrom(d, LinkedFrom(d, LinkedFrom(d, {r} \cap DOMAIN d)))))

(* S holds what r leads to in up to k steps.                               *)
Reaching(d, r, k, S) ==
  /\ r \in S /\ S \subseteq DOMAIN d
  /\ \A id \in S : LinksOf(d[id]) \subseteq S \/ d[id].level <= 3 - k
  /\ \A C : r \in C /\ (\A id \in C \cap DOMAIN d : LinksOf(d[id]) \subseteq C) => S \subseteq C

(* Five levels of links reach all that the root leads to.                  *)
LEMMA ReachingOn ==
  ASSUME NEW d, DiskOK(d), NEW r, NEW k, k \in 0 .. 4, NEW S, Reaching(d, r, k, S)
  PROVE  Reaching(d, r, k + 1, LinkedFrom(d, S))
<1> DEFINE T == LinkedFrom(d, S)
<1>1. r \in S /\ S \subseteq DOMAIN d /\ S \subseteq T
  BY DEF Reaching, LinkedFrom
<1>2. T \subseteq DOMAIN d
  BY <1>1 DEF LinkedFrom
<1>3. \A id \in S : LinksOf(d[id]) \subseteq T
  BY <1>1, NodeLevel DEF LinkedFrom
<1>4. \A x \in T : x \in S \/ \E z \in S : x \in LinksOf(d[z])
  BY DEF LinkedFrom
<1> HIDE DEF T
<1>5. ASSUME NEW id \in T PROVE LinksOf(d[id]) \subseteq T \/ d[id].level <= 3 - (k + 1)
  <2>1. CASE id \in S
    BY <1>3, <2>1
  <2>2. CASE id \notin S
    <3>1. PICK z \in S : id \in LinksOf(d[z])
      BY <1>4, <2>2
    <3>2. d[z].level <= 3 - k
      BY <2>2, <3>1 DEF Reaching
    <3>3. z \in DOMAIN d
      BY <1>1
    <3>4. d[z].level \in 0 .. 3 /\ d[z].level # 0 /\ d[id].level = Below(d[z].level)
      BY <3>1, <3>3, NodeLevel
    <3>5. d[id].level <= 3 - (k + 1)
      BY <3>2, <3>4 DEF Below
    <3> QED
      BY <3>5
  <2> QED
    BY <2>1, <2>2
<1>6. ASSUME NEW C, r \in C, \A id \in C \cap DOMAIN d : LinksOf(d[id]) \subseteq C
      PROVE  T \subseteq C
  <2>1. S \subseteq C
    BY <1>6 DEF Reaching
  <2> QED
    BY <1>1, <1>4, <1>6, <2>1
<1>7. Reaching(d, r, k + 1, T)
  BY <1>1, <1>2, <1>5, <1>6 DEF Reaching
<1> QED
  BY <1>7 DEF T

LEMMA ReachIn ==
  ASSUME NEW d, DiskOK(d), NEW r, r \in DOMAIN d
  PROVE  IsReach(d, r, ReachOf(d, r))
<1> DEFINE S0 == {r} \cap DOMAIN d
           S1 == LinkedFrom(d, S0)
           S2 == LinkedFrom(d, S1)
           S3 == LinkedFrom(d, S2)
           S4 == LinkedFrom(d, S3)
           S5 == LinkedFrom(d, S4)
<1>0. S5 = ReachOf(d, r)
  BY DEF ReachOf
<1>1. Reaching(d, r, 0, S0)
  <2>1. d[r].level \in 0 .. 3
    BY NodeLevel
  <2> QED
    BY <2>1 DEF Reaching
<1> HIDE DEF S0
<1>2. Reaching(d, r, 0 + 1, S1)
  BY <1>1, ReachingOn
<1> HIDE DEF S1
<1>3. Reaching(d, r, 1 + 1, S2)
  <2>1. Reaching(d, r, 1, S1)
    BY <1>2
  <2> QED
    BY <2>1, ReachingOn
<1> HIDE DEF S2
<1>4. Reaching(d, r, 2 + 1, S3)
  <2>1. Reaching(d, r, 2, S2)
    BY <1>3
  <2> QED
    BY <2>1, ReachingOn
<1> HIDE DEF S3
<1>5. Reaching(d, r, 3 + 1, S4)
  <2>1. Reaching(d, r, 3, S3)
    BY <1>4
  <2> QED
    BY <2>1, ReachingOn
<1> HIDE DEF S4
<1>6. Reaching(d, r, 4 + 1, S5)
  <2>1. Reaching(d, r, 4, S4)
    BY <1>5
  <2> QED
    BY <2>1, ReachingOn
<1> HIDE DEF S5
<1>7. Reaching(d, r, 5, S5)
  BY <1>6
<1>8. \A id \in S5 : LinksOf(d[id]) \subseteq S5
  <2>1. SUFFICES ASSUME NEW id \in S5 PROVE LinksOf(d[id]) \subseteq S5
    OBVIOUS
  <2>2. id \in DOMAIN d /\ (LinksOf(d[id]) \subseteq S5 \/ d[id].level <= 3 - 5)
    BY <1>7 DEF Reaching
  <2>3. d[id].level \in 0 .. 3
    BY <2>2, NodeLevel
  <2> QED
    BY <2>2, <2>3
<1> QED
  BY <1>0, <1>7, <1>8 DEF Reaching, IsReach

LEMMA ReachUnique ==
  ASSUME NEW d, NEW r, NEW S, NEW T, IsReach(d, r, S), IsReach(d, r, T)
  PROVE  S = T
<1>1. S \subseteq T /\ T \subseteq S
  BY DEF IsReach
<1> QED
  BY <1>1

(* The tree of the model is that set.                                      *)
LEMMA ReachableIs == Reachable = ReachOf(disk, root)
<1>1. \A id : Children(id) = LinksOf(disk[id]) \cap DOMAIN disk
  BY DEF Children, Links, LinksOf
<1>2. \A S : WithChildren(S) = LinkedFrom(disk, S)
  BY <1>1 DEF WithChildren, LinkedFrom
<1> QED
  BY <1>2 DEF Reachable, ReachOf

(* All but the root hold something, and their children are one below them. *)
LEMMA ReachWritten ==
  ASSUME NEW d, DiskOK(d), NEW r, NEW S, IsReach(d, r, S), NEW id \in S, id # r
  PROVE  NrItems(d[id]) # 0
<1> DEFINE C == {r} \cup {x \in DOMAIN d : NrItems(d[x]) # 0}
<1>1. r \in C /\ \A x \in C \cap DOMAIN d : LinksOf(d[x]) \subseteq C
  BY NodeLevel
<1>2. S \subseteq C
  BY <1>1 DEF IsReach
<1> QED
  BY <1>2

LEMMA LowRoot ==
  ASSUME NEW d, DiskOK(d), NEW r, NEW S, IsReach(d, r, S), d[r].level <= 2, NEW id \in S
  PROVE  d[id].level <= 2
<1> DEFINE C == {x \in DOMAIN d : d[x].level <= 2}
<1>1. r \in C
  BY DEF IsReach
<1>2. ASSUME NEW x \in C, NEW y \in LinksOf(d[x]) PROVE y \in C
  <2>1. d[x].level \in 0 .. 3 /\ d[x].level # 0 /\ y \in DOMAIN d /\ d[y].level = Below(d[x].level)
    BY <1>2, NodeLevel
  <2> QED
    BY <2>1 DEF Below
<1> HIDE DEF C
<1>3. S \subseteq C
  BY <1>1, <1>2 DEF IsReach
<1> QED
  BY <1>3 DEF C

-----------------------------------------------------------------------------
(* Steps.                                                                  *)
Codes == {"EOK", "EEXIST", "ENOENT"}

Low(d, S) == \A id \in S : d[id].level <= 2

(* The files d with the root r are sorted and hold what the tree held, and *)
(* key.                                                                    *)
HasAdded(d, r, key) ==
  /\ DiskOK(d) /\ r \in DOMAIN d /\ Sorted(d, r)
  /\ \/ Low(disk, ReachOf(disk, root)) /\ ~Low(d, ReachOf(d, r))
     \/ /\ ReachOf(d, r) = ReachOf(disk, root) \cup (DOMAIN d \ DOMAIN disk)
        /\ DOMAIN disk \subseteq DOMAIN d
        /\ ItemsIn(d, ReachOf(d, r)) = ItemsIn(disk, ReachOf(disk, root)) \cup {key}
        /\ Low(d, ReachOf(d, r)) => Low(disk, ReachOf(disk, root))

LEMMA GrownInserts ==
  ASSUME DiskOK(disk), root \in DOMAIN disk, NEW key, NEW m, m.ok, NEW fin,
         Grown(m, fin, key, ReachOf(disk, root)), Orders(m, fin)
  PROVE  Flushed(m) = At(m, fin) /\ HasAdded(fin, m.root, key)
<1> DEFINE S == ReachOf(disk, root)
           N == DOMAIN m.disk \ DOMAIN disk
<1>1. IsReach(disk, root, S)
  BY ReachIn
<1>2. /\ Flushed(m) = At(m, fin) /\ DiskOK(fin) /\ DOMAIN fin = DOMAIN m.disk
      /\ m.root \in DOMAIN fin /\ Sorted(fin, m.root)
  <2>1. IsMem(m) /\ DiskOK(m.disk) /\ Ready(m, fin) /\ m.root \in DOMAIN m.disk
    BY DEF Grown
  <2>2. Flushed(m) = At(m, fin) /\ DiskOK(fin) /\ DOMAIN fin = DOMAIN m.disk
    BY <2>1, ReadyFlushed
  <2>3. Sorted(fin, m.root)
    BY <2>1, WritesSorted
  <2> QED
    BY <2>1, <2>2, <2>3
<1>3. IsReach(fin, m.root, ReachOf(fin, m.root))
  BY <1>2, ReachIn
<1>4. CASE fin[m.root].level = 3 /\ disk[root].level = 2
  <2>1. ~Low(fin, ReachOf(fin, m.root))
    <3>1. m.root \in ReachOf(fin, m.root)
      BY <1>3 DEF IsReach
    <3> QED
      BY <1>4, <3>1 DEF Low
  <2>2. Low(disk, S)
    <3>1. disk[root].level <= 2
      BY <1>4
    <3> HIDE DEF S
    <3>2. \A id \in S : disk[id].level <= 2
      BY <1>1, <3>1, LowRoot
    <3> QED
      BY <3>2 DEF Low
  <2> QED
    BY <1>2, <2>1, <2>2 DEF HasAdded
<1>5. CASE IsReach(fin, m.root, S \cup N) /\ ItemsIn(fin, S \cup N) = ItemsIn(disk, S) \cup {key}
  <2>1. ReachOf(fin, m.root) = S \cup N
    BY <1>3, <1>5, ReachUnique
  <2>2. DOMAIN disk \subseteq DOMAIN fin
    BY <1>2 DEF Grown, WithNodes
  <2>3. Low(fin, S \cup N) => Low(disk, S)
    <3>1. SUFFICES ASSUME Low(fin, S \cup N), NEW id \in S PROVE disk[id].level <= 2
      BY DEF Low
    <3>2. id \in DOMAIN disk /\ fin[id].level <= 2
      BY <1>1, <3>1 DEF IsReach, Low
    <3>3. CASE NrItems(disk[id]) # 0
      <4>1. m.disk[id] = disk[id] /\ id \in DOMAIN m.disk
        BY <3>2 DEF Grown, WithNodes
      <4>2. fin[id].level = disk[id].level
        BY <3>3, <4>1 DEF Grown, Ready
      <4> QED
        BY <3>2, <4>2
    <3>4. CASE NrItems(disk[id]) = 0
      <4>1. disk[id] \in Nodes
        BY <3>2, NodeLevel
      <4>2. disk[id].level = 0
        <5> DEFINE node == disk[id]
                   k == NrKeys(node)
        <5>1. node.level # 0 => k \in 1 .. MAX_KEYS /\ node.nr_items = 2 * k + 1
          BY <4>1 DEF Nodes, NodeOK
        <5>2. node.level # 0 => node.nr_items = 0
          BY <3>4 DEF NrItems, IsLeaf, BTREE_LEAF_LEVEL
        <5> HIDE DEF node, k
        <5>3. node.level = 0
          BY <5>1, <5>2, BPlusNodeAssumption
        <5> QED
          BY <5>3 DEF node
      <4> QED
        BY <4>2
    <3> QED
      BY <3>3, <3>4
  <2> HIDE DEF S, N
  <2>4. N = DOMAIN fin \ DOMAIN disk /\ S = ReachOf(disk, root)
    BY <1>2 DEF N, S
  <2>5. ItemsIn(fin, S \cup N) = ItemsIn(disk, S) \cup {key}
    BY <1>5
  <2> QED
    BY <1>2, <2>1, <2>2, <2>3, <2>4, <2>5 DEF HasAdded
<1> QED
  BY <1>2, <1>4, <1>5 DEF Grown

LEMMA InsertDone ==
  ASSUME DiskOK(disk), root \in DOMAIN disk, NEW key \in Keys, NEW errno,
         NEW m0, m0 = Memory(Search(key)),
         NewNodes(m0) <= Cardinality(NodeIds \ DOMAIN disk),
         Sorted(disk, root), ~Search(key).found,
         NEW m, m = InsertItem(m0, key, errno), NEW f, f = Flushed(m), f.ok
  PROVE  HasAdded(f.disk, f.root, key)
<1>1. IsReach(disk, root, ReachOf(disk, root))
  BY ReachIn
<1>2. m.ok
  <2>1. ~m.ok => f = m
    BY DEF Flushed
  <2> QED
    BY <2>1, Zenon
<1>3. PICK fin : Grown(m, fin, key, ReachOf(disk, root)) /\ Orders(m, fin)
  BY <1>1, <1>2, InsertGrows
<1>4. f = At(m, fin) /\ HasAdded(fin, m.root, key)
  BY <1>2, <1>3, GrownInserts
<1>5. At(m, fin).disk = fin /\ At(m, fin).root = m.root
  <2>1. IsMem(m)
    BY <1>3 DEF Grown
  <2> QED
    BY <2>1, AtIs
<1> QED
  BY <1>4, <1>5

LEMMA UpToThree ==
  ASSUME NEW new, NEW k, k \in 0 .. 3, Len(new) = k, DOMAIN new = 1 .. k
  PROVE  /\ IsFiniteSet({new[i] : i \in DOMAIN new})
         /\ Cardinality({new[i] : i \in DOMAIN new}) \in 0 .. 3
<1>0. IsFiniteSet({}) /\ Cardinality({}) = 0
  BY FS_EmptySet
<1> DEFINE A == {} \cup {new[1]}
           B == A \cup {new[2]}
           C == B \cup {new[3]}
<1>1. IsFiniteSet(A) /\ Cardinality(A) \in 0 .. 1
  BY <1>0, FS_AddElement
<1> HIDE DEF A
<1>2. IsFiniteSet(B) /\ Cardinality(B) \in 0 .. 2
  <2>1. Cardinality(B) = Cardinality(A) \/ Cardinality(B) = Cardinality(A) + 1
    BY <1>1, FS_AddElement
  <2> QED
    BY <1>1, <2>1, FS_AddElement
<1> HIDE DEF B
<1>3. IsFiniteSet(C) /\ Cardinality(C) \in 0 .. 3
  <2>1. Cardinality(C) = Cardinality(B) \/ Cardinality(C) = Cardinality(B) + 1
    BY <1>2, FS_AddElement
  <2> QED
    BY <1>2, <2>1, FS_AddElement
<1>4. k = 0 \/ k = 1 \/ k = 2 \/ k = 3
  OBVIOUS
<1>5. 1 .. 0 = {} /\ 1 .. 1 = {1} /\ 1 .. 2 = {1, 2} /\ 1 .. 3 = {1, 2, 3}
  OBVIOUS
<1> DEFINE T == {new[i] : i \in DOMAIN new}
<1>6. T = {} \/ T = A \/ T = B \/ T = C
  BY <1>4, <1>5 DEF A, B, C
<1> HIDE DEF T, C
<1>7. IsFiniteSet(T) /\ Cardinality(T) \in 0 .. 3
  <2>1. 0 .. 1 \subseteq 0 .. 3 /\ 0 .. 2 \subseteq 0 .. 3 /\ 0 \in 0 .. 3
    OBVIOUS
  <2>2. CASE T = {}
    BY <1>0, <2>1, <2>2
  <2>3. CASE T = A
    BY <1>1, <2>1, <2>3
  <2>4. CASE T = B
    BY <1>2, <2>1, <2>4
  <2>5. CASE T = C
    BY <1>3, <2>5
  <2> QED
    BY <1>6, <2>2, <2>3, <2>4, <2>5
<1> QED
  BY <1>7 DEF T

(* New node files leave the tree sorted.                                   *)
LEMMA NewFilesSorted ==
  ASSUME DiskOK(disk), root \in DOMAIN disk, Sorted(disk, root),
         NEW e, \A id \in DOMAIN disk : e[id] = disk[id]
  PROVE  Sorted(e, root)
<1>1. e[root] = disk[root]
  OBVIOUS
<1>2. disk[root].level = 1 =>
        \A i \in 0 .. NrKeys(disk[root]) : e[Dc(disk[root], i)] = disk[Dc(disk[root], i)]
  BY RootOrdered DEF LeafThere
<1> QED
  BY <1>1, <1>2 DEF Sorted, InOrder

(* ... and wherever it stops.                                              *)
LEMMA InsertStopped ==
  ASSUME DiskOK(disk), root \in DOMAIN disk, NEW key \in Keys, NEW errno,
         NEW m0, m0 = Memory(Search(key)),
         NewNodes(m0) <= Cardinality(NodeIds \ DOMAIN disk),
         Sorted(disk, root), ~Search(key).found,
         NEW m, m = InsertItem(m0, key, errno), m.ok, NEW files, files \in Interrupted(m)
  PROVE  DiskOK(files.disk) /\ files.root \in DOMAIN files.disk /\ Sorted(files.disk, files.root)
<1>1. IsReach(disk, root, ReachOf(disk, root))
  BY ReachIn
<1>2. PICK fin : Grown(m, fin, key, ReachOf(disk, root)) /\ Orders(m, fin)
  BY <1>1, InsertGrows
<1>3. IsMem(m) /\ DiskOK(m.disk) /\ Ready(m, fin) /\ m.root \in DOMAIN m.disk
  BY <1>2 DEF Grown
<1>4. \A k \in DOMAIN Elements(m) :
        /\ DiskOK(Flush(m)[k - 1].disk) /\ Sorted(Flush(m)[k - 1].disk, m.root)
        /\ DOMAIN Flush(m)[k - 1].disk = DOMAIN m.disk
        /\ Elements(m)[k].id # 0 => NrItems(Elements(m)[k].node) # 0
  BY <1>2, <1>3, ReadyFlushed, WritesSorted
<1> DEFINE c == Cardinality(DOMAIN m.disk \ DOMAIN disk)
           new == FreeIds(disk, c)
           Created == {[disk |-> WithNodes(disk, SubSeq(new, 1, n)), root |-> root] : n \in 0 .. Len(new)}
           Between == {[disk |-> Flush(m)[n - 1].disk, root |-> m.root] : n \in DOMAIN Elements(m)}
           Emptied == {[disk |-> [Flush(m)[n - 1].disk EXCEPT ![Elements(m)[n].id] = Elements(m)[n].node],
                        root |-> m.root] :
                         n \in {n \in DOMAIN Elements(m) :
                                  Elements(m)[n].id # 0 /\ NrItems(Elements(m)[n].node) = 0}}
<1>5. files \in Created \/ files \in Between \/ files \in Emptied
  BY Zenon DEF Interrupted
<1>6. CASE files \in Created
  <2>1. PICK n \in 0 .. Len(new) : files = [disk |-> WithNodes(disk, SubSeq(new, 1, n)), root |-> root]
    BY <1>6
  <2>2. c \in 0 .. 3 /\ c <= Cardinality(NodeIds \ DOMAIN disk)
    <3>1. PICK made : Fresh(disk, made, Len(made)) /\ Len(made) \in 0 .. 3 /\ m.disk = WithNodes(disk, made)
      BY <1>2 DEF Grown
    <3> DEFINE M == {made[i] : i \in DOMAIN made}
    <3>2. DOMAIN made = 1 .. Len(made) /\ \A i \in DOMAIN made : made[i] \in NodeIds \ DOMAIN disk
      BY <3>1 DEF Fresh
    <3>3. IsFiniteSet(M) /\ Cardinality(M) \in 0 .. 3
      BY <3>1, <3>2, UpToThree
    <3>4. DOMAIN m.disk \ DOMAIN disk = M
      BY <3>1, <3>2 DEF WithNodes
    <3>5. M \in SUBSET (NodeIds \ DOMAIN disk)
      BY <3>2
    <3>6. IsFiniteSet(NodeIds \ DOMAIN disk)
      BY BPlusTreeAssumption, FS_Subset
    <3> HIDE DEF M
    <3>7. Cardinality(M) <= Cardinality(NodeIds \ DOMAIN disk)
      BY <3>5, <3>6, FS_Subset
    <3> QED
      BY <3>3, <3>4, <3>7
  <2> HIDE DEF c
  <2>3. Fresh(disk, new, c)
    BY <2>2, FreeIdsFresh
  <2> HIDE DEF new
  <2> DEFINE part == SubSeq(new, 1, n)
             e == WithNodes(disk, part)
  <2>4. new \in Seq(NodeIds)
    BY <2>3 DEF Fresh
  <2>5. part \in Seq(NodeIds)
    BY <2>1, <2>4
  <2> HIDE DEF part
  <2>6. \A i \in DOMAIN part : part[i] \in NodeIds
    BY <2>5
  <2>7. DiskOK(e) /\ DOMAIN disk \subseteq DOMAIN e /\ Sorted(e, root)
    <3>1. e = WithNodes(disk, part)
      OBVIOUS
    <3> HIDE DEF e
    <3>2. DiskOK(e) /\ NewIn(disk, e, part)
      BY <2>6, <3>1, Allocated
    <3>3. Sorted(e, root)
      BY <3>2, NewFilesSorted DEF NewIn
    <3> QED
      BY <3>2, <3>3 DEF NewIn
  <2>8. files.disk = e /\ files.root = root
    BY <2>1 DEF part
  <2> QED
    BY <2>7, <2>8
<1>7. CASE files \in Between
  <2> HIDE DEF Created, Emptied
  <2>1. PICK n \in DOMAIN Elements(m) : files = [disk |-> Flush(m)[n - 1].disk, root |-> m.root]
    BY <1>7
  <2>2. files.disk = Flush(m)[n - 1].disk /\ files.root = m.root
    BY <2>1
  <2> QED
    BY <1>3, <1>4, <2>2
<1>8. CASE files \in Emptied
  <2> HIDE DEF Created, Between
  <2>1. \E n \in DOMAIN Elements(m) : Elements(m)[n].id # 0 /\ NrItems(Elements(m)[n].node) = 0
    BY <1>8
  <2> QED
    BY <1>4, <2>1
<1> QED
  BY <1>5, <1>6, <1>7, <1>8

-----------------------------------------------------------------------------
(* The inductive invariant: every node on disk is one that the code can    *)
(* read and leads to written nodes of the level below (DiskOK), the root   *)
(* is among them, no node is lost, and a tree of up to two levels is       *)
(* sorted.                                                                 *)
TreeSound ==
  /\ DiskOK(disk) /\ root \in DOMAIN disk /\ Sorted(disk, root)
  /\ rc \in Codes /\ status \in {"running", "ended"} /\ crashes \in Nat
  /\ NoNodeLost

(* What a step does to the files.                                          *)
Answers ==
  /\ status = "running" /\ rc' \in {"EEXIST", "ENOENT"}
  /\ UNCHANGED <<disk, root, status, crashes>>
Ends == status = "running" /\ status' = "ended" /\ UNCHANGED <<disk, root, rc, crashes>>
Adds(key) ==
  /\ status = "running" /\ HasAdded(disk', root', key)
  /\ rc' = "EOK" /\ UNCHANGED <<status, crashes>>
Crashes ==
  /\ DiskOK(disk') /\ root' \in DOMAIN disk' /\ Sorted(disk', root')
  /\ rc' = "EOK" /\ crashes' = crashes + 1 /\ UNCHANGED status

LEMMA InsertIs ==
  ASSUME TreeSound, NEW key \in Keys, Insert(key), UNCHANGED crashes, status = "running"
  PROVE  Answers \/ Ends \/ Adds(key)
<1> DEFINE s == Search(key)
           m0 == Memory(s)
<1>0. DiskOK(disk) /\ root \in DOMAIN disk /\ Sorted(disk, root)
  BY DEF TreeSound
<1>1. CASE s.end = "leaf" /\ s.found /\ Return("EEXIST")
  BY <1>1 DEF Return, Answers
<1>2. CASE s.end # "leaf" /\ End
  BY <1>2 DEF End, Ends
<1>3. CASE /\ s.end = "leaf" /\ ~s.found
           /\ NewNodes(m0) <= Cardinality(NodeIds \ DOMAIN disk)
           /\ \E errno \in BOOLEAN : Finish(Flushed(InsertItem(m0, key, errno)))
  <2>1. PICK errno \in BOOLEAN : Finish(Flushed(InsertItem(m0, key, errno)))
    BY <1>3
  <2> DEFINE m == InsertItem(m0, key, errno)
             f == Flushed(m)
  <2>2. CASE ~f.ok /\ End
    BY <2>2 DEF End, Ends
  <2>3. CASE f.ok /\ disk' = f.disk /\ root' = f.root /\ rc' = "EOK" /\ UNCHANGED status
    <3>1. f.ok /\ f = Flushed(m) /\ m = InsertItem(m0, key, errno) /\ m0 = Memory(Search(key))
          /\ NewNodes(m0) <= Cardinality(NodeIds \ DOMAIN disk) /\ ~Search(key).found
      BY <1>3, <2>3
    <3> HIDE DEF f, m, m0
    <3>2. HasAdded(f.disk, f.root, key)
      BY <1>0, <3>1, InsertDone
    <3>3. HasAdded(disk', root', key)
      BY <2>3, <3>2
    <3> QED
      BY <2>3, <3>3 DEF Adds
  <2>4. (~f.ok /\ End)
        \/ (f.ok /\ disk' = f.disk /\ root' = f.root /\ rc' = "EOK" /\ UNCHANGED status)
    BY <2>1, Zenon DEF Finish
  <2> QED
    BY <2>2, <2>3, <2>4
<1> QED
  BY <1>1, <1>2, <1>3, Zenon DEF Insert

LEMMA StepIs ==
  ASSUME TreeSound, InsertOrCrash
  PROVE  Answers \/ Ends \/ (\E key \in Keys : Adds(key)) \/ Crashes
<1>0. DiskOK(disk) /\ root \in DOMAIN disk /\ Sorted(disk, root) /\ rc \in Codes
  BY DEF TreeSound
<1>1. ASSUME NEW key \in Keys, SearchKey(key), UNCHANGED crashes, status = "running"
      PROVE  Answers \/ Ends
  <2>1. CASE Search(key).end = "leaf" /\ Return(IF Search(key).found THEN "EEXIST" ELSE "ENOENT")
    <3>1. rc' = "EEXIST" \/ rc' = "ENOENT"
      BY <2>1 DEF Return
    <3> QED
      BY <1>1, <2>1, <3>1 DEF Return, Answers
  <2>2. CASE End
    BY <1>1, <2>2 DEF End, Ends
  <2>3. CASE Return("ENOENT")
    BY <1>1, <2>3 DEF Return, Answers
  <2> QED
    BY <1>1, <2>1, <2>2, <2>3, Zenon DEF SearchKey
<1>2. ASSUME NEW key \in Keys, Insert(key), UNCHANGED crashes, status = "running"
      PROVE  Answers \/ Ends \/ Adds(key)
  BY <1>2, InsertIs
<1>3. ASSUME NEW key \in Keys, CrashInInsert(key), crashes' = crashes + 1
      PROVE  Crashes
  <2> DEFINE m0 == Memory(Search(key))
  <2>1. NewNodes(m0) <= Cardinality(NodeIds \ DOMAIN disk) /\ ~Search(key).found
        /\ \E errno \in BOOLEAN : Stops(InsertItem(m0, key, errno))
    BY <1>3, Zenon DEF CrashInInsert
  <2>2. PICK errno \in BOOLEAN : Stops(InsertItem(m0, key, errno))
    BY <2>1
  <2> DEFINE m == InsertItem(m0, key, errno)
  <2>3. m.ok /\ rc' = "EOK" /\ UNCHANGED status
    BY <2>2, Zenon DEF Stops
  <2>4. PICK files \in Interrupted(m) : disk' = files.disk /\ root' = files.root
    BY <2>2, Zenon DEF Stops
  <2>5. m = InsertItem(m0, key, errno) /\ m0 = Memory(Search(key))
    OBVIOUS
  <2> HIDE DEF m, m0
  <2>6. DiskOK(files.disk) /\ files.root \in DOMAIN files.disk /\ Sorted(files.disk, files.root)
    BY <1>0, <2>1, <2>3, <2>5, InsertStopped
  <2> QED
    BY <1>3, <2>3, <2>4, <2>6 DEF Crashes
<1> QED
  BY <1>1, <1>2, <1>3, Zenon DEF InsertOrCrash, InsertOnly

-----------------------------------------------------------------------------
(* The theorems.                                                           *)
LEMMA ItemsAreThose == Items = ItemsIn(disk, ReachOf(disk, root)) \ {0}
<1>1. Items = ItemsIn(disk, Reachable) \ {0}
  BY Zenon DEF Items, ItemsIn
<1> QED
  BY <1>1, ReachableIs

LEMMA LowIs == UpToThreeLevels <=> Low(disk, ReachOf(disk, root))
BY ReachableIs DEF UpToThreeLevels, Low

LEMMA NextReachable ==
  /\ Reachable' = ReachOf(disk', root')
  /\ Items' = ItemsIn(disk', ReachOf(disk', root')) \ {0}
  /\ UpToThreeLevels' <=> Low(disk', ReachOf(disk', root'))
<1>1. (Reachable = ReachOf(disk, root))'
  BY ReachableIs, PTL
<1>2. (Items = ItemsIn(disk, ReachOf(disk, root)) \ {0})'
  BY ItemsAreThose, PTL
<1>3. (UpToThreeLevels <=> Low(disk, ReachOf(disk, root)))'
  BY LowIs, PTL
<1> QED
  BY <1>1, <1>2, <1>3

LEMMA InitSound ==
  ASSUME CrashInit
  PROVE  TreeSound /\ Items = {}
<1> DEFINE r == Least(NodeIds)
           d == [id \in {r} |-> FormattedNode]
<1>1. r \in NodeIds
  BY BPlusTreeAssumption, LeastNatural
<1>2. Empty(FormattedNode)
  BY FormattedIs
<1>3. disk = d /\ root = r /\ rc = "EOK" /\ status = "running" /\ crashes = 0
  BY DEF CrashInit, Init
<1> HIDE DEF r
<1>4. /\ DOMAIN disk = {r} /\ disk[r] = FormattedNode /\ disk \in [DOMAIN disk -> Nodes]
  BY <1>2, <1>3 DEF Empty
<1>5. DiskOK(disk) /\ root \in DOMAIN disk
  BY <1>1, <1>2, <1>3, <1>4 DEF DiskOK, Empty
<1>6. ReachOf(disk, root) = {r}
  <2>1. IsReach(disk, root, ReachOf(disk, root))
    BY <1>5, ReachIn
  <2> QED
    BY <1>3, <1>4, <2>1 DEF IsReach
<1>7. Items = {}
  BY <1>2, <1>4, <1>6, ItemsAreThose DEF ItemsIn, Empty
<1>8. NoNodeLost
  BY <1>3, <1>4, <1>6, ReachableIs DEF NoNodeLost
<1>9. Sorted(disk, root)
  <2>1. disk[root].level = 0 /\ disk[root].items = <<>>
    BY <1>3, <1>4 DEF FormattedNode, BTREE_LEAF_LEVEL
  <2> QED
    BY <2>1 DEF Sorted, Ascends
<1> QED
  BY <1>3, <1>5, <1>7, <1>8, <1>9 DEF TreeSound, Codes

LEMMA StepSound ==
  ASSUME TreeSound, [InsertOrCrash]_crashVars
  PROVE  TreeSound'
<1>0. /\ DiskOK(disk) /\ root \in DOMAIN disk /\ Sorted(disk, root)
      /\ rc \in Codes /\ status \in {"running", "ended"} /\ crashes \in Nat
      /\ (status = "running" /\ crashes = 0 /\ Low(disk, ReachOf(disk, root))
            => DOMAIN disk = ReachOf(disk, root))
  BY ReachableIs, LowIs DEF TreeSound, NoNodeLost
<1>1. SUFFICES /\ DiskOK(disk') /\ root' \in DOMAIN disk' /\ Sorted(disk', root')
               /\ rc' \in Codes /\ status' \in {"running", "ended"} /\ crashes' \in Nat
               /\ (status' = "running" /\ crashes' = 0 /\ Low(disk', ReachOf(disk', root'))
                     => DOMAIN disk' = ReachOf(disk', root'))
  BY NextReachable DEF TreeSound, NoNodeLost
<1>2. CASE UNCHANGED crashVars
  BY <1>0, <1>2 DEF crashVars, vars
<1>3. CASE Answers
  BY <1>0, <1>3 DEF Answers, Codes
<1>4. CASE Ends
  BY <1>0, <1>4 DEF Ends
<1>5. ASSUME NEW key \in Keys, Adds(key)
      PROVE  /\ DiskOK(disk') /\ root' \in DOMAIN disk' /\ Sorted(disk', root')
             /\ rc' \in Codes /\ status' \in {"running", "ended"} /\ crashes' \in Nat
             /\ (status' = "running" /\ crashes' = 0 /\ Low(disk', ReachOf(disk', root'))
                   => DOMAIN disk' = ReachOf(disk', root'))
  <2>1. /\ status = "running" /\ HasAdded(disk', root', key)
        /\ rc' = "EOK" /\ status' = status /\ crashes' = crashes
    BY <1>5 DEF Adds
  <2>2. DiskOK(disk') /\ root' \in DOMAIN disk' /\ Sorted(disk', root')
    BY <2>1 DEF HasAdded
  <2>3. crashes' = 0 /\ Low(disk', ReachOf(disk', root')) => DOMAIN disk' = ReachOf(disk', root')
    <3>1. SUFFICES ASSUME crashes = 0, Low(disk', ReachOf(disk', root'))
                   PROVE  DOMAIN disk' = ReachOf(disk', root')
      BY <2>1
    <3>2. /\ ReachOf(disk', root') = ReachOf(disk, root) \cup (DOMAIN disk' \ DOMAIN disk)
          /\ DOMAIN disk \subseteq DOMAIN disk' /\ Low(disk, ReachOf(disk, root))
      BY <2>1, <3>1 DEF HasAdded
    <3>3. DOMAIN disk = ReachOf(disk, root)
      BY <1>0, <2>1, <3>1, <3>2
    <3> QED
      BY <3>2, <3>3
  <2> QED
    BY <1>0, <2>1, <2>2, <2>3 DEF Codes
<1>6. CASE Crashes
  BY <1>0, <1>6 DEF Crashes, Codes
<1> QED
  BY <1>2, <1>3, <1>4, <1>5, <1>6, StepIs

(* The inductive invariant, for every number of keys, nodes and crashes,   *)
(* and nodes of any size: while keys are only inserted, every node on disk *)
(* is one that the code can read, whatever splits, and wherever an         *)
(* insertion stopped.                                                      *)
THEOREM InsertKeepsTreeSound == InsertCrashSpec => []TreeSound
<1>1. CrashInit => TreeSound
  BY InitSound
<1>2. TreeSound /\ [InsertOrCrash]_crashVars => TreeSound'
  BY StepSound
<1> QED
  BY <1>1, <1>2, PTL DEF InsertCrashSpec

(* Under insertions and crashes in them the root file and the nodes stay   *)
(* within what the code indexes.                                           *)
THEOREM InsertTypeOK == InsertCrashSpec => []TypeOK
<1>1. TreeSound => TypeOK
  <2>1. SUFFICES ASSUME TreeSound PROVE TypeOK
    OBVIOUS
  <2>2. /\ DiskOK(disk) /\ root \in DOMAIN disk /\ rc \in Codes /\ status \in {"running", "ended"}
    BY <2>1 DEF TreeSound
  <2>3. ASSUME NEW id \in DOMAIN disk
        PROVE  /\ disk[id].level \in Levels
               /\ disk[id].nr_items \in 0 .. MAX_KEYS + MAX_DC
               /\ ItemsOf(disk[id]) \subseteq Keys \cup {0}
               /\ Len(disk[id].items) <= MAX_ITEMS
               /\ disk[id].word \in [Words -> Keys \cup NodeIds \cup {0}]
    <3> DEFINE node == disk[id]
               k == NrKeys(node)
    <3>1. node \in Nodes
      BY <2>2, NodeLevel
    <3> HIDE DEF node
    <3>2. /\ node.level \in Levels /\ node.items \in Seq(Keys) /\ node.nr_items \in Nat
          /\ node.word \in [Words -> Keys \cup NodeIds \cup {0}]
          /\ node.level = 0 => node.nr_items = 0 /\ Len(node.items) <= MAX_ITEMS
          /\ node.level # 0 => node.items = <<>> /\ k \in 1 .. MAX_KEYS /\ node.nr_items = 2 * k + 1
      BY <3>1 DEF Nodes, NodeOK, NodeType
    <3> HIDE DEF k
    <3>3. node.nr_items \in 0 .. MAX_KEYS + MAX_DC
      BY <3>2, BPlusNodeAssumption DEF MAX_DC
    <3>4. Len(node.items) <= MAX_ITEMS
      <4>1. Len(<<>>) = 0
        OBVIOUS
      <4> QED
        BY <3>2, <4>1, BPlusNodeAssumption
    <3>5. ItemsOf(node) \subseteq Keys \cup {0}
      BY <3>2 DEF ItemsOf
    <3> QED
      BY <3>2, <3>3, <3>4, <3>5 DEF node
  <2>4. DOMAIN disk \subseteq NodeIds
    BY <2>2 DEF DiskOK
  <2> QED
    BY <2>2, <2>3, <2>4 DEF TypeOK, Codes
<1> QED
  BY <1>1, InsertKeepsTreeSound, PTL

(* Wherever an insertion stopped, no node of the tree but the root is one  *)
(* that has been allocated and not written.                                *)
THEOREM InsertLinksWritten == InsertCrashSpec => []LinksWritten
<1>1. TreeSound => LinksWritten
  <2>1. SUFFICES ASSUME TreeSound, NEW id \in Reachable \ {root} PROVE NrItems(disk[id]) # 0
    BY DEF LinksWritten
  <2>2. DiskOK(disk) /\ IsReach(disk, root, Reachable)
    BY <2>1, ReachIn, ReachableIs DEF TreeSound
  <2> QED
    BY <2>1, <2>2, ReachWritten
<1> QED
  BY <1>1, InsertKeepsTreeSound, PTL

(* All leaves are at one depth, also in what a crash leaves, and without a *)
(* crash no node file is lost, up to the split that makes a fourth level.  *)
THEOREM InsertTreeWhole == InsertCrashSpec => []TreeWhole
<1>1. TreeSound => TreeWhole
  <2>1. SUFFICES ASSUME TreeSound PROVE TreeWhole
    OBVIOUS
  <2>2. DiskOK(disk) /\ IsReach(disk, root, Reachable) /\ NoNodeLost
    BY <2>1, ReachIn, ReachableIs DEF TreeSound
  <2>3. ASSUME NEW id \in Reachable, disk[id].level <= 2, NEW child \in Children(id)
        PROVE  disk[child].level = disk[id].level - 1
    <3>1. id \in DOMAIN disk /\ child \in LinksOf(disk[id])
      BY <2>2, <2>3 DEF IsReach, Children, Links, LinksOf
    <3>2. disk[id].level \in 0 .. 3 /\ disk[child].level = Below(disk[id].level)
      BY <2>2, <3>1, NodeLevel
    <3> QED
      BY <2>3, <3>2 DEF Below
  <2> QED
    BY <2>2, <2>3 DEF TreeWhole, Balanced
<1> QED
  BY <1>1, InsertKeepsTreeSound, PTL

(* In a sorted tree of up to two levels a search finds what is in it.      *)
LEMMA SearchFinds ==
  ASSUME DiskOK(disk), root \in DOMAIN disk, Sorted(disk, root), disk[root].level <= 1,
         NEW key \in Keys
  PROVE  Found(key) <=> key \in Items
<1> DEFINE p == Search(key).pe
           x == p[0].id
           node == disk[root]
           S == ReachOf(disk, root)
           found == Search(key).found
<1>1. PathOK(p, Search(key).length) /\ Aimed(p, found, key) /\ (Found(key) <=> found)
  BY SearchLands DEF Found
<1>2. x \in DOMAIN disk /\ disk[x] \in Nodes /\ disk[x].level = 0
  BY <1>1, LeafOnPath DEF LeafOf
<1>3. /\ found = BinSearch(disk[x], key).found
      /\ node.level = 0 => x = root
      /\ node.level = 1 => x = Dc(node, BinSearch(node, key).position)
  BY <1>1 DEF Aimed
<1>4. key \in Items <=> \E id \in S : key \in ItemsOf(disk[id])
  <2>1. key # 0
    BY BPlusTreeAssumption
  <2> QED
    BY <2>1, ItemsAreThose DEF ItemsIn
<1>5. IsReach(disk, root, S)
  BY ReachIn
<1> HIDE DEF p, x, node, S, found
<1>6. ASSUME Ascends(disk[x].items) PROVE found <=> key \in ItemsOf(disk[x])
  <2>1. BinSearch(disk[x], key).found <=> key \in ItemsOf(disk[x])
    BY <1>2, <1>6, LeafSearched
  <2> QED
    BY <1>3, <2>1
<1>7. CASE node.level = 0
  <2>1. S = {root}
    <3> DEFINE C == {root}
    <3>1. root \in C /\ \A id \in C \cap DOMAIN disk : LinksOf(disk[id]) \subseteq C
      BY <1>7 DEF LinksOf, IsLeaf, BTREE_LEAF_LEVEL, node
    <3> QED
      BY <1>5, <3>1 DEF IsReach
  <2>2. Ascends(disk[x].items)
    BY <1>3, <1>7 DEF Sorted, node
  <2> QED
    BY <1>1, <1>3, <1>4, <1>6, <1>7, <2>1, <2>2
<1>8. CASE node.level = 1
  <2> DEFINE i == BinSearch(node, key).position
  <2>1. /\ node \in Nodes /\ node.level # 0 /\ InOrder(disk, node)
        /\ \A q \in 0 .. NrKeys(node) : LeafThere(Dc(node, q))
    BY <1>8, RootOrdered DEF node
  <2>2. i \in 0 .. NrKeys(node) /\ Within(node, i, key) /\ x = Dc(node, i)
    BY <1>3, <1>8, <2>1, InnerSearched DEF InOrder
  <2> HIDE DEF i
  <2>3. Ascends(disk[x].items)
    BY <2>1, <2>2 DEF InOrder
  <2>4. LinksOf(node) = {Dc(node, q) : q \in 0 .. NrKeys(node)}
    BY <2>1 DEF LinksOf, IsLeaf, BTREE_LEAF_LEVEL
  <2>5. x \in S
    BY <1>5, <2>2, <2>4 DEF IsReach, node
  <2>6. S \subseteq {root} \cup LinksOf(node)
    <3> DEFINE C == {root} \cup LinksOf(node)
    <3>1. \A id \in LinksOf(node) : LinksOf(disk[id]) = {}
      BY <2>1, <2>4 DEF LeafThere, LinksOf, IsLeaf, BTREE_LEAF_LEVEL
    <3>2. root \in C /\ \A id \in C \cap DOMAIN disk : LinksOf(disk[id]) \subseteq C
      BY <3>1 DEF node
    <3> QED
      BY <1>5, <3>2 DEF IsReach
  <2>7. ItemsOf(disk[root]) = {}
    <3>1. disk[root].items = <<>>
      BY <2>1 DEF Nodes, NodeOK, node
    <3> QED
      BY <3>1 DEF ItemsOf
  <2>8. ASSUME NEW id \in S, key \in ItemsOf(disk[id]) PROVE id = x
    <3>1. PICK q \in 0 .. NrKeys(node) : id = Dc(node, q)
      BY <2>4, <2>6, <2>7, <2>8
    <3>2. Within(node, q, key) /\ KeysAscend(node)
      BY <2>1, <2>8, <3>1 DEF InOrder
    <3>3. key \in Int
      BY BPlusTreeAssumption
    <3>4. q = i
      BY <2>1, <2>2, <3>2, <3>3, WithinOnce
    <3> QED
      BY <2>2, <3>1, <3>4
  <2> QED
    BY <1>1, <1>4, <1>6, <2>3, <2>5, <2>8
<1>9. node.level \in 0 .. 3 /\ node.level <= 1
  BY DiskNode DEF node
<1> QED
  BY <1>7, <1>8, <1>9

(* While keys are only inserted, and wherever an insertion stopped, a      *)
(* search in a tree of up to two levels finds the keys that are in it and  *)
(* no other.                                                               *)
THEOREM InsertSearchFindsItems == InsertCrashSpec => []SearchFindsItems
<1>1. TreeSound => SearchFindsItems
  BY SearchFinds DEF TreeSound, SearchFindsItems
<1> QED
  BY <1>1, InsertKeepsTreeSound, PTL

(* The insertions and searches implement the ordered set: whatever splits, *)
(* an insertion that is not interrupted and returns EOK adds the key of    *)
(* the call to the leaves of the tree, adds no other and takes none out,   *)
(* and any other call leaves the keys as they are; from the empty tree and *)
(* from what each crash left, but for the insertion that makes the fourth  *)
(* level.                                                                  *)
THEOREM InsertImplementsOrderedSet == InsertCrashSpec => ImplementsOrderedSet
<1>1. CrashInit => OS!Init
  BY InitSound DEF OS!Init, CrashInit, Init
<1>2. ASSUME TreeSound, InsertOrCrash, UNCHANGED crashes, UpToThreeLevels => UpToThreeLevels'
      PROVE  /\ OS!Next
             /\ \A key \in Keys :
                  rc' = "EOK" /\ Insert(key) => OS!Insert(key) \/ OS!End
  <2>1. /\ Items = ItemsIn(disk, ReachOf(disk, root)) \ {0}
        /\ Items' = ItemsIn(disk', ReachOf(disk', root')) \ {0}
    BY ItemsAreThose, NextReachable
  <2>2. Answers => OS!Search
    BY <2>1 DEF Answers, OS!Search
  <2>3. Ends => OS!End
    BY <2>1 DEF Ends, OS!End
  <2>4. ASSUME NEW key \in Keys, Adds(key) PROVE OS!Insert(key)
    <3>1. /\ status = "running" /\ status' = status /\ rc' = "EOK"
          /\ HasAdded(disk', root', key)
      BY <2>4 DEF Adds
    <3>2. ~(Low(disk, ReachOf(disk, root)) /\ ~Low(disk', ReachOf(disk', root')))
      BY <1>2, LowIs, NextReachable
    <3>3. ItemsIn(disk', ReachOf(disk', root')) = ItemsIn(disk, ReachOf(disk, root)) \cup {key}
      BY <3>1, <3>2 DEF HasAdded
    <3>4. key # 0
      BY BPlusTreeAssumption
    <3>5. Items' = Items \cup {key}
      BY <2>1, <3>3, <3>4
    <3> QED
      BY <3>1, <3>5 DEF OS!Insert
  <2>5. ~Crashes
    <3>1. ASSUME Crashes PROVE FALSE
      <4>1. crashes \in Nat /\ crashes' = crashes + 1 /\ crashes' = crashes
        BY <1>2, <3>1 DEF TreeSound, Crashes
      <4> QED
        BY <4>1
    <3> QED
      BY <3>1
  <2>6. OS!Next
    BY <1>2, <2>2, <2>3, <2>4, <2>5, StepIs, Zenon DEF OS!Next
  <2>7. ASSUME NEW key \in Keys, rc' = "EOK", Insert(key)
        PROVE  OS!Insert(key) \/ OS!End
    <3>1. status = "running"
      BY <1>2, Zenon DEF InsertOrCrash, InsertOnly
    <3>2. Answers \/ Ends \/ Adds(key)
      BY <1>2, <2>7, <3>1, InsertIs
    <3>3. ~Answers
      BY <2>7 DEF Answers
    <3> QED
      BY <2>3, <2>4, <3>2, <3>3
  <2> QED
    BY <2>6, <2>7, Zenon
<1>3. TreeSound /\ [InsertOrCrash]_crashVars =>
        [UNCHANGED crashes /\ (UpToThreeLevels => UpToThreeLevels') =>
           /\ OS!Next
           /\ \A key \in Keys :
                rc' = "EOK" /\ Insert(key) => OS!Insert(key) \/ OS!End]_crashVars
  BY <1>2, Zenon
<1> QED
  BY <1>1, <1>3, InsertKeepsTreeSound, PTL DEF InsertCrashSpec, ImplementsOrderedSet
=============================================================================
