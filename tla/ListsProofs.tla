---------------------------- MODULE ListsProofs ----------------------------
(***************************************************************************)
(* Theorems about module Lists, for every set of nodes, data and positions:*)
(* the lists are well linked, they are sequences with positions, and the   *)
(* stack of MiddleStack on one of them knows its middle.                   *)
(*                                                                         *)
(* The argument goes through Linked(h, hd, s): s names all that is         *)
(* allocated in h, each node once, in the order of the links from hd.      *)
(* From it follows where a walk of so many steps ends (WayPasses), which   *)
(* the code finds step by step; and each operation, taken as what it does  *)
(* to the fields of a few nodes, leads from Linked for s to Linked for s   *)
(* with a node more (InsertedLinks) or a node less (DeletedLinks).         *)
(***************************************************************************)
EXTENDS MiddleStack, FiniteSetTheorems, SequenceTheorems, TLAPS

Records(h) == \A n \in DOMAIN h : h[n] \in [data : Data, prev : Links, next : Links]

(* s is the list that hd leads to in h: its nodes are all that is          *)
(* allocated, each once, and lead to one another.                          *)
Linked(h, hd, s) ==
  /\ s \in Seq(Nodes)
  /\ hd \in Links
  /\ \A i, j \in 1 .. Len(s) : s[i] = s[j] => i = j
  /\ DOMAIN h = {s[i] : i \in 1 .. Len(s)}
  /\ Records(h)
  /\ \A i \in 1 .. Len(s) :
       /\ h[s[i]].next = IF i < Len(s) THEN s[i + 1] ELSE IF kind = "scll" THEN hd ELSE NULL
       /\ kind = "dll" => h[s[i]].prev = IF i = 1 THEN NULL ELSE s[i - 1]
  /\ IF Len(s) = 0 THEN hd = NULL \/ kind = "dll" ELSE hd = s[1]

-----------------------------------------------------------------------------
(* Ways along a list.                                                      *)

LEMMA LeastNatural ==
  ASSUME NEW S \in SUBSET Nat, S # {}
  PROVE  \E m \in S : \A n \in S : m <= n
<1> DEFINE R == OpToRel(<, Nat)
<1>1. IsWellFoundedOn(R, Nat)
  BY NatLessThanWellFounded
<1>2. \A n, m \in Nat : n < m => <<n, m>> \in R
  BY DEF OpToRel
<1> HIDE DEF R
<1>3. PICK m \in S : \A n \in S : <<n, m>> \notin R
  BY <1>1, WFMin
<1>4. \A n \in S : m <= n
  <2> TAKE n \in S
  <2>1. n \in Nat /\ m \in Nat
    OBVIOUS
  <2>2. ~(n < m)
    BY <1>2, <1>3, <2>1
  <2> QED
    BY <2>1, <2>2
<1> QED
  BY <1>4

(* The way from n when room steps are left, rest being the way from where  *)
(* n leads to.                                                             *)
Onwards(h, n, room, rest) ==
  IF n \notin DOMAIN h THEN <<>>
  ELSE IF room = 0 \/ h[n].next \in {NULL, head} THEN <<n>>
  ELSE <<n>> \o rest

Ways(h, steps, f) ==
  f = [w \in Links \X (0 .. steps) |->
         Onwards(h, w[1], w[2], f[<<h[w[1]].next, w[2] - 1>>])]

LEMMA WayChosen ==
  ASSUME NEW h, NEW steps
  PROVE  Way(h, steps) = (CHOOSE f : Ways(h, steps, f))[<<head, steps>>]
BY DEF Way, Ways, Onwards

(* The part of the list from its j-th node on, after room steps.           *)
Stretch(s, j, room) ==
  [k \in 1 .. (IF room < Len(s) - j THEN room + 1 ELSE Len(s) - j + 1) |-> s[j + k - 1]]

Place(s, n) == CHOOSE j \in 1 .. Len(s) : s[j] = n

LEMMA PlaceOf ==
  ASSUME NEW h, NEW s, Linked(h, head, s), NEW j \in 1 .. Len(s)
  PROVE  Place(s, s[j]) = j
BY DEF Place, Linked

LEMMA StretchSeq ==
  ASSUME NEW s \in Seq(Nodes), NEW j \in 1 .. Len(s), NEW room \in Nat
  PROVE  /\ Stretch(s, j, room) \in Seq(Nodes)
         /\ Len(Stretch(s, j, room)) = IF room < Len(s) - j THEN room + 1 ELSE Len(s) - j + 1
         /\ \A k \in 1 .. Len(Stretch(s, j, room)) : Stretch(s, j, room)[k] = s[j + k - 1]
<1> DEFINE l == IF room < Len(s) - j THEN room + 1 ELSE Len(s) - j + 1
<1>1. l \in Nat /\ \A k \in 1 .. l : j + k - 1 \in 1 .. Len(s)
  OBVIOUS
<1>2. \A k \in 1 .. l : s[j + k - 1] \in Nodes
  BY <1>1
<1> HIDE DEF l
<1> QED
  BY <1>1, <1>2 DEF Stretch, l

LEMMA StretchOnwards ==
  ASSUME NEW h, NEW s, Linked(h, head, s), NEW j \in 1 .. Len(s), NEW room \in Nat
  PROVE  Stretch(s, j, room) =
           Onwards(h, s[j], room, Stretch(s, Place(s, h[s[j]].next), room - 1))
<1>1. s \in Seq(Nodes) /\ Len(s) \in Nat
  BY DEF Linked
<1>2. s[j] \in DOMAIN h /\ s[j] \in Nodes
  BY <1>1 DEF Linked
<1>3. CASE room = 0 \/ j = Len(s)
  <2>1. room = 0 \/ h[s[j]].next \in {NULL, head}
    BY <1>1, <1>3 DEF Linked
  <2>2. Stretch(s, j, room) = <<s[j]>>
    <3>1. (IF room < Len(s) - j THEN room + 1 ELSE Len(s) - j + 1) = 1
      BY <1>1, <1>3
    <3> QED
      BY <1>1, <1>2, <3>1 DEF Stretch
  <2> QED
    BY <1>2, <2>1, <2>2 DEF Onwards
<1>4. CASE room # 0 /\ j # Len(s)
  <2>1. j + 1 \in 1 .. Len(s) /\ h[s[j]].next = s[j + 1] /\ room - 1 \in Nat
    BY <1>1, <1>4 DEF Linked
  <2>2. s[j + 1] # NULL /\ s[j + 1] # head
    <3>1. s[j + 1] \in Nodes /\ head = s[1] /\ j + 1 # 1 /\ 1 \in 1 .. Len(s)
      BY <1>1, <2>1 DEF Linked
    <3> QED
      BY <2>1, <3>1, ListsAssumption DEF Linked
  <2>3. Place(s, h[s[j]].next) = j + 1
    BY <2>1, PlaceOf
  <2> DEFINE rest == Stretch(s, j + 1, room - 1)
             all == Stretch(s, j, room)
             one == <<s[j]>>
  <2>4. /\ rest \in Seq(Nodes)
        /\ Len(rest) = IF room - 1 < Len(s) - (j + 1) THEN room ELSE Len(s) - j
        /\ \A k \in 1 .. Len(rest) : rest[k] = s[j + k]
    <3>1. /\ rest \in Seq(Nodes)
          /\ Len(rest) = IF room - 1 < Len(s) - (j + 1) THEN room - 1 + 1 ELSE Len(s) - (j + 1) + 1
          /\ \A k \in 1 .. Len(rest) : rest[k] = s[j + 1 + k - 1]
      BY <1>1, <2>1, StretchSeq
    <3> HIDE DEF rest
    <3>2. Len(rest) \in Nat /\ \A k \in 1 .. Len(rest) : j + 1 + k - 1 = j + k
      BY <3>1
    <3> QED
      BY <1>1, <2>1, <3>1, <3>2
  <2>5. /\ all \in Seq(Nodes)
        /\ Len(all) = IF room < Len(s) - j THEN room + 1 ELSE Len(s) - j + 1
        /\ \A k \in 1 .. Len(all) : all[k] = s[j + k - 1]
    BY <1>1, StretchSeq
  <2>6. one \in Seq(Nodes) /\ Len(one) = 1 /\ one[1] = s[j]
    BY <1>2
  <2> HIDE DEF rest, all, one
  <2>7. /\ one \o rest \in Seq(Nodes)
        /\ Len(one \o rest) = 1 + Len(rest)
        /\ \A k \in 1 .. 1 + Len(rest) : (one \o rest)[k] = IF k <= 1 THEN one[k] ELSE rest[k - 1]
    <3>1. /\ one \o rest \in Seq(Nodes)
          /\ Len(one \o rest) = Len(one) + Len(rest)
          /\ \A k \in 1 .. Len(one) + Len(rest) :
               (one \o rest)[k] = IF k <= Len(one) THEN one[k] ELSE rest[k - Len(one)]
      BY <2>4, <2>6, ConcatProperties
    <3> QED
      BY <2>6, <3>1
  <2>8. Len(all) = Len(one \o rest)
    BY <1>1, <2>1, <2>4, <2>5, <2>7
  <2>9. ASSUME NEW k \in 1 .. Len(all) PROVE all[k] = (one \o rest)[k]
    <3>1. CASE k = 1
      BY <1>1, <2>5, <2>6, <2>7, <2>8, <3>1
    <3>2. CASE k # 1
      <4>1. k - 1 \in 1 .. Len(rest) /\ k \in Nat /\ ~(k <= 1)
        BY <2>4, <2>7, <2>8, <3>2
      <4>2. rest[k - 1] = s[j + (k - 1)] /\ j + (k - 1) = j + k - 1
        BY <2>4, <4>1
      <4> QED
        BY <2>5, <2>7, <2>8, <4>1, <4>2
    <3> QED
      BY <3>1, <3>2
  <2>10. all = one \o rest
    BY <2>5, <2>7, <2>8, <2>9, SeqEqual
  <2> QED
    BY <1>2, <1>4, <2>1, <2>2, <2>3, <2>10 DEF Onwards, all, one, rest
<1> QED
  BY <1>3, <1>4

LEMMA WaysExist ==
  ASSUME NEW h, NEW s, Linked(h, head, s), NEW steps \in Nat
  PROVE  Ways(h, steps, [w \in Links \X (0 .. steps) |->
                           IF w[1] \in DOMAIN h THEN Stretch(s, Place(s, w[1]), w[2]) ELSE <<>>])
<1> DEFINE f == [w \in Links \X (0 .. steps) |->
                   IF w[1] \in DOMAIN h THEN Stretch(s, Place(s, w[1]), w[2]) ELSE <<>>]
           e == [w \in Links \X (0 .. steps) |->
                   Onwards(h, w[1], w[2], f[<<h[w[1]].next, w[2] - 1>>])]
<1>1. ASSUME NEW n \in Links, NEW room \in 0 .. steps
      PROVE  f[<<n, room>>] = Onwards(h, n, room, f[<<h[n].next, room - 1>>])
  <2>1. CASE n \notin DOMAIN h
    BY <2>1 DEF Onwards
  <2>2. CASE n \in DOMAIN h
    <3>1. PICK j \in 1 .. Len(s) : n = s[j]
      BY <2>2 DEF Linked
    <3>2. f[<<n, room>>] = Stretch(s, j, room)
      BY <2>2, <3>1, PlaceOf
    <3>3. Stretch(s, j, room) = Onwards(h, n, room, Stretch(s, Place(s, h[n].next), room - 1))
      BY <3>1, StretchOnwards
    <3>4. CASE room = 0 \/ h[n].next \in {NULL, head}
      BY <3>2, <3>3, <3>4 DEF Onwards
    <3>5. CASE ~(room = 0 \/ h[n].next \in {NULL, head})
      <4>1. h[n].next \in Links /\ h[n].next \in DOMAIN h
        <5>1. j # Len(s) /\ Len(s) \in Nat
          BY <3>1, <3>5 DEF Linked
        <5>2. j + 1 \in 1 .. Len(s) /\ h[n].next = s[j + 1]
          BY <3>1, <5>1 DEF Linked
        <5> QED
          BY <5>2 DEF Linked, Links
      <4>2. room - 1 \in 0 .. steps
        BY <3>5
      <4>3. f[<<h[n].next, room - 1>>] = Stretch(s, Place(s, h[n].next), room - 1)
        BY <4>1, <4>2
      <4> QED
        BY <3>2, <3>3, <4>3
    <3> QED
      BY <3>4, <3>5
  <2> QED
    BY <2>1, <2>2
<1>2. \A w \in Links \X (0 .. steps) : f[w] = e[w]
  <2>1. \A n \in Links, room \in 0 .. steps :
          e[<<n, room>>] = Onwards(h, n, room, f[<<h[n].next, room - 1>>])
    <3> HIDE DEF f
    <3> QED
      OBVIOUS
  <2> HIDE DEF f, e
  <2>2. \A n \in Links, room \in 0 .. steps : f[<<n, room>>] = e[<<n, room>>]
    BY <1>1, <2>1
  <2> QED
    BY <2>2
<1>3. f = [w \in Links \X (0 .. steps) |-> f[w]]
  OBVIOUS
<1>4. e = [w \in Links \X (0 .. steps) |-> e[w]]
  OBVIOUS
<1> HIDE DEF f
<1>5. f = e
  <2> HIDE DEF e
  <2> QED
    BY <1>2, <1>3, <1>4
<1> QED
  BY <1>5 DEF Ways, f

LEMMA WaysAgree ==
  ASSUME NEW h, NEW steps \in Nat, NEW f, NEW g, Ways(h, steps, f), Ways(h, steps, g),
         \A n \in DOMAIN h : h[n].next \in Links, head \in Links
  PROVE  f[<<head, steps>>] = g[<<head, steps>>]
<1> DEFINE S == {room \in 0 .. steps : \E n \in Links : f[<<n, room>>] # g[<<n, room>>]}
<1>1. ASSUME NEW n \in Links, NEW room \in 0 .. steps
      PROVE  /\ f[<<n, room>>] = Onwards(h, n, room, f[<<h[n].next, room - 1>>])
             /\ g[<<n, room>>] = Onwards(h, n, room, g[<<h[n].next, room - 1>>])
  <2> DEFINE F == [w \in Links \X (0 .. steps) |->
                     Onwards(h, w[1], w[2], f[<<h[w[1]].next, w[2] - 1>>])]
             G == [w \in Links \X (0 .. steps) |->
                     Onwards(h, w[1], w[2], g[<<h[w[1]].next, w[2] - 1>>])]
  <2>1. f = F /\ g = G
    BY DEF Ways
  <2>2. F[<<n, room>>] = Onwards(h, n, room, f[<<h[n].next, room - 1>>])
    OBVIOUS
  <2>3. G[<<n, room>>] = Onwards(h, n, room, g[<<h[n].next, room - 1>>])
    OBVIOUS
  <2> HIDE DEF F, G
  <2> QED
    BY <2>1, <2>2, <2>3
<1>2. S = {}
  <2> SUFFICES ASSUME S # {} PROVE FALSE
    OBVIOUS
  <2>1. PICK m \in S : \A r \in S : m <= r
    <3>1. S \in SUBSET Nat
      OBVIOUS
    <3> HIDE DEF S
    <3> QED
      BY <3>1, LeastNatural
  <2>2. PICK n \in Links : f[<<n, m>>] # g[<<n, m>>]
    BY <2>1
  <2>3. m \in 0 .. steps
    BY <2>1
  <2>4. m # 0 /\ n \in DOMAIN h
    BY <1>1, <2>2, <2>3 DEF Onwards
  <2>5. m - 1 \in 0 .. steps /\ h[n].next \in Links /\ m - 1 \notin S
    BY <2>1, <2>3, <2>4
  <2>6. f[<<h[n].next, m - 1>>] = g[<<h[n].next, m - 1>>]
    BY <2>5
  <2> QED
    BY <1>1, <2>2, <2>3, <2>6
<1>3. steps \in 0 .. steps
  OBVIOUS
<1> QED
  BY <1>2, <1>3

(* A walk of so many steps passes so many nodes more than one, or all.     *)
LEMMA WayPasses ==
  ASSUME NEW h, NEW s, Linked(h, head, s), NEW steps \in Nat
  PROVE  Way(h, steps) = IF Len(s) = 0 THEN <<>> ELSE Stretch(s, 1, steps)
<1> DEFINE f == [w \in Links \X (0 .. steps) |->
                   IF w[1] \in DOMAIN h THEN Stretch(s, Place(s, w[1]), w[2]) ELSE <<>>]
           g == CHOOSE x : Ways(h, steps, x)
<1>1. Ways(h, steps, f)
  BY WaysExist
<1>2. f[<<head, steps>>] = IF Len(s) = 0 THEN <<>> ELSE Stretch(s, 1, steps)
  <2>1. head \in Links /\ steps \in 0 .. steps /\ Len(s) \in Nat
    BY DEF Linked
  <2>2. f[<<head, steps>>] = IF head \in DOMAIN h THEN Stretch(s, Place(s, head), steps) ELSE <<>>
    BY <2>1
  <2>3. CASE Len(s) = 0
    BY <2>2, <2>3 DEF Linked
  <2>4. CASE Len(s) # 0
    <3>1. 1 \in 1 .. Len(s) /\ head = s[1]
      BY <2>1, <2>4 DEF Linked
    <3> QED
      BY <2>2, <2>4, <3>1, PlaceOf DEF Linked
  <2> QED
    BY <2>3, <2>4
<1>3. \A n \in DOMAIN h : h[n].next \in Links
  BY DEF Linked, Records
<1>4. head \in Links
  BY DEF Linked
<1> HIDE DEF f
<1>5. Ways(h, steps, g)
  BY <1>1
<1> HIDE DEF g
<1>6. f[<<head, steps>>] = g[<<head, steps>>]
  BY <1>1, <1>3, <1>4, <1>5, WaysAgree
<1>7. Way(h, steps) = g[<<head, steps>>]
  BY WayChosen DEF g
<1> QED
  BY <1>2, <1>6, <1>7

LEMMA Counted ==
  ASSUME NEW h, NEW hd, NEW s, Linked(h, hd, s)
  PROVE  Cardinality(DOMAIN h) = Len(s) /\ Len(s) \in Nat
<1>1. Len(s) \in Nat
  BY DEF Linked
<1>2. IsFiniteSet(1 .. Len(s)) /\ Cardinality(1 .. Len(s)) = Len(s)
  BY <1>1, FS_Interval
<1>3. ExistsBijection(1 .. Len(s), DOMAIN h)
  <2> DEFINE f == [i \in 1 .. Len(s) |-> s[i]]
  <2>1. f \in [1 .. Len(s) -> DOMAIN h]
    BY DEF Linked
  <2>2. \A i, j \in 1 .. Len(s) : f[i] = f[j] => i = j
    BY DEF Linked
  <2>3. \A m \in DOMAIN h : \E i \in 1 .. Len(s) : f[i] = m
    BY DEF Linked
  <2> HIDE DEF f
  <2>4. f \in Bijection(1 .. Len(s), DOMAIN h)
    BY <2>1, <2>2, <2>3 DEF Bijection, Injection, Surjection, IsInjective
  <2> QED
    BY <2>4 DEF ExistsBijection
<1> QED
  BY <1>1, <1>2, <1>3, FS_Bijection

(* The walk to the end passes all nodes.                                   *)
LEMMA AllPassed ==
  ASSUME NEW h, NEW s, Linked(h, head, s)
  PROVE  All(h) = s
<1>1. Cardinality(DOMAIN h) = Len(s) /\ Len(s) \in Nat /\ s \in Seq(Nodes)
  BY Counted DEF Linked
<1>2. CASE Len(s) = 0
  <2>1. s = <<>>
    BY <1>1, <1>2, EmptySeq
  <2> QED
    BY <1>1, <1>2, <2>1, WayPasses DEF All
<1>3. CASE Len(s) # 0
  <2>1. All(h) = Stretch(s, 1, Len(s))
    BY <1>1, <1>3, WayPasses DEF All
  <2>2. /\ Stretch(s, 1, Len(s)) \in Seq(Nodes)
        /\ Len(Stretch(s, 1, Len(s))) = Len(s) - 1 + 1
        /\ \A k \in 1 .. Len(Stretch(s, 1, Len(s))) : Stretch(s, 1, Len(s))[k] = s[1 + k - 1]
    BY <1>1, <1>3, StretchSeq
  <2>3. Stretch(s, 1, Len(s)) = s
    BY <1>1, <2>2, SeqEqual
  <2> QED
    BY <2>1, <2>3
<1> QED
  BY <1>2, <1>3

LEMMA AllPassedNext ==
  (\A s : Linked(heap, head, s) => All(heap) = s)'
<1>1. \A s : Linked(heap, head, s) => All(heap) = s
  BY AllPassed
<1> QED
  BY <1>1, PTL

(* Where a walk to a position ends.                                        *)
Reached(s, position) ==
  LET least == IF kind = "sll" THEN 0 ELSE 1
      steps == IF position - 1 > least THEN position - 1 ELSE least
  IN  IF steps < Len(s) - 1 THEN steps + 1 ELSE Len(s)

LEMMA WayReaches ==
  ASSUME NEW h, NEW s, Linked(h, head, s), Len(s) # 0, NEW position \in Int
  PROVE  /\ Reached(s, position) \in 1 .. Len(s)
         /\ Len(WayTo(h, position)) = Reached(s, position)
         /\ \A k \in 1 .. Reached(s, position) : WayTo(h, position)[k] = s[k]
         /\ Last(WayTo(h, position)) = s[Reached(s, position)]
<1>1. Len(s) \in Nat /\ s \in Seq(Nodes) /\ 1 \in 1 .. Len(s)
  BY DEF Linked
<1> DEFINE least == IF kind = "sll" THEN 0 ELSE 1
           steps == IF position - 1 > least THEN position - 1 ELSE least
<1>2. steps \in Nat
  OBVIOUS
<1>3. WayTo(h, position) = Way(h, steps)
  BY DEF WayTo
<1> HIDE DEF steps
<1>4. WayTo(h, position) = Stretch(s, 1, steps)
  BY <1>2, <1>3, WayPasses
<1>5. Reached(s, position) = IF steps < Len(s) - 1 THEN steps + 1 ELSE Len(s) - 1 + 1
  BY <1>1 DEF Reached, steps
<1>6. /\ Len(Stretch(s, 1, steps)) = Reached(s, position)
      /\ \A k \in 1 .. Len(Stretch(s, 1, steps)) : Stretch(s, 1, steps)[k] = s[1 + k - 1]
  BY <1>1, <1>2, <1>5, StretchSeq
<1>7. Reached(s, position) \in 1 .. Len(s)
  BY <1>1, <1>2, <1>5
<1> QED
  BY <1>1, <1>4, <1>6, <1>7 DEF Last

-----------------------------------------------------------------------------
(* What the assignments do to the fields of the nodes.                     *)

(* g is h but for the next pointer of n, or, in a dll, its prev pointer.   *)
OtherNext(g, h, n, x) ==
  /\ DOMAIN g = DOMAIN h
  /\ Records(g)
  /\ \A m \in DOMAIN h : /\ g[m].data = h[m].data
                         /\ g[m].prev = h[m].prev
                         /\ g[m].next = IF m = n THEN x ELSE h[m].next

OtherPrev(g, h, n, x) ==
  /\ DOMAIN g = DOMAIN h
  /\ Records(g)
  /\ \A m \in DOMAIN h : /\ g[m].data = h[m].data
                         /\ g[m].next = h[m].next
                         /\ g[m].prev = IF kind = "dll" /\ n # NULL /\ m = n THEN x ELSE h[m].prev

LEMMA SetNext ==
  ASSUME NEW h, Records(h), NEW n \in DOMAIN h, NEW x \in Links
  PROVE  OtherNext([h EXCEPT ![n].next = x], h, n, x)
BY DEF Records, OtherNext

LEMMA SetPrev ==
  ASSUME NEW h, Records(h), NEW n, n # NULL => n \in DOMAIN h, NEW x \in Links
  PROVE  OtherPrev(WithPrev(h, n, x), h, n, x)
<1>1. CASE kind = "dll" /\ n # NULL
  <2>1. WithPrev(h, n, x) = [h EXCEPT ![n].prev = x]
    BY <1>1 DEF WithPrev
  <2> QED
    BY <1>1, <2>1 DEF Records, OtherPrev
<1>2. CASE ~(kind = "dll" /\ n # NULL)
  BY <1>2 DEF WithPrev, OtherPrev
<1> QED
  BY <1>1, <1>2

LEMMA Allocating ==
  ASSUME Records(heap), NEW n \in Nodes \ DOMAIN heap, NEW d \in Data
  PROVE  /\ DOMAIN Allocated(n, d) = DOMAIN heap \cup {n}
         /\ Records(Allocated(n, d))
         /\ \A m \in DOMAIN heap : Allocated(n, d)[m] = heap[m]
         /\ Allocated(n, d)[n].data = d
         /\ Allocated(n, d)[n].prev = NULL
         /\ Allocated(n, d)[n].next = IF kind = "scll" THEN n ELSE NULL
BY DEF Allocated, Records, Links

(* g is h without n.                                                       *)
Fewer(g, h, n) ==
  /\ DOMAIN g = DOMAIN h \ {n}
  /\ Records(g)
  /\ \A m \in DOMAIN h \ {n} : g[m] = h[m]

LEMMA Freeing ==
  ASSUME NEW h, Records(h), NEW n
  PROVE  Fewer(Without(h, n), h, n)
BY DEF Without, Records, Fewer

-----------------------------------------------------------------------------
(* Insertion.                                                              *)

Inserted(s, p, n) ==
  [i \in 1 .. Len(s) + 1 |-> IF i <= p THEN s[i] ELSE IF i = p + 1 THEN n ELSE s[i - 1]]

LEMMA InsertedSeq ==
  ASSUME NEW s \in Seq(Nodes), NEW p \in 0 .. Len(s), NEW n \in Nodes
  PROVE  /\ Inserted(s, p, n) \in Seq(Nodes)
         /\ Len(Inserted(s, p, n)) = Len(s) + 1
         /\ \A i \in 1 .. p : Inserted(s, p, n)[i] = s[i]
         /\ Inserted(s, p, n)[p + 1] = n
         /\ \A i \in p + 1 .. Len(s) : Inserted(s, p, n)[i + 1] = s[i]
<1>1. Len(s) \in Nat /\ Len(s) + 1 \in Nat
  OBVIOUS
<1>2. ASSUME NEW i \in 1 .. Len(s) + 1
      PROVE  (IF i <= p THEN s[i] ELSE IF i = p + 1 THEN n ELSE s[i - 1]) \in Nodes
  BY <1>1, ElementOfSeq
<1>3. Inserted(s, p, n) \in Seq(Nodes) /\ Len(Inserted(s, p, n)) = Len(s) + 1
  BY <1>1, <1>2 DEF Inserted
<1>4. \A i \in 1 .. Len(s) + 1 : Inserted(s, p, n)[i] =
        IF i <= p THEN s[i] ELSE IF i = p + 1 THEN n ELSE s[i - 1]
  BY DEF Inserted
<1>5. \A i \in p + 1 .. Len(s) : Inserted(s, p, n)[i + 1] = s[i]
  <2> TAKE i \in p + 1 .. Len(s)
  <2>1. i + 1 \in 1 .. Len(s) + 1 /\ ~(i + 1 <= p) /\ i + 1 # p + 1 /\ i + 1 - 1 = i
    BY <1>1
  <2> QED
    BY <1>4, <2>1
<1>6. p + 1 \in 1 .. Len(s) + 1 /\ ~(p + 1 <= p)
  BY <1>1
<1>7. \A i \in 1 .. p : i \in 1 .. Len(s) + 1 /\ i <= p
  BY <1>1
<1> QED
  BY <1>3, <1>4, <1>5, <1>6, <1>7

(* The positions of a list with a node more: those in front of the node,   *)
(* its own, and those behind it.                                           *)
LEMMA InsertedPositions ==
  ASSUME NEW l \in Nat, NEW p \in 0 .. l, NEW i \in 1 .. l + 1
  PROVE  i \in 1 .. p \/ i = p + 1 \/ \E k \in p + 1 .. l : i = k + 1
<1>1. i \in 1 .. p \/ i = p + 1 \/ i - 1 \in p + 1 .. l
  OBVIOUS
<1>2. i = (i - 1) + 1
  OBVIOUS
<1> QED
  BY <1>1, <1>2

(* What remains to be shown of a heap with a node more are the links that  *)
(* the node has, and those of its neighbours.                              *)
LEMMA InsertedLinks ==
  ASSUME NEW s, Linked(heap, head, s), NEW p \in 0 .. Len(s), NEW n \in Nodes \ DOMAIN heap,
         kind' = kind,
         Records(heap)', DOMAIN heap' = DOMAIN heap \cup {n},
         head' = IF p = 0 THEN n ELSE head,
         heap'[n].next = IF p < Len(s) THEN s[p + 1] ELSE IF kind = "scll" THEN head' ELSE NULL,
         p > 0 => heap'[s[p]].next = n,
         \A i \in 1 .. Len(s) :
           i # p /\ (i = Len(s) /\ kind = "scll" => p # 0) => heap'[s[i]].next = heap[s[i]].next,
         kind = "scll" /\ p = 0 /\ Len(s) # 0 => heap'[s[Len(s)]].next = n,
         kind = "dll" =>
           /\ heap'[n].prev = IF p = 0 THEN NULL ELSE s[p]
           /\ p < Len(s) => heap'[s[p + 1]].prev = n
           /\ \A i \in 1 .. Len(s) : i # p + 1 => heap'[s[i]].prev = heap[s[i]].prev
  PROVE  Linked(heap', head', Inserted(s, p, n))
<1> DEFINE t == Inserted(s, p, n)
<1>1. s \in Seq(Nodes) /\ Len(s) \in Nat
  BY DEF Linked
<1>2. /\ t \in Seq(Nodes)
      /\ Len(t) = Len(s) + 1
      /\ \A i \in 1 .. p : t[i] = s[i]
      /\ t[p + 1] = n
      /\ \A i \in p + 1 .. Len(s) : t[i + 1] = s[i]
  <2>1. n \in Nodes
    OBVIOUS
  <2> QED
    BY <1>1, <2>1, InsertedSeq
<1> HIDE DEF t
<1>3. \A i \in 1 .. Len(s) : s[i] # n /\ s[i] \in DOMAIN heap
  BY DEF Linked
<1>4. ASSUME NEW i \in 1 .. Len(t), NEW j \in 1 .. Len(t), t[i] = t[j] PROVE i = j
  <2>1. i \in 1 .. p \/ i = p + 1 \/ \E k \in p + 1 .. Len(s) : i = k + 1
    BY <1>1, <1>2, InsertedPositions
  <2>2. j \in 1 .. p \/ j = p + 1 \/ \E k \in p + 1 .. Len(s) : j = k + 1
    BY <1>1, <1>2, InsertedPositions
  <2>3. \A a, b \in 1 .. Len(s) : s[a] = s[b] => a = b
    BY DEF Linked
  <2>4. 1 .. p \subseteq 1 .. Len(s) /\ p + 1 .. Len(s) \subseteq 1 .. Len(s)
    BY <1>1
  <2>5. ASSUME NEW a \in 1 .. p, NEW b \in p + 1 .. Len(s) PROVE s[a] # s[b]
    BY <1>1, <2>3, <2>4
  <2> QED
    BY <1>2, <1>3, <1>4, <2>1, <2>2, <2>3, <2>4, <2>5
<1>5. DOMAIN heap' = {t[i] : i \in 1 .. Len(t)}
  <2>1. ASSUME NEW m \in DOMAIN heap' PROVE \E i \in 1 .. Len(t) : t[i] = m
    <3>1. CASE m = n
      <4>1. p + 1 \in 1 .. Len(t)
        BY <1>1, <1>2
      <4> QED
        BY <1>2, <3>1, <4>1
    <3>2. CASE m # n
      <4>1. PICK i \in 1 .. Len(s) : s[i] = m
        BY <3>2 DEF Linked
      <4>2. CASE i <= p
        BY <1>1, <1>2, <4>1, <4>2
      <4>3. CASE ~(i <= p)
        <5>1. i \in p + 1 .. Len(s) /\ i + 1 \in 1 .. Len(t)
          BY <1>1, <1>2, <4>3
        <5> QED
          BY <1>2, <4>1, <5>1
      <4> QED
        BY <4>2, <4>3
    <3> QED
      BY <3>1, <3>2
  <2>2. ASSUME NEW i \in 1 .. Len(t) PROVE t[i] \in DOMAIN heap'
    <3>1. i \in 1 .. p \/ i = p + 1 \/ \E k \in p + 1 .. Len(s) : i = k + 1
      BY <1>1, <1>2, InsertedPositions
    <3>2. 1 .. p \subseteq 1 .. Len(s) /\ p + 1 .. Len(s) \subseteq 1 .. Len(s)
      BY <1>1
    <3> QED
      BY <1>2, <1>3, <3>1, <3>2
  <2> QED
    BY <2>1, <2>2
<1>6. \A i \in 1 .. Len(s) :
        heap[s[i]].next = IF i < Len(s) THEN s[i + 1] ELSE IF kind = "scll" THEN head ELSE NULL
  BY DEF Linked
<1>7. \A i \in 1 .. Len(s) : kind = "dll" => heap[s[i]].prev = IF i = 1 THEN NULL ELSE s[i - 1]
  BY DEF Linked
<1>8. ASSUME NEW i \in 1 .. Len(t)
      PROVE  heap'[t[i]].next = IF i < Len(t) THEN t[i + 1] ELSE IF kind = "scll" THEN head' ELSE NULL
  <2>1. CASE i < p
    <3>1. i \in 1 .. p /\ i + 1 \in 1 .. p /\ i \in 1 .. Len(s) /\ i < Len(s) /\ i < Len(t) /\ i # p /\ p # 0
      BY <1>1, <1>2, <2>1
    <3>2. t[i] = s[i] /\ t[i + 1] = s[i + 1] /\ heap'[s[i]].next = heap[s[i]].next
      BY <1>2, <3>1
    <3> QED
      BY <1>6, <3>1, <3>2
  <2>2. CASE i = p
    <3>1. i \in 1 .. p /\ i < Len(t) /\ p > 0
      BY <1>1, <1>2, <2>2
    <3> QED
      BY <1>2, <2>2, <3>1
  <2>3. CASE i = p + 1
    <3>1. CASE p < Len(s)
      <4>1. p + 1 \in p + 1 .. Len(s) /\ i < Len(t)
        BY <1>1, <1>2, <2>3, <3>1
      <4> QED
        BY <1>2, <2>3, <3>1, <4>1
    <3>2. CASE ~(p < Len(s))
      <4>1. ~(i < Len(t))
        BY <1>1, <1>2, <2>3, <3>2
      <4> QED
        BY <1>2, <2>3, <3>2, <4>1
    <3> QED
      BY <3>1, <3>2
  <2>4. CASE i > p + 1
    <3>1. PICK k \in p + 1 .. Len(s) : i = k + 1
      BY <1>1, <1>2, <2>4, InsertedPositions
    <3>2. k \in 1 .. Len(s) /\ k # p /\ t[i] = s[k]
      BY <1>1, <1>2, <3>1
    <3>3. CASE k < Len(s)
      <4>1. k + 1 \in p + 1 .. Len(s) /\ i < Len(t) /\ k # Len(s)
        BY <1>1, <1>2, <3>1, <3>3
      <4>2. t[i + 1] = s[k + 1] /\ heap'[s[k]].next = heap[s[k]].next
        BY <1>2, <3>1, <3>2, <4>1
      <4> QED
        BY <1>6, <3>2, <3>3, <4>1, <4>2
    <3>4. CASE k = Len(s)
      <4>1. ~(i < Len(t)) /\ Len(s) # 0 /\ ~(k < Len(s))
        BY <1>1, <1>2, <3>1, <3>4
      <4>2. CASE kind = "scll" /\ p = 0
        BY <3>2, <3>4, <4>1, <4>2
      <4>3. CASE ~(kind = "scll" /\ p = 0)
        BY <1>6, <3>2, <3>4, <4>1, <4>3
      <4> QED
        BY <4>2, <4>3
    <3> QED
      BY <1>1, <3>1, <3>3, <3>4
  <2> QED
    BY <1>1, <1>2, <2>1, <2>2, <2>3, <2>4
<1>9. ASSUME NEW i \in 1 .. Len(t), kind = "dll"
      PROVE  heap'[t[i]].prev = IF i = 1 THEN NULL ELSE t[i - 1]
  <2>1. CASE i \in 1 .. p
    <3>1. i \in 1 .. Len(s) /\ i # p + 1 /\ (i # 1 => i - 1 \in 1 .. p)
      BY <1>1, <2>1
    <3>2. t[i] = s[i] /\ heap'[s[i]].prev = heap[s[i]].prev /\ (i # 1 => t[i - 1] = s[i - 1])
      BY <1>2, <1>9, <2>1, <3>1
    <3> QED
      BY <1>7, <1>9, <3>1, <3>2
  <2>2. CASE i = p + 1
    <3>1. (i = 1 <=> p = 0) /\ (p # 0 => p \in 1 .. p) /\ i - 1 = p
      BY <1>1, <2>2
    <3> QED
      BY <1>2, <1>9, <2>2, <3>1
  <2>3. ASSUME NEW k \in p + 1 .. Len(s), i = k + 1
        PROVE  heap'[t[i]].prev = IF i = 1 THEN NULL ELSE t[i - 1]
    <3>1. k \in 1 .. Len(s) /\ i # 1 /\ i - 1 = k /\ t[i] = s[k]
      BY <1>1, <1>2, <2>3
    <3>2. CASE k = p + 1
      <4>1. p < Len(s)
        BY <1>1, <2>3, <3>2
      <4> QED
        BY <1>2, <1>9, <3>1, <3>2, <4>1
    <3>3. CASE k # p + 1
      <4>1. k - 1 \in p + 1 .. Len(s) /\ (k - 1) + 1 = k /\ k # 1
        BY <1>1, <3>3
      <4>2. t[k] = s[k - 1]
        BY <1>2, <4>1
      <4> QED
        BY <1>7, <1>9, <3>1, <3>3, <4>1, <4>2
    <3> QED
      BY <3>2, <3>3
  <2>4. i \in 1 .. p \/ i = p + 1 \/ \E k \in p + 1 .. Len(s) : i = k + 1
    BY <1>1, <1>2, InsertedPositions
  <2> QED
    BY <2>1, <2>2, <2>3, <2>4
<1>10. Len(t) # 0 /\ head' = t[1] /\ head' \in Links
  <2>1. CASE p = 0
    BY <1>1, <1>2, <2>1 DEF Links
  <2>2. CASE p # 0
    <3>1. 1 \in 1 .. p /\ Len(s) # 0
      BY <1>1, <2>2
    <3> QED
      BY <1>1, <1>2, <2>2, <3>1 DEF Linked
  <2> QED
    BY <2>1, <2>2
<1>11. Records(heap')
  BY DEF Records
<1> QED
  BY <1>2, <1>4, <1>5, <1>8, <1>9, <1>10, <1>11 DEF Linked, t

Adds(n, d) ==
  heap'[n].data = d /\ \A m \in DOMAIN heap : heap'[m].data = heap[m].data

LEMMA InsertAtHeadLinks ==
  ASSUME NEW s, Linked(heap, head, s), NEW n \in Free, NEW d \in Data,
         head \in DOMAIN heap \cup {NULL}, InsertAtHead(n, d), kind' = kind
  PROVE  Linked(heap', head', Inserted(s, 0, n)) /\ Adds(n, d)
<1> DEFINE h0 == Allocated(n, d)
<1>1. s \in Seq(Nodes) /\ Len(s) \in Nat /\ Records(heap) /\ DOMAIN heap \subseteq Nodes
  BY DEF Linked
<1>2. n \in Nodes \ DOMAIN heap /\ n # NULL
  BY ListsAssumption DEF Free
<1>3. /\ DOMAIN h0 = DOMAIN heap \cup {n} /\ Records(h0)
      /\ \A m \in DOMAIN heap : h0[m] = heap[m]
      /\ h0[n].data = d /\ h0[n].prev = NULL /\ h0[n].next = IF kind = "scll" THEN n ELSE NULL
  BY <1>1, <1>2, Allocating
<1>4. CASE head = NULL
  <2>1. heap' = h0 /\ head' = n
    BY <1>4 DEF InsertAtHead
  <2>2. Len(s) = 0
    <3> SUFFICES ASSUME Len(s) # 0 PROVE FALSE
      OBVIOUS
    <3>1. 1 \in 1 .. Len(s) /\ head = s[1]
      BY <1>1 DEF Linked
    <3> QED
      BY <1>1, <1>4, <3>1, ListsAssumption
  <2>3. 0 \in 0 .. Len(s) /\ ~(0 < Len(s)) /\ ~(0 > 0)
    BY <2>2
  <2>4. Adds(n, d)
    BY <1>3, <2>1 DEF Adds
  <2> HIDE DEF h0
  <2>5. Linked(heap', head', Inserted(s, 0, n))
    BY <1>2, <1>3, <2>1, <2>2, <2>3, InsertedLinks DEF Records
  <2> QED
    BY <2>4, <2>5
<1>5. CASE head # NULL
  <2> DEFINE h1 == [h0 EXCEPT ![n].next = head]
             h2 == WithPrev(h1, head, n)
             h3 == [h2 EXCEPT ![s[Len(s)]].next = n]
  <2>1. Len(s) # 0 /\ head \in DOMAIN heap /\ head # n
    BY <1>2, <1>5 DEF Linked
  <2>2. /\ 1 \in 1 .. Len(s) /\ Len(s) \in 1 .. Len(s) /\ head = s[1]
        /\ 0 \in 0 .. Len(s) /\ 0 < Len(s)
    BY <1>1, <2>1 DEF Linked
  <2>3. \A i \in 1 .. Len(s) : s[i] \in DOMAIN heap /\ s[i] # n
    BY <1>2 DEF Linked
  <2>4. Last(All(heap)) = s[Len(s)]
    BY AllPassed DEF Last
  <2>5. heap' = (IF kind = "scll" THEN h3 ELSE h2) /\ head' = n
    BY <1>5, <2>4 DEF InsertAtHead
  <2> HIDE DEF h0
  <2>6. OtherNext(h1, h0, n, head)
    BY <1>1, <1>3, <2>1, SetNext DEF Links
  <2> HIDE DEF h1
  <2>7. OtherPrev(h2, h1, head, n)
    <3>1. Records(h1) /\ head \in DOMAIN h1 /\ n \in Links
      BY <1>2, <1>3, <2>1, <2>6 DEF Links, OtherNext
    <3> QED
      BY <3>1, SetPrev
  <2> HIDE DEF h2
  <2>8. OtherNext(h3, h2, s[Len(s)], n)
    <3>1. Records(h2) /\ s[Len(s)] \in DOMAIN h2 /\ n \in Links
      BY <1>2, <1>3, <2>2, <2>3, <2>6, <2>7 DEF Links, OtherNext, OtherPrev
    <3> QED
      BY <3>1, SetNext
  <2> HIDE DEF h3
  <2>9. /\ DOMAIN heap' = DOMAIN heap \cup {n} /\ Records(heap')
        /\ heap'[n].data = d /\ heap'[n].prev = NULL /\ heap'[n].next = head
        /\ \A m \in DOMAIN heap :
             /\ heap'[m].data = heap[m].data
             /\ heap'[m].prev = IF kind = "dll" /\ m = head THEN n ELSE heap[m].prev
             /\ heap'[m].next = IF kind = "scll" /\ m = s[Len(s)] THEN n ELSE heap[m].next
    BY <1>2, <1>3, <1>5, <2>1, <2>2, <2>3, <2>5, <2>6, <2>7, <2>8 DEF OtherNext, OtherPrev
  <2>10. \A i \in 1 .. Len(s) :
           /\ i # Len(s) => s[i] # s[Len(s)]
           /\ i # 1 => s[i] # head
    BY <2>2 DEF Linked
  <2>11. Records(heap)'
    BY <2>9 DEF Records
  <2>12. heap'[s[Len(s)]].next = n \/ kind # "scll"
    BY <2>2, <2>3, <2>9
  <2>13. \A i \in 1 .. Len(s) : i # 0 /\ (i = Len(s) /\ kind = "scll" => 0 # 0)
           => heap'[s[i]].next = heap[s[i]].next
    BY <2>3, <2>9, <2>10
  <2>14. kind = "dll" =>
           /\ heap'[n].prev = NULL
           /\ heap'[s[0 + 1]].prev = n
           /\ \A i \in 1 .. Len(s) : i # 0 + 1 => heap'[s[i]].prev = heap[s[i]].prev
    BY <2>2, <2>3, <2>9, <2>10
  <2>15. heap'[n].next = s[0 + 1] /\ ~(0 > 0)
    BY <2>2, <2>9
  <2>16. DOMAIN heap' = DOMAIN heap \cup {n}
    BY <2>9
  <2>17. Linked(heap', head', Inserted(s, 0, n))
    BY <1>2, <2>2, <2>5, <2>11, <2>12, <2>13, <2>14, <2>15, <2>16, InsertedLinks
  <2> QED
    BY <2>9, <2>17 DEF Adds
<1> QED
  BY <1>4, <1>5

LEMMA InsertBehindLinks ==
  ASSUME NEW s, Linked(heap, head, s), NEW n \in Free, NEW d \in Data, NEW p \in 1 .. Len(s),
         InsertBehind(n, d, s[p]), kind' = kind
  PROVE  Linked(heap', head', Inserted(s, p, n)) /\ Adds(n, d)
<1> DEFINE x == heap[s[p]].next
           h0 == Allocated(n, d)
           g == [h0 EXCEPT ![n].next = x]
           h1 == [g EXCEPT ![s[p]].next = n]
           h2 == WithPrev(h1, n, s[p])
           h3 == WithPrev(h2, x, n)
<1>1. s \in Seq(Nodes) /\ Len(s) \in Nat /\ Records(heap) /\ DOMAIN heap \subseteq Nodes
  BY DEF Linked
<1>2. n \in Nodes \ DOMAIN heap /\ n # NULL
  BY ListsAssumption DEF Free
<1>3. /\ DOMAIN h0 = DOMAIN heap \cup {n} /\ Records(h0)
      /\ \A m \in DOMAIN heap : h0[m] = heap[m]
      /\ h0[n].data = d /\ h0[n].prev = NULL
  BY <1>1, <1>2, Allocating
<1>4. \A i \in 1 .. Len(s) : s[i] \in DOMAIN heap /\ s[i] # n /\ s[i] # NULL
  BY <1>1, <1>2, ListsAssumption DEF Linked
<1>5. x = (IF p < Len(s) THEN s[p + 1] ELSE IF kind = "scll" THEN head ELSE NULL)
  BY DEF Linked
<1>6. x \in Links /\ (kind = "dll" /\ x # NULL => x \in DOMAIN heap) /\ (x # NULL => x \in DOMAIN heap)
  <2>1. CASE p < Len(s)
    <3>1. p + 1 \in 1 .. Len(s)
      BY <1>1, <2>1
    <3> QED
      BY <1>1, <1>4, <1>5, <2>1, <3>1 DEF Links
  <2>2. CASE ~(p < Len(s))
    <3>1. 1 \in 1 .. Len(s) /\ head = s[1]
      BY <1>1 DEF Linked
    <3> QED
      BY <1>1, <1>4, <1>5, <2>2, <3>1 DEF Links
  <2> QED
    BY <2>1, <2>2
<1>7. heap' = h3 /\ head' = head
  BY DEF InsertBehind
<1> HIDE DEF h0, x
<1>8. OtherNext(g, h0, n, x)
  BY <1>3, <1>6, SetNext
<1> HIDE DEF g
<1>9. OtherNext(h1, g, s[p], n)
  <2>1. Records(g) /\ s[p] \in DOMAIN g /\ n \in Links
    BY <1>2, <1>3, <1>4, <1>8 DEF Links, OtherNext
  <2> QED
    BY <2>1, SetNext
<1> HIDE DEF h1
<1>10. s[p] \in Links /\ n \in Links
  BY <1>1, <1>2, <1>4 DEF Links
<1>11. OtherPrev(h2, h1, n, s[p])
  <2>1. Records(h1) /\ n \in DOMAIN h1
    BY <1>3, <1>8, <1>9 DEF OtherNext
  <2> QED
    BY <1>10, <2>1, SetPrev
<1> HIDE DEF h2
<1>12. OtherPrev(h3, h2, x, n)
  <2>1. Records(h2) /\ (x # NULL => x \in DOMAIN h2)
    BY <1>3, <1>6, <1>8, <1>9, <1>11 DEF OtherNext, OtherPrev
  <2> QED
    BY <1>10, <2>1, SetPrev
<1> HIDE DEF h3
<1>13. x # n
  BY <1>2, <1>6
<1>14. /\ DOMAIN heap' = DOMAIN heap \cup {n} /\ Records(heap')
       /\ heap'[n].data = d /\ heap'[n].next = x /\ (kind = "dll" => heap'[n].prev = s[p])
       /\ \A m \in DOMAIN heap :
            /\ heap'[m].data = heap[m].data
            /\ heap'[m].prev = IF kind = "dll" /\ x # NULL /\ m = x THEN n ELSE heap[m].prev
            /\ heap'[m].next = IF m = s[p] THEN n ELSE heap[m].next
  <2>1. /\ DOMAIN heap' = DOMAIN heap \cup {n} /\ Records(heap')
        /\ heap'[n].data = d /\ heap'[n].next = x /\ (kind = "dll" => heap'[n].prev = s[p])
    BY <1>2, <1>3, <1>4, <1>7, <1>8, <1>9, <1>11, <1>12, <1>13 DEF OtherNext, OtherPrev
  <2>2. ASSUME NEW m \in DOMAIN heap
        PROVE  /\ heap'[m].data = heap[m].data
               /\ heap'[m].prev = IF kind = "dll" /\ x # NULL /\ m = x THEN n ELSE heap[m].prev
               /\ heap'[m].next = IF m = s[p] THEN n ELSE heap[m].next
    BY <1>2, <1>3, <1>7, <1>8, <1>9, <1>11, <1>12 DEF OtherNext, OtherPrev
  <2> QED
    BY <2>1, <2>2
<1>15. \A i, j \in 1 .. Len(s) : s[i] = s[j] => i = j
  BY DEF Linked
<1>16. p \in 0 .. Len(s) /\ p > 0 /\ p # 0
  BY <1>1
<1>17. \A i \in 1 .. Len(s) : i # p => heap'[s[i]].next = heap[s[i]].next
  BY <1>4, <1>14, <1>15
<1>18. kind = "dll" =>
         /\ heap'[n].prev = s[p]
         /\ p < Len(s) => heap'[s[p + 1]].prev = n
         /\ \A i \in 1 .. Len(s) : i # p + 1 => heap'[s[i]].prev = heap[s[i]].prev
  <2> SUFFICES ASSUME kind = "dll"
               PROVE  /\ heap'[n].prev = s[p]
                      /\ p < Len(s) => heap'[s[p + 1]].prev = n
                      /\ \A i \in 1 .. Len(s) : i # p + 1 => heap'[s[i]].prev = heap[s[i]].prev
    OBVIOUS
  <2>1. heap'[n].prev = s[p]
    BY <1>14
  <2>2. ASSUME p < Len(s) PROVE heap'[s[p + 1]].prev = n
    <3>1. p + 1 \in 1 .. Len(s)
      BY <1>1, <2>2
    <3> QED
      BY <1>4, <1>5, <1>14, <2>2, <3>1
  <2>3. ASSUME NEW i \in 1 .. Len(s), i # p + 1 PROVE heap'[s[i]].prev = heap[s[i]].prev
    <3>1. ~(x # NULL /\ s[i] = x)
      <4>1. CASE p < Len(s)
        <5>1. p + 1 \in 1 .. Len(s)
          BY <1>1, <4>1
        <5> QED
          BY <1>5, <1>15, <2>3, <4>1, <5>1
      <4>2. CASE ~(p < Len(s))
        BY <1>5, <4>2
      <4> QED
        BY <4>1, <4>2
    <3> QED
      BY <1>4, <1>14, <3>1
  <2> QED
    BY <2>1, <2>2, <2>3
<1>19. Records(heap)' /\ DOMAIN heap' = DOMAIN heap \cup {n} /\ heap'[s[p]].next = n
  BY <1>4, <1>14 DEF Records
<1>20. heap'[n].next = IF p < Len(s) THEN s[p + 1] ELSE IF kind = "scll" THEN head' ELSE NULL
  BY <1>5, <1>7, <1>14
<1>21. head' = IF p = 0 THEN n ELSE head
  BY <1>7, <1>16
<1>22. Linked(heap', head', Inserted(s, p, n))
  BY <1>2, <1>16, <1>17, <1>18, <1>19, <1>20, <1>21, InsertedLinks
<1> QED
  BY <1>14, <1>22 DEF Adds

-----------------------------------------------------------------------------
(* Removal.                                                                *)

Deleted(s, p) == [i \in 1 .. Len(s) - 1 |-> IF i <= p THEN s[i] ELSE s[i + 1]]

LEMMA DeletedSeq ==
  ASSUME NEW s \in Seq(Nodes), Len(s) # 0, NEW p \in 0 .. Len(s) - 1
  PROVE  /\ Deleted(s, p) \in Seq(Nodes)
         /\ Len(Deleted(s, p)) = Len(s) - 1
         /\ \A i \in 1 .. p : Deleted(s, p)[i] = s[i]
         /\ \A i \in p + 1 .. Len(s) - 1 : Deleted(s, p)[i] = s[i + 1]
<1>1. Len(s) \in Nat /\ Len(s) - 1 \in Nat
  OBVIOUS
<1>2. ASSUME NEW i \in 1 .. Len(s) - 1
      PROVE  (IF i <= p THEN s[i] ELSE s[i + 1]) \in Nodes
  <2>1. i \in 1 .. Len(s) /\ i + 1 \in 1 .. Len(s)
    BY <1>1
  <2> QED
    BY <2>1, ElementOfSeq
<1>3. Deleted(s, p) \in Seq(Nodes) /\ Len(Deleted(s, p)) = Len(s) - 1
  BY <1>1, <1>2 DEF Deleted
<1>4. \A i \in 1 .. Len(s) - 1 : Deleted(s, p)[i] = IF i <= p THEN s[i] ELSE s[i + 1]
  BY DEF Deleted
<1>5. \A i \in 1 .. p : i \in 1 .. Len(s) - 1 /\ i <= p
  BY <1>1
<1>6. \A i \in p + 1 .. Len(s) - 1 : i \in 1 .. Len(s) - 1 /\ ~(i <= p)
  BY <1>1
<1> QED
  BY <1>3, <1>4, <1>5, <1>6

(* What remains to be shown of a heap with a node less are the links of    *)
(* its neighbours, and head.                                               *)
LEMMA DeletedLinks ==
  ASSUME NEW s, Linked(heap, head, s), Len(s) # 0, NEW p \in 0 .. Len(s) - 1,
         kind' = kind,
         Records(heap)', DOMAIN heap' = DOMAIN heap \ {s[p + 1]},
         head' \in Links,
         Len(s) = 1 => head' = NULL \/ kind = "dll",
         Len(s) # 1 => head' = IF p = 0 THEN s[2] ELSE head,
         \A i \in 1 .. Len(s) : i # p /\ i # p + 1 /\ i < Len(s) =>
           heap'[s[i]].next = heap[s[i]].next,
         p < Len(s) - 1 =>
           heap'[s[Len(s)]].next = IF kind = "scll" THEN head' ELSE NULL,
         p > 0 => heap'[s[p]].next = IF p < Len(s) - 1 THEN s[p + 2]
                                     ELSE IF kind = "scll" THEN head' ELSE NULL,
         kind = "dll" =>
           \A i \in 1 .. Len(s) : i # p + 1 =>
             heap'[s[i]].prev = IF i # p + 2 THEN heap[s[i]].prev
                                ELSE IF p = 0 THEN NULL ELSE s[p]
  PROVE  Linked(heap', head', Deleted(s, p))
<1> DEFINE t == Deleted(s, p)
<1>1. s \in Seq(Nodes) /\ Len(s) \in Nat
  BY DEF Linked
<1>2. /\ t \in Seq(Nodes)
      /\ Len(t) = Len(s) - 1
      /\ \A i \in 1 .. p : t[i] = s[i]
      /\ \A i \in p + 1 .. Len(s) - 1 : t[i] = s[i + 1]
  BY <1>1, DeletedSeq
<1> HIDE DEF t
<1>3. \A i, j \in 1 .. Len(s) : s[i] = s[j] => i = j
  BY DEF Linked
<1>4. \A i \in 1 .. Len(t) : \/ i \in 1 .. p /\ i \in 1 .. Len(s) /\ i # p + 1
                             \/ i \in p + 1 .. Len(s) - 1 /\ i + 1 \in 1 .. Len(s) /\ i + 1 # p + 1
  BY <1>1, <1>2
<1>5. ASSUME NEW i \in 1 .. Len(t), NEW j \in 1 .. Len(t), t[i] = t[j] PROVE i = j
  <2>1. ASSUME NEW a \in 1 .. p, NEW b \in p + 1 .. Len(s) - 1 PROVE s[a] # s[b + 1]
    <3>1. a \in 1 .. Len(s) /\ b + 1 \in 1 .. Len(s) /\ a # b + 1
      BY <1>1
    <3> QED
      BY <1>3, <3>1
  <2>2. ASSUME NEW a \in p + 1 .. Len(s) - 1, NEW b \in p + 1 .. Len(s) - 1, s[a + 1] = s[b + 1] PROVE a = b
    <3>1. a + 1 \in 1 .. Len(s) /\ b + 1 \in 1 .. Len(s)
      BY <1>1
    <3>2. a + 1 = b + 1
      BY <1>3, <2>2, <3>1
    <3> QED
      BY <1>1, <3>2
  <2> QED
    BY <1>2, <1>3, <1>4, <1>5, <2>1, <2>2
<1>6. DOMAIN heap' = {t[i] : i \in 1 .. Len(t)}
  <2>1. ASSUME NEW m \in DOMAIN heap' PROVE \E i \in 1 .. Len(t) : t[i] = m
    <3>1. PICK j \in 1 .. Len(s) : s[j] = m
      BY DEF Linked
    <3>2. j # p + 1
      BY <3>1
    <3>3. CASE j <= p
      <4>1. j \in 1 .. p /\ j \in 1 .. Len(t)
        BY <1>1, <1>2, <3>3
      <4> QED
        BY <1>2, <3>1, <4>1
    <3>4. CASE ~(j <= p)
      <4>1. j - 1 \in p + 1 .. Len(s) - 1 /\ j - 1 \in 1 .. Len(t) /\ (j - 1) + 1 = j
        BY <1>1, <1>2, <3>2, <3>4
      <4>2. t[j - 1] = s[j]
        BY <1>2, <4>1
      <4> QED
        BY <3>1, <4>1, <4>2
    <3> QED
      BY <3>3, <3>4
  <2>2. ASSUME NEW i \in 1 .. Len(t) PROVE t[i] \in DOMAIN heap'
    <3>1. PICK j \in 1 .. Len(s) : j # p + 1 /\ t[i] = s[j]
      BY <1>2, <1>4
    <3>2. p + 1 \in 1 .. Len(s)
      BY <1>1
    <3>3. s[j] \in DOMAIN heap /\ s[j] # s[p + 1]
      BY <1>3, <3>1, <3>2 DEF Linked
    <3> QED
      BY <3>1, <3>3
  <2> QED
    BY <2>1, <2>2
<1>7. \A i \in 1 .. Len(s) : i < Len(s) => heap[s[i]].next = s[i + 1]
  BY DEF Linked
<1>8. \A i \in 1 .. Len(s) : kind = "dll" => heap[s[i]].prev = IF i = 1 THEN NULL ELSE s[i - 1]
  BY DEF Linked
<1>9. ASSUME NEW i \in 1 .. Len(t)
      PROVE  heap'[t[i]].next = IF i < Len(t) THEN t[i + 1] ELSE IF kind = "scll" THEN head' ELSE NULL
  <2>1. CASE i < p
    <3>1. i \in 1 .. p /\ i + 1 \in 1 .. p /\ i \in 1 .. Len(s) /\ i # p + 1 /\ i < Len(s) /\ i < Len(t)
      BY <1>1, <1>2, <2>1
    <3> QED
      BY <1>2, <1>7, <2>1, <3>1
  <2>2. CASE i = p
    <3>1. i \in 1 .. p /\ p > 0
      BY <1>1, <1>2, <2>2
    <3>2. CASE p < Len(s) - 1
      <4>1. p + 1 \in p + 1 .. Len(s) - 1 /\ i < Len(t) /\ (p + 1) + 1 = p + 2
        BY <1>1, <1>2, <2>2, <3>2
      <4>2. t[p + 1] = s[p + 2]
        BY <1>2, <4>1
      <4> QED
        BY <1>2, <2>2, <3>1, <3>2, <4>1, <4>2
    <3>3. CASE ~(p < Len(s) - 1)
      <4>1. ~(i < Len(t))
        BY <1>1, <1>2, <2>2, <3>3
      <4> QED
        BY <1>2, <2>2, <3>1, <3>3, <4>1
    <3> QED
      BY <3>2, <3>3
  <2>3. CASE i > p
    <3>1. /\ i \in p + 1 .. Len(s) - 1 /\ i + 1 \in 1 .. Len(s)
          /\ i + 1 # p /\ i + 1 # p + 1 /\ p < Len(s) - 1
      BY <1>1, <1>2, <2>3
    <3>2. t[i] = s[i + 1]
      BY <1>2, <3>1
    <3>3. CASE i + 1 < Len(s)
      <4>1. i + 1 \in p + 1 .. Len(s) - 1 /\ i < Len(t)
        BY <1>1, <1>2, <2>3, <3>3
      <4>2. t[i + 1] = s[(i + 1) + 1]
        BY <1>2, <4>1
      <4> QED
        BY <1>7, <3>1, <3>2, <3>3, <4>1, <4>2
    <3>4. CASE ~(i + 1 < Len(s))
      <4>1. i + 1 = Len(s) /\ ~(i < Len(t))
        BY <1>1, <1>2, <3>1, <3>4
      <4> QED
        BY <3>1, <3>2, <4>1
    <3> QED
      BY <3>3, <3>4
  <2> QED
    BY <1>1, <1>2, <2>1, <2>2, <2>3
<1>10. ASSUME NEW i \in 1 .. Len(t), kind = "dll"
       PROVE  heap'[t[i]].prev = IF i = 1 THEN NULL ELSE t[i - 1]
  <2>1. CASE i \in 1 .. p
    <3>1. i \in 1 .. Len(s) /\ i # p + 1 /\ i # p + 2 /\ (i # 1 => i - 1 \in 1 .. p)
      BY <1>1, <2>1
    <3>2. t[i] = s[i] /\ (i # 1 => t[i - 1] = s[i - 1])
      BY <1>2, <2>1, <3>1
    <3> QED
      BY <1>8, <1>10, <3>1, <3>2
  <2>2. CASE i = p + 1
    <3>1. /\ i \in p + 1 .. Len(s) - 1 /\ i + 1 \in 1 .. Len(s) /\ i + 1 = p + 2 /\ i + 1 # p + 1
          /\ i = 1 <=> p = 0
          /\ p # 0 => p \in 1 .. p
          /\ i - 1 = p
      BY <1>1, <1>2, <2>2
    <3>2. t[i] = s[i + 1] /\ (p # 0 => t[p] = s[p])
      BY <1>2, <3>1
    <3> QED
      BY <1>10, <3>1, <3>2
  <2>3. CASE i > p + 1
    <3>1. /\ i \in p + 1 .. Len(s) - 1 /\ i - 1 \in p + 1 .. Len(s) - 1
          /\ i + 1 \in 1 .. Len(s) /\ i + 1 # p + 1 /\ i + 1 # p + 2 /\ i # 1 /\ i + 1 # 1
          /\ (i - 1) + 1 = i /\ (i + 1) - 1 = i
      BY <1>1, <1>2, <2>3
    <3>2. t[i] = s[i + 1] /\ t[i - 1] = s[i]
      BY <1>2, <3>1
    <3> QED
      BY <1>8, <1>10, <3>1, <3>2
  <2> QED
    BY <1>1, <1>2, <2>1, <2>2, <2>3
<1>11. IF Len(t) = 0 THEN head' = NULL \/ kind = "dll" ELSE head' = t[1]
  <2>1. CASE Len(s) = 1
    BY <1>2, <2>1
  <2>2. CASE Len(s) # 1 /\ p = 0
    <3>1. 1 \in p + 1 .. Len(s) - 1 /\ 1 + 1 = 2 /\ Len(t) # 0
      BY <1>1, <1>2, <2>2
    <3>2. t[1] = s[2]
      BY <1>2, <3>1
    <3> QED
      BY <2>2, <3>1, <3>2
  <2>3. CASE Len(s) # 1 /\ p # 0
    <3>1. 1 \in 1 .. p /\ Len(t) # 0
      BY <1>1, <1>2, <2>3
    <3> QED
      BY <1>2, <2>3, <3>1 DEF Linked
  <2> QED
    BY <2>1, <2>2, <2>3
<1>12. Records(heap')
  BY DEF Records
<1> QED
  BY <1>2, <1>5, <1>6, <1>9, <1>10, <1>11, <1>12 DEF Linked, t

(* A removal leaves the data of the other nodes as it is.                  *)
DataKept == \A m \in DOMAIN heap' : heap'[m].data = heap[m].data

(* The tail is the node that leads nowhere, or to head.                    *)
LEMMA TailKnown ==
  ASSUME NEW s, Linked(heap, head, s), NEW p \in 1 .. Len(s)
  PROVE  /\ heap[s[p]].next \in {NULL, head} <=> p = Len(s)
         /\ p # Len(s) => p + 1 \in 1 .. Len(s) /\ heap[s[p]].next = s[p + 1]
         /\ s[p] \in DOMAIN heap /\ s[p] \in Nodes /\ s[p] # NULL
         /\ 1 \in 1 .. Len(s) /\ head = s[1]
<1>1. s \in Seq(Nodes) /\ Len(s) \in Nat
  BY DEF Linked
<1>2. 1 \in 1 .. Len(s) /\ head = s[1]
  BY <1>1 DEF Linked
<1>3. s[p] \in DOMAIN heap /\ s[p] \in Nodes /\ s[p] # NULL
  BY <1>1, ListsAssumption DEF Linked
<1>4. CASE p = Len(s)
  BY <1>1, <1>2, <1>3, <1>4 DEF Linked
<1>5. CASE p # Len(s)
  <2>1. p + 1 \in 1 .. Len(s) /\ p + 1 # 1 /\ p < Len(s)
    BY <1>1, <1>5
  <2>2. heap[s[p]].next = s[p + 1]
    BY <2>1 DEF Linked
  <2>3. s[p + 1] # head
    BY <1>2, <2>1 DEF Linked
  <2>4. s[p + 1] # NULL
    BY <1>1, <2>1, ListsAssumption DEF Linked
  <2> QED
    BY <1>2, <1>3, <1>5, <2>1, <2>2, <2>3, <2>4
<1> QED
  BY <1>4, <1>5

LEMMA WithoutHeadLinks ==
  ASSUME NEW s, Linked(heap, head, s), Len(s) # 0, Removed(WithoutHead(heap))
  PROVE  Linked(heap', head', Deleted(s, 0)) /\ DataKept
<1> DEFINE next == heap[head].next
           h1 == [heap EXCEPT ![s[Len(s)]].next = next]
           h2 == WithPrev(heap, next, NULL)
           h3 == IF Len(s) = 1 THEN heap ELSE IF kind = "scll" THEN h1 ELSE h2
           h4 == Without(h3, head)
<1>1. s \in Seq(Nodes) /\ Len(s) \in Nat /\ Records(heap) /\ DOMAIN heap \subseteq Nodes /\ kind' = kind
  BY DEF Linked, Removed
<1>2. /\ 1 \in 1 .. Len(s) /\ Len(s) \in 1 .. Len(s) /\ head = s[1]
      /\ head \in DOMAIN heap /\ s[Len(s)] \in DOMAIN heap
  <2>1. 1 \in 1 .. Len(s) /\ Len(s) \in 1 .. Len(s)
    BY <1>1
  <2> QED
    BY <2>1, TailKnown
<1>3. next \in {NULL, head} <=> Len(s) = 1
  BY <1>2, TailKnown
<1>4. Len(s) # 1 => 2 \in 1 .. Len(s) /\ next = s[2] /\ s[2] \in DOMAIN heap
  <2>1. Len(s) # 1 => 1 + 1 \in 1 .. Len(s) /\ next = s[1 + 1]
    BY <1>2, TailKnown
  <2> QED
    BY <2>1 DEF Linked
<1>5. Last(All(heap)) = s[Len(s)]
  BY AllPassed DEF Last
<1>6. heap' = h4 /\ head' = (IF Len(s) = 1 THEN NULL ELSE s[2])
  BY <1>3, <1>4, <1>5 DEF Removed, WithoutHead
<1>7. next \in Links /\ NULL \in Links
  BY <1>1, <1>2 DEF Records, Links
<1> HIDE DEF next
<1>8. OtherNext(h1, heap, s[Len(s)], next)
  BY <1>1, <1>2, <1>7, SetNext
<1>9. Len(s) # 1 => OtherPrev(h2, heap, next, NULL)
  BY <1>1, <1>4, <1>7, SetPrev
<1> HIDE DEF h1, h2
<1>10. /\ DOMAIN h3 = DOMAIN heap /\ Records(h3)
       /\ \A m \in DOMAIN heap :
            /\ h3[m].data = heap[m].data
            /\ h3[m].next = IF kind = "scll" /\ Len(s) # 1 /\ m = s[Len(s)] THEN s[2] ELSE heap[m].next
            /\ kind = "dll" =>
                 h3[m].prev = IF Len(s) # 1 /\ m = s[2] THEN NULL ELSE heap[m].prev
  <2>1. CASE Len(s) = 1
    BY <1>1, <2>1
  <2>2. CASE Len(s) # 1 /\ kind = "scll"
    BY <1>4, <1>8, <2>2 DEF OtherNext
  <2>3. CASE Len(s) # 1 /\ kind # "scll"
    <3>1. next # NULL /\ next = s[2]
      BY <1>1, <1>4, <2>3, ListsAssumption
    <3>2. OtherPrev(h3, heap, next, NULL)
      BY <1>9, <2>3
    <3> HIDE DEF h3
    <3> QED
      BY <2>3, <3>1, <3>2 DEF OtherPrev
  <2> QED
    BY <2>1, <2>2, <2>3
<1> HIDE DEF h3
<1>11. Fewer(h4, h3, head)
  BY <1>10, Freeing
<1> HIDE DEF h4
<1>12. /\ DOMAIN h4 = DOMAIN heap \ {head} /\ Records(h4)
       /\ \A m \in DOMAIN heap \ {head} : h4[m] = h3[m]
  BY <1>10, <1>11 DEF Fewer
<1>13. \A i \in 1 .. Len(s) : /\ s[i] \in DOMAIN heap
                              /\ i # 1 => s[i] \in DOMAIN heap \ {head}
                              /\ i # Len(s) => s[i] # s[Len(s)]
                              /\ Len(s) # 1 /\ i # 2 => s[i] # s[2]
  BY <1>2, <1>4 DEF Linked
<1>14. DataKept
  BY <1>6, <1>10, <1>12 DEF DataKept
<1>15. 0 \in 0 .. Len(s) - 1 /\ ~(0 > 0) /\ s[0 + 1] = head
  BY <1>1, <1>2
<1>16. Records(heap)' /\ DOMAIN heap' = DOMAIN heap \ {s[0 + 1]}
  BY <1>6, <1>12, <1>15 DEF Records
<1>17. head' \in Links
  BY <1>1, <1>4, <1>6 DEF Links
<1>18. \A i \in 1 .. Len(s) : i # 0 /\ i # 0 + 1 /\ i < Len(s) => heap'[s[i]].next = heap[s[i]].next
  BY <1>1, <1>6, <1>10, <1>12, <1>13
<1>19. 0 < Len(s) - 1 => heap'[s[Len(s)]].next = IF kind = "scll" THEN head' ELSE NULL
  <2> SUFFICES ASSUME 0 < Len(s) - 1 PROVE heap'[s[Len(s)]].next = IF kind = "scll" THEN head' ELSE NULL
    OBVIOUS
  <2>1. Len(s) # 1 /\ ~(Len(s) < Len(s))
    BY <1>1
  <2>2. kind # "scll" => heap[s[Len(s)]].next = NULL
    BY <1>2, <2>1 DEF Linked
  <2> QED
    BY <1>2, <1>6, <1>10, <1>12, <1>13, <2>1, <2>2
<1>20. kind = "dll" =>
         \A i \in 1 .. Len(s) : i # 0 + 1 =>
           heap'[s[i]].prev = IF i # 0 + 2 THEN heap[s[i]].prev ELSE IF 0 = 0 THEN NULL ELSE s[0]
  <2> SUFFICES ASSUME kind = "dll", NEW i \in 1 .. Len(s), i # 1
               PROVE  heap'[s[i]].prev = IF i # 2 THEN heap[s[i]].prev ELSE NULL
    OBVIOUS
  <2>1. \A j \in 1 .. Len(s) : j # 1 => Len(s) # 1
    BY <1>1
  <2> QED
    BY <1>6, <1>10, <1>12, <1>13, <2>1
<1>21. /\ Len(s) = 1 => head' = NULL \/ kind = "dll"
       /\ Len(s) # 1 => head' = IF 0 = 0 THEN s[2] ELSE head
  BY <1>6
<1>22. Linked(heap', head', Deleted(s, 0))
  BY <1>1, <1>15, <1>16, <1>17, <1>18, <1>19, <1>20, <1>21, DeletedLinks
<1> QED
  BY <1>14, <1>22

LEMMA WithoutNextLinks ==
  ASSUME NEW s, Linked(heap, head, s), NEW p \in 1 .. Len(s) - 1,
         Removed(WithoutNext(heap, s[p]))
  PROVE  Linked(heap', head', Deleted(s, p)) /\ DataKept
<1> DEFINE beyond == heap[s[p + 1]].next
           h1 == [heap EXCEPT ![s[p]].next = beyond]
           h2 == WithPrev(h1, beyond, s[p])
           h3 == Without(h2, s[p + 1])
<1>1. s \in Seq(Nodes) /\ Len(s) \in Nat /\ Records(heap) /\ DOMAIN heap \subseteq Nodes /\ kind' = kind
  BY DEF Linked, Removed
<1>2. p \in 1 .. Len(s) /\ p + 1 \in 1 .. Len(s) /\ p # Len(s) /\ p # p + 1 /\ p < Len(s)
  BY <1>1
<1>3. heap[s[p]].next = s[p + 1] /\ s[p] \in DOMAIN heap /\ s[p] \in Nodes /\ head = s[1]
  BY <1>2, TailKnown
<1>4. heap' = h3 /\ head' = head
  BY <1>3 DEF Removed, WithoutNext
<1>5. \A i, j \in 1 .. Len(s) : s[i] = s[j] => i = j
  BY DEF Linked
<1>6. \A i \in 1 .. Len(s) : s[i] \in DOMAIN heap /\ s[i] # NULL
  BY <1>1, ListsAssumption DEF Linked
<1>7. p + 1 < Len(s) => p + 2 \in 1 .. Len(s) /\ beyond = s[p + 2]
  <2> SUFFICES ASSUME p + 1 < Len(s) PROVE p + 2 \in 1 .. Len(s) /\ beyond = s[p + 2]
    OBVIOUS
  <2>1. p + 1 # Len(s) /\ (p + 1) + 1 = p + 2
    BY <1>2
  <2> QED
    BY <1>2, <2>1, TailKnown
<1>8. ~(p + 1 < Len(s)) => beyond = IF kind = "scll" THEN head ELSE NULL
  BY <1>2 DEF Linked
<1>9. beyond \in Links /\ (beyond # NULL => beyond \in DOMAIN heap)
  <2>1. head \in DOMAIN heap /\ head \in Links
    BY <1>1, <1>2, <1>3, <1>6 DEF Links
  <2>2. p + 1 < Len(s) => s[p + 2] \in DOMAIN heap
    BY <1>6, <1>7
  <2> QED
    BY <1>1, <1>7, <1>8, <2>1, <2>2 DEF Links
<1> HIDE DEF beyond
<1>10. OtherNext(h1, heap, s[p], beyond)
  BY <1>1, <1>3, <1>9, SetNext
<1> HIDE DEF h1
<1>11. OtherPrev(h2, h1, beyond, s[p])
  <2>1. Records(h1) /\ (beyond # NULL => beyond \in DOMAIN h1) /\ s[p] \in Links
    BY <1>3, <1>9, <1>10 DEF OtherNext, Links
  <2> QED
    BY <2>1, SetPrev
<1> HIDE DEF h2
<1>12. /\ DOMAIN h2 = DOMAIN heap /\ Records(h2)
       /\ \A m \in DOMAIN heap :
            /\ h2[m].data = heap[m].data
            /\ h2[m].next = IF m = s[p] THEN beyond ELSE heap[m].next
            /\ h2[m].prev = IF kind = "dll" /\ beyond # NULL /\ m = beyond THEN s[p] ELSE heap[m].prev
  BY <1>10, <1>11 DEF OtherNext, OtherPrev
<1>13. Fewer(h3, h2, s[p + 1])
  BY <1>12, Freeing
<1> HIDE DEF h3
<1>14. /\ DOMAIN h3 = DOMAIN heap \ {s[p + 1]} /\ Records(h3)
       /\ \A m \in DOMAIN heap \ {s[p + 1]} : h3[m] = h2[m]
  BY <1>12, <1>13 DEF Fewer
<1>15. DataKept
  BY <1>4, <1>12, <1>14 DEF DataKept
<1>16. \A i \in 1 .. Len(s) : i # p + 1 => s[i] \in DOMAIN heap \ {s[p + 1]}
  BY <1>2, <1>5, <1>6
<1>17. Records(heap)' /\ DOMAIN heap' = DOMAIN heap \ {s[p + 1]}
  BY <1>4, <1>14 DEF Records
<1>18. head' \in Links /\ Len(s) # 1 /\ p # 0 /\ p \in 0 .. Len(s) - 1 /\ Len(s) # 0
  BY <1>1, <1>4 DEF Linked
<1>19. \A i \in 1 .. Len(s) : i # p /\ i # p + 1 => heap'[s[i]].next = heap[s[i]].next
  <2> TAKE i \in 1 .. Len(s)
  <2> HAVE i # p /\ i # p + 1
  <2>1. s[i] # s[p]
    BY <1>2, <1>5
  <2> QED
    BY <1>4, <1>12, <1>14, <1>16, <2>1
<1>20. p < Len(s) - 1 => heap'[s[Len(s)]].next = IF kind = "scll" THEN head' ELSE NULL
  <2> SUFFICES ASSUME p < Len(s) - 1
               PROVE  heap'[s[Len(s)]].next = IF kind = "scll" THEN head' ELSE NULL
    OBVIOUS
  <2>1. Len(s) \in 1 .. Len(s) /\ Len(s) # p /\ Len(s) # p + 1 /\ ~(Len(s) < Len(s))
    BY <1>1, <1>2
  <2>2. heap[s[Len(s)]].next = IF kind = "scll" THEN head ELSE NULL
    BY <2>1 DEF Linked
  <2> QED
    BY <1>4, <1>19, <2>1, <2>2
<1>21. heap'[s[p]].next = IF p < Len(s) - 1 THEN s[p + 2] ELSE IF kind = "scll" THEN head' ELSE NULL
  <2>1. heap'[s[p]].next = beyond
    BY <1>2, <1>3, <1>4, <1>12, <1>14, <1>16
  <2>2. p < Len(s) - 1 <=> p + 1 < Len(s)
    BY <1>1, <1>2
  <2> QED
    BY <1>4, <1>7, <1>8, <2>1, <2>2
<1>22. kind = "dll" =>
         \A i \in 1 .. Len(s) : i # p + 1 =>
           heap'[s[i]].prev = IF i # p + 2 THEN heap[s[i]].prev ELSE IF p = 0 THEN NULL ELSE s[p]
  <2> SUFFICES ASSUME kind = "dll", NEW i \in 1 .. Len(s), i # p + 1
               PROVE  heap'[s[i]].prev = IF i # p + 2 THEN heap[s[i]].prev ELSE s[p]
    BY <1>18
  <2>1. i = p + 2 <=> (beyond # NULL /\ s[i] = beyond)
    <3>1. CASE p + 1 < Len(s)
      BY <1>5, <1>6, <1>7, <3>1
    <3>2. CASE ~(p + 1 < Len(s))
      <4>1. beyond = NULL
        BY <1>8, <3>2
      <4>2. i # p + 2
        BY <1>1, <1>2, <3>2
      <4> QED
        BY <4>1, <4>2
    <3> QED
      BY <3>1, <3>2
  <2> QED
    BY <1>4, <1>12, <1>14, <1>16, <2>1
<1>23. Len(s) = 1 => head' = NULL \/ kind = "dll"
  BY <1>18
<1>24. Len(s) # 1 => head' = IF p = 0 THEN s[2] ELSE head
  BY <1>4, <1>18
<1>25. Linked(heap', head', Deleted(s, p))
  BY <1>1, <1>17, <1>18, <1>19, <1>20, <1>21, <1>22, <1>23, <1>24, DeletedLinks
<1> QED
  BY <1>15, <1>25

LEMMA WithoutTailLinks ==
  ASSUME NEW s, Linked(heap, head, s), Len(s) # 0,
         NEW way, Len(way) = Len(s), \A k \in 1 .. Len(s) : way[k] = s[k], Last(way) = s[Len(s)],
         Removed(WithoutTail(heap, way))
  PROVE  Linked(heap', head', Deleted(s, Len(s) - 1)) /\ DataKept
<1> DEFINE p == Len(s) - 1
           h1 == [heap EXCEPT ![s[p]].next = IF kind = "scll" THEN head ELSE NULL]
           h2 == IF Len(s) = 1 THEN heap ELSE h1
           h3 == Without(h2, s[Len(s)])
<1>1. s \in Seq(Nodes) /\ Len(s) \in Nat /\ Records(heap) /\ DOMAIN heap \subseteq Nodes /\ kind' = kind
  BY DEF Linked, Removed
<1>2. /\ p + 1 = Len(s) /\ p \in 0 .. Len(s) - 1 /\ ~(p < Len(s) - 1) /\ Len(s) \in 1 .. Len(s)
      /\ Len(s) # 1 => p \in 1 .. Len(s) /\ p # 0 /\ p > 0
      /\ Len(s) = 1 => p = 0 /\ ~(p > 0)
      /\ Len(way) - 1 = p
  BY <1>1
<1> HIDE DEF p
<1>3. \A i, j \in 1 .. Len(s) : s[i] = s[j] => i = j
  BY DEF Linked
<1>4. \A i \in 1 .. Len(s) : s[i] \in DOMAIN heap /\ s[i] # NULL
  BY <1>1, ListsAssumption DEF Linked
<1>5. \A i \in 1 .. Len(s) : i # p + 1 => s[i] \in DOMAIN heap \ {s[Len(s)]}
  BY <1>2, <1>3, <1>4
<1>6. head \in Links
  BY DEF Linked
<1>7. heap' = h3 /\ head' = IF Len(s) = 1 /\ kind # "dll" THEN NULL ELSE head
  <2> DEFINE before == IF kind = "dll" THEN heap[Last(way)].prev
                       ELSE IF Len(way) = 1 THEN NULL ELSE way[Len(way) - 1]
  <2>1. kind = "dll" => heap[s[Len(s)]].prev = IF Len(s) = 1 THEN NULL ELSE s[p]
    <3>1. kind = "dll" => heap[s[Len(s)]].prev = IF Len(s) = 1 THEN NULL ELSE s[Len(s) - 1]
      BY <1>2 DEF Linked
    <3> QED
      BY <3>1 DEF p
  <2>2. before = IF Len(s) = 1 THEN NULL ELSE s[p]
    BY <1>2, <2>1
  <2>3. before = NULL <=> Len(s) = 1
    BY <1>2, <1>4, <2>2
  <2> HIDE DEF before
  <2>4. /\ heap' = Without(IF before = NULL THEN heap
                           ELSE [heap EXCEPT ![before].next = IF kind = "scll" THEN head ELSE NULL],
                           Last(way))
        /\ head' = IF Len(way) = 1 /\ kind # "dll" THEN NULL ELSE head
    BY DEF Removed, WithoutTail, before
  <2> QED
    BY <2>2, <2>3, <2>4
<1>8. Len(s) # 1 => OtherNext(h1, heap, s[p], IF kind = "scll" THEN head ELSE NULL)
  <2> SUFFICES ASSUME Len(s) # 1 PROVE OtherNext(h1, heap, s[p], IF kind = "scll" THEN head ELSE NULL)
    OBVIOUS
  <2> DEFINE x == IF kind = "scll" THEN head ELSE NULL
  <2>1. s[p] \in DOMAIN heap /\ x \in Links
    BY <1>2, <1>4, <1>6 DEF Links
  <2> HIDE DEF x
  <2>2. OtherNext([heap EXCEPT ![s[p]].next = x], heap, s[p], x)
    BY <1>1, <2>1, SetNext
  <2> QED
    BY <2>2 DEF x
<1> HIDE DEF h1
<1>9. /\ DOMAIN h2 = DOMAIN heap /\ Records(h2)
      /\ \A m \in DOMAIN heap :
           /\ h2[m].data = heap[m].data
           /\ h2[m].prev = heap[m].prev
           /\ h2[m].next = IF Len(s) # 1 /\ m = s[p] THEN IF kind = "scll" THEN head ELSE NULL
                           ELSE heap[m].next
  BY <1>1, <1>8 DEF OtherNext
<1> HIDE DEF h2
<1>10. Fewer(h3, h2, s[Len(s)])
  BY <1>9, Freeing
<1> HIDE DEF h3
<1>11. /\ DOMAIN h3 = DOMAIN heap \ {s[Len(s)]} /\ Records(h3)
       /\ \A m \in DOMAIN heap \ {s[Len(s)]} : h3[m] = h2[m]
  BY <1>9, <1>10 DEF Fewer
<1>12. DataKept
  BY <1>7, <1>9, <1>11 DEF DataKept
<1>13. Records(heap)' /\ DOMAIN heap' = DOMAIN heap \ {s[p + 1]}
  BY <1>2, <1>7, <1>11 DEF Records
<1>14. /\ head' \in Links
       /\ Len(s) = 1 => head' = NULL \/ kind = "dll"
       /\ Len(s) # 1 => head' = IF p = 0 THEN s[2] ELSE head
  BY <1>2, <1>6, <1>7 DEF Links
<1>15. \A i \in 1 .. Len(s) : i # p /\ i # p + 1 /\ i < Len(s) => heap'[s[i]].next = heap[s[i]].next
  <2> TAKE i \in 1 .. Len(s)
  <2> HAVE i # p /\ i # p + 1 /\ i < Len(s)
  <2>1. Len(s) # 1 => s[i] # s[p]
    BY <1>2, <1>3
  <2> QED
    BY <1>5, <1>7, <1>9, <1>11, <2>1
<1>16. p > 0 => heap'[s[p]].next = IF p < Len(s) - 1 THEN s[p + 2]
                                   ELSE IF kind = "scll" THEN head' ELSE NULL
  <2> SUFFICES ASSUME p > 0 PROVE heap'[s[p]].next = IF kind = "scll" THEN head' ELSE NULL
    BY <1>2
  <2>1. Len(s) # 1 /\ p \in 1 .. Len(s) /\ p # p + 1
    BY <1>1, <1>2
  <2> QED
    BY <1>5, <1>7, <1>9, <1>11, <2>1
<1>17. kind = "dll" =>
         \A i \in 1 .. Len(s) : i # p + 1 =>
           heap'[s[i]].prev = IF i # p + 2 THEN heap[s[i]].prev ELSE IF p = 0 THEN NULL ELSE s[p]
  <2> SUFFICES ASSUME kind = "dll", NEW i \in 1 .. Len(s), i # p + 1
               PROVE  heap'[s[i]].prev = heap[s[i]].prev /\ i # p + 2
    OBVIOUS
  <2>1. i # p + 2
    BY <1>1, <1>2
  <2> QED
    BY <1>5, <1>7, <1>9, <1>11, <2>1
<1>18. p < Len(s) - 1 => heap'[s[Len(s)]].next = IF kind = "scll" THEN head' ELSE NULL
  BY <1>2
<1>19. Linked(heap', head', Deleted(s, p))
  BY <1>1, <1>2, <1>13, <1>14, <1>15, <1>16, <1>17, <1>18, DeletedLinks
<1> QED
  BY <1>12, <1>19 DEF p

LEMMA RemoveAllLinks ==
  ASSUME NEW s, Linked(heap, head, s), head \in DOMAIN heap \cup {NULL}, RemoveAll
  PROVE  Linked(heap', head', <<>>)
<1>1. s \in Seq(Nodes) /\ Len(s) \in Nat
  BY DEF Linked
<1>2. All(heap) = s
  BY AllPassed
<1>3. DOMAIN s = 1 .. Len(s)
  BY <1>1
<1>4. DOMAIN heap' = DOMAIN heap \ {s[k] : k \in 1 .. Len(s)} /\ head' = NULL
  BY <1>2, <1>3 DEF RemoveAll, Removed
<1>5. DOMAIN heap' = {}
  BY <1>4 DEF Linked
<1> QED
  BY <1>4, <1>5 DEF Linked, Links, Records

-----------------------------------------------------------------------------
(* Positions, and the items of the list.                                   *)

LEMMA InsertPlace ==
  ASSUME NEW s \in Seq(Nodes), Len(s) # 0, NEW position \in Int, position # 0
  PROVE  PL!Place(position, Len(s)) = Reached(s, position)
BY DEF PL!Place, Reached

LEMMA RemovePlace ==
  ASSUME NEW s \in Seq(Nodes), Len(s) # 0, NEW position \in Int, position # 0
  PROVE  PL!Place(position, Len(s) - 1) =
           IF Reached(s, position) = Len(s) THEN Len(s) - 1 ELSE Reached(s, position)
<1> DEFINE least == IF kind = "sll" THEN 0 ELSE 1
           steps == IF position - 1 > least THEN position - 1 ELSE least
           last == Len(s) - 1
<1>1. Len(s) \in Nat /\ steps \in Nat /\ last \in Nat
  OBVIOUS
<1>2. PL!Place(position, last) = IF steps + 1 < last THEN steps + 1 ELSE last
  <2> HIDE DEF last
  <2> QED
    BY <1>1 DEF PL!Place
<1>3. Reached(s, position) = IF steps < Len(s) - 1 THEN steps + 1 ELSE Len(s)
  BY DEF Reached
<1> HIDE DEF steps
<1> QED
  BY <1>1, <1>2, <1>3

Items(s) == [k \in DOMAIN s |-> heap[s[k]].data]

LEMMA ItemsSeq ==
  ASSUME NEW s, Linked(heap, head, s)
  PROVE  /\ Items(s) \in Seq(Data) /\ Len(Items(s)) = Len(s) /\ Len(s) \in Nat
         /\ \A k \in 1 .. Len(s) : Items(s)[k] = heap[s[k]].data /\ Items(s)[k] \in Data
<1>1. s \in Seq(Nodes) /\ Len(s) \in Nat /\ DOMAIN s = 1 .. Len(s)
  BY DEF Linked
<1>2. \A k \in 1 .. Len(s) : heap[s[k]].data \in Data
  BY DEF Linked, Records
<1>3. Items(s) = [k \in 1 .. Len(s) |-> heap[s[k]].data]
  BY <1>1 DEF Items
<1> QED
  BY <1>1, <1>2, <1>3

LEMMA InsertedItems ==
  ASSUME NEW s, Linked(heap, head, s), NEW p \in 0 .. Len(s), NEW d \in Data,
         NEW n \in Nodes \ DOMAIN heap, Adds(n, d)
  PROVE  Items(Inserted(s, p, n))' =
           SubSeq(Items(s), 1, p) \o <<d>> \o SubSeq(Items(s), p + 1, Len(Items(s)))
<1> DEFINE items == Items(s)
           t == Inserted(s, p, n)
           other == [k \in DOMAIN t |-> heap'[t[k]].data]
           front == SubSeq(items, 1, p)
           one == <<d>>
           back == SubSeq(items, p + 1, Len(items))
           l == Len(s)
<1>1. /\ items \in Seq(Data) /\ Len(items) = l /\ l \in Nat
      /\ \A k \in 1 .. l : items[k] = heap[s[k]].data /\ items[k] \in Data
  BY ItemsSeq
<1>2. /\ t \in Seq(Nodes) /\ Len(t) = l + 1
      /\ \A i \in 1 .. p : t[i] = s[i]
      /\ t[p + 1] = n
      /\ \A i \in p + 1 .. l : t[i + 1] = s[i]
  <2>1. s \in Seq(Nodes) /\ n \in Nodes
    BY DEF Linked
  <2> QED
    BY <2>1, InsertedSeq
<1>3. \A i \in 1 .. l : s[i] \in DOMAIN heap
  BY DEF Linked
<1>4. Items(Inserted(s, p, n))' = other
  BY DEF Items
<1> HIDE DEF items, t
<1>5. p \in Nat /\ p \in 0 .. l /\ 1 .. p \subseteq 1 .. l /\ p + 1 .. l \subseteq 1 .. l /\ p <= l
  BY <1>1
<1> HIDE DEF l
<1>6. DOMAIN t = 1 .. l + 1 /\ other = [k \in 1 .. l + 1 |-> heap'[t[k]].data]
  BY <1>1, <1>2
<1>7. /\ \A k \in 1 .. p : other[k] = items[k]
      /\ other[p + 1] = d
      /\ \A k \in p + 1 .. l : other[k + 1] = items[k]
  <2>1. 1 .. p \subseteq 1 .. l + 1 /\ p + 1 \in 1 .. l + 1 /\ \A k \in p + 1 .. l : k + 1 \in 1 .. l + 1
    BY <1>1, <1>5
  <2> HIDE DEF other
  <2>2. \A k \in 1 .. l + 1 : other[k] = heap'[t[k]].data
    BY <1>6
  <2>3. ASSUME NEW k \in 1 .. p PROVE other[k] = items[k]
    <3>1. k \in 1 .. l + 1 /\ k \in 1 .. l
      BY <1>5, <2>1
    <3> QED
      BY <1>1, <1>2, <1>3, <2>2, <3>1 DEF Adds
  <2>4. other[p + 1] = d
    BY <1>2, <2>1, <2>2 DEF Adds
  <2>5. ASSUME NEW k \in p + 1 .. l PROVE other[k + 1] = items[k]
    <3>1. k + 1 \in 1 .. l + 1 /\ k \in 1 .. l
      BY <1>5, <2>1
    <3>2. heap'[s[k]].data = heap[s[k]].data
      BY <1>3, <3>1 DEF Adds
    <3> QED
      BY <1>1, <1>2, <2>2, <3>1, <3>2
  <2> QED
    BY <2>3, <2>4, <2>5
<1>8. other \in Seq(Data) /\ Len(other) = l + 1
  <2>1. ASSUME NEW k \in 1 .. l + 1 PROVE other[k] \in Data
    <3>1. k \in 1 .. p \/ k = p + 1 \/ \E j \in p + 1 .. l : k = j + 1
      BY <1>1, <1>5, InsertedPositions
    <3> HIDE DEF other
    <3> QED
      BY <1>1, <1>5, <1>7, <3>1
  <2> DEFINE w(k) == heap'[t[k]].data
  <2>2. \A k \in 1 .. l + 1 : w(k) \in Data
    BY <1>6, <2>1
  <2> HIDE DEF w
  <2>3. [k \in 1 .. l + 1 |-> w(k)] \in Seq(Data) /\ Len([k \in 1 .. l + 1 |-> w(k)]) = l + 1
    BY <1>1, <2>2
  <2> QED
    BY <1>6, <2>3 DEF w
<1> HIDE DEF other
<1>9. /\ front \in Seq(Data) /\ Len(front) = p
      /\ \A i \in 1 .. p : front[i] = items[i]
  <2>1. /\ front \in Seq(Data) /\ Len(front) = IF 1 <= p THEN p - 1 + 1 ELSE 0
        /\ \A i \in 1 .. p - 1 + 1 : front[i] = items[1 + i - 1]
    BY <1>1, <1>5, SubSeqProperties
  <2> HIDE DEF front
  <2>2. p - 1 + 1 = p /\ \A i \in 1 .. p : 1 + i - 1 = i
    BY <1>5
  <2> QED
    BY <1>5, <2>1, <2>2
<1>10. /\ back \in Seq(Data) /\ Len(back) = l - p
       /\ \A i \in 1 .. l - p : back[i] = items[p + i]
  <2>1. /\ back \in Seq(Data) /\ Len(back) = IF p + 1 <= l THEN l - (p + 1) + 1 ELSE 0
        /\ \A i \in 1 .. l - (p + 1) + 1 : back[i] = items[p + 1 + i - 1]
    <3>1. p + 1 \in Int /\ l \in Int /\ back = SubSeq(items, p + 1, l)
      BY <1>1, <1>5
    <3> HIDE DEF back
    <3> QED
      BY <1>1, <1>5, <3>1, SubSeqProperties
  <2> HIDE DEF back
  <2>2. l - (p + 1) + 1 = l - p /\ \A i \in 1 .. l - p : p + 1 + i - 1 = p + i
    BY <1>1, <1>5
  <2> QED
    BY <1>1, <1>5, <2>1, <2>2
<1>11. one \in Seq(Data) /\ Len(one) = 1 /\ one[1] = d
  OBVIOUS
<1> HIDE DEF front, one, back
<1>12. /\ front \o one \in Seq(Data)
       /\ Len(front \o one) = p + 1
       /\ \A i \in 1 .. p + 1 : (front \o one)[i] = IF i <= p THEN front[i] ELSE one[i - p]
  <2>1. /\ front \o one \in Seq(Data)
        /\ Len(front \o one) = Len(front) + Len(one)
        /\ \A i \in 1 .. Len(front) + Len(one) :
             (front \o one)[i] = IF i <= Len(front) THEN front[i] ELSE one[i - Len(front)]
    BY <1>9, <1>11, ConcatProperties
  <2> QED
    BY <1>9, <1>11, <2>1
<1> DEFINE most == front \o one
<1> HIDE DEF most
<1>13. /\ most \o back \in Seq(Data)
       /\ Len(most \o back) = p + 1 + (l - p)
       /\ \A i \in 1 .. p + 1 + (l - p) :
            (most \o back)[i] = IF i <= p + 1 THEN most[i] ELSE back[i - (p + 1)]
  <2>1. most \in Seq(Data) /\ Len(most) = p + 1
    BY <1>12 DEF most
  <2>2. /\ most \o back \in Seq(Data)
        /\ Len(most \o back) = Len(most) + Len(back)
        /\ \A i \in 1 .. Len(most) + Len(back) :
             (most \o back)[i] = IF i <= Len(most) THEN most[i] ELSE back[i - Len(most)]
    BY <1>10, <2>1, ConcatProperties
  <2> QED
    BY <1>10, <2>1, <2>2
<1>14. p + 1 + (l - p) = l + 1
  BY <1>1, <1>5
<1> DEFINE whole == most \o back
<1>15. ASSUME NEW i \in 1 .. l + 1 PROVE other[i] = whole[i]
  <2>1. CASE i \in 1 .. p
    <3>1. i <= p /\ i <= p + 1 /\ i \in 1 .. p + 1
      BY <1>5, <2>1
    <3> QED
      BY <1>7, <1>9, <1>12, <1>13, <1>14, <2>1, <3>1 DEF most
  <2>2. CASE i = p + 1
    <3>1. ~(i <= p) /\ i <= p + 1 /\ i \in 1 .. p + 1 /\ i - p = 1
      BY <1>5, <2>2
    <3> QED
      BY <1>7, <1>11, <1>12, <1>13, <1>14, <2>2, <3>1 DEF most
  <2>3. ASSUME NEW k \in p + 1 .. l, i = k + 1 PROVE other[i] = whole[i]
    <3>1. ~(i <= p + 1) /\ i - (p + 1) \in 1 .. l - p /\ p + (i - (p + 1)) = k
      BY <1>1, <1>5, <2>3
    <3>2. whole[i] = back[i - (p + 1)]
      BY <1>13, <1>14, <3>1
    <3>3. back[i - (p + 1)] = items[k]
      BY <1>10, <3>1
    <3>4. other[i] = items[k]
      BY <1>7, <2>3
    <3> QED
      BY <3>2, <3>3, <3>4
  <2>4. i \in 1 .. p \/ i = p + 1 \/ \E k \in p + 1 .. l : i = k + 1
    BY <1>1, <1>5, InsertedPositions
  <2> QED
    BY <2>1, <2>2, <2>3, <2>4
<1>16. other = whole
  <2>1. whole \in Seq(Data) /\ Len(whole) = l + 1
    BY <1>13, <1>14
  <2> HIDE DEF whole
  <2> QED
    BY <1>8, <1>15, <2>1, SeqEqual
<1> QED
  BY <1>4, <1>16 DEF front, one, back, most, items

LEMMA DeletedItems ==
  ASSUME NEW s, Linked(heap, head, s), Len(s) # 0, NEW p \in 0 .. Len(s) - 1,
         DOMAIN heap' = {Deleted(s, p)[i] : i \in 1 .. Len(Deleted(s, p))}, DataKept
  PROVE  Items(Deleted(s, p))' =
           SubSeq(Items(s), 1, p) \o SubSeq(Items(s), p + 2, Len(Items(s)))
<1> DEFINE items == Items(s)
           t == Deleted(s, p)
           other == [k \in DOMAIN t |-> heap'[t[k]].data]
           front == SubSeq(items, 1, p)
           back == SubSeq(items, p + 2, Len(items))
           l == Len(s)
<1>1. /\ items \in Seq(Data) /\ Len(items) = l /\ l \in Nat
      /\ \A k \in 1 .. l : items[k] = heap[s[k]].data /\ items[k] \in Data
  BY ItemsSeq
<1>2. /\ t \in Seq(Nodes) /\ Len(t) = l - 1
      /\ \A i \in 1 .. p : t[i] = s[i]
      /\ \A i \in p + 1 .. l - 1 : t[i] = s[i + 1]
  <2>1. s \in Seq(Nodes)
    BY DEF Linked
  <2> QED
    BY <2>1, DeletedSeq
<1>3. \A i \in 1 .. Len(t) : heap'[t[i]].data = heap[t[i]].data
  BY DEF DataKept
<1>4. Items(Deleted(s, p))' = other
  BY DEF Items
<1> HIDE DEF items, t
<1>5. /\ p \in Nat /\ 1 .. p \subseteq 1 .. l /\ p + 2 .. l \subseteq 1 .. l /\ p <= l - 1
      /\ l - 1 \in Nat /\ 1 .. p \subseteq 1 .. l - 1 /\ p + 1 .. l - 1 \subseteq 1 .. l - 1
      /\ \A k \in p + 1 .. l - 1 : k + 1 \in 1 .. l
      /\ \A k \in 1 .. l - 1 : k \in 1 .. p \/ k \in p + 1 .. l - 1
  BY <1>1
<1> HIDE DEF l
<1>6. DOMAIN t = 1 .. l - 1 /\ other = [k \in 1 .. l - 1 |-> heap'[t[k]].data]
  BY <1>1, <1>2
<1>7. /\ \A k \in 1 .. p : other[k] = items[k]
      /\ \A k \in p + 1 .. l - 1 : other[k] = items[k + 1]
  <2> HIDE DEF other
  <2>1. \A k \in 1 .. l - 1 : other[k] = heap[t[k]].data
    BY <1>2, <1>3, <1>6
  <2>2. ASSUME NEW k \in 1 .. p PROVE other[k] = items[k]
    <3>1. k \in 1 .. l - 1 /\ k \in 1 .. l
      BY <1>5
    <3> QED
      BY <1>1, <1>2, <2>1, <3>1
  <2>3. ASSUME NEW k \in p + 1 .. l - 1 PROVE other[k] = items[k + 1]
    <3>1. k \in 1 .. l - 1 /\ k + 1 \in 1 .. l
      BY <1>5
    <3> QED
      BY <1>1, <1>2, <2>1, <3>1
  <2> QED
    BY <2>2, <2>3
<1>8. other \in Seq(Data) /\ Len(other) = l - 1
  <2> DEFINE w(k) == heap'[t[k]].data
  <2>1. ASSUME NEW k \in 1 .. l - 1 PROVE w(k) \in Data
    <3>1. other[k] \in Data
      <4> HIDE DEF other
      <4> QED
        BY <1>1, <1>5, <1>7
    <3> QED
      BY <1>6, <3>1
  <2> HIDE DEF w
  <2>2. [k \in 1 .. l - 1 |-> w(k)] \in Seq(Data) /\ Len([k \in 1 .. l - 1 |-> w(k)]) = l - 1
    BY <1>5, <2>1
  <2> QED
    BY <1>6, <2>2 DEF w
<1> HIDE DEF other
<1>9. /\ front \in Seq(Data) /\ Len(front) = p
      /\ \A i \in 1 .. p : front[i] = items[i]
  <2>1. /\ front \in Seq(Data) /\ Len(front) = IF 1 <= p THEN p - 1 + 1 ELSE 0
        /\ \A i \in 1 .. p - 1 + 1 : front[i] = items[1 + i - 1]
    BY <1>1, <1>5, SubSeqProperties
  <2> HIDE DEF front
  <2>2. p - 1 + 1 = p /\ \A i \in 1 .. p : 1 + i - 1 = i
    BY <1>5
  <2> QED
    BY <1>5, <2>1, <2>2
<1>10. /\ back \in Seq(Data) /\ Len(back) = l - 1 - p
       /\ \A i \in 1 .. l - 1 - p : back[i] = items[p + 1 + i]
  <2>1. /\ back \in Seq(Data) /\ Len(back) = IF p + 2 <= l THEN l - (p + 2) + 1 ELSE 0
        /\ \A i \in 1 .. l - (p + 2) + 1 : back[i] = items[p + 2 + i - 1]
    <3>1. p + 2 \in Int /\ l \in Int /\ back = SubSeq(items, p + 2, l)
      BY <1>1, <1>5
    <3> HIDE DEF back
    <3> QED
      BY <1>1, <1>5, <3>1, SubSeqProperties
  <2> HIDE DEF back
  <2>2. l - (p + 2) + 1 = l - 1 - p /\ \A i \in 1 .. l - 1 - p : p + 2 + i - 1 = p + 1 + i
    BY <1>1, <1>5
  <2> QED
    BY <1>1, <1>5, <2>1, <2>2
<1> HIDE DEF front, back
<1> DEFINE whole == front \o back
<1>11. /\ whole \in Seq(Data)
       /\ Len(whole) = p + (l - 1 - p)
       /\ \A i \in 1 .. p + (l - 1 - p) : whole[i] = IF i <= p THEN front[i] ELSE back[i - p]
  <2>1. /\ whole \in Seq(Data)
        /\ Len(whole) = Len(front) + Len(back)
        /\ \A i \in 1 .. Len(front) + Len(back) :
             whole[i] = IF i <= Len(front) THEN front[i] ELSE back[i - Len(front)]
    BY <1>9, <1>10, ConcatProperties
  <2> HIDE DEF whole
  <2> QED
    BY <1>9, <1>10, <2>1
<1>12. p + (l - 1 - p) = l - 1
  BY <1>1, <1>5
<1> HIDE DEF whole
<1>13. ASSUME NEW i \in 1 .. l - 1 PROVE other[i] = whole[i]
  <2>1. CASE i \in 1 .. p
    BY <1>5, <1>7, <1>9, <1>11, <1>12, <2>1
  <2>2. CASE i \in p + 1 .. l - 1
    <3>1. ~(i <= p) /\ i - p \in 1 .. l - 1 - p /\ p + 1 + (i - p) = i + 1
      BY <1>1, <1>5, <2>2
    <3>2. back[i - p] = items[i + 1]
      BY <1>10, <3>1
    <3> QED
      BY <1>7, <1>11, <1>12, <2>2, <3>1, <3>2
  <2> QED
    BY <1>5, <2>1, <2>2
<1>14. other = whole
  BY <1>8, <1>11, <1>12, <1>13, SeqEqual
<1> QED
  BY <1>4, <1>14 DEF front, back, whole, items

-----------------------------------------------------------------------------
(* Steps.                                                                  *)

LEMMA HeadNode ==
  ASSUME NEW s, Linked(heap, head, s)
  PROVE  head \in DOMAIN heap <=> Len(s) # 0
<1>1. s \in Seq(Nodes) /\ Len(s) \in Nat
  BY DEF Linked
<1>2. CASE Len(s) = 0
  BY <1>2 DEF Linked
<1>3. CASE Len(s) # 0
  <2>1. 1 \in 1 .. Len(s)
    BY <1>1, <1>3
  <2> QED
    BY <1>3, <2>1, TailKnown
<1> QED
  BY <1>2, <1>3

(* An insertion puts a new node at the position the call means.            *)
Inserts(s, d, position) ==
  \E n \in Nodes \ DOMAIN heap, p \in 0 .. Len(s) :
    /\ p = PL!Place(position, Len(s))
    /\ Linked(heap', head', Inserted(s, p, n))
    /\ Adds(n, d)

LEMMA InsertStep ==
  ASSUME NEW s, Linked(heap, head, s), NEW d \in Data, NEW position \in Int,
         Insert(d, position)
  PROVE  \/ kind' = kind /\ status' = status /\ Inserts(s, d, position)
         \/ End
<1>1. s \in Seq(Nodes) /\ Len(s) \in Nat /\ position \in Int
  BY ListsAssumption DEF Linked
<1>2. ASSUME position = 0, head \in DOMAIN heap \cup {NULL},
             NEW n \in Free, InsertAtHead(n, d), UNCHANGED <<kind, status>>
      PROVE  Inserts(s, d, position)
  <2>1. Linked(heap', head', Inserted(s, 0, n)) /\ Adds(n, d)
    BY <1>2, InsertAtHeadLinks
  <2>2. 0 = PL!Place(position, Len(s)) /\ 0 \in 0 .. Len(s)
    BY <1>1, <1>2 DEF PL!Place
  <2>3. n \in Nodes \ DOMAIN heap
    BY DEF Free
  <2> QED
    BY <2>1, <2>2, <2>3 DEF Inserts
<1>3. ASSUME position # 0, head \in DOMAIN heap,
             NEW n \in Free, InsertBehind(n, d, Last(WayTo(heap, position))),
             UNCHANGED <<kind, status>>
      PROVE  Inserts(s, d, position)
  <2> DEFINE p == Reached(s, position)
  <2>1. Len(s) # 0
    BY <1>3, HeadNode
  <2>2. p \in 1 .. Len(s) /\ Last(WayTo(heap, position)) = s[p]
    BY <1>1, <2>1, WayReaches
  <2>3. p = PL!Place(position, Len(s))
    BY <1>1, <1>3, <2>1, InsertPlace
  <2> HIDE DEF p
  <2>4. Linked(heap', head', Inserted(s, p, n)) /\ Adds(n, d)
    BY <1>3, <2>2, InsertBehindLinks
  <2>5. n \in Nodes \ DOMAIN heap /\ p \in 0 .. Len(s)
    BY <1>1, <2>2 DEF Free
  <2> QED
    BY <2>3, <2>4, <2>5 DEF Inserts
<1> QED
  BY <1>2, <1>3 DEF Insert

(* A removal frees the node at the position the call means.                *)
Removes(s, position) ==
  /\ Len(s) # 0
  /\ \E p \in 0 .. Len(s) - 1 :
       /\ p = PL!Place(position, Len(s) - 1)
       /\ Linked(heap', head', Deleted(s, p))
       /\ DataKept

LEMMA RemoveStep ==
  ASSUME NEW s, Linked(heap, head, s), NEW position \in Int, Remove(position)
  PROVE  \/ kind' = kind /\ status' = status /\ Removes(s, position)
         \/ End
         \/ UNCHANGED vars
<1>1. s \in Seq(Nodes) /\ Len(s) \in Nat /\ position \in Int
  BY ListsAssumption DEF Linked
<1>2. ASSUME position = 0, RemoveAtHead
      PROVE  kind' = kind /\ status' = status /\ Removes(s, position)
  <2>1. Len(s) # 0 /\ Removed(WithoutHead(heap))
    BY <1>2, HeadNode DEF RemoveAtHead
  <2>2. Linked(heap', head', Deleted(s, 0)) /\ DataKept
    BY <2>1, WithoutHeadLinks
  <2>3. 0 = PL!Place(position, Len(s) - 1) /\ 0 \in 0 .. Len(s) - 1
    <3> DEFINE last == Len(s) - 1
    <3>1. last \in Nat
      BY <1>1, <2>1
    <3> HIDE DEF last
    <3>2. 0 = PL!Place(position, last) /\ 0 \in 0 .. last
      BY <1>2, <3>1 DEF PL!Place
    <3> QED
      BY <3>2 DEF last
  <2>4. kind' = kind /\ status' = status
    BY <2>1 DEF Removed
  <2> QED
    BY <2>1, <2>2, <2>3, <2>4 DEF Removes
<1>3. ASSUME position # 0, RemoveBehind(position)
      PROVE  kind' = kind /\ status' = status /\ Removes(s, position)
  <2> DEFINE r == Reached(s, position)
             way == WayTo(heap, position)
  <2>1. Len(s) # 0
    BY <1>3, HeadNode DEF RemoveBehind
  <2>2. /\ r \in 1 .. Len(s) /\ Len(way) = r /\ Last(way) = s[r]
        /\ \A k \in 1 .. r : way[k] = s[k]
    BY <1>1, <2>1, WayReaches
  <2>3. PL!Place(position, Len(s) - 1) = IF r = Len(s) THEN Len(s) - 1 ELSE r
    BY <1>1, <1>3, <2>1, RemovePlace
  <2>4. Removed(IF heap[Last(way)].next \in {NULL, head} THEN WithoutTail(heap, way)
                ELSE WithoutNext(heap, Last(way)))
    BY <1>3 DEF RemoveBehind
  <2> HIDE DEF r, way
  <2>5. heap[s[r]].next \in {NULL, head} <=> r = Len(s)
    BY <2>2, TailKnown
  <2>6. CASE r = Len(s)
    <3>1. Removed(WithoutTail(heap, way))
      BY <2>2, <2>4, <2>5, <2>6
    <3>2. Linked(heap', head', Deleted(s, Len(s) - 1)) /\ DataKept
      BY <2>1, <2>2, <2>6, <3>1, WithoutTailLinks
    <3>3. Len(s) - 1 \in 0 .. Len(s) - 1
      BY <1>1, <2>1
    <3>4. kind' = kind /\ status' = status
      BY <3>1 DEF Removed
    <3> QED
      BY <2>1, <2>3, <2>6, <3>2, <3>3, <3>4 DEF Removes
  <2>7. CASE r # Len(s)
    <3>1. Removed(WithoutNext(heap, s[r]))
      BY <2>2, <2>4, <2>5, <2>7
    <3>2. r \in 1 .. Len(s) - 1 /\ r \in 0 .. Len(s) - 1
      BY <1>1, <2>2, <2>7
    <3>3. Linked(heap', head', Deleted(s, r)) /\ DataKept
      BY <3>1, <3>2, WithoutNextLinks
    <3>4. kind' = kind /\ status' = status
      BY <3>1 DEF Removed
    <3> QED
      BY <2>1, <2>3, <2>7, <3>2, <3>3, <3>4 DEF Removes
  <2> QED
    BY <2>6, <2>7
<1> QED
  BY <1>2, <1>3 DEF Remove, RemoveNothing, RemoveEnds

LEMMA RemoveAllStep ==
  ASSUME NEW s, Linked(heap, head, s), RemoveAll
  PROVE  \/ kind' = kind /\ status' = status /\ Linked(heap', head', <<>>)
         \/ End
<1>1. CASE head \in DOMAIN heap \cup {NULL}
  <2>1. kind' = kind /\ status' = status
    BY <1>1 DEF RemoveAll, Removed
  <2> QED
    BY <1>1, <2>1, RemoveAllLinks
<1>2. CASE ~(head \in DOMAIN heap \cup {NULL})
  BY <1>2 DEF RemoveAll
<1> QED
  BY <1>1, <1>2

-----------------------------------------------------------------------------
(* The inductive invariant: the nodes the walk from head passes are all    *)
(* that is allocated, linked in the way of the kind of list.               *)
IInv ==
  /\ kind \in {"sll", "dll", "scll"}
  /\ status \in {"running", "ended"}
  /\ Linked(heap, head, All(heap))

LEMMA LinkedNext ==
  ASSUME NEW t, Linked(heap', head', t), kind' = kind
  PROVE  Linked(heap, head, t)' /\ All(heap)' = t
<1>1. Linked(heap, head, t)'
  BY DEF Linked, Records
<1> QED
  BY <1>1, AllPassedNext

LEMMA KeepsIInv ==
  ASSUME IInv, NEW t, Linked(heap', head', t), kind' = kind, status' \in {"running", "ended"}
  PROVE  IInv'
<1>1. Linked(heap, head, t)' /\ All(heap)' = t
  BY LinkedNext
<1>2. Linked(heap, head, All(heap))'
  BY <1>1
<1> QED
  BY <1>2 DEF IInv

LEMMA InitIInv == Init => IInv /\ All(heap) = <<>>
<1> SUFFICES ASSUME Init PROVE IInv /\ All(heap) = <<>>
  OBVIOUS
<1>1. Linked(heap, head, <<>>)
  BY DEF Init, Linked, Links, Records
<1>2. All(heap) = <<>>
  BY <1>1, AllPassed
<1> QED
  BY <1>1, <1>2 DEF Init, IInv

LEMMA NextIInv == IInv /\ [Next]_vars => IInv'
<1> SUFFICES ASSUME IInv, [Next]_vars PROVE IInv'
  OBVIOUS
<1> DEFINE s == All(heap)
<1>1. Linked(heap, head, s) /\ status \in {"running", "ended"}
  BY DEF IInv
<1> HIDE DEF s
<1>2. ASSUME UNCHANGED <<kind, heap, head>>, status' \in {"running", "ended"} PROVE IInv'
  BY <1>1, <1>2, KeepsIInv
<1>3. CASE UNCHANGED vars
  BY <1>1, <1>2, <1>3 DEF vars
<1>4. CASE End
  BY <1>2, <1>4 DEF End
<1>5. ASSUME NEW d \in Data, NEW position \in Positions, Insert(d, position) PROVE IInv'
  <2>1. CASE kind' = kind /\ status' = status /\ Inserts(s, d, position)
    BY <1>1, <2>1, KeepsIInv DEF Inserts
  <2> QED
    BY <1>1, <1>4, <1>5, <2>1, InsertStep, ListsAssumption
<1>6. ASSUME NEW position \in Positions, Remove(position) PROVE IInv'
  <2>1. CASE kind' = kind /\ status' = status /\ Removes(s, position)
    BY <1>1, <2>1, KeepsIInv DEF Removes
  <2> QED
    BY <1>1, <1>3, <1>4, <1>6, <2>1, RemoveStep, ListsAssumption
<1>7. CASE RemoveAll
  <2>1. CASE kind' = kind /\ status' = status /\ Linked(heap', head', <<>>)
    BY <1>1, <2>1, KeepsIInv
  <2> QED
    BY <1>1, <1>4, <1>7, <2>1, RemoveAllStep
<1> QED
  BY <1>3, <1>5, <1>6, <1>7 DEF Next

LEMMA SpecIInv == Spec => []IInv
BY InitIInv, NextIInv, PTL DEF Spec

(* All nodes hold data and links to nodes, or NULL.                        *)
THEOREM ListsTypeCorrect == Spec => []TypeOK
<1>1. IInv => TypeOK
  <2> SUFFICES ASSUME IInv PROVE TypeOK
    OBVIOUS
  <2>1. Linked(heap, head, All(heap))
    BY DEF IInv
  <2>2. DOMAIN heap \subseteq Nodes /\ Records(heap) /\ head \in Links
    BY <2>1 DEF Linked
  <2> QED
    BY <2>2 DEF IInv, TypeOK, Records
<1> QED
  BY <1>1, SpecIInv, PTL

(* In all three lists, whatever positions the caller passes, the nodes     *)
(* from head on are all that is allocated, the tail leads nowhere or to    *)
(* head, and the prev pointers of dll are its next pointers backwards.     *)
THEOREM ListsWellLinked == Spec => []WellLinked
<1>1. IInv => WellLinked
  <2> SUFFICES ASSUME IInv PROVE WellLinked
    OBVIOUS
  <2> DEFINE s == All(heap)
  <2>1. Linked(heap, head, s)
    BY DEF IInv
  <2> HIDE DEF s
  <2>2. s \in Seq(Nodes) /\ Len(s) \in Nat /\ DOMAIN s = 1 .. Len(s)
    BY <2>1 DEF Linked
  <2>3. {s[k] : k \in DOMAIN s} = DOMAIN heap
    BY <2>1, <2>2 DEF Linked
  <2>4. head \notin DOMAIN heap => head = NULL \/ kind = "dll"
    <3>1. head \notin DOMAIN heap => Len(s) = 0
      BY <2>1, HeadNode
    <3> QED
      BY <2>1, <3>1 DEF Linked
  <2>5. s # <<>> => heap[Last(s)].next = IF kind = "scll" THEN head ELSE NULL
    <3> SUFFICES ASSUME s # <<>> PROVE heap[Last(s)].next = IF kind = "scll" THEN head ELSE NULL
      OBVIOUS
    <3>1. Len(s) # 0
      BY <2>2, EmptySeq
    <3>2. Len(s) \in 1 .. Len(s) /\ ~(Len(s) < Len(s))
      BY <2>2, <3>1
    <3> QED
      BY <2>1, <3>2 DEF Linked, Last
  <2>6. kind = "dll" => \A k \in DOMAIN s : heap[s[k]].prev = IF k = 1 THEN NULL ELSE s[k - 1]
    BY <2>1, <2>2 DEF Linked
  <2> QED
    BY <2>3, <2>4, <2>5, <2>6 DEF WellLinked, NothingLost, ReadsBackwards, s
<1> QED
  BY <1>1, SpecIInv, PTL

-----------------------------------------------------------------------------
(* Refinement.                                                             *)

items == [k \in DOMAIN All(heap) |-> heap[All(heap)[k]].data]

LEMMA ItemsShown ==
  /\ items = Items(All(heap))
  /\ \A t : All(heap)' = t => items' = Items(t)'
BY DEF items, Items

LEMMA InsertIsInsert ==
  ASSUME NEW s, Linked(heap, head, s), NEW d \in Data, NEW position \in Positions,
         kind' = kind, Inserts(s, d, position)
  PROVE  PL!Insert(d, position)
<1>1. All(heap) = s
  BY AllPassed
<1>2. PICK n \in Nodes \ DOMAIN heap, p \in 0 .. Len(s) :
        /\ p = PL!Place(position, Len(s))
        /\ Linked(heap', head', Inserted(s, p, n))
        /\ Adds(n, d)
  BY DEF Inserts
<1>3. items = Items(s) /\ Len(Items(s)) = Len(s)
  BY <1>1, ItemsShown, ItemsSeq
<1>4. items' = Items(Inserted(s, p, n))'
  <2>1. All(heap)' = Inserted(s, p, n)
    BY <1>2, LinkedNext
  <2> QED
    BY <2>1, ItemsShown
<1>5. items' = SubSeq(items, 1, p) \o <<d>> \o SubSeq(items, p + 1, Len(items))
  BY <1>2, <1>3, <1>4, InsertedItems
<1>6. p = PL!Place(position, Len(items))
  BY <1>2, <1>3
<1> QED
  BY <1>5, <1>6 DEF PL!Insert, items

LEMMA RemoveIsRemove ==
  ASSUME NEW s, Linked(heap, head, s), NEW position \in Positions,
         kind' = kind, Removes(s, position)
  PROVE  PL!Remove(position)
<1>1. All(heap) = s
  BY AllPassed
<1>2. PICK p \in 0 .. Len(s) - 1 :
        /\ p = PL!Place(position, Len(s) - 1)
        /\ Linked(heap', head', Deleted(s, p))
        /\ DataKept
  BY DEF Removes
<1>3. items = Items(s) /\ Len(Items(s)) = Len(s) /\ Len(s) # 0
  BY <1>1, ItemsShown, ItemsSeq DEF Removes
<1>4. items' = Items(Deleted(s, p))'
  <2>1. All(heap)' = Deleted(s, p)
    BY <1>2, LinkedNext
  <2> QED
    BY <2>1, ItemsShown
<1>5. DOMAIN heap' = {Deleted(s, p)[i] : i \in 1 .. Len(Deleted(s, p))}
  BY <1>2 DEF Linked
<1>6. items' = SubSeq(items, 1, p) \o SubSeq(items, p + 2, Len(items))
  BY <1>2, <1>3, <1>4, <1>5, DeletedItems
<1>7. p = PL!Place(position, Len(items) - 1) /\ items # <<>>
  BY <1>2, <1>3
<1> QED
  BY <1>6, <1>7 DEF PL!Remove, items

LEMMA InitRefines == Init => PL!Init
<1> SUFFICES ASSUME Init PROVE PL!Init
  OBVIOUS
<1>1. items = <<>>
  <2>1. All(heap) = <<>>
    BY InitIInv
  <2> QED
    BY <2>1 DEF items
<1>2. (kind = "sll") \in BOOLEAN
  OBVIOUS
<1> QED
  BY <1>1, <1>2 DEF PL!Init, items

LEMMA StepRefines == IInv /\ [Next]_vars => [PL!Next]_(PL!vars)
<1> SUFFICES ASSUME IInv, [Next]_vars PROVE [PL!Next]_(PL!vars)
  OBVIOUS
<1>1. PICK s : s = All(heap) /\ Linked(heap, head, s)
  BY DEF IInv
<1>2. ASSUME UNCHANGED <<kind, heap, head>> PROVE UNCHANGED PL!vars
  <2>1. All(heap)' = All(heap)
    BY <1>1, <1>2, LinkedNext
  <2>2. items' = items
    BY <1>2, <2>1 DEF items
  <2> QED
    BY <1>2, <2>2 DEF PL!vars, items
<1>3. CASE UNCHANGED vars
  BY <1>2, <1>3 DEF vars
<1>4. CASE End
  BY <1>2, <1>4 DEF End
<1>5. ASSUME NEW d \in Data, NEW position \in Positions, Insert(d, position)
      PROVE  [PL!Next]_(PL!vars)
  <2>1. CASE kind' = kind /\ Inserts(s, d, position)
    BY <1>1, <2>1, InsertIsInsert DEF PL!Next
  <2> QED
    BY <1>1, <1>4, <1>5, <2>1, InsertStep, ListsAssumption
<1>6. ASSUME NEW position \in Positions, Remove(position)
      PROVE  [PL!Next]_(PL!vars)
  <2>1. CASE kind' = kind /\ Removes(s, position)
    BY <1>1, <2>1, RemoveIsRemove DEF PL!Next
  <2> QED
    BY <1>1, <1>3, <1>4, <1>6, <2>1, RemoveStep, ListsAssumption
<1>7. CASE RemoveAll
  <2>1. CASE kind' = kind /\ Linked(heap', head', <<>>)
    <3>1. All(heap)' = <<>>
      BY <2>1, LinkedNext
    <3>2. items' = <<>>
      BY <3>1 DEF items
    <3> QED
      BY <2>1, <3>2 DEF PL!Next, PL!RemoveAll, items
  <2> QED
    BY <1>1, <1>4, <1>7, <2>1, RemoveAllStep
<1> QED
  BY <1>3, <1>5, <1>6, <1>7 DEF Next

(* What the walks and the assignments of pointers amount to: an item is    *)
(* put in or taken out where the position says, no other item moves.       *)
THEOREM ListsRefinePositionList == Spec => ImplementsPositionList
BY InitRefines, StepRefines, SpecIInv, PTL
DEF Spec, ImplementsPositionList, PL!Spec

-----------------------------------------------------------------------------
(* The stack on a dll (MiddleStack).                                       *)

(* The pointer to the middle of the list s, of which there are c items.    *)
Midway(s, c, m) ==
  /\ c = Len(s)
  /\ m = IF Len(s) = 0 THEN NULL ELSE s[Len(s) \div 2 + 1]

(* A stack only ever removes its head, so that head never dangles.         *)
MiddleInv ==
  /\ IInv
  /\ kind = "dll"
  /\ head \in DOMAIN heap \cup {NULL}
  /\ Midway(All(heap), count, middle)

LEMMA KeepsMiddleInv ==
  ASSUME MiddleInv, NEW t, Linked(heap', head', t), kind' = kind, status' \in {"running", "ended"},
         head' \in DOMAIN heap' \cup {NULL}, Midway(t, count', middle')
  PROVE  MiddleInv'
<1>1. IInv'
  BY KeepsIInv DEF MiddleInv
<1>2. All(heap)' = t
  BY LinkedNext
<1>3. Midway(All(heap), count, middle)'
  BY <1>2 DEF Midway
<1> QED
  BY <1>1, <1>3 DEF MiddleInv

LEMMA Halves ==
  ASSUME NEW l \in Nat
  PROVE  /\ l \div 2 \in Nat
         /\ (l + 1) % 2 = 1 => (l + 1) \div 2 = l \div 2
         /\ (l + 1) % 2 # 1 => (l + 1) \div 2 = l \div 2 + 1
         /\ (l + 1) % 2 \in {0, 1}
         /\ l # 0 => l \div 2 + 1 \in 1 .. l
OBVIOUS

LEMMA PushKeepsMiddle ==
  ASSUME MiddleInv, NEW d \in Data, MiddlePush(d), status = "running"
  PROVE  MiddleInv'
<1> DEFINE s == All(heap)
           l == Len(s)
<1>1. Linked(heap, head, s) /\ Midway(s, count, middle) /\ kind = "dll"
  BY DEF MiddleInv, IInv
<1> HIDE DEF s
<1>2. s \in Seq(Nodes) /\ l \in Nat
  BY <1>1 DEF Linked
<1>3. Insert(d, 0) /\ head \in DOMAIN heap \cup {NULL}
  BY DEF MiddlePush, MiddleInv
<1>4. PICK n \in Free : InsertAtHead(n, d) /\ kind' = kind /\ status' = status
  BY <1>3 DEF Insert
<1> DEFINE t == Inserted(s, 0, n)
<1>5. Linked(heap', head', t)
  BY <1>1, <1>3, <1>4, InsertAtHeadLinks
<1>6. n \in Nodes /\ 0 \in 0 .. l
  BY <1>2 DEF Free
<1>7. Len(t) = l + 1 /\ t[1] = n /\ \A i \in 1 .. l : t[i + 1] = s[i]
  <2>1. Len(t) = l + 1 /\ t[0 + 1] = n /\ \A i \in 0 + 1 .. l : t[i + 1] = s[i]
    BY <1>2, <1>6, InsertedSeq
  <2> HIDE DEF t, l
  <2> QED
    BY <2>1
<1>8. head' = n
  BY <1>4 DEF InsertAtHead
<1> HIDE DEF t
<1>9. \A i \in 1 .. l : heap'[t[i + 1]].prev = t[i]
  <2> TAKE i \in 1 .. l
  <2>1. i + 1 \in 1 .. Len(t) /\ i + 1 # 1 /\ (i + 1) - 1 = i
    BY <1>2, <1>7
  <2>2. heap'[t[i + 1]].prev = t[(i + 1) - 1]
    BY <1>1, <1>5, <2>1 DEF Linked
  <2> QED
    BY <2>1, <2>2
<1>10. count' = l + 1
  BY <1>1 DEF MiddlePush, Midway
<1>11. middle' = IF l + 1 = 1 THEN n ELSE IF (l + 1) % 2 = 1 THEN heap'[middle].prev ELSE middle
  BY <1>8, <1>10 DEF MiddlePush
<1>12. Midway(t, count', middle')
  <2>1. SUFFICES middle' = t[(l + 1) \div 2 + 1]
    BY <1>2, <1>7, <1>10 DEF Midway
  <2>2. CASE l = 0
    <3>1. (l + 1) \div 2 + 1 = 1
      BY <2>2
    <3> QED
      BY <1>7, <1>11, <2>2, <3>1
  <2>3. CASE l # 0
    <3> DEFINE i == l \div 2 + 1
    <3>1. i \in 1 .. l /\ middle = s[i] /\ middle = t[i + 1]
      BY <1>1, <1>2, <1>7, <2>3, Halves DEF Midway
    <3>2. l + 1 # 1
      BY <1>2, <2>3
    <3>3. CASE (l + 1) % 2 = 1
      <4>1. (l + 1) \div 2 + 1 = i
        BY <1>2, <3>3, Halves
      <4>2. heap'[t[i + 1]].prev = t[i]
        BY <1>9, <3>1
      <4> QED
        BY <1>11, <3>1, <3>2, <3>3, <4>1, <4>2
    <3>4. CASE (l + 1) % 2 # 1
      <4>1. (l + 1) \div 2 + 1 = i + 1
        BY <1>2, <3>4, Halves
      <4> QED
        BY <1>11, <3>1, <3>2, <3>4, <4>1
    <3> QED
      BY <3>3, <3>4
  <2> QED
    BY <2>2, <2>3
<1>13. head' \in DOMAIN heap'
  <2>1. 1 \in 1 .. Len(t)
    BY <1>2, <1>7
  <2> QED
    BY <1>5, <1>7, <1>8, <2>1 DEF Linked
<1> QED
  BY <1>4, <1>5, <1>12, <1>13, KeepsMiddleInv DEF MiddleInv, IInv

LEMMA PopKeepsMiddle ==
  ASSUME MiddleInv, MiddlePop, status = "running"
  PROVE  MiddleInv'
<1> DEFINE s == All(heap)
           l == Len(s)
           t == Deleted(s, 0)
<1>1. Linked(heap, head, s) /\ Midway(s, count, middle) /\ kind = "dll"
  BY DEF MiddleInv, IInv
<1> HIDE DEF s
<1>2. s \in Seq(Nodes) /\ l \in Nat
  BY <1>1 DEF Linked
<1>3. head # NULL /\ Remove(0) /\ head \in DOMAIN heap
  BY DEF MiddlePop, MiddleInv
<1>4. l # 0
  BY <1>1, <1>3, HeadNode
<1>5. Removed(WithoutHead(heap))
  BY <1>3 DEF Remove, RemoveAtHead, RemoveNothing, RemoveEnds
<1>6. Linked(heap', head', t) /\ kind' = kind /\ status' = status
  BY <1>1, <1>4, <1>5, WithoutHeadLinks DEF Removed
<1>7. 0 \in 0 .. l - 1 /\ l - 1 \in Nat
  BY <1>2, <1>4
<1>8. Len(t) = l - 1 /\ \A i \in 1 .. l - 1 : t[i] = s[i + 1]
  BY <1>2, <1>4, <1>7, DeletedSeq
<1> HIDE DEF t
<1>9. \A i \in 1 .. l - 2 : heap'[t[i]].next = t[i + 1]
  <2> TAKE i \in 1 .. l - 2
  <2>1. i \in 1 .. Len(t) /\ i < Len(t)
    BY <1>2, <1>8
  <2> QED
    BY <1>6, <2>1 DEF Linked
<1>10. count' = l - 1
  BY <1>1 DEF MiddlePop, Midway
<1>11. middle' = IF l - 1 = 0 THEN NULL ELSE IF (l - 1) % 2 = 0 THEN heap'[middle].next ELSE middle
  BY <1>10 DEF MiddlePop
<1>12. Midway(t, count', middle')
  <2>1. SUFFICES middle' = IF l - 1 = 0 THEN NULL ELSE t[(l - 1) \div 2 + 1]
    BY <1>8, <1>10 DEF Midway
  <2>2. CASE l - 1 = 0
    BY <1>11, <2>2
  <2>3. CASE l - 1 # 0
    <3> DEFINE i == l \div 2
    <3>1. i + 1 \in 1 .. l /\ i \in 1 .. l - 1
      <4> HIDE DEF l
      <4> QED
        BY <1>2, <1>4, <2>3
    <3>2. middle = s[i + 1] /\ middle = t[i]
      BY <1>1, <1>4, <1>8, <3>1 DEF Midway
    <3>3. CASE (l - 1) % 2 = 0
      <4>1. (l - 1) \div 2 = i /\ i \in 1 .. l - 2
        BY <1>2, <2>3, <3>1, <3>3
      <4>2. heap'[t[i]].next = t[i + 1]
        BY <1>9, <4>1
      <4> QED
        BY <1>11, <2>3, <3>2, <3>3, <4>1, <4>2
    <3>4. CASE (l - 1) % 2 # 0
      <4>1. (l - 1) \div 2 + 1 = i
        BY <1>2, <2>3, <3>4
      <4> QED
        BY <1>11, <2>3, <3>2, <3>4, <4>1
    <3> QED
      BY <3>3, <3>4
  <2> QED
    BY <2>2, <2>3
<1>13. head' \in DOMAIN heap' \cup {NULL}
  <2>1. CASE Len(t) = 0
    <3>1. l = 1
      BY <1>2, <1>8, <2>1
    <3>2. s[1] = head /\ 1 \in 1 .. Len(s) /\ heap[s[1]].next = NULL
      BY <1>1, <1>2, <3>1 DEF Linked
    <3> QED
      BY <1>5, <3>2 DEF Removed, WithoutHead
  <2>2. CASE Len(t) # 0
    <3>1. 1 \in 1 .. Len(t) /\ head' = t[1]
      BY <1>2, <1>6, <1>8, <2>2 DEF Linked
    <3> QED
      BY <1>6, <3>1 DEF Linked
  <2> QED
    BY <2>1, <2>2
<1> QED
  BY <1>6, <1>12, <1>13, KeepsMiddleInv DEF MiddleInv, IInv

(* However a sequence of pushes and pops goes, which move the pointer by   *)
(* one node each second time, it is at the middle of the list.             *)
THEOREM MiddleStackKnowsMiddle == MiddleSpec => []MiddleKept
<1>1. MiddleInit => MiddleInv
  <2> SUFFICES ASSUME MiddleInit PROVE MiddleInv
    OBVIOUS
  <2>1. IInv /\ All(heap) = <<>> /\ head = NULL /\ kind = "dll"
    BY InitIInv DEF MiddleInit, Init
  <2>2. Midway(<<>>, count, middle)
    BY DEF MiddleInit, Midway
  <2> QED
    BY <2>1, <2>2 DEF MiddleInv
<1>2. MiddleInv /\ [MiddleNext]_<<vars, stack>> => MiddleInv'
  <2> SUFFICES ASSUME MiddleInv, [MiddleNext]_<<vars, stack>> PROVE MiddleInv'
    OBVIOUS
  <2>1. Linked(heap, head, All(heap)) /\ status \in {"running", "ended"}
    BY DEF MiddleInv, IInv
  <2>2. ASSUME UNCHANGED <<kind, heap, head, middle, count>>, status' \in {"running", "ended"}
        PROVE  MiddleInv'
    BY <2>1, <2>2, KeepsMiddleInv DEF MiddleInv, Midway
  <2>3. CASE UNCHANGED <<vars, stack>>
    BY <2>1, <2>2, <2>3 DEF vars, stack
  <2>4. ASSUME status = "running", NEW d \in Data, MiddlePush(d) PROVE MiddleInv'
    BY <2>4, PushKeepsMiddle
  <2>5. CASE status = "running" /\ MiddlePop
    BY <2>5, PopKeepsMiddle
  <2>6. CASE MiddlePopEmpty
    BY <2>2, <2>6 DEF MiddlePopEmpty, End, stack
  <2>7. CASE status = "running" /\ MiddleDeallocate
    <3>1. RemoveAll /\ head \in DOMAIN heap \cup {NULL}
      BY <2>7 DEF MiddleDeallocate, MiddleInv
    <3>2. Linked(heap', head', <<>>)
      BY <2>1, <3>1, RemoveAllLinks
    <3>3. kind' = kind /\ status' = status /\ head' = NULL
      BY <3>1 DEF RemoveAll, Removed
    <3>4. Midway(<<>>, count', middle')
      BY <2>7 DEF MiddleDeallocate, Midway
    <3> QED
      BY <2>1, <3>2, <3>3, <3>4, KeepsMiddleInv
  <2> QED
    BY <2>3, <2>4, <2>5, <2>6, <2>7 DEF MiddleNext
<1>3. MiddleInv => MiddleKept
  <2> SUFFICES ASSUME MiddleInv PROVE MiddleKept
    OBVIOUS
  <2> DEFINE s == All(heap)
  <2>1. Linked(heap, head, s) /\ Midway(s, count, middle)
    BY DEF MiddleInv, IInv
  <2> HIDE DEF s
  <2>2. Len(s) = 0 <=> s = <<>>
    BY <2>1, EmptySeq DEF Linked
  <2> QED
    BY <2>1, <2>2 DEF MiddleKept, Midway, s
<1> QED
  BY <1>1, <1>2, <1>3, PTL DEF MiddleSpec
=============================================================================
