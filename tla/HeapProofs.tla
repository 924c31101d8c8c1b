----------------------------- MODULE HeapProofs -----------------------------
(***************************************************************************)
(* Theorems about module Heap, for every set of integer keys and every     *)
(* number of nodes.                                                        *)
(*                                                                         *)
(* HeapOrder speaks of the idle heap only.  While a loop runs, the order   *)
(* fails at one node: between index and its parent on the way up, between  *)
(* index and its children on the way down.  What keeps the loop from       *)
(* breaking more is that the children of index stand in order with the     *)
(* parent of index: that is the strengthening in IInv.                     *)
(*                                                                         *)
(* The refinement of PriorityQueue compares bags of keys.  Exchanging two  *)
(* nodes is a bijection of the positions, so that no count changes; that   *)
(* the root is first of all follows from HeapOrder with the least position *)
(* that would be an exception, whose parent would be one too.              *)
(***************************************************************************)
EXTENDS Heap, FiniteSetTheorems, TLAPS

Inner == InHeap \ {HEAP_ROOT_LOC}

(* The children of the node at index are in order with its parent.         *)
Bridged ==
  \A i \in Inner : Parent(i) = index /\ index # HEAP_ROOT_LOC
     => ~First(heap_type, heap_data[i], heap_data[Parent(index)])

UpInv ==
  pc = "up" =>
    /\ index \in InHeap
    /\ heap_size > 1 => type = heap_type
    /\ \A i \in Inner \ {index} : Ordered(i)
    /\ Bridged

DownInv ==
  pc = "down" =>
    /\ heap_size > 0 => type = heap_type
    /\ \A i \in Inner : Parent(i) # index => Ordered(i)
    /\ Bridged

IInv ==
  /\ TypeOK
  /\ \A i \in InHeap : heap_data[i] \in Keys
  /\ HeapOrder
  /\ UpInv
  /\ DownInv

(***************************************************************************)
(* The shape of the tree and of the order.                                 *)
(***************************************************************************)

LEMMA ParentFacts ==
  \A i \in Nat \ {0} :
     /\ Parent(i) \in Nat /\ Parent(i) < i
     /\ \A p \in Nat : Parent(i) = p <=> i = Left(p) \/ i = Right(p)
BY DEF Parent, Left, Right

LEMMA FirstIsStrictOrder ==
  ASSUME NEW t \in Types
  PROVE  /\ \A a \in Int : ~First(t, a, a)
         /\ \A a, b \in Int : First(t, a, b) => ~First(t, b, a)
         /\ \A a, b, c \in Int : ~First(t, b, a) /\ ~First(t, c, b) => ~First(t, c, a)
         /\ \A a, b \in Int : ~First(t, a, b) /\ ~First(t, b, a) => a = b
BY DEF First, Types

(***************************************************************************)
(* Type correctness.                                                       *)
(***************************************************************************)

LEMMA NextTypeOK == IInv /\ [Next]_vars => TypeOK'
<1> SUFFICES ASSUME IInv, [Next]_vars PROVE TypeOK'
  OBVIOUS
<1> USE HeapAssumption DEF TypeOK, IInv, Nodes, InHeap, HEAP_MIN_SIZE,
                           HEAP_ROOT_LOC, Types
<1>1. ASSUME NEW t \in Types, Abort(t) \/ Refuse(t) \/ RemoveFromEmpty(t)
      PROVE  TypeOK'
  BY <1>1 DEF Abort, Refuse, RemoveFromEmpty
<1>2. ASSUME NEW t \in Types, NEW k \in Keys, Insert(k, t) PROVE TypeOK'
  BY <1>2 DEF Insert, Full
<1>3. ASSUME NEW t \in Types, Remove(t) PROVE TypeOK'
  BY <1>3 DEF Remove, Full
<1>4. CASE Dealloc
  BY <1>4 DEF Dealloc
<1>5. CASE SiftUp
  <2>1. index \in Nodes /\ Parent(index) \in Nodes
    BY <1>5, ParentFacts DEF SiftUp, BelowParent
  <2> QED
    BY <1>5, <2>1 DEF SiftUp, Swapped
<1>6. CASE SiftDown
  <2>1. HeapifyTarget(index) \in Nodes
    BY DEF HeapifyTarget, FirstOfThree, Left, Right
  <2> QED
    BY <1>6, <2>1 DEF SiftDown, Swapped
<1>7. CASE SiftUpDone \/ SiftDownDone
  BY <1>7 DEF SiftUpDone, SiftDownDone
<1>8. CASE UNCHANGED vars
  BY <1>8 DEF vars
<1> QED
  BY <1>1, <1>2, <1>3, <1>4, <1>5, <1>6, <1>7, <1>8 DEF Next, Call, Loop

(***************************************************************************)
(* The order of the heap.  One lemma per kind of step; k stands for the    *)
(* node the inserted or moved key is at after the step.                    *)
(***************************************************************************)

(* Exchanging index with its parent on the way up.                         *)
LEMMA SiftUpOrder ==
  ASSUME IInv, SiftUp
  PROVE  IInv'
<1> USE HeapAssumption DEF IInv, TypeOK, Nodes, InHeap, Inner, HEAP_MIN_SIZE,
                           HEAP_ROOT_LOC
<1> DEFINE p == Parent(index)
<1>1. /\ index \in InHeap /\ index # 0 /\ p \in InHeap /\ p < index
      /\ heap_size > 1 /\ type = heap_type /\ heap_type \in Types
  BY ParentFacts DEF SiftUp, BelowParent, UpInv
<1>2. /\ heap_data' = [heap_data EXCEPT ![index] = heap_data[p],
                                         ![p] = heap_data[index]]
      /\ index' = p
      /\ UNCHANGED <<heap_size, heap_type, pc, type>>
  BY DEF SiftUp, Swapped
<1>3. First(heap_type, heap_data[index], heap_data[p])
  BY <1>1 DEF SiftUp, BelowParent
<1>4. \A i \in InHeap : heap_data[i] \in Keys /\ heap_data[i] \in Int
  OBVIOUS
<1>5. /\ heap_data'[index] = heap_data[p]
      /\ heap_data'[p] = heap_data[index]
      /\ \A i \in InHeap : i # index /\ i # p => heap_data'[i] = heap_data[i]
  BY <1>1, <1>2
<1>6. TypeOK'
  BY NextTypeOK DEF Next, Loop
<1>7. \A i \in InHeap' : heap_data'[i] \in Keys
  BY <1>1, <1>2, <1>4, <1>5
<1>8. ASSUME NEW i \in Inner', i # p
      PROVE  Ordered(i)'
  <2>0. i \in Inner /\ Parent(i) \in InHeap /\ Parent(i) # i
    BY <1>2, ParentFacts
  <2>1. CASE i = index
    BY <1>1, <1>2, <1>3, <1>4, <1>5, <2>1, FirstIsStrictOrder DEF Ordered
  <2>2. CASE i # index /\ Parent(i) = index
    <3>1. ~First(heap_type, heap_data[i], heap_data[p])
      BY <1>1, <2>0, <2>2 DEF SiftUp, UpInv, Bridged
    <3> QED
      BY <1>1, <1>2, <1>5, <1>8, <2>0, <2>2, <3>1 DEF Ordered
  <2>3. CASE i # index /\ Parent(i) = p
    <3>1. ~First(heap_type, heap_data[i], heap_data[p])
      BY <2>0, <2>3 DEF SiftUp, UpInv, Ordered
    <3>2. ~First(heap_type, heap_data[p], heap_data[index])
      BY <1>1, <1>3, <1>4, FirstIsStrictOrder
    <3>3. ~First(heap_type, heap_data[i], heap_data[index])
      BY <1>1, <1>4, <2>0, <3>1, <3>2, FirstIsStrictOrder
    <3> QED
      BY <1>1, <1>2, <1>5, <1>8, <2>0, <2>3, <3>3 DEF Ordered
  <2>4. CASE i # index /\ Parent(i) # index /\ Parent(i) # p
    <3>1. ~First(heap_type, heap_data[i], heap_data[Parent(i)])
      BY <2>0, <2>4 DEF SiftUp, UpInv, Ordered
    <3> QED
      BY <1>2, <1>5, <1>8, <2>0, <2>4, <3>1 DEF Ordered
  <2> QED
    BY <2>1, <2>2, <2>3, <2>4
<1>9. ASSUME NEW i \in Inner', Parent(i) = p, p # 0
      PROVE  ~First(heap_type, heap_data'[i], heap_data'[Parent(p)])
  <2>0. /\ i \in Inner /\ i # p /\ p \in Inner
        /\ Parent(p) \in InHeap /\ Parent(p) # p /\ Parent(p) # index
    BY <1>1, <1>2, <1>9, ParentFacts
  <2>1. ~First(heap_type, heap_data[p], heap_data[Parent(p)])
    BY <1>1, <2>0 DEF SiftUp, UpInv, Ordered
  <2>2. heap_data'[Parent(p)] = heap_data[Parent(p)]
    BY <1>5, <2>0
  <2>3. CASE i = index
    BY <1>5, <2>1, <2>2, <2>3
  <2>4. CASE i # index
    <3>1. ~First(heap_type, heap_data[i], heap_data[p])
      BY <1>9, <2>0, <2>4 DEF SiftUp, UpInv, Ordered
    <3>2. heap_data'[i] = heap_data[i]
      BY <1>5, <2>0, <2>4
    <3> QED
      BY <1>1, <1>4, <2>0, <2>1, <2>2, <3>1, <3>2, FirstIsStrictOrder
  <2> QED
    BY <2>3, <2>4
<1>10. UpInv'
  BY <1>1, <1>2, <1>8, <1>9 DEF UpInv, Bridged
<1>11. HeapOrder' /\ DownInv'
  BY <1>2 DEF HeapOrder, DownInv, SiftUp
<1> QED
  BY <1>6, <1>7, <1>10, <1>11

(* The loop of the insertion ends: now the heap is ordered everywhere.     *)
LEMMA SiftUpDoneOrder ==
  ASSUME IInv, SiftUpDone
  PROVE  IInv'
<1> USE HeapAssumption DEF IInv, TypeOK, Nodes, InHeap, Inner, HEAP_MIN_SIZE,
                           HEAP_ROOT_LOC
<1>1. /\ UNCHANGED <<heap_data, heap_size, heap_type, index, type>>
      /\ pc = "up" /\ pc' = "idle" /\ index \in InHeap
  BY DEF SiftUpDone, UpInv
<1>2. TypeOK'
  BY NextTypeOK DEF Next, Loop
<1>3. ASSUME NEW i \in Inner PROVE Ordered(i)
  <2>1. CASE i = index
    BY <1>1, <2>1 DEF SiftUpDone, BelowParent, UpInv, Ordered
  <2>2. CASE i # index
    BY <1>1, <2>2 DEF UpInv
  <2> QED
    BY <2>1, <2>2
<1>4. HeapOrder'
  BY <1>1, <1>3 DEF HeapOrder, Ordered
<1> QED
  BY <1>1, <1>2, <1>4 DEF UpInv, DownInv

(* A new last node has no children, and all other nodes are ordered.       *)
LEMMA InsertOrder ==
  ASSUME IInv, pc = "idle", NEW t \in Types, NEW k \in Keys, Insert(k, t)
  PROVE  IInv'
<1> USE HeapAssumption DEF IInv, TypeOK, Nodes, InHeap, Inner, HEAP_MIN_SIZE,
                           HEAP_ROOT_LOC
<1>1. /\ heap_data' = [heap_data EXCEPT ![heap_size] = k]
      /\ heap_size' = heap_size + 1 /\ index' = heap_size
      /\ pc' = "up" /\ type' = t /\ UNCHANGED heap_type
      /\ heap_size \in Nodes
  BY DEF Insert
<1>2. TypeOK'
  BY NextTypeOK DEF Next, Call
<1>3. \A i \in InHeap' : heap_data'[i] \in Keys
  BY <1>1
<1>4. ASSUME NEW i \in Inner', i # index' PROVE Ordered(i)'
  <2>1. i \in Inner /\ Parent(i) \in InHeap
    BY <1>1, <1>4, ParentFacts
  <2>2. Ordered(i)
    BY <2>1 DEF HeapOrder
  <2> QED
    BY <1>1, <2>1, <2>2 DEF Ordered
<1>5. Bridged'
  <2>1. \A i \in Inner' : Parent(i) # index'
    BY <1>1, ParentFacts
  <2> QED
    BY <2>1 DEF Bridged
<1>6. heap_size' > 1 => type' = heap_type'
  BY <1>1 DEF Insert, Mismatch
<1>7. index' \in InHeap'
  BY <1>1
<1> QED
  BY <1>1, <1>2, <1>3, <1>4, <1>5, <1>6, <1>7 DEF UpInv, DownInv, HeapOrder

(* The last key at the root: only the children of the root are affected.   *)
LEMMA RemoveOrder ==
  ASSUME IInv, pc = "idle", NEW t \in Types, Remove(t)
  PROVE  IInv'
<1> USE HeapAssumption DEF IInv, TypeOK, Nodes, InHeap, Inner, HEAP_MIN_SIZE,
                           HEAP_ROOT_LOC
<1>1. /\ heap_data' = [heap_data EXCEPT ![0] = heap_data[heap_size - 1]]
      /\ heap_size' = heap_size - 1 /\ index' = 0
      /\ pc' = "down" /\ type' = heap_type /\ UNCHANGED heap_type
      /\ heap_size > 0
  BY DEF Remove, Mismatch
<1>2. TypeOK'
  BY NextTypeOK DEF Next, Call
<1>3. \A i \in InHeap' : heap_data'[i] \in Keys
  BY <1>1
<1>4. ASSUME NEW i \in Inner', Parent(i) # index' PROVE Ordered(i)'
  <2>1. i \in Inner /\ Parent(i) \in InHeap /\ Parent(i) # 0
    BY <1>1, <1>4, ParentFacts
  <2>2. Ordered(i)
    BY <2>1 DEF HeapOrder
  <2> QED
    BY <1>1, <2>1, <2>2 DEF Ordered
<1>5. Bridged'
  BY <1>1 DEF Bridged
<1> QED
  BY <1>1, <1>2, <1>3, <1>4, <1>5 DEF UpInv, DownInv, HeapOrder

(* What heapify finds at a node: it stops only if the children are in      *)
(* order, and otherwise names a child that no sibling comes before.        *)
LEMMA HeapifyTargetFacts ==
  ASSUME IInv, pc = "down", NEW c, c = HeapifyTarget(index)
  PROVE  /\ c = index => \A i \in Inner : Parent(i) = index => Ordered(i)
         /\ c # index =>
              /\ c \in Inner /\ index \in InHeap /\ Parent(c) = index
              /\ ~First(heap_type, heap_data[index], heap_data[c])
              /\ \A i \in Inner : Parent(i) = index =>
                    ~First(heap_type, heap_data[i], heap_data[c])
<1> USE HeapAssumption DEF IInv, TypeOK, Nodes, InHeap, Inner, HEAP_MIN_SIZE,
                           HEAP_ROOT_LOC
<1> DEFINE l == Left(index)
           r == Right(index)
<1>1. /\ l \in Nat \ {0} /\ r = l + 1 /\ index < l
      /\ \A i \in Inner : Parent(i) = index <=> i = l \/ i = r
      /\ Parent(l) = index /\ Parent(r) = index
  BY ParentFacts DEF Left, Right
<1>2. \A i \in InHeap : heap_data[i] \in Int
  OBVIOUS
<1>3. CASE l >= heap_size
  BY <1>1, <1>3 DEF HeapifyTarget
<1>4. CASE l < heap_size /\ r >= heap_size
  <2>1. type = heap_type /\ l \in Inner /\ index \in InHeap
    BY <1>1, <1>4 DEF DownInv
  <2>2. \A i \in Inner : Parent(i) = index <=> i = l
    BY <1>1, <1>4
  <2> QED
    BY <1>1, <1>2, <1>4, <2>1, <2>2, FirstIsStrictOrder
    DEF HeapifyTarget, Ordered
<1>5. CASE r < heap_size
  <2>1. type = heap_type /\ l \in Inner /\ r \in Inner /\ index \in InHeap
    BY <1>1, <1>5 DEF DownInv
  <2>2. c = FirstOfThree(index)
    BY <1>1, <1>5 DEF HeapifyTarget
  <2>3. /\ c \in {index, l, r}
        /\ ~First(heap_type, heap_data[index], heap_data[c])
        /\ ~First(heap_type, heap_data[l], heap_data[c])
        /\ ~First(heap_type, heap_data[r], heap_data[c])
    BY <1>2, <2>1, <2>2 DEF FirstOfThree, First
  <2> QED
    BY <1>1, <2>1, <2>3 DEF Ordered
<1> QED
  BY <1>1, <1>3, <1>4, <1>5

(* Exchanging index with one of its children on the way down.              *)
LEMMA SiftDownOrder ==
  ASSUME IInv, SiftDown
  PROVE  IInv'
<1> USE HeapAssumption DEF IInv, TypeOK, Nodes, InHeap, Inner, HEAP_MIN_SIZE,
                           HEAP_ROOT_LOC
<1> DEFINE c == HeapifyTarget(index)
<1>0. pc = "down" /\ c # index
  BY DEF SiftDown
<1>1. /\ c \in Inner /\ index \in InHeap /\ Parent(c) = index /\ index < c
      /\ ~First(heap_type, heap_data[index], heap_data[c])
      /\ \A i \in Inner : Parent(i) = index =>
            ~First(heap_type, heap_data[i], heap_data[c])
  BY <1>0, HeapifyTargetFacts, ParentFacts
<1> HIDE DEF c
<1>2. /\ heap_data' = [heap_data EXCEPT ![index] = heap_data[c],
                                         ![c] = heap_data[index]]
      /\ index' = c
      /\ UNCHANGED <<heap_size, heap_type, pc, type>>
  BY DEF SiftDown, Swapped, c
<1>3. /\ heap_data'[index] = heap_data[c]
      /\ heap_data'[c] = heap_data[index]
      /\ \A i \in InHeap : i # index /\ i # c => heap_data'[i] = heap_data[i]
  BY <1>1, <1>2
<1>4. TypeOK'
  BY NextTypeOK DEF Next, Loop
<1>5. \A i \in InHeap' : heap_data'[i] \in Keys
  BY <1>1, <1>2, <1>3
<1>6. ASSUME NEW i \in Inner', Parent(i) # c PROVE Ordered(i)'
  <2>0. i \in Inner /\ Parent(i) \in InHeap /\ Parent(i) # i
    BY <1>2, ParentFacts
  <2>1. CASE i = index
    <3>1. ~First(heap_type, heap_data[c], heap_data[Parent(index)])
      BY <1>0, <1>1, <2>0, <2>1 DEF DownInv, Bridged
    <3>2. heap_data'[Parent(index)] = heap_data[Parent(index)]
      BY <1>3, <1>6, <2>0, <2>1
    <3> QED
      BY <1>2, <1>3, <2>1, <3>1, <3>2 DEF Ordered
  <2>2. CASE i = c
    BY <1>1, <1>2, <1>3, <2>2 DEF Ordered
  <2>3. CASE i # index /\ i # c /\ Parent(i) = index
    BY <1>1, <1>2, <1>3, <2>0, <2>3 DEF Ordered
  <2>4. CASE i # index /\ i # c /\ Parent(i) # index
    <3>1. Ordered(i)
      BY <1>0, <2>0, <2>4 DEF DownInv
    <3> QED
      BY <1>2, <1>3, <1>6, <2>0, <2>4, <3>1 DEF Ordered
  <2> QED
    BY <2>1, <2>2, <2>3, <2>4
<1>7. ASSUME NEW i \in Inner', Parent(i) = c
      PROVE  ~First(heap_type, heap_data'[i], heap_data'[Parent(c)])
  <2>0. i \in Inner /\ i # c /\ i # index
    BY <1>1, <1>2, <1>7, ParentFacts
  <2>1. Ordered(i)
    BY <1>0, <1>1, <1>7, <2>0 DEF DownInv
  <2> QED
    BY <1>1, <1>3, <1>7, <2>0, <2>1 DEF Ordered
<1>8. DownInv'
  BY <1>1, <1>2, <1>0, <1>6, <1>7 DEF DownInv, Bridged
<1>9. HeapOrder' /\ UpInv'
  BY <1>0, <1>2 DEF HeapOrder, UpInv
<1> QED
  BY <1>4, <1>5, <1>8, <1>9

(* heapify returns: the heap is ordered everywhere.                        *)
LEMMA SiftDownDoneOrder ==
  ASSUME IInv, SiftDownDone
  PROVE  IInv'
<1> USE HeapAssumption DEF IInv, TypeOK, Nodes, InHeap, Inner, HEAP_MIN_SIZE,
                           HEAP_ROOT_LOC
<1>1. /\ UNCHANGED <<heap_data, heap_size, heap_type, index, type>>
      /\ pc = "down" /\ pc' = "idle" /\ HeapifyTarget(index) = index
  BY DEF SiftDownDone
<1>2. TypeOK'
  BY NextTypeOK DEF Next, Loop
<1>3. \A i \in Inner : Ordered(i)
  BY <1>1, HeapifyTargetFacts DEF DownInv
<1>4. HeapOrder'
  BY <1>1, <1>3 DEF HeapOrder, Ordered
<1> QED
  BY <1>1, <1>2, <1>4 DEF UpInv, DownInv

(***************************************************************************)
(* The theorems.                                                           *)
(***************************************************************************)

LEMMA InitIInv == Init => IInv
<1> SUFFICES ASSUME Init PROVE IInv
  OBVIOUS
<1>1. TypeOK
  BY HeapAssumption DEF Init, TypeOK, Nodes, HEAP_MIN_SIZE, Types
<1>2. InHeap = {}
  BY DEF Init, InHeap, HEAP_MIN_SIZE
<1> QED
  BY <1>1, <1>2 DEF Init, IInv, HeapOrder, UpInv, DownInv

LEMMA NextIInv == IInv /\ [Next]_vars => IInv'
<1> SUFFICES ASSUME IInv, [Next]_vars PROVE IInv'
  OBVIOUS
<1>0. TypeOK'
  BY NextTypeOK
<1>1. CASE Call
  <2>1. pc = "idle"
    BY <1>1 DEF Call
  <2>2. ASSUME NEW t \in Types, Abort(t) \/ Refuse(t) \/ RemoveFromEmpty(t)
        PROVE  IInv'
    BY <1>0, <2>1, <2>2
    DEF Abort, Refuse, RemoveFromEmpty, IInv, HeapOrder, UpInv, DownInv,
        Ordered, InHeap
  <2>3. ASSUME NEW t \in Types, NEW k \in Keys, Insert(k, t) PROVE IInv'
    BY <2>1, <2>3, InsertOrder
  <2>4. ASSUME NEW t \in Types, Remove(t) PROVE IInv'
    BY <2>1, <2>4, RemoveOrder
  <2>5. CASE Dealloc
    BY <1>0, <2>1, <2>5
    DEF Dealloc, IInv, HeapOrder, UpInv, DownInv, Ordered, InHeap
  <2> QED
    BY <1>1, <2>2, <2>3, <2>4, <2>5 DEF Call
<1>2. CASE Loop
  BY <1>2, SiftUpOrder, SiftUpDoneOrder, SiftDownOrder, SiftDownDoneOrder
  DEF Loop
<1>3. CASE UNCHANGED vars
  BY <1>0, <1>3
  DEF vars, IInv, HeapOrder, UpInv, DownInv, Bridged, Inner, Ordered, InHeap
<1> QED
  BY <1>1, <1>2, <1>3 DEF Next

LEMMA SpecIInv == Spec => []IInv
BY InitIInv, NextIInv, PTL DEF Spec

(* The heap stays inside its array and index inside the heap.              *)
THEOREM HeapTypeCorrect == Spec => []TypeOK
BY SpecIInv, PTL DEF IInv

(* Between operations every key is in order with its parent's key.         *)
THEOREM HeapAlwaysOrdered == Spec => []HeapOrder
BY SpecIInv, PTL DEF IInv

(***************************************************************************)
(* The heap implements the priority queue.  The root is first of all keys  *)
(* because a node that came before it could not be the least such node:    *)
(* its parent would come before it too.  An exchange of two nodes changes  *)
(* none of the counts in Bag, and an insertion or removal one, by one.     *)
(***************************************************************************)

LEMMA LeastNatural ==
  ASSUME NEW S \in SUBSET Nat, S # {}
  PROVE  \E m \in S : \A n \in S : m <= n
<1> DEFINE R == OpToRel(<, Nat)
<1>1. IsWellFoundedOn(R, Nat)
  BY NatLessThanWellFounded
<1>2. \A n, m \in Nat : n < m => <<n, m>> \in R
  BY DEF OpToRel
<1> HIDE DEF R
<1>3. PICK m \in S : \A n \in S : <<n, m>> \notin R
  BY <1>1, WFMin
<1>4. \A n \in S : m <= n
  <2> TAKE n \in S
  <2>1. n \in Nat /\ m \in Nat
    OBVIOUS
  <2>2. ~(n < m)
    BY <1>2, <1>3, <2>1
  <2> QED
    BY <2>1, <2>2
<1> QED
  BY <1>4

(* No key of an ordered heap comes before the key at its root.             *)
LEMMA RootIsFirst ==
  ASSUME IInv, pc = "idle", NEW i \in InHeap
  PROVE  ~First(heap_type, heap_data[i], heap_data[HEAP_ROOT_LOC])
<1> USE HeapAssumption DEF IInv, TypeOK, Nodes, InHeap, HEAP_MIN_SIZE,
                           HEAP_ROOT_LOC
<1> DEFINE Before == {n \in InHeap : First(heap_type, heap_data[n], heap_data[0])}
<1>1. SUFFICES ASSUME Before # {} PROVE FALSE
  OBVIOUS
<1>2. Before \in SUBSET Nat
  OBVIOUS
<1>3. PICK n \in Before : \A m \in Before : n <= m
  BY <1>1, <1>2, LeastNatural
<1>4. n \in InHeap /\ n # 0
  BY FirstIsStrictOrder
<1>5. Parent(n) \in InHeap /\ Parent(n) < n
  BY <1>4, ParentFacts
<1>6. ~First(heap_type, heap_data[n], heap_data[Parent(n)])
  BY <1>4 DEF HeapOrder, Ordered
<1>7. ~First(heap_type, heap_data[Parent(n)], heap_data[0])
  BY <1>3, <1>4, <1>5
<1>8. \A j \in InHeap : heap_data[j] \in Int
  OBVIOUS
<1>9. 0 \in InHeap
  BY <1>4
<1> QED
  BY <1>3, <1>4, <1>5, <1>6, <1>7, <1>8, <1>9, FirstIsStrictOrder

(* Replacing an element of a finite set keeps its cardinality.             *)
LEMMA ReplacedElement ==
  ASSUME NEW S, IsFiniteSet(S), NEW a \in S, NEW b, b \notin S
  PROVE  Cardinality((S \ {a}) \cup {b}) = Cardinality(S)
<1>1. IsFiniteSet(S \ {a}) /\ Cardinality(S \ {a}) = Cardinality(S) - 1
  BY FS_RemoveElement
<1>2. Cardinality((S \ {a}) \cup {b}) = Cardinality(S \ {a}) + 1
  BY <1>1, FS_AddElement
<1>3. Cardinality(S) \in Nat
  BY FS_CardinalityType
<1> QED
  BY <1>1, <1>2, <1>3

(* The nodes from 0 to n - 1 of the array f that hold k.                   *)
Holders(f, n, k) == {i \in 0 .. n - 1 : f[i] = k}

LEMMA HoldersFinite ==
  ASSUME NEW f, NEW n \in Nat, NEW k
  PROVE  /\ IsFiniteSet(Holders(f, n, k))
         /\ Cardinality(Holders(f, n, k)) \in Nat
         /\ Cardinality(Holders(f, n, k)) > 0 <=> \E i \in 0 .. n - 1 : f[i] = k
<1>1. IsFiniteSet(0 .. n - 1)
  BY FS_Interval
<1>2. IsFiniteSet(Holders(f, n, k))
  BY <1>1, FS_Subset DEF Holders
<1>3. Cardinality(Holders(f, n, k)) \in Nat
  BY <1>2, FS_CardinalityType
<1>4. Cardinality(Holders(f, n, k)) = 0 <=> Holders(f, n, k) = {}
  BY <1>2, FS_EmptySet
<1>5. Holders(f, n, k) = {} <=> ~\E i \in 0 .. n - 1 : f[i] = k
  BY DEF Holders
<1> QED
  BY <1>2, <1>3, <1>4, <1>5

LEMMA ExchangeKeepsCount ==
  ASSUME NEW f, NEW g, NEW n \in Nat, NEW k,
         NEW a \in 0 .. n - 1, NEW b \in 0 .. n - 1,
         g[a] = f[b], g[b] = f[a],
         \A i \in 0 .. n - 1 : i # a /\ i # b => g[i] = f[i]
  PROVE  Cardinality(Holders(g, n, k)) = Cardinality(Holders(f, n, k))
<1>1. IsFiniteSet(Holders(f, n, k))
  BY HoldersFinite
<1>2. CASE f[a] = k /\ f[b] # k
  <2>1. Holders(g, n, k) = (Holders(f, n, k) \ {a}) \cup {b}
    BY <1>2 DEF Holders
  <2>2. a \in Holders(f, n, k) /\ b \notin Holders(f, n, k)
    BY <1>2 DEF Holders
  <2> QED
    BY <1>1, <2>1, <2>2, ReplacedElement
<1>3. CASE f[a] # k /\ f[b] = k
  <2>1. Holders(g, n, k) = (Holders(f, n, k) \ {b}) \cup {a}
    BY <1>3 DEF Holders
  <2>2. b \in Holders(f, n, k) /\ a \notin Holders(f, n, k)
    BY <1>3 DEF Holders
  <2> QED
    BY <1>1, <2>1, <2>2, ReplacedElement
<1>4. CASE (f[a] = k) <=> (f[b] = k)
  <2>1. Holders(g, n, k) = Holders(f, n, k)
    BY <1>4 DEF Holders
  <2> QED
    BY <2>1
<1> QED
  BY <1>2, <1>3, <1>4

(* The counts as they are named in the refinement mapping.                 *)
LEMMA BagCounts ==
  Bag = [k \in Keys |-> Cardinality(Holders(heap_data, heap_size, k))]
BY DEF Bag, Holders, InHeap

LEMMA ExchangeKeepsBag ==
  ASSUME IInv, heap_size' = heap_size, NEW a \in InHeap, NEW b \in InHeap,
         heap_data' = Swapped(a, b)
  PROVE  Bag' = Bag
<1> USE HeapAssumption DEF IInv, TypeOK, Nodes, InHeap, HEAP_MIN_SIZE
<1>1. heap_size \in Nat
  OBVIOUS
<1>2. /\ heap_data'[a] = heap_data[b] /\ heap_data'[b] = heap_data[a]
      /\ \A i \in 0 .. heap_size - 1 : i # a /\ i # b => heap_data'[i] = heap_data[i]
  BY DEF Swapped
<1>3. \A k \in Keys : Cardinality(Holders(heap_data', heap_size, k))
                        = Cardinality(Holders(heap_data, heap_size, k))
  BY <1>1, <1>2, ExchangeKeepsCount
<1>4. Bag' = [k \in Keys |-> Cardinality(Holders(heap_data', heap_size, k))]
  BY DEF Bag, Holders
<1> QED
  BY <1>3, <1>4, BagCounts

(* The moving key is a node of the heap, as is the one it is exchanged     *)
(* with.                                                                   *)
LEMMA LoopStutters ==
  ASSUME IInv, Loop
  PROVE  UNCHANGED PQ!vars
<1> USE DEF PQ!vars
<1>1. CASE SiftUp
  <2>1. index \in InHeap /\ Parent(index) \in InHeap
    BY <1>1, ParentFacts DEF SiftUp, BelowParent, IInv, UpInv, TypeOK, InHeap
  <2>2. Bag' = Bag
    BY <1>1, <2>1, ExchangeKeepsBag DEF SiftUp
  <2> QED
    BY <1>1, <2>2 DEF SiftUp
<1>2. CASE SiftDown
  <2>1. index \in InHeap /\ HeapifyTarget(index) \in InHeap
    BY <1>2, HeapifyTargetFacts DEF SiftDown, Inner
  <2>2. Bag' = Bag
    BY <1>2, <2>1, ExchangeKeepsBag DEF SiftDown
  <2> QED
    BY <1>2, <2>2 DEF SiftDown
<1>3. CASE SiftUpDone \/ SiftDownDone
  BY <1>3 DEF SiftUpDone, SiftDownDone, Bag, InHeap
<1> QED
  BY <1>1, <1>2, <1>3 DEF Loop

LEMMA InsertIsInsert ==
  ASSUME IInv, pc = "idle", NEW t \in Types, NEW k \in Keys, Insert(k, t)
  PROVE  PQ!Insert(k, t)
<1> USE HeapAssumption DEF IInv, TypeOK, Nodes, HEAP_MIN_SIZE
<1>1. /\ heap_data' = [heap_data EXCEPT ![heap_size] = k]
      /\ heap_size' = heap_size + 1 /\ heap_size \in Nat
      /\ heap_size < HEAP_MAX_SIZE - 1
  BY DEF Insert, Full
<1>2. ASSUME NEW key \in Keys
      PROVE  Bag'[key] = IF key = k THEN Bag[key] + 1 ELSE Bag[key]
  <2> DEFINE before == Holders(heap_data, heap_size, key)
             after == Holders(heap_data', heap_size + 1, key)
  <2>1. Bag[key] = Cardinality(before) /\ Bag'[key] = Cardinality(after)
    BY <1>1 DEF Bag, Holders, InHeap
  <2>2. IsFiniteSet(before) /\ Cardinality(before) \in Nat
    BY <1>1, HoldersFinite
  <2>4. heap_size \notin before
    BY <1>1 DEF Holders
  <2>3. after = IF key = k THEN before \cup {heap_size} ELSE before
    BY <1>1 DEF Holders
  <2> HIDE DEF before, after
  <2>5. Cardinality(before \cup {heap_size}) = Cardinality(before) + 1
    BY <2>2, <2>4, FS_AddElement
  <2> QED
    BY <2>1, <2>3, <2>5
<1>3. Bag' = [Bag EXCEPT ![k] = Bag[k] + 1]
  BY <1>2 DEF Bag
<1> QED
  BY <1>1, <1>3 DEF PQ!Insert, PQ!Admits, Insert, Mismatch

(* The last node and the key at the root leave the heap.                   *)
LEMMA RemoveIsRemove ==
  ASSUME IInv, pc = "idle", NEW t \in Types, Remove(t)
  PROVE  PQ!Remove(heap_data[HEAP_ROOT_LOC], t)
<1> USE HeapAssumption DEF IInv, TypeOK, Nodes, HEAP_MIN_SIZE, HEAP_ROOT_LOC
<1> DEFINE last == heap_size - 1
           k == heap_data[0]
<1>1. /\ heap_data' = [heap_data EXCEPT ![0] = heap_data[last]]
      /\ heap_size' = last /\ heap_size \in 1 .. HEAP_MAX_SIZE - 2
      /\ t = heap_type /\ last \in Nat
      /\ 0 \in InHeap /\ k \in Keys
  BY DEF Remove, Full, Mismatch, InHeap
<1>2. ASSUME NEW key \in Keys
      PROVE  Bag'[key] = IF key = k THEN Bag[key] - 1 ELSE Bag[key]
  <2> DEFINE before == Holders(heap_data, heap_size, key)
             swapped == [heap_data EXCEPT ![0] = heap_data[last], ![last] = heap_data[0]]
             middle == Holders(swapped, heap_size, key)
             after == Holders(heap_data', last, key)
  <2>1. Bag[key] = Cardinality(before) /\ Bag'[key] = Cardinality(after)
    BY <1>1 DEF Bag, Holders, InHeap
  <2>2. Cardinality(middle) = Cardinality(before)
    <3>1. /\ swapped[0] = heap_data[last] /\ swapped[last] = heap_data[0]
          /\ \A i \in 0 .. heap_size - 1 : i # 0 /\ i # last => swapped[i] = heap_data[i]
      BY <1>1
    <3>2. 0 \in 0 .. heap_size - 1 /\ last \in 0 .. heap_size - 1 /\ heap_size \in Nat
      BY <1>1
    <3> HIDE DEF swapped, last
    <3> QED
      BY <3>1, <3>2, ExchangeKeepsCount
  <2>3. IsFiniteSet(middle) /\ Cardinality(middle) \in Nat
    BY <1>1, HoldersFinite
  <2>4. after = middle \ {last}
    BY <1>1 DEF Holders
  <2>5. last \in middle <=> key = k
    BY <1>1 DEF Holders
  <2> HIDE DEF before, middle, after, last
  <2>6. Cardinality(middle \ {last})
          = IF last \in middle THEN Cardinality(middle) - 1 ELSE Cardinality(middle)
    BY <2>3, FS_RemoveElement
  <2> QED
    BY <2>1, <2>2, <2>4, <2>5, <2>6
<1>3. Bag' = [Bag EXCEPT ![k] = Bag[k] - 1]
  BY <1>2 DEF Bag
<1>4. Bag[k] > 0
  BY <1>1, HoldersFinite, BagCounts DEF InHeap
<1>5. ASSUME NEW other \in Keys, Bag[other] > 0
      PROVE  ~First(heap_type, other, k)
  <2>1. PICK i \in InHeap : heap_data[i] = other
    BY <1>1, <1>5, HoldersFinite, BagCounts DEF InHeap
  <2> QED
    BY <2>1, RootIsFirst
<1> QED
  BY <1>1, <1>3, <1>4, <1>5 DEF PQ!Remove, Remove

LEMMA StepRefines == IInv /\ [Next]_vars => [PQ!Next]_(PQ!vars)
<1> SUFFICES ASSUME IInv, [Next]_vars PROVE [PQ!Next]_(PQ!vars)
  OBVIOUS
<1> USE DEF HEAP_MIN_SIZE
<1>1. CASE Call
  <2>0. pc = "idle"
    BY <1>1 DEF Call
  <2>1. ASSUME NEW t \in Types, Abort(t) \/ RemoveFromEmpty(t)
        PROVE  PQ!Crash(t)
    BY <2>0, <2>1 DEF Abort, RemoveFromEmpty, Mismatch, PQ!Crash, PQ!Admits, Bag, InHeap
  <2>2. ASSUME NEW t \in Types, Refuse(t) PROVE PQ!Refuse(t)
    BY <2>0, <2>2 DEF Refuse, Mismatch, Full, PQ!Refuse, PQ!Admits, Bag, InHeap
  <2>3. ASSUME NEW t \in Types, NEW k \in Keys, Insert(k, t) PROVE PQ!Insert(k, t)
    BY <2>0, <2>3, InsertIsInsert
  <2>4. ASSUME NEW t \in Types, Remove(t)
        PROVE  \E k \in Keys : PQ!Remove(k, t)
    <3>1. heap_data[HEAP_ROOT_LOC] \in Keys
      BY <2>4 DEF IInv, TypeOK, InHeap, Remove, HEAP_ROOT_LOC
    <3> QED
      BY <2>0, <2>4, <3>1, RemoveIsRemove
  <2>5. ASSUME Dealloc PROVE PQ!Dealloc
    BY <2>0, <2>5 DEF Dealloc, PQ!Dealloc, Bag, InHeap
  <2>6. ASSUME NEW t \in Types,
               \/ PQ!Refuse(t) \/ PQ!Crash(t)
               \/ \E k \in Keys : PQ!Insert(k, t) \/ PQ!Remove(k, t)
        PROVE  PQ!Next
    BY <2>0, <2>6 DEF PQ!Next
  <2> HIDE DEF HEAP_MIN_SIZE
  <2>7. ASSUME NEW t \in Types,
               \/ Abort(t) \/ Refuse(t) \/ \E k \in Keys : Insert(k, t)
               \/ Remove(t) \/ RemoveFromEmpty(t)
        PROVE  PQ!Next
    <3>1. \/ PQ!Refuse(t) \/ PQ!Crash(t)
          \/ \E k \in Keys : PQ!Insert(k, t) \/ PQ!Remove(k, t)
      BY <2>1, <2>2, <2>3, <2>4, <2>7
    <3> QED
      BY <2>6, <3>1
  <2>8. ASSUME Dealloc PROVE PQ!Next
    BY <2>0, <2>5, <2>8 DEF PQ!Next
  <2>9. PQ!Next
    BY <1>1, <2>7, <2>8 DEF Call
  <2> QED
    BY <2>9
<1>2. CASE Loop
  BY <1>2, LoopStutters
<1>3. CASE UNCHANGED vars
  BY <1>3 DEF vars, PQ!vars, Bag, InHeap
<1> QED
  BY <1>1, <1>2, <1>3 DEF Next

LEMMA InitRefines == Init => PQ!Init
<1> SUFFICES ASSUME Init PROVE PQ!Init
  OBVIOUS
<1>1. Bag = [k \in Keys |-> 0]
  <2>1. \A k \in Keys : {i \in InHeap : heap_data[i] = k} = {}
    BY DEF Init, InHeap, HEAP_MIN_SIZE
  <2> QED
    BY <2>1, FS_EmptySet DEF Bag
<1> QED
  BY <1>1 DEF Init, PQ!Init, HEAP_MIN_SIZE

(* The array is a priority queue of HEAP_MAX_SIZE - 1 keys: no exchange    *)
(* loses or duplicates a key, and what a removal hands over is first of    *)
(* all keys in the heap.                                                   *)
THEOREM HeapRefinesPriorityQueue == Spec => ImplementsPriorityQueue
BY InitRefines, StepRefines, SpecIInv, PTL
DEF Spec, ImplementsPriorityQueue, PQ!Spec
=============================================================================
