---------------------------- MODULE QueueProofs ----------------------------
(***************************************************************************)
(* Theorems about module Queue, for every number of slots and every set of *)
(* payloads.  TypeOK already is an inductive invariant: it bounds the      *)
(* window q_front .. q_rear, and everything else follows from the window.  *)
(***************************************************************************)
EXTENDS Queue, SequenceTheorems, TLAPS

(***************************************************************************)
(* The window stays inside the array.                                      *)
(***************************************************************************)

LEMMA InitTypeOK == Init => TypeOK
BY QueueAssumption DEF Init, TypeOK, QUEUE_MIN_ITEMS, Slots

LEMMA NextTypeOK == TypeOK /\ [Next]_vars => TypeOK'
<1> SUFFICES ASSUME TypeOK, [Next]_vars PROVE TypeOK'
  OBVIOUS
<1> USE QueueAssumption DEF TypeOK, QUEUE_MIN_ITEMS, Slots
<1>1. ASSUME NEW d \in Data, Enqueue(d) PROVE TypeOK'
  <2>1. CASE EnqueueOverflow
    BY <1>1, <2>1 DEF Enqueue, EnqueueOverflow
  <2>2. CASE EnqueueCompacting(d)
    <3>1. NumNodes \in Slots
      BY <2>2 DEF EnqueueCompacting, CompactAsserts, NumNodes
    <3>2. CompactedNodes \in [Slots -> Data \cup {NoData}]
      BY <2>2 DEF EnqueueCompacting, CompactAsserts, NumNodes, CompactedNodes
    <3> QED
      BY <1>1, <2>2, <3>1, <3>2 DEF Enqueue, EnqueueCompacting
  <2>3. CASE EnqueueAtRear(d)
    <3>1. q_rear + 1 \in Slots
      BY <2>3 DEF EnqueueAtRear, QueueFull
    <3> QED
      BY <1>1, <2>3, <3>1 DEF Enqueue, EnqueueAtRear
  <2> QED
    BY <1>1, <2>1, <2>2, <2>3 DEF Enqueue
<1>2. CASE Dequeue
  <2>1. CASE QueueEmpty
    BY <1>2, <2>1 DEF Dequeue
  <2>2. CASE ~QueueEmpty
    <3>1. q_front \in Slots /\ q_front + 1 \in -1 .. q_rear + 1
      BY <2>2 DEF QueueEmpty
    <3> QED
      BY <1>2, <2>2, <3>1 DEF Dequeue
  <2> QED
    BY <2>1, <2>2
<1>3. CASE Dealloc
  BY <1>3 DEF Dealloc
<1>4. CASE UNCHANGED vars
  BY <1>4 DEF vars
<1> QED
  BY <1>1, <1>2, <1>3, <1>4 DEF Next

(* The indices of queue_st always delimit a window of its array.           *)
THEOREM QueueTypeCorrect == Spec => []TypeOK
<1> QED
  BY InitTypeOK, NextTypeOK, PTL DEF Spec

(* queue_compact_queue is called only with q_rear at the last slot and     *)
(* q_front beyond slot 0: its assertions cannot fail.                      *)
THEOREM QueueNeverAsserts == Spec => []CompactionNeverAsserts
<1>1. TypeOK => CompactionNeverAsserts
  BY QueueAssumption
  DEF TypeOK, CompactionNeverAsserts, CompactAsserts, QueueFull,
      QUEUE_MIN_ITEMS, Slots
<1> QED
  BY <1>1, QueueTypeCorrect, PTL

(* Between two compactions the nodes handed out by queue_deque keep their  *)
(* contents.                                                               *)
THEOREM QueueKeepsDequeuedNodes == Spec => DequeuedNodesKept
<1> DEFINE Kept == \A i \in Slots :
             i < q_front /\ q_node'[i] # q_node[i] => QueueFull = "ENOTEMPTY"
<1>1. TypeOK /\ [Next]_vars => [Kept]_vars
  <2> SUFFICES ASSUME TypeOK, Next, NEW i \in Slots, i < q_front,
                      q_node'[i] # q_node[i], QueueFull # "ENOTEMPTY"
               PROVE  FALSE
    OBVIOUS
  <2>1. PICK d \in Data : Enqueue(d) /\ EnqueueAtRear(d)
    BY DEF Next, Enqueue, EnqueueOverflow, EnqueueCompacting, Dequeue, Dealloc
  <2>2. q_node' = [q_node EXCEPT ![q_rear + 1] = d]
    BY <2>1 DEF EnqueueAtRear
  <2>3. i # q_rear + 1
    BY QueueAssumption DEF TypeOK, QUEUE_MIN_ITEMS, Slots
  <2> QED
    BY <2>2, <2>3 DEF TypeOK
<1> QED
  BY <1>1, QueueTypeCorrect, PTL DEF Spec, DequeuedNodesKept

(***************************************************************************)
(* Refinement.  Items is always a sequence of NumNodes payloads, and each  *)
(* operation changes it as the operation of BoundedQueue of the same name. *)
(***************************************************************************)

(* The sequence in the window of the array, and how long it is.            *)
ItemsOK ==
  /\ Items \in Seq(Data \cup {NoData})
  /\ Len(Items) = IF q_front = -1 THEN 0 ELSE NumNodes
  /\ \A k \in 1 .. Len(Items) : Items[k] = q_node[q_front + k - 1]
  /\ Len(Items) = 0 <=> QueueEmpty
  /\ Len(Items) = 0 <=> Items = <<>>
  /\ Len(Items) <= QUEUE_MAX_ITEMS
  /\ Len(Items) = QUEUE_MAX_ITEMS <=> QueueFull = "EOVERFLOW"

LEMMA ItemsSeq == TypeOK => ItemsOK
<1> SUFFICES ASSUME TypeOK PROVE ItemsOK
  OBVIOUS
<1> USE QueueAssumption DEF TypeOK, ItemsOK, QUEUE_MIN_ITEMS, Slots
<1>1. CASE q_front = -1
  BY <1>1 DEF Items, NumNodes, QueueEmpty, QueueFull
<1>2. CASE q_front # -1
  <2>1. NumNodes \in Nat
    BY <1>2 DEF NumNodes
  <2>2. \A k \in 1 .. NumNodes : q_node[q_front + k - 1] \in Data \cup {NoData}
    BY <1>2 DEF NumNodes
  <2>3. Items = [k \in 1 .. NumNodes |-> q_node[q_front + k - 1]]
    BY <1>2 DEF Items
  <2>4. Items \in Seq(Data \cup {NoData}) /\ Len(Items) = NumNodes
    BY <2>1, <2>2, <2>3
  <2>5. Len(Items) = 0 <=> Items = <<>>
    BY <2>4, EmptySeq
  <2> QED
    BY <1>2, <2>1, <2>3, <2>4, <2>5 DEF NumNodes, QueueEmpty, QueueFull
<1> QED
  BY <1>1, <1>2

LEMMA ItemsSeqNext == TypeOK' => ItemsOK'
BY ItemsSeq, PTL

(* An accepted queue_eneque, compacting or not, appends to the items.      *)
LEMMA EnqueueAppends ==
  ASSUME TypeOK, NEW d \in Data,
         EnqueueCompacting(d) \/ EnqueueAtRear(d), TypeOK'
  PROVE  Len(Items) < QUEUE_MAX_ITEMS /\ Items' = Append(Items, d)
<1> DEFINE S == Data \cup {NoData}
<1>0. ItemsOK /\ ItemsOK'
  BY ItemsSeq, ItemsSeqNext
<1> USE DEF ItemsOK
<1>1. Items \in Seq(S) /\ Items' \in Seq(S)
  BY <1>0
<1>2. Len(Items) < QUEUE_MAX_ITEMS
  BY <1>0, <1>1, QueueAssumption DEF EnqueueCompacting, EnqueueAtRear
<1>3. Len(Items') = Len(Items) + 1
  <2>1. CASE EnqueueCompacting(d)
    BY <2>1, <1>0, QueueAssumption
    DEF EnqueueCompacting, CompactAsserts, TypeOK, NumNodes, QUEUE_MIN_ITEMS
  <2>2. CASE EnqueueAtRear(d)
    BY <2>2, <1>0, QueueAssumption
    DEF EnqueueAtRear, TypeOK, NumNodes, QUEUE_MIN_ITEMS
  <2> QED
    BY <2>1, <2>2
<1>4. ASSUME NEW k \in 1 .. Len(Items) + 1
      PROVE  Items'[k] = IF k <= Len(Items) THEN Items[k] ELSE d
  <2>1. CASE EnqueueCompacting(d)
    <3>1. Len(Items) = NumNodes /\ NumNodes \in Slots
      BY <2>1, <1>0, QueueAssumption
      DEF EnqueueCompacting, CompactAsserts, TypeOK, NumNodes,
          QUEUE_MIN_ITEMS, Slots
    <3>2. Items'[k] = q_node'[k - 1]
      BY <1>3, <2>1, <1>0
      DEF EnqueueCompacting, TypeOK, QUEUE_MIN_ITEMS
    <3>3. q_node'[k - 1] = IF k - 1 = NumNodes THEN d ELSE q_node[q_front + k - 1]
      BY <2>1, <3>1, QueueAssumption
      DEF EnqueueCompacting, CompactAsserts, CompactedNodes, Slots, TypeOK
    <3>4. k <= Len(Items) => Items[k] = q_node[q_front + k - 1]
      BY <1>0, <1>1
    <3>5. Len(Items) \in Nat
      BY <1>1
    <3> QED
      BY <3>1, <3>2, <3>3, <3>4, <3>5
  <2>2. CASE EnqueueAtRear(d)
    <3>1. CASE q_front = -1
      BY <1>1, <1>3, <2>2, <3>1, <1>0, QueueAssumption
      DEF EnqueueAtRear, TypeOK, QUEUE_MIN_ITEMS, Slots
    <3>2. CASE q_front # -1
      <4>1. Len(Items) = NumNodes /\ q_front' = q_front
        BY <2>2, <3>2, <1>0 DEF EnqueueAtRear, QUEUE_MIN_ITEMS
      <4>2. Items'[k] = q_node'[q_front + k - 1]
        BY <1>3, <4>1, <1>0
      <4>3. q_node'[q_front + k - 1] =
              IF k = NumNodes + 1 THEN d ELSE q_node[q_front + k - 1]
        BY <2>2, <3>2, <4>1, QueueAssumption
        DEF EnqueueAtRear, QueueFull, TypeOK, NumNodes, QUEUE_MIN_ITEMS, Slots
      <4>4. k <= Len(Items) => Items[k] = q_node[q_front + k - 1]
        BY <1>0, <1>1
      <4>5. Len(Items) \in Nat
        BY <1>1
      <4> QED
        BY <4>1, <4>2, <4>3, <4>4, <4>5
    <3> QED
      BY <3>1, <3>2
  <2> QED
    BY <2>1, <2>2
<1>5. /\ Append(Items, d) \in Seq(S)
      /\ Len(Append(Items, d)) = Len(Items) + 1
      /\ \A k \in 1 .. Len(Items) + 1 :
            Append(Items, d)[k] = IF k <= Len(Items) THEN Items[k] ELSE d
  BY <1>1
<1>6. Items' = Append(Items, d)
  BY <1>1, <1>3, <1>4, <1>5, SeqEqual
<1> QED
  BY <1>2, <1>6

(* An answered queue_deque takes the head of the items.                    *)
LEMMA DequeueTakesHead ==
  ASSUME TypeOK, Dequeue, ~QueueEmpty, TypeOK'
  PROVE  Items # <<>> /\ out' = Head(Items) /\ Items' = Tail(Items)
<1> DEFINE S == Data \cup {NoData}
<1>0. ItemsOK /\ ItemsOK'
  BY ItemsSeq, ItemsSeqNext
<1> USE DEF ItemsOK
<1>1. Items \in Seq(S) /\ Items' \in Seq(S) /\ Items # <<>>
  BY <1>0
<1>2. q_front # -1 /\ q_front' = q_front + 1 /\ out' = q_node[q_front]
  BY DEF Dequeue, QueueEmpty, TypeOK, QUEUE_MIN_ITEMS
<1>3. Len(Items) = NumNodes /\ Len(Items') = Len(Items) - 1
  BY <1>2, <1>0 DEF Dequeue, TypeOK, NumNodes, QUEUE_MIN_ITEMS
<1>4. out' = Head(Items)
  BY <1>1, <1>2, <1>0 DEF TypeOK, QUEUE_MIN_ITEMS
<1>5. /\ Tail(Items) \in Seq(S)
      /\ Len(Tail(Items)) = Len(Items) - 1
      /\ \A k \in 1 .. Len(Tail(Items)) : Tail(Items)[k] = Items[k + 1]
  BY <1>1, HeadTailProperties
<1>6. ASSUME NEW k \in 1 .. Len(Items') PROVE Items'[k] = Items[k + 1]
  <2>1. k \in Nat /\ k + 1 \in 1 .. Len(Items)
    BY <1>1, <1>3
  <2>2. q_front \in Int
    BY DEF TypeOK, QUEUE_MIN_ITEMS
  <2>3. Items[k + 1] = q_node[q_front + k]
    <3>1. Items[k + 1] = q_node[q_front + (k + 1) - 1]
      BY <1>0, <2>1
    <3>2. q_front + (k + 1) - 1 = q_front + k
      BY <2>1, <2>2
    <3> QED
      BY <3>1, <3>2
  <2>4. Items'[k] = q_node'[q_front' + k - 1]
    BY <1>0
  <2> QED
    BY <1>2, <2>1, <2>2, <2>3, <2>4 DEF Dequeue
<1>7. Items' = Tail(Items)
  BY <1>1, <1>3, <1>5, <1>6, SeqEqual
<1> QED
  BY <1>1, <1>4, <1>7

(* The two operations together, as a client of the queue uses them.        *)
LEMMA EnqueueItems ==
  ASSUME TypeOK, NEW d \in Data, Enqueue(d)
  PROVE  /\ TypeOK'
         /\ \/ rc' = "EOVERFLOW" /\ Len(Items) = QUEUE_MAX_ITEMS /\ Items' = Items
            \/ rc' = "EOK" /\ Len(Items) < QUEUE_MAX_ITEMS /\ Items' = Append(Items, d)
<1>1. TypeOK'
  BY NextTypeOK DEF Next
<1>2. CASE EnqueueOverflow
  <2>1. Len(Items) = QUEUE_MAX_ITEMS
    BY <1>2, ItemsSeq DEF EnqueueOverflow, ItemsOK
  <2>2. Items' = Items
    BY <1>2 DEF EnqueueOverflow, Items, NumNodes
  <2> QED
    BY <1>1, <1>2, <2>1, <2>2 DEF EnqueueOverflow
<1>3. CASE EnqueueCompacting(d) \/ EnqueueAtRear(d)
  BY <1>1, <1>3, EnqueueAppends DEF EnqueueCompacting, EnqueueAtRear
<1> QED
  BY <1>2, <1>3 DEF Enqueue

LEMMA DequeueItems ==
  ASSUME TypeOK, Dequeue, Items # <<>>
  PROVE  /\ TypeOK'
         /\ rc' = "EOK" /\ out' = Head(Items) /\ Items' = Tail(Items)
<1>1. TypeOK'
  BY NextTypeOK DEF Next
<1>2. ~QueueEmpty
  BY ItemsSeq DEF ItemsOK
<1> QED
  BY <1>1, <1>2, DequeueTakesHead DEF Dequeue

(* What two tests of its indices say of the items.                         *)
LEMMA ItemsCounted ==
  ASSUME TypeOK
  PROVE  /\ Items \in Seq(Data \cup {NoData})
         /\ QueueEmpty <=> Items = <<>>
         /\ ~QueueEmpty => (q_front = q_rear <=> Len(Items) = 1)
<1>1. ItemsOK
  BY ItemsSeq
<1>2. Items \in Seq(Data \cup {NoData}) /\ (QueueEmpty <=> Items = <<>>)
  BY <1>1 DEF ItemsOK
<1>3. ASSUME ~QueueEmpty PROVE q_front = q_rear <=> Len(Items) = 1
  <2>1. q_front # -1 /\ q_front \in Int /\ q_rear \in Int
    BY <1>3 DEF QueueEmpty, TypeOK, QUEUE_MIN_ITEMS
  <2>2. Len(Items) = q_rear - q_front + 1
    BY <1>1, <2>1 DEF ItemsOK, NumNodes
  <2> QED
    BY <2>1, <2>2
<1> QED
  BY <1>2, <1>3

(* Every step of the array is a step of the bounded queue, or changes      *)
(* nothing it shows.                                                       *)
LEMMA StepRefines ==
  TypeOK /\ TypeOK' /\ [Next]_vars => [BQ!Next]_(BQ!vars)
<1> SUFFICES ASSUME TypeOK, TypeOK', [Next]_vars
             PROVE  [BQ!Next]_(BQ!vars)
  OBVIOUS
<1>0. ItemsOK
  BY ItemsSeq
<1> USE DEF ItemsOK
<1>1. ASSUME NEW d \in Data, Enqueue(d) PROVE BQ!Enqueue(d)
  <2>1. CASE EnqueueOverflow
    <3>1. Len(Items) = QUEUE_MAX_ITEMS
      BY <1>0, <2>1 DEF EnqueueOverflow
    <3>2. Items' = Items
      BY <2>1 DEF EnqueueOverflow, Items, NumNodes
    <3> QED
      BY <1>1, <2>1, <3>1, <3>2 DEF BQ!Enqueue, Enqueue, EnqueueOverflow
  <2>2. CASE EnqueueCompacting(d) \/ EnqueueAtRear(d)
    BY <1>1, <2>2, EnqueueAppends
    DEF BQ!Enqueue, Enqueue, EnqueueCompacting, EnqueueAtRear
  <2> QED
    BY <1>1, <2>1, <2>2 DEF Enqueue
<1>2. CASE Dequeue
  <2>1. CASE QueueEmpty
    <3>1. Items = <<>>
      BY <1>0, <2>1
    <3>2. Items' = Items
      BY <1>2, <2>1 DEF Dequeue, Items, NumNodes
    <3> QED
      BY <1>2, <2>1, <3>1, <3>2 DEF BQ!Dequeue, BQ!Next, Dequeue
  <2>2. CASE ~QueueEmpty
    BY <1>2, <2>2, DequeueTakesHead DEF BQ!Dequeue, BQ!Next, Dequeue
  <2> QED
    BY <2>1, <2>2
<1>3. CASE Dealloc
  <2>1. Items' = Items /\ (QueueEmpty <=> Items = <<>>)
    BY <1>0, <1>3 DEF Dealloc, Items, NumNodes
  <2> QED
    BY <1>3, <2>1 DEF BQ!Dealloc, BQ!Next, Dealloc
<1>4. CASE UNCHANGED vars
  BY <1>4 DEF vars, BQ!vars, Items, NumNodes
<1> QED
  BY <1>1, <1>2, <1>3, <1>4 DEF Next, BQ!Next

(* The array queue implements the bounded first-in first-out queue.        *)
THEOREM QueueRefinesBoundedQueue == Spec => ImplementsBoundedQueue
<1>1. Init => BQ!Init
  BY DEF Init, BQ!Init, Items
<1> QED
  BY <1>1, StepRefines, QueueTypeCorrect, PTL
  DEF Spec, BQ!Spec, ImplementsBoundedQueue
=============================================================================
