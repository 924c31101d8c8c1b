------------------------------- MODULE Queue -------------------------------
(***************************************************************************)
(* queue/queue.c: a queue in an array of QUEUE_MAX_ITEMS nodes.  q_front   *)
(* and q_rear only grow; when q_rear has reached the last slot while slots *)
(* before q_front are free, the next queue_eneque first moves all items to *)
(* the beginning of the array (queue_compact_queue).  queue_deque hands    *)
(* out a pointer into the array, so what it points at is live memory of    *)
(* the queue that a later operation may overwrite.                         *)
(*                                                                         *)
(* An assertion that fails (CHECK_RC_ASSERT) ends the program: it is a     *)
(* guard of the action, and CompactionNeverAsserts says that it never      *)
(* stops one.                                                              *)
(***************************************************************************)
EXTENDS Integers, Sequences

CONSTANTS
  Data,             (* the payloads a caller enqueues                      *)
  NoData,           (* what calloc'd nodes hold, and queue_deque's NULL    *)
  QUEUE_MAX_ITEMS   (* number of slots                                     *)

ASSUME QueueAssumption ==
  /\ QUEUE_MAX_ITEMS \in Nat \ {0}
  /\ NoData \notin Data

VARIABLES
  q_front,  (* slot of the oldest item, -1 before the first enqueue        *)
  q_rear,   (* slot of the newest item, -1 before the first enqueue        *)
  q_node,   (* the slots                                                   *)
  live,     (* FALSE once queue_dealloc_queue has freed the queue          *)
  rc,       (* return code of the last operation                           *)
  out       (* what the pointer returned by the last queue_deque pointed   *)
            (* at when it was returned                                     *)

vars == <<q_front, q_rear, q_node, live, rc, out>>

QUEUE_MIN_ITEMS == -1
Slots == 0 .. QUEUE_MAX_ITEMS - 1

Init ==
  /\ q_front = QUEUE_MIN_ITEMS
  /\ q_rear = QUEUE_MIN_ITEMS
  /\ q_node = [i \in Slots |-> NoData]
  /\ live = TRUE
  /\ rc = "EOK"
  /\ out = NoData

-----------------------------------------------------------------------------
(* The two tests every operation starts with.                              *)

(* Slips the properties have to notice are written next to the definition  *)
(* they are a slip of, and named after it with Slip in the name.           *)

(* Slip: the last slot is tested for one slot too late.                    *)
QueueFullSlipLate ==
  IF q_rear < QUEUE_MAX_ITEMS THEN "EOK"
  ELSE IF q_front = QUEUE_MIN_ITEMS + 1 THEN "EOVERFLOW"
  ELSE "ENOTEMPTY"

(* Slip: a queue whose front is at slot 0 is not taken for full.           *)
QueueFullSlipFront ==
  IF q_rear < QUEUE_MAX_ITEMS - 1 THEN "EOK"
  ELSE IF q_front = QUEUE_MIN_ITEMS THEN "EOVERFLOW"
  ELSE "ENOTEMPTY"

(* Slip: slots before the front are never used again.                      *)
QueueFullSlipNoCompaction ==
  IF q_rear < QUEUE_MAX_ITEMS - 1 THEN "EOK" ELSE "EOVERFLOW"

QueueFull ==
  IF q_rear < QUEUE_MAX_ITEMS - 1 THEN "EOK"
  ELSE IF q_front = QUEUE_MIN_ITEMS + 1 THEN "EOVERFLOW"
  ELSE "ENOTEMPTY"

QueueEmpty ==
  \/ q_front = q_rear + 1
  \/ q_front = QUEUE_MIN_ITEMS /\ q_rear = QUEUE_MIN_ITEMS

(* Compaction: what it asserts, and the array it leaves.  Each node moves  *)
(* towards slot 0, so no node is overwritten before it has been copied.    *)
CompactAsserts ==
  /\ q_rear = QUEUE_MAX_ITEMS - 1
  /\ q_front # QUEUE_MIN_ITEMS
  /\ q_front # QUEUE_MIN_ITEMS + 1

(* Slip: one node too few.                                                 *)
NumNodesSlip == q_rear - q_front

NumNodes == q_rear - q_front + 1

CompactedNodes ==
  [i \in Slots |-> IF i < NumNodes THEN q_node[q_front + i] ELSE q_node[i]]

-----------------------------------------------------------------------------
(* queue_eneque, by the outcome of queue_is_queue_full.                    *)

EnqueueOverflow ==
  /\ QueueFull = "EOVERFLOW"
  /\ rc' = "EOVERFLOW"
  /\ UNCHANGED <<q_front, q_rear, q_node>>

EnqueueCompacting(d) ==
  /\ QueueFull = "ENOTEMPTY"
  /\ CompactAsserts
  /\ q_front' = QUEUE_MIN_ITEMS + 1
  /\ q_rear' = NumNodes
  /\ q_node' = [CompactedNodes EXCEPT ![NumNodes] = d]
  /\ rc' = "EOK"

(* Slip: a queue that was emptied starts again at slot 0.                  *)
EnqueueAtRearSlip(d) ==
  /\ QueueFull = "EOK"
  /\ q_front' = IF QueueEmpty THEN 0 ELSE q_front
  /\ q_rear' = IF QueueEmpty THEN 0 ELSE q_rear + 1
  /\ q_node' = [q_node EXCEPT ![q_rear'] = d]
  /\ rc' = "EOK"

EnqueueAtRear(d) ==
  /\ QueueFull = "EOK"
  /\ q_front' = IF q_front = QUEUE_MIN_ITEMS THEN 0 ELSE q_front
  /\ q_rear' = q_rear + 1
  /\ q_node' = [q_node EXCEPT ![q_rear + 1] = d]
  /\ rc' = "EOK"

Enqueue(d) ==
  /\ live
  /\ \/ EnqueueOverflow
     \/ EnqueueCompacting(d)
     \/ EnqueueAtRear(d)
  /\ UNCHANGED <<live, out>>

(* queue_deque: the node stays where it is, only q_front moves past it.    *)
Dequeue ==
  /\ live
  /\ \/ /\ QueueEmpty
        /\ rc' = "ENOENT"
        /\ out' = NoData
        /\ UNCHANGED q_front
     \/ /\ ~QueueEmpty
        /\ rc' = "EOK"
        /\ out' = q_node[q_front]
        /\ q_front' = q_front + 1
  /\ UNCHANGED <<q_rear, q_node, live>>

(* queue_dealloc_queue: CHECK_RC returns the ENOTEMPTY of the test.        *)
Dealloc ==
  /\ live
  /\ \/ /\ QueueEmpty
        /\ rc' = "EOK"
        /\ live' = FALSE
     \/ /\ ~QueueEmpty
        /\ rc' = "ENOTEMPTY"
        /\ UNCHANGED live
  /\ UNCHANGED <<q_front, q_rear, q_node, out>>

Next ==
  \/ \E d \in Data : Enqueue(d)
  \/ Dequeue
  \/ Dealloc

Spec == Init /\ [][Next]_vars

-----------------------------------------------------------------------------
(* Properties                                                              *)

(* The two indices delimit a window of the array: both are -1 before the   *)
(* first queue_eneque, and afterwards q_front is at most one slot past     *)
(* q_rear, which is a slot.                                                *)
TypeOK ==
  /\ q_rear \in QUEUE_MIN_ITEMS .. QUEUE_MAX_ITEMS - 1
  /\ q_front \in QUEUE_MIN_ITEMS .. q_rear + 1
  /\ q_front = QUEUE_MIN_ITEMS <=> q_rear = QUEUE_MIN_ITEMS
  /\ q_node \in [Slots -> Data \cup {NoData}]
  /\ live \in BOOLEAN
  /\ rc \in {"EOK", "EOVERFLOW", "ENOENT", "ENOTEMPTY"}
  /\ out \in Data \cup {NoData}

(* The assertions at the head of queue_compact_queue ("It is a bug if      *)
(* front is pointing at -1 or 0") never fail, whatever operations came     *)
(* before.                                                                 *)
CompactionNeverAsserts ==
  live /\ QueueFull = "ENOTEMPTY" => CompactAsserts

(* The caller holds a pointer into the array after queue_deque.  What the  *)
(* pointers handed out since the last compaction point at is overwritten   *)
(* by no operation other than a queue_eneque that has to compact: an       *)
(* ordinary one writes to a slot behind all of them.                       *)
DequeuedNodesKept ==
  [][\A i \in Slots :
        i < q_front /\ q_node'[i] # q_node[i] => QueueFull = "ENOTEMPTY"]_vars

(* The refinement mapping: the items are the slots q_front to q_rear.      *)
Items ==
  IF q_front = QUEUE_MIN_ITEMS THEN <<>>
  ELSE [k \in 1 .. NumNodes |-> q_node[q_front + k - 1]]

BQ == INSTANCE BoundedQueue
        WITH Capacity <- QUEUE_MAX_ITEMS,
             items <- Items

(* The array with its moving window is a first-in first-out queue that     *)
(* uses all its QUEUE_MAX_ITEMS slots: it refuses an item only when it     *)
(* holds QUEUE_MAX_ITEMS of them, and compaction loses, duplicates and     *)
(* reorders nothing.                                                       *)
ImplementsBoundedQueue == BQ!Spec
=============================================================================
