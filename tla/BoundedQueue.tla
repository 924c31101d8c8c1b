---------------------------- MODULE BoundedQueue ----------------------------
(***************************************************************************)
(* What a queue_st promises to its callers: a first-in first-out list of   *)
(* at most Capacity items, every one of whose places can be used again     *)
(* once the item in it has been dequeued.  How the items lie in the array  *)
(* of nodes, and when they are moved, is left to module Queue, which       *)
(* implements this one.                                                    *)
(***************************************************************************)
EXTENDS Naturals, Sequences

CONSTANTS
  Data,      (* the payloads a caller enqueues                            *)
  NoData,    (* the NULL of queue_deque on an empty queue                 *)
  Capacity   (* the number of items the queue can hold                    *)

VARIABLES
  items,     (* the items in the queue, oldest first                      *)
  live,      (* FALSE once queue_dealloc_queue has freed the queue        *)
  rc,        (* the return code of the last operation                     *)
  out        (* the item the last queue_deque handed over                 *)

vars == <<items, live, rc, out>>

Init ==
  /\ items = <<>>
  /\ live = TRUE
  /\ rc = "EOK"
  /\ out = NoData

(* A full queue refuses; any other queue accepts.                          *)
Enqueue(d) ==
  /\ live
  /\ \/ /\ Len(items) = Capacity
        /\ rc' = "EOVERFLOW"
        /\ UNCHANGED items
     \/ /\ Len(items) < Capacity
        /\ rc' = "EOK"
        /\ items' = Append(items, d)
  /\ UNCHANGED <<live, out>>

Dequeue ==
  /\ live
  /\ \/ /\ items = <<>>
        /\ rc' = "ENOENT"
        /\ out' = NoData
        /\ UNCHANGED items
     \/ /\ items # <<>>
        /\ rc' = "EOK"
        /\ out' = Head(items)
        /\ items' = Tail(items)
  /\ UNCHANGED live

(* Only an empty queue is freed.                                           *)
Dealloc ==
  /\ live
  /\ \/ /\ items = <<>>
        /\ rc' = "EOK"
        /\ live' = FALSE
     \/ /\ items # <<>>
        /\ rc' = "ENOTEMPTY"
        /\ UNCHANGED live
  /\ UNCHANGED <<items, out>>

Next ==
  \/ \E d \in Data : Enqueue(d)
  \/ Dequeue
  \/ Dealloc

Spec == Init /\ [][Next]_vars
=============================================================================
