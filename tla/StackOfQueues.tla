--------------------------- MODULE StackOfQueues ---------------------------
(***************************************************************************)
(* stack/stack_prob_10.c: a stack made of two queues of module Queue, here *)
(* A and B, one of which is q1 and the other q2.  A push enqueues in q1; a *)
(* pop moves all items of q1 but the newest to q2, hands over the newest   *)
(* and swaps the two queues.  Each queue operation is a step, so that a    *)
(* pop takes many; the pointers q1_ptr and q2_ptr that the caller passes   *)
(* are the variable q1.                                                    *)
(***************************************************************************)
EXTENDS Integers, Sequences

CONSTANTS Data, NoData, QUEUE_MAX_ITEMS

VARIABLES
  frontA, rearA, nodeA,  (* queue A: q_front, q_rear and q_node            *)
  frontB, rearB, nodeB,  (* queue B                                        *)
  q1,                    (* "A" or "B": the queue q1_ptr leads to          *)
  pc,                    (* "caller", or where stack_prob_10_pop is        *)
  live, status,          (* FALSE once freed, return code: of the queues   *)
  data,                  (* what the pointer data in pop points at         *)
  rc, out                (* return code and item of the last push or pop   *)

A == INSTANCE Queue WITH q_front <- frontA, q_rear <- rearA, q_node <- nodeA,
                         rc <- status, out <- data
B == INSTANCE Queue WITH q_front <- frontB, q_rear <- rearB, q_node <- nodeB,
                         rc <- status, out <- data

queueA == <<frontA, rearA, nodeA>>
queueB == <<frontB, rearB, nodeB>>
vars == <<queueA, queueB, q1, pc, live, status, data, rc, out>>

Init ==
  /\ A!Init
  /\ B!Init
  /\ q1 = "A"
  /\ pc = "caller"
  /\ rc = "EOK"
  /\ out = NoData

-----------------------------------------------------------------------------
(* The operations on the queues that q1 and q2 stand for.                  *)
Q1Empty == IF q1 = "A" THEN A!QueueEmpty ELSE B!QueueEmpty
Q1OneItem == IF q1 = "A" THEN frontA = rearA ELSE frontB = rearB

EnequeQ1(d) ==
  \/ q1 = "A" /\ A!Enqueue(d) /\ UNCHANGED queueB
  \/ q1 = "B" /\ B!Enqueue(d) /\ UNCHANGED queueA

DequeQ1 ==
  \/ q1 = "A" /\ A!Dequeue /\ UNCHANGED queueB
  \/ q1 = "B" /\ B!Dequeue /\ UNCHANGED queueA

EnequeQ2(d) ==
  \/ q1 = "A" /\ B!Enqueue(d) /\ UNCHANGED queueA
  \/ q1 = "B" /\ A!Enqueue(d) /\ UNCHANGED queueB

Other(q) == IF q = "A" THEN "B" ELSE "A"

-----------------------------------------------------------------------------
(* stack_prob_10_push.                                                     *)
Push(d) ==
  /\ pc = "caller"
  /\ EnequeQ1(d)
  /\ rc' = status'
  /\ UNCHANGED <<q1, pc, out>>

(* stack_prob_10_pop on an empty stack.                                    *)
PopEmpty ==
  /\ pc = "caller"
  /\ Q1Empty
  /\ rc' = "ENOENT"
  /\ out' = NoData
  /\ UNCHANGED <<queueA, queueB, q1, pc, live, status, data>>

(* The test of the loop, and its two statements.  The second asserts that  *)
(* q2 has taken the item.                                                  *)
MoveOut ==
  /\ \/ pc = "caller" /\ ~Q1Empty
     \/ pc = "loop"
  /\ ~Q1OneItem
  /\ DequeQ1
  /\ pc' = "eneque"
  /\ UNCHANGED <<q1, rc, out>>

MoveIn ==
  /\ pc = "eneque"
  /\ EnequeQ2(data)
  /\ status' = "EOK"
  /\ pc' = "loop"
  /\ UNCHANGED <<q1, rc, out>>

(* Slip: the queues are not swapped.                                       *)
PopLastSlip ==
  /\ \/ pc = "caller" /\ ~Q1Empty
     \/ pc = "loop"
  /\ Q1OneItem
  /\ DequeQ1
  /\ pc' = "caller"
  /\ rc' = "EOK"
  /\ out' = data'
  /\ UNCHANGED q1

(* What follows the loop: the item left is handed over, the queues swap.   *)
PopLast ==
  /\ \/ pc = "caller" /\ ~Q1Empty
     \/ pc = "loop"
  /\ Q1OneItem
  /\ DequeQ1
  /\ q1' = Other(q1)
  /\ pc' = "caller"
  /\ rc' = "EOK"
  /\ out' = data'

Next ==
  \/ \E d \in Data : Push(d)
  \/ PopEmpty
  \/ MoveOut
  \/ MoveIn
  \/ PopLast

Spec == Init /\ [][Next]_vars

(* The program's one thread always takes the next step of a pop it is in;  *)
(* nothing forces the caller to call.                                      *)
FairSpec ==
  /\ Spec
  /\ WF_vars(pc # "caller" /\ (MoveOut \/ MoveIn \/ PopLast))

-----------------------------------------------------------------------------
(* Properties                                                              *)

TypeOK ==
  /\ A!TypeOK
  /\ B!TypeOK
  /\ q1 \in {"A", "B"}
  /\ pc \in {"caller", "loop", "eneque"}

Q1Items == IF q1 = "A" THEN A!Items ELSE B!Items
Q2Items == IF q1 = "A" THEN B!Items ELSE A!Items

(* In the middle of a pop the stack is what has been moved to q2, the item *)
(* in hand and what is left in q1.                                         *)
StackItems ==
  Q2Items \o (IF pc = "eneque" THEN <<data>> ELSE <<>>) \o Q1Items

BS == INSTANCE BoundedStack
        WITH Capacity <- QUEUE_MAX_ITEMS,
             items <- StackItems

(* Two queues used like this are a stack of QUEUE_MAX_ITEMS items, however *)
(* far the windows of the two arrays have moved: between operations q2 is  *)
(* empty, a pop hands over the newest item and leaves the others in order, *)
(* and only a full stack refuses a push.                                   *)
ImplementsBoundedStack == BS!Spec

(* Every pop comes to its end: q2 has room for each item that pop moves,   *)
(* so that the assertion in the loop never fails.                          *)
PopReturns == []<>(pc = "caller")
=============================================================================
