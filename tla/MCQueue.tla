------------------------------ MODULE MCQueue ------------------------------
(***************************************************************************)
(* The queue and its client, the stack of two queues, for one run: a       *)
(* behaviour uses the array of Queue or the two queues of StackOfQueues    *)
(* (impl), and leaves the other as it is at the start.                     *)
(***************************************************************************)
EXTENDS Queue

VARIABLES
  impl,                  (* "queue" or "stack"                             *)
  frontA, rearA, nodeA, frontB, rearB, nodeB, q1, pc,
  q_live, q_status, q_data, q_rc, q_out

CONSTANT STACK_QUEUE_ITEMS   (* the size of the two queues                 *)

SQ == INSTANCE StackOfQueues
        WITH QUEUE_MAX_ITEMS <- STACK_QUEUE_ITEMS,
             live <- q_live, status <- q_status, data <- q_data, rc <- q_rc, out <- q_out

queues == <<frontA, rearA, nodeA, frontB, rearB, nodeB, q1, pc,
            q_live, q_status, q_data, q_rc, q_out>>

MCInit ==
  /\ impl \in {"queue", "stack"}
  /\ Init
  /\ SQ!Init

MCNext ==
  /\ \/ impl = "queue" /\ Next /\ UNCHANGED queues
     \/ impl = "stack" /\ SQ!Next /\ UNCHANGED vars
  /\ UNCHANGED impl

(* The fairness of SQ!FairSpec.                                            *)
MCSpec ==
  /\ MCInit
  /\ [][MCNext]_<<impl, vars, queues>>
  /\ WF_queues(pc # "caller" /\ (SQ!MoveOut \/ SQ!MoveIn \/ SQ!PopLast))

-----------------------------------------------------------------------------
(* The stack of two queues is a bounded stack.                             *)
QueuesImplementBoundedStack == SQ!ImplementsBoundedStack

(* Every pop of the stack of two queues returns.                           *)
PopReturns == SQ!PopReturns
=============================================================================
