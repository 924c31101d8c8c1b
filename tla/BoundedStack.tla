---------------------------- MODULE BoundedStack ----------------------------
(***************************************************************************)
(* What a stack promises to its callers: a last-in first-out list of at    *)
(* most Capacity items.  The array stack of stack.c (module Stack) and the *)
(* stack made of two queues of stack_prob_10.c (module StackOfQueues) both *)
(* implement it.                                                           *)
(***************************************************************************)
EXTENDS Naturals, Sequences

CONSTANTS
  Data,      (* the payloads a caller pushes                              *)
  NoData,    (* the NULL of a pop or a peek on an empty stack             *)
  Capacity   (* the number of items the stack can hold                    *)

VARIABLES
  items,     (* the items on the stack, oldest first                      *)
  live,      (* FALSE once the stack has been freed                       *)
  rc,        (* the return code of the last operation                     *)
  out        (* the item the last pop or peek handed over                 *)

vars == <<items, live, rc, out>>

Init ==
  /\ items = <<>>
  /\ live = TRUE
  /\ rc = "EOK"
  /\ out = NoData

Top == IF items = <<>> THEN NoData ELSE items[Len(items)]
Rest == SubSeq(items, 1, Len(items) - 1)

Push(d) ==
  /\ live
  /\ \/ /\ Len(items) = Capacity
        /\ rc' = "EOVERFLOW"
        /\ UNCHANGED items
     \/ /\ Len(items) < Capacity
        /\ rc' = "EOK"
        /\ items' = Append(items, d)
  /\ UNCHANGED <<live, out>>

Pop ==
  /\ live
  /\ out' = Top
  /\ \/ /\ items = <<>>
        /\ rc' = "ENOENT"
        /\ UNCHANGED items
     \/ /\ items # <<>>
        /\ rc' = "EOK"
        /\ items' = Rest
  /\ UNCHANGED live

Peek ==
  /\ live
  /\ out' = Top
  /\ UNCHANGED <<items, live, rc>>

(* Freed only when empty, unless the caller asks to empty it first.        *)
Dealloc ==
  /\ live
  /\ \/ /\ items = <<>>
        /\ rc' = "EOK"
        /\ live' = FALSE
     \/ /\ items # <<>>
        /\ rc' = "ENOTEMPTY"
        /\ UNCHANGED live
  /\ UNCHANGED <<items, out>>

MakeEmpty ==
  /\ live
  /\ items' = <<>>
  /\ live' = FALSE
  /\ rc' = "EOK"
  /\ UNCHANGED out

Next ==
  \/ \E d \in Data : Push(d)
  \/ Pop
  \/ Peek
  \/ Dealloc
  \/ MakeEmpty

Spec == Init /\ [][Next]_vars
=============================================================================
