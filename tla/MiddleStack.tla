---------------------------- MODULE MiddleStack -----------------------------
(***************************************************************************)
(* stack_prob_11.c: a stack on a doubly linked list that keeps a pointer   *)
(* to its middle and counts its items, one step per call.                  *)
(***************************************************************************)
EXTENDS Lists

VARIABLES
  middle,   (* st->middle                                                  *)
  count     (* st->count                                                   *)

stack == <<middle, count>>

MiddleInit ==
  /\ Init
  /\ kind = "dll"
  /\ middle = NULL
  /\ count = 0

(* stack_prob_11_push and stack_prob_11_pop: the middle moves each second  *)
(* time.                                                                   *)
MiddlePush(d) ==
  /\ Insert(d, 0)
  /\ count' = count + 1
  /\ middle' = IF count' = 1 THEN head'
               ELSE IF count' % 2 = 1 THEN heap'[middle].prev
               ELSE middle

(* Slip: the middle moves at the other count.                              *)
MiddlePopSlip ==
  /\ head # NULL
  /\ Remove(0)
  /\ count' = count - 1
  /\ middle' = IF count' = 0 THEN NULL
               ELSE IF count' % 2 = 1 THEN heap'[middle].next
               ELSE middle

MiddlePop ==
  /\ head # NULL
  /\ Remove(0)
  /\ count' = count - 1
  /\ middle' = IF count' = 0 THEN NULL
               ELSE IF count' % 2 = 0 THEN heap'[middle].next
               ELSE middle

(* The data of an empty list is read.                                      *)
MiddlePopEmpty ==
  /\ head = NULL
  /\ End
  /\ UNCHANGED stack

(* stack_dll_deallocate; another stack is allocated.                       *)
MiddleDeallocate ==
  /\ RemoveAll
  /\ middle' = NULL
  /\ count' = 0

MiddleNext ==
  /\ status = "running"
  /\ \/ \E d \in Data : MiddlePush(d)
     \/ MiddlePop
     \/ MiddlePopEmpty
     \/ MiddleDeallocate

MiddleSpec == MiddleInit /\ [][MiddleNext]_<<vars, stack>>

-----------------------------------------------------------------------------
(* Properties                                                              *)

(* The pointer that is only ever moved by one node, every second time, to  *)
(* either side, is at the middle of the list, or behind it if the length   *)
(* is even, and never at a freed node.                                     *)
MiddleKept ==
  LET all == All(heap)
  IN  /\ count = Len(all)
      /\ middle = IF all = <<>> THEN NULL ELSE all[Len(all) \div 2 + 1]
=============================================================================
