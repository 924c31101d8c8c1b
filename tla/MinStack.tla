------------------------------ MODULE MinStack ------------------------------
(***************************************************************************)
(* stack_prob_9.c: a stack whose minimum is known at any time, of two      *)
(* instances of Stack, st_main (the variables of Stack) and st_temp.  The  *)
(* return codes of the two are not looked at.  The payloads are integers.  *)
(***************************************************************************)
EXTENDS Stack, FiniteSetsExt

VARIABLES temp_top, temp_node, temp_live, temp_rc, temp_out

Temp == INSTANCE Stack WITH st_top <- temp_top, st_node <- temp_node, live <- temp_live,
                            rc <- temp_rc, out <- temp_out

temp == <<temp_top, temp_node, temp_live, temp_rc, temp_out>>

MinInit ==
  /\ Init
  /\ Temp!Init

(* Slip: the new item is compared with the last one, not with the minimum. *)
LessSlip(i) ==
  IF StackEmpty \/ i < st_node[st_top] THEN i ELSE st_node[st_top]

(* min in stack_prob_9_push, from what stack_get_peek(st_temp) returns.    *)
Less(i) ==
  IF Temp!StackEmpty \/ i < temp_node[temp_top] THEN i ELSE temp_node[temp_top]

(* stack_prob_9_push and stack_prob_9_pop.                                 *)
MinPush(i) ==
  /\ Push(i)
  /\ Temp!Push(Less(i))

MinPop ==
  /\ Temp!Pop
  /\ Pop

(* The end of stack_prob_9.                                                *)
MinMakeEmpty ==
  /\ MakeEmpty
  /\ Temp!MakeEmpty

MinNext ==
  \/ \E i \in Data : MinPush(i)
  \/ MinPop
  \/ MinMakeEmpty

MinSpec == MinInit /\ [][MinNext]_<<vars, temp>>

-----------------------------------------------------------------------------
(* Properties                                                              *)

(* On top of st_temp is the least item of st_main, also after pops and     *)
(* when a full st_main has refused an item: each item has the minimum of   *)
(* the items up to it next to it.                                          *)
MinOnTop ==
  /\ temp_top = st_top
  /\ \A k \in 0 .. st_top : temp_node[k] = Min({st_node[j] : j \in 0 .. k})
=============================================================================
