------------------------------- MODULE Stack -------------------------------
(***************************************************************************)
(* stack/stack.c: a stack in an array of STACK_MAX_ITEMS nodes, st_top the *)
(* index of the newest one.  stack_pop and stack_get_peek hand out a       *)
(* pointer into the array: a popped node is live memory of the stack until *)
(* a later stack_push reaches its slot again.                              *)
(***************************************************************************)
EXTENDS Integers, Sequences

CONSTANTS
  Data,             (* the payloads a caller pushes                        *)
  NoData,           (* what fresh nodes hold, and the NULL of stack_pop    *)
  STACK_MAX_ITEMS   (* number of slots                                     *)

ASSUME StackAssumption ==
  /\ STACK_MAX_ITEMS \in Nat \ {0}
  /\ NoData \notin Data

VARIABLES
  st_top,   (* slot of the newest item, -1 when the stack is empty         *)
  st_node,  (* the slots                                                   *)
  live,     (* FALSE once stack_dealloc_stack has freed the stack          *)
  rc,       (* return code of the last operation                           *)
  out       (* what the pointer returned by the last stack_pop or          *)
            (* stack_get_peek pointed at when it was returned              *)

vars == <<st_top, st_node, live, rc, out>>

STACK_MIN_ITEMS == -1
Slots == 0 .. STACK_MAX_ITEMS - 1

(* stack_alloc_stack: zeroed nodes, stack_initialize.                      *)
Init ==
  /\ st_top = STACK_MIN_ITEMS
  /\ st_node = [i \in Slots |-> NoData]
  /\ live = TRUE
  /\ rc = "EOK"
  /\ out = NoData

(* Slips the properties have to notice are written next to the definition  *)
(* they are a slip of: here, the full stack tested for one slot too late   *)
(* and one slot too early.                                                 *)
StackFullSlipLate == st_top = STACK_MAX_ITEMS
StackFullSlipEarly == st_top >= STACK_MAX_ITEMS - 2

StackFull == st_top = STACK_MAX_ITEMS - 1
StackEmpty == st_top = STACK_MIN_ITEMS

Push(d) ==
  /\ live
  /\ \/ /\ StackFull
        /\ rc' = "EOVERFLOW"
        /\ UNCHANGED <<st_top, st_node>>
     \/ /\ ~StackFull
        /\ rc' = "EOK"
        /\ st_top' = st_top + 1
        /\ st_node' = [st_node EXCEPT ![st_top + 1] = d]
  /\ UNCHANGED <<live, out>>

(* The node stays where it is, only st_top moves below it.                 *)
Pop ==
  /\ live
  /\ \/ /\ StackEmpty
        /\ rc' = "ENOENT"
        /\ out' = NoData
        /\ UNCHANGED st_top
     \/ /\ ~StackEmpty
        /\ rc' = "EOK"
        /\ out' = st_node[st_top]
        /\ st_top' = st_top - 1
  /\ UNCHANGED <<st_node, live>>

Peek ==
  /\ live
  /\ out' = IF StackEmpty THEN NoData ELSE st_node[st_top]
  /\ UNCHANGED <<st_top, st_node, live, rc>>

Dealloc ==
  /\ live
  /\ \/ /\ StackEmpty
        /\ rc' = "EOK"
        /\ live' = FALSE
     \/ /\ ~StackEmpty
        /\ rc' = "ENOTEMPTY"
        /\ UNCHANGED live
  /\ UNCHANGED <<st_top, st_node, out>>

(* stack_make_stack_empty: pops until the stack is empty, then frees it.   *)
MakeEmpty ==
  /\ live
  /\ st_top' = STACK_MIN_ITEMS
  /\ live' = FALSE
  /\ rc' = "EOK"
  /\ UNCHANGED <<st_node, out>>

Next ==
  \/ \E d \in Data : Push(d)
  \/ Pop
  \/ Peek
  \/ Dealloc
  \/ MakeEmpty

Spec == Init /\ [][Next]_vars

-----------------------------------------------------------------------------
(* Properties                                                              *)

(* st_top is -1 or a slot, and every slot holds a payload or what malloc   *)
(* left there.                                                             *)
TypeOK ==
  /\ st_top \in STACK_MIN_ITEMS .. STACK_MAX_ITEMS - 1
  /\ st_node \in [Slots -> Data \cup {NoData}]
  /\ live \in BOOLEAN
  /\ rc \in {"EOK", "EOVERFLOW", "ENOENT", "ENOTEMPTY"}
  /\ out \in Data \cup {NoData}

(* The refinement mapping: the items are the slots 0 to st_top.            *)
Items == [k \in 1 .. st_top + 1 |-> st_node[k - 1]]

BS == INSTANCE BoundedStack WITH Capacity <- STACK_MAX_ITEMS, items <- Items

(* The array stack is a last-in first-out list that uses all its slots:    *)
(* stack_push is refused exactly when STACK_MAX_ITEMS items are on it, and *)
(* a node left behind by a pop never comes back.                           *)
ImplementsBoundedStack == BS!Spec
=============================================================================
