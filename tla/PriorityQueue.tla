--------------------------- MODULE PriorityQueue ---------------------------
(***************************************************************************)
(* What a heap promises to its callers: a bag of at most Capacity keys     *)
(* that gives back its first key in the heap's order.  As in heap.c the    *)
(* full heap refuses removals too, an order other than the heap's own is   *)
(* an assertion failure once the heap is not empty, and a removal from an  *)
(* empty heap reads in front of its array: both end the program.           *)
(***************************************************************************)
EXTENDS Naturals

CONSTANTS
  Keys,             (* the keys                                            *)
  NoKey,            (* no key: nothing has been removed yet                *)
  Types,            (* the orders: HEAP_TYPE_MIN and HEAP_TYPE_MAX         *)
  First(_, _, _),   (* First(t, a, b): in order t key a comes before b     *)
  Capacity          (* the number of keys the heap can hold                *)

VARIABLES
  bag,              (* how many times each key is in the heap              *)
  size,             (* the number of keys in the heap                      *)
  order,            (* the order the heap was allocated with               *)
  state,            (* "live", "freed" or "crashed"                        *)
  rc,               (* the return code of the last operation               *)
  out               (* the key the last removal handed over                *)

vars == <<bag, size, order, state, rc, out>>

Init ==
  /\ bag = [k \in Keys |-> 0]
  /\ size = 0
  /\ order \in Types
  /\ state = "live"
  /\ rc = "EOK"
  /\ out = NoKey

Admits(t) == size = 0 \/ t = order

Refuse(t) ==
  /\ Admits(t)
  /\ size = Capacity
  /\ rc' = "EXFULL"
  /\ UNCHANGED <<bag, size, order, state, out>>

Insert(k, t) ==
  /\ Admits(t)
  /\ size < Capacity
  /\ bag' = [bag EXCEPT ![k] = @ + 1]
  /\ size' = size + 1
  /\ rc' = "EOK"
  /\ UNCHANGED <<order, state, out>>

(* The key handed over is one no key in the heap comes before.             *)
Remove(k, t) ==
  /\ t = order
  /\ size \in 1 .. Capacity - 1
  /\ bag[k] > 0
  /\ \A other \in Keys : bag[other] > 0 => ~First(order, other, k)
  /\ bag' = [bag EXCEPT ![k] = @ - 1]
  /\ size' = size - 1
  /\ out' = k
  /\ rc' = "EOK"
  /\ UNCHANGED <<order, state>>

Crash(t) ==
  /\ size = 0 \/ ~Admits(t)
  /\ state' = "crashed"
  /\ UNCHANGED <<bag, size, order, rc, out>>

Dealloc ==
  /\ \/ /\ size = 0
        /\ rc' = "EOK"
        /\ state' = "freed"
     \/ /\ size # 0
        /\ rc' = "ENOTEMPTY"
        /\ UNCHANGED state
  /\ UNCHANGED <<bag, size, order, out>>

Next ==
  /\ state = "live"
  /\ \/ \E t \in Types : \/ Refuse(t)
                         \/ Crash(t)
                         \/ \E k \in Keys : Insert(k, t) \/ Remove(k, t)
     \/ Dealloc

Spec == Init /\ [][Next]_vars
=============================================================================
