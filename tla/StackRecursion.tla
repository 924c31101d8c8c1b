--------------------------- MODULE StackRecursion ---------------------------
(***************************************************************************)
(* stack_prob_6.c and stack_prob_7.c: a stack reversed, and sorted, by     *)
(* recursion over the operations of Stack.  Each frame of the outer        *)
(* function keeps the pointer node that stack_pop gave it, into the array  *)
(* of the stack, while the frames inside it pop and push; each frame of    *)
(* the insertion copies what it pops.  One step per stack operation.  The  *)
(* payloads are integers.                                                  *)
(***************************************************************************)
EXTENDS Stack, SequencesExt

VARIABLES
  call,    (* "none", or the last call: "rev" or "sort"                    *)
  pc,      (* "caller", or the phase that the running call is in           *)
  nodes,   (* the slots node points at, in the frames of the outer call    *)
  temps,   (* the copies temp2, in the frames of the running insertion     *)
  before   (* the items when the call was made                             *)

locals == <<call, pc, nodes, temps, before>>

RecursionInit ==
  /\ Init
  /\ call = "none"
  /\ pc = "caller"
  /\ nodes = <<>>
  /\ temps = <<>>
  /\ before = <<>>

(* The caller fills the stack, and takes the items from it.                *)
CallerUses ==
  /\ pc = "caller"
  /\ Pop \/ \E d \in Data : Push(d)
  /\ call' = "none"
  /\ before' = <<>>
  /\ UNCHANGED <<pc, nodes, temps>>

(* stack_prob_6_rev(st), stack_prob_7_sort(st).                            *)
Call(c) ==
  /\ pc = "caller"
  /\ call' = c
  /\ pc' = "pop"
  /\ before' = Items
  /\ UNCHANGED <<vars, nodes, temps>>

(* Slip: the pointer is taken after the pop.                               *)
PopAllSlip ==
  /\ pc = "pop"
  /\ ~StackEmpty
  /\ Pop
  /\ nodes' = Append(nodes, st_top')
  /\ UNCHANGED <<call, pc, temps, before>>

(* Each frame pops an item and calls the next one, until there is none.    *)
PopAll ==
  /\ pc = "pop"
  /\ ~StackEmpty
  /\ Pop
  /\ nodes' = Append(nodes, st_top)
  /\ UNCHANGED <<call, pc, temps, before>>

Bottom ==
  /\ pc = "pop"
  /\ StackEmpty
  /\ pc' = "insert"
  /\ UNCHANGED <<vars, call, nodes, temps, before>>

(* The innermost frame's item goes to the bottom, or below the first item  *)
(* that is not less, as *node is at the moment.                            *)
PlaceSlip == ~StackEmpty => call = "sort" /\ st_node[Last(nodes)] < st_node[st_top]

Place == ~StackEmpty => call = "sort" /\ st_node[Last(nodes)] > st_node[st_top]

InsertDown ==
  /\ pc = "insert"
  /\ nodes # <<>>
  /\ ~Place
  /\ Pop
  /\ temps' = Append(temps, out')
  /\ UNCHANGED <<call, pc, nodes, before>>

InsertNode ==
  /\ pc = "insert"
  /\ nodes # <<>>
  /\ Place
  /\ Push(st_node[Last(nodes)])
  /\ pc' = "unwind"
  /\ UNCHANGED <<call, nodes, temps, before>>

(* The frames of the insertion push their copies again.                    *)
InsertUp ==
  /\ pc = "unwind"
  /\ temps # <<>>
  /\ Push(Last(temps))
  /\ temps' = Front(temps)
  /\ UNCHANGED <<call, pc, nodes, before>>

FrameReturns ==
  /\ pc = "unwind"
  /\ temps = <<>>
  /\ nodes' = Front(nodes)
  /\ pc' = "insert"
  /\ UNCHANGED <<vars, call, temps, before>>

CallReturns ==
  /\ pc = "insert"
  /\ nodes = <<>>
  /\ pc' = "caller"
  /\ UNCHANGED <<vars, call, nodes, temps, before>>

Running ==
  \/ PopAll
  \/ Bottom
  \/ InsertDown
  \/ InsertNode
  \/ InsertUp
  \/ FrameReturns
  \/ CallReturns

RecursionNext ==
  \/ CallerUses
  \/ \E c \in {"rev", "sort"} : Call(c)
  \/ Running

RecursionSpec == RecursionInit /\ [][RecursionNext]_<<vars, locals>>

-----------------------------------------------------------------------------
(* Properties                                                              *)

(* The memory that a frame's node points at has been given back to the     *)
(* stack.  It keeps the item that was popped for as long as the frame      *)
(* needs it: all pushes made meanwhile end below it.                       *)
NodesKept ==
  \A k \in DOMAIN nodes :
    k < Len(nodes) \/ pc # "unwind" =>
      /\ nodes[k] > st_top
      /\ st_node[nodes[k]] = before[Len(before) + 1 - k]

(* t has the items of s in ascending order, each as often as s has it.     *)
SortedFrom(t, s) ==
  /\ \A j, k \in DOMAIN t : j < k => t[j] <= t[k]
  /\ \E p \in Bijection(DOMAIN t, DOMAIN s) : \A k \in DOMAIN t : t[k] = s[p[k]]

(* A call that has returned has reversed, or sorted, the stack: no item is *)
(* lost to a push on a full stack, whose return code is ignored.           *)
ReversesAndSorts ==
  pc = "caller" =>
    CASE call = "rev" -> Items = Reverse(before)
      [] call = "sort" -> SortedFrom(Items, before)
      [] OTHER -> TRUE
=============================================================================
