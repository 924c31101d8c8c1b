-------------------------------- MODULE Heap --------------------------------
(***************************************************************************)
(* heap/heap.c: a min- or max-heap in an array of HEAP_MAX_SIZE nodes.     *)
(* One action per iteration of the loop that moves an inserted key up and  *)
(* per recursive call of heap_min_heapify / heap_max_heapify; pc says      *)
(* which of them is running, and no other operation starts meanwhile.      *)
(* The order is a parameter of every call: min and max code are the same   *)
(* but for the comparison, First below.                                    *)
(***************************************************************************)
EXTENDS Integers, FiniteSets

CONSTANTS
  Keys,            (* the keys; integers, compared as integers             *)
  NoKey,           (* what zeroed nodes hold                               *)
  HEAP_MAX_SIZE    (* number of nodes                                      *)

ASSUME HeapAssumption ==
  /\ Keys \subseteq Int
  /\ NoKey \notin Keys
  /\ HEAP_MAX_SIZE \in Nat \ {0, 1}

VARIABLES
  heap_data,  (* the nodes; those from heap_size on hold left-overs        *)
  heap_size,  (* number of nodes in the heap                               *)
  heap_type,  (* the order the heap was allocated with                     *)
  pc,         (* "idle", "up", "down", "freed" or "crashed"                *)
  index,      (* the node the running loop is at                           *)
  type,       (* the order given with the last heap_insert or heap_remove  *)
  rc,         (* return code of the last operation                         *)
  out         (* the key the last heap_remove copied out                   *)

vars == <<heap_data, heap_size, heap_type, pc, index, type, rc, out>>

HEAP_MIN_SIZE == 0
HEAP_ROOT_LOC == 0
Types == {"min", "max"}
Nodes == 0 .. HEAP_MAX_SIZE - 1

Parent(i) == (i - 1) \div 2
Left(i) == 2 * i + 1
Right(i) == 2 * i + 2

(* The result of compare() that makes key a belong above key b.            *)
First(t, a, b) == IF t = "min" THEN a < b ELSE a > b

Swapped(i, j) ==
  [heap_data EXCEPT ![i] = heap_data[j], ![j] = heap_data[i]]

Init ==
  /\ heap_data = [i \in Nodes |-> NoKey]
  /\ heap_size = HEAP_MIN_SIZE
  /\ heap_type \in Types
  /\ pc = "idle"
  /\ index = 0
  /\ type = heap_type
  /\ rc = "EOK"
  /\ out = NoKey

-----------------------------------------------------------------------------
(* heap_validate_input, the beginning of heap_insert and of heap_remove.   *)

Mismatch(t) == heap_size # HEAP_MIN_SIZE /\ heap_type # t
(* Slips the properties have to notice are written next to the definition  *)
(* they are a slip of.  Here: the limit is tested one node too late.       *)
FullSlip == heap_size = HEAP_MAX_SIZE

Full == heap_size = HEAP_MAX_SIZE - 1

(* The call up to its assertion on the order: it aborts.                   *)
Abort(t) ==
  /\ Mismatch(t)
  /\ type' = t
  /\ pc' = "crashed"
  /\ UNCHANGED <<heap_data, heap_size, heap_type, index, rc, out>>

(* Both operations return what the validation returned.                    *)
Refuse(t) ==
  /\ ~Mismatch(t)
  /\ Full
  /\ type' = t
  /\ rc' = "EXFULL"
  /\ UNCHANGED <<heap_data, heap_size, heap_type, pc, index, out>>

-----------------------------------------------------------------------------
(* heap_insert: the key goes to the first node past the heap, then up.     *)

Insert(k, t) ==
  /\ ~Mismatch(t)
  /\ ~Full
  /\ type' = t
  /\ index' = heap_size
  /\ heap_size' = heap_size + 1
  /\ heap_data' = [heap_data EXCEPT ![heap_size] = k]
  /\ pc' = "up"
  /\ rc' = "EOK"
  /\ UNCHANGED <<heap_type, out>>

(* The loop compares the caller's data, which is the key in node index.    *)
BelowParent == index # 0 /\ First(type, heap_data[index], heap_data[Parent(index)])

SiftUp ==
  /\ pc = "up"
  /\ BelowParent
  /\ heap_data' = Swapped(index, Parent(index))
  /\ index' = Parent(index)
  /\ UNCHANGED <<heap_size, heap_type, pc, type, rc, out>>

SiftUpDone ==
  /\ pc = "up"
  /\ ~BelowParent
  /\ pc' = "idle"
  /\ UNCHANGED <<heap_data, heap_size, heap_type, index, type, rc, out>>

-----------------------------------------------------------------------------
(* heap_remove: the last key replaces the root, then moves down.           *)

(* Slip: the node past the last one replaces the root.                     *)
RemoveSlip(t) ==
  /\ ~Mismatch(t)
  /\ ~Full
  /\ heap_size # HEAP_MIN_SIZE
  /\ type' = t
  /\ out' = heap_data[HEAP_ROOT_LOC]
  /\ heap_data' = [heap_data EXCEPT ![HEAP_ROOT_LOC] = heap_data[heap_size]]
  /\ heap_size' = heap_size - 1
  /\ index' = HEAP_ROOT_LOC
  /\ pc' = "down"
  /\ rc' = "EOK"
  /\ UNCHANGED heap_type

Remove(t) ==
  /\ ~Mismatch(t)
  /\ ~Full
  /\ heap_size # HEAP_MIN_SIZE
  /\ type' = t
  /\ out' = heap_data[HEAP_ROOT_LOC]
  /\ heap_data' = [heap_data EXCEPT ![HEAP_ROOT_LOC] = heap_data[heap_size - 1]]
  /\ heap_size' = heap_size - 1
  /\ index' = HEAP_ROOT_LOC
  /\ pc' = "down"
  /\ rc' = "EOK"
  /\ UNCHANGED heap_type

(* Nothing tests for an empty heap: the node copied to the root is         *)
(* heap_data[-1], the word in front of the structure, and dereferencing it *)
(* ends the program.                                                       *)
RemoveFromEmpty(t) ==
  /\ heap_size = HEAP_MIN_SIZE
  /\ type' = t
  /\ pc' = "crashed"
  /\ UNCHANGED <<heap_data, heap_size, heap_type, index, rc, out>>

(* Slip: the right child is never compared.                                *)
FirstOfThreeSlip(i) ==
  IF First(type, heap_data[i], heap_data[Left(i)]) THEN i ELSE Left(i)

(* find_smallest_from_three / find_greatest_from_three, as a node: ties    *)
(* are broken by comparing keys with the root first, then with the left.   *)
FirstOfThree(i) ==
  LET a == IF First(type, heap_data[i], heap_data[Left(i)]) THEN i ELSE Left(i)
      b == IF First(type, heap_data[Right(i)], heap_data[a]) THEN Right(i) ELSE a
  IN  IF heap_data[b] = heap_data[i] THEN i ELSE b

(* The node heapify exchanges with node i, or i itself when it stops.      *)
HeapifyTarget(i) ==
  IF Left(i) >= heap_size THEN i
  ELSE IF Right(i) >= heap_size
       THEN IF First(type, heap_data[i], heap_data[Left(i)]) THEN i ELSE Left(i)
       ELSE FirstOfThree(i)

(* Slip: heapify calls itself for the node it has just dealt with.         *)
SiftDownSlip ==
  /\ pc = "down"
  /\ HeapifyTarget(index) # index
  /\ heap_data' = Swapped(index, HeapifyTarget(index))
  /\ UNCHANGED <<index, heap_size, heap_type, pc, type, rc, out>>

SiftDown ==
  /\ pc = "down"
  /\ HeapifyTarget(index) # index
  /\ heap_data' = Swapped(index, HeapifyTarget(index))
  /\ index' = HeapifyTarget(index)
  /\ UNCHANGED <<heap_size, heap_type, pc, type, rc, out>>

SiftDownDone ==
  /\ pc = "down"
  /\ HeapifyTarget(index) = index
  /\ pc' = "idle"
  /\ UNCHANGED <<heap_data, heap_size, heap_type, index, type, rc, out>>

-----------------------------------------------------------------------------
Dealloc ==
  /\ \/ /\ heap_size = HEAP_MIN_SIZE
        /\ rc' = "EOK"
        /\ pc' = "freed"
     \/ /\ heap_size # HEAP_MIN_SIZE
        /\ rc' = "ENOTEMPTY"
        /\ UNCHANGED pc
  /\ UNCHANGED <<heap_data, heap_size, heap_type, index, type, out>>

Call ==
  /\ pc = "idle"
  /\ \/ \E t \in Types : \/ Abort(t)
                         \/ Refuse(t)
                         \/ \E k \in Keys : Insert(k, t)
                         \/ Remove(t)
                         \/ RemoveFromEmpty(t)
     \/ Dealloc

Loop == SiftUp \/ SiftUpDone \/ SiftDown \/ SiftDownDone

Next == Call \/ Loop

Spec == Init /\ [][Next]_vars

(* A running operation keeps running: there is one thread and it does not  *)
(* block.  Callers need not call.                                          *)
FairSpec == Spec /\ WF_vars(Loop)

-----------------------------------------------------------------------------
(* Properties                                                              *)

(* The heap never reaches the last node: heap_size < HEAP_MAX_SIZE, the    *)
(* nodes in the heap hold keys, and index is a node of the heap while a    *)
(* loop runs (or the root of a heap just emptied).                         *)
TypeOK ==
  /\ heap_data \in [Nodes -> Keys \cup {NoKey}]
  /\ heap_size \in HEAP_MIN_SIZE .. HEAP_MAX_SIZE - 1
  /\ heap_type \in Types
  /\ pc \in {"idle", "up", "down", "freed", "crashed"}
  /\ index \in Nodes
  /\ type \in Types
  /\ rc \in {"EOK", "EXFULL", "ENOTEMPTY"}
  /\ out \in Keys \cup {NoKey}

InHeap == 0 .. heap_size - 1

Ordered(i) == ~First(heap_type, heap_data[i], heap_data[Parent(i)])

(* Between operations no key comes before the key of its parent node, in   *)
(* the order of the heap, whatever insertions and removals came before,    *)
(* equal keys and a heap emptied and filled again included.                *)
HeapOrder == pc = "idle" => \A i \in InHeap \ {HEAP_ROOT_LOC} : Ordered(i)

(* Every heap_insert and heap_remove returns: the key it moves reaches its *)
(* place after finitely many exchanges, also among equal keys, where       *)
(* heapify exchanges a node with its only child.                           *)
OperationsReturn == pc \in {"up", "down"} ~> pc = "idle"

(* The refinement mapping: how often each key is in a node of the heap.    *)
Bag == [k \in Keys |-> Cardinality({i \in InHeap : heap_data[i] = k})]

PQ == INSTANCE PriorityQueue
        WITH Capacity <- HEAP_MAX_SIZE - 1,
             bag <- Bag,
             size <- heap_size,
             order <- heap_type,
             state <- IF pc \in {"freed", "crashed"} THEN pc ELSE "live"

(* The array is a priority queue of HEAP_MAX_SIZE - 1 keys: exchanging     *)
(* nodes loses and duplicates no key, and the key heap_remove hands over   *)
(* is the first of all keys in the heap.                                   *)
ImplementsPriorityQueue == PQ!Spec
=============================================================================
