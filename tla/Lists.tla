------------------------------- MODULE Lists -------------------------------
(***************************************************************************)
(* sll, dll and scll: the singly linked, the doubly linked and the singly  *)
(* linked circular list.  A behaviour uses one of them (kind); a step is   *)
(* one call on the caller's head pointer.  The three differ in which       *)
(* pointers they keep and in how far they walk to a position.  A call that *)
(* follows a NULL pointer ends the program, and so does, in this model,    *)
(* every call after one that has left head dangling.                       *)
(***************************************************************************)
EXTENDS Integers, Sequences, FiniteSets

CONSTANTS
  Data,
  Positions,  (* positions callers pass                                    *)
  Nodes,      (* addresses malloc can return                               *)
  NULL

ASSUME ListsAssumption ==
  /\ Positions \subseteq Int
  /\ NULL \notin Nodes

VARIABLES
  kind,    (* the list in use                                              *)
  heap,    (* the allocated nodes, by address                              *)
  head,    (* the caller's pointer to the list                             *)
  status   (* "running", or "ended" once a call did not return             *)

vars == <<kind, heap, head, status>>

Links == Nodes \cup {NULL}

Init ==
  /\ kind \in {"sll", "dll", "scll"}
  /\ heap = <<>>
  /\ head = NULL
  /\ status = "running"

-----------------------------------------------------------------------------
(* The nodes passed from head in the given number of steps, or up to the   *)
(* tail, whose next pointer is NULL or, in scll, head.                     *)
Way(h, steps) ==
  LET from[w \in Links \X (0 .. steps)] ==
        LET n == w[1]
        IN  IF n \notin DOMAIN h THEN <<>>
            ELSE IF w[2] = 0 \/ h[n].next \in {NULL, head} THEN <<n>>
            ELSE <<n>> \o from[<<h[n].next, w[2] - 1>>]
  IN  from[<<head, steps>>]

All(h) == Way(h, Cardinality(DOMAIN h))

Last(way) == way[Len(way)]

(* Slip: the position is tested before the first step.                     *)
WayToSlip(h, position) ==
  Way(h, IF position - 1 > 0 THEN position - 1 ELSE 0)

(* The way to the node before a position other than 0.  dll and scll test  *)
(* the position after a step, so that they take at least one.              *)
WayTo(h, position) ==
  LET least == IF kind = "sll" THEN 0 ELSE 1
  IN  Way(h, IF position - 1 > least THEN position - 1 ELSE least)

(* h with the prev pointer of n, if there is such a node, in a dll.        *)
WithPrev(h, n, prev) ==
  IF kind = "dll" /\ n # NULL THEN [h EXCEPT ![n].prev = prev] ELSE h

(* The allocation: malloc does not return the address a dangling head has. *)
Free == Nodes \ (DOMAIN heap \cup {head})

(* Slip: the data is not copied.                                           *)
AllocatedSlip(n, d) ==
  [m \in DOMAIN heap \cup {n} |->
     IF m # n THEN heap[m]
     ELSE [data |-> NULL, prev |-> NULL, next |-> IF kind = "scll" THEN n ELSE NULL]]

Allocated(n, d) ==
  [m \in DOMAIN heap \cup {n} |->
     IF m # n THEN heap[m]
     ELSE [data |-> d, prev |-> NULL, next |-> IF kind = "scll" THEN n ELSE NULL]]

Without(h, n) == [m \in DOMAIN h \ {n} |-> h[m]]

End ==
  /\ status' = "ended"
  /\ UNCHANGED <<kind, heap, head>>

-----------------------------------------------------------------------------
(* sll_insert_node_pos, dll_insert_node_pos, scll_insert_node_pos.         *)

(* At position 0; in scll the tail, found by a walk to MAX_INT, which is   *)
(* the int -1 that stands for the tail, leads to the new head.             *)
InsertAtHead(n, d) ==
  LET h == Allocated(n, d)
      linked == WithPrev([h EXCEPT ![n].next = head], head, n)
  IN  /\ heap' = IF head = NULL THEN h
                 ELSE IF kind = "scll" THEN [linked EXCEPT ![Last(All(heap))].next = n]
                 ELSE linked
      /\ head' = n

(* Slip: the node behind keeps its prev pointer.                           *)
InsertBehindSlip(n, d, node) ==
  LET h == Allocated(n, d)
  IN  /\ heap' = WithPrev([h EXCEPT ![n].next = heap[node].next, ![node].next = n],
                          n, node)
      /\ UNCHANGED head

InsertBehind(n, d, node) ==
  LET h == Allocated(n, d)
      linked == [h EXCEPT ![n].next = heap[node].next, ![node].next = n]
  IN  /\ heap' = WithPrev(WithPrev(linked, n, node), heap[node].next, n)
      /\ UNCHANGED head

Insert(d, position) ==
  \/ /\ position = 0
     /\ head \in DOMAIN heap \cup {NULL}
     /\ \E n \in Free : InsertAtHead(n, d)
     /\ UNCHANGED <<kind, status>>
  \/ /\ position # 0
     /\ head \in DOMAIN heap
     /\ \E n \in Free : InsertBehind(n, d, Last(WayTo(heap, position)))
     /\ UNCHANGED <<kind, status>>
  \/ /\ IF position = 0 THEN head \notin DOMAIN heap \cup {NULL} ELSE head \notin DOMAIN heap
     /\ End

-----------------------------------------------------------------------------
(* sll_remove_node_pos, dll_remove_node_pos, scll_remove_node_pos.         *)

(* At position 0: the caller's list without its head.                      *)
WithoutHead(h) ==
  LET next == h[head].next
      single == next \in {NULL, head}
      linked == IF kind = "scll" THEN [h EXCEPT ![Last(All(h))].next = next]
                ELSE WithPrev(h, next, NULL)
  IN  [heap |-> Without(IF single THEN h ELSE linked, head),
       head |-> IF single THEN NULL ELSE next]

(* Behind a node that is not the tail.                                     *)
WithoutNext(h, node) ==
  LET n == h[node].next
      beyond == h[n].next
  IN  [heap |-> Without(WithPrev([h EXCEPT ![node].next = beyond], beyond, node), n),
       head |-> head]

(* A position at or past the tail: the tail goes.  Of a single node, sll   *)
(* and scll make the list empty; dll frees it and returns head as it is.   *)
WithoutTail(h, way) ==
  LET single == Len(way) = 1
      before == IF kind = "dll" THEN h[Last(way)].prev
                ELSE IF single THEN NULL ELSE way[Len(way) - 1]
      cut == IF before = NULL THEN h
             ELSE [h EXCEPT ![before].next = IF kind = "scll" THEN head ELSE NULL]
  IN  [heap |-> Without(cut, Last(way)),
       head |-> IF single /\ kind # "dll" THEN NULL ELSE head]

Removed(m) ==
  /\ heap' = m.heap
  /\ head' = m.head
  /\ UNCHANGED <<kind, status>>

RemoveAtHead ==
  /\ head \in DOMAIN heap
  /\ Removed(WithoutHead(heap))

RemoveBehind(position) ==
  /\ head \in DOMAIN heap
  /\ LET way == WayTo(heap, position)
     IN  IF heap[Last(way)].next \in {NULL, head}
         THEN Removed(WithoutTail(heap, way))
         ELSE Removed(WithoutNext(heap, Last(way)))

(* sll, and dll at position 0, return NULL for NULL.                       *)
RemoveNothing(position) ==
  /\ head = NULL
  /\ kind = "sll" \/ (kind = "dll" /\ position = 0)
  /\ UNCHANGED vars

RemoveEnds(position) ==
  /\ head \notin DOMAIN heap
  /\ head = NULL => kind = "scll" \/ (kind = "dll" /\ position # 0)
  /\ End

Remove(position) ==
  \/ IF position = 0 THEN RemoveAtHead ELSE RemoveBehind(position)
  \/ RemoveNothing(position)
  \/ RemoveEnds(position)

(* sll_remove_sll, dll_remove_dll, scll_remove_scll: position 0 again and  *)
(* again, which frees the nodes of the list.  The caller's pointer is not  *)
(* used any more, a new list starts with NULL.                             *)
RemoveAll ==
  IF head \in DOMAIN heap \cup {NULL}
  THEN Removed([heap |-> [m \in DOMAIN heap \ {All(heap)[k] : k \in DOMAIN All(heap)} |-> heap[m]],
                head |-> NULL])
  ELSE End

Next ==
  /\ status = "running"
  /\ \/ \E d \in Data, position \in Positions : Insert(d, position)
     \/ \E position \in Positions : Remove(position)
     \/ RemoveAll

Spec == Init /\ [][Next]_vars

-----------------------------------------------------------------------------
(* Properties                                                              *)

TypeOK ==
  /\ kind \in {"sll", "dll", "scll"}
  /\ DOMAIN heap \subseteq Nodes
  /\ \A n \in DOMAIN heap : heap[n] \in [data : Data, prev : Links, next : Links]
  /\ head \in Links
  /\ status \in {"running", "ended"}

(* No call loses a node, and none leaves a link to a freed one: the list   *)
(* from head has all allocated nodes, and its tail leads nowhere, or, in   *)
(* scll, to head.  Only head itself dangles, when a position other than 0  *)
(* has emptied a dll.                                                      *)
NothingLost ==
  LET all == All(heap)
  IN  /\ {all[k] : k \in DOMAIN all} = DOMAIN heap
      /\ head \notin DOMAIN heap => head = NULL \/ kind = "dll"
      /\ all # <<>> => heap[Last(all)].next = IF kind = "scll" THEN head ELSE NULL

(* A dll is the same list backwards, as dll_print_list_rev prints it.      *)
ReadsBackwards ==
  LET all == All(heap)
  IN  kind = "dll" =>
        \A k \in DOMAIN all :
          heap[all[k]].prev = IF k = 1 THEN NULL ELSE all[k - 1]

(* The links of the lists lead to all nodes, in a dll in both directions.  *)
WellLinked == NothingLost /\ ReadsBackwards

PL == INSTANCE PositionList
        WITH exact <- kind = "sll",
             items <- [k \in DOMAIN All(heap) |-> heap[All(heap)[k]].data]

(* Insertion and removal put in and take out the item at the position, or  *)
(* at the end; in dll and scll, position 1 is position 2.                  *)
ImplementsPositionList == PL!Spec
=============================================================================
