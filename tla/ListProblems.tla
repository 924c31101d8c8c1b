---------------------------- MODULE ListProblems ----------------------------
(***************************************************************************)
(* Programs on a singly linked list: it is reversed (sll_prob_1.c, the     *)
(* iterative function) and merge sorted (sll_prob_2.c), each in one step.  *)
(***************************************************************************)
EXTENDS Lists

ASSUME ListProblemsAssumption == Data \subseteq Int

-----------------------------------------------------------------------------
(* sll_prob_1_rev_iter: the loop from cur on.                              *)
RECURSIVE Reversed(_, _, _)
Reversed(h, cur, prev) ==
  IF cur = NULL THEN [heap |-> h, head |-> prev]
  ELSE Reversed([h EXCEPT ![cur].next = prev], h[cur].next, cur)

Reverse ==
  /\ kind = "sll"
  /\ Removed(Reversed(heap, head, NULL))

(* sll_split: where slow is when fast, which takes two steps for each of   *)
(* its own, has left the list.                                             *)
RECURSIVE SlowStops(_, _, _)
SlowStops(h, slow, fast) ==
  IF fast = NULL \/ h[fast].next = NULL THEN slow
  ELSE SlowStops(h, h[slow].next, h[h[fast].next].next)

(* sll_sorted_merge.                                                       *)
RECURSIVE SortedMerge(_, _, _)
SortedMerge(h, sll1, sll2) ==
  IF sll1 = NULL \/ sll2 = NULL
  THEN [heap |-> h, head |-> IF sll1 = NULL THEN sll2 ELSE sll1]
  ELSE LET first == h[sll1].data < h[sll2].data
           n == IF first THEN sll1 ELSE sll2
           rest == IF first THEN SortedMerge(h, h[n].next, sll2)
                   ELSE SortedMerge(h, sll1, h[n].next)
       IN  [heap |-> [rest.heap EXCEPT ![n].next = rest.head], head |-> n]

RECURSIVE MergeSorted(_, _)
MergeSorted(h, first) ==
  IF first = NULL \/ h[first].next = NULL THEN [heap |-> h, head |-> first]
  ELSE LET slow == SlowStops(h, first, h[first].next)
           sll1 == MergeSorted([h EXCEPT ![slow].next = NULL], first)
           sll2 == MergeSorted(sll1.heap, h[slow].next)
       IN  SortedMerge(sll2.heap, sll1.head, sll2.head)

MergeSort ==
  /\ kind = "sll"
  /\ Removed(MergeSorted(heap, head))
=============================================================================
