------------------------------- MODULE MCHeap -------------------------------
(* Heap on seven nodes (six of them usable: three levels, the last node    *)
(* with one child) and three keys, so that equal keys meet at every level. *)
EXTENDS Heap
=============================================================================
