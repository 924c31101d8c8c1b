------------------------------ MODULE MCGraph ------------------------------
(* Graph with constants from the .cfg file, for callers that start         *)
(* traversals in Starts and insert only vertex 0's edge to itself (the     *)
(* bounds); vertices outside the matrix are offered too.                   *)
EXTENDS Graph

CONSTANT Starts

Offered ==
  {<<v, w>> \in (-1 .. graph_max_vertices) \X (-1 .. graph_max_vertices) :
     v # w \/ v = 0}

MCNext ==
  \/ \E e \in Offered, weight \in Weights : Insert(e[1], e[2], weight)
  \/ \E kind \in {"bfs", "dfs"}, v \in Starts : Call(kind, v)
  \/ Step

MCSpec == Init /\ [][MCNext]_vars /\ WF_vars(Step)
=============================================================================
