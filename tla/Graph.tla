------------------------------- MODULE Graph -------------------------------
(***************************************************************************)
(* graph/graph.c: a directed graph in an adjacency matrix, and its two     *)
(* traversals, graph_do_bfs on a queue of module Queue and graph_do_dfs on *)
(* a stack of module Stack.  Each operation on the queue or stack is a     *)
(* step.  A vertex is marked as visited when it is taken, not when it is   *)
(* put: the queue and the stack may hold it several times, and their       *)
(* capacity has nothing to do with the graph's.  An operation of theirs    *)
(* that fails is an assertion that ends the program.                       *)
(***************************************************************************)
EXTENDS Integers, Sequences, FiniteSets

CONSTANTS
  graph_max_vertices,
  Weights,          (* weights that callers pass                           *)
  NoData, QUEUE_MAX_ITEMS, STACK_MAX_ITEMS

ASSUME GraphAssumption ==
  /\ graph_max_vertices \in Nat \ {0}
  /\ Weights \subseteq Int
  /\ QUEUE_MAX_ITEMS \in Nat \ {0}
  /\ STACK_MAX_ITEMS \in Nat \ {0}
  /\ NoData \notin 0 .. graph_max_vertices - 1

Vertices == 0 .. graph_max_vertices - 1

VARIABLES
  graph_data,              (* the matrix, row after row                    *)
  rc,                      (* return code of the last call                 *)
  pc,                      (* "caller", where the traversal is, "aborted"  *)
  search, start_vertex,    (* the traversal: "bfs" or "dfs" or "none"      *)
  visited, printed,        (* the vertices marked, and the output          *)
  tmp_vertex, i,           (* the vertex taken, and the next neighbour     *)
  q_front, q_rear, q_node, (* the queue of a bfs                           *)
  st_top, st_node,         (* the stack of a dfs                           *)
  live, status, data       (* not freed, and what the last operation on    *)
                           (* them returned                                *)

Q == INSTANCE Queue WITH Data <- Vertices, rc <- status, out <- data
St == INSTANCE Stack WITH Data <- Vertices, rc <- status, out <- data

queue == <<q_front, q_rear, q_node>>
stack == <<st_top, st_node>>
work == <<queue, stack, live, status, data>>
vars == <<graph_data, rc, pc, search, start_vertex, visited, printed, tmp_vertex, i, work>>

GRAPH_INVALID_WEIGHT == 0

(* Slip: rows of one vertex less.                                          *)
OffsetSlip(vertex1, vertex2) == vertex1 * (graph_max_vertices - 1) + vertex2

Offset(vertex1, vertex2) == vertex1 * graph_max_vertices + vertex2

GetWeight(vertex1, vertex2) == graph_data[Offset(vertex1, vertex2)]

Init ==
  /\ graph_data = [o \in 0 .. graph_max_vertices * graph_max_vertices - 1 |->
                     GRAPH_INVALID_WEIGHT]
  /\ rc = "EOK"
  /\ pc = "caller"
  /\ search = "none"
  /\ start_vertex = 0
  /\ visited = {}
  /\ printed = <<>>
  /\ tmp_vertex = 0
  /\ i = 0
  /\ Q!Init
  /\ St!Init

-----------------------------------------------------------------------------
(* graph_insert.                                                           *)

(* A negative vertex is a large one, compared with the unsigned            *)
(* graph_max_vertices.                                                     *)
Valid(vertex1, vertex2, weight) ==
  /\ weight # GRAPH_INVALID_WEIGHT
  /\ {vertex1, vertex2} \subseteq Vertices
  /\ GetWeight(vertex1, vertex2) = GRAPH_INVALID_WEIGHT

Insert(vertex1, vertex2, weight) ==
  /\ pc = "caller"
  /\ \/ /\ Valid(vertex1, vertex2, weight)
        /\ graph_data' = [graph_data EXCEPT ![Offset(vertex1, vertex2)] = weight]
        /\ rc' = "EOK"
     \/ /\ ~Valid(vertex1, vertex2, weight)
        /\ rc' = "EINVAL"
        /\ UNCHANGED graph_data
  /\ UNCHANGED <<pc, search, start_vertex, visited, printed, tmp_vertex, i, work>>

-----------------------------------------------------------------------------
(* The queue of a bfs, the stack of a dfs.                                 *)
Put(v) ==
  \/ search = "bfs" /\ Q!Enqueue(v) /\ UNCHANGED stack
  \/ search = "dfs" /\ St!Push(v) /\ UNCHANGED queue

Take ==
  \/ search = "bfs" /\ Q!Dequeue /\ UNCHANGED stack
  \/ search = "dfs" /\ St!Pop /\ UNCHANGED queue

Empty == IF search = "bfs" THEN Q!QueueEmpty ELSE St!StackEmpty

(* CHECK_RC_ASSERT(rc, EOK) after putting a vertex: where to go on.        *)
OrAbort(next) == IF status' = "EOK" THEN next ELSE "aborted"

(* graph_do_bfs or graph_do_dfs(vertex): an array of marks, an empty queue *)
(* or stack.                                                               *)
Call(kind, vertex) ==
  /\ pc = "caller"
  /\ pc' = "start"
  /\ search' = kind
  /\ start_vertex' = vertex
  /\ UNCHANGED <<graph_data, rc, visited, printed, tmp_vertex, i, work>>

PutStart ==
  /\ pc = "start"
  /\ Put(start_vertex)
  /\ pc' = OrAbort("loop")
  /\ UNCHANGED <<graph_data, rc, search, start_vertex, visited, printed, tmp_vertex, i>>

(* Slip: a vertex that was visited is printed again.                       *)
VisitSlip ==
  /\ pc = "loop"
  /\ ~Empty
  /\ Take
  /\ tmp_vertex' = data'
  /\ printed' = Append(printed, data')
  /\ visited' = visited \cup {data'}
  /\ i' = 0
  /\ pc' = "neighbours"
  /\ UNCHANGED <<graph_data, rc, search, start_vertex>>

(* The head of the loop: a vertex is taken, printed unless it was visited, *)
(* and marked.                                                             *)
Visit ==
  /\ pc = "loop"
  /\ ~Empty
  /\ Take
  /\ tmp_vertex' = data'
  /\ printed' = IF data' \in visited THEN printed ELSE Append(printed, data')
  /\ visited' = visited \cup {data'}
  /\ i' = 0
  /\ pc' = "neighbours"
  /\ UNCHANGED <<graph_data, rc, search, start_vertex>>

(* Slip: vertices that were visited are put again.                         *)
ToPutSlipVisited ==
  {v \in i .. graph_max_vertices - 1 : GetWeight(tmp_vertex, v) # GRAPH_INVALID_WEIGHT}

(* Slip: the last vertex is left out.                                      *)
ToPutSlipLast ==
  {v \in i .. graph_max_vertices - 2 :
     GetWeight(tmp_vertex, v) # GRAPH_INVALID_WEIGHT /\ v \notin visited}

(* The neighbours the loop has still to put.                               *)
ToPut ==
  {v \in i .. graph_max_vertices - 1 :
     GetWeight(tmp_vertex, v) # GRAPH_INVALID_WEIGHT /\ v \notin visited}

PutNeighbour ==
  /\ pc = "neighbours"
  /\ \E v \in ToPut :
       /\ \A w \in ToPut : v <= w
       /\ Put(v)
       /\ i' = v + 1
  /\ pc' = OrAbort("neighbours")
  /\ UNCHANGED <<graph_data, rc, search, start_vertex, visited, printed, tmp_vertex>>

NeighboursDone ==
  /\ pc = "neighbours"
  /\ ToPut = {}
  /\ pc' = "loop"
  /\ UNCHANGED <<graph_data, rc, search, start_vertex, visited, printed, tmp_vertex, i, work>>

(* What is left of a traversal when its memory is freed: nothing, and the  *)
(* next one finds its queue and stack in their initial states.             *)
Return ==
  /\ pc = "loop"
  /\ Empty
  /\ pc' = "caller"
  /\ rc' = "EOK"
  /\ search' = "none"
  /\ start_vertex' = 0 /\ visited' = {} /\ printed' = <<>> /\ tmp_vertex' = 0 /\ i' = 0
  /\ q_front' = Q!QUEUE_MIN_ITEMS /\ q_rear' = Q!QUEUE_MIN_ITEMS
  /\ q_node' = [s \in Q!Slots |-> NoData]
  /\ st_top' = St!STACK_MIN_ITEMS
  /\ st_node' = [s \in St!Slots |-> NoData]
  /\ status' = "EOK" /\ data' = NoData
  /\ UNCHANGED <<graph_data, live>>

Step == PutStart \/ Visit \/ PutNeighbour \/ NeighboursDone \/ Return

Next ==
  \/ \E v, w \in -1 .. graph_max_vertices, weight \in Weights : Insert(v, w, weight)
  \/ \E kind \in {"bfs", "dfs"}, v \in Vertices : Call(kind, v)
  \/ Step

Spec == Init /\ [][Next]_vars

(* The one thread of the program goes on with the traversal it is in.      *)
FairSpec == Spec /\ WF_vars(Step)

-----------------------------------------------------------------------------
(* Properties                                                              *)

(* Besides types: between traversals nothing is left of one, and the       *)
(* output is a sequence of different vertices, those that are marked.      *)
TypeOK ==
  /\ graph_data \in [0 .. graph_max_vertices * graph_max_vertices - 1 ->
                      Weights \cup {GRAPH_INVALID_WEIGHT}]
  /\ rc \in {"EOK", "EINVAL"}
  /\ pc \in {"caller", "start", "loop", "neighbours", "aborted"}
  /\ search \in {"none", "bfs", "dfs"}
  /\ search = "none" <=> pc = "caller"
  /\ start_vertex \in Vertices /\ tmp_vertex \in Vertices
  /\ i \in 0 .. graph_max_vertices
  /\ visited \subseteq Vertices
  /\ visited = {printed[k] : k \in DOMAIN printed}
  /\ Len(printed) = Cardinality(visited)
  /\ pc \in {"caller", "start"} => visited = {}
  /\ Q!TypeOK
  /\ St!TypeOK

Edges == {e \in Vertices \X Vertices : GetWeight(e[1], e[2]) # GRAPH_INVALID_WEIGHT}

Closed(S) == \A e \in Edges : e[1] \in S => e[2] \in S

(* A traversal that returns has printed exactly the vertices that can be   *)
(* reached from its start: the least set with the start and without an     *)
(* edge that leads out of it.                                              *)
PrintsReachable ==
  [][Return =>
       /\ start_vertex \in visited
       /\ Closed(visited)
       /\ \A S \in SUBSET Vertices : start_vertex \in S /\ Closed(S) => visited \subseteq S]_vars

GS == INSTANCE GraphSearch
        WITH edges <- Edges,
             printed <- IF pc # "caller" /\ printed = <<>> THEN <<start_vertex>> ELSE printed

(* Although vertices are marked when they are taken, so that the queue and *)
(* the stack hold some of them again and again, the order of the output is *)
(* the textbook's, breadth first with the smallest neighbour first, depth  *)
(* first with the greatest.  An insertion adds one edge.                   *)
ImplementsGraphSearch == GS!Spec

(* Every traversal returns: no vertex is put without end, and the queue    *)
(* and the stack of the given capacities never overflow.                   *)
TraversalReturns == []<>(pc = "caller")
=============================================================================
