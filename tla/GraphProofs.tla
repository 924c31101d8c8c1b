---------------------------- MODULE GraphProofs ----------------------------
(***************************************************************************)
(* Theorems about module Graph, for every number of vertices, every graph  *)
(* and every capacity of the queue and the stack.                          *)
(*                                                                         *)
(* What a traversal that returns has printed needs neither the order in    *)
(* which vertices wait nor how often one does, so that one invariant       *)
(* serves both traversals: it speaks of the set of vertices that wait.     *)
(* In which order it prints, the refinement of GraphSearch, is about their *)
(* sequence: Orderly says which printed vertex each of them is a neighbour *)
(* of, and that whatever the textbook prints sooner stands nearer to where *)
(* the next vertex is taken.                                               *)
(***************************************************************************)
EXTENDS Graph, FiniteSetTheorems, SequenceTheorems, TLAPS

InQueue == {q_node[s] : s \in {s \in Q!Slots : q_front # -1 /\ q_front <= s /\ s <= q_rear}}
InStack == {st_node[s] : s \in {s \in St!Slots : s <= st_top}}

(* The vertices that a traversal has put and not yet taken.                *)
Waiting == IF search = "bfs" THEN InQueue ELSE InStack

(***************************************************************************)
(* The queue and the stack as sets.                                        *)
(***************************************************************************)

(* An accepted queue_eneque, compacting or not, adds its vertex.           *)
LEMMA EnqueueAdds ==
  ASSUME Q!TypeOK, NEW v \in Vertices, Q!Enqueue(v)
  PROVE  /\ Q!TypeOK'
         /\ status' \in {"EOK", "EOVERFLOW"}
         /\ InQueue' = IF status' = "EOK" THEN InQueue \cup {v} ELSE InQueue
<1> USE GraphAssumption DEF Q!TypeOK, Q!QUEUE_MIN_ITEMS, Q!Slots
<1>1. CASE Q!EnqueueOverflow
  BY <1>1 DEF Q!Enqueue, Q!EnqueueOverflow, InQueue
<1>2. CASE Q!EnqueueCompacting(v)
  <2> DEFINE num == q_rear - q_front + 1
  <2>1. /\ num \in Q!Slots
        /\ q_front \in 1 .. QUEUE_MAX_ITEMS
        /\ q_rear = QUEUE_MAX_ITEMS - 1
    BY <1>2 DEF Q!EnqueueCompacting, Q!CompactAsserts
  <2>2. /\ q_front' = 0
        /\ q_rear' = num
        /\ q_node' = [Q!CompactedNodes EXCEPT ![num] = v]
        /\ status' = "EOK"
    BY <1>2 DEF Q!EnqueueCompacting, Q!NumNodes
  <2>3. Q!CompactedNodes = [s \in Q!Slots |-> IF s < num THEN q_node[q_front + s]
                                              ELSE q_node[s]]
    BY DEF Q!CompactedNodes, Q!NumNodes
  <2>4. /\ q_node' \in [Q!Slots -> Vertices \cup {NoData}]
        /\ q_node'[num] = v
        /\ \A s \in Q!Slots : s < num => q_node'[s] = q_node[q_front + s]
    <3>1. \A s \in Q!Slots : s < num => q_front + s \in Q!Slots
      BY <2>1
    <3>2. Q!CompactedNodes \in [Q!Slots -> Vertices \cup {NoData}]
      BY <2>3, <3>1
    <3> QED
      BY <2>1, <2>2, <2>3, <3>2
  <2>5. Q!TypeOK'
    BY <2>1, <2>2, <2>4 DEF Q!Enqueue
  <2>6. InQueue \subseteq InQueue'
    <3> SUFFICES ASSUME NEW s \in Q!Slots, q_front <= s, s <= q_rear
                 PROVE  q_node[s] \in InQueue'
      BY DEF InQueue
    <3>1. /\ s - q_front \in Q!Slots
          /\ s - q_front < num
          /\ q_front + (s - q_front) = s
      BY <2>1
    <3>2. q_node'[s - q_front] = q_node[s]
      BY <2>4, <3>1
    <3> QED
      BY <2>1, <2>2, <3>1, <3>2 DEF InQueue
  <2>7. v \in InQueue'
    BY <2>1, <2>2, <2>4 DEF InQueue
  <2>8. InQueue' \subseteq InQueue \cup {v}
    <3> SUFFICES ASSUME NEW s \in Q!Slots, s <= num
                 PROVE  q_node'[s] \in InQueue \cup {v}
      BY <2>2 DEF InQueue
    <3>1. CASE s = num
      BY <2>4, <3>1
    <3>2. CASE s < num
      <4>1. q_node'[s] = q_node[q_front + s]
        BY <2>4, <3>2
      <4>2. q_front + s \in Q!Slots /\ q_front <= q_front + s /\ q_front + s <= q_rear
        BY <2>1, <3>2
      <4> QED
        BY <2>1, <4>1, <4>2 DEF InQueue
    <3> QED
      BY <2>1, <3>1, <3>2
  <2> QED
    BY <2>2, <2>5, <2>6, <2>7, <2>8
<1>3. CASE Q!EnqueueAtRear(v)
  <2>1. /\ q_rear + 1 \in Q!Slots
        /\ q_node' = [q_node EXCEPT ![q_rear + 1] = v]
        /\ q_rear' = q_rear + 1
        /\ q_front' = IF q_front = -1 THEN 0 ELSE q_front
    BY <1>3 DEF Q!EnqueueAtRear, Q!QueueFull
  <2>2. Q!TypeOK' /\ status' = "EOK"
    BY <1>3, <2>1 DEF Q!Enqueue, Q!EnqueueAtRear
  <2>3. InQueue' = InQueue \cup {v}
    BY <2>1, <2>2 DEF InQueue
  <2> QED
    BY <2>2, <2>3
<1> QED
  BY <1>1, <1>2, <1>3 DEF Q!Enqueue

(* queue_deque takes out what it returns: other items are neither lost nor *)
(* found.                                                                  *)
LEMMA DequeueTakes ==
  ASSUME Q!TypeOK, ~Q!QueueEmpty, Q!Dequeue
  PROVE  /\ Q!TypeOK'
         /\ status' = "EOK"
         /\ data' \in InQueue
         /\ InQueue' \subseteq InQueue
         /\ InQueue \subseteq InQueue' \cup {data'}
<1> USE GraphAssumption DEF Q!TypeOK, Q!QUEUE_MIN_ITEMS, Q!Slots
<1>1. /\ q_front \in Q!Slots /\ q_front <= q_rear
      /\ data' = q_node[q_front]
      /\ q_front' = q_front + 1
      /\ q_rear' = q_rear /\ q_node' = q_node
  BY DEF Q!Dequeue, Q!QueueEmpty
<1>2. Q!TypeOK' /\ status' = "EOK"
  BY <1>1 DEF Q!Dequeue
<1>3. data' \in InQueue
  BY <1>1 DEF InQueue
<1>4. InQueue' \subseteq InQueue
  BY <1>1 DEF InQueue
<1>5. InQueue \subseteq InQueue' \cup {data'}
  BY <1>1 DEF InQueue
<1> QED
  BY <1>2, <1>3, <1>4, <1>5

(* An accepted stack_push adds its vertex.                                 *)
LEMMA PushAdds ==
  ASSUME St!TypeOK, NEW v \in Vertices, St!Push(v)
  PROVE  /\ St!TypeOK'
         /\ status' \in {"EOK", "EOVERFLOW"}
         /\ InStack' = IF status' = "EOK" THEN InStack \cup {v} ELSE InStack
<1> USE GraphAssumption DEF St!TypeOK, St!STACK_MIN_ITEMS, St!Slots
<1>1. CASE St!StackFull
  BY <1>1 DEF St!Push, St!StackFull, InStack
<1>2. CASE ~St!StackFull
  <2>1. /\ st_top + 1 \in St!Slots
        /\ st_node' = [st_node EXCEPT ![st_top + 1] = v]
        /\ st_top' = st_top + 1
    BY <1>2 DEF St!Push, St!StackFull
  <2>2. St!TypeOK' /\ status' = "EOK"
    BY <1>2, <2>1 DEF St!Push
  <2>3. InStack' = InStack \cup {v}
    BY <2>1, <2>2 DEF InStack
  <2> QED
    BY <2>2, <2>3
<1> QED
  BY <1>1, <1>2

(* stack_pop takes out what it returns.                                    *)
LEMMA PopTakes ==
  ASSUME St!TypeOK, ~St!StackEmpty, St!Pop
  PROVE  /\ St!TypeOK'
         /\ status' = "EOK"
         /\ data' \in InStack
         /\ InStack' \subseteq InStack
         /\ InStack \subseteq InStack' \cup {data'}
<1> USE GraphAssumption DEF St!TypeOK, St!STACK_MIN_ITEMS, St!Slots
<1>1. /\ st_top \in St!Slots
      /\ data' = st_node[st_top]
      /\ st_top' = st_top - 1
      /\ st_node' = st_node
  BY DEF St!Pop, St!StackEmpty
<1>2. St!TypeOK' /\ status' = "EOK"
  BY <1>1 DEF St!Pop
<1>3. data' \in InStack
  BY <1>1 DEF InStack
<1>4. InStack' \subseteq InStack
  BY <1>1 DEF InStack
<1>5. InStack \subseteq InStack' \cup {data'}
  BY <1>1 DEF InStack
<1> QED
  BY <1>2, <1>3, <1>4, <1>5

(***************************************************************************)
(* What waits.                                                             *)
(***************************************************************************)

Buffers == Q!TypeOK /\ St!TypeOK

LEMMA PutAdds ==
  ASSUME Buffers, NEW v \in Vertices, Put(v), UNCHANGED search
  PROVE  /\ Buffers'
         /\ Waiting' = IF status' = "EOK" THEN Waiting \cup {v} ELSE Waiting
<1>1. CASE search = "bfs"
  <2>1. Q!Enqueue(v) /\ UNCHANGED stack
    BY <1>1 DEF Put
  <2>2. /\ Q!TypeOK' /\ status' \in {"EOK", "EOVERFLOW"}
        /\ InQueue' = IF status' = "EOK" THEN InQueue \cup {v} ELSE InQueue
    BY <2>1, EnqueueAdds DEF Buffers
  <2>3. St!TypeOK'
    BY <2>1, <2>2 DEF Buffers, St!TypeOK, Q!TypeOK, stack
  <2> QED
    BY <1>1, <2>2, <2>3 DEF Buffers, Waiting
<1>2. CASE search = "dfs"
  <2>1. St!Push(v) /\ UNCHANGED queue
    BY <1>2 DEF Put
  <2>2. /\ St!TypeOK' /\ status' \in {"EOK", "EOVERFLOW"}
        /\ InStack' = IF status' = "EOK" THEN InStack \cup {v} ELSE InStack
    BY <2>1, PushAdds DEF Buffers
  <2>3. Q!TypeOK'
    BY <2>1, <2>2 DEF Buffers, St!TypeOK, Q!TypeOK, queue
  <2> QED
    BY <1>2, <2>2, <2>3 DEF Buffers, Waiting
<1> QED
  BY <1>1, <1>2 DEF Put

LEMMA TakeTakes ==
  ASSUME Buffers, ~Empty, Take, UNCHANGED search
  PROVE  /\ Buffers'
         /\ data' \in Waiting
         /\ Waiting' \subseteq Waiting
         /\ Waiting \subseteq Waiting' \cup {data'}
<1>1. CASE search = "bfs"
  <2>1. Q!Dequeue /\ ~Q!QueueEmpty /\ UNCHANGED stack
    BY <1>1 DEF Take, Empty
  <2>2. /\ Q!TypeOK' /\ status' = "EOK"
        /\ data' \in InQueue
        /\ InQueue' \subseteq InQueue
        /\ InQueue \subseteq InQueue' \cup {data'}
    BY <2>1, DequeueTakes DEF Buffers
  <2>3. St!TypeOK'
    BY <2>1, <2>2 DEF Buffers, St!TypeOK, Q!TypeOK, stack
  <2> QED
    BY <1>1, <2>2, <2>3 DEF Buffers, Waiting
<1>2. CASE search = "dfs"
  <2>1. St!Pop /\ ~St!StackEmpty /\ UNCHANGED queue
    BY <1>2 DEF Take, Empty
  <2>2. /\ St!TypeOK' /\ status' = "EOK"
        /\ data' \in InStack
        /\ InStack' \subseteq InStack
        /\ InStack \subseteq InStack' \cup {data'}
    BY <2>1, PopTakes DEF Buffers
  <2>3. Q!TypeOK'
    BY <2>1, <2>2 DEF Buffers, St!TypeOK, Q!TypeOK, queue
  <2> QED
    BY <1>2, <2>2, <2>3 DEF Buffers, Waiting
<1> QED
  BY <1>1, <1>2 DEF Take

LEMMA EmptyWaiting ==
  ASSUME Buffers
  PROVE  /\ Empty => Waiting = {}
         /\ Q!QUEUE_MIN_ITEMS = q_front /\ St!STACK_MIN_ITEMS = st_top => Waiting = {}
<1> USE GraphAssumption DEF Buffers, Q!TypeOK, Q!QUEUE_MIN_ITEMS, Q!Slots,
                            St!TypeOK, St!STACK_MIN_ITEMS, St!Slots
<1>1. Q!QueueEmpty => InQueue = {}
  BY DEF Q!QueueEmpty, InQueue
<1>2. St!StackEmpty => InStack = {}
  BY DEF St!StackEmpty, InStack
<1> QED
  BY <1>1, <1>2 DEF Empty, Waiting, Q!QueueEmpty, St!StackEmpty

(***************************************************************************)
(* Types.                                                                  *)
(***************************************************************************)

(* What TypeOK needs to be inductive: only vertices are put, and every     *)
(* traversal starts with an empty queue and an empty stack.                *)
Types ==
  /\ TypeOK
  /\ printed \in Seq(Vertices)
  /\ Waiting \subseteq Vertices
  /\ pc \in {"caller", "start"} =>
       q_front = Q!QUEUE_MIN_ITEMS /\ st_top = St!STACK_MIN_ITEMS

LEMMA FiniteVisited ==
  ASSUME TypeOK
  PROVE  IsFiniteSet(visited)
<1>1. IsFiniteSet(Vertices)
  BY GraphAssumption, FS_Interval DEF Vertices
<1> QED
  BY <1>1, FS_Subset DEF TypeOK

LEMMA InitTypes == Init => Types
<1> SUFFICES ASSUME Init PROVE Types
  OBVIOUS
<1>1. Q!TypeOK
  BY GraphAssumption DEF Init, Q!Init, Q!TypeOK, Q!QUEUE_MIN_ITEMS, Q!Slots
<1>2. St!TypeOK
  BY GraphAssumption DEF Init, St!Init, St!TypeOK, St!STACK_MIN_ITEMS, St!Slots
<1>3. graph_data \in [0 .. graph_max_vertices * graph_max_vertices - 1 ->
                        Weights \cup {GRAPH_INVALID_WEIGHT}]
  BY DEF Init
<1>4. Len(printed) = Cardinality(visited) /\ visited = {printed[k] : k \in DOMAIN printed}
  BY FS_EmptySet DEF Init
<1>5. TypeOK
  BY <1>1, <1>2, <1>3, <1>4, GraphAssumption DEF Init, TypeOK, Vertices
<1>6. Waiting = {}
  BY <1>1, <1>2, EmptyWaiting DEF Init, Q!Init, St!Init, Buffers
<1> QED
  BY <1>5, <1>6 DEF Types, Init, Q!Init, St!Init

(* The step changes no variable that the queue and the stack have.         *)
LEMMA WorkKept ==
  ASSUME Types, UNCHANGED work
  PROVE  Buffers' /\ InQueue' = InQueue /\ InStack' = InStack
BY DEF Types, TypeOK, work, queue, stack, Buffers, Q!TypeOK, St!TypeOK, InQueue, InStack

LEMMA NextTypes == Types /\ [Next]_vars => Types'
<1> SUFFICES ASSUME Types, [Next]_vars PROVE Types'
  OBVIOUS
<1> USE GraphAssumption
<1>1. ASSUME NEW v \in -1 .. graph_max_vertices, NEW w \in -1 .. graph_max_vertices,
             NEW weight \in Weights, Insert(v, w, weight)
      PROVE  Types'
  <2>1. Buffers' /\ Waiting' = Waiting
    BY <1>1, WorkKept DEF Insert, Waiting
  <2>2. graph_data' \in [0 .. graph_max_vertices * graph_max_vertices - 1 ->
                           Weights \cup {GRAPH_INVALID_WEIGHT}]
    BY <1>1 DEF Insert, Types, TypeOK
  <2> QED
    BY <1>1, <2>1, <2>2 DEF Insert, Types, TypeOK, Buffers, work, queue, stack
<1>2. ASSUME NEW kind \in {"bfs", "dfs"}, NEW v \in Vertices, Call(kind, v)
      PROVE  Types'
  <2>1. Buffers'
    BY <1>2, WorkKept DEF Call
  <2>2. Waiting' = {}
    BY <1>2, <2>1, EmptyWaiting, WorkKept
    DEF Call, Types, TypeOK, Waiting, InQueue, InStack, Q!QUEUE_MIN_ITEMS, St!STACK_MIN_ITEMS,
        Buffers, Q!TypeOK, St!TypeOK, Q!Slots, St!Slots
  <2> QED
    BY <1>2, <2>1, <2>2
    DEF Call, Types, TypeOK, Buffers, work, queue, stack, Q!QUEUE_MIN_ITEMS, St!STACK_MIN_ITEMS
<1>3. CASE PutStart
  <2>1. /\ Buffers'
        /\ Waiting' = IF status' = "EOK" THEN Waiting \cup {start_vertex} ELSE Waiting
    BY <1>3, PutAdds DEF PutStart, Types, TypeOK, Buffers
  <2> QED
    BY <1>3, <2>1 DEF PutStart, OrAbort, Types, TypeOK, Buffers
<1>4. CASE Visit
  <2>1. /\ Buffers'
        /\ data' \in Waiting
        /\ Waiting' \subseteq Waiting
    BY <1>4, TakeTakes DEF Visit, Types, TypeOK, Buffers
  <2>2. data' \in Vertices
    BY <2>1 DEF Types
  <2>3. CASE data' \in visited
    <3>1. printed' = printed /\ visited' = visited
      BY <1>4, <2>3 DEF Visit
    <3>2. i' \in 0 .. graph_max_vertices
      BY <1>4 DEF Visit
    <3> QED
      BY <1>4, <2>1, <2>2, <3>1, <3>2 DEF Visit, Types, TypeOK, Buffers
  <2>4. CASE data' \notin visited
    <3>1. printed' = Append(printed, data') /\ visited' = visited \cup {data'}
      BY <1>4, <2>4 DEF Visit
    <3>2. printed' \in Seq(Vertices) /\ Len(printed') = Len(printed) + 1
      BY <2>2, <3>1 DEF Types
    <3>3. Cardinality(visited') = Cardinality(visited) + 1
      BY <2>4, <3>1, FiniteVisited, FS_AddElement DEF Types
    <3>4. visited' = {printed'[k] : k \in DOMAIN printed'}
      BY <3>1, <3>2 DEF Types, TypeOK
    <3> QED
      BY <1>4, <2>1, <2>2, <3>1, <3>2, <3>3, <3>4 DEF Visit, Types, TypeOK, Buffers, Vertices
  <2> QED
    BY <2>3, <2>4
<1>5. CASE PutNeighbour
  <2>1. PICK v \in ToPut : Put(v) /\ i' = v + 1
    BY <1>5 DEF PutNeighbour
  <2>2. v \in Vertices /\ i' \in 0 .. graph_max_vertices
    BY <2>1 DEF ToPut, Types, TypeOK, Vertices
  <2>3. /\ Buffers'
        /\ Waiting' = IF status' = "EOK" THEN Waiting \cup {v} ELSE Waiting
    BY <1>5, <2>1, <2>2, PutAdds DEF PutNeighbour, Types, TypeOK, Buffers
  <2> QED
    BY <1>5, <2>2, <2>3 DEF PutNeighbour, OrAbort, Types, TypeOK, Buffers
<1>6. CASE NeighboursDone
  <2>1. Buffers' /\ Waiting' = Waiting
    BY <1>6, WorkKept DEF NeighboursDone, Waiting
  <2> QED
    BY <1>6, <2>1 DEF NeighboursDone, Types, TypeOK, Buffers
<1>7. CASE Return
  <2>1. Q!TypeOK'
    BY <1>7 DEF Return, Types, TypeOK, Q!TypeOK, Q!QUEUE_MIN_ITEMS, Q!Slots
  <2>2. St!TypeOK'
    BY <1>7 DEF Return, Types, TypeOK, St!TypeOK, St!STACK_MIN_ITEMS, St!Slots
  <2>3. Waiting' = {}
    BY <1>7, <2>1, <2>2
    DEF Return, Waiting, InQueue, InStack, Q!QUEUE_MIN_ITEMS, St!STACK_MIN_ITEMS,
        Q!TypeOK, St!TypeOK, Q!Slots, St!Slots
  <2>4. /\ Len(printed') = Cardinality(visited')
        /\ visited' = {printed'[k] : k \in DOMAIN printed'}
    BY <1>7, FS_EmptySet DEF Return
  <2> QED
    BY <1>7, <2>1, <2>2, <2>3, <2>4
    DEF Return, Types, TypeOK, Vertices, Q!QUEUE_MIN_ITEMS, St!STACK_MIN_ITEMS
<1>8. CASE UNCHANGED vars
  <2>1. Buffers' /\ Waiting' = Waiting
    BY <1>8, WorkKept DEF vars, Waiting
  <2> QED
    BY <1>8, <2>1 DEF vars, work, queue, stack, Types, TypeOK, Buffers
<1> QED
  BY <1>1, <1>2, <1>3, <1>4, <1>5, <1>6, <1>7, <1>8 DEF Next, Step

(* Traversals mark and print the same vertices, each of them once, and     *)
(* what they use keeps its type.                                           *)
THEOREM GraphTypeCorrect == Spec => []TypeOK
<1>1. Types => TypeOK
  BY DEF Types
<1> QED
  BY <1>1, InitTypes, NextTypes, PTL DEF Spec

(***************************************************************************)
(* Reachability.                                                           *)
(***************************************************************************)

(* The vertices a traversal has met.                                       *)
Met == visited \cup Waiting

(* The edges that the loop over the neighbours of tmp_vertex has not come  *)
(* to yet.                                                                 *)
NotYet(e) == pc = "neighbours" /\ e[1] = tmp_vertex /\ i <= e[2]

(* While a traversal runs, it has met its start and only what can be       *)
(* reached from there, and from a visited vertex an edge leads to what it  *)
(* has met, or to a neighbour that the loop has still to put.              *)
Searching ==
  pc \in {"loop", "neighbours"} =>
    /\ start_vertex \in Met
    /\ \A S \in SUBSET Vertices : start_vertex \in S /\ Closed(S) => Met \subseteq S
    /\ \A e \in Edges : e[1] \in visited => e[2] \in Met \/ NotYet(e)
    /\ pc = "neighbours" => tmp_vertex \in visited

LEMMA PutStartSearching == ASSUME Types, PutStart PROVE Searching'
<1>1. CASE status' # "EOK"
  BY <1>1 DEF PutStart, OrAbort, Searching
<1>2. CASE status' = "EOK"
  <2>1. Waiting' = Waiting \cup {start_vertex}
    BY <1>2, PutAdds DEF PutStart, Types, TypeOK, Buffers
  <2>2. Waiting = {} /\ visited = {}
    BY EmptyWaiting DEF PutStart, Types, TypeOK, Buffers
  <2>3. Met' = {start_vertex} /\ visited' = {} /\ start_vertex' = start_vertex
    BY <2>1, <2>2 DEF Met, PutStart
  <2>4. pc' = "loop"
    BY <1>2 DEF PutStart, OrAbort
  <2> QED
    BY <2>3, <2>4 DEF Searching
<1> QED
  BY <1>1, <1>2

(* What is taken is met as before, and visited.                            *)
LEMMA VisitSearching == ASSUME Types, Searching, Visit PROVE Searching'
<1>1. /\ data' \in Waiting
      /\ Waiting' \subseteq Waiting
      /\ Waiting \subseteq Waiting' \cup {data'}
  BY TakeTakes DEF Visit, Types, TypeOK, Buffers
<1>2. /\ visited' = visited \cup {data'}
      /\ tmp_vertex' = data' /\ i' = 0 /\ pc' = "neighbours"
      /\ UNCHANGED <<graph_data, start_vertex>>
  BY DEF Visit
<1>3. Met' = Met
  BY <1>1, <1>2 DEF Met
<1>4. Edges' = Edges /\ \A S : Closed(S)' <=> Closed(S)
  BY <1>2 DEF Edges, GetWeight, Closed
<1>5. \A e \in Edges : e[1] \in visited' => e[2] \in Met' \/ NotYet(e)'
  <2> SUFFICES ASSUME NEW e \in Edges, e[1] \in visited', ~NotYet(e)'
               PROVE  e[2] \in Met'
    OBVIOUS
  <2>1. e[2] \in Nat
    BY GraphAssumption DEF Edges, Vertices
  <2>2. e[1] # tmp_vertex'
    BY <1>2, <2>1 DEF NotYet
  <2>3. e[1] \in visited
    BY <1>2, <2>2
  <2> QED
    BY <1>3, <2>3 DEF Searching, NotYet, Visit
<1> QED
  BY <1>2, <1>3, <1>4, <1>5 DEF Searching, Visit

(* The neighbour put is the first one left: the loop passes no other.      *)
LEMMA PutNeighbourSearching == ASSUME Types, Searching, PutNeighbour PROVE Searching'
<1>1. PICK v \in ToPut :
        /\ \A w \in ToPut : v <= w
        /\ Put(v)
        /\ i' = v + 1
  BY DEF PutNeighbour
<1>2. v \in Vertices
  BY <1>1 DEF ToPut, Types, TypeOK, Vertices
<1>3. CASE status' # "EOK"
  BY <1>3 DEF PutNeighbour, OrAbort, Searching
<1>4. CASE status' = "EOK"
  <2>1. Waiting' = Waiting \cup {v}
    BY <1>1, <1>2, <1>4, PutAdds DEF PutNeighbour, Types, TypeOK, Buffers
  <2>2. /\ pc' = "neighbours"
        /\ UNCHANGED <<graph_data, start_vertex, visited, tmp_vertex>>
    BY <1>4 DEF PutNeighbour, OrAbort
  <2>3. Met' = Met \cup {v}
    BY <2>1, <2>2 DEF Met
  <2>4. Edges' = Edges /\ \A S : Closed(S)' <=> Closed(S)
    BY <2>2 DEF Edges, GetWeight, Closed
  <2>5. <<tmp_vertex, v>> \in Edges /\ tmp_vertex \in visited
    BY <1>1, <1>2 DEF ToPut, Edges, Types, TypeOK, Searching, PutNeighbour
  <2>6. ASSUME NEW S \in SUBSET Vertices, start_vertex \in S, Closed(S)
        PROVE  v \in S
    <3>1. tmp_vertex \in S
      BY <2>5, <2>6 DEF Searching, PutNeighbour, Met
    <3> QED
      BY <2>5, <2>6, <3>1 DEF Closed
  <2>7. \A e \in Edges : e[1] \in visited => e[2] \in Met' \/ NotYet(e)'
    <3> SUFFICES ASSUME NEW e \in Edges, e[1] \in visited, e[2] \notin Met'
                 PROVE  NotYet(e)'
      OBVIOUS
    <3>1. NotYet(e) /\ e[2] \notin visited /\ e[2] # v
      BY <2>3 DEF Searching, PutNeighbour, Met
    <3>2. e[2] \in ToPut
      BY <3>1 DEF NotYet, ToPut, Edges, Vertices, Types, TypeOK
    <3>3. v <= e[2] /\ v \in Int /\ e[2] \in Int
      BY <1>1, <1>2, <3>2 DEF Edges, Vertices
    <3> QED
      BY <1>1, <2>2, <3>1, <3>3 DEF NotYet
  <2> QED
    BY <2>2, <2>3, <2>4, <2>5, <2>6, <2>7 DEF Searching, PutNeighbour
<1> QED
  BY <1>3, <1>4

(* After the loop over the neighbours, none is left.                       *)
LEMMA NeighboursDoneSearching == ASSUME Types, Searching, NeighboursDone PROVE Searching'
<1>1. /\ pc = "neighbours" /\ pc' = "loop"
      /\ UNCHANGED <<graph_data, start_vertex, visited>>
  BY DEF NeighboursDone
<1>2. Met' = Met
  BY <1>1, WorkKept DEF NeighboursDone, Met, Waiting
<1>3. Edges' = Edges /\ \A S : Closed(S)' <=> Closed(S)
  BY <1>1 DEF Edges, GetWeight, Closed
<1>4. ASSUME NEW e \in Edges, e[1] \in visited
      PROVE  e[2] \in Met
  <2> SUFFICES ASSUME NotYet(e), e[2] \notin visited
               PROVE  FALSE
    BY <1>1, <1>4 DEF Searching, Met
  <2>1. e[2] \in ToPut
    BY DEF NotYet, ToPut, Edges, Vertices, Types, TypeOK
  <2> QED
    BY <2>1 DEF NeighboursDone
<1> QED
  BY <1>1, <1>2, <1>3, <1>4 DEF Searching

LEMMA NextSearching == Types /\ Searching /\ [Next]_vars => Searching'
<1> SUFFICES ASSUME Types, Searching, [Next]_vars PROVE Searching'
  OBVIOUS
<1>1. ASSUME NEW v, NEW w, NEW weight, Insert(v, w, weight)
      PROVE  Searching'
  BY <1>1 DEF Insert, Searching
<1>2. ASSUME NEW kind, NEW v, Call(kind, v)
      PROVE  Searching'
  BY <1>2 DEF Call, Searching
<1>3. CASE PutStart
  BY <1>3, PutStartSearching
<1>4. CASE Visit
  BY <1>4, VisitSearching
<1>5. CASE PutNeighbour
  BY <1>5, PutNeighbourSearching
<1>6. CASE NeighboursDone
  BY <1>6, NeighboursDoneSearching
<1>7. CASE Return
  BY <1>7 DEF Return, Searching
<1>8. CASE UNCHANGED vars
  <2>1. Met' = Met
    BY <1>8, WorkKept DEF vars, Met, Waiting
  <2>2. Edges' = Edges /\ \A S : Closed(S)' <=> Closed(S)
    BY <1>8 DEF vars, Edges, GetWeight, Closed
  <2> QED
    BY <1>8, <2>1, <2>2 DEF vars, Searching, NotYet
<1> QED
  BY <1>1, <1>2, <1>3, <1>4, <1>5, <1>6, <1>7, <1>8 DEF Next, Step

(* Breadth first or depth first, and whatever the capacities: a traversal  *)
(* that returns has printed exactly the vertices that can be reached from  *)
(* its start.                                                              *)
THEOREM GraphPrintsReachable == Spec => PrintsReachable
<1> DEFINE Exact ==
             /\ start_vertex \in visited
             /\ Closed(visited)
             /\ \A S \in SUBSET Vertices :
                  start_vertex \in S /\ Closed(S) => visited \subseteq S
<1>1. Init => Searching
  BY DEF Init, Searching
<1>2. Types /\ Searching /\ Return => Exact
  <2> SUFFICES ASSUME Types, Searching, Return PROVE Exact
    OBVIOUS
  <2>1. Met = visited
    BY EmptyWaiting DEF Return, Types, TypeOK, Buffers, Met
  <2>2. pc = "loop"
    BY DEF Return
  <2> QED
    BY <2>1, <2>2 DEF Searching, Closed, NotYet
<1>3. Types /\ Searching /\ [Next]_vars => [Return => Exact]_vars
  BY <1>2
<1> QED
  BY <1>1, <1>3, InitTypes, NextTypes, NextSearching, PTL DEF Spec, PrintsReachable
(***************************************************************************)
(* The order of the output.  What the queue does to its items is taken     *)
(* from QueueProofs; the rest speaks of one sequence, of the vertices that *)
(* wait.                                                                   *)
(***************************************************************************)
QP == INSTANCE QueueProofs WITH Data <- Vertices, rc <- status, out <- data

Items == IF search = "bfs" THEN Q!Items ELSE St!Items

(* The two names for the queue, and for the stack.                         *)
LEMMA SameQueue ==
  /\ QP!TypeOK <=> Q!TypeOK
  /\ QP!QueueEmpty <=> Q!QueueEmpty
  /\ QP!Items = Q!Items
  /\ QP!Dequeue <=> Q!Dequeue
  /\ \A d : QP!Enqueue(d) <=> Q!Enqueue(d)
<1> USE DEF QP!QUEUE_MIN_ITEMS, Q!QUEUE_MIN_ITEMS, QP!Slots, Q!Slots,
            QP!NumNodes, Q!NumNodes, QP!QueueEmpty, Q!QueueEmpty
<1>1. QP!TypeOK <=> Q!TypeOK
  BY DEF QP!TypeOK, Q!TypeOK
<1>2. QP!Items = Q!Items
  BY DEF QP!Items, Q!Items
<1>3. QP!Dequeue <=> Q!Dequeue
  BY DEF QP!Dequeue, Q!Dequeue
<1>4. ASSUME NEW d PROVE QP!Enqueue(d) <=> Q!Enqueue(d)
  BY DEF QP!Enqueue, Q!Enqueue, QP!EnqueueOverflow, Q!EnqueueOverflow,
         QP!EnqueueCompacting, Q!EnqueueCompacting, QP!EnqueueAtRear, Q!EnqueueAtRear,
         QP!QueueFull, Q!QueueFull, QP!CompactAsserts, Q!CompactAsserts,
         QP!CompactedNodes, Q!CompactedNodes
<1> QED
  BY <1>1, <1>2, <1>3, <1>4

LEMMA SameNext ==
  (QP!TypeOK <=> Q!TypeOK)' /\ (QP!Items = Q!Items)'
BY SameQueue, PTL

(* The sequence in the slots of the stack below st_top.                    *)
Stacked ==
  /\ St!Items \in Seq(Vertices \cup {NoData})
  /\ Len(St!Items) = st_top + 1
  /\ \A k \in 1 .. st_top + 1 : St!Items[k] = st_node[k - 1]
  /\ St!Items = <<>> <=> St!StackEmpty

LEMMA StackItems == St!TypeOK => Stacked
<1> SUFFICES ASSUME St!TypeOK PROVE Stacked
  OBVIOUS
<1> USE GraphAssumption DEF St!TypeOK, St!STACK_MIN_ITEMS, St!Slots
<1>1. st_top + 1 \in Nat
  OBVIOUS
<1>2. St!Items \in Seq(Vertices \cup {NoData}) /\ Len(St!Items) = st_top + 1
  BY <1>1 DEF St!Items
<1>3. St!Items = <<>> <=> St!StackEmpty
  BY <1>2, EmptySeq DEF St!StackEmpty
<1> QED
  BY <1>2, <1>3 DEF Stacked, St!Items

LEMMA StackItemsNext == St!TypeOK' => Stacked'
BY StackItems, PTL

LEMMA WaitingItems ==
  ASSUME Buffers
  PROVE  /\ Items \in Seq(Vertices \cup {NoData})
         /\ search = "bfs" \/ search = "dfs" => (Empty <=> Items = <<>>)
<1>1. /\ Q!Items \in Seq(Vertices \cup {NoData})
      /\ Q!QueueEmpty <=> Q!Items = <<>>
  BY SameQueue, QP!ItemsCounted, GraphAssumption DEF Buffers, Vertices
<1>2. /\ St!Items \in Seq(Vertices \cup {NoData})
      /\ St!StackEmpty <=> St!Items = <<>>
  BY StackItems DEF Buffers, Stacked
<1> QED
  BY <1>1, <1>2 DEF Items, Empty

(* What is put goes to the end, whether it is a queue or a stack.          *)
LEMMA PutAppends ==
  ASSUME Buffers, NEW v \in Vertices, Put(v), UNCHANGED search, status' = "EOK"
  PROVE  Items' = Append(Items, v)
<1>1. CASE search = "bfs"
  <2>1. QP!Enqueue(v) /\ QP!TypeOK
    BY <1>1, SameQueue DEF Put, Buffers
  <2>2. QP!Items' = Append(QP!Items, v)
    BY <2>1, QP!EnqueueItems, GraphAssumption DEF Vertices
  <2> QED
    BY <1>1, <2>2, SameQueue, SameNext DEF Items
<1>2. CASE search = "dfs"
  <2> DEFINE S == Vertices \cup {NoData}
             n == st_top + 1
  <2>1. St!Push(v) /\ St!TypeOK /\ ~St!StackFull
    BY <1>2 DEF Put, Buffers, St!Push
  <2>2. Stacked /\ Stacked'
    BY <1>2, PushAdds, StackItems, StackItemsNext DEF Put, Buffers
  <2>3. /\ n \in Nat /\ st_top' = n
        /\ st_node' = [st_node EXCEPT ![n] = v]
        /\ st_node \in [0 .. STACK_MAX_ITEMS - 1 -> S] /\ n \in 0 .. STACK_MAX_ITEMS - 1
    BY <2>1, GraphAssumption
    DEF St!Push, St!TypeOK, St!STACK_MIN_ITEMS, St!Slots, St!StackFull
  <2>4. St!Items \in Seq(S) /\ St!Items' \in Seq(S) /\ Append(St!Items, v) \in Seq(S)
    BY <2>2 DEF Stacked
  <2>5. Len(St!Items') = n + 1 /\ Len(St!Items) = n /\ Len(Append(St!Items, v)) = n + 1
    BY <2>2, <2>3, <2>4 DEF Stacked
  <2>6. ASSUME NEW k \in 1 .. n + 1
        PROVE  St!Items'[k] = Append(St!Items, v)[k]
    <3>1. St!Items'[k] = st_node'[k - 1]
      BY <2>2, <2>3 DEF Stacked
    <3>2. Append(St!Items, v)[k] = IF k = n + 1 THEN v ELSE st_node[k - 1]
      BY <2>2, <2>3, <2>4, <2>5 DEF Stacked
    <3> QED
      BY <2>3, <3>1, <3>2
  <2>7. St!Items' = Append(St!Items, v)
    BY <2>3, <2>4, <2>5, <2>6, SeqEqual
  <2> QED
    BY <1>2, <2>7 DEF Items
<1> QED
  BY <1>1, <1>2 DEF Put

LEMMA PutRefused ==
  ASSUME Buffers, NEW v \in Vertices, Put(v), UNCHANGED search, status' # "EOK"
  PROVE  Items' = Items
<1>1. CASE search = "bfs"
  <2>1. QP!Enqueue(v) /\ QP!TypeOK
    BY <1>1, SameQueue DEF Put, Buffers
  <2>2. QP!Items' = QP!Items
    BY <2>1, QP!EnqueueItems, GraphAssumption DEF Vertices
  <2> QED
    BY <1>1, <2>2, SameQueue, SameNext DEF Items
<1>2. CASE search = "dfs"
  <2>1. UNCHANGED <<st_top, st_node>>
    BY <1>2 DEF Put, St!Push
  <2> QED
    BY <1>2, <2>1 DEF Items, St!Items
<1> QED
  BY <1>1, <1>2 DEF Put

(* What is taken is the first item of the queue, the last one of the stack.*)
LEMMA TakeRemoves ==
  ASSUME Buffers, ~Empty, Take, UNCHANGED search, Items \in Seq(Vertices)
  PROVE  /\ Len(Items) \in Nat \ {0} /\ Items' \in Seq(Vertices)
         /\ Len(Items') = Len(Items) - 1
         /\ search = "bfs" => /\ data' = Items[1]
                              /\ \A s \in 1 .. Len(Items) - 1 : Items'[s] = Items[s + 1]
         /\ search = "dfs" => /\ data' = Items[Len(Items)]
                              /\ \A s \in 1 .. Len(Items) - 1 : Items'[s] = Items[s]
<1>1. CASE search = "bfs"
  <2>1. QP!Dequeue /\ QP!TypeOK /\ QP!Items # <<>>
    BY <1>1, SameQueue, WaitingItems DEF Take, Buffers, Items
  <2>2. data' = Head(QP!Items) /\ QP!Items' = Tail(QP!Items)
    BY <2>1, QP!DequeueItems, GraphAssumption DEF Vertices
  <2>3. data' = Head(Items) /\ Items' = Tail(Items) /\ Items # <<>>
    BY <1>1, <2>1, <2>2, SameQueue, SameNext DEF Items
  <2>4. Head(Items) = Items[1]
    BY <2>3
  <2>5. Len(Items) \in Nat \ {0}
    BY <2>3, EmptySeq
  <2> QED
    BY <1>1, <2>3, <2>4, <2>5, HeadTailProperties
<1>2. CASE search = "dfs"
  <2>1. St!Pop /\ St!TypeOK /\ ~St!StackEmpty
    BY <1>2 DEF Take, Buffers, Empty
  <2>2. Stacked /\ Stacked'
    BY <1>2, PopTakes, StackItems, StackItemsNext DEF Take, Buffers, Empty
  <2>3. /\ st_top \in Nat /\ st_top' = st_top - 1
        /\ UNCHANGED st_node /\ data' = st_node[st_top]
    BY <2>1, GraphAssumption DEF St!Pop, St!TypeOK, St!STACK_MIN_ITEMS, St!StackEmpty
  <2>4. Items = St!Items /\ Items' = St!Items'
    BY <1>2 DEF Items
  <2>5. /\ Len(Items) = st_top + 1 /\ Len(Items') = st_top
        /\ Items' \in Seq(Vertices \cup {NoData})
        /\ data' = Items[st_top + 1]
        /\ \A s \in 1 .. st_top : Items'[s] = Items[s]
    BY <2>2, <2>3, <2>4 DEF Stacked
  <2>6. \A s \in 1 .. Len(Items') : Items'[s] \in Vertices
    BY <2>3, <2>5, ElementOfSeq
  <2>7. Items' \in Seq(Vertices)
    <3>1. Items' = [s \in 1 .. st_top |-> Items'[s]]
      BY <2>3, <2>5
    <3> QED
      BY <2>3, <2>5, <2>6, <3>1
  <2> QED
    BY <1>2, <2>3, <2>5, <2>7
<1> QED
  BY <1>1, <1>2 DEF Take

(* The neighbours of v that are not printed yet, as in GraphSearch.        *)
Left(v) == {w \in Vertices : <<v, w>> \in Edges /\ w \notin visited}

(* u is one of those that the loop over the neighbours of the vertex       *)
(* printed last, the k-th, has still to put.                               *)
Pending(k, u) == pc = "neighbours" /\ k = Len(printed) /\ printed[k] = tmp_vertex /\ i <= u

(* The textbook prints u, a neighbour of the k-th vertex, before w: breadth*)
(* first, depth first.                                                     *)
Sooner(k, u, w) ==
  /\ \A j \in 1 .. Len(printed) : <<printed[j], w>> \in Edges => k <= j
  /\ <<printed[k], w>> \in Edges => u < w

Nearer(k, u, w) ==
  /\ \A j \in 1 .. Len(printed) : <<printed[j], w>> \in Edges => k >= j
  /\ <<printed[k], w>> \in Edges => u > w

(* What waits is visited or a neighbour of a vertex that was printed.      *)
Parents ==
  \A s \in 1 .. Len(Items) : Items[s] \notin visited =>
    \E j \in 1 .. Len(printed) : <<printed[j], Items[s]>> \in Edges

(* What is left waits, or will.                                            *)
Complete ==
  \A k \in 1 .. Len(printed) : \A u \in Left(printed[k]) :
    Pending(k, u) \/ \E s \in 1 .. Len(Items) : Items[s] = u

(* What a queue should return before an item is in front of it.            *)
BreadthOrder ==
  search = "bfs" =>
    \A s \in 1 .. Len(Items) : Items[s] \notin visited =>
      \A k \in 1 .. Len(printed) : \A u \in Left(printed[k]) :
        Sooner(k, u, Items[s]) => \E r \in 1 .. s - 1 : Items[r] = u

(* What a stack should return before an item is on top of it, or will be.  *)
(* A vertex that was printed waits below all that it leads to: when it is  *)
(* taken once more it has no neighbours left.                              *)
DepthOrder ==
  search = "dfs" =>
    \A s \in 1 .. Len(Items) : \A k \in 1 .. Len(printed) : \A u \in Left(printed[k]) :
      Items[s] = printed[k] \/ (Items[s] \notin visited /\ Nearer(k, u, Items[s])) =>
        Pending(k, u) \/ \E r \in s + 1 .. Len(Items) : Items[r] = u

Expanding ==
  pc = "neighbours" =>
    /\ tmp_vertex \in visited
    /\ search = "dfs" => tmp_vertex = printed[Len(printed)] \/ ToPut = {}

Going == printed # <<>> /\ Parents /\ Complete /\ BreadthOrder /\ DepthOrder /\ Expanding

Starting == pc = "loop" /\ printed = <<>> /\ Items = <<start_vertex>>

Orderly ==
  /\ Items \in Seq(Vertices)
  /\ pc \in {"caller", "start"} => Items = <<>>
  /\ pc \in {"loop", "neighbours"} => Starting \/ Going

LEMMA Known ==
  ASSUME Types
  PROVE  /\ printed \in Seq(Vertices) /\ Len(printed) \in Nat
         /\ \A k \in 1 .. Len(printed) : printed[k] \in visited
         /\ \A v \in visited : \E k \in 1 .. Len(printed) : printed[k] = v
         /\ visited \subseteq Vertices /\ Vertices \subseteq Nat
         /\ i \in Nat /\ tmp_vertex \in Vertices /\ start_vertex \in Vertices
         /\ Edges \subseteq Vertices \X Vertices
         /\ printed = <<>> => visited = {}
         /\ Buffers
<1>1. printed \in Seq(Vertices) /\ visited = {printed[k] : k \in DOMAIN printed}
  BY DEF Types, TypeOK
<1>2. DOMAIN printed = 1 .. Len(printed) /\ Len(printed) \in Nat
  BY <1>1, LenProperties
<1>3. printed = <<>> => 1 .. Len(printed) = {}
  BY EmptySeq
<1>4. Vertices \subseteq Nat
  BY GraphAssumption DEF Vertices
<1> QED
  BY <1>1, <1>2, <1>3, <1>4 DEF Types, TypeOK, Buffers, Edges

ToPutIsLeft == \A u : u \in ToPut <=> u \in Left(tmp_vertex) /\ i <= u

LEMMA ToPutLeft == Types => ToPutIsLeft
<1> SUFFICES ASSUME Types PROVE ToPutIsLeft
  OBVIOUS
<1>1. \A u : u \in i .. graph_max_vertices - 1 <=> u \in Vertices /\ i <= u
  BY GraphAssumption DEF Types, TypeOK, Vertices
<1>2. \A u \in Vertices : <<tmp_vertex, u>> \in Edges
                            <=> GetWeight(tmp_vertex, u) # GRAPH_INVALID_WEIGHT
  BY Known DEF Edges
<1> QED
  BY <1>1, <1>2 DEF ToPut, Left, ToPutIsLeft

LEMMA ToPutLeftNext == Types' => ToPutIsLeft'
BY ToPutLeft, PTL

LEMMA PutStartOrderly == ASSUME Types, Orderly, PutStart PROVE Orderly'
<1>1. Items = <<>> /\ start_vertex \in Vertices /\ visited = {} /\ printed = <<>>
      /\ search \in {"bfs", "dfs"}
  <2>1. visited = {} /\ Len(printed) \in Nat
    BY Known DEF PutStart, Types, TypeOK
  <2>2. printed = <<>>
    BY <2>1, Known, EmptySeq
  <2> QED
    BY <2>1, <2>2 DEF PutStart, Orderly, Types, TypeOK
<1>2. CASE status' # "EOK"
  <2>1. Items' = Items
    BY <1>1, <1>2, Known, PutRefused DEF PutStart
  <2> QED
    BY <1>2, <2>1 DEF PutStart, OrAbort, Orderly
<1>3. CASE status' = "EOK"
  <2>1. Items' = Append(Items, start_vertex)
    BY <1>1, <1>3, Known, PutAppends DEF PutStart
  <2>2. Items' = <<start_vertex>> /\ Items' \in Seq(Vertices)
    BY <1>1, <2>1
  <2> QED
    BY <1>1, <1>3, <2>2 DEF PutStart, OrAbort, Orderly, Starting
<1> QED
  BY <1>2, <1>3

(* What is taken stands first or last: whatever else waits keeps its       *)
(* place among the others.                                                 *)
LEMMA TakeKeepsOrder ==
  ASSUME Types, Orderly, Visit
  PROVE  /\ search \in {"bfs", "dfs"} /\ search' = search
         /\ data' \in Vertices /\ Items' \in Seq(Vertices) /\ Items # <<>>
         /\ Len(Items) \in Nat \ {0} /\ Len(Items') = Len(Items) - 1
         /\ search = "bfs" => /\ data' = Items[1]
                              /\ \A s \in 1 .. Len(Items') : Items'[s] = Items[s + 1]
         /\ search = "dfs" => /\ data' = Items[Len(Items)]
                              /\ \A s \in 1 .. Len(Items') : Items'[s] = Items[s]
<1>1. search \in {"bfs", "dfs"} /\ search' = search
  BY DEF Visit, Types, TypeOK
<1>2. /\ Len(Items) \in Nat \ {0} /\ Items' \in Seq(Vertices)
      /\ Len(Items') = Len(Items) - 1
      /\ search = "bfs" => /\ data' = Items[1]
                           /\ \A s \in 1 .. Len(Items) - 1 : Items'[s] = Items[s + 1]
      /\ search = "dfs" => /\ data' = Items[Len(Items)]
                           /\ \A s \in 1 .. Len(Items) - 1 : Items'[s] = Items[s]
  BY <1>1, Known, TakeRemoves DEF Visit, Orderly
<1>3. Items # <<>>
  BY <1>2
<1>4. Items[1] \in Vertices /\ Items[Len(Items)] \in Vertices
  <2>1. 1 \in 1 .. Len(Items) /\ Len(Items) \in 1 .. Len(Items)
    BY <1>2
  <2> QED
    BY <2>1, ElementOfSeq DEF Orderly
<1> HIDE DEF Items
<1> QED
  BY <1>1, <1>2, <1>3, <1>4

(* The first vertex taken is the start.                                    *)
LEMMA VisitStart ==
  ASSUME Types, Orderly, Visit, printed = <<>>
  PROVE  /\ data' = start_vertex /\ printed' = <<start_vertex>> /\ visited' = {start_vertex}
         /\ Items' = <<>>
<1>1. Items = <<start_vertex>> /\ Len(Items) = 1
  BY DEF Visit, Orderly, Starting, Going
<1>2. data' = start_vertex /\ Len(Items') = 0 /\ Items' \in Seq(Vertices)
  BY <1>1, TakeKeepsOrder
<1>3. Items' = <<>>
  BY <1>2, EmptySeq
<1> QED
  BY <1>2, <1>3, Known DEF Visit

LEMMA VisitStartOrderly ==
  ASSUME Types, Orderly, Visit, printed = <<>> PROVE Orderly'
<1>1. /\ printed' = <<start_vertex>> /\ visited' = {start_vertex} /\ Items' = <<>>
      /\ pc' = "neighbours" /\ tmp_vertex' = start_vertex /\ i' = 0
  BY VisitStart DEF Visit
<1>2. /\ Len(printed') = 1 /\ printed'[1] = start_vertex /\ 1 .. Len(Items') = {}
      /\ Items' \in Seq(Vertices)
  BY <1>1
<1>3. Parents' /\ BreadthOrder' /\ DepthOrder' /\ Expanding'
  BY <1>1, <1>2 DEF Parents, BreadthOrder, DepthOrder, Expanding
<1>4. Complete'
  <2>1. ASSUME NEW k \in 1 .. Len(printed'), NEW u \in Left(printed[k])'
        PROVE  Pending(k, u)'
    <3>1. k = 1 /\ u \in Nat
      BY <1>2, Known, GraphAssumption DEF Left, Vertices
    <3> QED
      BY <1>1, <1>2, <3>1 DEF Pending
  <2> QED
    BY <2>1 DEF Complete
<1> QED
  BY <1>1, <1>2, <1>3, <1>4 DEF Orderly, Going

(* A vertex taken once more leaves the output as it is.  Depth first, it   *)
(* has no neighbours left.                                                 *)
LEMMA VisitAgainOrderly ==
  ASSUME Types, Orderly, Visit, printed # <<>>, data' \in visited PROVE Orderly'
<1> DEFINE n == Len(Items)
<1>1. Going /\ pc = "loop"
  BY DEF Visit, Orderly, Starting
<1>2. /\ printed' = printed /\ visited' = visited /\ graph_data' = graph_data
      /\ pc' = "neighbours" /\ tmp_vertex' = data' /\ i' = 0
  BY DEF Visit
<1>3. Edges' = Edges /\ \A v : Left(v)' = Left(v)
  BY <1>2 DEF Edges, GetWeight, Left
<1>4. /\ search \in {"bfs", "dfs"} /\ search' = search
      /\ data' \in Vertices /\ Items' \in Seq(Vertices)
      /\ n \in Nat \ {0} /\ Len(Items') = n - 1
      /\ search = "bfs" => /\ data' = Items[1]
                           /\ \A s \in 1 .. Len(Items') : Items'[s] = Items[s + 1]
      /\ search = "dfs" => /\ data' = Items[n]
                           /\ \A s \in 1 .. Len(Items') : Items'[s] = Items[s]
  BY TakeKeepsOrder
<1>5. \A v : \A u \in Left(v) : u \notin visited
  BY DEF Left
<1>6. \A s \in 1 .. n - 1 : \E r \in 1 .. n : Items'[s] = Items[r]
  BY <1>4
<1>7. \A s \in 1 .. n : Items[s] # data' => \E r \in 1 .. n - 1 : Items'[r] = Items[s]
  <2> SUFFICES ASSUME NEW s \in 1 .. n, Items[s] # data'
               PROVE  \E r \in 1 .. n - 1 : Items'[r] = Items[s]
    OBVIOUS
  <2>1. CASE search = "bfs"
    <3>1. s - 1 \in 1 .. n - 1 /\ (s - 1) + 1 = s
      BY <1>4, <2>1
    <3> QED
      BY <1>4, <2>1, <3>1
  <2>2. CASE search = "dfs"
    <3>1. s \in 1 .. n - 1
      BY <1>4, <2>2
    <3> QED
      BY <1>4, <2>2, <3>1
  <2> QED
    BY <1>4, <2>1, <2>2
<1>8. Parents'
  <2>1. \A s \in 1 .. n : Items[s] \notin visited =>
          \E j \in 1 .. Len(printed) : <<printed[j], Items[s]>> \in Edges
    BY <1>1 DEF Going, Parents
  <2> QED
    BY <1>2, <1>3, <1>4, <1>6, <2>1 DEF Parents
<1>9. Complete'
  <2>1. ASSUME NEW k \in 1 .. Len(printed), NEW u \in Left(printed[k])
        PROVE  \E s \in 1 .. n - 1 : Items'[s] = u
    <3>1. \E s \in 1 .. n : Items[s] = u
      BY <1>1 DEF Going, Complete, Pending
    <3> QED
      BY <1>5, <1>7, <3>1
  <2> QED
    BY <1>2, <1>3, <1>4, <2>1 DEF Complete
<1>10. BreadthOrder'
  <2>1. ASSUME search = "bfs",
               NEW s \in 1 .. n - 1, Items'[s] \notin visited,
               NEW k \in 1 .. Len(printed), NEW u \in Left(printed[k]),
               Sooner(k, u, Items[s])'
        PROVE  \E r \in 1 .. s - 1 : Items'[r] = u
    <3>1. Items'[s] = Items[s + 1] /\ s + 1 \in 1 .. n
      BY <1>4, <2>1
    <3>2. Sooner(k, u, Items[s + 1])
      BY <1>2, <1>3, <2>1, <3>1 DEF Sooner
    <3>3. PICK r \in 1 .. (s + 1) - 1 : Items[r] = u
      BY <1>1, <2>1, <3>1, <3>2 DEF Going, BreadthOrder
    <3>4. r # 1
      BY <1>4, <1>5, <2>1, <3>3
    <3>5. r - 1 \in 1 .. s - 1 /\ r - 1 \in 1 .. n - 1 /\ (r - 1) + 1 = r
      BY <1>4, <3>3, <3>4
    <3> QED
      BY <1>4, <2>1, <3>3, <3>5
  <2> QED
    BY <1>2, <1>3, <1>4, <2>1 DEF BreadthOrder
<1>11. DepthOrder'
  <2>1. ASSUME search = "dfs",
               NEW s \in 1 .. n - 1,
               NEW k \in 1 .. Len(printed), NEW u \in Left(printed[k]),
               Items'[s] = printed[k] \/ (Items'[s] \notin visited /\ Nearer(k, u, Items[s])')
        PROVE  \E r \in s + 1 .. n - 1 : Items'[r] = u
    <3>1. s \in 1 .. n /\ Items'[s] = Items[s]
      BY <1>4, <2>1
    <3>2. Items[s] = printed[k] \/ (Items[s] \notin visited /\ Nearer(k, u, Items[s]))
      BY <1>2, <1>3, <2>1, <3>1 DEF Nearer
    <3>3. PICK r \in s + 1 .. n : Items[r] = u
      BY <1>1, <2>1, <3>1, <3>2 DEF Going, DepthOrder, Pending
    <3>4. r # n
      BY <1>4, <1>5, <2>1, <3>3
    <3>5. n \in Nat \ {0}
      BY <1>4
    <3>6. r \in s + 1 .. n - 1 /\ r \in 1 .. n - 1
      <4> HIDE DEF n
      <4> QED
        BY <3>3, <3>4, <3>5
    <3> QED
      BY <1>4, <2>1, <3>3, <3>6
  <2> SUFFICES ASSUME (search = "dfs")',
                      NEW s \in 1 .. Len(Items'), NEW k \in 1 .. Len(printed'),
                      NEW u \in Left(printed[k])',
                      (Items[s] = printed[k] \/ (Items[s] \notin visited /\ Nearer(k, u, Items[s])))'
               PROVE  \E r \in s + 1 .. Len(Items') : Items'[r] = u
    BY DEF DepthOrder
  <2>2. search = "dfs" /\ s \in 1 .. n - 1 /\ Len(Items') = n - 1
    BY <1>4
  <2>3. k \in 1 .. Len(printed) /\ u \in Left(printed[k])
    BY <1>2, <1>3
  <2>4. Items'[s] = printed[k] \/ (Items'[s] \notin visited /\ Nearer(k, u, Items[s])')
    BY <1>2
  <2> HIDE DEF n
  <2> QED
    BY <2>1, <2>2, <2>3, <2>4
<1>12. Expanding'
  <2>1. ASSUME search = "dfs" PROVE ToPut' = {}
    <3>1. PICK k \in 1 .. Len(printed) : printed[k] = data'
      BY Known
    <3>2. Left(data') = {}
      <4> SUFFICES ASSUME NEW u \in Left(printed[k]) PROVE FALSE
        BY <3>1
      <4>1. n \in 1 .. n /\ Items[n] = printed[k]
        BY <1>4, <2>1, <3>1
      <4>2. \E r \in n + 1 .. n : Items[r] = u
        BY <1>1, <2>1, <4>1 DEF Going, DepthOrder, Pending
      <4> QED
        BY <1>4, <4>2
    <3>3. \A u : u \in ToPut' => u \in Left(data')
      <4>1. Types'
        BY NextTypes DEF Next, Step
      <4>2. \A u : u \in ToPut' => u \in Left(tmp_vertex)'
        BY <4>1, ToPutLeftNext DEF ToPutIsLeft
      <4>3. Left(tmp_vertex)' = Left(data')
        BY <1>2, <1>3 DEF Left
      <4> QED
        BY <4>2, <4>3
    <3> QED
      BY <3>2, <3>3
  <2> QED
    BY <1>2, <1>4, <2>1 DEF Expanding
<1> QED
  BY <1>1, <1>2, <1>4, <1>8, <1>9, <1>10, <1>11, <1>12 DEF Orderly, Going

(* A vertex taken for the first time: what it leads to is put next.        *)
LEMMA VisitNewOrderly ==
  ASSUME Types, Orderly, Visit, printed # <<>>, data' \notin visited PROVE Orderly'
<1> DEFINE n == Len(Items)
           m == Len(printed)
<1>1. Going /\ pc = "loop"
  BY DEF Visit, Orderly, Starting
<1>2. /\ visited' = visited \cup {data'} /\ graph_data' = graph_data
      /\ pc' = "neighbours" /\ tmp_vertex' = data' /\ i' = 0
      /\ printed' = Append(printed, data')
  BY DEF Visit
<1>3. Edges' = Edges /\ \A v, u : u \in Left(v)' <=> u \in Left(v) /\ u # data'
  <2>1. Edges' = Edges
    BY <1>2 DEF Edges, GetWeight
  <2> QED
    BY <1>2, <2>1 DEF Left
<1>4. /\ search \in {"bfs", "dfs"} /\ search' = search
      /\ data' \in Vertices /\ Items' \in Seq(Vertices)
      /\ n \in Nat \ {0} /\ Len(Items') = n - 1
      /\ search = "bfs" => /\ data' = Items[1]
                           /\ \A s \in 1 .. Len(Items') : Items'[s] = Items[s + 1]
      /\ search = "dfs" => /\ data' = Items[n]
                           /\ \A s \in 1 .. Len(Items') : Items'[s] = Items[s]
  BY TakeKeepsOrder
<1>5. /\ m \in Nat /\ Len(printed') = m + 1 /\ printed'[m + 1] = data'
      /\ \A k \in 1 .. m : printed'[k] = printed[k]
  BY <1>2, <1>4, Known, AppendProperties
<1>6. \A s \in 1 .. n - 1 : \E r \in 1 .. n : Items'[s] = Items[r]
  BY <1>4
<1>7. \A s \in 1 .. n : Items[s] # data' => \E r \in 1 .. n - 1 : Items'[r] = Items[s]
  <2> SUFFICES ASSUME NEW s \in 1 .. n, Items[s] # data'
               PROVE  \E r \in 1 .. n - 1 : Items'[r] = Items[s]
    OBVIOUS
  <2>1. CASE search = "bfs"
    <3>1. s - 1 \in 1 .. n - 1 /\ (s - 1) + 1 = s
      BY <1>4, <2>1
    <3> QED
      BY <1>4, <2>1, <3>1
  <2>2. CASE search = "dfs"
    <3>1. s \in 1 .. n - 1
      BY <1>4, <2>2
    <3> QED
      BY <1>4, <2>2, <3>1
  <2> QED
    BY <1>4, <2>1, <2>2
<1>8. ASSUME NEW k, k = m + 1, NEW u \in Left(printed[k])' PROVE Pending(k, u)'
  <2>1. u \in Nat
    BY <1>3, <1>8, GraphAssumption DEF Left, Vertices
  <2> QED
    BY <1>2, <1>5, <1>8, <2>1 DEF Pending
<1>9. ASSUME NEW k \in 1 .. m + 1, k # m + 1 PROVE k \in 1 .. m /\ printed'[k] = printed[k]
  BY <1>5, <1>9
<1>10. Parents'
  <2>1. \A s \in 1 .. n : Items[s] \notin visited =>
          \E j \in 1 .. m : <<printed[j], Items[s]>> \in Edges
    BY <1>1 DEF Going, Parents
  <2>2. ASSUME NEW s \in 1 .. n - 1, Items'[s] \notin visited'
        PROVE  \E j \in 1 .. m + 1 : <<printed'[j], Items'[s]>> \in Edges
    <3>1. PICK j \in 1 .. m : <<printed[j], Items'[s]>> \in Edges
      BY <1>2, <1>6, <2>1, <2>2
    <3>2. j \in 1 .. m + 1 /\ printed'[j] = printed[j]
      BY <1>5
    <3> QED
      BY <3>1, <3>2
  <2> QED
    BY <1>3, <1>4, <1>5, <2>2 DEF Parents
<1>11. Complete'
  <2> SUFFICES ASSUME NEW k \in 1 .. Len(printed'), NEW u \in Left(printed[k])'
               PROVE  Pending(k, u)' \/ \E s \in 1 .. Len(Items') : Items'[s] = u
    BY DEF Complete
  <2>1. CASE k = m + 1
    BY <1>8, <2>1
  <2>2. CASE k # m + 1
    <3>1. k \in 1 .. m /\ printed'[k] = printed[k]
      BY <1>5, <1>9, <2>2
    <3>2. u \in Left(printed[k]) /\ u # data'
      BY <1>3, <3>1
    <3>3. \E s \in 1 .. n : Items[s] = u
      BY <1>1, <3>1, <3>2 DEF Going, Complete, Pending
    <3> QED
      BY <1>4, <1>7, <3>2, <3>3
  <2> QED
    BY <2>1, <2>2
<1>12. BreadthOrder'
  <2> SUFFICES ASSUME (search = "bfs")',
                      NEW s \in 1 .. Len(Items'), Items'[s] \notin visited',
                      NEW k \in 1 .. Len(printed'), NEW u \in Left(printed[k])',
                      Sooner(k, u, Items[s])'
               PROVE  \E r \in 1 .. s - 1 : Items'[r] = u
    BY DEF BreadthOrder
  <2>1. search = "bfs" /\ s \in 1 .. n - 1 /\ s + 1 \in 1 .. n /\ Items'[s] = Items[s + 1]
    BY <1>4
  <2>2. Items[s + 1] \notin visited
    BY <1>2, <2>1
  <2>3. CASE k = m + 1
    <3>1. PICK j \in 1 .. m : <<printed[j], Items[s + 1]>> \in Edges
      BY <1>1, <2>1, <2>2 DEF Going, Parents
    <3>2. j \in 1 .. m + 1 /\ <<printed'[j], Items'[s]>> \in Edges'
      BY <1>3, <1>5, <2>1, <3>1
    <3>3. k <= j
      BY <1>5, <3>2 DEF Sooner
    <3> QED
      BY <1>5, <2>3, <3>3
  <2>4. CASE k # m + 1
    <3>1. k \in 1 .. m /\ printed'[k] = printed[k]
      BY <1>5, <1>9, <2>4
    <3>2. u \in Left(printed[k]) /\ u # data'
      BY <1>3, <3>1
    <3>3. Sooner(k, u, Items[s + 1])
      <4>1. ASSUME NEW j \in 1 .. m, <<printed[j], Items[s + 1]>> \in Edges PROVE k <= j
        <5>1. j \in 1 .. Len(printed') /\ <<printed'[j], Items'[s]>> \in Edges'
          BY <1>3, <1>5, <2>1, <4>1
        <5> QED
          BY <5>1 DEF Sooner
      <4>2. <<printed[k], Items[s + 1]>> \in Edges => u < Items[s + 1]
        BY <1>3, <2>1, <3>1 DEF Sooner
      <4> QED
        BY <4>1, <4>2 DEF Sooner
    <3>4. PICK r \in 1 .. (s + 1) - 1 : Items[r] = u
      BY <1>1, <2>1, <2>2, <3>1, <3>2, <3>3 DEF Going, BreadthOrder
    <3>5. r # 1
      BY <1>4, <2>1, <3>2, <3>4
    <3>6. n \in Nat \ {0}
      BY <1>4
    <3>7. r - 1 \in 1 .. s - 1 /\ r - 1 \in 1 .. n - 1 /\ (r - 1) + 1 = r
      <4> HIDE DEF n
      <4> QED
        BY <2>1, <3>4, <3>5, <3>6
    <3> QED
      BY <1>4, <2>1, <3>4, <3>7
  <2> QED
    BY <2>3, <2>4
<1>13. DepthOrder'
  <2> SUFFICES ASSUME (search = "dfs")',
                      NEW s \in 1 .. Len(Items'), NEW k \in 1 .. Len(printed'),
                      NEW u \in Left(printed[k])',
                      (Items[s] = printed[k] \/ (Items[s] \notin visited /\ Nearer(k, u, Items[s])))'
               PROVE  Pending(k, u)' \/ \E r \in s + 1 .. Len(Items') : Items'[r] = u
    BY DEF DepthOrder
  <2>1. search = "dfs" /\ s \in 1 .. n - 1 /\ s \in 1 .. n /\ Items'[s] = Items[s]
    BY <1>4
  <2>2. CASE k = m + 1
    BY <1>8, <2>2
  <2>3. CASE k # m + 1
    <3>1. k \in 1 .. m /\ printed'[k] = printed[k]
      BY <1>5, <1>9, <2>3
    <3>2. u \in Left(printed[k]) /\ u # data'
      BY <1>3, <3>1
    <3>3. Items[s] = printed[k] \/ (Items[s] \notin visited /\ Nearer(k, u, Items[s]))
      <4>1. CASE Items'[s] = printed'[k]
        BY <2>1, <3>1, <4>1
      <4>2. CASE Items'[s] \notin visited' /\ Nearer(k, u, Items[s])'
        <5>1. ASSUME NEW j \in 1 .. m, <<printed[j], Items[s]>> \in Edges PROVE k >= j
          <6>1. j \in 1 .. Len(printed') /\ <<printed'[j], Items'[s]>> \in Edges'
            BY <1>3, <1>5, <2>1, <5>1
          <6> QED
            BY <4>2, <6>1 DEF Nearer
        <5>2. <<printed[k], Items[s]>> \in Edges => u > Items[s]
          BY <1>3, <2>1, <3>1, <4>2 DEF Nearer
        <5> QED
          BY <1>2, <2>1, <4>2, <5>1, <5>2 DEF Nearer
      <4> QED
        BY <4>1, <4>2
    <3>4. PICK r \in s + 1 .. n : Items[r] = u
      BY <1>1, <2>1, <3>1, <3>2, <3>3 DEF Going, DepthOrder, Pending
    <3>5. r # n
      BY <1>4, <2>1, <3>2, <3>4
    <3>6. n \in Nat \ {0}
      BY <1>4
    <3>7. r \in s + 1 .. n - 1 /\ r \in 1 .. n - 1
      <4> HIDE DEF n
      <4> QED
        BY <2>1, <3>4, <3>5, <3>6
    <3> QED
      BY <1>4, <2>1, <3>4, <3>7
  <2> QED
    BY <2>2, <2>3
<1>14. Expanding'
  BY <1>2, <1>5 DEF Expanding
<1>15. printed' # <<>>
  BY <1>5, EmptySeq
<1> QED
  BY <1>2, <1>4, <1>10, <1>11, <1>12, <1>13, <1>14, <1>15 DEF Orderly, Going

LEMMA VisitOrderly == ASSUME Types, Orderly, Visit PROVE Orderly'
BY VisitStartOrderly, VisitAgainOrderly, VisitNewOrderly

(* The neighbour put is the first one left, and it goes behind, or on top  *)
(* of, all that should be printed before, or after, it.                    *)
LEMMA PutNeighbourOrderly == ASSUME Types, Orderly, PutNeighbour PROVE Orderly'
<1> DEFINE n == Len(Items)
           m == Len(printed)
<1>1. Going /\ pc = "neighbours" /\ Items \in Seq(Vertices)
  BY DEF PutNeighbour, Orderly, Starting
<1>2. PICK v \in ToPut : /\ \A w \in ToPut : v <= w
                         /\ Put(v)
                         /\ i' = v + 1
  BY DEF PutNeighbour
<1>3. \A u : u \in ToPut <=> u \in Left(tmp_vertex) /\ i <= u
  BY ToPutLeft DEF ToPutIsLeft
<1>4. /\ v \in Vertices /\ v \in Nat /\ v \in Left(tmp_vertex) /\ v \notin visited
      /\ <<tmp_vertex, v>> \in Edges
  BY <1>2, <1>3, GraphAssumption DEF Left, Vertices
<1>5. /\ search \in {"bfs", "dfs"} /\ search' = search
      /\ UNCHANGED <<graph_data, visited, printed, tmp_vertex>>
  BY DEF PutNeighbour, Types, TypeOK
<1>6. CASE status' # "EOK"
  <2>1. Items' = Items
    BY <1>2, <1>4, <1>5, <1>6, Known, PutRefused
  <2> QED
    BY <1>1, <1>6, <2>1 DEF PutNeighbour, OrAbort, Orderly
<1>7. CASE status' = "EOK"
  <2>1. Items' = Append(Items, v) /\ pc' = "neighbours"
    BY <1>2, <1>4, <1>5, <1>7, Known, PutAppends DEF PutNeighbour, OrAbort
  <2>2. /\ n \in Nat /\ Items' \in Seq(Vertices) /\ Len(Items') = n + 1
        /\ Items'[n + 1] = v /\ \A s \in 1 .. n : Items'[s] = Items[s]
    BY <1>1, <1>4, <2>1, AppendProperties, LenProperties
  <2>3. m \in Nat /\ Len(printed') = m
    BY <1>5, Known
  <2>4. Edges' = Edges /\ \A w : Left(w)' = Left(w)
    BY <1>5 DEF Edges, GetWeight, Left
  <2>5. ASSUME NEW k \in 1 .. m, NEW u \in Left(printed[k]), Pending(k, u)
        PROVE  v <= u /\ (u = v \/ Pending(k, u)')
    <3>1. k = m /\ printed[k] = tmp_vertex /\ u \in ToPut /\ u \in Nat
      BY <1>3, <2>5, GraphAssumption DEF Pending, Left, Vertices
    <3>2. v <= u
      BY <1>2, <3>1
    <3>3. u = v \/ v + 1 <= u
      BY <1>4, <3>1, <3>2
    <3>4. ASSUME v + 1 <= u PROVE Pending(k, u)'
      BY <1>2, <1>5, <2>1, <3>1, <3>4 DEF Pending
    <3> QED
      BY <3>2, <3>3, <3>4
  <2>6. PICK c \in 1 .. m : printed[c] = tmp_vertex
    BY <1>1, Known DEF Going, Expanding
  <2>7. Parents'
    <3>1. ASSUME NEW s \in 1 .. n + 1, Items'[s] \notin visited
          PROVE  \E j \in 1 .. m : <<printed[j], Items'[s]>> \in Edges
      <4>1. CASE s = n + 1
        BY <1>4, <2>2, <2>6, <4>1
      <4>2. CASE s # n + 1
        <5>1. s \in 1 .. n /\ Items'[s] = Items[s]
          BY <2>2, <4>2
        <5> QED
          BY <1>1, <3>1, <5>1 DEF Going, Parents
      <4> QED
        BY <4>1, <4>2
    <3> QED
      BY <1>5, <2>2, <2>4, <3>1 DEF Parents
  <2>8. Complete'
    <3> SUFFICES ASSUME NEW k \in 1 .. Len(printed'), NEW u \in Left(printed[k])'
                 PROVE  Pending(k, u)' \/ \E s \in 1 .. Len(Items') : Items'[s] = u
      BY DEF Complete
    <3>1. k \in 1 .. m /\ u \in Left(printed[k])
      BY <1>5, <2>4
    <3>2. CASE Pending(k, u)
      <4>1. CASE u = v
        <5>1. n + 1 \in 1 .. Len(Items')
          BY <2>2
        <5> QED
          BY <2>2, <4>1, <5>1
      <4> QED
        BY <2>5, <3>1, <3>2, <4>1
    <3>3. CASE \E s \in 1 .. n : Items[s] = u
      <4>1. PICK s \in 1 .. n : Items[s] = u
        BY <3>3
      <4>2. s \in 1 .. Len(Items') /\ Items'[s] = u
        BY <2>2, <4>1
      <4> QED
        BY <4>2
    <3> QED
      BY <1>1, <3>1, <3>2, <3>3 DEF Going, Complete
  <2>9. BreadthOrder'
    <3> SUFFICES ASSUME (search = "bfs")',
                        NEW s \in 1 .. Len(Items'), Items'[s] \notin visited',
                        NEW k \in 1 .. Len(printed'), NEW u \in Left(printed[k])',
                        Sooner(k, u, Items[s])'
                 PROVE  \E r \in 1 .. s - 1 : Items'[r] = u
      BY DEF BreadthOrder
    <3>1. k \in 1 .. m /\ u \in Left(printed[k]) /\ search = "bfs" /\ u \in Nat
      BY <1>5, <2>4, GraphAssumption DEF Left, Vertices
    <3>2. Sooner(k, u, Items'[s])
      BY <1>5, <2>4 DEF Sooner
    <3>3. CASE s = n + 1
      <4>1. Sooner(k, u, v)
        BY <2>2, <3>2, <3>3
      <4>2. ~Pending(k, u)
        <5> SUFFICES ASSUME Pending(k, u) PROVE FALSE
          OBVIOUS
        <5>1. v <= u /\ printed[k] = tmp_vertex
          BY <2>5, <3>1 DEF Pending
        <5>2. u < v
          BY <1>4, <4>1, <5>1 DEF Sooner
        <5> QED
          BY <1>4, <3>1, <5>1, <5>2
      <4>3. PICK r \in 1 .. n : Items[r] = u
        BY <1>1, <3>1, <4>2 DEF Going, Complete
      <4> QED
        BY <2>2, <3>3, <4>3
    <3>4. CASE s # n + 1
      <4>1. s \in 1 .. n /\ Items'[s] = Items[s] /\ Items[s] \notin visited
        BY <1>5, <2>2, <3>4
      <4>2. PICK r \in 1 .. s - 1 : Items[r] = u
        BY <1>1, <3>1, <3>2, <4>1 DEF Going, BreadthOrder
      <4>3. r \in 1 .. n
        BY <2>2, <4>1, <4>2
      <4> QED
        BY <2>2, <4>2, <4>3
    <3> QED
      BY <3>3, <3>4
  <2>10. DepthOrder'
    <3> SUFFICES ASSUME (search = "dfs")',
                        NEW s \in 1 .. Len(Items'), NEW k \in 1 .. Len(printed'),
                        NEW u \in Left(printed[k])',
                        (Items[s] = printed[k] \/ (Items[s] \notin visited /\ Nearer(k, u, Items[s])))'
                 PROVE  Pending(k, u)' \/ \E r \in s + 1 .. Len(Items') : Items'[r] = u
      BY DEF DepthOrder
    <3>1. k \in 1 .. m /\ u \in Left(printed[k]) /\ search = "dfs" /\ u \in Nat
      BY <1>5, <2>4, GraphAssumption DEF Left, Vertices
    <3>2. Items'[s] = printed[k] \/ (Items'[s] \notin visited /\ Nearer(k, u, Items'[s]))
      BY <1>5, <2>4 DEF Nearer
    <3>3. CASE s = n + 1
      <4>1. Nearer(k, u, v)
        BY <1>4, <2>2, <3>1, <3>2, <3>3, Known
      <4>2. tmp_vertex = printed[m] /\ m \in 1 .. m
        BY <1>1, <1>2, <2>3, <2>6, <3>1 DEF Going, Expanding
      <4>3. k = m
        BY <1>4, <2>3, <3>1, <4>1, <4>2 DEF Nearer
      <4>4. u > v
        BY <1>4, <4>1, <4>2, <4>3 DEF Nearer
      <4>5. v + 1 <= u
        BY <1>4, <3>1, <4>4
      <4> QED
        BY <1>2, <1>5, <2>1, <4>2, <4>3, <4>5 DEF Pending
    <3>4. CASE s # n + 1
      <4>1. s \in 1 .. n /\ Items'[s] = Items[s]
        BY <2>2, <3>4
      <4>2. CASE Pending(k, u)
        <5>1. CASE u = v
          <6>1. n + 1 \in s + 1 .. Len(Items')
            BY <2>2, <4>1
          <6> QED
            BY <2>2, <5>1, <6>1
        <5> QED
          BY <2>5, <3>1, <4>2, <5>1
      <4>3. CASE \E r \in s + 1 .. n : Items[r] = u
        <5>1. PICK r \in s + 1 .. n : Items[r] = u
          BY <4>3
        <5>2. r \in 1 .. n /\ r \in s + 1 .. Len(Items')
          BY <2>2, <4>1, <5>1
        <5> QED
          BY <2>2, <5>1, <5>2
      <4>4. Pending(k, u) \/ \E r \in s + 1 .. n : Items[r] = u
        BY <1>1, <3>1, <3>2, <4>1 DEF Going, DepthOrder
      <4> QED
        BY <4>2, <4>3, <4>4
    <3> QED
      BY <3>3, <3>4
  <2>11. Expanding'
    BY <1>1, <1>2, <1>5 DEF Going, Expanding
  <2> QED
    BY <1>1, <1>5, <2>1, <2>2, <2>7, <2>8, <2>9, <2>10, <2>11 DEF Orderly, Going
<1> QED
  BY <1>6, <1>7

(* A step that takes and puts nothing, and leaves what is pending.         *)
LEMMA OrderKept ==
  ASSUME Going, UNCHANGED <<graph_data, search, visited, printed, Items>>,
         \A k \in 1 .. Len(printed) : \A u \in Left(printed[k]) : Pending(k, u) => Pending(k, u)'
  PROVE  Parents' /\ Complete' /\ BreadthOrder' /\ DepthOrder'
<1>1. Edges' = Edges /\ \A v : Left(v)' = Left(v)
  BY DEF Edges, GetWeight, Left
<1>2. Parents'
  BY <1>1 DEF Going, Parents
<1>3. Complete'
  BY <1>1 DEF Going, Complete
<1>4. BreadthOrder'
  <2> SUFFICES ASSUME (search = "bfs")',
                      NEW s \in 1 .. Len(Items'), Items'[s] \notin visited',
                      NEW k \in 1 .. Len(printed'), NEW u \in Left(printed[k])',
                      Sooner(k, u, Items[s])'
               PROVE  \E r \in 1 .. s - 1 : Items'[r] = u
    BY DEF BreadthOrder
  <2>1. Sooner(k, u, Items[s])
    BY <1>1 DEF Sooner
  <2> QED
    BY <1>1, <2>1 DEF Going, BreadthOrder
<1>5. DepthOrder'
  <2> SUFFICES ASSUME (search = "dfs")',
                      NEW s \in 1 .. Len(Items'), NEW k \in 1 .. Len(printed'),
                      NEW u \in Left(printed[k])',
                      (Items[s] = printed[k] \/ (Items[s] \notin visited /\ Nearer(k, u, Items[s])))'
               PROVE  Pending(k, u)' \/ \E r \in s + 1 .. Len(Items') : Items'[r] = u
    BY DEF DepthOrder
  <2>1. Items[s] = printed[k] \/ (Items[s] \notin visited /\ Nearer(k, u, Items[s]))
    BY <1>1 DEF Nearer
  <2> QED
    BY <1>1, <2>1 DEF Going, DepthOrder
<1> QED
  BY <1>2, <1>3, <1>4, <1>5

(* After the loop over the neighbours, none is left to put.                *)
LEMMA NeighboursDoneOrderly == ASSUME Types, Orderly, NeighboursDone PROVE Orderly'
<1>1. Going /\ pc = "neighbours" /\ pc' = "loop"
  BY DEF NeighboursDone, Orderly, Starting
<1>2. /\ UNCHANGED <<graph_data, search, visited, printed, tmp_vertex, q_front, q_rear, q_node,
                      st_top, st_node>>
  BY DEF NeighboursDone, work, queue, stack
<1>3. Items' = Items
  BY <1>2 DEF Items, Q!Items, Q!NumNodes, St!Items
<1>4. ASSUME NEW k \in 1 .. Len(printed), NEW u \in Left(printed[k])
      PROVE  ~Pending(k, u)
  <2>1. Pending(k, u) => u \in ToPut
    BY ToPutLeft DEF ToPutIsLeft, Pending
  <2> QED
    BY <2>1 DEF NeighboursDone
<1>5. Parents' /\ Complete' /\ BreadthOrder' /\ DepthOrder'
  BY <1>1, <1>2, <1>3, <1>4, OrderKept
<1> QED
  BY <1>1, <1>2, <1>3, <1>5 DEF Orderly, Going, Expanding

(* Between two traversals the queue and the stack are empty.               *)
LEMMA NothingWaits ==
  ASSUME q_front = Q!QUEUE_MIN_ITEMS, st_top = St!STACK_MIN_ITEMS
  PROVE  Items = <<>>
BY DEF Items, Q!Items, St!Items, St!STACK_MIN_ITEMS

LEMMA NothingWaitsNext ==
  q_front' = Q!QUEUE_MIN_ITEMS /\ st_top' = St!STACK_MIN_ITEMS => Items' = <<>>
BY DEF Items, Q!Items, St!Items, St!STACK_MIN_ITEMS, Q!QUEUE_MIN_ITEMS

LEMMA InitOrderly == Init => Orderly
BY NothingWaits, EmptySeq DEF Init, Q!Init, St!Init, Orderly

LEMMA NextOrderly == Types /\ Orderly /\ [Next]_vars => Orderly'
<1> SUFFICES ASSUME Types, Orderly, [Next]_vars PROVE Orderly'
  OBVIOUS
<1>1. ASSUME NEW v, NEW w, NEW weight, Insert(v, w, weight)
      PROVE  Orderly'
  <2>1. pc' = "caller" /\ UNCHANGED <<q_front, st_top>>
    BY <1>1 DEF Insert, work, queue, stack
  <2>2. Items' = <<>>
    BY <1>1, <2>1, NothingWaitsNext
    DEF Insert, Types, Q!QUEUE_MIN_ITEMS, St!STACK_MIN_ITEMS
  <2> QED
    BY <2>1, <2>2, EmptySeq DEF Orderly
<1>2. ASSUME NEW kind, NEW v, Call(kind, v)
      PROVE  Orderly'
  <2>1. pc' = "start" /\ UNCHANGED <<q_front, st_top>>
    BY <1>2 DEF Call, work, queue, stack
  <2>2. Items' = <<>>
    BY <1>2, <2>1, NothingWaitsNext
    DEF Call, Types, Q!QUEUE_MIN_ITEMS, St!STACK_MIN_ITEMS
  <2> QED
    BY <2>1, <2>2, EmptySeq DEF Orderly
<1>3. CASE PutStart
  BY <1>3, PutStartOrderly
<1>4. CASE Visit
  BY <1>4, VisitOrderly
<1>5. CASE PutNeighbour
  BY <1>5, PutNeighbourOrderly
<1>6. CASE NeighboursDone
  BY <1>6, NeighboursDoneOrderly
<1>7. CASE Return
  BY <1>7, NothingWaitsNext, EmptySeq DEF Return, Orderly
<1>8. CASE UNCHANGED vars
  <2>1. /\ UNCHANGED <<graph_data, pc, search, start_vertex, visited, printed, tmp_vertex, i>>
        /\ UNCHANGED <<q_front, q_rear, q_node, st_top, st_node>>
    BY <1>8 DEF vars, work, queue, stack
  <2>2. Items' = Items
    BY <2>1 DEF Items, Q!Items, Q!NumNodes, St!Items
  <2>3. \A k, u : Pending(k, u) => Pending(k, u)'
    BY <2>1 DEF Pending
  <2>4. Going => Going'
    <3>1. ToPut' = ToPut
      BY <2>1 DEF ToPut, GetWeight
    <3> QED
      BY <2>1, <2>2, <2>3, <3>1, OrderKept DEF Going, Expanding
  <2> QED
    BY <2>1, <2>2, <2>4 DEF Orderly, Starting
<1> QED
  BY <1>1, <1>2, <1>3, <1>4, <1>5, <1>6, <1>7, <1>8 DEF Next, Step

-----------------------------------------------------------------------------
(* Refinement of GraphSearch.                                              *)

LEMMA LeastNatural ==
  ASSUME NEW S \in SUBSET Nat, S # {}
  PROVE  \E m \in S : \A n \in S : m <= n
<1> DEFINE R == OpToRel(<, Nat)
<1>1. IsWellFoundedOn(R, Nat)
  BY NatLessThanWellFounded
<1>2. \A n, m \in Nat : n < m => <<n, m>> \in R
  BY DEF OpToRel
<1> HIDE DEF R
<1>3. PICK m \in S : \A n \in S : <<n, m>> \notin R
  BY <1>1, WFMin
<1>4. ASSUME NEW n \in S PROVE m <= n
  <2>1. n \in Nat /\ m \in Nat /\ ~(n < m)
    BY <1>2, <1>3
  <2> QED
    BY <2>1
<1> QED
  BY <1>4

LEMMA GreatestUpTo ==
  ASSUME NEW b \in Nat, NEW S \in SUBSET (1 .. b), S # {}
  PROVE  \E m \in S : \A n \in S : m >= n
<1> DEFINE T == {b - n : n \in S}
<1>0. \A n \in S : n \in Int /\ b - n \in Nat
  OBVIOUS
<1>1. T \in SUBSET Nat /\ T # {}
  <2>1. PICK n \in S : TRUE
    OBVIOUS
  <2>2. b - n \in T
    BY <2>1
  <2>3. T \subseteq Nat
    BY <1>0
  <2> QED
    BY <2>2, <2>3
<1>2. PICK t \in T : \A u \in T : t <= u
  BY <1>1, LeastNatural
<1>3. PICK m \in S : t = b - m
  BY <1>2
<1>4. ASSUME NEW n \in S PROVE m >= n
  <2>1. b - m <= b - n
    BY <1>2, <1>3
  <2> QED
    BY <2>1
<1> QED
  BY <1>4

(* The rows of the matrix do not overlap.                                  *)
LEMMA OffsetsDiffer ==
  ASSUME NEW v \in Vertices, NEW w \in Vertices, NEW x \in Vertices, NEW y \in Vertices,
         Offset(v, w) = Offset(x, y)
  PROVE  v = x /\ w = y
<1> DEFINE n == graph_max_vertices
<1>1. n \in Nat \ {0}
  BY GraphAssumption
<1>2. ASSUME NEW a \in Vertices, NEW b \in Vertices, NEW c \in Vertices, NEW d \in Vertices,
             a * n + b = c * n + d
      PROVE  ~(a < c)
  <2> SUFFICES ASSUME a < c PROVE FALSE
    OBVIOUS
  <2>1. a \in Nat /\ b \in Nat /\ c \in Nat /\ d \in Nat /\ b < n
    BY <1>1 DEF Vertices
  <2> HIDE DEF n
  <2>2. (c - a - 1) * n \in Nat
    BY <1>1, <2>1
  <2>3. c * n = (c - a - 1) * n + a * n + n
    BY <1>1, <2>1
  <2>4. a * n \in Nat /\ c * n \in Nat
    BY <1>1, <2>1
  <2> DEFINE an == a * n
             cn == c * n
             en == (c - a - 1) * n
  <2>5. an \in Nat /\ cn \in Nat /\ en \in Nat /\ an + b = cn + d /\ cn = en + an + n
    BY <1>2, <2>2, <2>3, <2>4
  <2> HIDE DEF an, cn, en
  <2> QED
    BY <1>1, <2>1, <2>5
<1>3. v * n + w = x * n + y
  BY DEF Offset
<1>4. ~(v < x) /\ ~(x < v)
  BY <1>2, <1>3
<1>5. v = x /\ v \in Nat /\ w \in Nat /\ y \in Nat
  BY <1>4, GraphAssumption DEF Vertices
<1>6. v * n \in Nat
  BY <1>1, <1>5
<1> HIDE DEF n
<1> QED
  BY <1>3, <1>5, <1>6

LEMMA OffsetInMatrix ==
  ASSUME NEW v \in Vertices, NEW w \in Vertices
  PROVE  Offset(v, w) \in 0 .. graph_max_vertices * graph_max_vertices - 1
<1> DEFINE n == graph_max_vertices
<1>1. n \in Nat \ {0} /\ v \in Nat /\ w \in Nat /\ v <= n - 1 /\ w < n
  BY GraphAssumption DEF Vertices
<1> HIDE DEF n
<1>2. v * n \in Nat /\ (n - 1 - v) * n \in Nat
  BY <1>1
<1>3. n * n = (n - 1 - v) * n + v * n + n
  BY <1>1
<1> DEFINE vn == v * n
           nn == n * n
           rn == (n - 1 - v) * n
<1>4. vn \in Nat /\ rn \in Nat /\ nn = rn + vn + n
  BY <1>2, <1>3
<1> HIDE DEF vn, nn, rn
<1>5. vn + w \in 0 .. nn - 1
  BY <1>1, <1>4
<1> QED
  BY <1>5 DEF vn, nn, n, Offset

LEMMA SamePrinted ==
  ASSUME Types, printed # <<>>
  PROVE  /\ GS!Printed = visited
         /\ \A v : GS!Left(v) = Left(v)
         /\ GS!Open = {k \in 1 .. Len(printed) : Left(printed[k]) # {}}
<1>1. GS!Printed = visited
  BY DEF GS!Printed, Types, TypeOK
<1>2. \A v : GS!Left(v) = Left(v)
  BY <1>1 DEF GS!Left, Left
<1>3. DOMAIN printed = 1 .. Len(printed)
  BY Known, LenProperties
<1> QED
  BY <1>1, <1>2, <1>3 DEF GS!Open

(* The step prints the neighbour v of the k-th vertex that the textbook    *)
(* would print.                                                            *)
LEMMA PrintsNext ==
  ASSUME Types, printed # <<>>, NEW k \in 1 .. Len(printed), NEW v \in Left(printed[k]),
         UNCHANGED <<graph_data, search>>, printed' = Append(printed, v),
         \/ /\ search = "bfs"
            /\ \A j \in 1 .. Len(printed) : Left(printed[j]) # {} => k <= j
            /\ \A w \in Left(printed[k]) : v <= w
         \/ /\ search = "dfs"
            /\ \A j \in 1 .. Len(printed) : Left(printed[j]) # {} => k >= j
            /\ \A w \in Left(printed[k]) : v >= w
  PROVE  GS!PrintNext
<1>1. Edges' = Edges
  BY DEF Edges, GetWeight
<1>2. k \in GS!Open /\ v \in GS!Left(printed[k])
  BY SamePrinted
<1>3. printed' # <<>>
  <2>1. v \in Vertices
    BY DEF Left
  <2> QED
    BY <2>1, Known, AppendProperties
<1>4. GS!BreadthFirst(k, v) \/ GS!DepthFirst(k, v)
  BY SamePrinted DEF GS!BreadthFirst, GS!DepthFirst
<1> QED
  BY <1>1, <1>2, <1>3, <1>4 DEF GS!PrintNext

LEMMA VisitRefines ==
  ASSUME Types, Orderly, Visit, printed # <<>>, data' \notin visited
  PROVE  GS!PrintNext
<1> DEFINE n == Len(Items)
           m == Len(printed)
           S == {j \in 1 .. m : <<printed[j], data'>> \in Edges}
<1>1. Going /\ pc = "loop" /\ m \in Nat
  BY Known DEF Visit, Orderly, Starting
<1>2. graph_data' = graph_data /\ printed' = Append(printed, data')
  BY DEF Visit
<1>3. /\ search \in {"bfs", "dfs"} /\ search' = search
      /\ data' \in Vertices /\ n \in Nat \ {0} /\ 1 \in 1 .. n /\ n \in 1 .. n
      /\ search = "bfs" => data' = Items[1]
      /\ search = "dfs" => data' = Items[n]
  BY TakeKeepsOrder
<1>4. S # {} /\ S \in SUBSET (1 .. m) /\ S \in SUBSET Nat
  BY <1>1, <1>3 DEF Going, Parents
<1>5. \A j \in S : data' \in Left(printed[j])
  BY <1>3 DEF Left
<1>6. data' \in Nat /\ \A v : \A w \in Left(v) : w \in Nat
  BY <1>3, GraphAssumption DEF Left, Vertices
<1>7. CASE search = "bfs"
  <2>1. PICK k \in S : \A j \in S : k <= j
    <3> HIDE DEF S
    <3> QED
      BY <1>4, LeastNatural
  <2>2. ASSUME NEW j \in 1 .. m, NEW u \in Left(printed[j]), Sooner(j, u, data')
        PROVE  FALSE
    <3>1. Items[1] \notin visited /\ Sooner(j, u, Items[1])
      BY <1>3, <1>7, <2>2
    <3>2. \E r \in 1 .. 1 - 1 : Items[r] = u
      BY <1>1, <1>3, <1>7, <3>1 DEF Going, BreadthOrder
    <3> QED
      BY <3>2
  <2>3. ASSUME NEW j \in 1 .. m, Left(printed[j]) # {} PROVE k <= j
    <3> SUFFICES ASSUME j < k PROVE FALSE
      BY <1>1, <1>4, <2>1
    <3>1. PICK u \in Left(printed[j]) : TRUE
      BY <2>3
    <3>2. Sooner(j, u, data')
      BY <1>1, <1>4, <2>1 DEF Sooner
    <3> QED
      BY <2>2, <3>2
  <2>4. ASSUME NEW w \in Left(printed[k]) PROVE data' <= w
    <3> SUFFICES ASSUME w < data' PROVE FALSE
      BY <1>6
    <3>1. Sooner(k, w, data')
      BY <2>1 DEF Sooner
    <3> QED
      BY <2>1, <2>2, <3>1
  <2>5. k \in 1 .. m /\ data' \in Left(printed[k])
    BY <1>5, <2>1
  <2> QED
    BY <1>2, <1>3, <1>7, <2>3, <2>4, <2>5, PrintsNext
<1>8. CASE search = "dfs"
  <2>1. PICK k \in S : \A j \in S : k >= j
    <3> HIDE DEF S
    <3> QED
      BY <1>1, <1>4, GreatestUpTo
  <2>2. ASSUME NEW j \in 1 .. m, NEW u \in Left(printed[j]), Nearer(j, u, data')
        PROVE  FALSE
    <3>1. Items[n] \notin visited /\ Nearer(j, u, Items[n])
      BY <1>3, <1>8, <2>2
    <3>2. \E r \in n + 1 .. n : Items[r] = u
      BY <1>1, <1>3, <1>8, <3>1 DEF Going, DepthOrder, Pending
    <3> QED
      BY <1>3, <3>2
  <2>3. ASSUME NEW j \in 1 .. m, Left(printed[j]) # {} PROVE k >= j
    <3> SUFFICES ASSUME j > k PROVE FALSE
      BY <1>1, <1>4, <2>1
    <3>1. PICK u \in Left(printed[j]) : TRUE
      BY <2>3
    <3>2. Nearer(j, u, data')
      BY <1>1, <1>4, <2>1 DEF Nearer
    <3> QED
      BY <2>2, <3>2
  <2>4. ASSUME NEW w \in Left(printed[k]) PROVE data' >= w
    <3> SUFFICES ASSUME w > data' PROVE FALSE
      BY <1>6
    <3>1. Nearer(k, w, data')
      BY <2>1 DEF Nearer
    <3> QED
      BY <2>1, <2>2, <3>1
  <2>5. k \in 1 .. m /\ data' \in Left(printed[k])
    BY <1>5, <2>1
  <2> QED
    BY <1>2, <1>3, <1>8, <2>3, <2>4, <2>5, PrintsNext
<1> QED
  BY <1>3, <1>7, <1>8

LEMMA InsertRefines ==
  ASSUME Types, NEW v, NEW w, NEW weight \in Weights, Insert(v, w, weight)
  PROVE  GS!Next \/ UNCHANGED GS!vars
<1>1. /\ pc = "caller" /\ pc' = "caller" /\ search = "none"
      /\ UNCHANGED <<search, printed, start_vertex>>
  BY DEF Insert, Types, TypeOK
<1>2. CASE Valid(v, w, weight)
  <2>1. v \in Vertices /\ w \in Vertices /\ weight # GRAPH_INVALID_WEIGHT
    BY <1>2 DEF Valid
  <2>2. /\ graph_data' = [graph_data EXCEPT ![Offset(v, w)] = weight]
        /\ graph_data \in [0 .. graph_max_vertices * graph_max_vertices - 1 ->
                              Weights \cup {GRAPH_INVALID_WEIGHT}]
    BY <1>2 DEF Insert, Types, TypeOK
  <2>3. ASSUME NEW x \in Vertices, NEW y \in Vertices
        PROVE  GetWeight(x, y)' = IF <<x, y>> = <<v, w>> THEN weight ELSE GetWeight(x, y)
    <3>1. Offset(x, y) \in DOMAIN graph_data
      BY <2>2, OffsetInMatrix
    <3>2. Offset(x, y) = Offset(v, w) => x = v /\ y = w
      BY <2>1, OffsetsDiffer
    <3> QED
      BY <2>2, <3>1, <3>2 DEF GetWeight
  <2>4. Edges' = Edges \cup {<<v, w>>}
    BY <2>1, <2>3 DEF Edges
  <2>5. GS!AddEdge(v, w)
    BY <1>1, <2>4 DEF GS!AddEdge
  <2> QED
    BY <2>1, <2>5 DEF GS!Next
<1>3. CASE ~Valid(v, w, weight)
  <2>1. graph_data' = graph_data
    BY <1>3 DEF Insert
  <2>2. Edges' = Edges
    BY <2>1 DEF Edges, GetWeight
  <2> QED
    BY <1>1, <2>2 DEF GS!vars
<1> QED
  BY <1>2, <1>3

LEMMA ReturnRefines ==
  ASSUME Types, Orderly, Return
  PROVE  GS!End
<1>1. Items = <<>> /\ search \in {"bfs", "dfs"} /\ pc = "loop"
  BY WaitingItems DEF Return, Types, TypeOK, Buffers
<1>2. Going
  BY <1>1 DEF Orderly, Starting
<1>3. 1 .. Len(Items) = {}
  BY <1>1
<1>4. GS!Open = {}
  <2>1. \A k \in 1 .. Len(printed) : Left(printed[k]) = {}
    BY <1>1, <1>2, <1>3 DEF Going, Complete, Pending
  <2> QED
    BY <1>2, <2>1, SamePrinted DEF Going
<1>5. Edges' = Edges
  BY DEF Return, Edges, GetWeight
<1> QED
  BY <1>1, <1>4, <1>5 DEF Return, GS!End

LEMMA SearchStepRefines ==
  Types /\ Orderly /\ [Next]_vars => [GS!Next]_(GS!vars)
<1> SUFFICES ASSUME Types, Orderly, [Next]_vars
             PROVE  GS!Next \/ UNCHANGED GS!vars
  BY DEF GS!vars
<1>1. ASSUME NEW v, NEW w, NEW weight \in Weights, Insert(v, w, weight)
      PROVE  GS!Next \/ UNCHANGED GS!vars
  BY <1>1, InsertRefines
<1>2. ASSUME NEW kind \in {"bfs", "dfs"}, NEW v \in Vertices, Call(kind, v)
      PROVE  GS!Next \/ UNCHANGED GS!vars
  <2>1. Len(printed) \in Nat /\ visited = {}
    BY <1>2, Known DEF Call, Types, TypeOK
  <2>2. printed = <<>>
    BY <2>1, Known, EmptySeq
  <2>3. Edges' = Edges
    BY <1>2 DEF Call, Edges, GetWeight
  <2>4. GS!Begin(kind, v)
    BY <1>2, <2>2, <2>3 DEF Call, GS!Begin, Types, TypeOK
  <2> QED
    BY <2>4 DEF GS!Next
<1>3. ASSUME PutStart \/ PutNeighbour \/ NeighboursDone
      PROVE  UNCHANGED GS!vars
  <2>1. UNCHANGED <<graph_data, search, printed, start_vertex>> /\ pc # "caller" /\ pc' # "caller"
    BY <1>3 DEF PutStart, PutNeighbour, NeighboursDone, OrAbort
  <2>2. Edges' = Edges
    BY <2>1 DEF Edges, GetWeight
  <2> QED
    BY <2>1, <2>2 DEF GS!vars
<1>4. ASSUME Visit
      PROVE  GS!Next \/ UNCHANGED GS!vars
  <2>1. /\ UNCHANGED <<graph_data, search, start_vertex>> /\ pc # "caller" /\ pc' # "caller"
    BY <1>4 DEF Visit
  <2>2. Edges' = Edges
    BY <2>1 DEF Edges, GetWeight
  <2>3. CASE printed = <<>>
    <3>1. printed' = <<start_vertex>>
      BY <1>4, <2>3, VisitStart
    <3> QED
      BY <2>1, <2>2, <2>3, <3>1 DEF GS!vars
  <2>4. CASE printed # <<>> /\ data' \in visited
    <3>1. printed' = printed
      BY <1>4, <2>4 DEF Visit
    <3> QED
      BY <2>1, <2>2, <3>1 DEF GS!vars
  <2>5. CASE printed # <<>> /\ data' \notin visited
    BY <1>4, <2>5, VisitRefines DEF GS!Next
  <2> QED
    BY <2>3, <2>4, <2>5
<1>5. ASSUME Return
      PROVE  GS!Next
  BY <1>5, ReturnRefines DEF GS!Next
<1>6. ASSUME UNCHANGED vars
      PROVE  UNCHANGED GS!vars
  BY <1>6 DEF vars, GS!vars, Edges, GetWeight
<1> QED
  BY <1>1, <1>2, <1>3, <1>4, <1>5, <1>6 DEF Next, Step

LEMMA SearchInitRefines == Init => GS!Init
<1> SUFFICES ASSUME Init PROVE GS!Init
  OBVIOUS
<1>1. ASSUME NEW v \in Vertices, NEW w \in Vertices
      PROVE  GetWeight(v, w) = GRAPH_INVALID_WEIGHT
  BY OffsetInMatrix DEF Init, GetWeight
<1>2. Edges = {}
  BY <1>1 DEF Edges
<1> QED
  BY <1>2 DEF Init, GS!Init

(* Breadth first or depth first, for every graph and all capacities: the   *)
(* vertices are printed in the order of the textbook, as far as the        *)
(* traversal comes before a full queue or stack aborts it.                 *)
THEOREM GraphRefinesGraphSearch == Spec => ImplementsGraphSearch
BY InitTypes, NextTypes, InitOrderly, NextOrderly, SearchInitRefines, SearchStepRefines, PTL
DEF Spec, GS!Spec, ImplementsGraphSearch
=============================================================================
