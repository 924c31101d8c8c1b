---------------------------- MODULE GraphSearch ----------------------------
(***************************************************************************)
(* What a traversal of a directed graph promises: starting with one        *)
(* vertex, it prints vertices that edges lead to from printed ones until   *)
(* there are no others.  Breadth first, the next vertex is the first       *)
(* neighbour left of the vertex printed earliest that has one left; depth  *)
(* first, the last neighbour left of the vertex printed latest that has    *)
(* one left.  Edges may be added between traversals.                       *)
(***************************************************************************)
EXTENDS Integers, Sequences

CONSTANT Vertices   (* integers                                             *)

VARIABLES
  edges,    (* the pairs of vertices with an edge                          *)
  search,   (* "none", or the kind of the traversal that is under way      *)
  printed   (* the vertices it has printed, the one it started with first  *)

vars == <<edges, search, printed>>

Printed == {printed[k] : k \in DOMAIN printed}

(* The neighbours of v that are not printed yet, and the positions of the  *)
(* printed vertices that have some.                                        *)
Left(v) == {w \in Vertices : <<v, w>> \in edges /\ w \notin Printed}
Open == {k \in DOMAIN printed : Left(printed[k]) # {}}

-----------------------------------------------------------------------------
Init ==
  /\ edges = {}
  /\ search = "none"
  /\ printed = <<>>

AddEdge(v, w) ==
  /\ search = "none"
  /\ edges' = edges \cup {<<v, w>>}
  /\ UNCHANGED <<search, printed>>

Begin(kind, v) ==
  /\ search = "none"
  /\ search' = kind
  /\ printed' = <<v>>
  /\ UNCHANGED edges

BreadthFirst(k, v) ==
  /\ search = "bfs"
  /\ \A j \in Open : k <= j
  /\ \A w \in Left(printed[k]) : v <= w

DepthFirst(k, v) ==
  /\ search = "dfs"
  /\ \A j \in Open : k >= j
  /\ \A w \in Left(printed[k]) : v >= w

PrintNext ==
  \E k \in Open : \E v \in Left(printed[k]) :
    /\ BreadthFirst(k, v) \/ DepthFirst(k, v)
    /\ printed' = Append(printed, v)
    /\ UNCHANGED <<edges, search>>

End ==
  /\ search # "none"
  /\ Open = {}
  /\ search' = "none"
  /\ printed' = <<>>
  /\ UNCHANGED edges

Next ==
  \/ \E v, w \in Vertices : AddEdge(v, w)
  \/ \E kind \in {"bfs", "dfs"}, v \in Vertices : Begin(kind, v)
  \/ PrintNext
  \/ End

Spec == Init /\ [][Next]_vars
=============================================================================
