\* Up to five nodes with three different data; positions from before the head
\* to two past the longest list's end.
SPECIFICATION MCSpec
CONSTANTS
  Data <- MCData
  Positions <- MCPositions
  Nodes = {n1, n2, n3, n4, n5}
  NULL = NULL
SYMMETRY Symmetry
INVARIANTS TypeOK WellLinked MiddleKept
 
CHECK_DEADLOCK FALSE
