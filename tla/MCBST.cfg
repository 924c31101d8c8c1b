\* Four keys in four nodes: inserted, inserted again, deleted and destroyed
\* in any order.
SPECIFICATION Spec
CONSTANTS
  Keys = {1, 2, 3, 4}
  Nodes = {n1, n2, n3, n4}
  NULL = NULL
SYMMETRY Symmetry
INVARIANT TypeOK
PROPERTY OneKeyAtATime
CHECK_DEADLOCK FALSE
