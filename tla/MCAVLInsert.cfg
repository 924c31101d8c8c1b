\* Three keys are enough for a right left case.
SPECIFICATION Spec
CONSTANTS
  Keys = {1, 2, 3}
  Nodes = {n1, n2, n3}
  NULL = NULL
PROPERTY InsertReturnsSane
CHECK_DEADLOCK FALSE
