\* As MCBST.cfg; the property is what bst.c says of its deletion.
SPECIFICATION Spec
CONSTANTS
  Keys = {1, 2, 3, 4}
  Nodes = {n1, n2, n3, n4}
  NULL = NULL
SYMMETRY Symmetry
PROPERTY DeletionKeepsOtherKeys
CHECK_DEADLOCK FALSE
