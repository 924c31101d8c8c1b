\* Seven keys inserted, inserted again, deleted and destroyed in any order;
\* eight keys inserted into rb_tree.
SPECIFICATION TreesSpec
CONSTANTS
  Keys = {1, 2, 3, 4, 5, 6, 7, 8}
  FewKeys = {1, 2, 3, 4, 5, 6, 7}
  Nodes = {n1, n2, n3, n4, n5, n6, n7, n8}
  NULL = NULL
VIEW View
INVARIANTS TypeOK AvlSound WellLinked ValidColors
PROPERTIES AvlKeepsBalance OneKeyAtATime
CHECK_DEADLOCK FALSE
