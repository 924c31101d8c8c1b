\* Leaves of six items, the least for which a merge of leaves moves items of
\* both (a leaf rebalances from two items on).  The test: sixteen keys, the
\* least for a tree of three levels.  Any order: two leaves under a root, and
\* a crash in one of the operations.
SPECIFICATION MCSpec
CONSTANTS
  Keys = {1,2,3,4,5,6,7,8,9,10,11,12,13,14,15,16}
  Kept = {2,8,15}
  FewKeys = {1,2,3,4,5,6,7}
  NodeIds = {101,102,103,104,105,106,107,108,109,110}
  FewNodes = 3
  MAX_ITEMS = 6
  MAX_KEYS = 3
  MaxCrashes = 1
VIEW View
INVARIANT TypeOK
PROPERTIES BalanceKept OneKeyAtATime
CHECK_DEADLOCK FALSE
