CONSTANTS
  Keys = {1, 2, 3}
  NoKey = 0
  HEAP_MAX_SIZE = 7
SPECIFICATION FairSpec
INVARIANTS TypeOK HeapOrder
PROPERTIES ImplementsPriorityQueue OperationsReturn
CHECK_DEADLOCK FALSE
