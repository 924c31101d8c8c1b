\* All graphs of four vertices, a queue and a stack of four slots, which are
\* the least that are always enough.
SPECIFICATION MCSpec
CONSTANTS
  graph_max_vertices = 4
  Weights = {0, 1}
  Starts = {0, 2}
  NoData = NoData
  QUEUE_MAX_ITEMS = 4
  STACK_MAX_ITEMS = 4
INVARIANT TypeOK
PROPERTIES PrintsReachable ImplementsGraphSearch TraversalReturns
CHECK_DEADLOCK FALSE
