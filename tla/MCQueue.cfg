\* Four slots and two payloads; two queues of three slots.
SPECIFICATION MCSpec
CONSTANTS
  Data = {d1, d2}
  NoData = NoData
  QUEUE_MAX_ITEMS = 4
  STACK_QUEUE_ITEMS = 3
INVARIANTS TypeOK CompactionNeverAsserts
PROPERTIES DequeuedNodesKept ImplementsBoundedQueue QueuesImplementBoundedStack PopReturns
CHECK_DEADLOCK FALSE
