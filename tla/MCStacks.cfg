\* Four slots; three payloads.
SPECIFICATION MCSpec
CONSTANTS
  Data <- MCData
  Payloads <- MCPayloads
  Inputs <- MCInputs
  NoData = NoData
  STACK_MAX_ITEMS = 4
INVARIANTS TypeOK NodesKept ReversesAndSorts MinOnTop AnswersRight
PROPERTIES ImplementsBoundedStack CallsReturn
CHECK_DEADLOCK FALSE
