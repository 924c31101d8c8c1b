CONSTANTS
  Keys = {1,2,3,4,5,6,7}
  NodeIds = {101,102,103,104,105,106,107,108,109,110}
  MAX_ITEMS = 2
  MAX_KEYS = 3
SPECIFICATION InsertSpec
INVARIANT InsertedKeysFound
CHECK_DEADLOCK FALSE
