\* Eight keys inserted into leaves of two items, up to the fourth level; one
\* insertion is interrupted.
SPECIFICATION InsertCrashSpec
CONSTANTS
  Keys = {1,2,3,4,5,6,7,8}
  NodeIds = {101,102,103,104,105,106,107,108,109,110,111,112}
  MAX_ITEMS = 2
  MAX_KEYS = 3
  MaxCrashes = 1
VIEW View
INVARIANTS SearchFindsItems TreeWhole LinksWritten
PROPERTY ImplementsOrderedSet
CHECK_DEADLOCK FALSE
