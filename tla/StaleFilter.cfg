SPECIFICATION ListsSpec
CONSTANTS
  Keys = {1, 2}
  Chunk = 2
  LastPage = 2
  MaxLoads = 2
  MaxHistory = 1
  MaxOpened = 1
  Empty = empty
INVARIANT TableMatchesFilter
CHECK_DEADLOCK FALSE
