SPECIFICATION PathsSpec
CONSTANTS
  Keys = {1, 2}
  MaxNumber = 3
  Titles = {t1}
  BadTitle = badTitle
  Descriptions = {d1}
  CommentIds = {x1}
  Bodies = {b1}
  BadBody = badBody
  Times = {1, 2}
  NoRef = noRef
  NoDoc = noDoc
  Unset = unset
  Pagers = {p1}
  PageSize = 1
  NoFilter = noFilter
  NoCursor = noCursor
  Offered <- JumpsAndMoves
  Readers = {r1}
  Writes <- Growth
  Wanted <- ReadsOfOne
INVARIANTS
  ReadsComplete
  HierarchyNeverBlamed
  SteadyListedOnce
  RelationsHold
