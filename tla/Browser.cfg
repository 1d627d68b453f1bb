SPECIFICATION BrowserSpec
CONSTANTS
  Projects = {p1}
  Issues = {i1, i2}
  MaxEntries = 3
  MaxViews = 4
  Empty = empty
  Keys = {1, 2}
  Chunk = 1
  LastPage = 2
  MaxLoads = 2
  MaxHistory = 2
  MaxOpened = 2
  MaxMounts = 2
  Contents = {c1, c2}
  Parents = {r1}
  MaxTyped = 2
  MaxFlight = 2
  MaxRequests = 3
  Names = {n1, n2}
  MaxWrites = 2
INVARIANTS
  ShownIsAddressed
  RowsFollowCursor
  HistoryLeadsBack
  PageShowsStored
  CommentedOnce
  PreviewsRevoked
  ListShowsStored
  PictureIsFresh
PROPERTIES
  FilterIsKept
  WaitingEnds
CHECK_DEADLOCK FALSE
