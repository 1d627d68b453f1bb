SPECIFICATION PageSpec
CONSTANTS
  Contents = {c1, c2}
  Parents = {r1}
  MaxTyped = 1
  MaxFlight = 1
  MaxRequests = 2
  Empty = empty
INVARIANT SavesKeepComments
CHECK_DEADLOCK FALSE
