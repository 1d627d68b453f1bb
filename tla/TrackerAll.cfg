SPECIFICATION Spec
CONSTANTS
  Keys = {k1}
  MaxNumber = 3
  Titles = {t1}
  BadTitle = badTitle
  Descriptions = {d1, d2}
  CommentIds = {x1, x2}
  Bodies = {b1, b2}
  BadBody = badBody
  Times = {1, 2}
  NoRef = noRef
  NoDoc = noDoc
  Unset = unset
  Clients = {c1}
  Offered <- AllRequests
INVARIANTS
  AllocatorDense
  Forest
  StoredValid
  RepeatsChangeNothing
SYMMETRY Interchangeable
