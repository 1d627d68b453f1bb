SPECIFICATION Spec
CONSTANTS
  Keys = {k1}
  MaxNumber = 2
  Titles = {t1, t2}
  BadTitle = badTitle
  Descriptions = {d1}
  CommentIds = {x1, x2}
  Bodies = {b1, b2}
  BadBody = badBody
  Times = {1, 2}
  NoRef = noRef
  NoDoc = noDoc
  Unset = unset
  Clients = {c1, c2}
  MaxAttempts = 2
  MaxRevision = 3
  Offered <- EditRequests
INVARIANTS
  AcknowledgedKept
  FenceHolds
PROPERTIES
  Atomic
