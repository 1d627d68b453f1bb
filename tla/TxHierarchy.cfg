SPECIFICATION Spec
CONSTANTS
  Keys = {k1}
  MaxNumber = 4
  Titles = {t1}
  BadTitle = badTitle
  Descriptions = {d1}
  CommentIds = {}
  Bodies = {b1}
  BadBody = badBody
  Times = {1}
  NoRef = noRef
  NoDoc = noDoc
  Unset = unset
  Clients = {c1, c2}
  MaxAttempts = 2
  MaxRevision = 1
  Offered <- RingRequests
PROPERTIES
  Atomic
  EveryCallAnswered
