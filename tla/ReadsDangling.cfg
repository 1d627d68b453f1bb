SPECIFICATION ReadsSpec
CONSTANTS
  Titles = {t1}
  BadTitle = badTitle
  Descriptions = {d1}
  Bodies = {b1}
  BadBody = badBody
  Times = {1}
  NoRef = noRef
  NoDoc = noDoc
  Unset = unset
  Readers = {r1}
  Writes <- GrowthRequests
  Keys = {k1}
  MaxNumber = 2
  CommentIds = {x1}
  Wanted <- ListReads
INVARIANTS
  MissingIssueIsMissing
