CONSTANTS
  u1 = u1
  u2 = u2
  u3 = u3
  d1 = d1
  shot = shot
  plan = plan
  orphan = orphan
  Uploads <- MCUploads
  Downloads <- MCDownloads
  Keys <- MCKeys
  Orphans <- MCOrphans
  Sides = {0, 1, 2, 13, 999, 1000, 1200, 1201, 1250, 9000, 12000, 12001}
  MaxSide = 12000
  MaxPixels = 12000000
  StoredEdge = 1200
  Qualities = 5
SPECIFICATION AssetsSpec
INVARIANTS
  NoBlindReplacement
  AnswersAreTrue
  BodyMatchesMetadata
  StoredWithinBounds
PROPERTIES
  EveryUploadAnswered
  EncodingEnds
CHECK_DEADLOCK FALSE
