CONSTANTS
  limit = limit
  url = url
  region = region
  v1 = v1
  v2 = v2
  Unset = Unset
  Fields <- MCFields
  Values <- MCValues
  Required <- MCRequired
  Restart <- MCRestart
  Defaults <- MCDefaults
  Given <- MCGiven
  ValidConfigs <- MCValidConfigs
  Documents <- MCDocuments
  Extensions <- MCExtensions
  Creators = {c1}
  Reloaders = {r1, r2}
  MaxEdits = 3
  Calls = {q1, q2}
SPECIFICATION ProcessSpec
INVARIANTS
  PrecedenceHolds
  ChangesReported
  NothingLeaked
PROPERTIES
  NeverStale
  SignalEnds
CHECK_DEADLOCK FALSE
