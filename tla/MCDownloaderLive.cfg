CONSTANTS
  a = a
  b = b
  Url = {a, b}
  w1 = w1
  w2 = w2
  Worker = {w1, w2}
  Canonical <- Aliased
  MaxMediaId = 3
  MaxPlaylistId = 3
  MaxHistoryId = 1
  MaxTime = 0
  MaxSkips = 0
  MaxRequests = 3
  MaxStarts = 2
  EarlyRequests = FALSE
  NoItem = NoItem
  NoMedia = NoMedia
SPECIFICATION FairSpec
INVARIANTS
  PendingIsOwned
PROPERTIES
  Settles
  Answered
  ShutdownCompletes
