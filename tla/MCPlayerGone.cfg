CONSTANTS
  a = a
  b = b
  Url = {a, b}
  w1 = w1
  w2 = w2
  Worker = {w1, w2}
  Canonical <- Aliased
  MaxMediaId = 3
  MaxPlaylistId = 2
  MaxHistoryId = 1
  MaxTime = 0
  MaxSkips = 0
  MaxRequests = 3
  MaxStarts = 1
  EarlyRequests = FALSE
  NoItem = NoItem
  Nothing = Nothing
  NoMedia = NoMedia
SPECIFICATION Spec
SYMMETRY Symmetry
INVARIANTS
  PlayerStillThere
