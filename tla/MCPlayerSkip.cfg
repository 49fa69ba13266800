CONSTANTS
  a = a
  b = b
  c1 = c1
  c2 = c2
  Url = {a, b}
  Client = {c1, c2}
  MaxMediaId = 2
  MaxPlaylistId = 2
  MaxHistoryId = 2
  MaxTime = 0
  MaxSkips = 3
  MaxRequests = 2
  MaxUpdates = 0
  MaxSignals = 2
  MaxCrashes = 0
  NoItem = NoItem
  Nothing = Nothing
SPECIFICATION Spec
SYMMETRY Symmetry
INVARIANTS
  SkippedWasVoted
