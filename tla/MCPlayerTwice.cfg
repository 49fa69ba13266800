CONSTANTS
  a = a
  b = b
  c1 = c1
  Url = {a, b}
  Client = {c1}
  MaxMediaId = 2
  MaxPlaylistId = 2
  MaxHistoryId = 2
  MaxTime = 0
  MaxSkips = 2
  MaxRequests = 0
  MaxUpdates = 1
  MaxSignals = 2
  MaxCrashes = 0
  NoItem = NoItem
  Nothing = Nothing
SPECIFICATION Spec
INVARIANTS
  TwiceIsImmediate
