CONSTANTS
  a = a
  b = b
  Url = {a, b}
  Client = {}
  MaxMediaId = 2
  MaxPlaylistId = 2
  MaxHistoryId = 2
  MaxTime = 1
  MaxSkips = 1
  MaxRequests = 0
  MaxUpdates = 1
  MaxSignals = 1
  MaxCrashes = 1
  NoItem = NoItem
  Nothing = Nothing
SPECIFICATION FairSpec
PROPERTIES
  ReadyGetsPlayed
  SignalStops
  ShownInOrder
