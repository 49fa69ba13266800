CONSTANTS
  a = a
  b = b
  c1 = c1
  c2 = c2
  c3 = c3
  Url = {a, b}
  Client = {c1, c2, c3}
  MaxMediaId = 2
  MaxPlaylistId = 2
  MaxHistoryId = 2
  MaxTime = 0
  MaxSkips = 4
  MaxRequests = 2
  MaxUpdates = 0
  MaxSignals = 0
  MaxCrashes = 1
  NoItem = NoItem
  Nothing = Nothing
SPECIFICATION Spec
SYMMETRY Symmetry
INVARIANTS
  PlayerTypeOK
  PublishedState
  PublishedIsOpen
  FewOpenRows
PROPERTIES
  ClosedForGood
