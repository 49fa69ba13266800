CONSTANTS
  u1 = u1
  u2 = u2
  u3 = u3
  Url = {u1, u2, u3}
  MaxMediaId = 3
  MaxPlaylistId = 3
  MaxHistoryId = 1
  MaxTime = 1
  MaxSkips = 0
  NoItem = NoItem
SPECIFICATION DbSpec
SYMMETRY Symmetry
INVARIANTS
  DbTypeOK
  TableConstraints
  PlaylistUnique
PROPERTY NoEntryPushedBack
