CONSTANTS
  c1 = c1
  c2 = c2
  Client = {c1, c2}
  ClientTimeout = 1
  RefreshSeconds = 3
  WordSize = 16
  MaxLength = 1
  MaxQueued = 3
  MaxTime = 3
  NoVideo = NoVideo
SPECIFICATION Spec
SYMMETRY Symmetry
INVARIANTS
  WebServerTypeOK
  RecentCount
  SilentDoNotCount
  ShownOnce
  BackToBack
