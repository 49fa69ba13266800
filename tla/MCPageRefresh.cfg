CONSTANTS
  c1 = c1
  Client = {c1}
  ClientTimeout = 2
  RefreshSeconds = 3
  WordSize = 16
  MaxLength = 1
  MaxQueued = 2
  MaxTime = 4
  NoVideo = NoVideo
SPECIFICATION Spec
INVARIANT
  RefreshesAfterEnd
