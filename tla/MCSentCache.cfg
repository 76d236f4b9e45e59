SPECIFICATION FairSpec
CONSTANTS
  x = x
  y = y
  TraceID = {x, y}
  KeptSizes = {1, 2}
  DroppedSizes = {2}
  AddQueueDepth = 1
  TTL = 2
  Reloads = 2
INVARIANTS
  QueuedDropsVisible
PROPERTIES
  DropRecordsPersist
  ResizeKeepsNewest
  ResizeCompletes
