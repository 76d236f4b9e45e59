SPECIFICATION FairSpec
CONSTANTS
  e1 = e1
  e2 = e2
  e3 = e3
  upstream = upstream
  peer = peer
  Event <- MCEvent
  Host <- MCHost
  HostOf <- MCHostOf
  Size <- MCSize
  Peer = peer
  MaxEventSize = 3
  MaxBatchBytes = 3
  MaxBatchSize = 2
  BatchTimeout = 1
  Slot = {j1, j2}
  BadHost = {peer}
  ProbesPossible = TRUE
  StopPossible = TRUE
INVARIANTS
  EventsConserved
  QueuedItemsExact
PROPERTIES
  EveryEventSettled
  StopFlushes
CHECK_DEADLOCK FALSE
