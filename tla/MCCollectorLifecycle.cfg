SPECIFICATION FairSpec
CONSTANTS
  Worker = {w1, w2}
  QueueSize = 1
  OutgoingSize = 1
  MaxConfig = 1
  MaxSpans = 1
INVARIANTS
  WaitingMetricExact
PROPERTIES
  NothingAfterClose
  StopCompletes
CHECK_DEADLOCK FALSE
