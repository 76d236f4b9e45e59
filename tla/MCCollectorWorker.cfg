SPECIFICATION FairSpec
CONSTANTS
  t1 = t1
  t2 = t2
  a1 = a1
  a2 = a2
  b1 = b1
  TraceID <- MCTraceID
  Span <- MCSpan
  TraceOf <- MCTraceOf
  Root <- MCRoot
  IncomingSize = 1
  PeerSize = 1
  OutgoingSize = 1
  TraceTimeout = 2
  SendDelay = 1
  SpanLimit = 1
  MaxExpiredTraces = 1
  EvictBytes = {1}
  DryRun = FALSE
  StressKeep <- MCStressKeep
  StressPossible = TRUE
  Forgetful = TRUE
  StopPossible = TRUE
INVARIANTS
  CacheCoherent
  NoSentTraceCached
  SpansConserved
  DeadlinesHonoured
  WholeTraceVerdict
PROPERTIES
  EverySpanSettled
  NoSecondDecision
CHECK_DEADLOCK FALSE
