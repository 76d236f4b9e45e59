SPECIFICATION FairSpec
CONSTANTS
  n1 = n1
  n2 = n2
  t = t
  a1 = a1
  a2 = a2
  a3 = a3
  b = b
  r1 = r1
  r2 = r2
  k1 = k1
  k2 = k2
  sk = sk
  Node = {n1, n2}
  Event = {a1, a2, a3, b}
  Copy = {b}
  Trace = {t}
  NoTrace = NoTrace
  TraceOf <- MCTraceOf
  Request = {r1, r2}
  Body <- MCBody
  Forms <- MCForms
  Key = {Blank, k1, k2, sk}
  Blank = Blank
  Legacy = {k2}
  AccessKeys <- MCAccessKeys
  PartitionCount = 2
  Hash <- MCHash
  QueueSize = 1
  MaxFaults = 2
INVARIANTS
  EventsConserved
  PeersAcceptForwarded
  TraceGathered
PROPERTIES
  EveryEventSettled
CHECK_DEADLOCK FALSE
