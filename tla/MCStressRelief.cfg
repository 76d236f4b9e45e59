SPECIFICATION FairStressSpec
CONSTANTS
  Node = {n1, n2}
  Level = {0, 3, 4}
  Configs <- Reloaded
  InitialConfig <- FirstConfig
  MaxDuration = 1
  ReportTicks = 1
  PeerTimeout = 1
  MaxChanges = 2
  MaxFaults = 1
  MaxInFlight = 2
INVARIANT NoFalseAlarm
PROPERTIES
  CalmBeforeDeactivation
  StressEnds
  StressHeard
