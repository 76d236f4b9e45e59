SPECIFICATION FairSamplingSpec
CONSTANTS
  w1 = w1
  w2 = w2
  Worker = {w1, w2}
  NilText = 3
  EmptyText = 0
  IntText <- MCIntText
  MaxKeyLength = 3
  File <- MCFile
  Traces <- MCTraces
  ConfigMeta <- MCConfigMeta
  RulesMeta <- MCRulesMeta
  Parses <- MCParses
  Quantity <- MCQuantity
  Env <- MCEnv
  Option <- MCOption
  ProgramVersion = 26
  Configs <- MCConfigs
  MaxPeers = 2
  MaxPeerChanges = 1
INVARIANTS
  SamplersShared
  GoalsFollowCluster
  DecidedByReference
  InUseAsWritten
PROPERTY ConfigApplied
CHECK_DEADLOCK FALSE
