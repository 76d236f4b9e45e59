SPECIFICATION SamplingSpec
CONSTANTS
  w1 = w1
  w2 = w2
  Worker = {w1, w2}
  NilText = 3
  EmptyText = 0
  IntText <- MCIntText
  MaxKeyLength = 3
  File <- Unsorted
  Traces = {}
  ConfigMeta <- MCConfigMeta
  RulesMeta <- MCRulesMeta
  Parses <- MCParses
  Quantity <- MCQuantity
  Env <- MCEnv
  Option <- MCOption
  ProgramVersion = 26
  Configs = {}
  MaxPeers = 2
  MaxPeerChanges = 0
INVARIANTS
  SamplersShared
CHECK_DEADLOCK FALSE
