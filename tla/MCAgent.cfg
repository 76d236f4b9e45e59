SPECIFICATION AgentSpec
CONSTANTS
  traces = traces
  h1 = h1
  h2 = h2
  h3 = h3
  h4 = h4
  NoHash = NoHash
  Signal = {traces}
  RemoteConfig <- MCRemoteConfig
  MaxUsage = 3
  MaxFailures = 2
INVARIANTS
  UsageExact
  AppliedIsInstalled
