SPECIFICATION ProbesSpec
CONSTANTS
  collector = collector
  redis = redis
  Subsystem <- MCSubsystem
  Timeout <- MCTimeout
  TickerTime = 2
  Horizon = 8
  HealthCheckInterval = 2
  WatchInterval = 1
INVARIANTS
  DeathOnTime
  HearsayFresh
