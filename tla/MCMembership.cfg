SPECIFICATION FairSpec
CONSTANTS
  Id = {"a", "b"}
  Self = "a"
  Address = {"a", "b"}
  AddrOf <- MCAddrOf
  NoAddress = "none"
  TTL = 3
  Interval = {1}
  MaxDelay = 1
  MaxLosses = 1
  Handlers = 1
  Loads = 2
  MaxTries = 1
INVARIANTS LiveStaysListed DepartedExpires
PROPERTY Converges
CHECK_DEADLOCK FALSE
