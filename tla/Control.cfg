SPECIFICATION FairSpec
CONSTANTS
  MaxCalls = 5
  MayCallEarly = FALSE
INVARIANTS
  TypeOK
  ReturnsWhenApplied
  ProxyOnMappedState
PROPERTIES
  CallReturns
CHECK_DEADLOCK FALSE
