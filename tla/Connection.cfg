SPECIFICATION FairSpec
CONSTANTS
  MaxFaults = 2
  MaxBuffers = 2
INVARIANTS
  TypeOK
  InStep
PROPERTIES
  RecoversInTurn
  InputFlows
CHECK_DEADLOCK FALSE
