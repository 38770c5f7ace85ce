SPECIFICATION FairSpec
CONSTANTS
  MaxFaults = 1
  MaxBuffers = 2
PROPERTIES
  Recovers
CHECK_DEADLOCK FALSE
