SPECIFICATION FairSpec
CONSTANTS
  Server = server
  Renderers = {r1, r2}
  NoOne = none
INVARIANTS
  TypeOK
  MutualExclusion
PROPERTIES
  ImplementsLock
  OrphanReclaimed
CHECK_DEADLOCK FALSE
