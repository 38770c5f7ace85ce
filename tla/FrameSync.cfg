SPECIFICATION FairSpec
CONSTANTS
  MaxDraws = 1
  MaxMoves = 1
  MaxCursors = 1
  MaxResizes = 1
  MaxWindows = 1
  MaxUpdates = 3
INVARIANTS
  TypeOK
  NoLostUpdate
  DrawnBufferHeld
PROPERTIES
  CatchesUp
