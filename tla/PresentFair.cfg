SPECIFICATION FairSpec
CONSTANTS
  p1 = p1
  p2 = p2
  Clients = {p1, p2}
  None = None
  Kinds = {"HARDWARE"}
  Requests <- AtOnce
  Fences = FALSE
  CursorMoves = TRUE
  MaxPresents = 2
  MaxMsc = 2
  MaxResizes = 1
  MaxDrops = 0
PROPERTIES VblanksPerformed FramesShown
