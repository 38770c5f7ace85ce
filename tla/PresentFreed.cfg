SPECIFICATION Spec
CONSTANTS
  p1 = p1
  p2 = p2
  Clients = {p1, p2}
  None = None
  Kinds = {"REGULAR", "HARDWARE"}
  Requests <- Ahead
  Fences = FALSE
  CursorMoves = TRUE
  MaxPresents = 3
  MaxMsc = 4
  MaxResizes = 0
  MaxDrops = 0
INVARIANTS RootUsable
