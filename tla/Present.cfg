SPECIFICATION Spec
CONSTANTS
  p1 = p1
  p2 = p2
  Clients = {p1, p2}
  None = None
  Kinds = {"REGULAR", "HARDWARE", "FD"}
  Requests <- Ahead
  Fences = TRUE
  CursorMoves = FALSE
  MaxPresents = 2
  MaxMsc = 2
  MaxResizes = 1
  MaxDrops = 1
INVARIANTS TypeOK LocksBalanced NotEarly
SYMMETRY ClientSymmetry
