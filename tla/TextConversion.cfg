SPECIFICATION TextSpec
CONSTANTS
  CodePoints <- BoundaryPoints
  MaxLength = 3
INVARIANTS
  Latin1RoundTrip
  PastedAsLatin1
  TextAccepted
CHECK_DEADLOCK FALSE
