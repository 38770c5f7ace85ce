CONSTANTS
  Fingers <- TwoFingers
  Keys <- TwoKeys
  MaxOps = 5
  MaxBacklog = 0
  MaxDrops = 1
SPECIFICATION Spec
INVARIANTS TypeOK TouchesMatch ButtonsLetGo StylusMatches TapHasPoint KeysLetGo
CHECK_DEADLOCK FALSE
