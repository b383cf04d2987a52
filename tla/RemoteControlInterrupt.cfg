SPECIFICATION Spec
CONSTANTS
  MaxMessages = 2
  MaxTurns = 2
  Asks = {1}
  MaxDrops = 0
PROPERTY NoToolAfterInterrupt
CHECK_DEADLOCK FALSE
