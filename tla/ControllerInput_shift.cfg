CONSTANTS
  Channels = 2
  MaxControllers = 2
  HOLD = 1
SPECIFICATION Spec
PROPERTIES HomeStopNeedsHold
