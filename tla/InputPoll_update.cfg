CONSTANTS
  Channels = 2
  MaxControllers = 2
  HOLD = 1
  WIDTH = 2
  TAP_MILLIS = 1
  DRAG_DISTANCE = 1
  Up = Up
  Dragged = Dragged
  NoPull = NoPull
  Scenes = {"pads", "finger"}
SPECIFICATION FairPollSpec
INVARIANTS PollTypeOK NumbersInMask HostAgrees PointerFollows
PROPERTIES SteadyStopNeedsHold HeldHomeStops ClickOrDrag LiftReleases
