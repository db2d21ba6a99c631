CONSTANTS
  Timings <- LateThreads
  NUM_BUFFERS = 2
  Word = 10
  NoFrame = NoFrame
  Torn = Torn
SPECIFICATION MoonSpec
PROPERTIES DrawsLiveFrames
CHECK_DEADLOCK FALSE
