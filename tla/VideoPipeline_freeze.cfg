CONSTANTS
  NUM_BUFFERS = 4
  Word = 16
  NoFrame = NoFrame
  Torn = Torn
SPECIFICATION Spec
PROPERTIES SkipsOnlyOldFrames
