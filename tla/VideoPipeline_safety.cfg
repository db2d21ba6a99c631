CONSTANTS
  NUM_BUFFERS = 4
  Word = 16
  NoFrame = NoFrame
  Torn = Torn
SPECIFICATION FairSpec
INVARIANTS TypeOK QueueBounded Accounting QueueConsecutive
PROPERTIES FrozenAfterDrops OvertakenByOneAtMost ImplementsQueue FrameLeavesQueue
