CONSTANTS
  MaxTags = 5
  MaxDepth = 4
  MaxText = 3
SPECIFICATION XmlSpec
INVARIANTS SearchFindsAll ListFaithful BlocksOwned
CHECK_DEADLOCK FALSE
