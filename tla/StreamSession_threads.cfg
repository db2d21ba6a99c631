CONSTANTS
  Timings <- AllButOne
SPECIFICATION FairSpec
INVARIANTS TypeOK ConnectionOwned HomeOnlyInMenus PromptAlarm MessageColour
PROPERTIES NoSecondThread StopCompletes LostConnectionStops ImplementsLifecycle
CHECK_DEADLOCK FALSE
