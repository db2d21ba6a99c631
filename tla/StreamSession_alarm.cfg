CONSTANTS
  Timings <- OnlyLateInput
SPECIFICATION Spec
INVARIANTS AlarmOnlyWhileConnected
CHECK_DEADLOCK FALSE
