SPECIFICATION Spec
CONSTANTS
  Waiters = {"w1"}
  Interface = "ui"
  NoOne = "nobody"
  MaxCalls = 1
  Calls <- OrderCalls
PROPERTY StopEnds
CHECK_DEADLOCK FALSE
