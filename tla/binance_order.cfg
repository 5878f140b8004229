SPECIFICATION Spec
CONSTANTS
  Waiters = {"w1"}
  Interface = "ui"
  NoOne = "nobody"
  MaxCalls = 2
  Calls <- OrderCalls
PROPERTIES ReportReachesWaiter StopWithSocketEnds
CHECK_DEADLOCK FALSE
