SPECIFICATION Spec
CONSTANTS
  Slots = {"load", "liveStart"}
  StreamCallers = {"starter", "interface"}
  NoOne = "nobody"
  Assets = {"BTC"}
  MaxChanges = 1
  MaxRefreshes = 1
  MaxBacklog = 0
INVARIANT ViewIsCurrent
PROPERTIES LiveUpdatesReturn ShutdownLeavesNoStream
CHECK_DEADLOCK FALSE
