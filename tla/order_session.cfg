SPECIFICATION Spec
CONSTANTS
  Exchange = "BYBIT"
  BasicOrders = {"order1"}
  OcoGroups = {"oco1"}
  MaxActions = 3
  Slots <- SessionSlots
INVARIANT ShownEndIsTrue
PROPERTIES ShownEndIsFinal ActionsEnd
CHECK_DEADLOCK FALSE
