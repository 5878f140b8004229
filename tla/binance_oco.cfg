SPECIFICATION Spec
CONSTANTS
  Waiters = {"w1", "w2"}
  Interface = "ui"
  NoOne = "nobody"
  MaxCalls = 0
  Calls <- OcoCalls
INVARIANTS EntriesServeTheirWaiters AnswersAreTrue
PROPERTY KnownEndStays
CHECK_DEADLOCK FALSE
