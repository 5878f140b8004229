SPECIFICATION Spec
CONSTANTS
  MaxRuns = 2
  Simulated = 1
  MaxRevision = 1
  MaxPosted = 1
INVARIANTS SequenceOrdersUpdates CancelledWasRequested StartIsAnnouncedFirst IInv
PROPERTIES ViewNeverGoesBack ViewCatchesUp StopWaitsForExchangeOnly
CHECK_DEADLOCK FALSE
