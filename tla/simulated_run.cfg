SPECIFICATION Spec
CONSTANTS
  N = 5
  AwaitingStep = 4
INVARIANT OnlyStopAbandonsRun
PROPERTIES KeepsPromise CancellationIsShown StopEndsRun
CHECK_DEADLOCK FALSE
