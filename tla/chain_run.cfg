CONSTANT Operations <- MixedChain
SPECIFICATION Spec
CHECK_DEADLOCK FALSE
INVARIANTS CancelledRunHoldsNoOrder SucceededStepWasFilled WorkerNeverMissesAnOrder
           WorkerActsOnCurrentOperation CoordinatorNeverThrows IInv
PROPERTIES KeepsPromise VerdictIsFinal CancellationEnds
