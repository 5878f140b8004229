------------------ MODULE OperationCancellationCoordinator ------------------
(***************************************************************************)
(* The monitor shared by the thread that executes a chain, the thread that *)
(* requests its cancellation and the cancellation worker.  Each operation  *)
(* is the critical section of the method of the same name; the worker's    *)
(* actions are the steps of cancelCurrentOperation between two releases of *)
(* stateMutex.  notify_all needs no state: a wait is a guard.              *)
(***************************************************************************)
EXTENDS OrderService

VARIABLES
  cancellationRequested, operationActive, actionMayBeRegistered,
  actionCompletedNaturally, chainFinished, cancellationWorkerRunning,
  currentAction,         \* the step whose order is registered, NoAction if none
  waitStopSource,        \* how many stop_sources startOperation has created
  stoppedSources,        \* the stop_sources on which request_stop was called
  result,
  workerPc,              \* where the cancellation worker is
  workerAction,          \* its copy of currentAction
  workerSource           \* its copy of waitStopSource

flagVars == <<cancellationRequested, operationActive, actionMayBeRegistered,
              actionCompletedNaturally, chainFinished, cancellationWorkerRunning>>
operationVars == <<cancellationRequested, operationActive, actionMayBeRegistered,
                   actionCompletedNaturally, chainFinished, currentAction,
                   waitStopSource>>
monitorVars == <<flagVars, currentAction, waitStopSource, stoppedSources, result>>
workerVars == <<workerPc, workerAction, workerSource>>

NoAction == 0

Verdict == {"CONFIRMED_CANCELLED", "NATURAL_COMPLETION", "FAILED"}

\* A wait that got its token in the current operation is told to stop.
WaitStopped == waitStopSource \in stoppedSources
-----------------------------------------------------------------------------
CoordinatorInit ==
  /\ cancellationRequested = FALSE
  /\ operationActive = FALSE
  /\ actionMayBeRegistered = FALSE
  /\ actionCompletedNaturally = FALSE
  /\ chainFinished = FALSE
  /\ cancellationWorkerRunning = FALSE
  /\ currentAction = NoAction
  /\ waitStopSource = 0
  /\ stoppedSources = {}
  /\ result = "NONE"
  /\ workerPc = "none"
  /\ workerAction = NoAction
  /\ workerSource = 0

startOperation(canRegisterAction) ==
  /\ ~operationActive
  /\ operationActive' = TRUE
  /\ actionMayBeRegistered' = canRegisterAction
  /\ actionCompletedNaturally' = FALSE
  /\ currentAction' = NoAction
  /\ waitStopSource' = waitStopSource + 1
  /\ result' = "NONE"
  /\ UNCHANGED <<cancellationRequested, chainFinished, cancellationWorkerRunning,
                 stoppedSources>>

\* registerOrdinaryOrder, registerOcoOrder
registerAction(s) ==
  /\ operationActive /\ actionMayBeRegistered /\ currentAction = NoAction
  /\ currentAction' = s
  /\ actionMayBeRegistered' = FALSE
  /\ UNCHANGED <<cancellationRequested, operationActive, actionCompletedNaturally,
                 chainFinished, cancellationWorkerRunning, waitStopSource,
                 stoppedSources, result>>

\* Mutated: the filled order stays registered.
completeActionKeepsAction ==
  /\ actionCompletedNaturally' = (operationActive \/ actionCompletedNaturally)
  /\ result' = IF operationActive /\ cancellationRequested THEN "NATURAL_COMPLETION" ELSE result
  /\ UNCHANGED <<cancellationRequested, operationActive, actionMayBeRegistered, chainFinished,
                 cancellationWorkerRunning, currentAction, waitStopSource, stoppedSources>>

completeActionNaturally ==
  /\ IF operationActive
       THEN /\ actionCompletedNaturally' = TRUE
            /\ actionMayBeRegistered' = FALSE
            /\ currentAction' = NoAction
            /\ result' = IF cancellationRequested THEN "NATURAL_COMPLETION" ELSE result
       ELSE UNCHANGED <<actionCompletedNaturally, actionMayBeRegistered,
                        currentAction, result>>
  /\ UNCHANGED <<cancellationRequested, operationActive, chainFinished,
                 cancellationWorkerRunning, waitStopSource, stoppedSources>>

\* Mutated: the operation stays active.
finishOperationLeavesActive ==
  /\ actionMayBeRegistered' = FALSE
  /\ currentAction' = NoAction
  /\ UNCHANGED <<cancellationRequested, operationActive, actionCompletedNaturally, chainFinished,
                 cancellationWorkerRunning, waitStopSource, stoppedSources, result>>

finishOperation ==
  /\ operationActive' = FALSE
  /\ actionMayBeRegistered' = FALSE
  /\ currentAction' = NoAction
  /\ UNCHANGED <<cancellationRequested, actionCompletedNaturally, chainFinished,
                 cancellationWorkerRunning, waitStopSource, stoppedSources, result>>

finishChain ==
  /\ chainFinished' = TRUE
  /\ operationActive' = FALSE
  /\ actionMayBeRegistered' = FALSE
  /\ currentAction' = NoAction
  /\ UNCHANGED <<cancellationRequested, actionCompletedNaturally,
                 cancellationWorkerRunning, waitStopSource, stoppedSources, result>>

\* The early return of recordConfirmedCancellation, recordCancellationFailure.
NaturalWins == actionCompletedNaturally \/ result = "NATURAL_COMPLETION"

requestCancellation ==
  /\ cancellationRequested' = TRUE
  /\ UNCHANGED <<operationActive, actionMayBeRegistered, actionCompletedNaturally,
                 chainFinished, cancellationWorkerRunning, currentAction,
                 waitStopSource, stoppedSources, result>>

\* The worker thread could not be created: record that and stop the wait.
failCancellation ==
  /\ result' = IF NaturalWins THEN result ELSE "FAILED"
  /\ stoppedSources' = IF NaturalWins THEN stoppedSources
                       ELSE stoppedSources \cup {waitStopSource}
  /\ UNCHANGED <<operationVars, cancellationWorkerRunning>>

\* Mutated: the wait ignores a worker that has left without a verdict.
ResolvedByVerdictOnly == ~cancellationRequested \/ result # "NONE"

\* waitForCancellationResolution does not block, or no longer does.
Resolved == ~cancellationRequested \/ result # "NONE" \/ ~cancellationWorkerRunning

isCancellationConfirmed == result = "CONFIRMED_CANCELLED"
-----------------------------------------------------------------------------
(***************************************************************************)
(* cancelCurrentOperation.                                                 *)
(***************************************************************************)
\* The predicate of the worker's wait.
Ready == chainFinished \/ ~operationActive \/ currentAction # NoAction

WorkerWaits(stopped) ==
  /\ workerPc = "spawned" /\ ~Ready /\ ~stopped
  /\ cancellationWorkerRunning' = TRUE
  /\ workerPc' = "waiting"
  /\ UNCHANGED <<operationVars, stoppedSources, result, workerAction,
                 workerSource, serviceVars>>

\* The worker copies the registered action, releases the monitor and calls the
\* service, which throws at once when the worker is already stopped.
WorkerTakesAction(stopped) ==
  /\ workerPc \in {"spawned", "waiting"}
  /\ ~chainFinished /\ operationActive /\ currentAction # NoAction
  /\ cancellationWorkerRunning' = TRUE
  /\ workerAction' = currentAction
  /\ workerPc' = IF stopped THEN "finishing" ELSE "subscribing"
  /\ UNCHANGED <<operationVars, stoppedSources, result, workerSource, serviceVars>>

\* Nothing to cancel: the operation or the chain is over, or the wait was
\* stopped before an action appeared.
WorkerFindsNothing(stopped) ==
  /\ workerPc \in {"spawned", "waiting"}
  /\ \/ chainFinished \/ ~operationActive
     \/ stopped /\ currentAction = NoAction
  /\ cancellationWorkerRunning' = TRUE
  /\ workerPc' = "finishing"
  /\ UNCHANGED <<operationVars, stoppedSources, result, workerAction, workerSource,
                 serviceVars>>

\* The service reconnects the user stream before it cancels.
WorkerSubscribes ==
  /\ workerPc = "subscribing"
  /\ workerPc' = "cancelling"
  /\ streamUp' = TRUE
  /\ UNCHANGED <<monitorVars, workerAction, workerSource, legs>>

\* The cancel request takes effect on a leg at the exchange.
WorkerCancelsLeg ==
  /\ workerPc = "cancelling"
  /\ \E l \in Legs(workerAction) : EndLeg(workerAction, l, "CANCELLED")
  /\ UNCHANGED <<monitorVars, workerVars>>

\* Mutated: a natural completion does not win.
RecordVerdictAlways(verdict) ==
  /\ result' = verdict
  /\ workerSource' = waitStopSource
  /\ workerPc' = "stopping"
  /\ UNCHANGED <<operationVars, stoppedSources, cancellationWorkerRunning,
                 workerAction, serviceVars>>

RecordVerdict(verdict) ==
  /\ IF NaturalWins
       THEN workerPc' = "finishing" /\ UNCHANGED <<result, workerSource>>
       ELSE /\ result' = verdict
            /\ workerSource' = waitStopSource
            /\ workerPc' = "stopping"
  /\ UNCHANGED <<operationVars, stoppedSources, cancellationWorkerRunning,
                 workerAction, serviceVars>>

\* Every leg is terminal: confirmOrdinaryCancellation, confirmOcoCancellation.
WorkerFindsFill ==
  /\ workerPc = "cancelling"
  /\ AllTerminal(workerAction) /\ AnyFilled(workerAction)
  /\ result' = "NATURAL_COMPLETION"
  /\ workerPc' = "finishing"
  /\ UNCHANGED <<operationVars, stoppedSources, cancellationWorkerRunning,
                 workerAction, workerSource, serviceVars>>

\* Mutated: one cancelled leg of an OCO order is enough.
WorkerConfirmsOneLeg ==
  /\ workerPc = "cancelling"
  /\ AllTerminal(workerAction) /\ ~AnyFilled(workerAction)
  /\ \E l \in Legs(workerAction) : legs[workerAction][l] = "CANCELLED"
  /\ RecordVerdict("CONFIRMED_CANCELLED")

WorkerConfirms ==
  /\ workerPc = "cancelling"
  /\ AllTerminal(workerAction) /\ ~AnyFilled(workerAction) /\ AllCancelled(workerAction)
  /\ RecordVerdict("CONFIRMED_CANCELLED")

\* Another terminal status, or the service throws: the request failed, the
\* stream or its reconciliation failed, the exchange refused.
WorkerFails ==
  /\ workerPc \in {"subscribing", "cancelling"}
  /\ RecordVerdict("FAILED")

\* The service throws OrderWaitInterrupted because the worker was stopped.
WorkerInterrupted(stopped) ==
  /\ workerPc = "cancelling"
  /\ stopped
  /\ workerPc' = "finishing"
  /\ UNCHANGED <<monitorVars, workerAction, workerSource, serviceVars>>

\* request_stop on the stop_source copied with the verdict.
WorkerStopsWait ==
  /\ workerPc = "stopping"
  /\ stoppedSources' = stoppedSources \cup {workerSource}
  /\ workerPc' = "finishing"
  /\ UNCHANGED <<operationVars, result, cancellationWorkerRunning,
                 workerAction, workerSource, serviceVars>>

\* finishCancellationWorker
WorkerFinishes ==
  /\ workerPc = "finishing"
  /\ cancellationWorkerRunning' = FALSE
  /\ workerPc' = "done"
  /\ UNCHANGED <<operationVars, stoppedSources, result, workerAction,
                 workerSource, serviceVars>>

CancellationWorker(stopped) ==
  \/ WorkerWaits(stopped) \/ WorkerTakesAction(stopped) \/ WorkerFindsNothing(stopped)
  \/ WorkerSubscribes \/ WorkerCancelsLeg \/ WorkerFindsFill \/ WorkerConfirms
  \/ WorkerFails \/ WorkerInterrupted(stopped) \/ WorkerStopsWait \/ WorkerFinishes

WorkerPc == {"none", "creating", "spawned", "waiting", "subscribing", "cancelling", "stopping",
             "finishing", "done"}

CoordinatorTypeOK ==
  /\ cancellationRequested \in BOOLEAN /\ operationActive \in BOOLEAN
  /\ actionMayBeRegistered \in BOOLEAN /\ actionCompletedNaturally \in BOOLEAN
  /\ chainFinished \in BOOLEAN /\ cancellationWorkerRunning \in BOOLEAN
  /\ currentAction \in Steps \cup {NoAction}
  /\ waitStopSource \in 0 .. Len(Operations)
  /\ stoppedSources \subseteq 0 .. Len(Operations)
  /\ result \in Verdict \cup {"NONE"}
  /\ workerPc \in WorkerPc
  /\ workerAction \in Steps \cup {NoAction}
  /\ workerSource \in 0 .. Len(Operations)
=============================================================================
