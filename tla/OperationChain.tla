--------------------------- MODULE OperationChain ---------------------------
(***************************************************************************)
(* One real run of an operation chain: the thread that executes it, the    *)
(* cancellation worker, the record the run manager keeps of it and the     *)
(* threads that start the run, request its cancellation and shut the       *)
(* program down.                                                           *)
(*                                                                         *)
(* An action of the chain thread is one critical section (of the           *)
(* coordinator or of the manager) or one call of the exchange service,     *)
(* with the thread-local code before it.  The chain's own snapshot is read *)
(* by no other thread: what others see is the record, which the thread     *)
(* updates in the "Publish" steps.                                         *)
(***************************************************************************)
EXTENDS OperationCancellationCoordinator

VARIABLES
  pc,                    \* where the chain thread is
  step,                  \* stepIndex of the loop of execute, from 1
  chainStatus,           \* snapshot.status
  stepStatus,            \* snapshot.steps[..].status
  recordStatus,          \* the status in the manager's record of the run
  recordCancellation,    \* cancellationRequested in that record
  gateOpen,              \* has startRun opened the start gate?
  shutdown               \* how far GraphicalUserInterface::run is in shutting down

chainVars == <<pc, step, chainStatus, stepStatus>>
recordVars == <<recordStatus, recordCancellation>>
managerVars == <<recordVars, gateOpen, shutdown>>
vars == <<serviceVars, monitorVars, workerVars, chainVars, managerVars>>

TerminalStatus == {"COMPLETED", "FAILED", "CANCELLED"}

\* requestStop has stopped the jthreads of the run.
Stopping == shutdown # "no"

\* requestRunCancellation creates the worker thread under the manager's lock.
ManagerUnlocked == workerPc # "creating"
-----------------------------------------------------------------------------
Init ==
  /\ ServiceInit /\ CoordinatorInit
  /\ pc = "gate" /\ step = 1
  /\ chainStatus = "PENDING"
  /\ stepStatus = [s \in Steps |-> "PENDING"]
  /\ recordStatus = "PENDING" /\ recordCancellation = FALSE
  /\ gateOpen = FALSE
  /\ shutdown = "no"

Goto(from, to) == pc = from /\ pc' = to

SetStep(status) == stepStatus' = [stepStatus EXCEPT ![step] = status]

\* waitForRunStart and the first check of executeRun.
EnterRun ==
  /\ gateOpen /\ ~Stopping
  /\ Goto("gate", "entry")
  /\ UNCHANGED <<serviceVars, monitorVars, workerVars, step, chainStatus, stepStatus,
                 managerVars>>

SkipRun ==
  /\ Stopping
  /\ Goto("gate", "exit")
  /\ UNCHANGED <<serviceVars, monitorVars, workerVars, step, chainStatus, stepStatus,
                 managerVars>>

CancelPendingExecution ==
  /\ cancellationRequested
  /\ Goto("entry", "finish")
  /\ chainStatus' = "CANCELLED"
  /\ UNCHANGED <<serviceVars, monitorVars, workerVars, step, stepStatus, managerVars>>

StartExecution ==
  /\ ~cancellationRequested
  /\ Goto("entry", "started")
  /\ chainStatus' = "RUNNING"
  /\ UNCHANGED <<serviceVars, monitorVars, workerVars, step, stepStatus, managerVars>>

\* notifyStateChanged hands a copy of the snapshot to updateRun of the manager.
AfterPublish == [started |-> "loop", stepStarted |-> "startOperation",
                 accepted |-> "subscribe", stepDone |-> "afterStep", ended |-> "exit"]

Publish ==
  /\ ManagerUnlocked
  /\ pc \in DOMAIN AfterPublish
  /\ pc' = AfterPublish[pc]
  /\ recordStatus' = chainStatus
  /\ UNCHANGED <<serviceVars, monitorVars, workerVars, step, chainStatus, stepStatus,
                 recordCancellation, gateOpen, shutdown>>

\* The check at the head of the loop, and the one after a step but the last.
CancelBetweenSteps ==
  /\ cancellationRequested
  /\ \/ Goto("loop", "finish")
     \/ step < Len(Operations) /\ Goto("afterStep", "finish")
  /\ chainStatus' = "CANCELLED"
  /\ UNCHANGED <<serviceVars, monitorVars, workerVars, step, stepStatus, managerVars>>

\* Mutated: no check at the head of the loop.
StartStepUnchecked ==
  /\ Goto("loop", "stepStarted")
  /\ SetStep("RUNNING")
  /\ UNCHANGED <<serviceVars, monitorVars, workerVars, step, chainStatus, managerVars>>

StartStep ==
  /\ ~cancellationRequested
  /\ Goto("loop", "stepStarted")
  /\ SetStep("RUNNING")
  /\ UNCHANGED <<serviceVars, monitorVars, workerVars, step, chainStatus, managerVars>>

StartOperation ==
  /\ Goto("startOperation", "check")
  /\ startOperation(IsOrder(step))
  /\ UNCHANGED <<serviceVars, workerVars, step, chainStatus, stepStatus, managerVars>>

\* Mutated: the operation does not check for a cancellation.
CheckNothing ==
  /\ pc = "check"
  /\ pc' = IF IsOrder(step) THEN "place" ELSE "finishOperation"
  /\ UNCHANGED <<serviceVars, monitorVars, workerVars, step, chainStatus, stepStatus,
                 managerVars>>

\* throwIfCancellationRequested opens every operation; SEND_TO does no more.
CheckCancellation ==
  /\ pc = "check"
  /\ pc' = IF cancellationRequested THEN "refused"
           ELSE IF IsOrder(step) THEN "place" ELSE "finishOperation"
  /\ UNCHANGED <<serviceVars, monitorVars, workerVars, step, chainStatus, stepStatus,
                 managerVars>>

PlaceOrder ==
  /\ Goto("place", "register")
  /\ PlaceLegs(step, Legs(step))
  /\ UNCHANGED <<streamUp, monitorVars, workerVars, step, chainStatus, stepStatus,
                 managerVars>>

\* The placement throws: refused, or accepted in part or with its answer lost.
PlacementFails ==
  /\ Goto("place", "failed")
  /\ \E placed \in SUBSET Legs(step) : PlaceLegs(step, placed)
  /\ UNCHANGED <<streamUp, monitorVars, workerVars, step, chainStatus, stepStatus,
                 managerVars>>

\* registerOrdinaryOrder or registerOcoOrder, then reportAwaiting.
RegisterOrder ==
  /\ Goto("register", "accepted")
  /\ registerAction(step)
  /\ SetStep("AWAITING")
  /\ UNCHANGED <<serviceVars, workerVars, step, chainStatus, managerVars>>

\* The wait reconnects the user stream if it is down and reads the order.
Subscribe ==
  /\ ~WaitStopped
  /\ Goto("subscribe", "wait")
  /\ streamUp' = TRUE
  /\ UNCHANGED <<legs, monitorVars, workerVars, step, chainStatus, stepStatus,
                 managerVars>>

SubscriptionFails ==
  /\ ~WaitStopped
  /\ Goto("subscribe", "failed")
  /\ UNCHANGED <<serviceVars, monitorVars, workerVars, step, chainStatus, stepStatus,
                 managerVars>>

\* Mutated: one filled leg of an OCO order ends the wait.
WaitFilledByOneLeg ==
  /\ AnyFilled(step)
  /\ Goto("wait", "complete")
  /\ UNCHANGED <<serviceVars, monitorVars, workerVars, step, chainStatus, stepStatus,
                 managerVars>>

WaitFilled ==
  /\ WaitSucceeds(step)
  /\ Goto("wait", "complete")
  /\ UNCHANGED <<serviceVars, monitorVars, workerVars, step, chainStatus, stepStatus,
                 managerVars>>

\* The wait wakes up to a failure, or to a stream that is down; it may also miss both.
WaitThrows ==
  /\ WaitFails(step) \/ ~streamUp
  /\ Goto("wait", "failed")
  /\ UNCHANGED <<serviceVars, monitorVars, workerVars, step, chainStatus, stepStatus,
                 managerVars>>

\* OrderWaitInterrupted
WaitInterrupted ==
  /\ WaitStopped
  /\ \/ Goto("subscribe", "interrupted")
     \/ Goto("wait", "interrupted")
  /\ UNCHANGED <<serviceVars, monitorVars, workerVars, step, chainStatus, stepStatus,
                 managerVars>>

CompleteOrder ==
  /\ Goto("complete", "finishOperation")
  /\ completeActionNaturally
  /\ UNCHANGED <<serviceVars, workerVars, step, chainStatus, stepStatus, managerVars>>

FinishStep ==
  /\ Goto("finishOperation", "stepDone")
  /\ finishOperation
  /\ SetStep("SUCCEEDED")
  /\ UNCHANGED <<serviceVars, workerVars, step, chainStatus, managerVars>>

\* Mutated: no check after a step.
NextStepUnchecked ==
  /\ step < Len(Operations)
  /\ Goto("afterStep", "loop")
  /\ step' = step + 1
  /\ UNCHANGED <<serviceVars, monitorVars, workerVars, chainStatus, stepStatus,
                 managerVars>>

NextStep ==
  /\ step < Len(Operations) /\ ~cancellationRequested
  /\ Goto("afterStep", "loop")
  /\ step' = step + 1
  /\ UNCHANGED <<serviceVars, monitorVars, workerVars, chainStatus, stepStatus,
                 managerVars>>

FinishExecution ==
  /\ step = Len(Operations)
  /\ Goto("afterStep", "finish")
  /\ chainStatus' = "COMPLETED"
  /\ UNCHANGED <<serviceVars, monitorVars, workerVars, step, stepStatus, managerVars>>

\* cancelStepAndExecution or failExecution
EndStep(status) ==
  /\ SetStep(status)
  /\ chainStatus' = status

\* catch (OperationCancellationRequested)
RefuseOperation ==
  /\ Goto("refused", "finish")
  /\ finishOperation
  /\ EndStep("CANCELLED")
  /\ UNCHANGED <<serviceVars, workerVars, step, managerVars>>

\* catch (OrderWaitInterrupted), catch (exception): the operation is over.
LeaveOperation ==
  /\ \/ Goto("interrupted", "judge")
     \/ Goto("failed", "resolve")
  /\ finishOperation
  /\ UNCHANGED <<serviceVars, workerVars, step, chainStatus, stepStatus, managerVars>>

WaitForCancellationResolution ==
  /\ Resolved
  /\ Goto("resolve", "judge")
  /\ UNCHANGED <<serviceVars, monitorVars, workerVars, step, chainStatus, stepStatus,
                 managerVars>>

\* isCancellationConfirmed decides between cancellation and failure.
JudgeOutcome ==
  /\ Goto("judge", "finish")
  /\ EndStep(IF isCancellationConfirmed THEN "CANCELLED" ELSE "FAILED")
  /\ UNCHANGED <<serviceVars, monitorVars, workerVars, step, managerVars>>

\* catch (...): the operation threw something that is not a std::exception.
NonStandardFailure ==
  /\ pc \in {"place", "subscribe", "wait"}
  /\ pc' = "finish"
  /\ finishOperation
  /\ EndStep("FAILED")
  /\ UNCHANGED <<serviceVars, workerVars, step, managerVars>>

FinishChain ==
  /\ Goto("finish", "ended")
  /\ finishChain
  /\ UNCHANGED <<serviceVars, workerVars, step, chainStatus, stepStatus, managerVars>>

ChainThread ==
  \/ EnterRun \/ SkipRun \/ CancelPendingExecution \/ StartExecution \/ Publish
  \/ CancelBetweenSteps \/ StartStep \/ StartOperation \/ CheckCancellation
  \/ PlaceOrder \/ PlacementFails \/ RegisterOrder \/ Subscribe \/ SubscriptionFails
  \/ WaitFilled \/ WaitThrows \/ WaitInterrupted \/ CompleteOrder \/ FinishStep
  \/ NextStep \/ FinishExecution \/ RefuseOperation \/ LeaveOperation
  \/ WaitForCancellationResolution \/ JudgeOutcome \/ FinishChain
-----------------------------------------------------------------------------
\* The end of startRun.
OpenGate ==
  /\ ~gateOpen
  /\ gateOpen' = TRUE
  /\ UNCHANGED <<serviceVars, monitorVars, workerVars, chainVars, recordVars, shutdown>>

RequestRunCancellation ==
  /\ ~Stopping /\ ~recordCancellation /\ recordStatus \notin TerminalStatus
  /\ recordCancellation' = TRUE
  /\ requestCancellation
  /\ workerPc' = "creating"
  /\ UNCHANGED <<serviceVars, workerAction, workerSource, chainVars, recordStatus,
                 gateOpen, shutdown>>

\* Still under the manager's lock: the worker thread is created, or cannot be.
CreateWorker ==
  /\ workerPc = "creating"
  /\ \/ workerPc' = "spawned" /\ UNCHANGED monitorVars
     \/ workerPc' = "none" /\ failCancellation
  /\ UNCHANGED <<serviceVars, workerAction, workerSource, chainVars, managerVars>>

RequestStop ==
  /\ ManagerUnlocked
  /\ shutdown = "no"
  /\ shutdown' = "stopRequested"
  /\ UNCHANGED <<serviceVars, monitorVars, workerVars, chainVars, recordVars, gateOpen>>

\* BalanceCatalog::stopLiveUpdates stops the user stream of each service, if it returns.
StopLiveUpdates ==
  /\ shutdown = "stopRequested"
  /\ shutdown' = "streamsStopped"
  /\ streamUp' = FALSE
  /\ UNCHANGED <<legs, monitorVars, workerVars, chainVars, recordVars, gateOpen>>

\* stopAndWait joins the worker and the cancellation worker of the run.
JoinWorkers ==
  /\ shutdown = "streamsStopped"
  /\ pc = "exit" /\ workerPc \in {"none", "done"}
  /\ shutdown' = "joined"
  /\ UNCHANGED <<serviceVars, monitorVars, workerVars, chainVars, recordVars, gateOpen>>

Environment ==
  \/ (ExchangeEndsLeg \/ StreamDrops) /\ UNCHANGED <<monitorVars, workerVars, chainVars,
                                                     managerVars>>
  \/ OpenGate \/ RequestRunCancellation \/ CreateWorker
  \/ RequestStop \/ StopLiveUpdates \/ JoinWorkers

Worker == CancellationWorker(Stopping) /\ UNCHANGED <<chainVars, managerVars>>

Next == ChainThread \/ NonStandardFailure \/ Worker \/ Environment

\* A thread is in a call of the exchange service that nobody can interrupt, or in a wait
\* that nobody has told to stop.
ChainCalls == pc \in {"place", "subscribe"} \/ (pc = "wait" /\ ~WaitStopped)

WorkerCalls == workerPc \in {"subscribing", "cancelling"}

(***************************************************************************)
(* The scheduler runs every thread that can run; startRun and              *)
(* requestRunCancellation go on once begun, and the join ends when the     *)
(* threads have.  A wait whose stop_source is stopped wakes up, as the     *)
(* wait of a condition_variable_any with a stop_token does.  Nothing       *)
(* obliges a call of the service to return, a wait to be woken by a report *)
(* or by the end of its stream, or stopUserStream to return from joining   *)
(* the stream; nor the exchange to fill an order or the user to cancel or  *)
(* to leave.                                                               *)
(***************************************************************************)
Fairness ==
  /\ WF_vars(ChainThread /\ ~ChainCalls)
  /\ WF_vars(Worker /\ ~WorkerCalls)
  /\ WF_vars(OpenGate) /\ WF_vars(CreateWorker)
  /\ WF_vars(JoinWorkers)

Spec == Init /\ [][Next]_vars /\ Fairness

\* Every call of the service returns, every wait is woken, and the streams are stopped.
AnsweredSpec ==
  Spec /\ WF_vars(ChainThread) /\ WF_vars(Worker) /\ WF_vars(StopLiveUpdates)
-----------------------------------------------------------------------------
Pc == {"gate", "entry", "started", "loop", "stepStarted", "startOperation", "check",
       "place", "register", "accepted", "subscribe", "wait", "complete",
       "finishOperation", "stepDone", "afterStep", "refused", "interrupted", "failed",
       "resolve", "judge", "finish", "ended", "exit"}

StepStatus == {"PENDING", "RUNNING", "AWAITING", "SUCCEEDED", "FAILED", "CANCELLED"}

ChainStatus == {"PENDING", "RUNNING"} \cup TerminalStatus

\* Every variable has its type.
TypeOK ==
  /\ ServiceTypeOK /\ CoordinatorTypeOK
  /\ pc \in Pc /\ step \in Steps
  /\ chainStatus \in ChainStatus
  /\ stepStatus \in [Steps -> StepStatus]
  /\ recordStatus \in ChainStatus /\ recordCancellation \in BOOLEAN
  /\ gateOpen \in BOOLEAN
  /\ shutdown \in {"no", "stopRequested", "streamsStopped", "joined"}

(***************************************************************************)
(* A run is reported cancelled only when nothing it ordered is, or ever    *)
(* will be, traded by the step that was cancelled: each step before it     *)
(* succeeded, every leg of its own order is cancelled or was never placed, *)
(* and no later step placed anything.  The races behind it: a cancel       *)
(* request against a placement in flight, a fill, a failing wait, the      *)
(* worker's verdict and the wait it interrupts.                            *)
(***************************************************************************)
CancelledRunHoldsNoOrder ==
  chainStatus = "CANCELLED" =>
    \A s \in Steps :
      \/ stepStatus[s] = "SUCCEEDED"
      \/ stepStatus[s] = "CANCELLED" /\ (AllCancelled(s) \/ ~Placed(s))
      \/ stepStatus[s] = "PENDING" /\ ~Placed(s)

(***************************************************************************)
(* A step that reports success was filled by exactly one leg and left no   *)
(* leg alive, also when a cancellation was racing the fill (the fill wins).*)
(***************************************************************************)
SucceededStepWasFilled ==
  \A s \in Steps : stepStatus[s] = "SUCCEEDED" /\ IsOrder(s) => WaitSucceeds(s)

(***************************************************************************)
(* The cancellation worker never gives up without a verdict while the      *)
(* chain thread can still place, register or wait for an order: only the   *)
(* shutdown of the program excuses it.  It leaves early when it finds no   *)
(* operation active, so the chain must not start another one after that.   *)
(***************************************************************************)
WorkerNeverMissesAnOrder ==
  /\ workerPc \in {"finishing", "done"} /\ result = "NONE" /\ ~Stopping
  => pc \notin {"place", "register", "accepted", "subscribe", "wait"}

(***************************************************************************)
(* The copy of the action and of the stop_source the worker uses after it  *)
(* released the monitor still belong to the operation being executed: the  *)
(* chain never moves on to another step under the worker's hands.          *)
(***************************************************************************)
WorkerActsOnCurrentOperation ==
  /\ workerPc \in {"subscribing", "cancelling", "stopping"} => workerAction = step
  /\ workerPc = "stopping" => workerSource = waitStopSource

(***************************************************************************)
(* The throwIf calls of startOperation and of the two register methods     *)
(* never fire: an exception there would leave the run without a terminal   *)
(* snapshot, or a live order nobody can cancel.                            *)
(***************************************************************************)
CoordinatorNeverThrows ==
  /\ pc = "startOperation" => ~operationActive
  /\ pc = "register" => operationActive /\ actionMayBeRegistered /\ currentAction = NoAction

(***************************************************************************)
(* A confirmed cancellation and a natural completion are final: neither    *)
(* the other thread's verdict nor the reset of a next operation replaces   *)
(* the result the chain is going to report.                                *)
(***************************************************************************)
VerdictIsFinal ==
  [][(result \in {"CONFIRMED_CANCELLED", "NATURAL_COMPLETION"}) => (result' = result)]_vars

(***************************************************************************)
(* The run keeps the promise made to its observers.                        *)
(***************************************************************************)
Promise == INSTANCE OperationChainPromise WITH
  N <- Len(Operations), OrderSteps <- {s \in Steps : IsOrder(s)},
  status <- chainStatus, steps <- stepStatus, requested <- cancellationRequested,
  traded <- {s \in Steps : AnyFilled(s)}

KeepsPromise == Promise!PromiseSpec

(***************************************************************************)
(* A cancellation accepted by the manager ends the run, unless the program *)
(* shuts down first, or the chain or its worker stays for ever in a call   *)
(* of the exchange service, or the wait sleeps through the fill that the   *)
(* worker found.  In particular the chain does not wait for a verdict that *)
(* never comes, nor for an order whose worker has given up.                *)
(***************************************************************************)
Unanswered ==
  pc \in {"place", "subscribe"} \/ WorkerCalls \/ (pc = "wait" /\ AnyFilled(step))

CancellationEnds == recordCancellation ~> (pc = "exit" \/ Stopping \/ []Unanswered)

(***************************************************************************)
(* The shutdown sequence requestStop, stopUserStream, stopAndWait joins    *)
(* the worker of a run that was waiting for its order when it began.       *)
(***************************************************************************)
ShutdownJoinsWaitingRun ==
  (pc = "wait" /\ shutdown = "stopRequested" /\ ~cancellationRequested) ~> (shutdown = "joined")
=============================================================================
