--------------------- MODULE SimulatedOperationChainRun ---------------------
(***************************************************************************)
(* A demonstration run: a thread that walks through the first AwaitingStep *)
(* steps of a chain, with a delay before each, and then stays at that step *)
(* until it is cancelled.  It calls no exchange and ends only by being     *)
(* cancelled or abandoned.                                                 *)
(*                                                                         *)
(* Its snapshot is written and read by this thread alone, so a change of   *)
(* the snapshot is joined with the wait or the check before it; what       *)
(* others see is the record, updated in Publish.                           *)
(***************************************************************************)
EXTENDS Naturals

CONSTANTS N,             \* number of operations of the plan
          AwaitingStep   \* the step of the plan that is never filled, from 1

ASSUME PlanAssumption == N \in Nat /\ AwaitingStep \in 1 .. N

VARIABLES
  pc,                    \* where execute is
  step,                  \* stepIndex of its loop, from 1
  status,                \* snapshot.status
  steps,                 \* snapshot.steps[..].status
  recordStatus,          \* the status in the manager's record
  cancellationRequested,
  stopRequested          \* requestStop of the manager reached the jthread

snapshotVars == <<status, steps>>
controlVars == <<cancellationRequested, stopRequested>>
vars == <<pc, step, snapshotVars, recordStatus, controlVars>>

Step == 1 .. N

Init ==
  /\ pc = "startDelay" /\ step = 1
  /\ status = "PENDING" /\ recordStatus = "PENDING"
  /\ steps = [s \in Step |-> "PENDING"]
  /\ cancellationRequested = FALSE /\ stopRequested = FALSE

Goto(from, to) == pc = from /\ pc' = to

SetStep(value) == steps' = [steps EXCEPT ![step] = value]
-----------------------------------------------------------------------------
\* waitForDelay returns true: the delay is over and nothing has happened.
StartDelayElapses ==
  /\ ~cancellationRequested /\ ~stopRequested
  /\ Goto("startDelay", "started")
  /\ status' = "RUNNING"
  /\ UNCHANGED <<step, steps, recordStatus, controlVars>>

\* waitForDelay returns false.
DelayInterrupted ==
  /\ cancellationRequested \/ stopRequested
  /\ \/ Goto("startDelay", "startInterrupted")
     \/ Goto("stepDelay", "stepInterrupted")
  /\ UNCHANGED <<step, snapshotVars, recordStatus, controlVars>>

\* The check of the stop token at the head of the loop.
CheckStop ==
  /\ pc = "loop"
  /\ pc' = IF stopRequested THEN "exit" ELSE "checkCancellation"
  /\ UNCHANGED <<step, snapshotVars, recordStatus, controlVars>>

\* Mutated: the cancellation is not checked between two steps.
StartStepUnchecked ==
  /\ Goto("checkCancellation", "stepStarted")
  /\ SetStep("RUNNING")
  /\ UNCHANGED <<step, status, recordStatus, controlVars>>

StartStep ==
  /\ ~cancellationRequested
  /\ Goto("checkCancellation", "stepStarted")
  /\ SetStep("RUNNING")
  /\ UNCHANGED <<step, status, recordStatus, controlVars>>

\* cancelPendingExecution, cancelExecutionBetweenSteps
CancelIdle ==
  /\ cancellationRequested
  /\ \/ Goto("startInterrupted", "ended")
     \/ Goto("checkCancellation", "ended")
  /\ status' = "CANCELLED"
  /\ UNCHANGED <<step, steps, recordStatus, controlVars>>

\* The delay of a step is over: finishStep, or markStepAwaiting at the last one.
StepDelayElapses ==
  /\ ~cancellationRequested /\ ~stopRequested
  /\ IF step < AwaitingStep
       THEN Goto("stepDelay", "stepDone") /\ SetStep("SUCCEEDED")
       ELSE Goto("stepDelay", "accepted") /\ SetStep("AWAITING")
  /\ UNCHANGED <<step, status, recordStatus, controlVars>>

NextStep ==
  /\ Goto("afterStep", "loop")
  /\ step' = step + 1
  /\ UNCHANGED <<snapshotVars, recordStatus, controlVars>>

\* Mutated: the wait of the awaiting step does not hear of the cancellation.
CancelDelayedStepOnly ==
  /\ cancellationRequested
  /\ Goto("stepInterrupted", "ended")
  /\ SetStep("CANCELLED")
  /\ status' = "CANCELLED"
  /\ UNCHANGED <<step, recordStatus, controlVars>>

\* cancelStepAndExecution
CancelStep ==
  /\ cancellationRequested
  /\ Goto("stepInterrupted", "ended") \/ Goto("awaiting", "ended")
  /\ SetStep("CANCELLED")
  /\ status' = "CANCELLED"
  /\ UNCHANGED <<step, recordStatus, controlVars>>

\* Mutated: an interrupted delay is taken for the stop of the program.
AbandonUnchecked ==
  /\ \/ Goto("startInterrupted", "exit")
     \/ Goto("stepInterrupted", "exit")
     \/ stopRequested /\ Goto("awaiting", "exit")
  /\ UNCHANGED <<step, snapshotVars, recordStatus, controlVars>>

\* Mutated: the wait of the awaiting step does not hear of the stop.
AbandonDelaysOnly ==
  /\ ~cancellationRequested
  /\ Goto("startInterrupted", "exit") \/ Goto("stepInterrupted", "exit")
  /\ UNCHANGED <<step, snapshotVars, recordStatus, controlVars>>

\* execute returns without a terminal snapshot.
Abandon ==
  /\ ~cancellationRequested
  /\ \/ Goto("startInterrupted", "exit")
     \/ Goto("stepInterrupted", "exit")
     \/ stopRequested /\ Goto("awaiting", "exit")
  /\ UNCHANGED <<step, snapshotVars, recordStatus, controlVars>>

\* notifyStateChanged
AfterPublish == [started |-> "loop", stepStarted |-> "stepDelay", stepDone |-> "afterStep",
                 accepted |-> "awaiting", ended |-> "exit"]

Publish ==
  /\ pc \in DOMAIN AfterPublish
  /\ pc' = AfterPublish[pc]
  /\ recordStatus' = status
  /\ UNCHANGED <<step, snapshotVars, controlVars>>

execute ==
  \/ StartDelayElapses \/ DelayInterrupted \/ CheckStop \/ StartStep \/ CancelIdle
  \/ StepDelayElapses \/ NextStep \/ CancelStep \/ Abandon \/ Publish
-----------------------------------------------------------------------------
\* requestRunCancellation of the manager, which refuses an ended run.
requestCancellation ==
  /\ ~stopRequested /\ ~cancellationRequested /\ recordStatus # "CANCELLED"
  /\ cancellationRequested' = TRUE
  /\ UNCHANGED <<pc, step, snapshotVars, recordStatus, stopRequested>>

requestStop ==
  /\ ~stopRequested
  /\ stopRequested' = TRUE
  /\ UNCHANGED <<pc, step, snapshotVars, recordStatus, cancellationRequested>>

Next == execute \/ requestCancellation \/ requestStop

\* The thread is scheduled and its delays elapse.
Spec == Init /\ [][Next]_vars /\ WF_vars(execute)
-----------------------------------------------------------------------------
Pc == {"startDelay", "startInterrupted", "started", "loop", "checkCancellation",
       "stepStarted", "stepDelay", "stepInterrupted", "stepDone", "afterStep",
       "accepted", "awaiting", "ended", "exit"}

Status == {"PENDING", "RUNNING", "CANCELLED"}

StepStatus == {"PENDING", "RUNNING", "AWAITING", "SUCCEEDED", "CANCELLED"}

\* Every variable has its type.
TypeOK ==
  /\ pc \in Pc /\ step \in 1 .. AwaitingStep
  /\ status \in Status /\ recordStatus \in Status
  /\ steps \in [Step -> StepStatus]
  /\ cancellationRequested \in BOOLEAN /\ stopRequested \in BOOLEAN

(***************************************************************************)
(* Only the stop of the program makes execute return without a terminal    *)
(* snapshot: no cancellation, however it races the delays and the checks,  *)
(* is taken for a stop.                                                    *)
(***************************************************************************)
OnlyStopAbandonsRun ==
  \/ pc \in {"startInterrupted", "stepInterrupted"} /\ ~cancellationRequested
  \/ pc = "exit" /\ recordStatus # "CANCELLED"
  => stopRequested

(***************************************************************************)
(* A simulated run keeps the promise of every run; its awaiting step is    *)
(* the only one whose success would need a fill.                           *)
(***************************************************************************)
Promise == INSTANCE OperationChainPromise WITH
  OrderSteps <- {AwaitingStep}, requested <- cancellationRequested, traded <- {}

KeepsPromise == Promise!PromiseSpec

(***************************************************************************)
(* An accepted cancellation is shown as such, unless the program stops     *)
(* first: none is lost between two waits of the thread.                    *)
(***************************************************************************)
CancellationIsShown == cancellationRequested ~> (recordStatus = "CANCELLED" \/ stopRequested)

(***************************************************************************)
(* A run that is stopped returns from execute, whichever of its waits and  *)
(* checks it is at, and although a cancellation arrived just before: the   *)
(* join of its thread in stopAndWait ends.                                 *)
(***************************************************************************)
StopEndsRun == stopRequested ~> pc = "exit"
=============================================================================
