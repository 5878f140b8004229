----------------------- MODULE OperationChainInvariant -----------------------
(***************************************************************************)
(* The inductive invariant behind the safety properties of OperationChain. *)
(* It says, place by place in the chain thread, what the coordinator, the  *)
(* steps and their orders look like, and what the worker may hold.         *)
(***************************************************************************)
EXTENDS OperationChain

\* Between startOperation and finishOperation of the coordinator.
InOperation == {"check", "place", "register", "accepted", "subscribe", "wait", "complete",
                "finishOperation", "refused", "interrupted", "failed"}

BeforeOperation == {"gate", "entry", "started", "loop", "stepStarted", "startOperation"}

\* The order of the current step is registered.
Registered == {"accepted", "subscribe", "wait", "complete", "interrupted"}

\* The current step has placed nothing yet.
BeforePlacement == BeforeOperation \cup {"check", "place", "refused"}

Ended == {"finish", "ended", "exit"}

AllPlaced(s) == \A l \in Legs(s) : legs[s][l] # "NONE"

\* The coordinator's flags follow the chain thread.
FlagsFollowThread ==
  /\ operationActive <=> pc \in InOperation
  /\ pc \in {"check", "place", "register"} => (actionMayBeRegistered <=> IsOrder(step))
  /\ pc \in {"place", "register"} \cup Registered => IsOrder(step)
  /\ pc \in Registered => currentAction = step
  /\ currentAction # NoAction => /\ currentAction = step
                                 /\ pc \in Registered \cup {"failed"}
                                 /\ IsOrder(step) /\ AllPlaced(step)
  /\ actionCompletedNaturally => pc \notin InOperation \ {"finishOperation"}
  /\ pc = "ended" => chainFinished
  /\ chainFinished => pc \in {"ended", "exit"}
  /\ waitStopSource <= step
  /\ pc \in BeforeOperation => waitStopSource < step

\* The snapshot follows the chain thread: the steps before the current one
\* succeeded, those after it are untouched.
SnapshotFollowsThread ==
  /\ \A s \in Steps : /\ s < step => stepStatus[s] = "SUCCEEDED"
                      /\ s > step => stepStatus[s] = "PENDING"
  /\ pc \in {"gate", "entry", "started", "loop"} => stepStatus[step] = "PENDING"
  /\ pc \in {"stepStarted", "startOperation", "check", "place", "register", "refused"}
       => stepStatus[step] = "RUNNING"
  /\ pc \in Registered => stepStatus[step] = "AWAITING"
  /\ pc \in {"finishOperation", "failed", "resolve", "judge"}
       => stepStatus[step] \in {"RUNNING", "AWAITING"}
  /\ pc \in {"stepDone", "afterStep"} => stepStatus[step] = "SUCCEEDED"
  /\ pc \in Ended => stepStatus[step] \in {"PENDING", "SUCCEEDED", "FAILED", "CANCELLED"}
  /\ pc \in {"gate", "entry"} => chainStatus = "PENDING"
  /\ pc \notin {"gate", "entry"} \cup Ended => chainStatus = "RUNNING"
  /\ stepStatus[step] = "FAILED" => chainStatus = "FAILED"

\* The orders at the exchange agree with the snapshot.
OrdersFollowSnapshot ==
  /\ \A s \in Steps :
       /\ stepStatus[s] = "PENDING" => ~Placed(s)
       /\ stepStatus[s] = "SUCCEEDED" /\ IsOrder(s) => WaitSucceeds(s)
       /\ stepStatus[s] = "CANCELLED" => AllCancelled(s) \/ ~Placed(s)
  /\ pc \in BeforePlacement => ~Placed(step)
  /\ pc \in {"register"} \cup Registered => AllPlaced(step)
  /\ pc = "complete" => WaitSucceeds(step)
  /\ pc = "finishOperation" /\ IsOrder(step) => WaitSucceeds(step)

\* The worker acts on the order of the current step, and a verdict it reached
\* keeps the chain at that step.
WorkerFollowsThread ==
  /\ recordCancellation <=> cancellationRequested
  /\ ~cancellationRequested => workerPc = "none" /\ result = "NONE" /\ pc # "refused"
  /\ workerPc \in {"subscribing", "cancelling", "stopping"}
       => /\ workerAction = step
          /\ IsOrder(step) /\ AllPlaced(step)
          /\ pc \notin BeforePlacement \cup {"register"}
  /\ workerPc = "stopping" => workerSource = waitStopSource /\ result # "NONE"
  /\ result \in {"CONFIRMED_CANCELLED", "NATURAL_COMPLETION"}
       => pc \notin BeforePlacement \cup {"register"}
  /\ result = "CONFIRMED_CANCELLED"
       => /\ workerPc \in {"stopping", "finishing", "done"}
          /\ IsOrder(step) /\ AllCancelled(step)
          /\ pc \notin {"complete", "finishOperation", "stepDone", "afterStep"}
  /\ workerPc \in {"finishing", "done"} /\ result = "NONE" /\ ~Stopping
       => pc \notin {"place", "register"} \cup Registered

Agreement ==
  /\ FlagsFollowThread
  /\ SnapshotFollowsThread
  /\ OrdersFollowSnapshot
  /\ WorkerFollowsThread

(***************************************************************************)
(* The inductive invariant: the coordinator, the snapshot, the orders and  *)
(* the worker all agree with the place of the chain thread.                *)
(***************************************************************************)
IInv == TypeOK /\ Agreement
=============================================================================
