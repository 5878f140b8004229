------------------------ MODULE OperationChain_proofs ------------------------
(***************************************************************************)
(* IInv is an inductive invariant of OperationChain, for every chain of    *)
(* operations, and the safety properties follow from it.  A run implements *)
(* OperationChainPromise, and a verdict of the cancellation is final.      *)
(*                                                                         *)
(* TypeOK is proved in three parts, because the provers that handle the    *)
(* Boolean variables and those that handle the others are not the same.    *)
(***************************************************************************)
EXTENDS OperationChainInvariant, TLAPS

\* Tuples of variables and one-line helpers of the actions.
USE DEF vars, serviceVars, monitorVars, flagVars, operationVars, workerVars, chainVars,
        managerVars, recordVars, Goto, SetStep

BooleansOK ==
  /\ cancellationRequested \in BOOLEAN /\ operationActive \in BOOLEAN
  /\ actionMayBeRegistered \in BOOLEAN /\ actionCompletedNaturally \in BOOLEAN
  /\ chainFinished \in BOOLEAN /\ cancellationWorkerRunning \in BOOLEAN
  /\ recordCancellation \in BOOLEAN /\ gateOpen \in BOOLEAN /\ streamUp \in BOOLEAN

LegsOK == legs \in [Steps -> [Leg -> LegStatus]]

ValuesOK ==
  /\ currentAction \in Steps \cup {NoAction}
  /\ waitStopSource \in 0 .. Len(Operations)
  /\ stoppedSources \subseteq 0 .. Len(Operations)
  /\ result \in Verdict \cup {"NONE"}
  /\ workerPc \in WorkerPc
  /\ workerAction \in Steps \cup {NoAction}
  /\ workerSource \in 0 .. Len(Operations)
  /\ pc \in Pc /\ step \in Steps
  /\ chainStatus \in ChainStatus
  /\ stepStatus \in [Steps -> StepStatus]
  /\ recordStatus \in ChainStatus
  /\ shutdown \in {"no", "stopRequested", "streamsStopped", "joined"}

\* The type invariant is the conjunction of its three parts.
LEMMA TypeParts == TypeOK <=> BooleansOK /\ LegsOK /\ ValuesOK
  BY Zenon DEF TypeOK, ServiceTypeOK, CoordinatorTypeOK, BooleansOK, LegsOK, ValuesOK
-----------------------------------------------------------------------------
(***************************************************************************)
(* Facts about the constants and the two operators that change the legs.   *)
(***************************************************************************)
LEMMA StepsAreNumbers ==
  /\ Len(Operations) \in Nat \ {0}
  /\ Steps = 1 .. Len(Operations)
  /\ Steps \subseteq Nat \ {0}
  /\ \A s \in Steps : Operations[s] \in OperationType
<1>1. Operations \in Seq(OperationType) /\ Operations # <<>>
  BY OperationsAssumption
<1>2. Len(Operations) \in Nat \ {0}
  BY <1>1
<1> QED
  BY <1>1, <1>2 DEF Steps

\* What Legs yields for each type of operation.
LEMMA LegsOfStep ==
  ASSUME NEW s \in Steps
  PROVE  /\ Legs(s) \subseteq Leg
         /\ Legs(s) = {} <=> ~IsOrder(s)
<1>1. Operations[s] \in {"PLACE_ORDER", "PLACE_OCO", "SEND_TO"}
  BY StepsAreNumbers DEF OperationType
<1>2. CASE Operations[s] = "PLACE_ORDER"
  BY <1>2 DEF Legs, Leg, IsOrder
<1>3. CASE Operations[s] = "PLACE_OCO"
  BY <1>3 DEF Legs, Leg, IsOrder
<1>4. CASE Operations[s] = "SEND_TO"
  BY <1>4 DEF Legs, Leg, IsOrder
<1> QED
  BY <1>1, <1>2, <1>3, <1>4

\* A placement makes legs of one step active and touches nothing else.
LEMMA LegsPlaced ==
  ASSUME LegsOK, NEW s \in Steps, NEW placed \in SUBSET Legs(s), PlaceLegs(s, placed)
  PROVE  /\ LegsOK'
         /\ \A t \in Steps : t # s => legs'[t] = legs[t]
         /\ \A l \in Leg : legs'[s][l] = IF l \in placed THEN "ACTIVE" ELSE legs[s][l]
<1>1. [l \in Leg |-> IF l \in placed THEN "ACTIVE" ELSE legs[s][l]] \in [Leg -> LegStatus]
  BY DEF LegsOK, LegStatus
<1> QED
  BY <1>1 DEF LegsOK, PlaceLegs

\* The end of a leg changes that leg only, and it was active.
LEMMA LegEnded ==
  ASSUME LegsOK, NEW s \in Steps, NEW l \in Leg, NEW status \in Terminal,
         EndLeg(s, l, status)
  PROVE  /\ LegsOK'
         /\ legs[s][l] = "ACTIVE"
         /\ \A t \in Steps, m \in Leg :
              legs'[t][m] = IF t = s /\ m = l THEN status ELSE legs[t][m]
  BY DEF LegsOK, EndLeg, LegStatus
-----------------------------------------------------------------------------
(***************************************************************************)
(* The initial states.                                                     *)
(***************************************************************************)
LEMMA InitType == Init => TypeOK
<1> SUFFICES ASSUME Init PROVE TypeOK
  OBVIOUS
<1>1. BooleansOK
  BY Zenon DEF Init, ServiceInit, CoordinatorInit, BooleansOK
<1>2. LegsOK
  BY DEF Init, ServiceInit, LegsOK, LegStatus
<1>3. stepStatus \in [Steps -> StepStatus]
  BY DEF Init, StepStatus
<1>4. ValuesOK
  BY <1>3, StepsAreNumbers DEF Init, CoordinatorInit, ValuesOK, WorkerPc, Pc, ChainStatus,
     NoAction
<1> QED
  BY <1>1, <1>2, <1>4, TypeParts

\* In the initial states every place, step and order agrees with the thread.
LEMMA InitAgrees == Init => Agreement
<1> SUFFICES ASSUME Init PROVE Agreement
  OBVIOUS
<1> USE DEF Init, CoordinatorInit
<1>1. FlagsFollowThread
  BY StepsAreNumbers DEF FlagsFollowThread, InOperation, BeforeOperation, Registered, NoAction
<1>2. SnapshotFollowsThread
  BY StepsAreNumbers DEF SnapshotFollowsThread, Registered, Ended
<1>3. OrdersFollowSnapshot
  BY StepsAreNumbers, LegsOfStep DEF OrdersFollowSnapshot, ServiceInit, Placed, BeforePlacement,
     BeforeOperation, Registered
<1>4. WorkerFollowsThread
  BY DEF WorkerFollowsThread
<1> QED
  BY <1>1, <1>2, <1>3, <1>4 DEF Agreement
-----------------------------------------------------------------------------
(***************************************************************************)
(* Every step preserves TypeOK.                                            *)
(***************************************************************************)
LEMMA ChainBooleans == ASSUME BooleansOK, ChainThread PROVE BooleansOK'
<1> USE DEF BooleansOK
<1>1. CASE EnterRun
  BY Zenon, <1>1 DEF EnterRun
<1>2. CASE SkipRun
  BY Zenon, <1>2 DEF SkipRun
<1>3. CASE CancelPendingExecution
  BY Zenon, <1>3 DEF CancelPendingExecution
<1>4. CASE StartExecution
  BY Zenon, <1>4 DEF StartExecution
<1>5. CASE Publish
  BY Zenon, <1>5 DEF Publish
<1>6. CASE CancelBetweenSteps
  BY Zenon, <1>6 DEF CancelBetweenSteps
<1>7. CASE StartStep
  BY Zenon, <1>7 DEF StartStep
<1>8. CASE StartOperation
  BY Zenon, <1>8 DEF StartOperation, startOperation, IsOrder
<1>9. CASE CheckCancellation
  BY Zenon, <1>9 DEF CheckCancellation
<1>10. CASE PlaceOrder
  BY Zenon, <1>10 DEF PlaceOrder, PlaceLegs
<1>11. CASE PlacementFails
  BY Zenon, <1>11 DEF PlacementFails, PlaceLegs
<1>12. CASE RegisterOrder
  BY Zenon, <1>12 DEF RegisterOrder, registerAction
<1>13. CASE Subscribe
  BY Zenon, <1>13 DEF Subscribe
<1>14. CASE SubscriptionFails
  BY Zenon, <1>14 DEF SubscriptionFails
<1>15. CASE WaitFilled
  BY Zenon, <1>15 DEF WaitFilled
<1>16. CASE WaitThrows
  BY Zenon, <1>16 DEF WaitThrows
<1>17. CASE WaitInterrupted
  BY Zenon, <1>17 DEF WaitInterrupted
<1>18. CASE CompleteOrder
  BY Zenon, <1>18 DEF CompleteOrder, completeActionNaturally
<1>19. CASE FinishStep
  BY Zenon, <1>19 DEF FinishStep, finishOperation
<1>20. CASE NextStep
  BY Zenon, <1>20 DEF NextStep
<1>21. CASE FinishExecution
  BY Zenon, <1>21 DEF FinishExecution
<1>22. CASE RefuseOperation
  BY Zenon, <1>22 DEF RefuseOperation, finishOperation
<1>23. CASE LeaveOperation
  BY Zenon, <1>23 DEF LeaveOperation, finishOperation
<1>24. CASE WaitForCancellationResolution
  BY Zenon, <1>24 DEF WaitForCancellationResolution
<1>25. CASE JudgeOutcome
  BY Zenon, <1>25 DEF JudgeOutcome, isCancellationConfirmed
<1>26. CASE FinishChain
  BY Zenon, <1>26 DEF FinishChain, finishChain
<1> QED
  BY <1>1, <1>2, <1>3, <1>4, <1>5, <1>6, <1>7, <1>8, <1>9, <1>10, <1>11, <1>12,
     <1>13, <1>14, <1>15, <1>16, <1>17, <1>18, <1>19, <1>20, <1>21, <1>22, <1>23,
     <1>24, <1>25, <1>26 DEF ChainThread

\* Nor does a step of the cancellation worker.
LEMMA WorkerBooleans == ASSUME BooleansOK, Worker PROVE BooleansOK'
<1> USE DEF BooleansOK
<1>0. UNCHANGED <<chainVars, managerVars>>
  BY DEF Worker
<1>1. CASE WorkerWaits(Stopping)
  BY Zenon, <1>1, <1>0 DEF WorkerWaits
<1>2. CASE WorkerTakesAction(Stopping)
  BY Zenon, <1>2, <1>0 DEF WorkerTakesAction
<1>3. CASE WorkerFindsNothing(Stopping)
  BY Zenon, <1>3, <1>0 DEF WorkerFindsNothing
<1>4. CASE WorkerSubscribes
  BY Zenon, <1>4, <1>0 DEF WorkerSubscribes
<1>5. CASE WorkerCancelsLeg
  BY Zenon, <1>5, <1>0 DEF WorkerCancelsLeg, EndLeg
<1>6. CASE WorkerFindsFill
  BY Zenon, <1>6, <1>0 DEF WorkerFindsFill
<1>7. CASE WorkerConfirms
  BY Zenon, <1>7, <1>0 DEF WorkerConfirms, RecordVerdict
<1>8. CASE WorkerFails
  BY Zenon, <1>8, <1>0 DEF WorkerFails, RecordVerdict
<1>9. CASE WorkerInterrupted(Stopping)
  BY Zenon, <1>9, <1>0 DEF WorkerInterrupted
<1>10. CASE WorkerStopsWait
  BY Zenon, <1>10, <1>0 DEF WorkerStopsWait
<1>11. CASE WorkerFinishes
  BY Zenon, <1>11, <1>0 DEF WorkerFinishes
<1> QED
  BY <1>1, <1>2, <1>3, <1>4, <1>5, <1>6, <1>7, <1>8, <1>9, <1>10, <1>11 DEF
     Worker, CancellationWorker

\* Nor does a step of the exchange, the user or the shutdown.
LEMMA EnvironmentBooleans == ASSUME BooleansOK, Environment PROVE BooleansOK'
<1> USE DEF BooleansOK
<1>1. CASE OpenGate
  BY Zenon, <1>1 DEF OpenGate
<1>2. CASE RequestRunCancellation
  BY Zenon, <1>2 DEF RequestRunCancellation, requestCancellation
<1>3. CASE CreateWorker
  BY Zenon, <1>3 DEF CreateWorker, failCancellation
<1>4. CASE RequestStop
  BY Zenon, <1>4 DEF RequestStop
<1>5. CASE StopLiveUpdates
  BY Zenon, <1>5 DEF StopLiveUpdates
<1>6. CASE JoinWorkers
  BY Zenon, <1>6 DEF JoinWorkers
<1>7. CASE (ExchangeEndsLeg \/ StreamDrops) /\ UNCHANGED <<monitorVars, workerVars, chainVars, managerVars>>
  BY Zenon, <1>7 DEF ExchangeEndsLeg, EndLeg, StreamDrops
<1> QED
  BY <1>1, <1>2, <1>3, <1>4, <1>5, <1>6, <1>7 DEF Environment

\* Every step leaves each leg with a status, whoever takes it.
LEMMA LegsStep == ASSUME TypeOK, [Next]_vars PROVE LegsOK'
<1>1. LegsOK /\ step \in Steps
  BY TypeParts DEF TypeOK
<1>2. CASE PlaceOrder
  BY <1>1, <1>2, LegsPlaced DEF PlaceOrder
<1>3. CASE PlacementFails
  BY <1>1, <1>3, LegsPlaced DEF PlacementFails
<1>4. CASE ExchangeEndsLeg
  BY <1>1, <1>4, LegEnded DEF ExchangeEndsLeg
<1>5. CASE WorkerCancelsLeg
  <2>1. PICK l \in Legs(workerAction) : EndLeg(workerAction, l, "CANCELLED")
    BY <1>5 DEF WorkerCancelsLeg
  <2> QED
    BY <1>1, <2>1 DEF LegsOK, EndLeg, LegStatus, Terminal
<1>6. CASE UNCHANGED legs
  BY <1>1, <1>6 DEF LegsOK
<1>7. CASE ChainThread
  BY <1>2, <1>3, <1>6, <1>7 DEF ChainThread, EnterRun, SkipRun,
     CancelPendingExecution, StartExecution, Publish, CancelBetweenSteps,
     StartStep, StartOperation, CheckCancellation, RegisterOrder, Subscribe,
     SubscriptionFails, WaitFilled, WaitThrows, WaitInterrupted,
     CompleteOrder, FinishStep, NextStep, FinishExecution, RefuseOperation,
     LeaveOperation, WaitForCancellationResolution, JudgeOutcome, FinishChain
<1>8. CASE NonStandardFailure
  BY <1>6, <1>8 DEF NonStandardFailure
<1>9. CASE Worker
  BY <1>5, <1>6, <1>9 DEF Worker, CancellationWorker, WorkerWaits,
     WorkerTakesAction, WorkerFindsNothing, WorkerSubscribes, WorkerFindsFill,
     WorkerConfirms, WorkerFails, WorkerInterrupted, WorkerStopsWait,
     WorkerFinishes, RecordVerdict
<1>10. CASE Environment
  BY <1>4, <1>6, <1>10 DEF Environment, StreamDrops, OpenGate,
     RequestRunCancellation, CreateWorker, RequestStop, StopLiveUpdates,
     JoinWorkers
<1> QED
  BY <1>6, <1>7, <1>8, <1>9, <1>10 DEF Next

\* The chain thread keeps the other variables in their types.
LEMMA ChainValues == ASSUME IInv, ChainThread PROVE ValuesOK'
<1> USE StepsAreNumbers DEF IInv, TypeOK, CoordinatorTypeOK, ValuesOK, Pc, NoAction
<1>1. CASE EnterRun
  BY <1>1 DEF EnterRun
<1>2. CASE SkipRun
  BY <1>2 DEF SkipRun
<1>3. CASE CancelPendingExecution
  BY <1>3 DEF CancelPendingExecution, ChainStatus, TerminalStatus
<1>4. CASE StartExecution
  BY <1>4 DEF StartExecution, ChainStatus, TerminalStatus
<1>5. CASE Publish
  BY <1>5 DEF Publish, AfterPublish, ChainStatus, TerminalStatus
<1>6. CASE CancelBetweenSteps
  BY <1>6 DEF CancelBetweenSteps, ChainStatus, TerminalStatus
<1>7. CASE StartStep
  BY <1>7 DEF StartStep, StepStatus
<1>8. CASE StartOperation
  BY <1>8 DEF StartOperation, startOperation, Agreement, FlagsFollowThread, BeforeOperation
<1>9. CASE CheckCancellation
  BY <1>9 DEF CheckCancellation
<1>10. CASE PlaceOrder
  BY <1>10 DEF PlaceOrder, PlaceLegs
<1>11. CASE PlacementFails
  BY <1>11 DEF PlacementFails, PlaceLegs
<1>12. CASE RegisterOrder
  BY <1>12 DEF RegisterOrder, registerAction, StepStatus
<1>13. CASE Subscribe
  BY <1>13 DEF Subscribe
<1>14. CASE SubscriptionFails
  BY <1>14 DEF SubscriptionFails
<1>15. CASE WaitFilled
  BY <1>15 DEF WaitFilled
<1>16. CASE WaitThrows
  BY <1>16 DEF WaitThrows
<1>17. CASE WaitInterrupted
  BY <1>17 DEF WaitInterrupted
<1>18. CASE CompleteOrder
  BY <1>18 DEF CompleteOrder, completeActionNaturally, Verdict
<1>19. CASE FinishStep
  BY <1>19 DEF FinishStep, finishOperation, StepStatus
<1>20. CASE NextStep
  BY <1>20 DEF NextStep
<1>21. CASE FinishExecution
  BY <1>21 DEF FinishExecution, ChainStatus, TerminalStatus
<1>22. CASE RefuseOperation
  BY <1>22 DEF RefuseOperation, finishOperation, EndStep, StepStatus, ChainStatus, TerminalStatus
<1>23. CASE LeaveOperation
  BY <1>23 DEF LeaveOperation, finishOperation
<1>24. CASE WaitForCancellationResolution
  BY <1>24 DEF WaitForCancellationResolution
<1>25. CASE JudgeOutcome
  BY <1>25 DEF JudgeOutcome, EndStep, isCancellationConfirmed, StepStatus, ChainStatus, TerminalStatus
<1>26. CASE FinishChain
  BY <1>26 DEF FinishChain, finishChain
<1> QED
  BY <1>1, <1>2, <1>3, <1>4, <1>5, <1>6, <1>7, <1>8, <1>9, <1>10, <1>11, <1>12,
     <1>13, <1>14, <1>15, <1>16, <1>17, <1>18, <1>19, <1>20, <1>21, <1>22, <1>23,
     <1>24, <1>25, <1>26 DEF ChainThread

\* So does the cancellation worker.
LEMMA WorkerValues == ASSUME IInv, Worker PROVE ValuesOK'
<1> USE StepsAreNumbers DEF IInv, TypeOK, CoordinatorTypeOK, ValuesOK, WorkerPc, Verdict
<1>0. UNCHANGED <<chainVars, managerVars>>
  BY DEF Worker
<1>1. CASE WorkerWaits(Stopping)
  BY <1>1, <1>0 DEF WorkerWaits
<1>2. CASE WorkerTakesAction(Stopping)
  BY <1>2, <1>0 DEF WorkerTakesAction
<1>3. CASE WorkerFindsNothing(Stopping)
  BY <1>3, <1>0 DEF WorkerFindsNothing
<1>4. CASE WorkerSubscribes
  BY <1>4, <1>0 DEF WorkerSubscribes
<1>5. CASE WorkerCancelsLeg
  BY <1>5, <1>0 DEF WorkerCancelsLeg, EndLeg
<1>6. CASE WorkerFindsFill
  BY <1>6, <1>0 DEF WorkerFindsFill
<1>7. CASE WorkerConfirms
  BY <1>7, <1>0 DEF WorkerConfirms, RecordVerdict
<1>8. CASE WorkerFails
  BY <1>8, <1>0 DEF WorkerFails, RecordVerdict
<1>9. CASE WorkerInterrupted(Stopping)
  BY <1>9, <1>0 DEF WorkerInterrupted
<1>10. CASE WorkerStopsWait
  BY <1>10, <1>0 DEF WorkerStopsWait
<1>11. CASE WorkerFinishes
  BY <1>11, <1>0 DEF WorkerFinishes
<1> QED
  BY <1>1, <1>2, <1>3, <1>4, <1>5, <1>6, <1>7, <1>8, <1>9, <1>10, <1>11 DEF
     Worker, CancellationWorker

\* So do the exchange, the user and the shutdown.
LEMMA EnvironmentValues == ASSUME IInv, Environment PROVE ValuesOK'
<1> USE StepsAreNumbers DEF IInv, TypeOK, CoordinatorTypeOK, ValuesOK, WorkerPc, Verdict
<1>1. CASE OpenGate
  BY <1>1 DEF OpenGate
<1>2. CASE RequestRunCancellation
  BY <1>2 DEF RequestRunCancellation, requestCancellation
<1>3. CASE CreateWorker
  <2>1. stoppedSources' \subseteq 0 .. Len(Operations) /\ result' \in Verdict \cup {"NONE"}
    BY <1>3 DEF CreateWorker, failCancellation
  <2> QED
    BY <1>3, <2>1 DEF CreateWorker, failCancellation
<1>4. CASE RequestStop
  BY <1>4 DEF RequestStop
<1>5. CASE StopLiveUpdates
  BY <1>5 DEF StopLiveUpdates
<1>6. CASE JoinWorkers
  BY <1>6 DEF JoinWorkers
<1>7. CASE (ExchangeEndsLeg \/ StreamDrops) /\ UNCHANGED <<monitorVars, workerVars, chainVars, managerVars>>
  BY <1>7
<1> QED
  BY <1>1, <1>2, <1>3, <1>4, <1>5, <1>6, <1>7 DEF Environment

\* Together: every step preserves the type invariant.
LEMMA TypeStep == IInv /\ [Next]_vars => TypeOK'
<1> SUFFICES ASSUME IInv, [Next]_vars PROVE TypeOK'
  OBVIOUS
<1>1. TypeOK /\ BooleansOK /\ LegsOK' /\ ValuesOK
  BY TypeParts, LegsStep DEF IInv
<1>0. BooleansOK' /\ ValuesOK' => TypeOK'
  BY Zenon, <1>1 DEF TypeOK, ServiceTypeOK, CoordinatorTypeOK, BooleansOK, LegsOK, ValuesOK
<1>2. CASE ChainThread
  BY <1>1, <1>2, ChainBooleans, ChainValues, <1>0
<1>3. CASE Worker
  BY <1>1, <1>3, WorkerBooleans, WorkerValues, <1>0
<1>4. CASE Environment
  BY <1>1, <1>4, EnvironmentBooleans, EnvironmentValues, <1>0
<1>5. CASE NonStandardFailure
  <2>1. BooleansOK'
    BY Zenon, <1>1, <1>5 DEF BooleansOK, NonStandardFailure, finishOperation
  <2>2. ValuesOK'
    BY <1>1, <1>5 DEF ValuesOK, NonStandardFailure, finishOperation, EndStep, Pc, StepStatus,
       ChainStatus, TerminalStatus
  <2> QED
    BY <2>1, <2>2, <1>0
<1>6. CASE UNCHANGED vars
  <2>1. BooleansOK'
    BY Zenon, <1>1, <1>6 DEF BooleansOK
  <2>2. ValuesOK'
    BY <1>1, <1>6 DEF ValuesOK
  <2> QED
    BY <2>1, <2>2, <1>0
<1> QED
  BY <1>2, <1>3, <1>4, <1>5, <1>6 DEF Next
-----------------------------------------------------------------------------
(***************************************************************************)
(* Every step preserves Agreement.                                         *)
(***************************************************************************)
LEMMA ChainAgrees == ASSUME IInv, ChainThread PROVE Agreement'
<1> USE StepsAreNumbers, LegsOfStep
    DEF IInv, TypeOK, CoordinatorTypeOK, Agreement, FlagsFollowThread, SnapshotFollowsThread,
        OrdersFollowSnapshot, WorkerFollowsThread, InOperation, BeforeOperation,
        BeforePlacement, Registered, Ended, Placed, AllPlaced, WaitSucceeds, AllCancelled,
        Unfilled, IsOrder, NoAction, Stopping
<1>1. CASE EnterRun
  BY <1>1 DEF EnterRun
<1>2. CASE SkipRun
  BY <1>2 DEF SkipRun
<1>3. CASE CancelPendingExecution
  BY <1>3 DEF CancelPendingExecution
<1>4. CASE StartExecution
  BY <1>4 DEF StartExecution
<1>5. CASE Publish
  BY <1>5 DEF Publish, AfterPublish
<1>6. CASE CancelBetweenSteps
  BY <1>6 DEF CancelBetweenSteps
<1>7. CASE StartStep
  BY <1>7 DEF StartStep
<1>8. CASE StartOperation
  <2>1. actionMayBeRegistered' <=> IsOrder(step)
    BY Zenon, <1>8 DEF StartOperation, startOperation
  <2>2. UNCHANGED <<serviceVars, workerVars, step, chainStatus, stepStatus, managerVars,
                    cancellationRequested, chainFinished, cancellationWorkerRunning>>
    BY <1>8 DEF StartOperation, startOperation
  <2> QED
    BY <1>8, <2>1, <2>2 DEF StartOperation, startOperation
<1>9. CASE CheckCancellation
  BY <1>9 DEF CheckCancellation
<1>10. CASE PlaceOrder
  <2>1. /\ \A t \in Steps : t # step => legs'[t] = legs[t]
        /\ \A l \in Leg : legs'[step][l] = IF l \in Legs(step) THEN "ACTIVE" ELSE legs[step][l]
    BY <1>10, TypeParts, LegsPlaced DEF PlaceOrder
  <2> QED
    BY <1>10, <2>1 DEF PlaceOrder
<1>11. CASE PlacementFails
  <2>1. \A t \in Steps : t # step => legs'[t] = legs[t]
    BY <1>11, TypeParts, LegsPlaced DEF PlacementFails
  <2> QED
    BY <1>11, <2>1 DEF PlacementFails
<1>12. CASE RegisterOrder
  BY <1>12 DEF RegisterOrder, registerAction
<1>13. CASE Subscribe
  BY <1>13 DEF Subscribe
<1>14. CASE SubscriptionFails
  BY <1>14 DEF SubscriptionFails
<1>15. CASE WaitFilled
  BY <1>15 DEF WaitFilled
<1>16. CASE WaitThrows
  BY <1>16 DEF WaitThrows
<1>17. CASE WaitInterrupted
  BY <1>17 DEF WaitInterrupted
<1>18. CASE CompleteOrder
  BY <1>18 DEF CompleteOrder, completeActionNaturally
<1>19. CASE FinishStep
  BY <1>19 DEF FinishStep, finishOperation
<1>20. CASE NextStep
  BY <1>20 DEF NextStep
<1>21. CASE FinishExecution
  BY <1>21 DEF FinishExecution
<1>22. CASE RefuseOperation
  BY <1>22 DEF RefuseOperation, finishOperation, EndStep
<1>23. CASE LeaveOperation
  BY <1>23 DEF LeaveOperation, finishOperation
<1>24. CASE WaitForCancellationResolution
  BY <1>24 DEF WaitForCancellationResolution
<1>25. CASE JudgeOutcome
  BY <1>25 DEF JudgeOutcome, EndStep, isCancellationConfirmed
<1>26. CASE FinishChain
  BY <1>26 DEF FinishChain, finishChain
<1> QED
  BY <1>1, <1>2, <1>3, <1>4, <1>5, <1>6, <1>7, <1>8, <1>9, <1>10, <1>11, <1>12,
     <1>13, <1>14, <1>15, <1>16, <1>17, <1>18, <1>19, <1>20, <1>21, <1>22, <1>23,
     <1>24, <1>25, <1>26 DEF ChainThread

\* A step of the cancellation worker keeps the agreement.
LEMMA WorkerAgrees == ASSUME IInv, Worker PROVE Agreement'
<1> USE StepsAreNumbers, LegsOfStep
    DEF IInv, TypeOK, CoordinatorTypeOK, Agreement, FlagsFollowThread, SnapshotFollowsThread,
        OrdersFollowSnapshot, WorkerFollowsThread, InOperation, BeforeOperation,
        BeforePlacement, Registered, Ended, Placed, AllPlaced, WaitSucceeds, AllCancelled,
        Unfilled, IsOrder, NoAction, Stopping, NaturalWins
<1>0. UNCHANGED <<chainVars, managerVars>>
  BY DEF Worker
<1>1. CASE WorkerWaits(Stopping)
  BY <1>1, <1>0 DEF WorkerWaits
<1>2. CASE WorkerTakesAction(Stopping)
  BY <1>2, <1>0 DEF WorkerTakesAction
<1>3. CASE WorkerFindsNothing(Stopping)
  BY <1>3, <1>0 DEF WorkerFindsNothing
<1>4. CASE WorkerSubscribes
  BY <1>4, <1>0 DEF WorkerSubscribes
<1>5. CASE WorkerCancelsLeg
  BY <1>5, <1>0 DEF WorkerCancelsLeg, EndLeg
<1>6. CASE WorkerFindsFill
  BY <1>6, <1>0 DEF WorkerFindsFill
<1>7. CASE WorkerConfirms
  BY <1>7, <1>0 DEF WorkerConfirms, RecordVerdict
<1>8. CASE WorkerFails
  BY <1>8, <1>0 DEF WorkerFails, RecordVerdict
<1>9. CASE WorkerInterrupted(Stopping)
  BY <1>9, <1>0 DEF WorkerInterrupted
<1>10. CASE WorkerStopsWait
  BY <1>10, <1>0 DEF WorkerStopsWait
<1>11. CASE WorkerFinishes
  BY <1>11, <1>0 DEF WorkerFinishes
<1> QED
  BY <1>1, <1>2, <1>3, <1>4, <1>5, <1>6, <1>7, <1>8, <1>9, <1>10, <1>11 DEF
     Worker, CancellationWorker

\* A step of the exchange, the user or the shutdown keeps the agreement.
LEMMA EnvironmentAgrees == ASSUME IInv, Environment PROVE Agreement'
<1> USE StepsAreNumbers, LegsOfStep
    DEF IInv, TypeOK, CoordinatorTypeOK, Agreement, FlagsFollowThread, SnapshotFollowsThread,
        OrdersFollowSnapshot, WorkerFollowsThread, InOperation, BeforeOperation,
        BeforePlacement, Registered, Ended, Placed, AllPlaced, WaitSucceeds, AllCancelled,
        Unfilled, IsOrder, NoAction, Stopping
<1>1. CASE OpenGate
  BY <1>1 DEF OpenGate
<1>2. CASE RequestRunCancellation
  BY <1>2 DEF RequestRunCancellation, requestCancellation
<1>3. CASE CreateWorker
  BY <1>3 DEF CreateWorker, failCancellation, NaturalWins
<1>4. CASE RequestStop
  BY <1>4 DEF RequestStop
<1>5. CASE StopLiveUpdates
  BY <1>5 DEF StopLiveUpdates
<1>6. CASE JoinWorkers
  BY <1>6 DEF JoinWorkers
<1>7. CASE ExchangeEndsLeg /\ UNCHANGED <<monitorVars, workerVars, chainVars, managerVars>>
  BY <1>7 DEF ExchangeEndsLeg, EndLeg, Terminal
<1>8. CASE StreamDrops /\ UNCHANGED <<monitorVars, workerVars, chainVars, managerVars>>
  BY <1>8 DEF StreamDrops
<1> QED
  BY <1>1, <1>2, <1>3, <1>4, <1>5, <1>6, <1>7, <1>8 DEF Environment

\* Together: every step preserves the agreement.
LEMMA AgreementStep == IInv /\ [Next]_vars => Agreement'
<1> SUFFICES ASSUME IInv, [Next]_vars PROVE Agreement'
  OBVIOUS
<1> USE StepsAreNumbers
    DEF IInv, TypeOK, Agreement, FlagsFollowThread, SnapshotFollowsThread,
        OrdersFollowSnapshot, WorkerFollowsThread, InOperation, BeforeOperation,
        BeforePlacement, Registered, Ended, Placed, AllPlaced, WaitSucceeds, AllCancelled,
        Unfilled, IsOrder, NoAction, Stopping
<1>1. CASE NonStandardFailure
  BY <1>1 DEF NonStandardFailure, finishOperation, EndStep
<1>2. CASE UNCHANGED vars
  BY <1>2
<1> QED
  BY <1>1, <1>2, ChainAgrees, WorkerAgrees, EnvironmentAgrees DEF Next

(***************************************************************************)
(* The inductive invariant holds in every reachable state, for every chain *)
(* of operations.                                                          *)
(***************************************************************************)
THEOREM InvariantHolds == Spec => []IInv
<1>1. Init => IInv
  BY InitType, InitAgrees DEF IInv
<1>2. IInv /\ [Next]_vars => IInv'
  BY TypeStep, AgreementStep DEF IInv
<1> QED
  BY <1>1, <1>2, PTL DEF Spec
-----------------------------------------------------------------------------
(***************************************************************************)
(* Every variable of a run keeps its type.                                 *)
(***************************************************************************)
THEOREM TypeCorrect == Spec => []TypeOK
<1>1. IInv => TypeOK
  BY DEF IInv
<1> QED
  BY <1>1, InvariantHolds, PTL

(***************************************************************************)
(* A run reported as cancelled leaves no order that is, or can still be,   *)
(* traded by the step it cancelled, however the cancel request races the   *)
(* placement, the fill and the wait.                                       *)
(***************************************************************************)
THEOREM CancellationIsClean == Spec => []CancelledRunHoldsNoOrder
<1>1. IInv => CancelledRunHoldsNoOrder
  <2> SUFFICES ASSUME IInv, chainStatus = "CANCELLED", NEW s \in Steps
               PROVE  \/ stepStatus[s] = "SUCCEEDED"
                      \/ stepStatus[s] = "CANCELLED" /\ (AllCancelled(s) \/ ~Placed(s))
                      \/ stepStatus[s] = "PENDING" /\ ~Placed(s)
    BY DEF CancelledRunHoldsNoOrder
  <2>1. step \in Steps /\ pc \in Ended
    BY DEF IInv, TypeOK, Agreement, SnapshotFollowsThread
  <2>2. stepStatus[step] \in {"PENDING", "SUCCEEDED", "CANCELLED"}
    BY <2>1 DEF IInv, Agreement, SnapshotFollowsThread
  <2>3. s < step \/ s = step \/ s > step
    BY <2>1, StepsAreNumbers
  <2>4. stepStatus[s] \in {"PENDING", "SUCCEEDED", "CANCELLED"}
    BY <2>2, <2>3 DEF IInv, Agreement, SnapshotFollowsThread
  <2> QED
    BY <2>4 DEF IInv, Agreement, OrdersFollowSnapshot
<1> QED
  BY <1>1, InvariantHolds, PTL

(***************************************************************************)
(* A step that reports success was filled by one leg and left none alive.  *)
(***************************************************************************)
THEOREM SuccessIsFilled == Spec => []SucceededStepWasFilled
<1>1. IInv => SucceededStepWasFilled
  BY DEF IInv, Agreement, OrdersFollowSnapshot, SucceededStepWasFilled
<1> QED
  BY <1>1, InvariantHolds, PTL

(***************************************************************************)
(* The worker gives up without a verdict only when the chain thread can no *)
(* longer place, register or wait for an order, or at shutdown.            *)
(***************************************************************************)
THEOREM NoOrderIsMissed == Spec => []WorkerNeverMissesAnOrder
<1>1. IInv => WorkerNeverMissesAnOrder
  BY DEF IInv, Agreement, WorkerFollowsThread, WorkerNeverMissesAnOrder, Registered
<1> QED
  BY <1>1, InvariantHolds, PTL

(***************************************************************************)
(* What the worker copied out of the monitor stays current while it uses   *)
(* it: the chain does not move on under its hands.                         *)
(***************************************************************************)
THEOREM CopiesStayCurrent == Spec => []WorkerActsOnCurrentOperation
<1>1. IInv => WorkerActsOnCurrentOperation
  BY DEF IInv, Agreement, WorkerFollowsThread, WorkerActsOnCurrentOperation
<1> QED
  BY <1>1, InvariantHolds, PTL

(***************************************************************************)
(* The sanity checks of the coordinator never throw.                       *)
(***************************************************************************)
THEOREM ChecksNeverThrow == Spec => []CoordinatorNeverThrows
<1>1. IInv => CoordinatorNeverThrows
  BY DEF IInv, Agreement, FlagsFollowThread, CoordinatorNeverThrows, InOperation, Registered
<1> QED
  BY <1>1, InvariantHolds, PTL
-----------------------------------------------------------------------------
(***************************************************************************)
(* A confirmed cancellation or a natural completion is never replaced.     *)
(***************************************************************************)
THEOREM VerdictsAreFinal == Spec => VerdictIsFinal
<1>1. IInv /\ [Next]_vars
        => (result \in {"CONFIRMED_CANCELLED", "NATURAL_COMPLETION"} => result' = result)
  <2> SUFFICES ASSUME IInv, [Next]_vars,
                      result \in {"CONFIRMED_CANCELLED", "NATURAL_COMPLETION"}
               PROVE  result' = result
    OBVIOUS
  <2>1. /\ pc # "startOperation"
        /\ pc = "complete" => result = "NATURAL_COMPLETION"
        /\ result = "CONFIRMED_CANCELLED" => workerPc \in {"stopping", "finishing", "done"}
    BY DEF IInv, Agreement, WorkerFollowsThread, BeforePlacement, BeforeOperation
  <2>2. CASE ChainThread
    BY <2>1, <2>2 DEF ChainThread, EnterRun, SkipRun, CancelPendingExecution, StartExecution,
       Publish, CancelBetweenSteps, StartStep, StartOperation, CheckCancellation, PlaceOrder,
       PlacementFails, RegisterOrder, registerAction, Subscribe, SubscriptionFails, WaitFilled,
       WaitThrows, WaitInterrupted, CompleteOrder, completeActionNaturally, FinishStep,
       NextStep, FinishExecution, RefuseOperation, LeaveOperation, finishOperation,
       WaitForCancellationResolution, JudgeOutcome, FinishChain, finishChain
  <2>3. CASE NonStandardFailure
    BY <2>3 DEF NonStandardFailure, finishOperation
  <2>4. CASE Worker
    BY <2>1, <2>4 DEF Worker, CancellationWorker, WorkerWaits, WorkerTakesAction,
       WorkerFindsNothing, WorkerSubscribes, WorkerCancelsLeg, RecordVerdict, NaturalWins,
       WorkerFindsFill, WorkerConfirms, WorkerFails, WorkerInterrupted, WorkerStopsWait,
       WorkerFinishes
  <2>5. CASE Environment
    BY <2>1, <2>5 DEF Environment, OpenGate, RequestRunCancellation, requestCancellation,
       CreateWorker, failCancellation, NaturalWins, RequestStop, StopLiveUpdates, JoinWorkers
  <2>6. CASE UNCHANGED vars
    BY <2>6
  <2> QED
    BY <2>2, <2>3, <2>4, <2>5, <2>6 DEF Next
<1> QED
  BY <1>1, InvariantHolds, PTL DEF Spec, VerdictIsFinal
-----------------------------------------------------------------------------
(***************************************************************************)
(* The refinement.  The promise's traded is the set of steps with a filled *)
(* leg; a step that changes no leg leaves it alone.                        *)
(***************************************************************************)
Traded == {s \in Steps : AnyFilled(s)}

\* Nothing is traded unless a leg changes.
LEMMA TradedUnchanged == ASSUME UNCHANGED legs PROVE Traded' = Traded
  BY DEF Traded, AnyFilled

\* A placement fills nothing.
LEMMA PlacementTradesNothing ==
  ASSUME IInv, pc = "place", NEW placed \in SUBSET Legs(step), PlaceLegs(step, placed)
  PROVE  Traded' = Traded
<1>1. LegsOK /\ step \in Steps
  BY TypeParts DEF IInv, TypeOK
<1>2. /\ \A t \in Steps : t # step => legs'[t] = legs[t]
      /\ \A l \in Leg : legs'[step][l] = IF l \in placed THEN "ACTIVE" ELSE legs[step][l]
  BY <1>1, LegsPlaced
<1>3. \A l \in Legs(step) : l \in Leg /\ legs[step][l] = "NONE"
  BY <1>1, LegsOfStep DEF IInv, Agreement, OrdersFollowSnapshot, BeforePlacement, Placed
<1> QED
  BY <1>1, <1>2, <1>3 DEF Traded, AnyFilled

\* A leg can be filled only in a step under way or failed.
LEMMA FillIsATrade ==
  ASSUME IInv, NEW s \in Steps, NEW l \in Leg, NEW status \in Terminal, EndLeg(s, l, status)
  PROVE  \/ Traded' = Traded
         \/ /\ s \in Steps /\ IsOrder(s)
            /\ stepStatus[s] \in {"RUNNING", "AWAITING", "FAILED"}
            /\ Traded' = Traded \cup {s}
<1>1. /\ LegsOK /\ legs[s][l] = "ACTIVE"
      /\ \A t \in Steps, m \in Leg : legs'[t][m] = IF t = s /\ m = l THEN status ELSE legs[t][m]
  BY TypeParts, LegEnded DEF IInv
<1>2. \A t \in Steps : Legs(t) \subseteq Leg /\ (Legs(t) = {} <=> ~IsOrder(t))
  BY LegsOfStep
<1>3. CASE l \notin Legs(s) \/ status # "FILLED"
  BY <1>1, <1>2, <1>3 DEF Traded, AnyFilled
<1>4. CASE l \in Legs(s) /\ status = "FILLED"
  <2>1. Traded' = Traded \cup {s}
    BY <1>1, <1>2, <1>4 DEF Traded, AnyFilled
  <2>2. IsOrder(s)
    BY <1>2, <1>4
  <2>3. stepStatus[s] \notin {"PENDING", "SUCCEEDED", "CANCELLED"}
    BY <1>1, <1>4, <2>2 DEF IInv, Agreement, OrdersFollowSnapshot, Placed, WaitSucceeds,
       AllCancelled, Unfilled
  <2>4. stepStatus[s] \in StepStatus
    BY DEF IInv, TypeOK
  <2> QED
    BY <2>1, <2>2, <2>3, <2>4 DEF StepStatus
<1> QED
  BY <1>3, <1>4

\* The initial states of the run are initial states of the promise.
LEMMA PromiseInitially == Init => Promise!PromiseInit
<1> SUFFICES ASSUME Init PROVE Promise!PromiseInit
  OBVIOUS
<1>1. {s \in Steps : AnyFilled(s)} = {}
  BY LegsOfStep DEF Init, ServiceInit, AnyFilled
<1> QED
  BY <1>1 DEF Init, CoordinatorInit, Promise!PromiseInit, Promise!Step, Steps

PromiseStutters == UNCHANGED <<chainStatus, stepStatus, cancellationRequested, Traded>>

PromiseSteps == Promise!PromiseNext \/ PromiseStutters

\* The chain thread: each of its actions is a step of the promise or a stutter.
LEMMA ChainKeepsPromise == ASSUME IInv, ChainThread PROVE PromiseSteps
<1> USE StepsAreNumbers DEF PromiseSteps, PromiseStutters
<1>1. /\ step \in Steps /\ Promise!Step = Steps /\ stepStatus \in [Steps -> StepStatus]
      /\ \A s \in Steps : s < step => stepStatus[s] = "SUCCEEDED"
      /\ \A s \in Steps : s > step => stepStatus[s] = "PENDING"
  BY DEF IInv, TypeOK, Agreement, SnapshotFollowsThread, Promise!Step, Steps
<1>2. CASE UNCHANGED <<chainStatus, stepStatus, cancellationRequested, legs>>
  BY <1>2, TradedUnchanged
<1>3. CASE CancelPendingExecution \/ CancelBetweenSteps
  <2>1. /\ cancellationRequested /\ chainStatus \in {"PENDING", "RUNNING"}
        /\ chainStatus' = "CANCELLED"
        /\ UNCHANGED <<stepStatus, cancellationRequested, legs>>
    BY <1>3 DEF CancelPendingExecution, CancelBetweenSteps, IInv, Agreement,
       SnapshotFollowsThread, Ended
  <2>2. \A s \in Steps : stepStatus[s] \in {"PENDING", "SUCCEEDED"}
    BY <1>1, <1>3 DEF CancelPendingExecution, CancelBetweenSteps, IInv, Agreement,
       SnapshotFollowsThread
  <2>3. \E s \in Steps : stepStatus[s] = "PENDING"
    <3>1. stepStatus[step] = "PENDING" \/ step + 1 \in Steps
      BY <1>1, <1>3 DEF CancelPendingExecution, CancelBetweenSteps, IInv, Agreement,
         SnapshotFollowsThread
    <3> QED
      BY <1>1, <3>1
  <2> QED
    BY <1>1, <2>1, <2>2, <2>3, TradedUnchanged
    DEF Promise!PromiseNext, Promise!CancelIdle, Promise!Active, Traded
<1>4. CASE StartExecution
  BY <1>4, TradedUnchanged
  DEF StartExecution, IInv, Agreement, SnapshotFollowsThread, Promise!PromiseNext,
      Promise!Start, Traded
<1>5. CASE StartStep
  <2>1. \A t \in 1 .. step - 1 : stepStatus[t] = "SUCCEEDED"
    BY <1>1
  <2> QED
    BY <1>1, <1>5, <2>1, TradedUnchanged
    DEF StartStep, IInv, Agreement, SnapshotFollowsThread, Ended, Promise!PromiseNext,
        Promise!BeginStep, Traded
<1>6. CASE PlaceOrder \/ PlacementFails
  BY <1>6, PlacementTradesNothing DEF PlaceOrder, PlacementFails
<1>7. CASE RegisterOrder
  BY <1>1, <1>7, TradedUnchanged
  DEF RegisterOrder, registerAction, IInv, Agreement, SnapshotFollowsThread, FlagsFollowThread,
      Promise!PromiseNext, Promise!AwaitFill, Traded
<1>8. CASE FinishStep
  <2>1. /\ stepStatus[step] \in {"RUNNING", "AWAITING"}
        /\ IsOrder(step) => AnyFilled(step)
    BY <1>1, <1>8 DEF FinishStep, IInv, Agreement, SnapshotFollowsThread, OrdersFollowSnapshot,
       WaitSucceeds, AnyFilled
  <2> QED
    BY <1>1, <1>8, <2>1, TradedUnchanged
    DEF FinishStep, finishOperation, Promise!PromiseNext, Promise!Succeed, Promise!Active, Traded
<1>9. CASE FinishExecution
  <2>1. \A s \in Steps : stepStatus[s] = "SUCCEEDED"
    BY <1>1, <1>9 DEF FinishExecution, IInv, Agreement, SnapshotFollowsThread
  <2> QED
    BY <1>1, <1>9, <2>1, TradedUnchanged
    DEF FinishExecution, IInv, Agreement, SnapshotFollowsThread, Ended, Promise!PromiseNext,
        Promise!Complete, Traded
<1>10. CASE RefuseOperation
  <2>1. ~AnyFilled(step) /\ cancellationRequested /\ stepStatus[step] = "RUNNING"
    BY <1>1, <1>10, LegsOfStep DEF RefuseOperation, IInv, Agreement, SnapshotFollowsThread,
       OrdersFollowSnapshot, WorkerFollowsThread, BeforePlacement, Placed, AnyFilled
  <2> QED
    BY <1>1, <1>10, <2>1, TradedUnchanged
    DEF RefuseOperation, finishOperation, EndStep, Promise!PromiseNext, Promise!CancelStep,
        Promise!Active, Traded
<1>11. CASE JudgeOutcome
  <2>1. stepStatus[step] \in {"RUNNING", "AWAITING"}
    BY <1>11 DEF JudgeOutcome, IInv, Agreement, SnapshotFollowsThread
  <2>2. CASE isCancellationConfirmed
    <3>1. cancellationRequested /\ ~AnyFilled(step)
      BY <2>2 DEF isCancellationConfirmed, IInv, Agreement, WorkerFollowsThread, AllCancelled,
         AnyFilled
    <3> QED
      BY <1>1, <1>11, <2>1, <2>2, <3>1, TradedUnchanged
      DEF JudgeOutcome, EndStep, Promise!PromiseNext, Promise!CancelStep, Promise!Active, Traded
  <2>3. CASE ~isCancellationConfirmed
    BY <1>1, <1>11, <2>1, <2>3, TradedUnchanged
    DEF JudgeOutcome, EndStep, Promise!PromiseNext, Promise!Fail, Promise!Active, Traded
  <2> QED
    BY <2>2, <2>3
<1> QED
  BY <1>2, <1>3, <1>4, <1>5, <1>6, <1>7, <1>8, <1>9, <1>10, <1>11
  DEF ChainThread, EnterRun, SkipRun, Publish, StartOperation, startOperation,
      CheckCancellation, Subscribe, SubscriptionFails, WaitFilled, WaitThrows, WaitInterrupted,
      CompleteOrder, completeActionNaturally, NextStep, LeaveOperation, finishOperation,
      WaitForCancellationResolution, FinishChain, finishChain

\* The worker, the exchange, the user and the shutdown keep the promise too.
LEMMA OthersKeepPromise ==
  ASSUME IInv, NonStandardFailure \/ Worker \/ Environment \/ UNCHANGED vars
  PROVE  PromiseSteps
<1> USE DEF PromiseSteps, PromiseStutters
<1>1. /\ step \in Steps /\ Promise!Step = Steps /\ stepStatus \in [Steps -> StepStatus]
  BY DEF IInv, TypeOK, Promise!Step, Steps
<1>2. CASE UNCHANGED <<chainStatus, stepStatus, cancellationRequested, legs>>
  BY <1>2, TradedUnchanged
<1>3. CASE NonStandardFailure
  <2>1. stepStatus[step] \in {"RUNNING", "AWAITING"}
    BY <1>3 DEF NonStandardFailure, IInv, Agreement, SnapshotFollowsThread, Registered
  <2> QED
    BY <1>1, <1>3, <2>1, TradedUnchanged
    DEF NonStandardFailure, finishOperation, EndStep, Promise!PromiseNext, Promise!Fail,
        Promise!Active, Traded
<1>4. CASE RequestRunCancellation
  BY <1>4, TradedUnchanged
  DEF RequestRunCancellation, requestCancellation, Promise!PromiseNext, Promise!Request, Traded
<1>5. CASE ExchangeEndsLeg /\ UNCHANGED <<monitorVars, workerVars, chainVars, managerVars>>
  <2>1. PICK s \in Steps, l \in Leg, status \in Terminal : EndLeg(s, l, status)
    BY <1>5 DEF ExchangeEndsLeg
  <2>2. CASE Traded' = Traded
    BY <1>5, <2>2
  <2>3. CASE /\ IsOrder(s) /\ stepStatus[s] \in {"RUNNING", "AWAITING", "FAILED"}
             /\ Traded' = Traded \cup {s}
    BY <1>1, <1>5, <2>3 DEF Promise!PromiseNext, Promise!Trade, Promise!Active, Traded
  <2> QED
    BY <2>1, <2>2, <2>3, FillIsATrade
<1>6. CASE Worker /\ WorkerCancelsLeg
  <2>1. PICK l \in Legs(workerAction) : EndLeg(workerAction, l, "CANCELLED")
    BY <1>6 DEF WorkerCancelsLeg
  <2>2. Traded' = Traded
    BY <2>1, TypeParts, LegsOfStep DEF IInv, LegsOK, EndLeg, Traded, AnyFilled
  <2> QED
    BY <1>6, <2>2 DEF Worker, WorkerCancelsLeg
<1>7. CASE Worker /\ ~WorkerCancelsLeg
  BY <1>2, <1>7
  DEF Worker, CancellationWorker, WorkerWaits, WorkerTakesAction, WorkerFindsNothing,
      WorkerSubscribes, RecordVerdict, WorkerFindsFill, WorkerConfirms, WorkerFails,
      WorkerInterrupted, WorkerStopsWait, WorkerFinishes
<1> QED
  BY <1>2, <1>3, <1>4, <1>5, <1>6, <1>7
  DEF Environment, StreamDrops, OpenGate, CreateWorker, failCancellation, RequestStop,
      StopLiveUpdates, JoinWorkers

(***************************************************************************)
(* Every run keeps the promise made to its observers, for every chain of   *)
(* operations: steps are executed one by one, success needs a fill, a      *)
(* cancelled step never trades and nothing starts after a request.         *)
(***************************************************************************)
THEOREM PromiseIsKept == Spec => KeepsPromise
<1>1. IInv /\ [Next]_vars => [Promise!PromiseNext]_(Promise!promiseVars)
  BY ChainKeepsPromise, OthersKeepPromise
  DEF Next, PromiseSteps, PromiseStutters, Promise!promiseVars, Traded
<1> QED
  BY <1>1, PromiseInitially, InvariantHolds, PTL DEF Spec, KeepsPromise, Promise!PromiseSpec
=============================================================================
