------------------ MODULE SimulatedOperationChainRun_proofs ------------------
(***************************************************************************)
(* Proofs about the demonstration run, for every plan.                     *)
(***************************************************************************)
EXTENDS SimulatedOperationChainRun, TLAPS

BeforeStep == {"startDelay", "startInterrupted", "started", "loop", "checkCancellation"}

InStep == {"stepStarted", "stepDelay", "stepInterrupted"}

\* The snapshot follows the thread.
SnapshotFollowsThread ==
  /\ \A s \in Step : /\ s < step => steps[s] = "SUCCEEDED"
                     /\ s > step => steps[s] = "PENDING"
  /\ pc \in BeforeStep => steps[step] = "PENDING"
  /\ pc \in InStep => steps[step] = "RUNNING"
  /\ pc \in {"stepDone", "afterStep"} => steps[step] = "SUCCEEDED" /\ step < AwaitingStep
  /\ pc \in {"accepted", "awaiting"} => steps[step] = "AWAITING"
  /\ pc = "awaiting" => step = AwaitingStep
  /\ pc = "accepted" => step = AwaitingStep
  /\ pc \in {"startDelay", "startInterrupted"} => status = "PENDING"
  /\ pc \notin {"startDelay", "startInterrupted", "ended", "exit"} => status = "RUNNING"
  /\ pc = "ended" => status = "CANCELLED"

IInv == TypeOK /\ SnapshotFollowsThread /\ OnlyStopAbandonsRun

\* The step of the loop is one of the plan's.
LEMMA StepIsOfPlan ==
  /\ N \in Nat /\ AwaitingStep \in Nat
  /\ 1 .. AwaitingStep \subseteq Step
BY PlanAssumption DEF Step

USE DEF Goto, SetStep, vars, snapshotVars, controlVars

\* The invariant holds initially.
LEMMA InitInvariant == Init => IInv
<1> SUFFICES ASSUME Init PROVE IInv
  OBVIOUS
<1>1. cancellationRequested \in BOOLEAN /\ stopRequested \in BOOLEAN
  BY Zenon DEF Init
<1>2. pc \in Pc /\ step \in 1 .. AwaitingStep /\ status \in Status /\ recordStatus \in Status
  BY PlanAssumption DEF Init, Pc, Status
<1>3. steps \in [Step -> StepStatus]
  BY DEF Init, StepStatus
<1>4. TypeOK
  BY Zenon, <1>1, <1>2, <1>3 DEF TypeOK
<1>5. step \in Step /\ \A s \in Step : s \in Nat /\ s >= step
  BY PlanAssumption DEF Init, Step
<1>6. SnapshotFollowsThread
  BY <1>5, StepIsOfPlan DEF Init, SnapshotFollowsThread, BeforeStep, InStep
<1> QED
  BY <1>4, <1>6 DEF IInv, Init, OnlyStopAbandonsRun

\* Every step of the thread, the requester and the shutdown preserves it.
LEMMA InvariantStep == IInv /\ [Next]_vars => IInv'
<1> SUFFICES ASSUME IInv, [Next]_vars PROVE IInv'
  OBVIOUS
<1> USE PlanAssumption, StepIsOfPlan
    DEF IInv, TypeOK, SnapshotFollowsThread, OnlyStopAbandonsRun, BeforeStep, InStep, Pc,
        Status, StepStatus, Step
<1>1. CASE StartDelayElapses
  BY <1>1 DEF StartDelayElapses
<1>2. CASE DelayInterrupted
  BY <1>2 DEF DelayInterrupted
<1>3. CASE CheckStop
  BY <1>3 DEF CheckStop
<1>4. CASE StartStep
  BY <1>4 DEF StartStep
<1>5. CASE CancelIdle
  BY <1>5 DEF CancelIdle
<1>6. CASE StepDelayElapses
  BY <1>6 DEF StepDelayElapses
<1>7. CASE NextStep
  BY <1>7 DEF NextStep
<1>8. CASE CancelStep
  BY <1>8 DEF CancelStep
<1>9. CASE Abandon
  BY <1>9 DEF Abandon
<1>10. CASE Publish
  BY <1>10 DEF Publish, AfterPublish
<1>11. CASE requestCancellation
  BY <1>11 DEF requestCancellation
<1>12. CASE requestStop
  BY <1>12 DEF requestStop
<1>13. CASE UNCHANGED vars
  BY <1>13
<1> QED
  BY <1>1, <1>2, <1>3, <1>4, <1>5, <1>6, <1>7, <1>8, <1>9, <1>10, <1>11, <1>12, <1>13
     DEF Next, execute

(***************************************************************************)
(* Every variable of a demonstration run keeps its type.                   *)
(***************************************************************************)
THEOREM TypeCorrect == Spec => []TypeOK
<1>1. IInv => TypeOK
  BY DEF IInv
<1> QED
  BY <1>1, InitInvariant, InvariantStep, PTL DEF Spec

(***************************************************************************)
(* execute returns without a terminal snapshot only when the program       *)
(* stops, whatever the plan.                                               *)
(***************************************************************************)
THEOREM StopIsTheOnlyExcuse == Spec => []OnlyStopAbandonsRun
<1>1. IInv => OnlyStopAbandonsRun
  BY DEF IInv
<1> QED
  BY <1>1, InitInvariant, InvariantStep, PTL DEF Spec

USE DEF Promise!promiseVars, Promise!Step

\* The initial state of the thread is one of the promise.
LEMMA PromiseInitially == Init => Promise!PromiseInit
BY DEF Init, Promise!PromiseInit, Step

\* Each step of the thread is one of the promise, or a stutter.
LEMMA PromiseStep == IInv /\ [Next]_vars => [Promise!PromiseNext]_(Promise!promiseVars)
<1> SUFFICES ASSUME IInv, [Next]_vars
             PROVE  [Promise!PromiseNext]_(Promise!promiseVars)
  OBVIOUS
<1> USE PlanAssumption, StepIsOfPlan
    DEF IInv, TypeOK, SnapshotFollowsThread, BeforeStep, InStep, Step, Promise!Active
<1>1. CASE StartDelayElapses
  BY <1>1 DEF StartDelayElapses, Promise!PromiseNext, Promise!Start
<1>2. CASE StartStep
  <2>1. Promise!BeginStep(step)
    BY <1>2 DEF StartStep, Promise!BeginStep
  <2> QED
    BY <2>1 DEF Promise!PromiseNext
<1>3. CASE CancelIdle
  BY <1>3 DEF CancelIdle, Promise!PromiseNext, Promise!CancelIdle
<1>4. CASE StepDelayElapses
  <2>1. CASE step < AwaitingStep
    <3>1. Promise!Succeed(step)
      BY <1>4, <2>1 DEF StepDelayElapses, Promise!Succeed
    <3> QED
      BY <3>1 DEF Promise!PromiseNext
  <2>2. CASE ~(step < AwaitingStep)
    <3>1. Promise!AwaitFill(step)
      BY <1>4, <2>2 DEF StepDelayElapses, Promise!AwaitFill
    <3> QED
      BY <3>1 DEF Promise!PromiseNext
  <2> QED
    BY <2>1, <2>2
<1>5. CASE CancelStep
  <2>1. Promise!CancelStep(step)
    BY <1>5 DEF CancelStep, Promise!CancelStep
  <2> QED
    BY <2>1 DEF Promise!PromiseNext
<1>6. CASE requestCancellation
  BY <1>6 DEF requestCancellation, Promise!PromiseNext, Promise!Request
<1>7. CASE DelayInterrupted \/ CheckStop \/ NextStep \/ Abandon \/ Publish \/ requestStop
  BY <1>7 DEF DelayInterrupted, CheckStop, NextStep, Abandon, Publish, requestStop
<1>8. CASE UNCHANGED vars
  BY <1>8
<1> QED
  BY <1>1, <1>2, <1>3, <1>4, <1>5, <1>6, <1>7, <1>8 DEF Next, execute

(***************************************************************************)
(* A demonstration run implements the promise of every run: no step begins *)
(* after a cancellation, and what is shown as cancelled ends there.        *)
(***************************************************************************)
THEOREM PromiseIsKept == Spec => KeepsPromise
<1> QED
  BY InitInvariant, InvariantStep, PromiseInitially, PromiseStep, PTL
     DEF Spec, KeepsPromise, Promise!PromiseSpec
=============================================================================
