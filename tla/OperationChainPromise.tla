------------------------ MODULE OperationChainPromise -----------------------
(***************************************************************************)
(* What a run of an operation chain promises to those who watch it: its    *)
(* steps are executed one by one, each at most once, a step succeeds only  *)
(* when it has traded, a cancelled step has not traded and never will, and *)
(* no step starts once a cancellation is requested.  It says nothing of    *)
(* threads, locks, streams or orders.                                      *)
(***************************************************************************)
EXTENDS Naturals

CONSTANTS N,             \* number of steps
          OrderSteps     \* the steps that trade

VARIABLES status,        \* of the run
          steps,         \* status of each step
          requested,     \* has cancellation been requested?
          traded         \* the steps of which some order was filled

promiseVars == <<status, steps, requested, traded>>

Step == 1 .. N

Active(s) == steps[s] \in {"RUNNING", "AWAITING"}

PromiseInit ==
  /\ status = "PENDING"
  /\ steps = [s \in Step |-> "PENDING"]
  /\ requested = FALSE
  /\ traded = {}

\* At any time; a request that comes too late has no effect.
Request ==
  /\ requested' = TRUE
  /\ UNCHANGED <<status, steps, traded>>

\* The exchange fills an order of a step under way, or of a failed step: a
\* failed run may leave a live order behind, a cancelled one may not.
Trade(s) ==
  /\ s \in OrderSteps
  /\ Active(s) \/ steps[s] = "FAILED"
  /\ traded' = traded \cup {s}
  /\ UNCHANGED <<status, steps, requested>>

Start ==
  /\ status = "PENDING" /\ ~requested
  /\ status' = "RUNNING"
  /\ UNCHANGED <<steps, requested, traded>>

BeginStep(s) ==
  /\ status = "RUNNING" /\ ~requested
  /\ steps[s] = "PENDING"
  /\ \A t \in 1 .. s - 1 : steps[t] = "SUCCEEDED"
  /\ steps' = [steps EXCEPT ![s] = "RUNNING"]
  /\ UNCHANGED <<status, requested, traded>>

AwaitFill(s) ==
  /\ s \in OrderSteps /\ steps[s] = "RUNNING"
  /\ steps' = [steps EXCEPT ![s] = "AWAITING"]
  /\ UNCHANGED <<status, requested, traded>>

Succeed(s) ==
  /\ Active(s)
  /\ s \in OrderSteps => s \in traded
  /\ steps' = [steps EXCEPT ![s] = "SUCCEEDED"]
  /\ UNCHANGED <<status, requested, traded>>

Complete ==
  /\ status = "RUNNING"
  /\ \A s \in Step : steps[s] = "SUCCEEDED"
  /\ status' = "COMPLETED"
  /\ UNCHANGED <<steps, requested, traded>>

Fail(s) ==
  /\ Active(s)
  /\ status' = "FAILED"
  /\ steps' = [steps EXCEPT ![s] = "FAILED"]
  /\ UNCHANGED <<requested, traded>>

\* Before the first step or between two steps.
CancelIdle ==
  /\ requested
  /\ status \in {"PENDING", "RUNNING"}
  /\ \A s \in Step : ~Active(s)
  /\ \E s \in Step : steps[s] = "PENDING"
  /\ status' = "CANCELLED"
  /\ UNCHANGED <<steps, requested, traded>>

CancelStep(s) ==
  /\ requested
  /\ Active(s) /\ s \notin traded
  /\ status' = "CANCELLED"
  /\ steps' = [steps EXCEPT ![s] = "CANCELLED"]
  /\ UNCHANGED <<requested, traded>>

PromiseNext ==
  \/ Request \/ Start \/ Complete \/ CancelIdle
  \/ \E s \in Step : \/ Trade(s) \/ BeginStep(s) \/ AwaitFill(s)
                     \/ Succeed(s) \/ Fail(s) \/ CancelStep(s)

PromiseSpec == PromiseInit /\ [][PromiseNext]_promiseVars
=============================================================================
