--------------------------- MODULE AsyncTaskExecutor ---------------------------
(***************************************************************************)
(* The executor of the interface: startTask runs a piece of work on a      *)
(* thread of its own and delivers its outcome through the event loop of    *)
(* the interface thread.                                                   *)
(*                                                                         *)
(* A task belongs to a slot, its UiTaskState.  A slot that is LOADING      *)
(* starts no other task, so a slot names the one task that is under way.   *)
(* SUCCEEDED and FAILED, which only the pages tell apart, are IDLE here.   *)
(* The models that use the executor say what a work does and what its      *)
(* delivery changes.                                                       *)
(***************************************************************************)
EXTENDS Naturals, Sequences, FiniteSets

CONSTANTS Slots

VARIABLES
  uiTaskState,           \* per slot: LOADING, or IDLE for the states in which a task can start
  worker,                \* per slot: "none", the place in its work, or "exited"
  outcome,               \* per slot: nothing, a failure, or what the work returned
  stopping,
  loop                   \* the events posted to the interface thread, in the order of delivery

taskVars == <<uiTaskState, worker, outcome>>
executorVars == <<taskVars, stopping, loop>>

Failure == <<"failed">>

Success(value) == <<"succeeded", value>>

ExecutorInit ==
  /\ uiTaskState = [s \in Slots |-> "IDLE"]
  /\ worker = [s \in Slots |-> "none"] /\ outcome = [s \in Slots |-> <<>>]
  /\ stopping = FALSE /\ loop = <<>>

IsLoading(s) == uiTaskState[s] = "LOADING"

\* startTask does nothing when it is refused.
CanStart(s) == ~stopping /\ ~IsLoading(s)

Completion(s) == [kind |-> "completeTask", slot |-> s]

\* startTask for every slot of ss; the thread of a slot of broken cannot be created.
StartTasks(ss, broken, first) ==
  /\ \A s \in ss : CanStart(s)
  /\ uiTaskState' = [s \in Slots |-> IF s \in ss THEN "LOADING" ELSE uiTaskState[s]]
  /\ worker' = [s \in Slots |-> IF s \in ss \ broken THEN first[s]
                                ELSE IF s \in ss THEN "none" ELSE worker[s]]
  /\ outcome' = [s \in Slots |-> IF s \in broken THEN Failure ELSE IF s \in ss THEN <<>> ELSE outcome[s]]

WorkGoes(s, from, to) == worker[s] = from /\ worker' = [worker EXCEPT ![s] = to]

\* The event loop has ended when the executor is stopped: nothing posted is delivered.
Post(event) == loop' = IF stopping THEN loop ELSE Append(loop, event)

\* executeWork and queueTaskCompletion: the work ends with an outcome.
WorkReturns(s, from, value) ==
  /\ WorkGoes(s, from, "exited")
  /\ outcome' = [outcome EXCEPT ![s] = value]
  /\ Post(Completion(s))
  /\ UNCHANGED uiTaskState

\* requestStop, after the event loop.
ExecutorStops == stopping' = TRUE /\ loop' = <<>>

\* completeTask takes the task out of the table; deliverTaskCompletion ends the loading.
TaskEnds(s) ==
  /\ worker' = [worker EXCEPT ![s] = "none"]
  /\ outcome' = [outcome EXCEPT ![s] = <<>>]
  /\ uiTaskState' = [uiTaskState EXCEPT ![s] = "IDLE"]

AllExited == \A s \in Slots : worker[s] \in {"none", "exited"}
=============================================================================
