----------------------------- MODULE BalanceCatalog -----------------------------
(***************************************************************************)
(* The balance catalog of the interface over the Bybit stream and the      *)
(* executor: it loads balances, keeps a live stream and retries it on a    *)
(* timer, and shows what the cache holds.  All of it runs on the interface *)
(* thread; the entry of the other exchange is independent of this one, and *)
(* the status it displays, which no decision reads, is left out.           *)
(***************************************************************************)
EXTENDS BybitUserStream

CONSTANTS MaxRefreshes,  \* bound: loads the user asks for
          MaxBacklog     \* bound: events still posted when a timer is served

ASSUME CatalogAssumption ==
  /\ Slots = {"load", "liveStart"} /\ StreamCallers = {"starter", "interface"}
  /\ MaxRefreshes \in Nat /\ MaxBacklog \in Nat

VARIABLES
  phase,                 \* of the interface thread: "start", "running", then the shutdown
  liveUpdatesRequested, liveRetryTimer,
  hasSuccessfulSnapshot, shown,
  refreshes,             \* counted for MaxRefreshes
  missed                 \* assets whose cached balance is known to be old

catalogVars == <<phase, liveUpdatesRequested, liveRetryTimer, hasSuccessfulSnapshot, shown, refreshes>>
vars == <<executorVars, streamVars, lockVars, observed, balanceVars, catalogVars, missed>>

Init ==
  /\ ExecutorInit /\ StreamInit
  /\ phase = "start" /\ liveUpdatesRequested = FALSE
  /\ liveRetryTimer = FALSE
  /\ hasSuccessfulSnapshot = FALSE /\ shown = [a \in Assets |-> 0]
  /\ refreshes = 0 /\ missed = {}

\* Where the work of each slot begins.
First == [s \in Slots |-> IF s = "load" THEN "request" ELSE "check"]

\* The threads of some tasks cannot be created: their failure is posted.
Started(ss, broken) ==
  /\ StartTasks(ss, broken, First)
  /\ \E order \in [1 .. Cardinality(broken) -> broken] :
       /\ {order[i] : i \in DOMAIN order} = broken
       /\ loop' = loop \o [i \in DOMAIN order |-> Completion(order[i])]
-----------------------------------------------------------------------------
(***************************************************************************)
(* The methods of the catalog.                                             *)
(***************************************************************************)
storeBalances ==
  /\ shown' = balances
  /\ hasSuccessfulSnapshot' = TRUE

\* The timer is active from now on, if it was not already.
scheduleLiveRetry == liveRetryTimer' = TRUE

\* Mutated: the retry is left out when the stream was stopped, not broken.
StatusIgnoresStop ==
  IF streamStatus = "ERROR" THEN scheduleLiveRetry
  ELSE liveRetryTimer' = FALSE

handleUserStreamStatusChanged ==
  IF streamStatus \in {"CONNECTING", "CONNECTED"}
  THEN liveRetryTimer' = FALSE
  ELSE scheduleLiveRetry

\* Mutated: balances are shown once only.
BalancesIgnored == UNCHANGED <<shown, hasSuccessfulSnapshot>>

handleBalanceCacheChanged ==
  IF hasSuccessfulSnapshot THEN storeBalances ELSE UNCHANGED <<shown, hasSuccessfulSnapshot>>

LoadDelivered ==
  IF outcome["load"] = Failure THEN UNCHANGED <<shown, hasSuccessfulSnapshot>> ELSE storeBalances

LiveStartDelivered ==
  CASE outcome["liveStart"] = Failure -> scheduleLiveRetry
    [] outcome["liveStart"] = Success("started") -> handleUserStreamStatusChanged
    [] OTHER -> UNCHANGED liveRetryTimer
-----------------------------------------------------------------------------
(***************************************************************************)
(* The interface thread.                                                   *)
(***************************************************************************)
UnchangedStream == UNCHANGED <<streamVars, lockVars, balanceVars, missed>>

\* loadBalances and startLiveUpdates, before the event loop runs.
Startup ==
  /\ phase = "start" /\ phase' = "running"
  /\ liveUpdatesRequested' = TRUE /\ observed' = TRUE
  /\ liveRetryTimer' = FALSE
  /\ \E broken \in SUBSET Slots : Started(Slots, broken)
  /\ UNCHANGED <<stopping, hasSuccessfulSnapshot, shown, refreshes>> /\ UnchangedStream

\* An event is taken from the queue; liveUpdatesRequested is TRUE as long as the loop runs.
ProcessEvent ==
  /\ phase = "running" /\ loop # <<>>
  /\ loop' = Tail(loop)
  /\ LET event == Head(loop) IN
     \/ /\ event.kind = "status"
        /\ handleUserStreamStatusChanged
        /\ UNCHANGED <<taskVars, shown, hasSuccessfulSnapshot>>
     \/ /\ event.kind = "balances"
        /\ handleBalanceCacheChanged
        /\ UNCHANGED <<taskVars, liveRetryTimer>>
     \/ /\ event.kind = "completeTask" /\ event.slot = "load"
        /\ TaskEnds("load") /\ LoadDelivered
        /\ UNCHANGED liveRetryTimer
     \/ /\ event.kind = "completeTask" /\ event.slot = "liveStart"
        /\ TaskEnds("liveStart") /\ LiveStartDelivered
        /\ UNCHANGED <<shown, hasSuccessfulSnapshot>>
  /\ UNCHANGED <<stopping, observed, phase, liveUpdatesRequested, refreshes>> /\ UnchangedStream

\* The retry timer: startLiveUpdate, which leaves a start that is under way alone.
RetryTimeout ==
  /\ phase = "running" /\ liveRetryTimer /\ Len(loop) <= MaxBacklog
  /\ liveRetryTimer' = FALSE
  /\ \/ IsLoading("liveStart") /\ UNCHANGED <<taskVars, loop>>
     \/ \E broken \in SUBSET {"liveStart"} : Started({"liveStart"}, broken)
  /\ UNCHANGED <<stopping, observed, phase, liveUpdatesRequested, hasSuccessfulSnapshot, shown, refreshes>>
  /\ UnchangedStream

\* refreshBalances and retryBalances
UserRefreshes ==
  /\ phase = "running" /\ refreshes < MaxRefreshes
  /\ refreshes' = refreshes + 1
  /\ \E broken \in SUBSET {"load"} : Started({"load"}, broken)
  /\ UNCHANGED <<stopping, observed, phase, liveUpdatesRequested, liveRetryTimer,
                 hasSuccessfulSnapshot, shown>>
  /\ UnchangedStream

(***************************************************************************)
(* The shutdown of GraphicalUserInterface::run: the executor's stop is     *)
(* requested, live updates are stopped, the tasks are joined.              *)
(***************************************************************************)
Advance(from, to) == phase = from /\ phase' = to

UnchangedView == UNCHANGED <<hasSuccessfulSnapshot, shown, refreshes>>

Quit ==
  /\ Advance("running", "quit")
  /\ ExecutorStops
  /\ UNCHANGED <<taskVars, observed, liveUpdatesRequested, liveRetryTimer>>
  /\ UnchangedView /\ UnchangedStream

StopLiveUpdates ==
  /\ Advance("quit", "stop")
  /\ liveUpdatesRequested' = FALSE /\ liveRetryTimer' = FALSE /\ observed' = FALSE
  /\ UNCHANGED <<executorVars>>
  /\ UnchangedView /\ UnchangedStream

EnterStop ==
  /\ Advance("stop", "stopping") /\ Enter("interface", "stop")
  /\ UNCHANGED <<executorVars, observed, liveUpdatesRequested, liveRetryTimer,
                 streamVars, balanceVars, missed>>
  /\ UnchangedView

Stopped ==
  /\ Advance("stopping", "join") /\ at["interface"] = "out"
  /\ UNCHANGED <<executorVars, observed, liveUpdatesRequested, liveRetryTimer>>
  /\ UnchangedView /\ UnchangedStream

JoinTasks ==
  /\ Advance("join", "ended") /\ AllExited
  /\ UNCHANGED <<executorVars, observed, liveUpdatesRequested, liveRetryTimer>>
  /\ UnchangedView /\ UnchangedStream

Shutdown == StopLiveUpdates \/ EnterStop \/ Stopped \/ JoinTasks
-----------------------------------------------------------------------------
(***************************************************************************)
(* The work of the start task.                                             *)
(***************************************************************************)
Unwanted == stopping \/ ~liveUpdatesRequested

StartTaskGoes(from, to) == WorkGoes("liveStart", from, to) /\ UNCHANGED <<uiTaskState, outcome, loop, streamVars>>

StartTaskReturns(from, value) == WorkReturns("liveStart", from, Success(value)) /\ UNCHANGED <<streamVars, lockVars>>

StartTaskCalls ==
  \/ Unwanted /\ StartTaskReturns("check", "unwanted")
  \/ ~Unwanted /\ StartTaskGoes("check", "start") /\ UNCHANGED lockVars
  \/ StartTaskGoes("start", "starting") /\ Enter("starter", "start")

\* Mutated: the task does not look again when the stream is started.
StartTaskLooksOnce == StartTaskCalls \/ (at["starter"] = "out" /\ StartTaskReturns("starting", "started"))

StartTask ==
  \/ StartTaskCalls
  \/ at["starter"] = "out" /\ ~Unwanted /\ StartTaskReturns("starting", "started")
  \/ at["starter"] = "out" /\ Unwanted /\ StartTaskGoes("starting", "undoing") /\ Enter("starter", "stop")
  \/ at["starter"] = "out" /\ StartTaskReturns("undoing", "unwanted")

StartTaskStep ==
  /\ StartTask
  /\ UNCHANGED <<stopping, observed, balanceVars, catalogVars, missed>>

LifecycleStep(c) ==
  /\ Lifecycle(c)
  /\ UNCHANGED <<taskVars, stopping, observed, balanceVars, catalogVars, missed>>

(***************************************************************************)
(* The code knows three ways to hold an old balance, until the asset is    *)
(* written again: it changed while no stream was subscribed, its message   *)
(* was lost with the connection, or of a REST answer and a message the     *)
(* older one was written last.                                             *)
(***************************************************************************)
StillMissed ==
  {a \in missed : balances'[a] # account'[a]} \cup {a \in Assets : balances'[a] < balances[a]}

InboxAssets == UNION {{inbox[i][j].asset : j \in DOMAIN inbox[i]} : i \in DOMAIN inbox}

RunnerStep ==
  /\ RunnerWorks \/ RunnerFails \/ RunnerReadsEnd
  /\ missed' = IF runner = "closing" THEN missed \cup InboxAssets ELSE missed
  /\ UNCHANGED <<taskVars, stopping, lockVars, observed, balanceVars, catalogVars>>

WriteCoinStep ==
  /\ WriteCoin
  /\ missed' = StillMissed
  /\ UNCHANGED <<taskVars, stopping, lockVars, observed, catalogVars>>

AccountStep ==
  /\ \E changed \in SUBSET Assets :
       AccountChanges(changed) /\ missed' = IF Subscribed THEN missed ELSE missed \cup changed
  /\ UNCHANGED <<taskVars, stopping, lockVars, observed, catalogVars>>

RestStep ==
  /\ RestAnswers("load") \/ RestFails("load")
  /\ UNCHANGED <<stopping, streamVars, lockVars, observed, catalogVars, missed>>

RestWriteStep ==
  /\ RestWritesCoin("load")
  /\ missed' = StillMissed
  /\ UNCHANGED <<stopping, streamVars, lockVars, observed, catalogVars>>

InterfaceThread == Startup \/ ProcessEvent \/ RetryTimeout \/ Shutdown \/ LifecycleStep("interface")

StarterThread == StartTaskStep \/ LifecycleStep("starter")

LoaderThread == RestStep \/ RestWriteStep

RunnerThread == RunnerStep \/ WriteCoinStep

Next ==
  \/ InterfaceThread \/ UserRefreshes \/ Quit
  \/ StarterThread \/ LoaderThread \/ RunnerThread \/ AccountStep

(***************************************************************************)
(* Threads, timers and the event loop run and requests are answered; a     *)
(* closed socket fails its reader.  Creating a thread, connecting and      *)
(* subscribing succeed if they are tried again and again.  The account,    *)
(* the user and failures are never forced.                                 *)
(***************************************************************************)
Fairness ==
  /\ WF_vars(InterfaceThread) /\ WF_vars(StarterThread) /\ WF_vars(LoaderThread)
  /\ WF_vars(RunnerThread /\ (runner # "reading" \/ socket = "closed" \/ inbox # <<>>))
  /\ SF_vars(RetryTimeout /\ worker'["liveStart"] = "check")
  /\ SF_vars(RunnerStep /\ RunnerConnects) /\ SF_vars(RunnerStep /\ RunnerSubscribed)

Spec == Init /\ [][Next]_vars /\ Fairness
-----------------------------------------------------------------------------
\* Nothing is under way: no event, no task, no message.
Quiet ==
  /\ phase = "running" /\ loop = <<>>
  /\ \A s \in Slots : worker[s] = "none"
  /\ runner \in {"none", "finished"} \/ (runner = "reading" /\ inbox = <<>>)

(***************************************************************************)
(* Once all is quiet the balances shown are those of the cache, and each   *)
(* is the one of the account unless the code is known to have missed it,   *)
(* however loads, messages and the events they post are interleaved.       *)
(***************************************************************************)
ViewIsCurrent ==
  Quiet /\ hasSuccessfulSnapshot =>
    shown = balances /\ \A a \in Assets \ missed : shown[a] = account[a]

(***************************************************************************)
(* A stream that has gone down comes back while the interface runs: no     *)
(* interleaving of its end with the start task, the timer and the posted   *)
(* status events leaves nobody to retry it.                                *)
(***************************************************************************)
LiveUpdatesReturn ==
  (phase = "running" /\ streamStatus \in {"ERROR", "STOPPED"})
    ~> (streamStatus = "CONNECTED" \/ phase # "running")

(***************************************************************************)
(* The shutdown ends and leaves no stream behind, even when a start task   *)
(* is just opening one.                                                    *)
(***************************************************************************)
ShutdownLeavesNoStream ==
  (phase = "quit") ~> (phase = "ended" /\ runner = "none" /\ ~userStream)
=============================================================================
