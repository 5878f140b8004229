# CryptoDeal in TLA+

CryptoDeal is a desktop application that trades on Binance and Bybit. Beside
single orders it executes *operation chains*: lists of operations (buy, sell,
place an order, place an OCO pair, transfer) in which each step uses what the
step before it obtained. A chain runs for hours on a thread of its own, waits
for its orders to be filled, and can be cancelled at any time. What must not go
wrong is money: an order nobody knows about, a run that says "cancelled" while
its order trades, a step executed after the user has cancelled.

These modules model that core, the exchange services under it and the parts of
the interface that keep state above it. Paths below are relative to `src/src/` unless
they say otherwise; `PROJECT.json` holds the line-by-line correspondence.

## 1. Inventory

### Parts, their state and their operations

| Part | State | Operations |
|---|---|---|
| **Cancellation coordinator** `OperationChain/OperationCancellationCoordinator` | a monitor: six flags, the registered action, the stop source of the current wait, the verdict | chain thread: `startOperation`, `registerOrdinaryOrder`, `registerOcoOrder`, `completeActionNaturally`, `finishOperation`, `finishChain`, `waitForCancellationResolution`; requester: `requestCancellation`, `failCancellation`; worker: `cancelCurrentOperation` |
| **Operation chain** `OperationChain/OperationChain`, `OperationFactory` | snapshot: status of the run and of each step, revision; context (asset, quantity) | `execute`, five kinds of operation |
| **Run manager** `OperationChain/OperationChainRunManager` | runs (record, two jthreads each), id and sequence counters, `stopping`, the observer's handler | `startRun`, `startSimulatedRun`, `requestRunCancellation`, `updateRun`, `notifyRunChanged`, `requestStop`, `stopAndWait` |
| **Simulated run** `OperationChain/SimulatedOperationChainRun` | snapshot, `cancellationRequested` | `execute` with delays, `requestCancellation` |
| **Binance service** `DealService/binance` | pending order waits with reference counts, stream status and error, reader and runner threads, balance and symbol caches | placement, cancellation, waits, stream start/stop/messages |
| **Bybit service** `DealService/bybit` | the same, and the table of emulated OCO pairs | the same, and `processOcoUpdate` |
| **Base service** `DealService/DealService` | event handlers | set, clear, notify |
| **Order status, rules, decimals** `DealService/common` | none | pure functions |
| **Task executor** `UserInterface/graphical/async` | `stopping`, table of tasks | submit, complete, stop |
| **Run model, order session, balance, pair and symbol catalogs** `UserInterface/graphical/models` | what the pages show, revisions and sequence numbers of it | requests to the parts above, queued results |
| **Order form** `UserInterface/graphical/widgets/OrderEntryForm`, `validation/OrderInputValidation` | selections, typed texts, the button | handlers of input and of catalog signals, drafts |
| **Chain definitions, other pages and widgets, configuration, HTTP, JSON** | presentation and I/O | - |

### How they interact

The interface thread calls the run manager; the manager starts one thread per
run, which executes the chain and calls the manager back with a copy of the
snapshot after every change; the manager numbers the copies and hands them to
the observer, outside its lock. An operation calls the exchange service, which
places the order over HTTP and waits for it on a condition variable fed by the
reader thread of the private user stream. A cancellation request creates a
second thread for the run, the *cancellation worker*. Chain thread, worker and
requester share the coordinator. The pages of the interface work through models
and catalogs that live on the interface thread; whatever calls an exchange is a task
of the executor, on a thread of its own, and its result is posted back to the event
loop, as are the events of the streams. At shutdown the interface asks the manager to
stop, stops the streams, and then joins all threads
(`UserInterface/graphical/GraphicalUserInterface.cpp:54-58`).

### What is hard

* three threads and the exchange meet at one order: placement in flight, fill,
  cancel request, failing wait, verdict;
* the coordinator is released between choosing an action and acting on it;
* a placement can succeed at the exchange and fail at the caller;
* an OCO order has two legs that end separately;
* the shutdown races everything else and has no timeout;
* wake-ups, disconnects and reconnects of the stream; late REST answers;
* late, reordered notifications and task results.

`PROJECT.json` lists each of these hazards at its line, with the properties that
cover it or the reason why none does.

### What correct means, part by part

* Coordinator: the verdict is final and true; the worker never overlooks an
  order; its unlocked copies never go stale; its own checks never throw.
* Chain: steps run in order and at most once; success means filled; cancelled
  means nothing alive and nothing traded in the step; no step after a request.
* Run manager: a cancellation accepted ends the run; the record never goes back;
  the shutdown waits for nothing but the exchange.
* Services: no lost wake-up, no update that undoes a newer one, no stream that is
  down with nobody starting it.
* Emulated OCO: a pair is forgotten only when no leg is left to itself; a fill
  closes the pair whoever learns of it first.
* Interface models: late results never overwrite newer state, never leave an entry
  busy; what is shown is current once nothing is under way.
* Order form: the button agrees with the draft it would make, and what is confirmed
  is not refused by the service for its own numbers.

## 2. The modules

| Module | What it is |
|---|---|
| `OrderService` | the orders of one run at the exchange, leg by leg; what waits and cancels answer |
| `OperationCancellationCoordinator` | the monitor (operators named as the methods) and the cancellation worker (actions) |
| `OperationChain` | the chain thread, the record the manager keeps of the run, the start gate, the requests and the shutdown; the properties |
| `OperationChainPromise` | abstract specification: what a run promises to its observers |
| `OperationChainInvariant` | the inductive invariant |
| `OperationChain_proofs` | theorems and proofs of the run and of its refinement |
| `MCOperationChain` | chains for TLC |
| `SimulatedOperationChainRun`, `SimulatedOperationChainRun_proofs` | a demonstration run: delays, its own cancellation, the stop token; theorems and proofs |
| `OperationChainRunManager`, `OperationChainRunManager_proofs` | several runs of both kinds, the numbering and delivery of their updates, the run model of the interface; its invariant, theorems and proofs |
| `BinanceUserStream` | the private stream of Binance: status, runner thread, start and stop under the life-cycle mutex, the condition variable |
| `BinanceOrderWaits`, `MCBinanceOrderWaits`, `BinanceOrderWaits_proofs` | the table of pending waits and the four calls that wait for or cancel an order or a pair, over that stream; theorems and proofs |
| `BybitOco` | the emulated pair of Bybit: placement and rollback, the group table, the runner that closes the pair |
| `BybitOcoWaits`, `BybitOcoWaits_proofs` | wait and cancellation of that pair; theorems and proofs |
| `AsyncTaskExecutor` | tasks of the interface and their delivery through the event loop |
| `BybitUserStream` | the private stream of Bybit and the balance cache it feeds |
| `BalanceCatalog`, `BalanceCatalog_proofs` | the balances shown, the live stream and its retries, the shutdown; theorems and proofs |
| `OrderSession`, `MCOrderSession`, `OrderSession_proofs` | the orders of a session with their submission, wait and action tasks; theorems and proofs |
| `SymbolRules` | the rule checks of the validator, of typed input and of both services, on scaled integers |
| `OrderEntry`, `MCOrderEntry`, `OrderEntry_proofs` | the order form over its catalogs, the confirmation, the placement; theorems and proofs |

`OperationCancellationCoordinator` EXTENDS `OrderService`, `OperationChain` EXTENDS
it in turn, and instantiates `OperationChainPromise` with a refinement mapping;
`SimulatedOperationChainRun` implements the same promise. `OperationChainRunManager`
stands on its own: a chain is there its status and revision, changing as the two
modules above allow, because its properties are about what happens to the copies
afterwards.

`BinanceOrderWaits` EXTENDS `BinanceUserStream`; `BybitOcoWaits` EXTENDS `BybitOco`;
`BalanceCatalog` composes the executor with the stream (`AsyncTaskExecutor` <-
`BybitUserStream` <- `BalanceCatalog`) and `OrderSession` composes it with a session.
`OrderService` is the view a chain has of a service; `BinanceOrderWaits` shows how such a
wait works inside, and its `AnswersAreTrue` is what `WaitSucceeds` takes for granted.

### From code to actions

*Grain.* The chain's snapshot is guarded by its own mutex but written by the
chain thread alone, and no other thread reads it: what others see is the copy in
the manager's record. So a change of the snapshot is joined with the step of the
chain thread that makes it, and the copy (`notifyStateChanged`, `updateRun`) is a
separate action, `Publish`. Every critical section of the coordinator is one action; so is
every call of the exchange. `pc` names the places between them:

```
gate -> entry -> started* -> loop -> stepStarted* -> startOperation -> check
     -> place -> register -> accepted* -> subscribe -> wait -> complete
     -> finishOperation -> stepDone* -> afterStep -> loop ... finish -> ended* -> exit
check -> refused -> finish            (catch OperationCancellationRequested)
subscribe, wait -> interrupted -> judge -> finish   (catch OrderWaitInterrupted)
place, subscribe, wait -> failed -> resolve -> judge -> finish  (catch exception)
```
(`*`: a `Publish` follows.)

*Operations.* `BUY_CRYPTO` and `SELL_CRYPTO` have the control of `PLACE_ORDER`:
check, place, register, report, wait, complete. `SEND_TO` checks and does no more.
What an operation does to the context (asset, quantity) is not modelled.

*Orders.* A leg is `NONE`, `ACTIVE` or ended as `OrderStatusUtil` classifies it.
`CANCELLED` includes a cancellation after a partial fill, as the code's
`PartiallyFilledCanceled` does: "not traded" below means no leg was filled
completely. The exchange may end any leg in any way at any time. This covers the
cleanup cancellations that the OCO waits make on their own (`cancelOcoAfterFailure`),
the expiry, rejection and manual cancellation of orders, and both legs of a pair
filling.

*Placement.* It succeeds, or it throws with any subset of the legs placed: refused,
half done, or accepted with the answer lost.

*Waits.* A wait may return when `WaitSucceeds`, throw when `WaitFails` or when the
stream is down, and throw `OrderWaitInterrupted` when its stop source was stopped,
even if the legs have ended, because the update may not have arrived yet. It learns
the true state of its legs while the stream is up; how it learns it, and how it may
not, is `BinanceOrderWaits`. The branch for `OrderWaitInterrupted` without a stop is dead
code and has no action.

*Stop sources* are numbered as `startOperation` creates them; a token is the number.

*The worker* is created under the manager's lock (`RequestRunCancellation`, then
`CreateWorker` with `ManagerUnlocked` keeping others out), or cannot be, in which
case `failCancellation` records the failure under the same lock. `request_stop` of
the jthreads is issued under the manager's lock, so the stop tokens of the chain
thread and of the worker are both `Stopping`. `failCancellation` joins the record of
the result with the request_stop that follows it; in the worker's own
`RecordVerdict` and `WorkerStopsWait` the two are separate steps.

*Demonstration runs.* A delay ends, or is interrupted by a cancellation or a stop, and
the thread then looks at both flags; this is where the two can be confused. `N` is
the number of steps of the plan, `AwaitingStep` the step at which it waits for its
cancellation.

*The join.* `stopAndWait` joins two threads of each run, the one that executes it and, once a
cancellation of a real run was requested, its cancellation worker. The manager's module keeps the runs whose worker has
not returned in `cancelling`; the worker itself is in `OperationChain`, and here it may return or not.

*Several runs.* A thread numbers a state under the lock (`StartRun`,
`RequestRunCancellation`, `UpdateRun`), keeps a copy (`held`), and later posts it
(`notifyRunChanged`). The interface thread does the same for its own actions, then
takes the record (`Refresh`), and between its actions handles the posted updates
(`ProcessUpdate`). Posting is one step with copying the handler: the handler is
cleared only after the event loop has ended. `current` is the run an action of the
interface is about. The exhaustion of 64-bit identifiers is left out.

*Condition variables.* In `BinanceUserStream` a caller evaluates its predicate
(`CheckFails`), then sleeps (`Sleep`); a notification that is sent under the mutex of the
variable cannot fall between the two, one that is not (`setStreamStatus`) can. Spurious
wake-ups evaluate the predicate again and add nothing. `BybitOco` leaves this out: its
service has the same variable, and the module is about the group.

*REST answers.* A query takes two steps everywhere: the exchange answers with the state
of the order at that moment (`Query`), and later the caller publishes what it read
(`PublishAnswer`). A cancel request that was accepted takes effect later, and the order may
still fill. `QueryFails` and `CancelFails` stand for every exception of the request.

*The stream.* The runner connects, publishes its socket, subscribes, and reads; closing the
socket makes the read fail. Reports of the exchange are sent to whoever is subscribed and
are lost otherwise. `lifecycle` is the owner of `streamLifecycleMutex`.

*The pair on Bybit.* The group is `none`, `open`, `closing` or `erased`. The runner, the owner
and the user may all be in the code that closes it; `failed` and `report` are their local
variables. `dropped` records the fills that `handleOrderUpdate` consumed without publishing
them. The instance has one pair; a second placement with the same identifiers is refused by
`OcoPlacementRegistration` before anything else happens.

*Tasks.* A slot is a `UiTaskState`, which never has two tasks. `loop` is the event queue of the
interface thread in order of delivery: completions, continuations, status and balance events.

*Balances* are counted by their changes, so that an old one can be told from a new one.
`missed` holds the assets the code is known to have missed: changed while no stream was
subscribed, lost in a disconnect, or overwritten by an older REST answer.

*The session.* Entries, revisions and actions as in the code; the two kinds of entry differ
in their legs. Texts, times and the table's layout are left out. `cancelOrder` of Binance answers the
order as the exchange has it. That of Bybit gets an acknowledgement without a status and writes
`"Cancelled"` into its answer itself; the module calls this status `ACKNOWLEDGED` to keep it apart in the
properties, and every decision of the session treats it as the end it looks like (`LooksEnded`). It
also answers a placement as new without asking (`Accepted`). `cancelOrderAndWaitUntilTerminal`,
which chains use, does not look at the answer of `cancelOrder`, so the runs are not concerned.

*The form.* Catalogs and form are one record `ui`; a method of the form is a function of it, and
an event applies the methods the code calls, in their order. A text is a value and its
number of decimals, a rule is a scaled integer. The placement runs the checks of the service
with a ticker price of its own: for a pair, `placeOco` of Binance checks the prices, the quantity and
the notional of both legs before its one request, that of Bybit the prices first and then each leg as it places it.

*Initial state.* A run just registered by `startRun`: its thread is at the gate and
the caller has not opened it.

## 3. What is checked

| Run | Instance | Properties | Shows |
|---|---|---|---|
| `chain_run` | OCO, transfer, order | `CancelledRunHoldsNoOrder`, `SucceededStepWasFilled`, `WorkerNeverMissesAnOrder`, `WorkerActsOnCurrentOperation`, `CoordinatorNeverThrows`, `IInv`, `KeepsPromise`, `VerdictIsFinal`, `CancellationEnds` | reports agree with the exchange under every race; chain thread and worker stay together; refinement of the promise; an accepted cancellation ends unless a call of the exchange does not return |
| `chain_shutdown` | order, OCO | `ShutdownJoinsWaitingRun` (violated) | the shutdown may wait for ever although every call returns and every wait is woken (`AnsweredSpec`) |
| `simulated_run` | five steps, the fourth waits | `OnlyStopAbandonsRun`, `KeepsPromise`, `CancellationIsShown`, `StopEndsRun` | only the stop of the program ends a demonstration run without a terminal state, and it ends it wherever it is |
| `manager_updates` | a simulated and a real run | `SequenceOrdersUpdates`, `CancelledWasRequested`, `StartIsAnnouncedFirst`, `IInv`, `ViewNeverGoesBack`, `ViewCatchesUp`, `StopWaitsForExchangeOnly` | the numbers order all copies on their way; the interface never goes back and shows the end of every run; the shutdown waits for nothing but real chains and cancellation workers that have not returned |
| `binance_oco` | a wait and a cancellation of one pair | `EntriesServeTheirWaiters`, `AnswersAreTrue`, `KnownEndStays` | shared entries, old answers and failing queries never make a call return what is not so |
| `binance_order` | one wait or cancellation, two starts or stops of the stream | `ReportReachesWaiter`, `StopWithSocketEnds` | a report at the socket is not lost at the condition variable; a stop that has the socket ends |
| `binance_join` | the same, one start or stop | `StopEnds` (violated) | a stop may join a runner that reads for ever |
| `binance_wakeup` | the same | `StreamEndReleasesWaiter` (violated) | the end of the stream may not wake a waiter |
| `bybit_oco` | one pair; owner, user, runner; one disconnect | `ForgottenPairIsClosed`, `AnswersAreTrue`, `FillClosesPair`, `NobodySleepsOnEndedPair` | no leg is left to itself, whoever closes the pair |
| `balance_updates` | one asset, one change, one refresh | `ViewIsCurrent`, `LiveUpdatesReturn`, `ShutdownLeavesNoStream` | what is shown is current; a lost stream comes back; the shutdown leaves none |
| `order_session` | an order and a pair on Bybit, three actions of the user | `ShownEndIsTrue`, `ShownEndIsFinal`, `ActionsEnd` | late results show no wrong end and undo none, an acknowledged cancellation apart, and free the entry |
| `order_entry` | two exchanges, two pairs, seven steps of the user, one failed load | `ButtonMatchesDraft`, `ConfirmedMeetsRules` | button and draft agree; what is confirmed passes the checks of the service |

*Bounds.* The only constant of `OperationChain` is the chain. Nothing else is unbounded: one request per
run, one worker, a stop source per step. Three steps give a first, a middle and a last
step, all three kinds of operation, and two orders, so that the worker or a verdict of
one operation can meet the next one. Each leg ends once.
Deadlock is not checked because every run comes to an end, and a run waiting for an
order that nobody fills or cancels may stop.

`simulated_run` uses the size of the largest demonstration plan. The manager's runs
have one run of each kind, which is what it takes for two threads and the interface to
overtake each other; runs share nothing but the two counters and the interface thread.
`MaxRevision = 1` lets a chain start and end, with a request anywhere between.
`MaxPosted` keeps threads of runs from posting while that many updates wait for the
event loop (the interface itself always may): one, so that an update can wait in the
queue, another with the interface, and a third with a thread that was overtaken. The
safety properties of these and of all the other runs are proved without any of the bounds
(section 4); what rests on them is liveness.

In `binance_oco` the two calls share both orders of the pair, which is the most that calls
share; `MaxCalls = 0` leaves starting the stream to them. `binance_order` has one call and
two starts or stops, so that a stop can meet a stream started after it, or by the call
itself. `bybit_oco` has all the threads there are for one pair; `MaxDrops = 1` loses reports
once, and the owner's stop is the user's in the other role, so only the user may be stopped.
`balance_updates` needs one change for a message, an answer and a reconnect to disagree about
it, and one refresh beside the first load; `MaxBacklog = 0` says that the event loop serves
posted events before timers, which Qt does at every turn. `order_session` has three actions of the
user, placements included, which is what a wrong end takes: an order is placed, its cancellation is acknowledged, and a
refresh finds the fill. TLC runs it for Bybit, where more can happen; the proofs are for both exchanges.
`order_entry` has a pair with other rules on each exchange and one that only one lists, rules with
zero and non-zero bounds, texts below, at and above them (a minimal notional that the smaller amount
reaches at one price and not at another, so that each leg of a pair is judged by its own price), and enough steps to fill a pair
order from nothing or to change an order that was ready. Deadlock is not checked in these
runs: calls return, the form is confirmed, and the user may stop.

*Fairness.* The scheduler runs what can run: the chain thread and the worker outside their calls
of the exchange service, the end of `startRun` (`OpenGate`), the thread creation inside
`requestRunCancellation`, and the join once the threads have ended. A wait whose stop source is
stopped wakes up, because it is a wait of a `condition_variable_any` with a stop token. Nothing
else about the service is assumed: a placement, a reconnect, a confirmation by the worker may never return,
a wait may sleep through the report of a fill or through the end of its stream
(`binance_wakeup`), and `stopUserStream` may join a reader for ever (`binance_join`). So
`CancellationEnds` allows for a run that stays for ever in such a place (`Unanswered`), and for
nothing more: the chain never waits for a verdict that no worker will give, and when the worker has
confirmed the cancellation, failed, or could not be created, the wait is interrupted; only an order that
turned out filled leaves it to the report of the fill. `chain_shutdown` is checked under
`AnsweredSpec`, which adds that every call returns, every wait is woken and every stream stops:
the shutdown may hang all the same. Fill, cancellation by the user, a
stream failure, and shutdown are never forced. `NonStandardFailure` is outside the
fairness too, so no property relies on it.

A demonstration run's `execute` is weakly fair: its thread is scheduled and its delays
elapse. In the manager, the threads of runs and the actions the interface has begun
are weakly fair, and so is the return of a simulated run that was stopped (`AbandonRun`), which
is what `simulated_run` shows of its thread (`StopEndsRun`); a cancellation worker, like a real
chain, may never return;
`ProcessUpdate` is strongly fair, because the event loop takes its events in order
however much the user clicks. That a chain changes, or the user acts, is never forced.

In the stream and wait modules, threads run and requests are answered or fail: weakly fair,
and strongly for steps that need a mutex or a message others may take away for a while
(`WaiterStep`, `RunnerReads`). A read of a closed socket fails. `BalanceCatalog` also assumes
that creating a thread, connecting and subscribing succeed if they are tried again and
again, which is what a retry timer is for. Fills, disconnects, stops, submissions, waits and
the user are never forced.

*The shutdown finding.* `execute` has no stop token. If the order of a waiting run
fills after `requestStop` and before its stream is stopped, the chain goes on:
it starts the next step, places a new order, and the wait for it *reconnects* the
stream that the shutdown has stopped (`ensureUserStreamConnected` restarts a stream
that is `STOPPED`). Nothing interrupts that wait, so `stopAndWait` blocks the
interface thread until the exchange ends the order. The unit test
`JoinsWaitingWorkerAfterSharedServiceInterruption`
(`src/tests/OperationChainRunManagerTest.cpp:767`) states the sequence as one that
joins a waiting worker. The run assumes, with that test, that the stream does stop and that its
end wakes the wait; the two findings below are about when it does not.

*The lost wake-up.* `setStreamStatus` and `setStreamError` of Binance change the status under
`streamStatusMutex` and notify without `pendingOrderWaitsMutex`, under which the waiters check
their predicate. A waiter that has found the stream connected, and is about to sleep, misses
the notification (`binance_wakeup`). It wakes at the next status change or report, so the
catalog's retry usually saves it; at shutdown nothing does.

*The endless join.* `stopUserStreamConcurrent` of Binance looks for the socket before it clears
`userStream`. A runner that publishes its socket in between, and subscribes, sees
`userStream` still set and blocks in a read nobody closes; the stop joins it, holding the
life-cycle mutex (`binance_join`). Bybit clears the flag first. `StopWithSocketEnds` confirms
that the order of these two steps is all that is wrong.

*Observations* that contradict no document and are therefore exceptions in the properties:
balances that change while the stream is down stay old after a live reconnect, and a REST
answer can overwrite a newer balance (`missed` in `ViewIsCurrent`); a fill on Bybit whose other
leg cannot be cancelled is published as an error, or not at all when the group is gone
(`dropped` in `NobodySleepsOnEndedPair`); a leg that fills while the stream is down and nobody
waits leaves the other one alive (`drops` in `FillClosesPair`), and so does a placement that throws after
an answer was lost or its rollback failed (no group), or a cancellation whose failure the group
records (`lastError`); an order of Bybit is shown as ended, with the message "Order cancellation
confirmed", when its cancellation is only acknowledged: the result of its wait is then dropped,
and if it fills instead only a refresh by the user shows it (`OnlyAcknowledged` in `ShownEndIsTrue` and
`ShownEndIsFinal`); the result of a cancellation
that the user requests between acceptance and the start of the wait is dropped, because
starting the wait takes a new revision (the entry is shown as waiting, which is true, and
`ActionsEnd` holds).

Every property comes with a mutated form of a definition that it refutes (the
operators marked "Mutated" next to their originals, and `mutants` in `PROJECT.json`).

## 4. What is proved

Every invariant and every action property that a run checks is a theorem, for every value of the
constants. In parentheses: the assumptions on the constants, and the property a theorem states where the names differ.

| Module | For any | Theorems |
|---|---|---|
| `OperationChain_proofs` | chain: a non-empty sequence of operation types (`OperationsAssumption`) | `CancellationIsClean`, `SuccessIsFilled`, `NoOrderIsMissed`, `CopiesStayCurrent`, `ChecksNeverThrow`, `TypeCorrect`; the action property `VerdictsAreFinal`; the refinement of the promise, `PromiseIsKept` |
| `SimulatedOperationChainRun_proofs` | demonstration plan | `TypeCorrect`, `StopIsTheOnlyExcuse`, `PromiseIsKept` |
| `OperationChainRunManager_proofs` | number of runs of both kinds, of changes of a chain, of updates on their way (`ManagerAssumption`) | `UpdatesAreOrdered`, `CancellationIsExplained`, `StartComesFirst`; the action property `ViewOnlyMovesForward` |
| `BinanceOrderWaits_proofs` | finite set of waiting threads and any calls, each of one order or of two different ones (`StreamAssumption`, `CallsAssumption`) | `EntriesAreServed` (`EntriesServeTheirWaiters`), `AnswersHold` (`AnswersAreTrue`); the action property `EndsStayKnown` (`KnownEndStays`) |
| `BybitOcoWaits_proofs` | number of disconnects, number of reports on their way, any threads that may be stopped | `ForgottenPairsAreClosed`, `AnswersHold`, `FillsClosePairs`, `NobodySleeps` |
| `BalanceCatalog_proofs` | non-empty finite set of assets, number of changes of the account, of loads, of posted events (`StreamAssumption`, `CatalogAssumption`) | `ViewStaysCurrent` (`ViewIsCurrent`) |
| `OrderSession_proofs` | exchange, number of orders, of pairs and of actions on them (`SessionAssumption`) | `ShownEndsAreTrue`; the action property `ShownEndsAreFinal` |
| `OrderEntry_proofs` | exchanges, pairs, rules, tickers, and texts whose value and number of decimals are natural numbers (`EntryAssumption`) | `ButtonAndDraftAgree`, `ConfirmedDraftsMeetRules` |

In each module `InvariantHolds` is `Spec => []IInv` for the inductive invariant `IInv` from which the
others follow (a demonstration run needs no more than its type). None of the safety properties is inductive by
itself; what has to be added is the point of each proof.

*A run.* `CancelledRunHoldsNoOrder`
needs that a confirmed verdict is about the step the chain is at, which needs that the
worker's copy of the action is current, which needs that the chain cannot leave a step
while the worker holds its order without passing a check of `cancellationRequested`.
`IInv` states this place by place in four parts: `FlagsFollowThread` (the coordinator's
flags are a function of `pc`), `SnapshotFollowsThread` (so are the statuses),
`OrdersFollowSnapshot` (what the statuses say about the legs), `WorkerFollowsThread`
(what the worker holds and what a verdict excludes). The pivotal fact is the last one:
once cancellation is requested no step begins, so whatever the worker copied is about
the last step the chain will ever execute.

`OperationChain_proofs` shows that each action of the thread, the worker and the
environment preserves the parts, one leaf per action, derives the theorems from
`IInv`, and maps each action to a step of the promise or to a stutter.

*The manager.* `SequenceOrdersUpdates` compares any two copies, wherever they are; it is not
inductive because a new copy is made from the record. The invariant adds that every copy
precedes the record of its run and has a smaller number than the next
(`CopiesFollowRecords`), and that the record agrees with the chain at its revision, so that a
run which has ended is never numbered again (`RecordsFollowChains`). The proof is about the set
`Copies`: an action makes no new one (`NoNewCopy`) or one with a number of its own that the
record precedes (`OneNewCopy`); which of the two it is takes one step per action.
`ViewNeverGoesBack` follows, since the view and what is shown next are both copies.

*The order waits of Binance.* What a call returns is true because everything it can have read is:
reports on their way (`ReportsTrue`), entries of the table, and a REST answer still held, which
is the state of the order or an older one (`WaiterTrue`). Orders only end (`OrdersGrow`), so what a waiter
relies on is about orders that have ended, and another thread cannot disturb it; and every
step treats the shared table in one of four ways: it leaves it, publishes a status,
registers or unregisters the legs of one call (`TableChanges`). `EntriesServeTheirWaiters` counts the
calls of an entry, which is why the set of threads must be finite. The lemmas are split in the
same way: one per action for the waiter itself, one for the table, one for the others.

*The emulated pair of Bybit.* Three threads, the placement included, may be in the code that closes
the pair. The invariant says what each knows at its place (`ThreadTrue`, `CallerTrue`), that the
legs and the group exist only as far as the placement has come (`PlacementTrue`), and that a group
that is being closed has a thread that closes it (`GroupTrue`). Two parts answer for liveness
in the large: while no report was lost, a fill is in somebody's hands until the pair is closed
(`FillHeld`), and the end of a leg is known to the table, on its way to it, or still
to be asked for by each registered caller (`EndsReach`). `FillClosesPair` and
`NobodySleepsOnEndedPair` are what these say of the states in which nobody has work left.

*The balances.* Nothing orders the two writers of the cache, so the invariant does not say which
wrote last. `ViewTrue`: if what is shown is not the cache, a writer is in the middle of an answer or a message,
or an event that will show it is in the queue (of the load's completion there is at most one,
`LoadTrue`). `CacheTrue`: if the cache is not the account, the current balance is in a message the
runner has yet to write, or the asset is in `missed`; a value is never newer than the account
(`MessagesTrue`), so a write that replaces the current balance lowers it, and that is what
`missed` records.

*The session.* `ShownEndIsTrue` needs that an outcome is true not only when the work returns but
whenever it is delivered, to an entry that may have changed meanwhile. `TasksTrue` says so of the
three kinds of task, and `LoopTrue` that each completion in the queue belongs to one task that has
exited. The delivery of a submission overwrites its entry without looking; it may, because
nothing else touches an entry that is being submitted (`SubmissionFits`, `ActionFits`). Both theorems except
an order of Bybit whose cancellation was acknowledged, and the second says what may happen to it: only its fill
replaces the end.

*The form.* `ButtonMatchesDraft` compares the button, set by the last `validateForm`, with a draft made
from the form as it is. The invariant is that the button shows the verdict of the *present*
form (`Consistent`): every handler either validates again or changes nothing the verdict reads (`JudgedAlike`).
That the verdict and the draft agree is a lemma about the checks (`DraftIffJudged`), as is that a draft
made from a judged form meets the rules of the service for every ticker (`DraftMeets`).

*Only model-checked:* the liveness properties and with them the shutdown, the wake-ups
and the joins of `binance_order`, `simulated_run`, `balance_updates`, `order_session` and the others
(fairness and ENABLED are beyond the prover), and the three runs that expect a violation.

## 5. What is not modelled, and the plan

Not modelled on purpose: the layout, painting and formatting of pages and widgets;
configuration and start; HTTP, signatures and JSON; the loader of chain definitions
(sequential validation of one file); quantities and prices of orders once they are placed;
the text a decimal is sent as, which depends on the printing of the decimal library.
A single-order wait on Bybit has the control of the Binance one and is not repeated.

The natural next steps: an abstract order wait that `OrderService` and `BinanceOrderWaits` both
implement, with the refinement proved for any number of waiters; the safety half of the stream
life cycle (`BinanceUserStream`: at most one runner, none that nobody can join) as an invariant of
its own; and the verdict of the cancellation as an abstract specification of the coordinator.
