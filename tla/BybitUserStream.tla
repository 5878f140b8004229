---------------------------- MODULE BybitUserStream ----------------------------
(***************************************************************************)
(* The private user stream of BybitDealService and the balance cache it    *)
(* feeds: the runner that reads the stream, the callers that start and     *)
(* stop it under streamLifecycleMutex, the wallet updates of the stream    *)
(* and getBalancesRest, both of which write the cache asset by asset.      *)
(*                                                                         *)
(* A balance is the number of times it changed at the exchange.  A change  *)
(* of the status posts its event to the observer, if there is one.         *)
(***************************************************************************)
EXTENDS AsyncTaskExecutor

CONSTANTS Assets, StreamCallers, NoOne,
          MaxChanges     \* bound: how often a balance changes

\* The service holds some assets.
ASSUME StreamAssumption ==
  /\ NoOne \notin StreamCallers /\ MaxChanges \in Nat
  /\ IsFiniteSet(Assets) /\ Assets # {}

VARIABLES
  streamStatus, userStream,
  runner,                \* where the runner is; "none": not joinable
  socket,                \* "none", "open" or "closed"
  inbox,                 \* wallet messages on their way to the runner
  coins,                 \* what is left of the message the runner is handling
  lifecycle,             \* owner of streamLifecycleMutex
  at,                    \* per caller: where it is in startUserStream or stopUserStream
  observed,              \* userStreamEventHandlers are set
  account,               \* the balances at the exchange
  balances,              \* the cache
  answer                 \* what the REST answer has left to write

runnerVars == <<runner, socket, inbox, coins>>
streamVars == <<streamStatus, userStream, runnerVars>>
lockVars == <<lifecycle, at>>
balanceVars == <<account, balances, answer>>

StreamInit ==
  /\ streamStatus = "STOPPED" /\ userStream = FALSE
  /\ runner = "none" /\ socket = "none" /\ inbox = <<>> /\ coins = <<>>
  /\ lifecycle = NoOne /\ at = [c \in StreamCallers |-> "out"]
  /\ observed = FALSE
  /\ account = [a \in Assets |-> 0] /\ balances = [a \in Assets |-> 0]
  /\ answer = <<>>

\* notifyBalanceCacheChanged and notifyUserStreamStatusChanged: the observer posts.
Notify(kind) == IF observed THEN Post([kind |-> kind]) ELSE UNCHANGED loop

setStreamStatus(status) == streamStatus' = status /\ Notify("status")

Subscribed == runner \in {"loop", "reading", "coins"} /\ socket = "open"
-----------------------------------------------------------------------------
(***************************************************************************)
(* The runner.                                                             *)
(***************************************************************************)
\* prepareUserWebsocketStream: the socket is published before it is authenticated.
RunnerConnects ==
  /\ runner = "connecting"
  /\ runner' = "subscribing" /\ socket' = "open"
  /\ setStreamStatus("CONNECTING")
  /\ UNCHANGED <<userStream, inbox, coins>>

\* authenticateUserWebsocketStream, subscribeUserWebsocketStream
RunnerSubscribed ==
  /\ runner = "subscribing" /\ socket = "open"
  /\ runner' = "loop"
  /\ setStreamStatus("CONNECTED")
  /\ UNCHANGED <<userStream, socket, inbox, coins>>

\* while (userStream)
RunnerLoops ==
  /\ runner = "loop"
  /\ runner' = IF userStream THEN "reading" ELSE "closing"
  /\ UNCHANGED <<streamStatus, userStream, socket, inbox, coins, loop>>

\* An exception while connecting, or a read error: an error of the stream while it is wanted.
RunnerFails ==
  /\ runner \in {"connecting", "subscribing", "reading"}
  /\ runner' = "closing"
  /\ IF userStream THEN setStreamStatus("ERROR") ELSE UNCHANGED <<streamStatus, loop>>
  /\ UNCHANGED <<userStream, socket, inbox, coins>>

\* The read is aborted, or the peer closes the stream.
RunnerReadsEnd ==
  /\ runner = "reading"
  /\ runner' = "closing"
  /\ UNCHANGED <<streamStatus, userStream, socket, inbox, coins, loop>>

RunnerCloses ==
  /\ runner = "closing"
  /\ runner' = "closed" /\ userStream' = FALSE
  /\ socket' = "none" /\ inbox' = <<>>
  /\ UNCHANGED <<streamStatus, coins, loop>>

RunnerEnds ==
  /\ runner = "closed"
  /\ runner' = "finished"
  /\ IF streamStatus # "ERROR" THEN setStreamStatus("STOPPED") ELSE UNCHANGED <<streamStatus, loop>>
  /\ UNCHANGED <<userStream, socket, inbox, coins>>

\* handleUserStreamMessage, handleWalletUpdate
ReadWallet ==
  /\ runner = "reading" /\ socket = "open" /\ inbox # <<>>
  /\ runner' = "coins" /\ coins' = Head(inbox) /\ inbox' = Tail(inbox)
  /\ UNCHANGED <<streamStatus, userStream, socket, loop>>

\* updateBalanceCache of the next coin; the observers are told after the last one.
WriteCoin ==
  /\ runner = "coins"
  /\ balances' = [balances EXCEPT ![Head(coins).asset] = Head(coins).value]
  /\ coins' = Tail(coins)
  /\ IF Len(coins) = 1 THEN runner' = "loop" /\ Notify("balances")
     ELSE UNCHANGED <<runner, loop>>
  /\ UNCHANGED <<streamStatus, userStream, socket, inbox, account, answer>>

RunnerWorks ==
  /\ RunnerConnects \/ RunnerSubscribed \/ RunnerLoops \/ RunnerCloses \/ RunnerEnds \/ ReadWallet
  /\ UNCHANGED balanceVars
-----------------------------------------------------------------------------
(***************************************************************************)
(* startUserStreamConcurrent and stopUserStreamConcurrent, by a caller     *)
(* that holds the mutex.  "stop" and "start" are the entries; a start      *)
(* stops what is left of an earlier stream first.                          *)
(***************************************************************************)
Moves(c, from, to) == at[c] = from /\ at' = [at EXCEPT ![c] = to]

Enter(c, call) ==
  /\ lifecycle = NoOne
  /\ Moves(c, "out", call) /\ lifecycle' = c

Start(c) ==
  /\ at[c] = "start"
  /\ \/ /\ userStream
        /\ Moves(c, "start", "out") /\ lifecycle' = NoOne
        /\ UNCHANGED <<streamVars, loop>>
     \/ /\ ~userStream /\ runner # "none"
        /\ Moves(c, "start", "stopForStart")
        /\ UNCHANGED <<streamVars, lifecycle, loop>>
     \/ /\ ~userStream /\ runner = "none"
        /\ Moves(c, "start", "out") /\ lifecycle' = NoOne
        /\ userStream' = TRUE /\ runner' = "connecting"
        /\ setStreamStatus("CONNECTING")
        /\ UNCHANGED <<socket, inbox, coins>>

StopClears(c) ==
  /\ Moves(c, "stop", "close") \/ Moves(c, "stopForStart", "closeForStart")
  /\ userStream' = FALSE
  /\ UNCHANGED <<streamStatus, runnerVars, lifecycle, loop>>

StopCloses(c) ==
  /\ Moves(c, "close", "join") \/ Moves(c, "closeForStart", "joinForStart")
  /\ socket' = IF socket = "open" THEN "closed" ELSE socket
  /\ UNCHANGED <<streamStatus, userStream, runner, inbox, coins, lifecycle, loop>>

StopJoins(c) ==
  /\ runner \in {"none", "finished"}
  /\ \/ Moves(c, "join", "out") /\ lifecycle' = NoOne
     \/ Moves(c, "joinForStart", "start") /\ UNCHANGED lifecycle
  /\ runner' = "none" /\ socket' = "none"
  /\ setStreamStatus("STOPPED")
  /\ UNCHANGED <<userStream, inbox, coins>>

Lifecycle(c) == Start(c) \/ StopClears(c) \/ StopCloses(c) \/ StopJoins(c)
-----------------------------------------------------------------------------
(***************************************************************************)
(* The account at the exchange.  A wallet message names every asset that   *)
(* changed.                                                                *)
(***************************************************************************)
Coins(changed, values) ==
  {msg \in [1 .. Cardinality(changed) -> [asset : changed, value : {values[a] : a \in changed}]] :
     /\ {msg[i].asset : i \in DOMAIN msg} = changed
     /\ \A i \in DOMAIN msg : msg[i].value = values[msg[i].asset]}

AccountChanges(changed) ==
  /\ changed # {} /\ \A a \in changed : account[a] < MaxChanges
  /\ account' = [a \in Assets |-> IF a \in changed THEN account[a] + 1 ELSE account[a]]
  /\ IF Subscribed THEN \E msg \in Coins(changed, account') : inbox' = Append(inbox, msg)
     ELSE UNCHANGED inbox
  /\ UNCHANGED <<streamStatus, userStream, runner, socket, coins, balances, answer, loop>>

(***************************************************************************)
(* getBalancesRest, by the worker of slot s: the account type that         *)
(* answered last is asked, then the other one.  One of them answers, or    *)
(* both fail; the coins of the answer are written one by one               *)
(* (refreshBalancesCache, processCoins).                                   *)
(***************************************************************************)
RestAnswers(s) ==
  /\ WorkGoes(s, "request", "write")
  /\ \E msg \in Coins(Assets, account) : answer' = msg
  /\ UNCHANGED <<uiTaskState, outcome, loop, account, balances>>

RestFails(s) == WorkReturns(s, "request", Failure) /\ UNCHANGED balanceVars

RestWritesCoin(s) ==
  /\ worker[s] = "write"
  /\ balances' = [balances EXCEPT ![Head(answer).asset] = Head(answer).value]
  /\ answer' = Tail(answer)
  /\ IF Len(answer) = 1 THEN WorkReturns(s, "write", Success("balances"))
     ELSE UNCHANGED <<taskVars, loop>>
  /\ UNCHANGED account
=============================================================================
