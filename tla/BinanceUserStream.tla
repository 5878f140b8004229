--------------------------- MODULE BinanceUserStream ---------------------------
(***************************************************************************)
(* The private user stream of BinanceDealService: its status, the thread   *)
(* that reads it (runner), and the callers that start and stop it under    *)
(* streamLifecycleMutex.  Callers that need the stream connected, and      *)
(* callers that wait for orders, sleep on orderUpdateCondition.            *)
(*                                                                         *)
(* A change of the status is not made under the mutex of the condition     *)
(* variable, so a caller that has evaluated its predicate ("checked") can  *)
(* miss the notification before it is asleep.                              *)
(***************************************************************************)
EXTENDS Naturals, Sequences, FiniteSets

CONSTANTS Waiters,       \* threads that wait for orders
          Interface,     \* the thread that starts and stops the stream by itself
          NoOne,
          MaxCalls       \* bound: starts and stops by the interface thread

Callers == Waiters \cup {Interface}

ASSUME StreamAssumption ==
  /\ IsFiniteSet(Waiters) /\ Interface \notin Waiters /\ NoOne \notin Callers
  /\ MaxCalls \in Nat

VARIABLES
  streamStatus, userStream,
  runner,                \* where the runner thread is; "none": not joinable
  socket,                \* userWebsocketStream: "none", "open" or "closed"
  inbox,                 \* messages of the exchange on their way to the runner
  lifecycle,             \* owner of streamLifecycleMutex
  captured,              \* the owner's copy of userWebsocketStream is not null
  pc,                    \* where each caller is
  cond,                  \* each caller at the condition variable: "out", "checked", "asleep"
  calls                  \* counted for MaxCalls

statusVars == <<streamStatus, userStream, runner, socket, inbox>>
lockVars == <<lifecycle, captured>>
streamVars == <<statusVars, lockVars, pc, cond, calls>>

StreamInit ==
  /\ streamStatus = "STOPPED" /\ userStream = FALSE
  /\ runner = "none" /\ socket = "none" /\ inbox = <<>>
  /\ lifecycle = NoOne /\ captured = FALSE
  /\ pc = [c \in Callers |-> "idle"]
  /\ cond = [c \in Callers |-> "out"]
  /\ calls = 0

Goto(c, from, to) == pc[c] = from /\ pc' = [pc EXCEPT ![c] = to]

NotifyAll == cond' = [c \in Callers |-> IF cond[c] = "asleep" THEN "out" ELSE cond[c]]

\* setStreamStatus and setStreamError: the condition variable is notified after the change.
setStreamStatus(status) == streamStatus' = status /\ NotifyAll

\* pendingOrderWaitsMutex is held from the evaluation of a predicate until the caller sleeps.
WaitsUnlocked == \A c \in Callers : cond[c] # "checked"
-----------------------------------------------------------------------------
(***************************************************************************)
(* The runner thread.                                                      *)
(***************************************************************************)
\* prepareUserWebsocketStream as far as the handshake.
RunnerConnects ==
  /\ runner = "connecting"
  /\ runner' = "subscribing" /\ socket' = "open"
  /\ setStreamStatus("CONNECTING")
  /\ UNCHANGED <<userStream, inbox, lockVars, pc, calls>>

RunnerSubscribed ==
  /\ runner = "subscribing" /\ socket = "open"
  /\ runner' = "loop"
  /\ setStreamStatus("CONNECTED")
  /\ UNCHANGED <<userStream, socket, inbox, lockVars, pc, calls>>

\* while (userStream)
RunnerLoops ==
  /\ runner = "loop"
  /\ runner' = IF userStream THEN "reading" ELSE "closing"
  /\ UNCHANGED <<streamStatus, userStream, socket, inbox, lockVars, pc, cond, calls>>

\* Resolving, connecting, a handshake, the subscription or a read fails.
RunnerFails ==
  /\ \/ runner \in {"connecting", "subscribing"}
     \/ runner = "reading" /\ userStream
  /\ runner' = "closing"
  /\ setStreamStatus("ERROR")
  /\ UNCHANGED <<userStream, socket, inbox, lockVars, pc, calls>>

\* A read returns with an error (the socket was closed, or the network failed) and
\* the stream is being stopped.
RunnerStops ==
  /\ runner = "reading" /\ ~userStream
  /\ runner' = "closing"
  /\ UNCHANGED <<streamStatus, userStream, socket, inbox, lockVars, pc, cond, calls>>

RunnerCloses ==
  /\ runner = "closing"
  /\ runner' = "closed" /\ userStream' = FALSE
  /\ socket' = "none" /\ inbox' = <<>>
  /\ UNCHANGED <<streamStatus, lockVars, pc, cond, calls>>

RunnerEnds ==
  /\ runner = "closed"
  /\ runner' = "finished"
  /\ IF streamStatus # "ERROR" THEN setStreamStatus("STOPPED")
     ELSE UNCHANGED <<streamStatus, cond>>
  /\ UNCHANGED <<userStream, socket, inbox, lockVars, pc, calls>>

\* What the runner does without the exchange sending or the network failing.
RunnerThread ==
  \/ RunnerConnects \/ RunnerSubscribed \/ RunnerLoops \/ RunnerCloses \/ RunnerEnds
-----------------------------------------------------------------------------
(***************************************************************************)
(* stopUserStreamConcurrent and startUserStreamConcurrent, by the owner of *)
(* the lifecycle mutex.  After the stop a caller goes on to start the      *)
(* stream ("stop for start") or returns.                                   *)
(***************************************************************************)
Release == lifecycle' = NoOne /\ captured' = FALSE

\* Where a caller goes when its business with the stream is done.
Resume(c) == IF c = Interface THEN "idle" ELSE "await"

NothingToStop == ~userStream /\ socket = "none" /\ runner = "none" /\ streamStatus = "STOPPED"

StopLooks(c) ==
  /\ lifecycle = c
  /\ \/ /\ pc[c] \in {"stop", "stopForStart"} /\ ~(pc[c] = "stop" /\ NothingToStop)
        /\ pc' = [pc EXCEPT ![c] = IF @ = "stop" THEN "close" ELSE "closeForStart"]
        /\ captured' = (socket = "open")
        /\ UNCHANGED lifecycle
     \/ /\ NothingToStop
        /\ Goto(c, "stop", "idle")
        /\ Release
  /\ UNCHANGED <<statusVars, cond, calls>>

\* Mutated: the socket is left open.
StopClosesNothing(c) ==
  /\ \/ Goto(c, "close", "join") \/ Goto(c, "closeForStart", "joinForStart")
  /\ userStream' = FALSE
  /\ UNCHANGED <<streamStatus, runner, socket, inbox, lockVars, cond, calls>>

\* Closing the socket ends the read of the runner.
StopCloses(c) ==
  /\ \/ Goto(c, "close", "join") \/ Goto(c, "closeForStart", "joinForStart")
  /\ userStream' = FALSE
  /\ socket' = IF captured /\ socket = "open" THEN "closed" ELSE socket
  /\ UNCHANGED <<streamStatus, runner, inbox, lockVars, cond, calls>>

StopJoins(c) ==
  /\ runner \in {"none", "finished"}
  /\ \/ Goto(c, "join", "idle") /\ Release
     \/ Goto(c, "joinForStart", "start") /\ UNCHANGED lockVars
  /\ runner' = "none" /\ socket' = "none"
  /\ setStreamStatus("STOPPED")
  /\ UNCHANGED <<userStream, inbox, calls>>

\* startUserStreamConcurrent: nothing while userStream is set, a stop first while
\* there is a thread to join.
Start(c) ==
  /\ lifecycle = c /\ pc[c] = "start"
  /\ \/ /\ userStream
        /\ pc' = [pc EXCEPT ![c] = Resume(c)] /\ Release
        /\ UNCHANGED <<statusVars, cond, calls>>
     \/ /\ ~userStream /\ runner # "none"
        /\ pc' = [pc EXCEPT ![c] = "stopForStart"]
        /\ UNCHANGED <<statusVars, lockVars, cond, calls>>
     \/ /\ ~userStream /\ runner = "none"
        /\ userStream' = TRUE
        /\ runner' = "connecting"
        /\ setStreamStatus("CONNECTING")
        /\ pc' = [pc EXCEPT ![c] = Resume(c)] /\ Release
        /\ UNCHANGED <<socket, inbox, calls>>

\* startUserStream and stopUserStream of the interface thread.
InterfaceCalls ==
  /\ calls < MaxCalls /\ lifecycle = NoOne
  /\ pc[Interface] = "idle"
  /\ \E operation \in {"start", "stop"} : pc' = [pc EXCEPT ![Interface] = operation]
  /\ lifecycle' = Interface /\ calls' = calls + 1
  /\ UNCHANGED <<statusVars, captured, cond>>

\* ensureUserStreamConnected as far as the wait.
EnsureConnected(c) ==
  /\ lifecycle = NoOne
  /\ \/ /\ streamStatus \in {"CONNECTED", "CONNECTING"}
        /\ Goto(c, "ensure", "await")
        /\ UNCHANGED lifecycle
     \/ /\ streamStatus = "ERROR" \/ (streamStatus = "STOPPED" /\ runner # "none")
        /\ Goto(c, "ensure", "stopForStart")
        /\ lifecycle' = c
     \/ /\ streamStatus = "STOPPED" /\ runner = "none"
        /\ Goto(c, "ensure", "start")
        /\ lifecycle' = c
  /\ UNCHANGED <<statusVars, captured, cond, calls>>

Lifecycle(c) == StopLooks(c) \/ StopCloses(c) \/ StopJoins(c) \/ Start(c)
=============================================================================
