--------------------------- MODULE BinanceOrderWaits ---------------------------
(***************************************************************************)
(* The order waits of BinanceDealService: waitUntilOrderFilled,            *)
(* cancelOrderAndWaitUntilTerminal, and the two calls for OCO orders, each *)
(* by a thread of its own, over the table pendingOrderWaits.  The table is *)
(* fed by the stream and by REST answers, which can be old when they are   *)
(* published.                                                              *)
(*                                                                         *)
(* An order is NEW until it is FILLED or ends unfilled (CANCELED), as      *)
(* OrderStatusUtil classifies it.                                          *)
(***************************************************************************)
EXTENDS BinanceUserStream

CONSTANT Calls           \* per waiter, the calls it may make: kind and legs, in order

Kinds == {"waitOrder", "cancelOrder", "waitOco", "cancelOco"}

Orders == UNION {{c.legs[i] : i \in DOMAIN c.legs} : c \in UNION {Calls[w] : w \in Waiters}}

\* The legs of a pair are two orders.
ASSUME CallsAssumption ==
  \A w \in Waiters : \A c \in Calls[w] :
    /\ c.kind \in Kinds /\ c.legs \in Seq(Orders)
    /\ Len(c.legs) = IF c.kind \in {"waitOco", "cancelOco"} THEN 2 ELSE 1
    /\ \A i, j \in DOMAIN c.legs : i # j => c.legs[i] # c.legs[j]

VARIABLES
  call,                  \* the call a waiter makes
  order,                 \* the truth at the exchange
  pendingOrderWaits,     \* per order: registrationCount and orderInfo
  todo,                  \* the legs a waiter still has to reconcile
  answer,                \* the REST answer it has to publish
  purpose,               \* why it reconciles
  filled,                \* the leg it found filled
  stopToken,             \* waiters whose stop source was stopped
  result

waitVars == <<pendingOrderWaits, todo, answer, purpose, filled, result>>
callVars == <<call, stopToken>>
vars == <<streamVars, order, waitVars, callVars>>

Legs(w) == {call[w].legs[i] : i \in DOMAIN call[w].legs}

IsOco(w) == call[w].kind \in {"waitOco", "cancelOco"}

Cancels(w) == call[w].kind \in {"cancelOrder", "cancelOco"}

isOrderTerminal(status) == status \in {"FILLED", "CANCELED"}

OtherLeg(w, leg) == CHOOSE o \in Legs(w) : o # leg

Sibling(w) == OtherLeg(w, filled[w])

Info(o) == pendingOrderWaits[o].info

KnownTerminal(o) == isOrderTerminal(Info(o))

Init ==
  /\ StreamInit
  /\ call \in {f \in [Waiters -> UNION {Calls[w] : w \in Waiters}] : \A w \in Waiters : f[w] \in Calls[w]}
  /\ order = [o \in Orders |-> "NEW"]
  /\ pendingOrderWaits = [o \in Orders |-> [count |-> 0, info |-> "none"]]
  /\ todo = [w \in Waiters |-> <<>>]
  /\ answer = [w \in Waiters |-> "none"]
  /\ purpose = [w \in Waiters |-> "prepare"]
  /\ filled = [w \in Waiters |-> "none"]
  /\ stopToken = {}
  /\ result = [w \in Waiters |-> "none"]
-----------------------------------------------------------------------------
(***************************************************************************)
(* The table.                                                              *)
(***************************************************************************)
Register(os) ==
  pendingOrderWaits' = [o \in Orders |-> IF o \in os THEN [pendingOrderWaits[o] EXCEPT !.count = @ + 1]
                                         ELSE pendingOrderWaits[o]]

\* Mutated: the entry is erased with the first registration.
UnregisterErases(os) ==
  pendingOrderWaits' = [o \in Orders |-> IF o \in os THEN [count |-> 0, info |-> "none"]
                                         ELSE pendingOrderWaits[o]]

Unregister(os) ==
  pendingOrderWaits' = [o \in Orders |->
    IF o \notin os THEN pendingOrderWaits[o]
    ELSE IF pendingOrderWaits[o].count > 1 THEN [pendingOrderWaits[o] EXCEPT !.count = @ - 1]
    ELSE [count |-> 0, info |-> "none"]]

\* Mutated: the last update wins.
NewsAlways(o, status) == pendingOrderWaits[o].count > 0

\* publishOrderUpdate drops an update for an order nobody waits for, one after a
\* fill, and one other than a fill after an end.
News(o, status) ==
  /\ pendingOrderWaits[o].count > 0
  /\ Info(o) # "FILLED"
  /\ isOrderTerminal(Info(o)) => status = "FILLED"

\* Mutated: the table is changed without its mutex.
publishUnlocked(o, status) ==
  IF News(o, status)
  THEN pendingOrderWaits' = [pendingOrderWaits EXCEPT ![o].info = status] /\ NotifyAll
  ELSE UNCHANGED <<pendingOrderWaits, cond>>

publishOrderUpdate(o, status) ==
  /\ WaitsUnlocked
  /\ IF News(o, status)
     THEN pendingOrderWaits' = [pendingOrderWaits EXCEPT ![o].info = status] /\ NotifyAll
     ELSE UNCHANGED <<pendingOrderWaits, cond>>
-----------------------------------------------------------------------------
(***************************************************************************)
(* The exchange, and the runner handling its messages.                     *)
(***************************************************************************)
Subscribed == runner \in {"loop", "reading"} /\ socket = "open"

\* Each end is reported by a message of its own.
OrdersEnd(os, status) ==
  /\ \A o \in os : order[o] = "NEW"
  /\ order' = [o \in Orders |-> IF o \in os THEN status ELSE order[o]]
  /\ \E reports \in [1 .. Cardinality(os) -> os] :
       /\ {reports[i] : i \in DOMAIN reports} = os
       /\ inbox' = IF Subscribed THEN inbox \o [i \in DOMAIN reports |-> <<reports[i], status>>]
                   ELSE inbox

\* An order ends by itself, or its list is rejected (listStatus).
OrderEnds ==
  /\ \/ \E o \in Orders, status \in {"FILLED", "CANCELED"} : OrdersEnd({o}, status)
     \/ \E w \in Waiters : IsOco(w) /\ OrdersEnd(Legs(w), "CANCELED")
  /\ UNCHANGED <<streamStatus, userStream, runner, socket, lockVars, pc, cond, calls, waitVars, callVars>>

\* handleUserStreamMessage
RunnerReads ==
  /\ runner = "reading" /\ socket = "open" /\ inbox # <<>>
  /\ runner' = "loop"
  /\ publishOrderUpdate(Head(inbox)[1], Head(inbox)[2])
  /\ inbox' = Tail(inbox)
  /\ UNCHANGED <<streamStatus, userStream, socket, lockVars, pc, calls, order, todo, answer, purpose,
                 filled, result, callVars>>
-----------------------------------------------------------------------------
(***************************************************************************)
(* A waiter.                                                               *)
(***************************************************************************)
Unchanged(c) == UNCHANGED <<statusVars, lockVars, calls, order, callVars>>

\* Throws or returns: the registrations are destroyed.
Leave(w, outcome) ==
  /\ WaitsUnlocked
  /\ Unregister(Legs(w))
  /\ pc' = [pc EXCEPT ![w] = "done"]
  /\ result' = [result EXCEPT ![w] = outcome]
  /\ todo' = [todo EXCEPT ![w] = <<>>] /\ answer' = [answer EXCEPT ![w] = "none"]
  /\ purpose' = [purpose EXCEPT ![w] = "prepare"] /\ filled' = [filled EXCEPT ![w] = "none"]

Stay(w, to) ==
  /\ pc' = [pc EXCEPT ![w] = to]
  /\ UNCHANGED waitVars

\* It reconciles legs before it goes on.
Reconcile(w, legs, why) ==
  /\ pc' = [pc EXCEPT ![w] = "query"]
  /\ todo' = [todo EXCEPT ![w] = legs]
  /\ purpose' = [purpose EXCEPT ![w] = why]
  /\ UNCHANGED <<pendingOrderWaits, answer, filled, result>>

Enter(w) ==
  /\ pc[w] = "idle" /\ WaitsUnlocked
  /\ IF w \in stopToken
     THEN pc' = [pc EXCEPT ![w] = "done"] /\ result' = [result EXCEPT ![w] = "interrupted"]
          /\ UNCHANGED pendingOrderWaits
     ELSE pc' = [pc EXCEPT ![w] = "ensure"] /\ Register(Legs(w)) /\ UNCHANGED result
  /\ UNCHANGED <<todo, answer, purpose, filled, cond>> /\ Unchanged(w)

Ensure(w) == EnsureConnected(w) /\ UNCHANGED <<order, waitVars, callVars>>

\* The second reading of the status in ensureUserStreamConnected.
Connected(w) ==
  /\ pc[w] = "awaited"
  /\ \/ streamStatus = "CONNECTED" /\ Reconcile(w, call[w].legs, "prepare")
     \/ streamStatus # "CONNECTED" /\ Leave(w, "threw")
  /\ UNCHANGED cond /\ Unchanged(w)

\* reconcileOrder: getOrder, then publishOrderUpdate.
Query(w) ==
  /\ pc[w] = "query"
  /\ pc' = [pc EXCEPT ![w] = "publish"]
  /\ answer' = [answer EXCEPT ![w] = order[Head(todo[w])]]
  /\ UNCHANGED <<pendingOrderWaits, todo, purpose, filled, result, cond>> /\ Unchanged(w)

\* After the last leg: the wait, the decision to cancel, or the outcome.
Continue(w) ==
  CASE purpose[w] = "prepare" -> IF Cancels(w) THEN "decide" ELSE "wait"
    [] purpose[w] = "sibling" -> "filledLeg"
    [] purpose[w] = "recover" -> "recovered"
    [] purpose[w] = "confirm" -> "confirmed"

PublishAnswer(w) ==
  /\ pc[w] = "publish"
  /\ publishOrderUpdate(Head(todo[w]), answer[w])
  /\ todo' = [todo EXCEPT ![w] = Tail(@)]
  /\ answer' = [answer EXCEPT ![w] = "none"]
  /\ pc' = [pc EXCEPT ![w] = IF Len(todo[w]) > 1 THEN "query" ELSE Continue(w)]
  /\ UNCHANGED <<purpose, filled, result>> /\ Unchanged(w)

\* A failing REST request ends the call, but for the one after an unfilled end of a leg.
QueryFails(w) ==
  /\ pc[w] = "query"
  /\ IF purpose[w] = "sibling" THEN Stay(w, "filledLeg") ELSE Leave(w, "threw")
  /\ UNCHANGED cond /\ Unchanged(w)

(***************************************************************************)
(* Waiting at the condition variable.                                      *)
(***************************************************************************)
Awake(w) ==
  CASE pc[w] = "await" -> streamStatus # "CONNECTING"
    [] pc[w] = "wait" -> (\E o \in Legs(w) : KnownTerminal(o)) \/ streamStatus # "CONNECTED"
    [] pc[w] = "waitAll" -> (\A o \in Legs(w) : KnownTerminal(o)) \/ streamStatus # "CONNECTED"
    [] pc[w] = "waitSibling" -> KnownTerminal(Sibling(w)) \/ streamStatus # "CONNECTED"
    [] OTHER -> FALSE

Waiting(w) == pc[w] \in {"await", "wait", "waitAll", "waitSibling"}

CheckFails(w) ==
  /\ Waiting(w) /\ cond[w] = "out" /\ WaitsUnlocked
  /\ ~Awake(w)
  /\ w \in stopToken => pc[w] = "await"
  /\ cond' = [cond EXCEPT ![w] = "checked"]
  /\ UNCHANGED <<pc, waitVars>> /\ Unchanged(w)

Sleep(w) ==
  /\ cond[w] = "checked"
  /\ cond' = [cond EXCEPT ![w] = IF w \in stopToken /\ pc[w] # "await" THEN "out" ELSE "asleep"]
  /\ UNCHANGED <<pc, waitVars>> /\ Unchanged(w)

\* throwIfOrderWaitInterrupted: the stop ends a wait whose predicate is false.
Interrupted(w) ==
  /\ pc[w] \in {"wait", "waitAll", "waitSibling"} /\ cond[w] = "out" /\ WaitsUnlocked
  /\ ~Awake(w) /\ w \in stopToken
  /\ Leave(w, "interrupted")
  /\ UNCHANGED cond /\ Unchanged(w)

Wakes(w, at) == pc[w] = at /\ cond[w] = "out" /\ WaitsUnlocked /\ Awake(w) /\ UNCHANGED cond /\ Unchanged(w)

Await(w) == Wakes(w, "await") /\ Stay(w, "awaited")

\* A leg was filled: the other one must end as well.
WaitForSibling(w, o) ==
  /\ pc' = [pc EXCEPT ![w] = "waitSibling"]
  /\ filled' = [filled EXCEPT ![w] = o]
  /\ UNCHANGED <<pendingOrderWaits, todo, answer, purpose, result>>

FilledLegs(w) == {o \in Legs(w) : Info(o) = "FILLED"}

\* processOrderUpdate
OrderWaitEnds(w) ==
  /\ ~IsOco(w) /\ Wakes(w, "wait")
  /\ Leave(w, IF FilledLegs(w) # {} THEN "filled" ELSE "threw")

\* processOcoOrdersUpdate
OcoWaitEnds(w) ==
  /\ IsOco(w) /\ Wakes(w, "wait")
  /\ \/ FilledLegs(w) = Legs(w) /\ Stay(w, "cleanup")
     \/ /\ FilledLegs(w) # Legs(w)
        /\ \E o \in FilledLegs(w) : WaitForSibling(w, o)
     \/ /\ FilledLegs(w) = {}
        /\ \E ended \in Legs(w) :
             /\ KnownTerminal(ended)
             /\ ended # call[w].legs[1] => ~KnownTerminal(call[w].legs[1])
             /\ Reconcile(w, <<OtherLeg(w, ended)>>, "sibling")
     \/ (\A o \in Legs(w) : ~KnownTerminal(o)) /\ Stay(w, "cleanup")

\* getFilledOcoOrder, for a wait or a cancellation that has no filled leg yet.
FilledLegFound(w) ==
  /\ pc[w] = "filledLeg" /\ WaitsUnlocked
  /\ \/ FilledLegs(w) = Legs(w) /\ Stay(w, "cleanup")
     \/ FilledLegs(w) # Legs(w) /\ \E o \in FilledLegs(w) : WaitForSibling(w, o)
     \/ /\ FilledLegs(w) = {}
        /\ CASE ~Cancels(w) -> Stay(w, "cleanup")
             [] Cancels(w) /\ purpose[w] = "recover" -> Leave(w, "threw")
             [] Cancels(w) /\ purpose[w] # "recover" /\ w \in stopToken -> Leave(w, "interrupted")
             [] OTHER -> Stay(w, "cancel")
  /\ UNCHANGED cond /\ Unchanged(w)

\* Mutated: the sibling is not looked at.
SiblingIgnored(w) ==
  /\ Wakes(w, "waitSibling")
  /\ Leave(w, IF Cancels(w) THEN "terminal" ELSE "filled")

\* completeOcoWait
SiblingWaitEnds(w) ==
  /\ Wakes(w, "waitSibling")
  /\ CASE Info(Sibling(w)) = "CANCELED" -> Leave(w, IF Cancels(w) THEN "terminal" ELSE "filled")
       [] Info(Sibling(w)) = "FILLED" -> Stay(w, "cleanup")
       [] OTHER -> Leave(w, "threw")

\* cancelOrderAndWaitUntilTerminal and cancelOcoAndWaitUntilTerminal before they cancel.
Decide(w) ==
  /\ pc[w] = "decide" /\ WaitsUnlocked
  /\ LET known == \A o \in Legs(w) : KnownTerminal(o) IN
     CASE known -> Leave(w, "terminal")
       [] ~known /\ IsOco(w) -> Stay(w, "filledLeg")
       [] ~known /\ ~IsOco(w) /\ w \in stopToken -> Leave(w, "interrupted")
       [] OTHER -> Stay(w, "cancel")
  /\ UNCHANGED cond /\ Unchanged(w)

\* A cancel request at the exchange ends what is NEW of the legs, now or (nothing
\* changes) later.
CancelledLegs(w) == {o \in Legs(w) : order[o] = "NEW"}

\* cancelOrder publishes an answer that is terminal; cancelOco has no answer.
CancelAccepted(w) ==
  /\ pc[w] = "cancel" /\ CancelledLegs(w) # {}
  /\ \/ OrdersEnd(CancelledLegs(w), "CANCELED")
        /\ IF IsOco(w) THEN Stay(w, "waitAll")
           ELSE /\ pc' = [pc EXCEPT ![w] = "cancelAnswer"]
                /\ UNCHANGED waitVars
     \/ UNCHANGED <<order, inbox>> /\ Stay(w, "waitAll")
  /\ UNCHANGED <<streamStatus, userStream, runner, socket, lockVars, calls, cond, callVars>>

PublishCancelAnswer(w) ==
  /\ pc[w] = "cancelAnswer"
  /\ \E o \in Legs(w) : publishOrderUpdate(o, "CANCELED")
  /\ pc' = [pc EXCEPT ![w] = "waitAll"]
  /\ UNCHANGED <<todo, answer, purpose, filled, result>> /\ Unchanged(w)

\* The request fails, with or without effect: what became of the legs is looked up.
CancelFails(w) ==
  /\ pc[w] = "cancel"
  /\ \/ CancelledLegs(w) # {} /\ OrdersEnd(CancelledLegs(w), "CANCELED")
     \/ UNCHANGED <<order, inbox>>
  /\ Reconcile(w, call[w].legs, "recover")
  /\ UNCHANGED <<streamStatus, userStream, runner, socket, lockVars, calls, cond, callVars>>

Recovered(w) ==
  /\ pc[w] = "recovered" /\ WaitsUnlocked
  /\ LET known == \A o \in Legs(w) : KnownTerminal(o) IN
     CASE known -> Leave(w, "terminal")
       [] ~known /\ IsOco(w) -> Stay(w, "filledLeg")
       [] OTHER -> Leave(w, "threw")
  /\ UNCHANGED cond /\ Unchanged(w)

\* The wait after the cancel request; when the stream is down the legs are looked up.
CancelWaitEnds(w) ==
  /\ Wakes(w, "waitAll")
  /\ IF \A o \in Legs(w) : KnownTerminal(o) THEN Leave(w, "terminal")
     ELSE Reconcile(w, call[w].legs, "confirm")

Confirmed(w) ==
  /\ pc[w] = "confirmed" /\ WaitsUnlocked
  /\ Leave(w, IF \A o \in Legs(w) : KnownTerminal(o) THEN "terminal" ELSE "threw")
  /\ UNCHANGED cond /\ Unchanged(w)

\* cancelOcoAfterFailure: whatever it does, the wait has failed.
Cleanup(w) ==
  /\ pc[w] = "cleanup"
  /\ \/ CancelledLegs(w) # {} /\ OrdersEnd(CancelledLegs(w), "CANCELED")
     \/ UNCHANGED <<order, inbox>>
  /\ Leave(w, "threw")
  /\ UNCHANGED <<streamStatus, userStream, runner, socket, lockVars, calls, cond, callVars>>

\* The stop source of a waiter is stopped; its callback notifies.
RequestStop(w) ==
  /\ w \notin stopToken /\ pc[w] # "done"
  /\ stopToken' = stopToken \cup {w}
  /\ NotifyAll
  /\ UNCHANGED <<statusVars, lockVars, pc, calls, order, waitVars, call>>

WaiterStep(w) ==
  \/ Enter(w) \/ Ensure(w) \/ Connected(w) \/ Query(w) \/ PublishAnswer(w) \/ QueryFails(w)
  \/ CheckFails(w) \/ Sleep(w) \/ Interrupted(w) \/ Await(w)
  \/ OrderWaitEnds(w) \/ OcoWaitEnds(w) \/ FilledLegFound(w) \/ SiblingWaitEnds(w)
  \/ Decide(w) \/ CancelAccepted(w) \/ PublishCancelAnswer(w) \/ CancelFails(w) \/ Recovered(w)
  \/ CancelWaitEnds(w) \/ Confirmed(w) \/ Cleanup(w)

StreamStep ==
  /\ RunnerThread \/ RunnerFails \/ RunnerStops \/ InterfaceCalls \/ \E c \in Callers : Lifecycle(c)
  /\ UNCHANGED <<order, waitVars, callVars>>

Next ==
  \/ StreamStep \/ OrderEnds \/ RunnerReads
  \/ \E w \in Waiters : WaiterStep(w) \/ RequestStop(w)

(***************************************************************************)
(* Every thread runs, network calls return, a closed socket fails its      *)
(* reader.  Orders, failures, stops and starts are never forced.           *)
(***************************************************************************)
orderVars == <<order, waitVars, callVars>>

Fairness ==
  /\ WF_vars(RunnerThread /\ UNCHANGED orderVars)
  /\ WF_vars(socket = "closed" /\ (RunnerFails \/ RunnerStops) /\ UNCHANGED orderVars)
  /\ SF_vars(RunnerReads)
  /\ \A c \in Callers : WF_vars(Lifecycle(c) /\ UNCHANGED orderVars)
  /\ \A w \in Waiters : SF_vars(WaiterStep(w))

Spec == Init /\ [][Next]_vars /\ Fairness
-----------------------------------------------------------------------------
Registered(o) == {w \in Waiters : o \in Legs(w) /\ pc[w] \notin {"idle", "done"}}

(***************************************************************************)
(* Calls on the same order share its entry, and each one's registration    *)
(* keeps it: the entry is there exactly while somebody needs it, and what  *)
(* it says of an end is true.                                              *)
(***************************************************************************)
EntriesServeTheirWaiters ==
  \A o \in Orders :
    /\ pendingOrderWaits[o].count = Cardinality(Registered(o))
    /\ Registered(o) = {} => Info(o) = "none"
    /\ KnownTerminal(o) => Info(o) = order[o]

(***************************************************************************)
(* What a call returns is what happened at the exchange, whatever streams, *)
(* answers and other calls did in between: a wait returns for a fill, an   *)
(* OCO wait when one leg is filled and the other ended unfilled, and a     *)
(* cancellation when nothing is left alive.                                *)
(***************************************************************************)
AnswersAreTrue ==
  \A w \in Waiters :
    /\ result[w] \in {"filled", "terminal"} => \A o \in Legs(w) : isOrderTerminal(order[o])
    /\ result[w] = "filled" => Cardinality({o \in Legs(w) : order[o] = "FILLED"}) = 1

(***************************************************************************)
(* What the table knows of the end of an order is never undone while       *)
(* anybody waits for it: not by a REST answer that is older than the       *)
(* stream's report.                                                        *)
(***************************************************************************)
KnownEndStays ==
  [][\A o \in Orders : KnownTerminal(o) /\ pendingOrderWaits'[o].count > 0
       => isOrderTerminal(pendingOrderWaits'[o].info)]_vars

(***************************************************************************)
(* A report that reached the socket reaches the waiter, however the        *)
(* notification falls between its look at the table and its sleep: the     *)
(* wait is over, or the connection goes down before the report is read.    *)
(***************************************************************************)
ReportReachesWaiter ==
  \A w \in Waiters :
    (pc[w] = "wait" /\ \E i \in DOMAIN inbox : inbox[i][1] \in Legs(w))
      ~> (pc[w] # "wait" \/ ~Subscribed)

(***************************************************************************)
(* A stop that has seen the socket ends: the runner is joined and the      *)
(* mutex released, whatever the runner was doing.                          *)
(***************************************************************************)
StopWithSocketEnds ==
  (captured /\ \E c \in Callers : pc[c] \in {"join", "joinForStart"}) ~> lifecycle = NoOne

(***************************************************************************)
(* A stop that is joining the runner ends, as the comment at the closing   *)
(* of the socket promises ("to force read to return error").  It need not: *)
(* the socket is looked at before userStream is cleared, and the runner    *)
(* can publish it, subscribe, and block in a read in between.              *)
(***************************************************************************)
StopEnds == (\E c \in Callers : pc[c] = "join") ~> lifecycle = NoOne

(***************************************************************************)
(* A wait ends when the stream has gone down for good, as its error        *)
(* message says ("user stream stopped while waiting for order").  It need  *)
(* not: the status changes outside of the mutex of the condition variable. *)
(***************************************************************************)
StreamEndReleasesWaiter ==
  \A w \in Waiters : (pc[w] = "wait" /\ runner = "none") ~> (pc[w] # "wait" \/ runner # "none")
=============================================================================
