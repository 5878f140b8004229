------------------------------ MODULE OrderSession ------------------------------
(***************************************************************************)
(* The orders of a session as OrderSessionModel keeps them: each entry is  *)
(* submitted, awaited, refreshed and cancelled by tasks of the executor,   *)
(* whose results come back through the event loop, possibly after the      *)
(* entry has moved on.  A revision tells the late results apart.           *)
(*                                                                         *)
(* All entries are of one pair of one exchange.  An order is NEW until it  *)
(* is FILLED or ends unfilled (CANCELED); a query that fails yields        *)
(* "error".  The cancelled status that Bybit's cancelOrder writes itself,  *)
(* when the exchange has only acknowledged the request, is kept apart from *)
(* a reported one as ACKNOWLEDGED; the program makes no difference.        *)
(***************************************************************************)
EXTENDS AsyncTaskExecutor

CONSTANTS
  Exchange,              \* the exchange that all entries are of
  BasicOrders, OcoGroups,
  MaxActions             \* bound: how many placements, refreshes and cancellations the user asks for

Entries == BasicOrders \cup OcoGroups

ASSUME SessionAssumption ==
  /\ Exchange \in {"BINANCE", "BYBIT"}
  /\ BasicOrders \cap OcoGroups = {}
  /\ Slots = Entries \X {"submission", "wait", "action"}
  /\ MaxActions \in Nat

Legs(e) == IF e \in OcoGroups THEN {"takeProfit", "stopLoss"} ELSE {"order"}

VARIABLES
  order,                 \* per entry: its orders at the exchange, "none" until placed
  entry,                 \* the entry of the model
  waitRevision,          \* per entry: the revision its wait was started for
  request,               \* per entry: what its action task was started for
  actions                \* how often the user has acted

sessionVars == <<entry, waitRevision, request, actions>>
vars == <<executorVars, order, sessionVars>>

Ended(status) == status \in {"FILLED", "CANCELED"}

\* isOrderTerminal of what the program was told.
LooksEnded(status) == Ended(status) \/ status = "ACKNOWLEDGED"

NoRequest == [action |-> "NONE", revisions |-> <<>>]

Init ==
  /\ ExecutorInit
  /\ order = [e \in Entries |-> [l \in Legs(e) |-> "none"]]
  /\ entry = [e \in Entries |-> [status |-> "absent", action |-> "NONE", revision |-> 0, identified |-> FALSE,
                                 known |-> [l \in Legs(e) |-> "none"]]]
  /\ waitRevision = [e \in Entries |-> 0]
  /\ request = [e \in Entries |-> NoRequest]
  /\ actions = 0

\* publishEntryChange: the entry x with a new revision.
Revised(x) == [x EXCEPT !.revision = @ + 1]

WithStatus(x, status) == Revised([x EXCEPT !.status = status])

Starts(slot, first) ==
  /\ StartTasks({slot}, {}, [s \in Slots |-> first])
-----------------------------------------------------------------------------
(***************************************************************************)
(* What the results do to an entry.                                        *)
(***************************************************************************)
\* updateOcoChildAfterRefresh: an end that is known is not taken back.
Refreshed(x, result) ==
  [l \in DOMAIN x.known |->
     IF result[l] \in {"error", "none"} \/ (LooksEnded(x.known[l]) /\ ~LooksEnded(result[l])) THEN x.known[l] ELSE result[l]]

\* Mutated: a pair has ended with the first of its legs.
EndOfAnyLeg(known, status) ==
  IF \A l \in DOMAIN known : ~LooksEnded(known[l]) THEN status
  ELSE IF \E l \in DOMAIN known : known[l] = "FILLED" THEN "FILLED" ELSE "TERMINAL"

EndOf(known, status) ==
  IF \E l \in DOMAIN known : ~LooksEnded(known[l]) THEN status
  ELSE IF \E l \in DOMAIN known : known[l] = "FILLED" THEN "FILLED" ELSE "TERMINAL"

\* applyBasicOrderRefresh, applyOcoRefresh
Applied(x, result) ==
  LET known == Refreshed(x, result)
      status == EndOf(known, x.status)
      y == [x EXCEPT !.known = known] IN
  IF DOMAIN result = {"order"} /\ result["order"] \in {"error", "none"} THEN x
  ELSE IF status = x.status THEN y ELSE WithStatus(y, status)

finishEntryAction(x) == [x EXCEPT !.action = "NONE"]

finishPairAction(x, action) == IF x.action = action THEN finishEntryAction(x) ELSE x

isEntryActionCurrent(x, revision, action) == x.revision = revision /\ x.action = action

\* Mutated: a result for an earlier revision is dropped, and the action with it.
FinishedCurrentOnly(x, action, revision, result) ==
  IF isEntryActionCurrent(x, revision, action) THEN finishEntryAction(Applied(x, result)) ELSE x

\* finishEntryRefresh, finishOcoCancellation, finishCancelAll: a late result is not applied,
\* but its action has ended.
Finished(x, action, revision, result) ==
  IF isEntryActionCurrent(x, revision, action) THEN finishEntryAction(Applied(x, result))
  ELSE finishPairAction(x, action)

failEntryAction(x, action) == finishPairAction(x, action)

\* Mutated: the revision is not looked at.
WaitingAtAll(e) == TRUE

isCurrentWaitingRevision(e) == entry[e].status = "WAITING" /\ entry[e].revision = waitRevision[e]

\* finishOrderWait keeps the accepted order; finishOcoWait takes both legs over.
WaitFinished(e, known) ==
  WithStatus(IF e \in OcoGroups THEN [entry[e] EXCEPT !.known = known] ELSE entry[e], "FILLED")

\* failOrderWait: a cancellation under way stays the current one.
WaitFailed(e) ==
  IF entry[e].action \in {"CANCELLING", "CANCELLING_ALL"} THEN [entry[e] EXCEPT !.status = "MONITORING_FAILED"]
  ELSE WithStatus(entry[e], "MONITORING_FAILED")
-----------------------------------------------------------------------------
(***************************************************************************)
(* The user, at any point of the event loop.                               *)
(***************************************************************************)
Change(e, x) == entry' = [entry EXCEPT ![e] = x]

\* placeOrder, placeOco
Place(e) ==
  /\ entry[e].status = "absent"
  /\ Change(e, WithStatus(entry[e], "SUBMITTING"))
  /\ Starts(<<e, "submission">>, "place")
  /\ actions < MaxActions /\ actions' = actions + 1
  /\ UNCHANGED <<stopping, loop, order, waitRevision, request>>

\* createEntryRefreshRequest finds an order to ask for.
HasRequest(e) == entry[e].identified

Request(e, action, es) ==
  /\ actions < MaxActions /\ actions' = actions + 1
  /\ request' = [request EXCEPT ![e] = [action |-> action, revisions |-> [x \in es |-> entry[x].revision]]]
  /\ entry' = [x \in Entries |-> IF x \in es THEN [entry[x] EXCEPT !.action = action] ELSE entry[x]]
  /\ UNCHANGED <<stopping, loop, order, waitRevision>>

refreshOrder(e) ==
  /\ entry[e].action = "NONE" /\ HasRequest(e)
  /\ Starts(<<e, "action">>, "read")
  /\ Request(e, "REFRESHING", {e})

cancelOrder(e) ==
  /\ entry[e].action = "NONE" /\ HasRequest(e)
  /\ entry[e].status \in {"ACCEPTED", "WAITING", "MONITORING_FAILED"}
  /\ Starts(<<e, "action">>, "cancel")
  /\ Request(e, "CANCELLING", {e})

Listed == {e \in Entries : entry[e].status # "absent"}

cancelAllOpenOrders(e) ==
  /\ e \in Listed
  /\ \A x \in Listed : entry[x].status # "SUBMITTING" /\ entry[x].action = "NONE"
  /\ Starts(<<e, "action">>, "cancel")
  /\ Request(e, "CANCELLING_ALL", Listed)

UserActs == \E e \in Entries : Place(e) \/ refreshOrder(e) \/ cancelOrder(e) \/ cancelAllOpenOrders(e)
-----------------------------------------------------------------------------
(***************************************************************************)
(* The works, on threads of their own, and the exchange.                   *)
(***************************************************************************)
OrderEnds ==
  /\ \E e \in Entries : \E l \in Legs(e), status \in {"FILLED", "CANCELED"} :
       order[e][l] = "NEW" /\ order' = [order EXCEPT ![e][l] = status]
  /\ UNCHANGED <<executorVars, sessionVars>>

\* Bybit acknowledges an order without saying what became of it.
Accepted(e, placed) == IF Exchange = "BYBIT" THEN [l \in Legs(e) |-> "NEW"] ELSE placed

\* An accepted order may lack its identifier.  What a failed submission may have
\* placed is out of sight: its entry never gets an identifier to ask for.
SubmissionWork(e) ==
  /\ \/ \E first \in {"NEW", "FILLED"}, identified \in BOOLEAN :
          /\ first = "FILLED" => e \in BasicOrders
          /\ order' = [order EXCEPT ![e] = [l \in Legs(e) |-> first]]
          /\ WorkReturns(<<e, "submission">>, "place", Success([known |-> Accepted(e, order'[e]), identified |-> identified]))
     \/ WorkReturns(<<e, "submission">>, "place", Failure) /\ UNCHANGED order
  /\ UNCHANGED <<stopping, sessionVars>>

FilledAsAwaited(e) ==
  /\ \A l \in Legs(e) : Ended(order[e][l])
  /\ Cardinality({l \in Legs(e) : order[e][l] = "FILLED"}) = 1

WaitWork(e) ==
  /\ \/ FilledAsAwaited(e) /\ WorkReturns(<<e, "wait">>, "await", Success(order[e]))
     \/ ~FilledAsAwaited(e) /\ WorkReturns(<<e, "wait">>, "await", Failure)
  /\ UNCHANGED <<stopping, order, sessionVars>>

\* getEntryRefreshResult for every entry of the request, when its orders are as in now and
\* the queries of failed fail; an entry without identifier is not asked for.
Answer(e, now, failed) ==
  [x \in DOMAIN request[e].revisions |-> [l \in Legs(x) |->
     CASE ~HasRequest(x) -> "none"
       [] HasRequest(x) /\ <<x, l>> \in failed -> "error"
       [] OTHER -> now[x][l]]]

Asked(e) == UNION {{x} \X Legs(x) : x \in {y \in DOMAIN request[e].revisions : HasRequest(y)}}

ReadWork(e) ==
  /\ \E failed \in SUBSET Asked(e) : WorkReturns(<<e, "action">>, "read", Success(Answer(e, order, failed)))
  /\ UNCHANGED <<stopping, order, sessionVars>>

Cancelled(es) ==
  [x \in Entries |-> [l \in Legs(x) |-> IF x \in es /\ order[x][l] = "NEW" THEN "CANCELED" ELSE order[x][l]]]

\* cancelOrder of Bybit answers "Cancelled" for an acknowledged request.
CancelAnswer(e, now) == IF Exchange = "BYBIT" THEN [l \in Legs(e) |-> "ACKNOWLEDGED"] ELSE now

\* cancelOrder answers at once, or fails when the order has ended; cancelOco and
\* cancelAllOpenOrders are followed by queries.  The effect may come later or, when the
\* order fills first, not at all; and it may come although the request failed.
CancelWork(e) ==
  LET es == IF request[e].action = "CANCELLING_ALL" THEN Entries ELSE {e}
      asked == request[e].action = "CANCELLING" /\ e \in BasicOrders
      Returns(value) == WorkReturns(<<e, "action">>, "cancel", value) IN
  /\ order' \in {order, Cancelled(es)}
  /\ \/ ~asked /\ \E failed \in SUBSET Asked(e) : Returns(Success(Answer(e, order', failed)))
     \/ asked /\ ~Ended(order[e]["order"]) /\ Returns(Success([x \in {e} |-> CancelAnswer(e, order'[e])]))
     \/ Returns(Failure)
  /\ UNCHANGED <<stopping, sessionVars>>
-----------------------------------------------------------------------------
(***************************************************************************)
(* The event loop.                                                         *)
(***************************************************************************)
failSubmission(e) == Change(e, WithStatus(entry[e], "SUBMISSION_FAILED"))

acceptOrder(e, accepted) ==
  Change(e, WithStatus([entry[e] EXCEPT !.known = accepted.known, !.identified = accepted.identified], "ACCEPTED"))

\* acceptBasicOrder, acceptOco: the wait is started by an event of its own.
SubmissionDelivered(e) ==
  /\ IF outcome[<<e, "submission">>] = Failure
     THEN failSubmission(e) /\ loop' = Tail(loop)
     ELSE /\ acceptOrder(e, outcome[<<e, "submission">>][2])
          /\ loop' = Append(Tail(loop), [kind |-> "continue", entry |-> e])
  /\ UNCHANGED <<waitRevision, request, actions>>

WaitDelivered(e) ==
  /\ Change(e, IF ~isCurrentWaitingRevision(e) THEN entry[e]
               ELSE IF outcome[<<e, "wait">>] = Failure THEN WaitFailed(e)
               ELSE WaitFinished(e, outcome[<<e, "wait">>][2]))
  /\ loop' = Tail(loop)
  /\ UNCHANGED <<waitRevision, request, actions>>

ActionDelivered(e) ==
  LET r == request[e] IN
  /\ entry' = [x \in Entries |->
       IF x \notin DOMAIN r.revisions THEN entry[x]
       ELSE IF outcome[<<e, "action">>] = Failure THEN failEntryAction(entry[x], r.action)
       ELSE Finished(entry[x], r.action, r.revisions[x], outcome[<<e, "action">>][2][x])]
  /\ request' = [request EXCEPT ![e] = NoRequest]
  /\ loop' = Tail(loop)
  /\ UNCHANGED <<waitRevision, actions>>

CompleteTask(e) ==
  /\ Head(loop).kind = "completeTask" /\ Head(loop).slot[1] = e
  /\ TaskEnds(Head(loop).slot)
  /\ CASE Head(loop).slot[2] = "submission" -> SubmissionDelivered(e)
       [] Head(loop).slot[2] = "wait" -> WaitDelivered(e)
       [] Head(loop).slot[2] = "action" -> ActionDelivered(e)
  /\ UNCHANGED <<stopping, order>>

\* continueAfterBasicAcceptance, continueAfterOcoAcceptance, startBasicOrderWait, startOcoWait
ContinueAfterAcceptance(e) ==
  /\ Head(loop).kind = "continue" /\ Head(loop).entry = e
  /\ loop' = Tail(loop)
  /\ CASE entry[e].status # "ACCEPTED" ->
            UNCHANGED <<taskVars, entry, waitRevision>>
       [] entry[e].status = "ACCEPTED" /\ e \in BasicOrders /\ entry[e].known["order"] = "FILLED" ->
            Change(e, WithStatus(entry[e], "FILLED")) /\ UNCHANGED <<taskVars, waitRevision>>
       [] entry[e].status = "ACCEPTED" /\ ~(e \in BasicOrders /\ entry[e].known["order"] = "FILLED")
            /\ ~entry[e].identified ->
            Change(e, WithStatus(entry[e], "MONITORING_FAILED")) /\ UNCHANGED <<taskVars, waitRevision>>
       [] OTHER ->
            /\ Change(e, WithStatus(entry[e], "WAITING"))
            /\ waitRevision' = [waitRevision EXCEPT ![e] = entry[e].revision + 1]
            /\ Starts(<<e, "wait">>, "await")
  /\ UNCHANGED <<stopping, order, request, actions>>

EventLoop == loop # <<>> /\ \E e \in Entries : CompleteTask(e) \/ ContinueAfterAcceptance(e)

ActionWork(e) == worker[<<e, "action">>] \in {"read", "cancel"} /\ (ReadWork(e) \/ CancelWork(e))

Work(e) == SubmissionWork(e) \/ WaitWork(e) \/ ActionWork(e)

Next == UserActs \/ OrderEnds \/ EventLoop \/ \E e \in Entries : Work(e)

(***************************************************************************)
(* The event loop runs, and the queries and cancellations of an action are *)
(* answered or fail.  Submissions, waits, the user and the exchange are    *)
(* never forced.                                                           *)
(***************************************************************************)
Fairness ==
  /\ WF_vars(EventLoop)
  /\ \A e \in Entries : WF_vars(ActionWork(e))

Spec == Init /\ [][Next]_vars /\ Fairness
-----------------------------------------------------------------------------
\* The end of e was not reported: Bybit acknowledged its cancellation.
OnlyAcknowledged(e) ==
  Exchange = "BYBIT" /\ e \in BasicOrders /\ entry[e].known["order"] = "ACKNOWLEDGED"

(***************************************************************************)
(* An entry is shown filled only when one of its orders filled and none is *)
(* alive, and ended only when all of them ended unfilled: finishOrderWait, *)
(* applyOcoRefresh, applyBasicOrderRefresh.  The one exception is an order *)
(* of Bybit whose cancelOrder answered from the acknowledgement: it is     *)
(* shown ended while it may be alive, or fill.                             *)
(***************************************************************************)
ShownEndIsTrue ==
  \A e \in Entries :
    /\ entry[e].status = "FILLED" =>
         /\ \A l \in Legs(e) : Ended(order[e][l])
         /\ \E l \in Legs(e) : order[e][l] = "FILLED"
    /\ entry[e].status = "TERMINAL" /\ ~OnlyAcknowledged(e) => \A l \in Legs(e) : order[e][l] = "CANCELED"

(***************************************************************************)
(* An entry that is shown filled or ended stays so, whatever waits,        *)
(* refreshes and cancellations of it are delivered later; only an end that *)
(* Bybit merely acknowledged is replaced, and only by the fill that        *)
(* happened instead (applyBasicOrderRefresh).                              *)
(***************************************************************************)
ShownEndIsFinal ==
  [][\A e \in Entries :
       entry[e].status \in {"FILLED", "TERMINAL"} =>
         \/ entry'[e].status = entry[e].status
         \/ OnlyAcknowledged(e) /\ order[e]["order"] = "FILLED" /\ entry'[e].status = "FILLED"]_vars

(***************************************************************************)
(* Every action on an entry ends and leaves the entry to the next one,     *)
(* also when the entry has moved on before the result came, and for every  *)
(* entry that a cancellation of all orders took along.                     *)
(***************************************************************************)
ActionsEnd == \A e \in Entries : entry[e].action # "NONE" ~> entry[e].action = "NONE"
=============================================================================
