-------------------------------- MODULE BybitOco --------------------------------
(***************************************************************************)
(* The OCO pair that BybitDealService keeps itself: two independent orders *)
(* under one group of ocoGroups.  Three threads work on it: the owner      *)
(* places the pair and waits for it, the user cancels it, and the runner   *)
(* of the stream cancels the other leg when one is reported filled.        *)
(*                                                                         *)
(* A cancel request is answered before it takes effect: the leg may still  *)
(* fill.  A wait wakes when its predicate holds; the condition variable    *)
(* itself is modelled in BinanceOrderWaits.                                *)
(***************************************************************************)
EXTENDS Naturals, Sequences, FiniteSets

CONSTANTS MaxDrops,      \* bound: how often the stream goes down
          Stoppable      \* the callers whose stop source may be stopped

Legs == {"TP", "SL"}
Callers == {"owner", "user"}

ASSUME BoundsAssumption == MaxDrops \in Nat /\ Stoppable \subseteq Callers

Threads == Callers \cup {"runner"}

VARIABLES
  leg,                   \* each order at the exchange; "none": not placed
  cancelling,            \* legs whose cancel request was accepted
  inbox,                 \* reports on their way to the runner
  connected, drops,
  placingOcoOrderLinkIds, pendingOcoFilledOrderLinkIds,
  group,                 \* "none", "open", "closing" (in ocoGroups) or "erased"
  lastError,             \* the group has one
  entry,                 \* pendingOrderWaits: registrationCount, orderInfo, error
  pc,
  report,                \* per thread: the filled leg it is closing the pair for
  failed,                \* per thread: what it has to report of its requests
  todo, answer,          \* per caller: legs to reconcile, the REST answer to publish
  purpose,               \* per caller: why it reconciles or cancels
  stopToken,             \* callers whose stop source was stopped
  dropped,               \* legs whose fill was reported and not published
  result

exchangeVars == <<leg, cancelling, inbox>>
streamVars == <<connected, drops>>
groupVars == <<placingOcoOrderLinkIds, pendingOcoFilledOrderLinkIds, group, lastError>>
callVars == <<todo, answer, purpose, result>>
closeVars == <<report, failed>>
vars == <<exchangeVars, streamVars, groupVars, entry, pc, closeVars, callVars, stopToken, dropped>>

Ended(status) == status \in {"FILLED", "CANCELED"}

Other(l) == IF l = "TP" THEN "SL" ELSE "TP"

Init ==
  /\ leg = [l \in Legs |-> "none"] /\ cancelling = {} /\ inbox = <<>>
  /\ connected = TRUE /\ drops = 0
  /\ placingOcoOrderLinkIds = {} /\ pendingOcoFilledOrderLinkIds = {}
  /\ group = "none" /\ lastError = FALSE
  /\ entry = [l \in Legs |-> [count |-> 0, info |-> "none", error |-> FALSE]]
  /\ pc = [t \in Threads |-> IF t = "runner" THEN "read" ELSE "idle"]
  /\ report = [t \in Threads |-> "none"] /\ failed = [t \in Threads |-> FALSE]
  /\ todo = [c \in Callers |-> <<>>] /\ answer = [c \in Callers |-> "none"]
  /\ purpose = [c \in Callers |-> "prepare"]
  /\ stopToken = {} /\ dropped = {}
  /\ result = [c \in Callers |-> "none"]

Goto(t, from, to) == pc[t] = from /\ pc' = [pc EXCEPT ![t] = to]
-----------------------------------------------------------------------------
(***************************************************************************)
(* The exchange and the connection to it.                                  *)
(***************************************************************************)
LegEnds ==
  /\ \E l \in Legs, status \in {"FILLED", "CANCELED"} :
       /\ leg[l] = "NEW"
       /\ leg' = [leg EXCEPT ![l] = status]
       /\ inbox' = IF connected THEN Append(inbox, <<l, status>>) ELSE inbox
  /\ cancelling' = {l \in cancelling : ~Ended(leg'[l])}
  /\ UNCHANGED <<streamVars, groupVars, entry, pc, closeVars, callVars, stopToken, dropped>>

StreamDrops ==
  /\ connected /\ drops < MaxDrops
  /\ connected' = FALSE /\ drops' = drops + 1 /\ inbox' = <<>>
  /\ UNCHANGED <<leg, cancelling, groupVars, entry, pc, closeVars, callVars, stopToken, dropped>>

(***************************************************************************)
(* cancelOrder, and getOrder when it fails: no error when the request was  *)
(* accepted or the leg turns out to have ended (cancelOcoGroupOrder,       *)
(* requestOcoOtherLegCancellation).                                        *)
(***************************************************************************)
CancelRequest(l, error) ==
  /\ \/ leg[l] = "NEW" /\ cancelling' = cancelling \cup {l} /\ error \in BOOLEAN
     \/ leg[l] = "NEW" /\ cancelling' = cancelling /\ error = TRUE
     \/ Ended(leg[l]) /\ cancelling' = cancelling /\ error \in BOOLEAN
  /\ UNCHANGED <<leg, inbox>>
-----------------------------------------------------------------------------
(***************************************************************************)
(* The table of waits.                                                     *)
(***************************************************************************)
Registered == [l \in Legs |-> [entry[l] EXCEPT !.count = @ + 1]]

Unregistered ==
  [l \in Legs |-> IF entry[l].count > 1 THEN [entry[l] EXCEPT !.count = @ - 1]
                  ELSE [count |-> 0, info |-> "none", error |-> FALSE]]

\* publishOrderUpdate
Published(l, status) ==
  IF entry[l].count > 0 /\ entry[l].info # "FILLED" /\ (Ended(entry[l].info) => status = "FILLED")
  THEN [entry EXCEPT ![l].info = status]
  ELSE entry

\* publishOcoError, publishOrderWaitError: the legs of a group that is still known.
ErrorPublished ==
  IF group \in {"open", "closing"}
  THEN [l \in Legs |-> IF entry[l].count > 0 THEN [entry[l] EXCEPT !.error = TRUE] ELSE entry[l]]
  ELSE entry

FilledLegs == {l \in Legs : entry[l].info = "FILLED"}

KnownEnded == \A l \in Legs : Ended(entry[l].info)

SomeError == \E l \in Legs : entry[l].error
-----------------------------------------------------------------------------
(***************************************************************************)
(* processOcoUpdate, by any thread: what the group says under ocoMutex,    *)
(* the request for the other leg, and the group again under ocoMutex.      *)
(***************************************************************************)
\* Mutated: a fill that comes before the group is forgotten.
FillNotedNever(t, l, next) ==
  /\ report' = [report EXCEPT ![t] = l] /\ failed' = [failed EXCEPT ![t] = FALSE]
  /\ pc' = [pc EXCEPT ![t] = IF group = "open" THEN "other" ELSE next]
  /\ group' = IF group = "open" THEN "closing" ELSE group
  /\ UNCHANGED <<placingOcoOrderLinkIds, pendingOcoFilledOrderLinkIds, lastError>>

FillNoted(t, l, next) ==
  /\ report' = [report EXCEPT ![t] = l] /\ failed' = [failed EXCEPT ![t] = FALSE]
  /\ pc' = [pc EXCEPT ![t] = IF group = "open" THEN "other" ELSE next]
  /\ group' = IF group = "open" THEN "closing" ELSE group
  /\ pendingOcoFilledOrderLinkIds' =
       IF group \in {"none", "erased"} /\ l \in placingOcoOrderLinkIds
       THEN pendingOcoFilledOrderLinkIds \cup {l} ELSE pendingOcoFilledOrderLinkIds
  /\ UNCHANGED <<placingOcoOrderLinkIds, lastError>>

\* requestOcoOtherLegCancellation
CancelOther(t) ==
  /\ Goto(t, "other", "close")
  /\ \E error \in BOOLEAN : CancelRequest(Other(report[t]), error) /\ failed' = [failed EXCEPT ![t] = error]
  /\ UNCHANGED <<streamVars, groupVars, entry, report, callVars, stopToken, dropped>>

\* Mutated: the group goes whether or not the request failed.
GroupClosedAlways(t) ==
  IF group \in {"open", "closing"}
  THEN group' = "erased" /\ UNCHANGED <<lastError, failed>>
  ELSE failed' = [failed EXCEPT ![t] = FALSE] /\ UNCHANGED <<group, lastError>>

GroupClosed(t) ==
  IF group \in {"open", "closing"}
  THEN /\ group' = IF failed[t] THEN "open" ELSE "erased"
       /\ lastError' = (lastError \/ failed[t])
       /\ UNCHANGED failed
  ELSE failed' = [failed EXCEPT ![t] = FALSE] /\ UNCHANGED <<group, lastError>>

\* Where a thread goes on after processOcoUpdate.
AfterClosing(t) ==
  CASE t = "runner" -> "publish"
    [] t # "runner" /\ purpose[t] = "place" -> "placed"
    [] OTHER -> "sibling"

CloseGroup(t) ==
  /\ pc[t] = "close"
  /\ GroupClosed(t)
  /\ pc' = [pc EXCEPT ![t] = AfterClosing(t)]
  /\ UNCHANGED <<exchangeVars, streamVars, placingOcoOrderLinkIds, pendingOcoFilledOrderLinkIds, entry, report,
                 callVars, stopToken, dropped>>
-----------------------------------------------------------------------------
(***************************************************************************)
(* The runner: handleOrderUpdate.                                          *)
(***************************************************************************)
ReadUpdate ==
  /\ pc["runner"] = "read"
  /\ \/ inbox # <<>> /\ Head(inbox)[2] # "FILLED"
        /\ entry' = Published(Head(inbox)[1], Head(inbox)[2])
        /\ UNCHANGED <<groupVars, pc, closeVars>>
     \/ inbox # <<>> /\ Head(inbox)[2] = "FILLED"
        /\ FillNoted("runner", Head(inbox)[1], "publish")
        /\ UNCHANGED entry
  /\ inbox' = Tail(inbox)
  /\ UNCHANGED <<leg, cancelling, streamVars, callVars, stopToken, dropped>>

\* Mutated: a fill is published only for a group that is still known.
PublishKnownOnly ==
  /\ Goto("runner", "publish", "read")
  /\ \/ ~failed["runner"] /\ UNCHANGED dropped
        /\ entry' = IF group \in {"open", "closing"} THEN Published(report["runner"], "FILLED") ELSE entry
     \/ failed["runner"] /\ entry' = ErrorPublished /\ dropped' = dropped \cup {report["runner"]}
  /\ report' = [report EXCEPT !["runner"] = "none"] /\ failed' = [failed EXCEPT !["runner"] = FALSE]
  /\ UNCHANGED <<exchangeVars, streamVars, groupVars, callVars, stopToken>>

\* The fill is published unless the other leg could not be cancelled; the error is then,
\* if the group is still there.
PublishUpdate ==
  /\ Goto("runner", "publish", "read")
  /\ \/ ~failed["runner"] /\ entry' = Published(report["runner"], "FILLED") /\ UNCHANGED dropped
     \/ failed["runner"] /\ entry' = ErrorPublished /\ dropped' = dropped \cup {report["runner"]}
  /\ report' = [report EXCEPT !["runner"] = "none"] /\ failed' = [failed EXCEPT !["runner"] = FALSE]
  /\ UNCHANGED <<exchangeVars, streamVars, groupVars, callVars, stopToken>>
-----------------------------------------------------------------------------
(***************************************************************************)
(* placeOco, by the owner.                                                 *)
(***************************************************************************)
Placing == {"placeTP", "placeSL", "rollback", "createGroup"}

\* The destructor of OcoPlacementRegistration.
ClearPlacement == placingOcoOrderLinkIds' = {} /\ pendingOcoFilledOrderLinkIds' = {}

ThrowFromPlacement ==
  /\ ClearPlacement
  /\ pc' = [pc EXCEPT !["owner"] = "done"] /\ result' = [result EXCEPT !["owner"] = "threw"]
  /\ UNCHANGED <<group, lastError>>

RegisterPlacement ==
  /\ Goto("owner", "idle", "placeTP")
  /\ group \notin {"open", "closing"} /\ placingOcoOrderLinkIds = {}
  /\ placingOcoOrderLinkIds' = Legs
  /\ purpose' = [purpose EXCEPT !["owner"] = "place"]
  /\ UNCHANGED <<exchangeVars, streamVars, pendingOcoFilledOrderLinkIds, group, lastError, entry, closeVars,
                 todo, answer, result, stopToken, dropped>>

PlaceLeg(l) == leg' = [leg EXCEPT ![l] = "NEW"]

\* createTakeProfitOcoRequest; a request that fails may still have placed the order.
PlaceTakeProfit ==
  /\ pc["owner"] = "placeTP"
  /\ \/ PlaceLeg("TP") /\ pc' = [pc EXCEPT !["owner"] = "placeSL"] /\ UNCHANGED <<groupVars, result>>
     \/ (PlaceLeg("TP") \/ UNCHANGED leg) /\ ThrowFromPlacement
  /\ UNCHANGED <<cancelling, inbox, streamVars, entry, closeVars, todo, answer, purpose, stopToken, dropped>>

\* createStopLossOcoRequest
PlaceStopLoss ==
  /\ \/ PlaceLeg("SL") /\ Goto("owner", "placeSL", "createGroup")
     \/ (PlaceLeg("SL") \/ UNCHANGED leg) /\ Goto("owner", "placeSL", "rollback")
  /\ UNCHANGED <<cancelling, inbox, streamVars, groupVars, entry, closeVars, callVars, stopToken, dropped>>

\* rollbackOcoRequests
Rollback ==
  /\ pc["owner"] = "rollback"
  /\ \E error \in BOOLEAN : CancelRequest("TP", error)
  /\ ThrowFromPlacement
  /\ UNCHANGED <<streamVars, entry, closeVars, todo, answer, purpose, stopToken, dropped>>

\* createOcoGroup, and the fill that came before it: processOcoUpdate finds the group
\* open, unless the runner has already got hold of it.
CreateGroup ==
  /\ pc["owner"] = "createGroup"
  /\ group' = "open" /\ ClearPlacement
  /\ \/ /\ pendingOcoFilledOrderLinkIds # {}
        /\ report' = [report EXCEPT !["owner"] = IF "TP" \in pendingOcoFilledOrderLinkIds THEN "TP" ELSE "SL"]
        /\ pc' = [pc EXCEPT !["owner"] = "early"]
     \/ /\ pendingOcoFilledOrderLinkIds = {}
        /\ pc' = [pc EXCEPT !["owner"] = "placed"]
        /\ UNCHANGED report
  /\ UNCHANGED <<exchangeVars, streamVars, lastError, entry, failed, callVars, stopToken, dropped>>

EarlyFill ==
  /\ pc["owner"] = "early"
  /\ FillNoted("owner", report["owner"], "placed")
  /\ UNCHANGED <<exchangeVars, streamVars, entry, callVars, stopToken, dropped>>

\* placeOco throws or returns; the owner goes on to wait.
Placed ==
  /\ pc["owner"] = "placed"
  /\ \/ failed["owner"] /\ pc' = [pc EXCEPT !["owner"] = "done"]
        /\ result' = [result EXCEPT !["owner"] = "threw"] /\ UNCHANGED purpose
     \/ ~failed["owner"] /\ pc' = [pc EXCEPT !["owner"] = "enter"]
        /\ purpose' = [purpose EXCEPT !["owner"] = "prepare"] /\ UNCHANGED result
  /\ report' = [report EXCEPT !["owner"] = "none"] /\ failed' = [failed EXCEPT !["owner"] = FALSE]
  /\ UNCHANGED <<exchangeVars, streamVars, groupVars, entry, todo, answer, stopToken, dropped>>

PlacementStep ==
  RegisterPlacement \/ PlaceTakeProfit \/ PlaceStopLoss \/ Rollback \/ CreateGroup \/ EarlyFill \/ Placed
=============================================================================
