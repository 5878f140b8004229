------------------------------ MODULE BybitOcoWaits ------------------------------
(***************************************************************************)
(* waitUntilOcoOrderFilled by the owner of the pair and                    *)
(* cancelOcoAndWaitUntilTerminal by the user, over BybitOco.               *)
(***************************************************************************)
EXTENDS BybitOco

Unchanged == UNCHANGED <<exchangeVars, streamVars, groupVars, stopToken, dropped>>

\* Returns or throws: the registrations are destroyed.
Leave(c, outcome) ==
  /\ pc' = [pc EXCEPT ![c] = "done"]
  /\ entry' = Unregistered
  /\ result' = [result EXCEPT ![c] = outcome]
  /\ todo' = [todo EXCEPT ![c] = <<>>] /\ answer' = [answer EXCEPT ![c] = "none"]
  /\ purpose' = [purpose EXCEPT ![c] = "prepare"]
  /\ report' = [report EXCEPT ![c] = "none"] /\ failed' = [failed EXCEPT ![c] = FALSE]

Stay(c, to) == pc' = [pc EXCEPT ![c] = to] /\ UNCHANGED <<entry, callVars, closeVars>>

Reconcile(c, legs, why) ==
  /\ pc' = [pc EXCEPT ![c] = "query"]
  /\ todo' = [todo EXCEPT ![c] = legs] /\ purpose' = [purpose EXCEPT ![c] = why]
  /\ UNCHANGED <<entry, answer, result, closeVars>>

\* cancelOco begins: for the user, or because the wait has failed.
Cancel(c, why) ==
  /\ pc' = [pc EXCEPT ![c] = "cancel"]
  /\ purpose' = [purpose EXCEPT ![c] = why]
  /\ failed' = [failed EXCEPT ![c] = FALSE]
  /\ UNCHANGED <<entry, todo, answer, result, report>>

\* The user knows the pair once placeOco has returned; the call comes when it comes.
UserCancels ==
  /\ pc["owner"] = "enter"
  /\ Goto("user", "idle", "enter")
  /\ UNCHANGED <<entry, callVars, closeVars>> /\ Unchanged

\* Registrations and ensureUserStreamConnected.
Enter(c) ==
  /\ pc[c] = "enter"
  /\ \/ /\ c \in stopToken
        /\ pc' = [pc EXCEPT ![c] = "done"] /\ result' = [result EXCEPT ![c] = "interrupted"]
        /\ UNCHANGED <<connected, entry, todo, purpose>>
     \/ /\ c \notin stopToken
        /\ entry' = Registered /\ connected' = TRUE
        /\ pc' = [pc EXCEPT ![c] = "query"]
        /\ todo' = [todo EXCEPT ![c] = <<"TP", "SL">>] /\ purpose' = [purpose EXCEPT ![c] = "prepare"]
        /\ UNCHANGED result
     \/ /\ c \notin stopToken /\ ~connected
        /\ pc' = [pc EXCEPT ![c] = "done"] /\ result' = [result EXCEPT ![c] = "threw"]
        /\ UNCHANGED <<connected, entry, todo, purpose>>
  /\ UNCHANGED <<exchangeVars, drops, groupVars, stopToken, dropped, closeVars, answer>>

\* reconcileOrder: getOrder, then publishOrderUpdate.
Query(c) ==
  /\ Goto(c, "query", "publish")
  /\ answer' = [answer EXCEPT ![c] = leg[Head(todo[c])]]
  /\ UNCHANGED <<entry, todo, purpose, result, closeVars>> /\ Unchanged

Continue(c) ==
  CASE purpose[c] = "prepare" -> IF c = "user" THEN "decide" ELSE "wait"
    [] purpose[c] = "sibling" -> "filledLeg"
    [] purpose[c] = "recover" -> "recovered"
    [] purpose[c] = "confirm" -> "confirmed"

PublishAnswer(c) ==
  /\ pc[c] = "publish"
  /\ entry' = Published(Head(todo[c]), answer[c])
  /\ todo' = [todo EXCEPT ![c] = Tail(@)] /\ answer' = [answer EXCEPT ![c] = "none"]
  /\ pc' = [pc EXCEPT ![c] = IF Len(todo[c]) > 1 THEN "query" ELSE Continue(c)]
  /\ UNCHANGED <<purpose, result, closeVars>> /\ Unchanged

QueryFails(c) ==
  /\ pc[c] = "query"
  /\ IF purpose[c] = "sibling" THEN Stay(c, "filledLeg") ELSE Leave(c, "threw")
  /\ Unchanged
-----------------------------------------------------------------------------
\* The predicates of the three waits.
Awake(c) ==
  CASE pc[c] = "wait" -> SomeError \/ ~connected \/ \E l \in Legs : Ended(entry[l].info)
    [] pc[c] = "waitAll" -> SomeError \/ ~connected \/ KnownEnded
    [] pc[c] = "waitSibling" -> LET s == entry[Other(report[c])] IN s.error \/ ~connected \/ Ended(s.info)

Wakes(c, at) == pc[c] = at /\ Awake(c) /\ Unchanged

Interrupted(c) ==
  /\ pc[c] \in {"wait", "waitAll", "waitSibling"} /\ c \in stopToken /\ ~Awake(c)
  /\ Leave(c, "interrupted")
  /\ Unchanged

\* completeOcoWait begins: processOcoUpdate for the filled leg.
Complete(c, l) ==
  /\ FillNoted(c, l, "sibling")
  /\ UNCHANGED <<entry, callVars>>

\* processOcoOrdersUpdate
WaitEnds(c) ==
  /\ pc[c] = "wait" /\ Awake(c)
  /\ \/ /\ FilledLegs # Legs /\ \E l \in FilledLegs : Complete(c, l)
     \/ /\ FilledLegs = Legs \/ (FilledLegs = {} /\ (SomeError \/ \A l \in Legs : ~Ended(entry[l].info)))
        /\ Cancel(c, "cleanup") /\ UNCHANGED groupVars
     \/ /\ FilledLegs = {} /\ ~SomeError /\ \E l \in Legs : Ended(entry[l].info)
        /\ Reconcile(c, <<IF Ended(entry["TP"].info) THEN "SL" ELSE "TP">>, "sibling")
        /\ UNCHANGED groupVars
  /\ UNCHANGED <<exchangeVars, streamVars, stopToken, dropped>>

\* getFilledOcoOrder, after the reconciliation or before the cancellation.
FilledLegFound(c) ==
  /\ pc[c] = "filledLeg"
  /\ \/ FilledLegs # Legs /\ \E l \in FilledLegs : Complete(c, l)
     \/ FilledLegs = Legs /\ Cancel(c, "cleanup") /\ UNCHANGED groupVars
     \/ /\ FilledLegs = {}
        /\ CASE c = "owner" -> Cancel(c, "cleanup")
             [] c # "owner" /\ purpose[c] = "recover" -> Leave(c, "threw")
             [] c # "owner" /\ purpose[c] # "recover" /\ c \in stopToken -> Leave(c, "interrupted")
             [] OTHER -> Cancel(c, "cancel")
        /\ UNCHANGED groupVars
  /\ UNCHANGED <<exchangeVars, streamVars, stopToken, dropped>>

\* completeOcoWait after processOcoUpdate.
OtherRequested(c) ==
  /\ pc[c] = "sibling"
  /\ \/ ~failed[c] /\ Stay(c, "waitSibling")
     \/ /\ failed[c]
        /\ entry' = ErrorPublished
        /\ pc' = [pc EXCEPT ![c] = "cancel"] /\ purpose' = [purpose EXCEPT ![c] = "cleanup"]
        /\ failed' = [failed EXCEPT ![c] = FALSE]
        /\ UNCHANGED <<todo, answer, result, report>>
  /\ Unchanged

\* Mutated: the error and the status of the sibling are not looked at.
SiblingIgnored(c) == Wakes(c, "waitSibling") /\ Leave(c, IF c = "user" THEN "terminal" ELSE "filled")

SiblingWaitEnds(c) ==
  /\ Wakes(c, "waitSibling")
  /\ LET sibling == entry[Other(report[c])] IN
     CASE ~sibling.error /\ sibling.info = "FILLED" -> Cancel(c, "cleanup")
       [] ~sibling.error /\ sibling.info = "CANCELED" -> Leave(c, IF c = "user" THEN "terminal" ELSE "filled")
       [] OTHER -> Leave(c, "threw")
-----------------------------------------------------------------------------
(***************************************************************************)
(* cancelOco: the group is looked up, both legs are cancelled, and the     *)
(* group is erased when neither request failed.                            *)
(***************************************************************************)
\* The caller's request has failed: a wait throws, the user looks the legs up.
CancelThrows(c) ==
  IF purpose[c] = "cleanup" THEN Leave(c, "threw") ELSE Reconcile(c, <<"TP", "SL">>, "recover")

CancelFindsGroup(c) ==
  /\ pc[c] = "cancel"
  /\ IF group \in {"open", "closing"} THEN Stay(c, "cancelTP") ELSE CancelThrows(c)
  /\ Unchanged

CancelLeg(c, l, from, to) ==
  /\ Goto(c, from, to)
  /\ \E error \in BOOLEAN :
       CancelRequest(l, error) /\ failed' = [failed EXCEPT ![c] = @ \/ error]
  /\ UNCHANGED <<streamVars, groupVars, entry, report, callVars, stopToken, dropped>>

EraseGroup(c) ==
  /\ pc[c] = "erase"
  /\ \/ failed[c] /\ CancelThrows(c) /\ UNCHANGED group
     \/ /\ ~failed[c]
        /\ group' = IF group \in {"open", "closing"} THEN "erased" ELSE group
        /\ IF purpose[c] = "cleanup" THEN Leave(c, "threw") ELSE Stay(c, "waitAll")
  /\ UNCHANGED <<exchangeVars, streamVars, placingOcoOrderLinkIds, pendingOcoFilledOrderLinkIds, lastError,
                 stopToken, dropped>>

(***************************************************************************)
(* cancelOcoAndWaitUntilTerminal around cancelOco.                         *)
(***************************************************************************)
Decide(c) ==
  /\ pc[c] = "decide"
  /\ CASE KnownEnded -> Leave(c, "terminal")
       [] ~KnownEnded /\ SomeError -> Leave(c, "threw")
       [] OTHER -> Stay(c, "filledLeg")
  /\ Unchanged

Recovered(c) ==
  /\ pc[c] = "recovered"
  /\ IF KnownEnded THEN Leave(c, "terminal") ELSE Stay(c, "filledLeg")
  /\ Unchanged

\* processOcoCancellationUpdate
CancelWaitEnds(c) ==
  /\ Wakes(c, "waitAll")
  /\ CASE SomeError -> Leave(c, "threw")
       [] ~SomeError /\ KnownEnded -> Leave(c, "terminal")
       [] OTHER -> Reconcile(c, <<"TP", "SL">>, "confirm")

Confirmed(c) ==
  /\ pc[c] = "confirmed"
  /\ Leave(c, IF ~SomeError /\ KnownEnded THEN "terminal" ELSE "threw")
  /\ Unchanged

RequestStop(c) ==
  /\ c \in Stoppable \ stopToken /\ pc[c] \notin {"idle", "done"}
  /\ stopToken' = stopToken \cup {c}
  /\ UNCHANGED <<exchangeVars, streamVars, groupVars, entry, pc, closeVars, callVars, dropped>>

CallerStep(c) ==
  \/ CancelOther(c) \/ CloseGroup(c)
  \/ Enter(c) \/ Query(c) \/ PublishAnswer(c) \/ QueryFails(c) \/ Interrupted(c)
  \/ WaitEnds(c) \/ FilledLegFound(c) \/ OtherRequested(c) \/ SiblingWaitEnds(c)
  \/ CancelFindsGroup(c) \/ CancelLeg(c, "TP", "cancelTP", "cancelSL") \/ CancelLeg(c, "SL", "cancelSL", "erase")
  \/ EraseGroup(c) \/ Decide(c) \/ Recovered(c) \/ CancelWaitEnds(c) \/ Confirmed(c)

RunnerStep == ReadUpdate \/ PublishUpdate \/ CancelOther("runner") \/ CloseGroup("runner")

Next ==
  \/ LegEnds \/ StreamDrops \/ RunnerStep \/ PlacementStep \/ UserCancels
  \/ \E c \in Callers : CallerStep(c) \/ RequestStop(c)

(***************************************************************************)
(* Threads run and requests are answered; an order whose cancellation was  *)
(* accepted ends.  Fills, drops, stops and the user are never forced.      *)
(***************************************************************************)
Fairness ==
  /\ WF_vars(RunnerStep) /\ WF_vars(PlacementStep)
  /\ WF_vars(LegEnds /\ \E l \in cancelling : leg'[l] # "NEW")
  /\ \A c \in Callers : WF_vars(CallerStep(c))

Spec == Init /\ [][Next]_vars /\ Fairness
-----------------------------------------------------------------------------
(***************************************************************************)
(* The group of a pair is forgotten only when no leg is left to itself:    *)
(* each has ended or its cancellation was accepted, whoever of the runner, *)
(* the owner and the user got hold of the group first.                     *)
(***************************************************************************)
ForgottenPairIsClosed ==
  group = "erased" => \A l \in Legs : Ended(leg[l]) \/ l \in cancelling

(***************************************************************************)
(* A wait returns only when one leg was filled and the other ended         *)
(* unfilled, and a cancellation only when both legs ended; when both       *)
(* filled the wait has thrown.                                             *)
(***************************************************************************)
AnswersAreTrue ==
  /\ result["owner"] = "filled" => \E l \in Legs : leg[l] = "FILLED" /\ leg[Other(l)] = "CANCELED"
  /\ result["user"] = "terminal" => \A l \in Legs : Ended(leg[l])

Waiting(c) == pc[c] \in {"wait", "waitAll", "waitSibling"}

Asleep(c) == Waiting(c) /\ ~Awake(c) /\ c \notin stopToken

\* Nothing is under way: no report, no request, no step of a thread.
Quiet ==
  /\ pc["runner"] = "read" /\ inbox = <<>>
  /\ \A c \in Callers : pc[c] \in {"idle", "done"} \/ Asleep(c)

(***************************************************************************)
(* A fill closes a placed pair, even when it is reported while the pair is *)
(* still being placed, and when nobody waits for it: once all is quiet the *)
(* other leg has ended or is being cancelled.  The code accepts a live leg *)
(* in three cases, which are excused: its cancellation failed and lastError*)
(* of the group says so; the stream went down and took the report along;   *)
(* and placeOco threw, which leaves no group (group = "none"), although an *)
(* answer may have been lost or the rollback may have failed.              *)
(***************************************************************************)
FillClosesPair ==
  Quiet /\ group # "none" /\ drops = 0 =>
    \A l \in Legs : leg[l] = "FILLED" => Ended(leg[Other(l)]) \/ Other(l) \in cancelling \/ lastError

(***************************************************************************)
(* Nobody sleeps on a pair that has ended, while the stream stays up.  The *)
(* one exception: the runner consumed the report of a fill without         *)
(* publishing it (handleOrderUpdate publishes the failed cancellation of   *)
(* the other leg instead, and nothing at all when the group has been       *)
(* erased meanwhile).                                                      *)
(***************************************************************************)
NobodySleepsOnEndedPair ==
  Quiet /\ drops = 0 /\ dropped = {} /\ (\A l \in Legs : Ended(leg[l]))
    => \A c \in Callers : ~Waiting(c)
=============================================================================
