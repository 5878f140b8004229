-------------------------- MODULE BybitOcoWaits_proofs --------------------------
(***************************************************************************)
(* For any number of lost connections and any length of the report queue:  *)
(* the group of a pair is forgotten only when the pair is closed, a fill   *)
(* closes the pair, nobody sleeps on a pair that has ended, and what the   *)
(* calls return is true.                                                   *)
(*                                                                         *)
(* What a thread relies on concerns its own place and facts about the      *)
(* exchange that never become false (ThreadTrue).  A fill is always in     *)
(* somebody's hands until the pair is closed (FillHeld), and the end of a  *)
(* leg always on its way to a registered caller until the table knows it   *)
(* (EndsReach).                                                            *)
(***************************************************************************)
EXTENDS BybitOcoWaits, TLAPS

Ends == {"FILLED", "CANCELED"}

Statuses == Ends \cup {"none", "NEW"}

\* Where a caller waits for the pair or cancels it.
WaitPlaces ==
  {"query", "publish", "wait", "waitAll", "waitSibling", "filledLeg", "sibling", "cancel", "cancelTP", "cancelSL",
   "erase", "decide", "recovered", "confirmed"}

CallerPlaces ==
  WaitPlaces \cup Placing \cup {"idle", "early", "other", "close", "placed", "enter", "done"}

RunnerPlaces == {"read", "other", "close", "publish"}

Purposes == {"place", "prepare", "sibling", "recover", "confirm", "cleanup", "cancel"}

\* Why a caller looks the legs up.
Reasons == {"prepare", "sibling", "recover", "confirm"}

Entry == [count : Nat, info : Statuses, error : BOOLEAN]

ExchangeType ==
  /\ leg \in [Legs -> Statuses] /\ cancelling \subseteq Legs
  /\ inbox \in Seq(Legs \X Ends) /\ drops \in Nat

GroupType ==
  /\ placingOcoOrderLinkIds \subseteq Legs /\ pendingOcoFilledOrderLinkIds \subseteq Legs
  /\ group \in {"none", "open", "closing", "erased"} /\ dropped \subseteq Legs

EntryType == entry \in [Legs -> Entry]

LocalType ==
  /\ pc \in [Threads -> CallerPlaces \cup RunnerPlaces]
  /\ pc["runner"] \in RunnerPlaces /\ \A c \in Callers : pc[c] \in CallerPlaces
  /\ report \in [Threads -> Legs \cup {"none"}] /\ failed \in [Threads -> BOOLEAN]
  /\ todo \in [Callers -> {<<>>, <<"TP">>, <<"SL">>, <<"TP", "SL">>}] /\ answer \in [Callers -> Statuses]
  /\ purpose \in [Callers -> Purposes]
  /\ result \in [Callers -> {"none", "interrupted", "threw", "filled", "terminal"}]

TypeOK == ExchangeType /\ GroupType /\ EntryType /\ LocalType

\* A leg that will not stay alive by itself.
Closed(l) == Ended(leg[l]) \/ l \in cancelling

\* Nothing is said that did not happen.
ReportsTrue ==
  /\ \A i \in 1 .. Len(inbox) : leg[inbox[i][1]] = inbox[i][2]
  /\ \A l \in Legs : Ended(entry[l].info) => entry[l].info = leg[l]
  /\ \A l \in pendingOcoFilledOrderLinkIds : leg[l] = "FILLED"

\* What a thread knows where it is.
ThreadTrue(t) ==
  /\ pc[t] \in {"early", "other", "close", "sibling", "waitSibling"} \/ (t = "runner" /\ pc[t] = "publish") =>
       report[t] \in Legs /\ leg[report[t]] = "FILLED"
  /\ pc[t] = "close" /\ ~failed[t] => Closed(Other(report[t]))
  /\ pc[t] = "cancelSL" /\ ~failed[t] => Closed("TP")
  /\ pc[t] = "erase" /\ ~failed[t] => Closed("TP") /\ Closed("SL")

CallerTrue(c) ==
  /\ pc[c] \in WaitPlaces => purpose[c] # "place"
  /\ pc[c] \in Placing \cup {"early", "placed"} => purpose[c] = "place"
  /\ pc[c] \in {"query", "publish"} => todo[c] # <<>> /\ purpose[c] \in Reasons
  /\ pc[c] = "publish" /\ Ended(answer[c]) => answer[c] = leg[Head(todo[c])]

\* The placement: the legs are not there before they are placed, nor is the group.
PlacementTrue ==
  /\ pc["owner"] \in {"idle", "placeTP"} => leg["TP"] = "none"
  /\ pc["owner"] \in {"idle", "placeTP", "placeSL"} => leg["SL"] = "none"
  /\ IF pc["owner"] \in Placing THEN placingOcoOrderLinkIds = Legs
     ELSE placingOcoOrderLinkIds = {} /\ pendingOcoFilledOrderLinkIds = {}
  /\ pc["owner"] \in Placing \cup {"idle"} => group = "none"
  /\ group = "none" =>
       /\ pc["owner"] \in Placing \cup {"idle", "done"} /\ pc["user"] = "idle"
       /\ pc["runner"] \in {"read", "publish"}

GroupTrue ==
  /\ ForgottenPairIsClosed
  /\ group = "closing" => \E t \in Threads : pc[t] \in {"other", "close"}
  /\ drops = 0 => connected

Reported(l, status) == \E i \in 1 .. Len(inbox) : inbox[i] = <<l, status>>

\* Until the pair is closed or the group says that it could not be, a fill that the stream
\* reported is held by somebody.
FillHeld(l) ==
  drops = 0 /\ leg[l] = "FILLED" /\ (group # "none" \/ pc["owner"] \in Placing) =>
    \/ Reported(l, "FILLED") \/ l \in pendingOcoFilledOrderLinkIds \/ pc["owner"] = "early"
    \/ group \in {"closing", "erased"} \/ lastError \/ Closed(Other(l))

\* The caller's registrations exist.
Holds(c) == pc[c] \in WaitPlaces \/ (pc[c] \in {"other", "close"} /\ purpose[c] # "place")

CountTrue ==
  \A l \in Legs : entry[l].count = (IF Holds("owner") THEN 1 ELSE 0) + (IF Holds("user") THEN 1 ELSE 0)

\* The end of a leg is known, or the runner has it, or it was dropped.
EndKnown(l) ==
  \/ Ended(entry[l].info) \/ dropped # {}
  \/ \E status \in Ends : Reported(l, status)
  \/ pc["runner"] \in {"other", "close", "publish"} /\ report["runner"] = l

\* The first look of a caller at a leg is still to come.
Unasked(c, l) ==
  /\ purpose[c] = "prepare"
  /\ \E i \in 1 .. Len(todo[c]) : todo[c][i] = l /\ (pc[c] = "query" \/ (pc[c] = "publish" /\ i > 1))

Answered(c, l) == pc[c] = "publish" /\ Head(todo[c]) = l /\ Ended(answer[c])

EndsReach(c) ==
  Holds(c) /\ drops = 0 => \A l \in Legs : Ended(leg[l]) => EndKnown(l) \/ Unasked(c, l) \/ Answered(c, l)

(***************************************************************************)
(* The inductive invariant.                                                *)
(***************************************************************************)
IInv ==
  /\ TypeOK /\ ReportsTrue /\ PlacementTrue /\ GroupTrue /\ CountTrue /\ AnswersAreTrue
  /\ \A t \in Threads : ThreadTrue(t)
  /\ \A c \in Callers : CallerTrue(c) /\ EndsReach(c)
  /\ \A l \in Legs : FillHeld(l)
-----------------------------------------------------------------------------
LEMMA LegFacts ==
  /\ \A l \in Legs : Other(l) \in Legs /\ Other(l) # l /\ Other(Other(l)) = l
  /\ \A l \in Legs : l = "TP" \/ l = "SL"
  /\ "TP" \in Legs /\ "SL" \in Legs
  BY DEF Legs, Other

LEMMA ThreadFacts ==
  /\ Threads = {"owner", "user", "runner"} /\ Callers = {"owner", "user"}
  /\ \A c \in Callers : c \in Threads /\ c # "runner"
  BY DEF Threads, Callers

LEMMA EndedFacts == \A status : Ended(status) <=> status \in Ends
  BY DEF Ended, Ends
\* What a caller still has to look up.
LEMMA TodoFacts ==
  ASSUME NEW s \in {<<"TP">>, <<"SL">>, <<"TP", "SL">>}
  PROVE  /\ s # <<>> /\ Head(s) \in Legs /\ Tail(s) \in {<<>>, <<"SL">>} /\ Len(s) \in {1, 2}
         /\ \A i \in 1 .. Len(s) : i = 1 => s[i] = Head(s)
         /\ \A i \in 1 .. Len(s) : i > 1 => s[i] = "SL" /\ Tail(s) = <<"SL">>
         /\ Tail(s) # <<>> <=> Len(s) > 1
<1>1. CASE s = <<"TP">>
  <2>1. s # <<>> /\ Head(s) = "TP" /\ Tail(s) = <<>> /\ Len(s) = 1 /\ s[1] = "TP"
    BY <1>1
  <2> QED
    BY <2>1 DEF Legs
<1>2. CASE s = <<"SL">>
  <2>1. s # <<>> /\ Head(s) = "SL" /\ Tail(s) = <<>> /\ Len(s) = 1 /\ s[1] = "SL"
    BY <1>2
  <2> QED
    BY <2>1 DEF Legs
<1>3. CASE s = <<"TP", "SL">>
  <2>1. s # <<>> /\ Head(s) = "TP" /\ Tail(s) = <<"SL">> /\ Len(s) = 2 /\ s[1] = "TP" /\ s[2] = "SL"
    BY <1>3
  <2>2. <<"SL">> # <<>>
    OBVIOUS
  <2> QED
    BY <2>1, <2>2 DEF Legs
<1> QED
  BY <1>1, <1>2, <1>3
-----------------------------------------------------------------------------
(***************************************************************************)
(* The exchange: what has ended stays as it ended, what is closed stays    *)
(* closed, and the reports on their way are true.                          *)
(***************************************************************************)
ExchangeGrows ==
  /\ ExchangeType'
  /\ \A l \in Legs : Ended(leg[l]) => leg'[l] = leg[l]
  /\ \A l \in Legs : Closed(l) => Closed(l)'
  /\ \A i \in 1 .. Len(inbox') : leg'[inbox'[i][1]] = inbox'[i][2]

LEMMA NothingHappens ==
  ASSUME IInv, UNCHANGED <<leg, inbox, drops>>, cancelling' \subseteq Legs, cancelling \subseteq cancelling'
  PROVE  ExchangeGrows
  BY DEF IInv, TypeOK, ExchangeType, ReportsTrue, ExchangeGrows, Closed

LEMMA ReportsTaken ==
  ASSUME IInv, UNCHANGED <<leg, cancelling>>, drops' \in Nat, inbox' = <<>> \/ (inbox # <<>> /\ inbox' = Tail(inbox))
  PROVE  ExchangeGrows
<1> USE DEF IInv, TypeOK, ExchangeType
<1>1. CASE inbox' = <<>>
  BY <1>1 DEF ExchangeGrows, Closed
<1>2. CASE inbox # <<>> /\ inbox' = Tail(inbox)
  <2>1. /\ inbox' \in Seq(Legs \X Ends)
        /\ \A i \in 1 .. Len(inbox') : inbox'[i] = inbox[i + 1] /\ i + 1 \in 1 .. Len(inbox)
    BY <1>2
  <2> QED
    BY <2>1 DEF ExchangeGrows, ReportsTrue, Closed
<1> QED
  BY <1>1, <1>2

LEMMA LegPlaced ==
  ASSUME IInv, NEW l \in Legs, leg[l] = "none", PlaceLeg(l), UNCHANGED <<inbox, cancelling, drops>>
  PROVE  ExchangeGrows
<1> USE DEF IInv, TypeOK, ExchangeType
<1>1. leg' = [leg EXCEPT ![l] = "NEW"] /\ leg' \in [Legs -> Statuses]
  BY DEF PlaceLeg, Statuses
<1>2. \A k \in Legs : Ended(leg[k]) => leg'[k] = leg[k]
  BY <1>1, EndedFacts DEF Ends
<1>3. ASSUME NEW i \in 1 .. Len(inbox) PROVE leg'[inbox[i][1]] = inbox[i][2]
  <2>1. inbox[i] \in Legs \X Ends /\ leg[inbox[i][1]] = inbox[i][2]
    BY DEF ReportsTrue
  <2> QED
    BY <2>1, <1>2, EndedFacts
<1> QED
  BY <1>1, <1>2, <1>3 DEF ExchangeGrows, Closed

LEMMA LegEndsFacts ==
  ASSUME IInv, LegEnds
  PROVE  /\ ExchangeGrows
         /\ \A l \in Legs : leg[l] = "none" <=> leg'[l] = "none"
         /\ \A l \in Legs : Ended(leg'[l]) /\ ~Ended(leg[l]) /\ connected => Reported(l, leg[l])'
         /\ \A l \in Legs, status \in Ends : Reported(l, status) => Reported(l, status)'
<1> USE DEF IInv, TypeOK, ExchangeType
<1>1. PICK l \in Legs, status \in Ends :
        /\ leg[l] = "NEW" /\ leg' = [leg EXCEPT ![l] = status]
        /\ inbox' = IF connected THEN Append(inbox, <<l, status>>) ELSE inbox
  BY DEF LegEnds, Ends
<1>2. leg' \in [Legs -> Statuses] /\ \A k \in Legs : Ended(leg[k]) => leg'[k] = leg[k]
  BY <1>1, EndedFacts DEF Statuses, Ends
<1>3. cancelling' = {k \in cancelling : ~Ended(leg'[k])}
  BY DEF LegEnds
<1>4. \A k \in Legs : Closed(k) => Closed(k)'
  BY <1>2, <1>3 DEF Closed
<1>5. <<l, status>> \in Legs \X Ends
  OBVIOUS
<1>6. /\ Append(inbox, <<l, status>>) \in Seq(Legs \X Ends)
      /\ Len(Append(inbox, <<l, status>>)) = Len(inbox) + 1
      /\ Append(inbox, <<l, status>>)[Len(inbox) + 1] = <<l, status>>
      /\ \A i \in 1 .. Len(inbox) : Append(inbox, <<l, status>>)[i] = inbox[i]
  BY <1>5
<1>7. ASSUME NEW i \in 1 .. Len(inbox) PROVE leg'[inbox[i][1]] = inbox[i][2]
  <2>1. inbox[i] \in Legs \X Ends /\ leg[inbox[i][1]] = inbox[i][2]
    BY DEF ReportsTrue
  <2> QED
    BY <2>1, <1>2, EndedFacts
<1>8. ASSUME NEW i \in 1 .. Len(inbox') PROVE leg'[inbox'[i][1]] = inbox'[i][2]
  <2>1. CASE inbox' = inbox
    BY <1>7, <2>1
  <2>2. CASE inbox' = Append(inbox, <<l, status>>)
    <3>1. CASE i <= Len(inbox)
      BY <1>6, <1>7, <2>2, <3>1
    <3>2. CASE i > Len(inbox)
      <4>1. inbox'[i] = <<l, status>>
        BY <1>6, <2>2, <3>2
      <4> QED
        BY <1>1, <4>1
    <3> QED
      BY <3>1, <3>2
  <2> QED
    BY <1>1, <2>1, <2>2
<1>9. UNCHANGED drops
  BY DEF LegEnds, streamVars
<1>10. ExchangeGrows
  BY <1>1, <1>2, <1>3, <1>4, <1>6, <1>8, <1>9 DEF ExchangeGrows
<1>11. \A k \in Legs : leg[k] = "none" <=> leg'[k] = "none"
  BY <1>1 DEF Ends
<1>12. ASSUME NEW k \in Legs, Ended(leg'[k]), ~Ended(leg[k]), connected PROVE Reported(k, leg[k])'
  <2>1. k = l /\ leg'[k] = status /\ inbox' = Append(inbox, <<l, status>>)
    BY <1>1, <1>12
  <2> QED
    BY <2>1, <1>6 DEF Reported
<1>13. \A k \in Legs, st \in Ends : Reported(k, st) => Reported(k, st)'
  BY <1>1, <1>6 DEF Reported
<1> QED
  BY <1>10, <1>11, <1>12, <1>13

LEMMA CancelRequestFacts ==
  ASSUME IInv, NEW l \in Legs, NEW error \in BOOLEAN, CancelRequest(l, error), UNCHANGED drops
  PROVE  ExchangeGrows /\ UNCHANGED <<leg, inbox>> /\ (error \/ Closed(l)')
<1>1. ExchangeGrows
  BY NothingHappens DEF CancelRequest, IInv, TypeOK, ExchangeType
<1>2. error \/ Closed(l)'
  BY DEF CancelRequest, Closed
<1> QED
  BY <1>1, <1>2 DEF CancelRequest

LEMMA ExchangeStep == IInv /\ [Next]_vars => ExchangeGrows
<1> SUFFICES ASSUME IInv, [Next]_vars PROVE ExchangeGrows
  OBVIOUS
<1>1. ASSUME UNCHANGED <<leg, inbox, drops, cancelling>> PROVE ExchangeGrows
  BY <1>1, NothingHappens DEF IInv, TypeOK, ExchangeType
<1>2. CASE LegEnds
  BY <1>2, LegEndsFacts
<1>3. CASE StreamDrops
  <2>1. UNCHANGED <<leg, cancelling>> /\ inbox' = <<>> /\ drops' \in Nat
    BY <1>3 DEF StreamDrops, IInv, TypeOK, ExchangeType
  <2> QED
    BY <2>1, ReportsTaken
<1>4. CASE ReadUpdate
  <2>1. /\ UNCHANGED <<leg, cancelling>> /\ inbox # <<>> /\ inbox' = Tail(inbox) /\ drops' \in Nat
    BY <1>4 DEF ReadUpdate, streamVars, IInv, TypeOK, ExchangeType
  <2> QED
    BY <2>1, ReportsTaken
<1>5. CASE PublishUpdate \/ RegisterPlacement \/ CreateGroup \/ EarlyFill \/ Placed \/ UserCancels \/ UNCHANGED vars
  BY <1>1, <1>5 DEF PublishUpdate, RegisterPlacement, CreateGroup, EarlyFill, Placed, UserCancels, Unchanged, vars,
       exchangeVars, streamVars
<1>6. CASE PlaceTakeProfit \/ PlaceStopLoss
  <2>1. UNCHANGED <<inbox, cancelling, drops>>
    BY <1>6 DEF PlaceTakeProfit, PlaceStopLoss, streamVars
  <2>2. \/ leg' = leg \/ (leg["TP"] = "none" /\ PlaceLeg("TP")) \/ (leg["SL"] = "none" /\ PlaceLeg("SL"))
    BY <1>6 DEF PlaceTakeProfit, PlaceStopLoss, Goto, IInv, PlacementTrue
  <2> QED
    BY <1>1, <2>1, <2>2, LegPlaced, LegFacts
<1>7. CASE Rollback
  BY <1>7, LegFacts, CancelRequestFacts DEF Rollback, streamVars
<1>8. ASSUME NEW t \in Threads, CancelOther(t) PROVE ExchangeGrows
  <2>1. report[t] \in Legs
    BY <1>8 DEF IInv, ThreadTrue, CancelOther, Goto
  <2> QED
    BY <1>8, <2>1, LegFacts, CancelRequestFacts DEF CancelOther, streamVars
<1>9. ASSUME NEW t \in Threads, CloseGroup(t) PROVE ExchangeGrows
  BY <1>1, <1>9 DEF CloseGroup, exchangeVars, streamVars
<1>10. ASSUME NEW c \in Callers, CancelLeg(c, "TP", "cancelTP", "cancelSL") \/ CancelLeg(c, "SL", "cancelSL", "erase")
       PROVE  ExchangeGrows
  BY <1>10, LegFacts, CancelRequestFacts DEF CancelLeg, streamVars
<1>11. ASSUME NEW c \in Callers, Enter(c) \/ EraseGroup(c) \/ WaitEnds(c) \/ FilledLegFound(c) \/ RequestStop(c)
       PROVE  ExchangeGrows
  BY <1>1, <1>11 DEF Enter, EraseGroup, WaitEnds, FilledLegFound, RequestStop, exchangeVars, streamVars
<1>12. ASSUME NEW c \in Callers,
              \/ Query(c) \/ PublishAnswer(c) \/ QueryFails(c) \/ Interrupted(c) \/ OtherRequested(c)
              \/ SiblingWaitEnds(c) \/ CancelFindsGroup(c) \/ Decide(c) \/ Recovered(c) \/ CancelWaitEnds(c)
              \/ Confirmed(c)
       PROVE  ExchangeGrows
  <2>1. Unchanged
    BY <1>12 DEF Query, PublishAnswer, QueryFails, Interrupted, OtherRequested, SiblingWaitEnds, CancelFindsGroup,
         Decide, Recovered, CancelWaitEnds, Confirmed, Wakes
  <2> QED
    BY <1>1, <2>1 DEF Unchanged, exchangeVars, streamVars
<1> QED
  BY <1>2, <1>3, <1>4, <1>5, <1>6, <1>7, <1>8, <1>9, <1>10, <1>11, <1>12, ThreadFacts
  DEF Next, RunnerStep, PlacementStep, CallerStep
-----------------------------------------------------------------------------
(***************************************************************************)
(* What a thread relies on, while others move.                             *)
(***************************************************************************)
SameThread(t) == pc'[t] = pc[t] /\ report'[t] = report[t] /\ failed'[t] = failed[t]

SameCaller(c) ==
  todo'[c] = todo[c] /\ answer'[c] = answer[c] /\ purpose'[c] = purpose[c] /\ result'[c] = result[c]

\* A step of t alone, after which t still relies on facts.
ThreadMoves(t) ==
  /\ LocalType' /\ ThreadTrue(t)' /\ (t \in Callers => CallerTrue(t)')
  /\ \A u \in Threads \ {t} : SameThread(u)
  /\ \A c \in Callers \ {t} : SameCaller(c)

LEMMA ThreadStays ==
  ASSUME IInv, ExchangeGrows, NEW t \in Threads, SameThread(t)
  PROVE  ThreadTrue(t)'
<1>1. ThreadTrue(t)
  BY DEF IInv
<1>2. \A l \in Legs : leg[l] = "FILLED" => leg'[l] = "FILLED"
  BY EndedFacts DEF ExchangeGrows, Ends
<1>3. \A l \in Legs : Closed(l) => Closed(l)'
  BY DEF ExchangeGrows
<1> QED
  BY <1>1, <1>2, <1>3, LegFacts DEF ThreadTrue, SameThread

LEMMA CallerStays ==
  ASSUME IInv, ExchangeGrows, NEW c \in Callers, SameThread(c), SameCaller(c)
  PROVE  CallerTrue(c)'
<1>1. CallerTrue(c)
  BY DEF IInv
<1>2. ASSUME pc[c] = "publish", Ended(answer[c]) PROVE answer[c] = leg'[Head(todo[c])]
  <2>1. todo[c] # <<>> /\ Head(todo[c]) \in Legs /\ answer[c] = leg[Head(todo[c])]
    BY <1>1, <1>2, LegFacts DEF IInv, TypeOK, LocalType, CallerTrue
  <2> QED
    BY <1>2, <2>1 DEF ExchangeGrows
<1> QED
  BY <1>1, <1>2 DEF CallerTrue, SameThread, SameCaller

\* The places at which a caller relies on nothing but its purpose.
PlainPlaces == WaitPlaces \ {"query", "publish", "sibling", "waitSibling", "cancelSL", "erase"}

LEMMA LeaveMoves ==
  ASSUME IInv, NEW c \in Callers, NEW outcome \in {"interrupted", "threw", "filled", "terminal"}, Leave(c, outcome)
  PROVE  ThreadMoves(c) /\ pc'[c] = "done" /\ result'[c] = outcome
  BY ThreadFacts DEF IInv, TypeOK, LocalType, Leave, ThreadMoves, ThreadTrue, CallerTrue, SameThread, SameCaller,
       CallerPlaces, WaitPlaces, Placing, Statuses, Purposes

LEMMA StayMoves ==
  ASSUME IInv, NEW c \in Callers, NEW to \in PlainPlaces, Stay(c, to), purpose[c] # "place"
  PROVE  ThreadMoves(c) /\ pc'[c] = to /\ result'[c] = result[c]
  BY ThreadFacts DEF IInv, TypeOK, LocalType, Stay, callVars, closeVars, ThreadMoves, ThreadTrue, CallerTrue,
       SameThread, SameCaller, PlainPlaces, CallerPlaces, WaitPlaces, Placing

LEMMA ReconcileMoves ==
  ASSUME IInv, NEW c \in Callers, NEW legs \in {<<"TP">>, <<"SL">>, <<"TP", "SL">>},
         NEW why \in Reasons, Reconcile(c, legs, why)
  PROVE  ThreadMoves(c) /\ pc'[c] = "query" /\ purpose'[c] = why /\ result'[c] = result[c]
<1>1. legs # <<>>
  OBVIOUS
<1> QED
  BY <1>1, ThreadFacts DEF IInv, TypeOK, LocalType, Reconcile, closeVars, ThreadMoves, ThreadTrue, CallerTrue,
       SameThread, SameCaller, CallerPlaces, WaitPlaces, Placing, Purposes, Reasons

LEMMA CancelMoves ==
  ASSUME IInv, NEW c \in Callers, NEW why \in Purposes \ {"place"}, Cancel(c, why)
  PROVE  ThreadMoves(c) /\ pc'[c] = "cancel" /\ purpose'[c] = why /\ result'[c] = result[c]
  BY ThreadFacts DEF IInv, TypeOK, LocalType, Cancel, ThreadMoves, ThreadTrue, CallerTrue,
       SameThread, SameCaller, CallerPlaces, WaitPlaces, Placing

LEMMA FillNotedMoves ==
  ASSUME IInv, NEW t \in Threads, NEW l \in Legs, leg[l] = "FILLED", leg'[l] = "FILLED",
         NEW next \in {"sibling", "placed", "publish"},
         next = "publish" <=> t = "runner", next = "placed" => t \in Callers /\ purpose[t] = "place",
         next = "sibling" => purpose[t] # "place",
         FillNoted(t, l, next), UNCHANGED callVars
  PROVE  /\ ThreadMoves(t) /\ report'[t] = l /\ pc'[t] = IF group = "open" THEN "other" ELSE next
  BY ThreadFacts DEF IInv, TypeOK, LocalType, FillNoted, callVars, ThreadMoves, ThreadTrue, CallerTrue,
       SameThread, SameCaller, CallerPlaces, RunnerPlaces, WaitPlaces, Placing
-----------------------------------------------------------------------------
(***************************************************************************)
(* The steps of the threads: where they go and what they rely on there.    *)
(***************************************************************************)
LEMMA NotPlacing ==
  ASSUME IInv, NEW c \in Callers, pc[c] \in WaitPlaces
  PROVE  purpose[c] # "place"
  BY DEF IInv, CallerTrue

LEMMA CloseMoves ==
  ASSUME IInv, ExchangeGrows, NEW t \in Threads, CancelOther(t) \/ CloseGroup(t)
  PROVE  ThreadMoves(t)
<1>1. report[t] \in Legs /\ leg[report[t]] = "FILLED" /\ leg'[report[t]] = "FILLED"
  BY EndedFacts DEF IInv, ThreadTrue, CancelOther, CloseGroup, Goto, ExchangeGrows, Ends
<1>2. CASE CancelOther(t)
  <2>1. PICK error \in BOOLEAN : CancelRequest(Other(report[t]), error) /\ failed' = [failed EXCEPT ![t] = error]
    BY <1>2 DEF CancelOther
  <2>2. error \/ Closed(Other(report[t]))'
    BY <1>1, <1>2, <2>1, LegFacts, CancelRequestFacts DEF CancelOther, streamVars
  <2>3. pc[t] = "other" /\ pc' = [pc EXCEPT ![t] = "close"] /\ UNCHANGED <<report, todo, answer, purpose, result>>
    BY <1>2 DEF CancelOther, Goto, callVars
  <2> QED
    BY <1>1, <2>1, <2>2, <2>3, ThreadFacts DEF IInv, TypeOK, LocalType, ThreadMoves, ThreadTrue, CallerTrue, SameThread,
         SameCaller, CallerPlaces, RunnerPlaces, WaitPlaces, Placing
<1>3. CASE CloseGroup(t)
  <2>1. failed' = failed \/ failed' = [failed EXCEPT ![t] = FALSE]
    BY <1>3 DEF CloseGroup, GroupClosed
  <2>2. /\ pc[t] = "close" /\ pc' = [pc EXCEPT ![t] = AfterClosing(t)]
        /\ UNCHANGED <<report, todo, answer, purpose, result>>
    BY <1>3 DEF CloseGroup, callVars
  <2>3. \/ t = "runner" /\ AfterClosing(t) = "publish"
        \/ t # "runner" /\ purpose[t] = "place" /\ AfterClosing(t) = "placed"
        \/ t # "runner" /\ purpose[t] # "place" /\ AfterClosing(t) = "sibling"
    BY DEF AfterClosing
  <2>4. /\ pc'[t] = AfterClosing(t) /\ report'[t] = report[t]
        /\ \A u \in Threads \ {t} : SameThread(u)
        /\ \A c \in Callers : SameCaller(c)
    BY <2>1, <2>2 DEF IInv, TypeOK, LocalType, SameThread, SameCaller
  <2>5. LocalType'
    BY <2>1, <2>2, <2>3, ThreadFacts DEF IInv, TypeOK, LocalType, CallerPlaces, RunnerPlaces, WaitPlaces
  <2>6. ThreadTrue(t)'
    BY <1>1, <2>3, <2>4 DEF ThreadTrue
  <2>7. t \in Callers => CallerTrue(t)'
    BY <2>3, <2>4, ThreadFacts DEF CallerTrue, SameCaller, WaitPlaces, Placing
  <2> QED
    BY <2>4, <2>5, <2>6, <2>7 DEF ThreadMoves
<1> QED
  BY <1>2, <1>3

LEMMA KnownIsTrue ==
  ASSUME IInv, NEW l \in Legs, Ended(entry[l].info)
  PROVE  leg[l] = entry[l].info
  BY DEF IInv, ReportsTrue

LEMMA CompleteMoves ==
  ASSUME IInv, NEW c \in Callers, NEW l \in FilledLegs, Complete(c, l), UNCHANGED exchangeVars, purpose[c] # "place"
  PROVE  ThreadMoves(c)
<1>1. l \in Legs /\ leg[l] = "FILLED" /\ leg'[l] = "FILLED"
  BY KnownIsTrue, EndedFacts DEF FilledLegs, exchangeVars, Ends
<1>2. FillNoted(c, l, "sibling") /\ UNCHANGED callVars
  BY DEF Complete
<1> QED
  BY <1>1, <1>2, FillNotedMoves, ThreadFacts

LEMMA ReconcileStepMoves ==
  ASSUME IInv, ExchangeGrows, NEW c \in Callers, Enter(c) \/ Query(c) \/ PublishAnswer(c) \/ QueryFails(c)
  PROVE  ThreadMoves(c)
<1> USE ThreadFacts DEF IInv, TypeOK, LocalType
<1>1. CASE Enter(c)
  <2>1. UNCHANGED <<report, failed, answer>> /\ pc[c] = "enter"
    BY <1>1 DEF Enter, closeVars
  <2>2. CASE pc' = [pc EXCEPT ![c] = "done"] /\ UNCHANGED <<todo, purpose>> /\ \E r \in {"interrupted", "threw"} : result' = [result EXCEPT ![c] = r]
    BY <2>1, <2>2 DEF ThreadMoves, ThreadTrue, CallerTrue, SameThread, SameCaller, CallerPlaces, WaitPlaces, Placing
  <2>3. CASE /\ pc' = [pc EXCEPT ![c] = "query"] /\ todo' = [todo EXCEPT ![c] = <<"TP", "SL">>]
             /\ purpose' = [purpose EXCEPT ![c] = "prepare"] /\ UNCHANGED result
    <3>1. <<"TP", "SL">> # <<>>
      OBVIOUS
    <3> QED
      BY <2>1, <2>3, <3>1 DEF ThreadMoves, ThreadTrue, CallerTrue, SameThread, SameCaller, CallerPlaces, WaitPlaces,
           Placing, Purposes, Reasons
  <2> QED
    BY <1>1, <2>2, <2>3 DEF Enter
<1>2. CASE Query(c)
  <2>1. /\ pc[c] = "query" /\ todo[c] # <<>> /\ Head(todo[c]) \in Legs
        /\ purpose[c] # "place" /\ purpose[c] \in Reasons
    BY <1>2, LegFacts DEF Query, Goto, CallerTrue, WaitPlaces
  <2>2. UNCHANGED leg
    BY <1>2 DEF Query, Unchanged, exchangeVars
  <2>3. /\ pc' = [pc EXCEPT ![c] = "publish"] /\ answer' = [answer EXCEPT ![c] = leg[Head(todo[c])]]
        /\ UNCHANGED <<todo, purpose, result, report, failed>> /\ leg[Head(todo[c])] \in Statuses
    BY <1>2, <2>1 DEF Query, Goto, closeVars, ExchangeType
  <2>4. LocalType'
    BY <2>3 DEF CallerPlaces, WaitPlaces
  <2>5. CallerTrue(c)'
    BY <2>1, <2>2, <2>3 DEF CallerTrue, WaitPlaces, Placing
  <2> QED
    BY <2>3, <2>4, <2>5 DEF ThreadMoves, ThreadTrue, SameThread, SameCaller
<1>3. CASE PublishAnswer(c)
  <2>1. pc[c] = "publish" /\ todo[c] # <<>> /\ purpose[c] # "place" /\ purpose[c] \in Reasons
    BY <1>3 DEF PublishAnswer, CallerTrue, WaitPlaces
  <2>2. Tail(todo[c]) \in {<<>>, <<"SL">>} /\ (Len(todo[c]) > 1 => Tail(todo[c]) # <<>>)
    <3>1. todo[c] \in {<<>>, <<"TP">>, <<"SL">>, <<"TP", "SL">>}
      BY Zenon
    <3>2. todo[c] \in {<<"TP">>, <<"SL">>, <<"TP", "SL">>}
      BY <2>1, <3>1, Zenon
    <3> HIDE DEF LocalType
    <3> QED
      BY <3>2, TodoFacts
  <2>3. CASE Len(todo[c]) > 1
    BY <1>3, <2>1, <2>2, <2>3 DEF PublishAnswer, closeVars, ThreadMoves, ThreadTrue, CallerTrue, SameThread,
         SameCaller, CallerPlaces, WaitPlaces, Placing, Statuses
  <2>4. CASE ~(Len(todo[c]) > 1)
    <3>1. Continue(c) \in {"decide", "wait", "filledLeg", "recovered", "confirmed"}
      BY <2>1 DEF Continue, Reasons
    <3> QED
      BY <1>3, <2>1, <2>2, <2>4, <3>1 DEF PublishAnswer, closeVars, ThreadMoves, ThreadTrue, CallerTrue, SameThread,
         SameCaller, CallerPlaces, WaitPlaces, Placing, Statuses
  <2> QED
    BY <2>3, <2>4
<1>4. CASE QueryFails(c)
  <2>1. purpose[c] # "place" /\ "filledLeg" \in PlainPlaces
    BY <1>4, NotPlacing DEF QueryFails, PlainPlaces, WaitPlaces
  <2> QED
    BY <1>4, <2>1, StayMoves, LeaveMoves DEF QueryFails
<1> QED
  BY <1>1, <1>2, <1>3, <1>4

LEMMA WaitStepMoves ==
  ASSUME IInv, ExchangeGrows, NEW c \in Callers,
         \/ Interrupted(c) \/ WaitEnds(c) \/ FilledLegFound(c) \/ OtherRequested(c) \/ SiblingWaitEnds(c)
  PROVE  ThreadMoves(c)
<1>1. pc[c] \in {"wait", "waitAll", "waitSibling", "filledLeg", "sibling"} /\ purpose[c] # "place"
  BY NotPlacing DEF Interrupted, WaitEnds, FilledLegFound, OtherRequested, SiblingWaitEnds, Wakes, WaitPlaces
<1>2. {"cleanup", "cancel"} \subseteq Purposes \ {"place"} /\ "sibling" \in Reasons
  BY DEF Purposes, Reasons
<1>3. CASE Interrupted(c)
  BY <1>3, LeaveMoves DEF Interrupted
<1>4. CASE WaitEnds(c)
  <2>1. UNCHANGED exchangeVars
    BY <1>4 DEF WaitEnds
  <2> QED
    BY <1>1, <1>2, <1>4, <2>1, CompleteMoves, CancelMoves, ReconcileMoves DEF WaitEnds
<1>5. CASE FilledLegFound(c)
  <2>1. UNCHANGED exchangeVars
    BY <1>5 DEF FilledLegFound
  <2>2. \/ \E l \in FilledLegs : Complete(c, l)
        \/ Cancel(c, "cleanup") \/ Cancel(c, "cancel") \/ Leave(c, "threw") \/ Leave(c, "interrupted")
    BY <1>5 DEF FilledLegFound
  <2> QED
    BY <1>1, <1>2, <2>1, <2>2, CompleteMoves, CancelMoves, LeaveMoves
<1>6. CASE OtherRequested(c)
  <2>1. CASE Stay(c, "waitSibling")
    <3>1. report[c] \in Legs /\ leg'[report[c]] = "FILLED"
      BY <1>6, ThreadFacts, EndedFacts DEF OtherRequested, IInv, ThreadTrue, ExchangeGrows, Ends
    <3> QED
      BY <1>1, <2>1, <3>1, ThreadFacts DEF Stay, callVars, closeVars, IInv, TypeOK, LocalType, ThreadMoves, ThreadTrue,
           CallerTrue, SameThread, SameCaller, CallerPlaces, WaitPlaces, Placing
  <2>2. CASE /\ pc' = [pc EXCEPT ![c] = "cancel"] /\ purpose' = [purpose EXCEPT ![c] = "cleanup"]
             /\ failed' = [failed EXCEPT ![c] = FALSE]
             /\ UNCHANGED <<todo, answer, result, report>>
    BY <1>2, <2>2, ThreadFacts DEF IInv, TypeOK, LocalType, ThreadMoves, ThreadTrue, CallerTrue, SameThread, SameCaller,
         CallerPlaces, WaitPlaces, Placing
  <2> QED
    BY <1>6, <2>1, <2>2 DEF OtherRequested
<1>7. CASE SiblingWaitEnds(c)
  <2>1. Cancel(c, "cleanup") \/ Leave(c, "terminal") \/ Leave(c, "filled") \/ Leave(c, "threw")
    BY <1>7 DEF SiblingWaitEnds
  <2> QED
    BY <1>2, <2>1, CancelMoves, LeaveMoves
<1> QED
  BY <1>3, <1>4, <1>5, <1>6, <1>7

LEMMA CancelThrowsMoves ==
  ASSUME IInv, NEW c \in Callers, CancelThrows(c)
  PROVE  ThreadMoves(c)
<1>1. "recover" \in Reasons
  BY DEF Reasons
<1> QED
  BY <1>1, LeaveMoves, ReconcileMoves DEF CancelThrows

LEMMA CancelStepMoves ==
  ASSUME IInv, ExchangeGrows, NEW c \in Callers,
         \/ CancelFindsGroup(c) \/ CancelLeg(c, "TP", "cancelTP", "cancelSL") \/ CancelLeg(c, "SL", "cancelSL", "erase")
         \/ EraseGroup(c) \/ Decide(c) \/ Recovered(c) \/ CancelWaitEnds(c) \/ Confirmed(c)
  PROVE  ThreadMoves(c)
<1>1. pc[c] \in WaitPlaces /\ purpose[c] # "place"
  BY NotPlacing DEF CancelFindsGroup, CancelLeg, Goto, EraseGroup, Decide, Recovered, CancelWaitEnds, Confirmed, Wakes,
       WaitPlaces
<1>2. {"cancelTP", "waitAll", "filledLeg"} \subseteq PlainPlaces /\ "confirm" \in Reasons
  BY DEF PlainPlaces, WaitPlaces, Reasons
<1>3. CASE CancelFindsGroup(c) \/ EraseGroup(c) \/ Decide(c) \/ Recovered(c) \/ CancelWaitEnds(c) \/ Confirmed(c)
  <2>1. \/ Stay(c, "cancelTP") \/ Stay(c, "waitAll") \/ Stay(c, "filledLeg") \/ CancelThrows(c)
        \/ Leave(c, "threw") \/ Leave(c, "terminal") \/ Reconcile(c, <<"TP", "SL">>, "confirm")
    BY <1>3 DEF CancelFindsGroup, EraseGroup, Decide, Recovered, CancelWaitEnds, Confirmed
  <2> QED
    BY <1>1, <1>2, <2>1, StayMoves, LeaveMoves, ReconcileMoves, CancelThrowsMoves
<1>4. ASSUME NEW l \in Legs, NEW from, NEW to, CancelLeg(c, l, from, to),
             (l = "TP" /\ from = "cancelTP" /\ to = "cancelSL") \/ (l = "SL" /\ from = "cancelSL" /\ to = "erase")
      PROVE  ThreadMoves(c)
  <2>1. PICK error \in BOOLEAN : CancelRequest(l, error) /\ failed' = [failed EXCEPT ![c] = @ \/ error]
    BY <1>4 DEF CancelLeg
  <2>2. error \/ Closed(l)'
    BY <1>4, <2>1, CancelRequestFacts DEF CancelLeg, streamVars
  <2>3. pc[c] = from /\ pc' = [pc EXCEPT ![c] = to] /\ UNCHANGED <<report, todo, answer, purpose, result>>
    BY <1>4 DEF CancelLeg, Goto, callVars
  <2>4. failed'[c] = (failed[c] \/ error)
    BY <2>1, ThreadFacts DEF IInv, TypeOK, LocalType
  <2>5. l = "SL" => failed[c] \/ Closed("TP")'
    BY <1>4, <2>3, ThreadFacts, LegFacts DEF IInv, ThreadTrue, ExchangeGrows
  <2>6. ThreadTrue(c)'
    BY <1>4, <2>2, <2>3, <2>4, <2>5, ThreadFacts DEF ThreadTrue, IInv, TypeOK, LocalType
  <2>7. LocalType'
    BY <1>4, <2>1, <2>3, ThreadFacts DEF IInv, TypeOK, LocalType, CallerPlaces, WaitPlaces
  <2>8. CallerTrue(c)'
    BY <1>1, <1>4, <2>3, ThreadFacts DEF IInv, TypeOK, LocalType, CallerTrue, WaitPlaces, Placing
  <2> QED
    BY <2>1, <2>3, <2>6, <2>7, <2>8, ThreadFacts DEF IInv, TypeOK, LocalType, ThreadMoves, SameThread, SameCaller
<1> QED
  BY <1>3, <1>4, LegFacts

LEMMA CallerStepMoves ==
  ASSUME IInv, ExchangeGrows, NEW c \in Callers, CallerStep(c)
  PROVE  ThreadMoves(c)
  BY CloseMoves, ReconcileStepMoves, WaitStepMoves, CancelStepMoves, ThreadFacts DEF CallerStep

LEMMA RunnerStepMoves ==
  ASSUME IInv, ExchangeGrows, RunnerStep
  PROVE  ThreadMoves("runner")
<1>1. CASE ReadUpdate
  <2>1. CASE Head(inbox)[2] # "FILLED"
    <3>1. UNCHANGED <<pc, report, failed, todo, answer, purpose, result>>
      BY <1>1, <2>1 DEF ReadUpdate, callVars, closeVars
    <3>2. ThreadTrue("runner")'
      BY <3>1, ThreadStays, ThreadFacts DEF SameThread
    <3> QED
      BY <3>1, <3>2, ThreadFacts DEF IInv, TypeOK, LocalType, ThreadMoves, SameThread, SameCaller
  <2>2. CASE Head(inbox)[2] = "FILLED"
    <3>1. inbox # <<>> /\ FillNoted("runner", Head(inbox)[1], "publish") /\ UNCHANGED <<leg, callVars>>
      BY <1>1, <2>2 DEF ReadUpdate
    <3>2. Head(inbox) = inbox[1] /\ 1 \in 1 .. Len(inbox) /\ inbox[1] \in Legs \X Ends
      BY <3>1 DEF IInv, TypeOK, ExchangeType
    <3>3. Head(inbox)[1] \in Legs /\ leg[Head(inbox)[1]] = "FILLED"
      BY <2>2, <3>2 DEF IInv, ReportsTrue
    <3> QED
      BY <3>1, <3>3, FillNotedMoves, ThreadFacts
  <2> QED
    BY <2>1, <2>2
<1>2. CASE PublishUpdate
  BY <1>2, ThreadFacts DEF PublishUpdate, Goto, callVars, IInv, TypeOK, LocalType, ThreadMoves, ThreadTrue, SameThread,
       SameCaller, RunnerPlaces
<1>3. CASE CancelOther("runner") \/ CloseGroup("runner")
  BY <1>3, CloseMoves, ThreadFacts
<1> QED
  BY <1>1, <1>2, <1>3 DEF RunnerStep

LEMMA PlacementStepMoves ==
  ASSUME IInv, ExchangeGrows, PlacementStep
  PROVE  ThreadMoves("owner")
<1>1. ThreadTrue("owner") /\ CallerTrue("owner")
  BY ThreadFacts DEF IInv
<1>2. CASE EarlyFill
  <2>1. pc["owner"] = "early" /\ FillNoted("owner", report["owner"], "placed") /\ UNCHANGED <<leg, callVars>>
    BY <1>2 DEF EarlyFill, exchangeVars
  <2>2. report["owner"] \in Legs /\ leg[report["owner"]] = "FILLED" /\ purpose["owner"] = "place"
    BY <1>1, <2>1 DEF ThreadTrue, CallerTrue
  <2> QED
    BY <2>1, <2>2, FillNotedMoves, ThreadFacts
<1>3. CASE CreateGroup
  <2>1. PICK l \in Legs \cup {"none"} :
          /\ report' = [report EXCEPT !["owner"] = l]
          /\ \/ pc' = [pc EXCEPT !["owner"] = "placed"]
             \/ pc' = [pc EXCEPT !["owner"] = "early"] /\ l \in pendingOcoFilledOrderLinkIds
    <3>1. CASE pendingOcoFilledOrderLinkIds = {}
      <4>1. report' = [report EXCEPT !["owner"] = report["owner"]] /\ pc' = [pc EXCEPT !["owner"] = "placed"]
        BY <1>3, <3>1 DEF CreateGroup, IInv, TypeOK, LocalType
      <4> QED
        BY <4>1, ThreadFacts DEF IInv, TypeOK, LocalType
    <3>2. CASE pendingOcoFilledOrderLinkIds # {}
      <4> DEFINE l == IF "TP" \in pendingOcoFilledOrderLinkIds THEN "TP" ELSE "SL"
      <4>1. report' = [report EXCEPT !["owner"] = l] /\ pc' = [pc EXCEPT !["owner"] = "early"]
        BY <1>3, <3>2 DEF CreateGroup
      <4>2. l \in Legs /\ l \in pendingOcoFilledOrderLinkIds
        BY <3>2, LegFacts DEF IInv, TypeOK, GroupType
      <4> QED
        BY <4>1, <4>2
    <3> QED
      BY <3>1, <3>2
  <2>2. pc["owner"] = "createGroup" /\ UNCHANGED <<leg, failed, todo, answer, purpose, result>>
    BY <1>3 DEF CreateGroup, exchangeVars, callVars
  <2>3. purpose["owner"] = "place"
    BY <1>1, <2>2 DEF CallerTrue, Placing
  <2>4. l \in pendingOcoFilledOrderLinkIds => leg'[l] = "FILLED" /\ l \in Legs
    BY <2>2 DEF IInv, ReportsTrue, TypeOK, GroupType
  <2> QED
    BY <2>1, <2>2, <2>3, <2>4, ThreadFacts DEF IInv, TypeOK, LocalType, ThreadMoves, ThreadTrue, CallerTrue, SameThread,
         SameCaller, CallerPlaces, WaitPlaces, Placing
<1>4. CASE RegisterPlacement
  BY <1>4, ThreadFacts DEF RegisterPlacement, Goto, closeVars, IInv, TypeOK, LocalType, ThreadMoves, ThreadTrue,
       CallerTrue, SameThread, SameCaller, CallerPlaces, WaitPlaces, Placing, Purposes
<1>5. CASE Placed
  BY <1>5, ThreadFacts DEF Placed, IInv, TypeOK, LocalType, ThreadMoves, ThreadTrue,
       CallerTrue, SameThread, SameCaller, CallerPlaces, WaitPlaces, Placing, Purposes
<1>6. CASE PlaceTakeProfit \/ PlaceStopLoss \/ Rollback
  <2>1. pc["owner"] \in Placing /\ purpose["owner"] = "place"
    BY <1>1, <1>6 DEF PlaceTakeProfit, PlaceStopLoss, Rollback, Goto, CallerTrue, Placing
  <2>2. UNCHANGED <<report, failed, todo, answer, purpose>>
    BY <1>6 DEF PlaceTakeProfit, PlaceStopLoss, Rollback, closeVars, callVars
  <2>3. \/ pc' = [pc EXCEPT !["owner"] = "done"] /\ result' = [result EXCEPT !["owner"] = "threw"]
        \/ (\E to \in Placing : pc' = [pc EXCEPT !["owner"] = to]) /\ UNCHANGED result
    BY <1>6 DEF PlaceTakeProfit, PlaceStopLoss, Rollback, Goto, ThrowFromPlacement, Placing, callVars
  <2> QED
    BY <2>1, <2>2, <2>3, ThreadFacts DEF IInv, TypeOK, LocalType, ThreadMoves, ThreadTrue,
       CallerTrue, SameThread, SameCaller, CallerPlaces, WaitPlaces, Placing
<1> QED
  BY <1>2, <1>3, <1>4, <1>5, <1>6 DEF PlacementStep

LEMMA UserCancelsMoves ==
  ASSUME IInv, UserCancels
  PROVE  ThreadMoves("user")
  BY ThreadFacts DEF UserCancels, Goto, callVars, closeVars, IInv, TypeOK, LocalType, ThreadMoves, ThreadTrue,
       CallerTrue, SameThread, SameCaller, CallerPlaces, WaitPlaces, Placing

\* The steps at which no thread moves.
LEMMA NobodyMoves ==
  ASSUME IInv, ExchangeGrows, UNCHANGED <<pc, report, failed, todo, answer, purpose, result>>
  PROVE  /\ \A t \in Threads : SameThread(t) /\ ThreadTrue(t)'
         /\ \A c \in Callers : SameCaller(c) /\ CallerTrue(c)'
         /\ LocalType'
<1>1. (\A t \in Threads : SameThread(t)) /\ (\A c \in Callers : SameCaller(c)) /\ LocalType'
  BY DEF SameThread, SameCaller, IInv, TypeOK, LocalType
<1> QED
  BY <1>1, ThreadStays, CallerStays, ThreadFacts

LEMMA ThreadMovesFacts ==
  ASSUME IInv, ExchangeGrows, NEW t \in Threads, ThreadMoves(t)
  PROVE  /\ LocalType' /\ (\A u \in Threads : ThreadTrue(u)') /\ (\A c \in Callers : CallerTrue(c)')
<1>1. \A u \in Threads \ {t} : ThreadTrue(u)'
  BY ThreadStays DEF ThreadMoves
<1>2. \A c \in Callers \ {t} : CallerTrue(c)'
  BY CallerStays, ThreadFacts DEF ThreadMoves
<1> QED
  BY <1>1, <1>2 DEF ThreadMoves

LEMMA LocalStep ==
  ASSUME IInv, [Next]_vars
  PROVE  /\ LocalType' /\ (\A t \in Threads : ThreadTrue(t)') /\ (\A c \in Callers : CallerTrue(c)')
<1>1. ExchangeGrows
  BY ExchangeStep
<1>2. CASE LegEnds \/ StreamDrops \/ (\E c \in Callers : RequestStop(c)) \/ UNCHANGED vars
  <2>1. UNCHANGED <<pc, report, failed, todo, answer, purpose, result>>
    BY <1>2 DEF LegEnds, StreamDrops, RequestStop, vars, callVars, closeVars
  <2> QED
    BY <1>1, <2>1, NobodyMoves
<1>3. CASE RunnerStep
  BY <1>1, <1>3, RunnerStepMoves, ThreadMovesFacts, ThreadFacts
<1>4. CASE PlacementStep
  BY <1>1, <1>4, PlacementStepMoves, ThreadMovesFacts, ThreadFacts
<1>5. CASE UserCancels
  BY <1>1, <1>5, UserCancelsMoves, ThreadMovesFacts, ThreadFacts
<1>6. ASSUME NEW c \in Callers, CallerStep(c)
      PROVE  LocalType' /\ (\A t \in Threads : ThreadTrue(t)') /\ (\A d \in Callers : CallerTrue(d)')
  BY <1>1, <1>6, CallerStepMoves, ThreadMovesFacts, ThreadFacts
<1> QED
  BY <1>2, <1>3, <1>4, <1>5, <1>6 DEF Next
-----------------------------------------------------------------------------
(***************************************************************************)
(* The table: it counts the callers, says what is true, and never forgets  *)
(* an end while a caller stays registered.                                 *)
(***************************************************************************)
TableGrows ==
  /\ EntryType' /\ CountTrue'
  /\ \A l \in Legs : Ended(entry'[l].info) => entry'[l].info = leg'[l]
  /\ \A c \in Callers : Holds(c) /\ Holds(c)' => \A l \in Legs : Ended(entry[l].info) => Ended(entry'[l].info)

LEMMA HoldsStays ==
  ASSUME NEW c \in Callers, SameThread(c), SameCaller(c)
  PROVE  Holds(c)' <=> Holds(c)
  BY DEF Holds, SameThread, SameCaller

\* What is known stays true.
LEMMA KnownStaysTrue ==
  ASSUME IInv, ExchangeGrows
  PROVE  \A l \in Legs : Ended(entry[l].info) => entry[l].info = leg'[l]
  BY KnownIsTrue DEF ExchangeGrows

LEMMA TableWrites ==
  ASSUME IInv, ExchangeGrows, \A c \in Callers : Holds(c)' <=> Holds(c),
         \/ entry' = entry \/ entry' = ErrorPublished
         \/ \E l \in Legs, status \in Statuses : entry' = Published(l, status) /\ (Ended(status) => status = leg'[l])
  PROVE  TableGrows
<1>1. entry \in [Legs -> Entry] /\ \A l \in Legs : entry[l] \in [count : Nat, info : Statuses, error : BOOLEAN]
  BY DEF IInv, TypeOK, EntryType, Entry
<1>2. /\ entry' \in [Legs -> Entry]
      /\ \A l \in Legs : entry'[l].count = entry[l].count
      /\ \A l \in Legs : \/ entry'[l].info = entry[l].info
                         \/ (Ended(entry[l].info) => entry'[l].info = "FILLED") /\ (Ended(entry'[l].info) => entry'[l].info = leg'[l])
  <2>1. CASE entry' = entry
    BY <1>1, <2>1
  <2>2. CASE entry' = ErrorPublished
    BY <1>1, <2>2 DEF ErrorPublished, Entry
  <2>3. CASE \E l \in Legs, status \in Statuses : entry' = Published(l, status) /\ (Ended(status) => status = leg'[l])
    <3>1. PICK l \in Legs, status \in Statuses : entry' = Published(l, status) /\ (Ended(status) => status = leg'[l])
      BY <2>3
    <3>2. CASE entry' = entry
      BY <1>1, <3>2
    <3>3. CASE entry' = [entry EXCEPT ![l].info = status] /\ (Ended(entry[l].info) => status = "FILLED")
      BY <1>1, <3>1, <3>3 DEF Entry
    <3> QED
      BY <3>1, <3>2, <3>3 DEF Published
  <2> QED
    BY <2>1, <2>2, <2>3
<1>3. CountTrue'
  BY <1>2, ThreadFacts DEF IInv, CountTrue
<1>4. \A l \in Legs : Ended(entry'[l].info) => entry'[l].info = leg'[l]
  BY <1>2, KnownStaysTrue
<1>5. \A l \in Legs : Ended(entry[l].info) => Ended(entry'[l].info)
  BY <1>2, EndedFacts DEF Ends
<1> QED
  BY <1>2, <1>3, <1>4, <1>5 DEF TableGrows, EntryType

LEMMA TableEntered ==
  ASSUME IInv, ExchangeGrows, NEW c \in Callers, ~Holds(c), Holds(c)',
         \A d \in Callers \ {c} : Holds(d)' <=> Holds(d), entry' = Registered
  PROVE  TableGrows
<1>1. entry \in [Legs -> Entry] /\ \A l \in Legs : entry[l] \in [count : Nat, info : Statuses, error : BOOLEAN]
  BY DEF IInv, TypeOK, EntryType, Entry
<1>2. /\ entry' \in [Legs -> Entry]
      /\ \A l \in Legs : entry'[l].count = entry[l].count + 1 /\ entry'[l].info = entry[l].info
  BY <1>1 DEF Registered, Entry
<1>3. CountTrue'
  BY <1>2, ThreadFacts DEF IInv, CountTrue
<1> QED
  BY <1>2, <1>3, KnownStaysTrue DEF TableGrows, EntryType

LEMMA TableLeft ==
  ASSUME IInv, ExchangeGrows, NEW c \in Callers, Holds(c), ~Holds(c)',
         \A d \in Callers \ {c} : Holds(d)' <=> Holds(d), entry' = Unregistered
  PROVE  TableGrows
<1>1. entry \in [Legs -> Entry] /\ \A l \in Legs : entry[l] \in [count : Nat, info : Statuses, error : BOOLEAN]
  BY DEF IInv, TypeOK, EntryType, Entry
<1>2. \A l \in Legs : entry[l].count = (IF Holds("owner") THEN 1 ELSE 0) + (IF Holds("user") THEN 1 ELSE 0)
  BY DEF IInv, CountTrue
<1>3. ASSUME NEW l \in Legs
      PROVE  /\ entry'[l] \in Entry
             /\ \/ entry[l].count > 1 /\ entry'[l].count = entry[l].count - 1 /\ entry'[l].info = entry[l].info
                \/ ~(entry[l].count > 1) /\ entry'[l].count = 0 /\ entry'[l].info = "none"
  <2>1. CASE entry[l].count > 1
    <3>1. entry'[l] = [entry[l] EXCEPT !.count = @ - 1]
      BY <2>1 DEF Unregistered
    <3>2. entry[l].count - 1 \in Nat
      BY <1>1, <2>1
    <3> QED
      BY <1>1, <2>1, <3>1, <3>2 DEF Entry
  <2>2. CASE ~(entry[l].count > 1)
    <3>1. entry'[l] = [count |-> 0, info |-> "none", error |-> FALSE]
      BY <2>2 DEF Unregistered
    <3> QED
      BY <2>2, <3>1 DEF Entry, Statuses
  <2> QED
    BY <2>1, <2>2
<1>4. entry' \in [Legs -> Entry]
  BY <1>3 DEF Unregistered
<1>5. \A l \in Legs : \/ entry[l].count > 1 /\ entry'[l].count = entry[l].count - 1 /\ entry'[l].info = entry[l].info
                      \/ ~(entry[l].count > 1) /\ entry'[l].count = 0 /\ entry'[l].info = "none"
  BY <1>3
<1>6. CountTrue'
  BY <1>2, <1>5, ThreadFacts DEF CountTrue
<1>7. \A l \in Legs : Ended(entry'[l].info) => entry'[l].info = leg'[l]
  BY <1>5, KnownStaysTrue, EndedFacts DEF Ends
<1>8. \A d \in Callers : Holds(d) /\ Holds(d)' => \A l \in Legs : Ended(entry[l].info) => Ended(entry'[l].info)
  BY <1>2, <1>5, ThreadFacts
<1> QED
  BY <1>4, <1>6, <1>7, <1>8 DEF TableGrows, EntryType

\* A caller that is in its wait leaves it or stays registered.
LEMMA CallerTable ==
  ASSUME IInv, ExchangeGrows, NEW c \in Callers, ThreadMoves(c),
         \/ /\ Holds(c)' <=> Holds(c)
            /\ \/ entry' = entry \/ entry' = ErrorPublished
               \/ \E l \in Legs, status \in Statuses :
                    entry' = Published(l, status) /\ (Ended(status) => status = leg'[l])
         \/ ~Holds(c) /\ Holds(c)' /\ entry' = Registered
         \/ Holds(c) /\ ~Holds(c)' /\ entry' = Unregistered
  PROVE  TableGrows
<1>1. \A d \in Callers \ {c} : Holds(d)' <=> Holds(d)
  BY HoldsStays, ThreadFacts DEF ThreadMoves
<1> QED
  BY <1>1, TableWrites, TableEntered, TableLeft

LEMMA WaitShapes ==
  ASSUME IInv, ExchangeGrows, NEW c \in Callers, pc[c] \in WaitPlaces, ThreadMoves(c),
         \/ \E outcome \in {"interrupted", "threw", "filled", "terminal"} : Leave(c, outcome)
         \/ entry' = entry /\ pc'[c] \in WaitPlaces
         \/ entry' = entry /\ pc'[c] = "other" /\ purpose'[c] = purpose[c]
         \/ entry' = ErrorPublished /\ pc'[c] \in WaitPlaces
  PROVE  TableGrows
<1>1. Holds(c) /\ purpose[c] # "place"
  BY NotPlacing DEF Holds
<1>2. ASSUME NEW outcome \in {"interrupted", "threw", "filled", "terminal"}, Leave(c, outcome)
      PROVE  ~Holds(c)' /\ entry' = Unregistered
  <2>1. pc'[c] = "done"
    BY <1>2, LeaveMoves
  <2> QED
    BY <1>2, <2>1 DEF Holds, WaitPlaces, Leave
<1> QED
  BY <1>1, <1>2, CallerTable DEF Holds

LEMMA CloseKeepsHolds ==
  ASSUME IInv, NEW c \in Callers, CancelOther(c) \/ CloseGroup(c)
  PROVE  Holds(c)' <=> Holds(c)
<1>1. UNCHANGED purpose /\ pc[c] \in {"other", "close"} /\ c \in Threads
  BY ThreadFacts DEF CancelOther, CloseGroup, Goto, callVars
<1>2. pc'[c] = "close" \/ pc'[c] = AfterClosing(c)
  BY <1>1 DEF CancelOther, CloseGroup, Goto, IInv, TypeOK, LocalType
<1> QED
  BY <1>1, <1>2, ThreadFacts DEF AfterClosing, Holds, WaitPlaces

LEMMA CallerStepTable ==
  ASSUME IInv, ExchangeGrows, NEW c \in Callers, CallerStep(c)
  PROVE  TableGrows
<1>1. ThreadMoves(c)
  BY CallerStepMoves
<1>2. pc' \in [Threads -> CallerPlaces \cup RunnerPlaces] /\ pc \in [Threads -> CallerPlaces \cup RunnerPlaces] /\ c \in Threads
  BY <1>1, ThreadFacts DEF ThreadMoves, IInv, TypeOK, LocalType
<1>3. CASE CancelOther(c) \/ CloseGroup(c)
  <2>1. entry' = entry /\ UNCHANGED purpose
    BY <1>3 DEF CancelOther, CloseGroup, callVars
  <2>2. Holds(c)' <=> Holds(c)
    BY <1>3, CloseKeepsHolds
  <2> QED
    BY <1>1, <2>1, <2>2, CallerTable
<1>4. CASE Enter(c)
  <2>1. ~Holds(c)
    BY <1>4 DEF Enter, Holds, WaitPlaces
  <2>2. \/ entry' = entry /\ pc'[c] = "done"
        \/ entry' = Registered /\ pc'[c] = "query"
    BY <1>2, <1>4 DEF Enter
  <2>3. pc'[c] = "done" => ~Holds(c)'
    BY DEF Holds, WaitPlaces
  <2>4. pc'[c] = "query" => Holds(c)'
    BY DEF Holds, WaitPlaces
  <2> QED
    BY <1>1, <2>1, <2>2, <2>3, <2>4, CallerTable
<1>5. CASE PublishAnswer(c)
  <2>1. pc[c] = "publish" /\ pc[c] \in WaitPlaces /\ todo[c] # <<>> /\ purpose[c] \in Reasons
    BY <1>5 DEF PublishAnswer, IInv, CallerTrue, WaitPlaces
  <2>2. Head(todo[c]) \in Legs /\ answer[c] \in Statuses
    BY <2>1, LegFacts DEF IInv, TypeOK, LocalType
  <2>3. Ended(answer[c]) => answer[c] = leg'[Head(todo[c])]
    BY <2>1, <2>2 DEF IInv, CallerTrue, ExchangeGrows
  <2>4. pc'[c] \in WaitPlaces
    BY <1>2, <1>5, <2>1 DEF PublishAnswer, Continue, WaitPlaces, Reasons
  <2>5. entry' = Published(Head(todo[c]), answer[c])
    BY <1>5 DEF PublishAnswer
  <2> QED
    BY <1>1, <2>1, <2>2, <2>3, <2>4, <2>5, CallerTable DEF Holds
<1>6. CASE Query(c) \/ QueryFails(c) \/ Interrupted(c) \/ OtherRequested(c) \/ SiblingWaitEnds(c)
  <2>1. pc[c] \in WaitPlaces
    BY <1>6 DEF Query, Goto, QueryFails, Interrupted, OtherRequested, SiblingWaitEnds, Wakes, WaitPlaces
  <2>2. \/ \E outcome \in {"interrupted", "threw", "filled", "terminal"} : Leave(c, outcome)
        \/ entry' = entry /\ \E to \in WaitPlaces : pc' = [pc EXCEPT ![c] = to]
        \/ entry' = ErrorPublished /\ \E to \in WaitPlaces : pc' = [pc EXCEPT ![c] = to]
    BY <1>6 DEF Query, Goto, QueryFails, Interrupted, OtherRequested, SiblingWaitEnds, Stay, Cancel, WaitPlaces
  <2> QED
    BY <1>1, <1>2, <2>1, <2>2, WaitShapes
<1>7. CASE WaitEnds(c) \/ FilledLegFound(c)
  <2>1. pc[c] \in WaitPlaces
    BY <1>7 DEF WaitEnds, FilledLegFound, WaitPlaces
  <2>2. \/ \E outcome \in {"interrupted", "threw", "filled", "terminal"} : Leave(c, outcome)
        \/ \E l \in FilledLegs : Complete(c, l)
        \/ entry' = entry /\ \E to \in {"cancel", "query"} : pc' = [pc EXCEPT ![c] = to]
    BY <1>7 DEF WaitEnds, FilledLegFound, Cancel, Reconcile
  <2>3. ASSUME NEW l, Complete(c, l) PROVE entry' = entry /\ purpose' = purpose /\ pc'[c] \in {"other", "sibling"}
    BY <1>2, <2>3 DEF Complete, FillNoted, callVars
  <2>4. {"cancel", "query", "sibling"} \subseteq WaitPlaces
    BY DEF WaitPlaces
  <2> QED
    BY <1>1, <1>2, <2>1, <2>2, <2>3, <2>4, WaitShapes
<1>8. CASE \/ CancelFindsGroup(c) \/ CancelLeg(c, "TP", "cancelTP", "cancelSL") \/ CancelLeg(c, "SL", "cancelSL", "erase")
           \/ EraseGroup(c) \/ Decide(c) \/ Recovered(c) \/ CancelWaitEnds(c) \/ Confirmed(c)
  <2>1. pc[c] \in WaitPlaces
    BY <1>8 DEF CancelFindsGroup, CancelLeg, Goto, EraseGroup, Decide, Recovered, CancelWaitEnds, Confirmed, Wakes,
         WaitPlaces
  <2>2. \/ \E outcome \in {"interrupted", "threw", "filled", "terminal"} : Leave(c, outcome)
        \/ entry' = entry /\ \E to \in WaitPlaces : pc' = [pc EXCEPT ![c] = to]
    BY <1>8 DEF CancelFindsGroup, CancelLeg, Goto, EraseGroup, Decide, Recovered, CancelWaitEnds, Confirmed, CancelThrows,
         Stay, Reconcile, WaitPlaces
  <2> QED
    BY <1>1, <1>2, <2>1, <2>2, WaitShapes
<1> QED
  BY <1>3, <1>4, <1>5, <1>6, <1>7, <1>8 DEF CallerStep

\* While it places the pair the owner is not registered.
LEMMA PlacementOutside ==
  ASSUME IInv, PlacementStep
  PROVE  entry' = entry /\ ~Holds("owner") /\ ~Holds("owner")'
<1>1. entry' = entry
  BY DEF PlacementStep, RegisterPlacement, PlaceTakeProfit, PlaceStopLoss, Rollback, CreateGroup, EarlyFill, Placed
<1>2. ~Holds("owner")
  BY ThreadFacts DEF PlacementStep, RegisterPlacement, PlaceTakeProfit, PlaceStopLoss, Rollback, CreateGroup,
       EarlyFill, Placed, Goto, Holds, WaitPlaces
<1>3. ~Holds("owner")'
  <2>1. CASE EarlyFill
    <3>1. pc["owner"] = "early" /\ UNCHANGED purpose
      BY <2>1 DEF EarlyFill, callVars
    <3>2. purpose["owner"] = "place"
      BY <3>1, ThreadFacts DEF IInv, CallerTrue
    <3>3. pc'["owner"] \in {"other", "placed"}
      BY <2>1, ThreadFacts DEF EarlyFill, FillNoted, IInv, TypeOK, LocalType
    <3> QED
      BY <3>1, <3>2, <3>3 DEF Holds, WaitPlaces
  <2>2. CASE ~EarlyFill
    <3>1. pc'["owner"] \in Placing \cup {"early", "placed", "enter", "done"}
      BY <2>2, ThreadFacts DEF PlacementStep, RegisterPlacement, PlaceTakeProfit, PlaceStopLoss, Rollback, CreateGroup,
           Placed, Goto, ThrowFromPlacement, Placing, IInv, TypeOK, LocalType
    <3> QED
      BY <3>1 DEF Holds, WaitPlaces, Placing
  <2> QED
    BY <2>1, <2>2
<1> QED
  BY <1>1, <1>2, <1>3

LEMMA TableStep ==
  ASSUME IInv, [Next]_vars
  PROVE  TableGrows
<1>1. ExchangeGrows
  BY ExchangeStep
<1>2. CASE LegEnds \/ StreamDrops \/ (\E c \in Callers : RequestStop(c)) \/ UNCHANGED vars
  <2>1. UNCHANGED <<entry, pc, purpose>>
    BY <1>2 DEF LegEnds, StreamDrops, RequestStop, vars, callVars
  <2>2. \A c \in Callers : Holds(c)' <=> Holds(c)
    BY <2>1 DEF Holds
  <2> QED
    BY <1>1, <2>1, <2>2, TableWrites
<1>3. CASE RunnerStep
  <2>1. \A c \in Callers : Holds(c)' <=> Holds(c)
    BY <1>1, <1>3, RunnerStepMoves, HoldsStays, ThreadFacts DEF ThreadMoves
  <2>2. CASE ReadUpdate
    <3>1. entry' = entry \/ (inbox # <<>> /\ entry' = Published(Head(inbox)[1], Head(inbox)[2]) /\ UNCHANGED leg)
      BY <2>2 DEF ReadUpdate
    <3>2. ASSUME inbox # <<>>
          PROVE  Head(inbox)[1] \in Legs /\ Head(inbox)[2] \in Statuses /\ leg[Head(inbox)[1]] = Head(inbox)[2]
      <4>1. Head(inbox) = inbox[1] /\ 1 \in 1 .. Len(inbox) /\ inbox[1] \in Legs \X Ends
        BY <3>2 DEF IInv, TypeOK, ExchangeType
      <4> QED
        BY <4>1 DEF IInv, ReportsTrue, Statuses
    <3> QED
      BY <1>1, <2>1, <3>1, <3>2, TableWrites
  <2>3. CASE PublishUpdate
    <3>1. report["runner"] \in Legs /\ leg[report["runner"]] = "FILLED" /\ "FILLED" \in Statuses
      BY <2>3, ThreadFacts DEF PublishUpdate, Goto, IInv, ThreadTrue, Statuses, Ends
    <3>2. UNCHANGED leg /\ (entry' = ErrorPublished \/ entry' = Published(report["runner"], "FILLED"))
      BY <2>3 DEF PublishUpdate, exchangeVars
    <3> QED
      BY <1>1, <2>1, <3>1, <3>2, TableWrites
  <2>4. CASE CancelOther("runner") \/ CloseGroup("runner")
    BY <1>1, <2>1, <2>4, TableWrites DEF CancelOther, CloseGroup
  <2> QED
    BY <1>3, <2>2, <2>3, <2>4 DEF RunnerStep
<1>4. CASE PlacementStep
  <2>1. ThreadMoves("owner")
    BY <1>1, <1>4, PlacementStepMoves
  <2>2. entry' = entry /\ ~Holds("owner") /\ ~Holds("owner")'
    BY <1>4, PlacementOutside
  <2> QED
    BY <1>1, <2>1, <2>2, CallerTable, ThreadFacts
<1>5. CASE UserCancels
  <2>1. ~Holds("user") /\ ~Holds("user")' /\ entry' = entry
    BY <1>5, ThreadFacts DEF UserCancels, Goto, Holds, WaitPlaces, IInv, TypeOK, LocalType
  <2> QED
    BY <1>1, <1>5, <2>1, UserCancelsMoves, CallerTable, ThreadFacts
<1>6. ASSUME NEW c \in Callers, CallerStep(c) PROVE TableGrows
  BY <1>1, <1>6, CallerStepTable
<1> QED
  BY <1>2, <1>3, <1>4, <1>5, <1>6 DEF Next
-----------------------------------------------------------------------------
(***************************************************************************)
(* The end of a leg reaches the callers that are registered.               *)
(***************************************************************************)
LEMMA DropsGrow ==
  ASSUME IInv, [Next]_vars, drops' = 0
  PROVE  drops = 0 /\ connected /\ ~StreamDrops
<1>1. ~StreamDrops
  BY DEF StreamDrops, IInv, TypeOK, ExchangeType
<1>2. CASE LegEnds \/ PlacementStep \/ RunnerStep \/ UserCancels \/ UNCHANGED vars
  <2>1. UNCHANGED drops
    BY <1>2 DEF LegEnds, PlacementStep, RegisterPlacement, PlaceTakeProfit, PlaceStopLoss, Rollback, CreateGroup, EarlyFill,
         Placed, RunnerStep, ReadUpdate, PublishUpdate, CancelOther, CloseGroup, UserCancels, Unchanged, vars, streamVars
  <2> QED
    BY <1>1, <2>1 DEF IInv, GroupTrue
<1>3. ASSUME NEW c \in Callers, CallerStep(c) \/ RequestStop(c) PROVE UNCHANGED drops
  BY <1>3 DEF CallerStep, RequestStop, CancelOther, CloseGroup, Enter, Query, PublishAnswer, QueryFails, Interrupted,
       WaitEnds, FilledLegFound, OtherRequested, SiblingWaitEnds, CancelFindsGroup, CancelLeg, EraseGroup, Decide, Recovered,
       CancelWaitEnds, Confirmed, Wakes, Unchanged, streamVars
<1> QED
  BY <1>1, <1>2, <1>3 DEF Next, IInv, GroupTrue

LEMMA PublishedEnds ==
  ASSUME IInv, NEW c \in Callers, Holds(c), NEW l \in Legs, NEW status \in Ends, entry' = Published(l, status)
  PROVE  Ended(entry'[l].info)
<1>1. entry[l].count > 0
  BY ThreadFacts DEF IInv, CountTrue
<1>2. entry \in [Legs -> Entry] /\ entry[l] \in [count : Nat, info : Statuses, error : BOOLEAN]
  BY DEF IInv, TypeOK, EntryType, Entry
<1> QED
  BY <1>1, <1>2, EndedFacts DEF Published, Ends

\* The runner's table of what it read and of what it is handling.
LEMMA RunnerKeepsEnd ==
  ASSUME IInv, RunnerStep, NEW c \in Callers, Holds(c), NEW l \in Legs, EndKnown(l),
         Ended(entry[l].info) => Ended(entry'[l].info)
  PROVE  EndKnown(l)'
<1>1. CASE Ended(entry[l].info)
  BY <1>1 DEF EndKnown
<1>2. CASE dropped # {}
  <2>1. dropped \subseteq dropped'
    BY DEF RunnerStep, ReadUpdate, PublishUpdate, CancelOther, CloseGroup
  <2> QED
    BY <1>2, <2>1 DEF EndKnown
<1>3. ASSUME NEW status \in Ends, Reported(l, status) PROVE EndKnown(l)'
  <2>1. PICK i \in 1 .. Len(inbox) : inbox[i] = <<l, status>>
    BY <1>3 DEF Reported
  <2>2. CASE ~ReadUpdate
    <3>1. UNCHANGED inbox
      BY <2>2 DEF RunnerStep, PublishUpdate, CancelOther, CloseGroup, CancelRequest, exchangeVars
    <3> QED
      BY <2>1, <3>1 DEF EndKnown, Reported
  <2>3. CASE ReadUpdate
    <3>1. inbox \in Seq(Legs \X Ends) /\ inbox' = Tail(inbox) /\ inbox # <<>>
      BY <2>3 DEF ReadUpdate, IInv, TypeOK, ExchangeType
    <3>2. CASE i > 1
      <4>1. inbox'[i - 1] = <<l, status>> /\ i - 1 \in 1 .. Len(inbox')
        BY <2>1, <3>1, <3>2
      <4> QED
        BY <4>1 DEF EndKnown, Reported
    <3>3. CASE i = 1
      <4>1. Head(inbox)[1] = l /\ Head(inbox)[2] = status
        BY <2>1, <3>1, <3>3
      <4>2. CASE status # "FILLED"
        <5>1. entry' = Published(l, status)
          BY <2>3, <4>1, <4>2 DEF ReadUpdate
        <5> QED
          BY <5>1, PublishedEnds DEF EndKnown
      <4>3. CASE status = "FILLED"
        <5>1. FillNoted("runner", l, "publish")
          BY <2>3, <4>1, <4>3 DEF ReadUpdate
        <5>2. pc'["runner"] \in {"other", "publish"} /\ report'["runner"] = l
          BY <5>1, ThreadFacts DEF FillNoted, IInv, TypeOK, LocalType
        <5> QED
          BY <5>2 DEF EndKnown
      <4> QED
        BY <4>2, <4>3
    <3> QED
      BY <3>2, <3>3
  <2> QED
    BY <2>2, <2>3
<1>4. CASE pc["runner"] \in {"other", "close", "publish"} /\ report["runner"] = l
  <2>1. CASE PublishUpdate
    <3>1. CASE entry' = Published(l, "FILLED")
      BY <3>1, PublishedEnds DEF EndKnown, Ends
    <3>2. CASE dropped' = dropped \cup {l}
      BY <3>2 DEF EndKnown
    <3> QED
      BY <1>4, <2>1, <3>1, <3>2 DEF PublishUpdate
  <2>2. CASE CancelOther("runner") \/ CloseGroup("runner")
    <3>1. report'["runner"] = l /\ pc'["runner"] \in {"close", "publish"}
      BY <1>4, <2>2, ThreadFacts DEF CancelOther, CloseGroup, Goto, AfterClosing, IInv, TypeOK, LocalType
    <3> QED
      BY <3>1 DEF EndKnown
  <2>3. CASE ReadUpdate
    BY <1>4, <2>3 DEF ReadUpdate
  <2> QED
    BY <2>1, <2>2, <2>3 DEF RunnerStep
<1> QED
  BY <1>1, <1>2, <1>3, <1>4 DEF EndKnown

LEMMA EndStaysKnown ==
  ASSUME IInv, [Next]_vars, NEW c \in Callers, Holds(c), Holds(c)', drops' = 0, NEW l \in Legs, EndKnown(l)
  PROVE  EndKnown(l)'
<1>1. ExchangeGrows /\ (Ended(entry[l].info) => Ended(entry'[l].info)) /\ ~StreamDrops
  BY ExchangeStep, TableStep, DropsGrow DEF TableGrows
<1>2. CASE RunnerStep
  BY <1>1, <1>2, RunnerKeepsEnd
<1>3. CASE LegEnds
  <2>1. UNCHANGED <<dropped, pc, report>>
    BY <1>3 DEF LegEnds, closeVars
  <2>2. \A status \in Ends : Reported(l, status) => Reported(l, status)'
    BY <1>3, LegEndsFacts
  <2> QED
    BY <1>1, <2>1, <2>2 DEF EndKnown
<1>4. ASSUME NEW d \in Callers, ThreadMoves(d), UNCHANGED <<inbox, dropped>> PROVE EndKnown(l)'
  <2>1. SameThread("runner")
    BY <1>4, ThreadFacts DEF ThreadMoves
  <2>2. \A status : Reported(l, status) => Reported(l, status)'
    BY <1>4 DEF Reported
  <2> QED
    BY <1>1, <1>4, <2>1, <2>2 DEF EndKnown, SameThread
<1>5. CASE PlacementStep
  <2>1. UNCHANGED <<inbox, dropped>>
    BY <1>5 DEF PlacementStep, RegisterPlacement, PlaceTakeProfit, PlaceStopLoss, Rollback, CreateGroup, EarlyFill,
         Placed, CancelRequest, exchangeVars
  <2> QED
    BY <1>1, <1>4, <1>5, <2>1, PlacementStepMoves, ThreadFacts
<1>6. CASE UserCancels
  BY <1>1, <1>4, <1>6, UserCancelsMoves, ThreadFacts DEF UserCancels, Unchanged, exchangeVars
<1>7. ASSUME NEW d \in Callers, CallerStep(d) PROVE EndKnown(l)'
  <2>1. UNCHANGED <<inbox, dropped>>
    BY <1>7 DEF CallerStep, CancelOther, CloseGroup, Enter, Query, PublishAnswer, QueryFails, Interrupted,
       WaitEnds, FilledLegFound, OtherRequested, SiblingWaitEnds, CancelFindsGroup, CancelLeg, EraseGroup, Decide, Recovered,
       CancelWaitEnds, Confirmed, Wakes, Unchanged, CancelRequest, exchangeVars
  <2> QED
    BY <1>1, <1>4, <1>7, <2>1, CallerStepMoves
<1>8. CASE (\E d \in Callers : RequestStop(d)) \/ UNCHANGED vars
  <2>1. UNCHANGED <<inbox, dropped, pc, report, entry>>
    BY <1>8 DEF RequestStop, vars, exchangeVars, closeVars
  <2> QED
    BY <2>1 DEF EndKnown, Reported
<1> QED
  BY <1>1, <1>2, <1>3, <1>5, <1>6, <1>7, <1>8 DEF Next

\* Which step ends a leg, and which one registers a caller.
LEMMA EndsByLegEnds ==
  ASSUME IInv, [Next]_vars, NEW l \in Legs, Ended(leg'[l]), ~Ended(leg[l])
  PROVE  LegEnds
<1>1. leg' # leg
  OBVIOUS
<1>2. CASE PlacementStep
  <2>1. leg' = leg \/ PlaceLeg("TP") \/ PlaceLeg("SL")
    BY <1>2 DEF PlacementStep, RegisterPlacement, PlaceTakeProfit, PlaceStopLoss, Rollback, CreateGroup, EarlyFill,
         Placed, CancelRequest, exchangeVars
  <2> QED
    BY <2>1, <1>1, EndedFacts, LegFacts DEF PlaceLeg, IInv, TypeOK, ExchangeType, Ends
<1>3. ASSUME NEW c \in Callers, CallerStep(c) \/ RequestStop(c) PROVE UNCHANGED leg
    BY <1>3 DEF CallerStep, CancelOther, CloseGroup, Enter, Query, PublishAnswer, QueryFails, Interrupted,
       WaitEnds, FilledLegFound, OtherRequested, SiblingWaitEnds, CancelFindsGroup, CancelLeg, EraseGroup, Decide, Recovered,
       CancelWaitEnds, Confirmed, Wakes, Unchanged, CancelRequest, exchangeVars, RequestStop
<1>4. CASE RunnerStep \/ StreamDrops \/ UserCancels \/ UNCHANGED vars
  BY <1>1, <1>4 DEF RunnerStep, ReadUpdate, PublishUpdate, CancelOther, CloseGroup, StreamDrops, UserCancels, Unchanged, vars,
       CancelRequest, exchangeVars
<1> QED
  BY <1>1, <1>2, <1>3, <1>4 DEF Next

LEMMA HoldsBegins ==
  ASSUME IInv, [Next]_vars, NEW c \in Callers, ~Holds(c), Holds(c)'
  PROVE  pc'[c] = "query" /\ todo'[c] = <<"TP", "SL">> /\ purpose'[c] = "prepare"
<1>1. ExchangeGrows
  BY ExchangeStep
<1>2. ~(SameThread(c) /\ SameCaller(c))
  BY HoldsStays
<1>3. CASE CallerStep(c)
  <2>1. pc[c] \notin WaitPlaces
    BY DEF Holds
  <2>2. ~CancelOther(c) /\ ~CloseGroup(c)
    BY CloseKeepsHolds
  <2>3. Enter(c)
    BY <1>3, <2>1, <2>2 DEF CallerStep, Query, Goto, PublishAnswer, QueryFails, Interrupted, WaitEnds, FilledLegFound,
         OtherRequested, SiblingWaitEnds, CancelFindsGroup, CancelLeg, EraseGroup, Decide, Recovered, CancelWaitEnds,
         Confirmed, Wakes, WaitPlaces
  <2>4. pc'[c] # "done"
    BY DEF Holds, WaitPlaces
  <2> QED
    BY <2>3, <2>4, ThreadFacts DEF Enter, IInv, TypeOK, LocalType
<1>4. ASSUME NEW d \in Callers, d # c, CallerStep(d) PROVE FALSE
  BY <1>1, <1>2, <1>4, CallerStepMoves, ThreadFacts DEF ThreadMoves
<1>5. CASE PlacementStep
  BY <1>1, <1>2, <1>5, PlacementStepMoves, PlacementOutside, ThreadFacts DEF ThreadMoves
<1>6. CASE UserCancels
  <2>1. ~Holds("user")'
    BY <1>6, ThreadFacts DEF UserCancels, Goto, Holds, WaitPlaces, IInv, TypeOK, LocalType
  <2> QED
    BY <2>1, <1>2, <1>6, UserCancelsMoves, ThreadFacts DEF ThreadMoves
<1>7. CASE RunnerStep
  BY <1>1, <1>2, <1>7, RunnerStepMoves, ThreadFacts DEF ThreadMoves
<1>8. CASE LegEnds \/ StreamDrops \/ (\E d \in Callers : RequestStop(d)) \/ UNCHANGED vars
  BY <1>2, <1>8 DEF LegEnds, StreamDrops, RequestStop, vars, callVars, closeVars, SameThread, SameCaller
<1> QED
  BY <1>3, <1>4, <1>5, <1>6, <1>7, <1>8 DEF Next

\* A look that is still to come is taken, and its answer published.
LEMMA LookIsTaken ==
  ASSUME IInv, NEW c \in Callers, Query(c) \/ PublishAnswer(c), Holds(c)', NEW l \in Legs, Ended(leg[l]),
         Unasked(c, l) \/ Answered(c, l)
  PROVE  Ended(entry'[l].info) \/ Unasked(c, l)' \/ Answered(c, l)'
<1> DEFINE s == todo[c]
<1>1. s \in {<<"TP">>, <<"SL">>, <<"TP", "SL">>}
  <2>1. s # <<>>
    BY DEF Query, Goto, PublishAnswer, IInv, CallerTrue
  <2>2. s \in {<<>>, <<"TP">>, <<"SL">>, <<"TP", "SL">>}
    BY Zenon DEF IInv, TypeOK, LocalType
  <2> QED
    BY <2>1, <2>2, Zenon
<1> HIDE DEF s
<1>2. /\ Head(s) \in Legs /\ Tail(s) \in {<<>>, <<"SL">>} /\ Len(s) \in {1, 2}
      /\ \A i \in 1 .. Len(s) : i = 1 => s[i] = Head(s)
      /\ \A i \in 1 .. Len(s) : i > 1 => s[i] = "SL" /\ Tail(s) = <<"SL">>
  BY <1>1, TodoFacts
<1>3. CASE Query(c)
  <2>1. /\ pc[c] = "query" /\ pc'[c] = "publish" /\ todo'[c] = s /\ purpose'[c] = purpose[c]
        /\ answer'[c] = leg[Head(s)]
    BY <1>3, ThreadFacts DEF Query, Goto, IInv, TypeOK, LocalType, s
  <2>2. PICK i \in 1 .. Len(s) : s[i] = l /\ purpose[c] = "prepare"
    BY <2>1 DEF Unasked, Answered, s
  <2>3. CASE i = 1
    <3>1. Head(s) = l
      BY <1>2, <2>2, <2>3
    <3> QED
      BY <2>1, <3>1 DEF Answered
  <2>4. CASE i > 1
    BY <2>1, <2>2, <2>4 DEF Unasked
  <2> QED
    BY <2>3, <2>4
<1>4. CASE PublishAnswer(c)
  <2>1. /\ pc[c] = "publish" /\ todo'[c] = Tail(s) /\ purpose'[c] = purpose[c]
        /\ pc'[c] = IF Len(s) > 1 THEN "query" ELSE Continue(c)
        /\ entry' = Published(Head(s), answer[c])
    BY <1>4, ThreadFacts DEF PublishAnswer, IInv, TypeOK, LocalType, s
  <2>2. Holds(c)
    BY <2>1 DEF Holds, WaitPlaces
  <2>3. CASE Answered(c, l)
    <3>1. Head(s) = l /\ answer[c] \in Ends
      BY <2>3, EndedFacts DEF Answered, s
    <3> QED
      BY <2>1, <2>2, <3>1, PublishedEnds
  <2>4. CASE Unasked(c, l)
    <3>1. PICK i \in 1 .. Len(s) : s[i] = l /\ purpose[c] = "prepare" /\ i > 1
      BY <2>1, <2>4 DEF Unasked, s
    <3>2. l = "SL" /\ Tail(s) = <<"SL">> /\ Len(s) > 1
      BY <1>2, <3>1
    <3>3. todo'[c] = <<"SL">>
      BY <2>1, <3>2, Zenon
    <3>4. 1 \in 1 .. Len(todo'[c]) /\ todo'[c][1] = l
      BY <3>2, <3>3
    <3> QED
      BY <2>1, <3>1, <3>2, <3>4 DEF Unasked
  <2> QED
    BY <2>3, <2>4
<1> QED
  BY <1>3, <1>4

LEMMA LookStays ==
  ASSUME IInv, [Next]_vars, NEW c \in Callers, Holds(c), Holds(c)', NEW l \in Legs, Ended(leg[l]),
         Unasked(c, l) \/ Answered(c, l)
  PROVE  Ended(entry'[l].info) \/ Unasked(c, l)' \/ Answered(c, l)'
<1>1. ExchangeGrows
  BY ExchangeStep
<1>2. CASE SameThread(c) /\ SameCaller(c)
  BY <1>2 DEF SameThread, SameCaller, Unasked, Answered
<1>3. CASE CallerStep(c)
  <2>1. pc[c] \in {"query", "publish"} /\ (pc[c] = "query" => purpose[c] = "prepare")
    BY DEF Unasked, Answered
  <2>2. ~QueryFails(c)
    <3>1. SUFFICES ASSUME QueryFails(c) PROVE FALSE
      OBVIOUS
    <3>2. Leave(c, "threw")
      BY <2>1, <3>1 DEF QueryFails
    <3>3. pc'[c] = "done"
      BY <3>2, LeaveMoves
    <3> QED
      BY <3>3 DEF Holds, WaitPlaces
  <2>3. Query(c) \/ PublishAnswer(c)
    BY <1>3, <2>1, <2>2 DEF CallerStep, CancelOther, CloseGroup, Enter, Goto, Interrupted, WaitEnds, FilledLegFound,
         OtherRequested, SiblingWaitEnds, CancelFindsGroup, CancelLeg, EraseGroup, Decide, Recovered, CancelWaitEnds,
         Confirmed, Wakes
  <2> QED
    BY <2>3, LookIsTaken
<1>4. ASSUME NEW d \in Callers, d # c, CallerStep(d) PROVE SameThread(c) /\ SameCaller(c)
  BY <1>1, <1>4, CallerStepMoves, ThreadFacts DEF ThreadMoves
<1>5. CASE PlacementStep
  BY <1>1, <1>2, <1>5, PlacementStepMoves, PlacementOutside, ThreadFacts DEF ThreadMoves
<1>6. CASE UserCancels
  <2>1. ~Holds("user")
    BY <1>6, ThreadFacts DEF UserCancels, Goto, Holds, WaitPlaces
  <2> QED
    BY <1>2, <1>6, <2>1, UserCancelsMoves, ThreadFacts DEF ThreadMoves
<1>7. CASE RunnerStep
  BY <1>1, <1>2, <1>7, RunnerStepMoves, ThreadFacts DEF ThreadMoves
<1>8. CASE LegEnds \/ StreamDrops \/ (\E d \in Callers : RequestStop(d)) \/ UNCHANGED vars
  BY <1>2, <1>8 DEF LegEnds, StreamDrops, RequestStop, vars, callVars, closeVars, SameThread, SameCaller
<1> QED
  BY <1>2, <1>3, <1>4, <1>5, <1>6, <1>7, <1>8 DEF Next

LEMMA ReachStep ==
  ASSUME IInv, [Next]_vars, NEW c \in Callers
  PROVE  EndsReach(c)'
<1> SUFFICES ASSUME Holds(c)', drops' = 0, NEW l \in Legs, Ended(leg'[l])
             PROVE  EndKnown(l)' \/ Unasked(c, l)' \/ Answered(c, l)'
  BY DEF EndsReach
<1>1. drops = 0 /\ connected
  BY DropsGrow
<1>2. CASE ~Holds(c)
  <2>1. pc'[c] = "query" /\ todo'[c] = <<"TP", "SL">> /\ purpose'[c] = "prepare"
    BY <1>2, HoldsBegins
  <2>2. Len(<<"TP", "SL">>) = 2 /\ <<"TP", "SL">>[1] = "TP" /\ <<"TP", "SL">>[2] = "SL"
    OBVIOUS
  <2>3. \E i \in 1 .. Len(todo'[c]) : todo'[c][i] = l
    BY <2>1, <2>2, LegFacts
  <2> QED
    BY <2>1, <2>3 DEF Unasked
<1>3. CASE ~Ended(leg[l])
  <2>1. Reported(l, leg[l])'
    BY <1>1, <1>3, EndsByLegEnds, LegEndsFacts
  <2> QED
    BY <2>1, EndedFacts DEF EndKnown
<1>4. CASE Holds(c) /\ Ended(leg[l])
  <2>1. EndKnown(l) \/ Unasked(c, l) \/ Answered(c, l)
    BY <1>1, <1>4 DEF IInv, EndsReach
  <2> QED
    BY <1>4, <2>1, EndStaysKnown, LookStays DEF EndKnown
<1> QED
  BY <1>2, <1>3, <1>4
-----------------------------------------------------------------------------
(***************************************************************************)
(* The group.                                                              *)
(***************************************************************************)
\* The step of a caller leaves the group alone, notes a fill, or closes the group.
LEMMA CallerGroup ==
  ASSUME IInv, NEW c \in Callers, CallerStep(c)
  PROVE  \/ UNCHANGED groupVars \/ CloseGroup(c) \/ EraseGroup(c)
         \/ \E l \in Legs : leg[l] = "FILLED" /\ FillNoted(c, l, "sibling")
<1>1. CASE WaitEnds(c) \/ FilledLegFound(c)
  <2>1. UNCHANGED groupVars \/ \E l \in FilledLegs : Complete(c, l)
    BY <1>1 DEF WaitEnds, FilledLegFound
  <2>2. \A l \in FilledLegs : l \in Legs /\ leg[l] = "FILLED"
    BY KnownIsTrue, EndedFacts DEF FilledLegs, Ends
  <2> QED
    BY <2>1, <2>2 DEF Complete
<1>2. CASE ~(WaitEnds(c) \/ FilledLegFound(c) \/ CloseGroup(c) \/ EraseGroup(c))
  BY <1>2 DEF CallerStep, CancelOther, Enter, Query, PublishAnswer, QueryFails, Interrupted,
       OtherRequested, SiblingWaitEnds, CancelFindsGroup, CancelLeg, Decide, Recovered,
       CancelWaitEnds, Confirmed, Wakes, Unchanged
<1> QED
  BY <1>1, <1>2

\* What happens to the group, whoever does it.
GroupMoves ==
  \/ UNCHANGED groupVars
  \/ \E t \in Threads : CloseGroup(t)
  \/ \E c \in Callers : EraseGroup(c)
  \/ \E t \in Threads, l \in Legs : leg[l] = "FILLED" /\ \E next : FillNoted(t, l, next)

LEMMA ReadFacts ==
  ASSUME IInv, ReadUpdate, Head(inbox)[2] = "FILLED"
  PROVE  Head(inbox)[1] \in Legs /\ leg[Head(inbox)[1]] = "FILLED" /\ FillNoted("runner", Head(inbox)[1], "publish")
<1>1. inbox # <<>> /\ FillNoted("runner", Head(inbox)[1], "publish")
  BY DEF ReadUpdate
<1>2. Head(inbox) = inbox[1] /\ 1 \in 1 .. Len(inbox) /\ inbox[1] \in Legs \X Ends
  BY <1>1 DEF IInv, TypeOK, ExchangeType
<1> QED
  BY <1>1, <1>2 DEF IInv, ReportsTrue

LEMMA GroupMovesStep ==
  ASSUME IInv, [Next]_vars
  PROVE  GroupMoves \/ (PlacementStep /\ ~EarlyFill)
<1>1. ASSUME NEW c \in Callers, CallerStep(c) PROVE GroupMoves
  BY <1>1, CallerGroup, ThreadFacts DEF GroupMoves
<1>2. CASE RunnerStep
  <2>1. CASE ReadUpdate
    <3>1. UNCHANGED groupVars \/ Head(inbox)[2] = "FILLED"
      BY <2>1 DEF ReadUpdate
    <3> QED
      BY <2>1, <3>1, ReadFacts, ThreadFacts DEF GroupMoves
  <2>2. CASE PublishUpdate \/ CancelOther("runner") \/ CloseGroup("runner")
    BY <2>2, ThreadFacts DEF PublishUpdate, CancelOther, GroupMoves
  <2> QED
    BY <1>2, <2>1, <2>2 DEF RunnerStep
<1>3. CASE EarlyFill
  <2>1. report["owner"] \in Legs /\ leg[report["owner"]] = "FILLED"
    BY <1>3, ThreadFacts DEF EarlyFill, IInv, ThreadTrue
  <2> QED
    BY <1>3, <2>1, ThreadFacts DEF EarlyFill, GroupMoves
<1>4. CASE LegEnds \/ StreamDrops \/ UserCancels \/ (\E c \in Callers : RequestStop(c)) \/ UNCHANGED vars
  BY <1>4 DEF LegEnds, StreamDrops, UserCancels, Unchanged, RequestStop, vars, GroupMoves
<1> QED
  BY <1>1, <1>2, <1>3, <1>4 DEF Next

LEMMA GroupMovesFacts ==
  ASSUME IInv, GroupMoves
  PROVE  /\ placingOcoOrderLinkIds' = placingOcoOrderLinkIds /\ (group' = "none" <=> group = "none")
         /\ group' \in {"none", "open", "closing", "erased"}
         /\ pendingOcoFilledOrderLinkIds \subseteq pendingOcoFilledOrderLinkIds'
         /\ placingOcoOrderLinkIds = {} => pendingOcoFilledOrderLinkIds' = pendingOcoFilledOrderLinkIds
         /\ \A l \in pendingOcoFilledOrderLinkIds' : l \in Legs /\ leg[l] = "FILLED"
         /\ lastError => lastError'
         /\ group \in {"closing", "erased"} => group' \in {"closing", "erased"} \/ lastError'
         /\ group' = "erased" => \/ group = "erased" \/ (\E c \in Callers : EraseGroup(c) /\ ~failed[c])
                                 \/ (\E t \in Threads : CloseGroup(t) /\ ~failed[t])
         /\ group' = "closing" => \/ group = "closing" /\ ~(\E t \in Threads : CloseGroup(t))
                                  \/ \E t \in Threads : pc'[t] = "other"
<1> USE DEF IInv, TypeOK, GroupType, LocalType
<1>1. \A l \in pendingOcoFilledOrderLinkIds : l \in Legs /\ leg[l] = "FILLED"
  BY DEF ReportsTrue
<1>2. ASSUME NEW t \in Threads, CloseGroup(t) PROVE group' # "closing"
  BY <1>2 DEF CloseGroup, GroupClosed
<1>3. CASE \E t \in Threads : CloseGroup(t)
  <2>1. PICK t \in Threads : CloseGroup(t)
    BY <1>3
  <2>2. UNCHANGED <<placingOcoOrderLinkIds, pendingOcoFilledOrderLinkIds>>
    BY <2>1 DEF CloseGroup
  <2>3. \/ group \in {"open", "closing"} /\ failed[t] /\ group' = "open" /\ lastError'
        \/ group \in {"open", "closing"} /\ ~failed[t] /\ group' = "erased" /\ (lastError => lastError')
        \/ group \notin {"open", "closing"} /\ UNCHANGED <<group, lastError>>
    BY <2>1 DEF CloseGroup, GroupClosed
  <2> QED
    BY <1>1, <2>1, <2>2, <2>3
<1>4. CASE UNCHANGED groupVars
  BY <1>1, <1>2, <1>4 DEF groupVars
<1>5. CASE \E c \in Callers : EraseGroup(c)
  <2>1. PICK c \in Callers : EraseGroup(c)
    BY <1>5
  <2>2. pc[c] = "erase" /\ UNCHANGED <<placingOcoOrderLinkIds, pendingOcoFilledOrderLinkIds, lastError>>
    BY <2>1 DEF EraseGroup
  <2>3. group' = group \/ (group \in {"open", "closing"} /\ group' = "erased" /\ ~failed[c])
    BY <2>1 DEF EraseGroup
  <2> QED
    BY <1>1, <1>2, <2>1, <2>2, <2>3
<1>6. CASE \E t \in Threads, l \in Legs : leg[l] = "FILLED" /\ \E next : FillNoted(t, l, next)
  <2>0. PICK t \in Threads, l \in Legs : leg[l] = "FILLED" /\ \E next : FillNoted(t, l, next)
    BY <1>6
  <2>1. PICK next : FillNoted(t, l, next)
    BY <2>0
  <2>2. /\ UNCHANGED <<placingOcoOrderLinkIds, lastError>> /\ group' = IF group = "open" THEN "closing" ELSE group
        /\ group = "open" => pc'[t] = "other"
        /\ pendingOcoFilledOrderLinkIds' \in {pendingOcoFilledOrderLinkIds, pendingOcoFilledOrderLinkIds \cup {l}}
        /\ placingOcoOrderLinkIds = {} => pendingOcoFilledOrderLinkIds' = pendingOcoFilledOrderLinkIds
    BY <2>1 DEF FillNoted
  <2> QED
    BY <1>1, <1>2, <2>0, <2>2
<1> QED
  BY <1>3, <1>4, <1>5, <1>6 DEF GroupMoves

\* A caller's step is not one of the placement.
LEMMA CallerOutside ==
  ASSUME IInv, NEW c \in Callers, CallerStep(c)
  PROVE  /\ pc[c] \notin Placing \cup {"idle", "early", "placed", "done"}
         /\ pc'[c] \notin Placing \cup {"idle", "early"}
<1>1. pc[c] \in WaitPlaces \cup {"enter", "other", "close"}
  BY DEF CallerStep, CancelOther, CloseGroup, Goto, Enter, Query, PublishAnswer, QueryFails, Interrupted,
       WaitEnds, FilledLegFound, OtherRequested, SiblingWaitEnds, CancelFindsGroup, CancelLeg, EraseGroup, Decide, Recovered,
       CancelWaitEnds, Confirmed, Wakes, WaitPlaces
<1>2. \E to \in WaitPlaces \cup {"other", "close", "placed", "done"} : pc' = [pc EXCEPT ![c] = to]
  <2>1. CASE PublishAnswer(c)
    <3>1. Continue(c) \in WaitPlaces /\ "query" \in WaitPlaces
      BY <2>1 DEF PublishAnswer, IInv, CallerTrue, Continue, WaitPlaces, Reasons
    <3> QED
      BY <2>1, <3>1 DEF PublishAnswer
  <2>2. CASE CancelOther(c) \/ CloseGroup(c)
    BY <2>2, ThreadFacts DEF CancelOther, CloseGroup, Goto, AfterClosing, WaitPlaces
  <2>3. CASE Enter(c) \/ Query(c) \/ QueryFails(c) \/ Interrupted(c) \/ OtherRequested(c) \/ SiblingWaitEnds(c)
    BY <2>3 DEF Enter, Query, Goto, QueryFails, Interrupted, OtherRequested, SiblingWaitEnds, Leave, Stay, Cancel, WaitPlaces
  <2>4. CASE WaitEnds(c) \/ FilledLegFound(c)
    BY <2>4 DEF WaitEnds, FilledLegFound, Complete, FillNoted, Leave, Cancel, Reconcile, WaitPlaces
  <2>5. CASE \/ CancelFindsGroup(c) \/ CancelLeg(c, "TP", "cancelTP", "cancelSL") \/ CancelLeg(c, "SL", "cancelSL", "erase")
             \/ EraseGroup(c) \/ Decide(c) \/ Recovered(c) \/ CancelWaitEnds(c) \/ Confirmed(c)
    BY <2>5 DEF CancelFindsGroup, CancelLeg, Goto, EraseGroup, Decide, Recovered, CancelWaitEnds, Confirmed, CancelThrows,
         Leave, Stay, Reconcile, WaitPlaces
  <2> QED
    BY <2>1, <2>2, <2>3, <2>4, <2>5 DEF CallerStep
<1>3. pc'[c] \in WaitPlaces \cup {"other", "close", "placed", "done"}
  BY <1>2, ThreadFacts DEF IInv, TypeOK, LocalType
<1> QED
  BY <1>1, <1>3 DEF WaitPlaces, Placing

\* Outside the placement the owner is neither placing the pair nor about to, before or after.
LEMMA OwnerOutside ==
  ASSUME IInv, [Next]_vars, ~PlacementStep
  PROVE  \/ pc'["owner"] = pc["owner"]
         \/ /\ pc["owner"] \notin Placing \cup {"idle", "early", "done"}
            /\ pc'["owner"] \notin Placing \cup {"idle", "early"}
<1>1. ExchangeGrows
  BY ExchangeStep
<1>2. ASSUME NEW c \in Callers, CallerStep(c), c # "owner" PROVE pc'["owner"] = pc["owner"]
  BY <1>1, <1>2, CallerStepMoves, ThreadFacts DEF ThreadMoves, SameThread
<1>3. CASE CallerStep("owner")
  BY <1>3, CallerOutside, ThreadFacts
<1>4. CASE RunnerStep
  BY <1>1, <1>4, RunnerStepMoves, ThreadFacts DEF ThreadMoves, SameThread
<1>5. CASE UserCancels
  BY <1>5, UserCancelsMoves, ThreadFacts DEF ThreadMoves, SameThread
<1>6. CASE LegEnds \/ StreamDrops \/ (\E c \in Callers : RequestStop(c)) \/ UNCHANGED vars
  BY <1>6 DEF LegEnds, StreamDrops, RequestStop, vars
<1> QED
  BY <1>2, <1>3, <1>4, <1>5, <1>6 DEF Next

\* Only the placement makes a leg that was not there.
LEMMA LegsAppear ==
  ASSUME IInv, [Next]_vars, ~PlacementStep, NEW l \in Legs, leg[l] = "none"
  PROVE  leg'[l] = "none"
<1>1. CASE LegEnds
  BY <1>1, LegEndsFacts
<1>2. ASSUME NEW c \in Callers, CallerStep(c) \/ RequestStop(c) PROVE UNCHANGED leg
    BY <1>2 DEF CallerStep, CancelOther, CloseGroup, Enter, Query, PublishAnswer, QueryFails, Interrupted,
       WaitEnds, FilledLegFound, OtherRequested, SiblingWaitEnds, CancelFindsGroup, CancelLeg, EraseGroup, Decide, Recovered,
       CancelWaitEnds, Confirmed, Wakes, Unchanged, CancelRequest, exchangeVars, RequestStop
<1>3. CASE RunnerStep \/ StreamDrops \/ UserCancels \/ UNCHANGED vars
  BY <1>3 DEF RunnerStep, ReadUpdate, PublishUpdate, CancelOther, CloseGroup, StreamDrops, UserCancels, Unchanged, vars,
       CancelRequest, exchangeVars
<1> QED
  BY <1>1, <1>2, <1>3 DEF Next

LEMMA ThrowIsTrue ==
  ASSUME IInv, pc["owner"] \in Placing, ThrowFromPlacement
  PROVE  PlacementTrue'
<1>1. group' = "none" /\ pc["user"] = "idle" /\ pc["runner"] \in {"read", "publish"}
  BY DEF ThrowFromPlacement, IInv, PlacementTrue
<1>2. pc' = [pc EXCEPT !["owner"] = "done"] /\ placingOcoOrderLinkIds' = {} /\ pendingOcoFilledOrderLinkIds' = {}
  BY DEF ThrowFromPlacement, ClearPlacement
<1>3. pc'["owner"] = "done" /\ pc'["user"] = pc["user"] /\ pc'["runner"] = pc["runner"]
  BY <1>2, ThreadFacts DEF IInv, TypeOK, LocalType
<1> QED
  BY <1>1, <1>2, <1>3 DEF PlacementTrue, Placing

LEMMA PlacementStepTrue ==
  ASSUME IInv, PlacementStep
  PROVE  PlacementTrue'
<1> USE ThreadFacts, LegFacts DEF IInv, TypeOK, LocalType, ExchangeType, PlacementTrue, Placing
<1>1. CASE RegisterPlacement
  BY <1>1 DEF RegisterPlacement, Goto, exchangeVars
<1>2. CASE PlaceTakeProfit
  <2>1. CASE PlaceLeg("TP") /\ pc' = [pc EXCEPT !["owner"] = "placeSL"] /\ UNCHANGED groupVars
    BY <1>2, <2>1 DEF PlaceTakeProfit, PlaceLeg, groupVars
  <2>2. CASE ThrowFromPlacement
    BY <1>2, <2>2, ThrowIsTrue DEF PlaceTakeProfit
  <2> QED
    BY <1>2, <2>1, <2>2 DEF PlaceTakeProfit
<1>3. CASE PlaceStopLoss
  BY <1>3 DEF PlaceStopLoss, PlaceLeg, Goto, groupVars
<1>4. CASE Rollback
  BY <1>4, ThrowIsTrue DEF Rollback
<1>5. CASE CreateGroup
  <2>1. /\ pc'["owner"] \in {"early", "placed"} /\ group' = "open"
        /\ placingOcoOrderLinkIds' = {} /\ pendingOcoFilledOrderLinkIds' = {}
    BY <1>5 DEF CreateGroup, ClearPlacement
  <2> QED
    BY <2>1
<1>6. CASE EarlyFill
  <2>1. /\ pc["owner"] = "early" /\ group # "none"
        /\ placingOcoOrderLinkIds = {} /\ pendingOcoFilledOrderLinkIds = {}
    BY <1>6 DEF EarlyFill
  <2>2. /\ pc'["owner"] \in {"other", "placed"} /\ group' # "none"
        /\ placingOcoOrderLinkIds' = {} /\ pendingOcoFilledOrderLinkIds' = {}
    BY <1>6, <2>1 DEF EarlyFill, FillNoted
  <2> QED
    BY <2>2
<1>7. CASE Placed
  <2>1. /\ pc["owner"] = "placed" /\ group # "none"
        /\ placingOcoOrderLinkIds = {} /\ pendingOcoFilledOrderLinkIds = {}
    BY <1>7 DEF Placed
  <2>2. /\ pc'["owner"] \in {"enter", "done"} /\ group' # "none"
        /\ placingOcoOrderLinkIds' = {} /\ pendingOcoFilledOrderLinkIds' = {}
    BY <1>7, <2>1 DEF Placed, groupVars
  <2> QED
    BY <2>2
<1> QED
  BY <1>1, <1>2, <1>3, <1>4, <1>5, <1>6, <1>7 DEF PlacementStep

LEMMA PlacementStays ==
  ASSUME IInv, [Next]_vars
  PROVE  PlacementTrue'
<1>1. CASE PlacementStep
  BY <1>1, PlacementStepTrue
<1>2. CASE ~PlacementStep
  <2>1. GroupMoves
    BY <1>2, GroupMovesStep
  <2>2. /\ placingOcoOrderLinkIds' = placingOcoOrderLinkIds /\ (group' = "none" <=> group = "none")
        /\ placingOcoOrderLinkIds = {} => pendingOcoFilledOrderLinkIds' = pendingOcoFilledOrderLinkIds
    BY <2>1, GroupMovesFacts
  <2>3. /\ pc'["owner"] \in Placing \cup {"idle"} => pc["owner"] = pc'["owner"]
        /\ pc["owner"] \in Placing => pc["owner"] = pc'["owner"]
    BY <1>2, OwnerOutside
  <2>4. /\ pc'["owner"] \in {"idle", "placeTP"} => leg'["TP"] = "none"
        /\ pc'["owner"] \in {"idle", "placeTP", "placeSL"} => leg'["SL"] = "none"
    BY <1>2, <2>3, LegsAppear, LegFacts DEF IInv, PlacementTrue, Placing
  <2>5. ASSUME group = "none"
        PROVE  /\ pc'["owner"] \in Placing \cup {"idle", "done"} /\ pc'["user"] = "idle"
               /\ pc'["runner"] \in {"read", "publish"}
    <3>1. /\ pc["owner"] \in Placing \cup {"idle", "done"} /\ pc["user"] = "idle"
          /\ pc["runner"] \in {"read", "publish"}
      BY <2>5 DEF IInv, PlacementTrue
    <3>2. pc'["owner"] = pc["owner"]
      BY <1>2, <3>1, OwnerOutside
    <3>3. ~UserCancels /\ ~(\E c \in Callers : CallerStep(c))
      BY <3>1, CallerOutside, ThreadFacts DEF UserCancels, Placing
    <3>4. CASE RunnerStep
      <4>1. ReadUpdate \/ PublishUpdate
        BY <3>1, <3>4 DEF RunnerStep, CancelOther, CloseGroup, Goto
      <4>2. pc' = pc \/ pc' = [pc EXCEPT !["runner"] = "publish"] \/ pc' = [pc EXCEPT !["runner"] = "read"]
        BY <2>5, <4>1 DEF ReadUpdate, PublishUpdate, FillNoted, Goto
      <4> QED
        BY <3>1, <3>2, <4>2, ThreadFacts DEF IInv, TypeOK, LocalType
    <3>5. CASE ~RunnerStep
      <4>1. UNCHANGED pc
        BY <1>2, <3>3, <3>5 DEF Next, LegEnds, StreamDrops, RequestStop, vars
      <4> QED
        BY <3>1, <4>1
    <3> QED
      BY <3>4, <3>5
  <2> QED
    BY <2>2, <2>3, <2>4, <2>5 DEF IInv, PlacementTrue, Placing
<1> QED
  BY <1>1, <1>2

\* The stream: what is not read is still on its way, and what is not down is up.
LEMMA InboxStays ==
  ASSUME IInv, [Next]_vars
  PROVE  ReadUpdate \/ LegEnds \/ StreamDrops \/ UNCHANGED inbox
<1>1. ASSUME NEW c \in Callers, CallerStep(c) \/ RequestStop(c) PROVE UNCHANGED inbox
    BY <1>1 DEF CallerStep, CancelOther, CloseGroup, Enter, Query, PublishAnswer, QueryFails, Interrupted,
       WaitEnds, FilledLegFound, OtherRequested, SiblingWaitEnds, CancelFindsGroup, CancelLeg, EraseGroup, Decide, Recovered,
       CancelWaitEnds, Confirmed, Wakes, Unchanged, CancelRequest, exchangeVars, RequestStop
<1>2. CASE PlacementStep \/ UserCancels \/ UNCHANGED vars
  BY <1>2 DEF PlacementStep, RegisterPlacement, PlaceTakeProfit, PlaceStopLoss, Rollback, CreateGroup, EarlyFill,
       Placed, CancelRequest, UserCancels, Unchanged, vars, exchangeVars
<1>3. CASE RunnerStep /\ ~ReadUpdate
  BY <1>3 DEF RunnerStep, PublishUpdate, CancelOther, CloseGroup, CancelRequest, exchangeVars
<1> QED
  BY <1>1, <1>2, <1>3 DEF Next

LEMMA StreamStays ==
  ASSUME IInv, [Next]_vars
  PROVE  drops' = 0 => connected'
<1> SUFFICES ASSUME drops' = 0 PROVE connected'
  OBVIOUS
<1>1. connected /\ ~StreamDrops
  BY DropsGrow
<1>2. ASSUME NEW c \in Callers, CallerStep(c) \/ RequestStop(c) PROVE connected' = connected \/ connected' = TRUE
    BY <1>2 DEF CallerStep, CancelOther, CloseGroup, Enter, Query, PublishAnswer, QueryFails, Interrupted,
       WaitEnds, FilledLegFound, OtherRequested, SiblingWaitEnds, CancelFindsGroup, CancelLeg, EraseGroup, Decide, Recovered,
       CancelWaitEnds, Confirmed, Wakes, Unchanged, streamVars, RequestStop
<1>3. CASE PlacementStep \/ UserCancels \/ LegEnds \/ RunnerStep \/ UNCHANGED vars
  <2>1. UNCHANGED connected
    BY <1>3 DEF PlacementStep, RegisterPlacement, PlaceTakeProfit, PlaceStopLoss, Rollback, CreateGroup, EarlyFill,
       Placed, UserCancels, Unchanged, vars, LegEnds, RunnerStep, ReadUpdate, PublishUpdate, CancelOther, CloseGroup, streamVars
  <2> QED
    BY <1>1, <2>1
<1> QED
  BY <1>1, <1>2, <1>3 DEF Next

LEMMA GroupTypeStays ==
  ASSUME IInv, [Next]_vars
  PROVE  GroupType' /\ (\A l \in pendingOcoFilledOrderLinkIds' : leg'[l] = "FILLED")
<1>1. ExchangeGrows
  BY ExchangeStep
<1>2. \A l \in Legs : leg[l] = "FILLED" => leg'[l] = "FILLED"
  BY <1>1, EndedFacts DEF ExchangeGrows, Ends
<1>3. dropped' \subseteq Legs
  <2>1. CASE PublishUpdate
    <3>1. report["runner"] \in Legs
      BY <2>1, ThreadFacts DEF PublishUpdate, Goto, IInv, ThreadTrue
    <3> QED
      BY <2>1, <3>1 DEF PublishUpdate, IInv, TypeOK, GroupType
  <2>2. ASSUME NEW c \in Callers, CallerStep(c) \/ RequestStop(c) PROVE UNCHANGED dropped
      BY <2>2 DEF CallerStep, CancelOther, CloseGroup, Enter, Query, PublishAnswer, QueryFails, Interrupted,
         WaitEnds, FilledLegFound, OtherRequested, SiblingWaitEnds, CancelFindsGroup, CancelLeg, EraseGroup, Decide, Recovered,
         CancelWaitEnds, Confirmed, Wakes, Unchanged, RequestStop
  <2>3. CASE LegEnds \/ StreamDrops \/ PlacementStep \/ (RunnerStep /\ ~PublishUpdate) \/ UserCancels \/ UNCHANGED vars
    BY <2>3 DEF LegEnds, StreamDrops, PlacementStep, RegisterPlacement, PlaceTakeProfit, PlaceStopLoss, Rollback, CreateGroup,
         EarlyFill, Placed, RunnerStep, ReadUpdate, CancelOther, CloseGroup, UserCancels, Unchanged, vars, IInv, TypeOK, GroupType
  <2> QED
    BY <2>1, <2>2, <2>3 DEF Next, IInv, TypeOK, GroupType
<1>4. CASE GroupMoves
  <2>1. placingOcoOrderLinkIds' \subseteq Legs /\ group' \in {"none", "open", "closing", "erased"}
    BY <1>4, GroupMovesFacts DEF IInv, TypeOK, GroupType
  <2>2. \A l \in pendingOcoFilledOrderLinkIds' : l \in Legs /\ leg[l] = "FILLED"
    BY <1>4, GroupMovesFacts
  <2> QED
    BY <1>2, <1>3, <2>1, <2>2 DEF GroupType
<1>5. CASE PlacementStep /\ ~EarlyFill
  <2>1. /\ placingOcoOrderLinkIds' \in {placingOcoOrderLinkIds, {}, Legs} /\ group' \in {group, "open"}
        /\ pendingOcoFilledOrderLinkIds' \in {pendingOcoFilledOrderLinkIds, {}}
    BY <1>5 DEF PlacementStep, RegisterPlacement, PlaceTakeProfit, PlaceStopLoss, Rollback, CreateGroup,
         Placed, ThrowFromPlacement, ClearPlacement, groupVars
  <2> QED
    BY <1>2, <1>3, <2>1 DEF IInv, TypeOK, GroupType, ReportsTrue
<1> QED
  BY <1>4, <1>5, GroupMovesStep

LEMMA GroupStays ==
  ASSUME IInv, [Next]_vars
  PROVE  GroupTrue'
<1>1. ExchangeGrows
  BY ExchangeStep
<1>2. CASE GroupMoves
  <2>1. ForgottenPairIsClosed'
    <3> SUFFICES ASSUME group' = "erased" PROVE \A l \in Legs : Closed(l)'
      BY DEF ForgottenPairIsClosed, Closed
    <3>1. CASE group = "erased"
      BY <1>1, <3>1 DEF IInv, GroupTrue, ForgottenPairIsClosed, ExchangeGrows, Closed
    <3>2. ASSUME NEW c \in Callers, EraseGroup(c), ~failed[c] PROVE \A l \in Legs : Closed(l)'
      BY <1>1, <3>2, ThreadFacts, LegFacts DEF EraseGroup, IInv, ThreadTrue, ExchangeGrows
    <3>3. ASSUME NEW t \in Threads, CloseGroup(t), ~failed[t] PROVE \A l \in Legs : Closed(l)'
      <4>1. report[t] \in Legs /\ leg[report[t]] = "FILLED" /\ Closed(Other(report[t]))
        BY <3>3 DEF CloseGroup, IInv, ThreadTrue
      <4>2. \A l \in Legs : l = report[t] \/ l = Other(report[t])
        BY <4>1 DEF Legs, Other
      <4>3. \A l \in Legs : Closed(l)
        BY <4>1, <4>2 DEF Closed, Ended
      <4> QED
        BY <1>1, <4>3 DEF ExchangeGrows
    <3> QED
      BY <1>2, <3>1, <3>2, <3>3, GroupMovesFacts
  <2>2. ASSUME group' = "closing" PROVE \E t \in Threads : pc'[t] \in {"other", "close"}
    <3>1. CASE \E t \in Threads : pc'[t] = "other"
      BY <3>1
    <3>2. CASE group = "closing" /\ ~(\E t \in Threads : CloseGroup(t))
      <4>1. PICK t \in Threads : pc[t] \in {"other", "close"}
        BY <3>2 DEF IInv, GroupTrue
      <4>2. ASSUME CancelOther(t) PROVE pc'[t] = "close"
        BY <4>2 DEF CancelOther, Goto, IInv, TypeOK, LocalType
      <4>3. CASE SameThread(t)
        BY <4>1, <4>3 DEF SameThread
      <4>4. ASSUME NEW u \in Threads, ThreadMoves(u), u # t PROVE SameThread(t)
        BY <4>4 DEF ThreadMoves
      <4>5. ASSUME NEW c \in Callers, CallerStep(c) PROVE SameThread(t) \/ CancelOther(t)
        <5>1. CASE c = t
          BY <3>2, <4>1, <4>5, <5>1, ThreadFacts DEF CallerStep, Goto, Enter, Query, PublishAnswer, QueryFails, Interrupted,
            WaitEnds, FilledLegFound, OtherRequested, SiblingWaitEnds, CancelFindsGroup, CancelLeg, EraseGroup, Decide, Recovered,
            CancelWaitEnds, Confirmed, Wakes
        <5>2. CASE c # t
          BY <1>1, <4>4, <4>5, <5>2, CallerStepMoves, ThreadFacts
        <5> QED
          BY <5>1, <5>2
      <4>6. CASE RunnerStep
        <5>1. CASE t = "runner"
          BY <3>2, <4>1, <4>2, <4>6, <5>1 DEF RunnerStep, ReadUpdate, PublishUpdate, Goto
        <5>2. CASE t # "runner"
          BY <1>1, <4>3, <4>4, <4>6, <5>2, RunnerStepMoves, ThreadFacts
        <5> QED
          BY <5>1, <5>2
      <4>7. CASE PlacementStep
        <5>1. t # "owner"
          BY <4>1, <4>7 DEF PlacementStep, RegisterPlacement, PlaceTakeProfit, PlaceStopLoss, Rollback, CreateGroup,
               EarlyFill, Placed, Goto
        <5> QED
          BY <1>1, <4>3, <4>4, <4>7, <5>1, PlacementStepMoves, ThreadFacts
      <4>8. CASE UserCancels
        <5>1. t # "user"
          BY <4>1, <4>8 DEF UserCancels, Goto
        <5> QED
          BY <4>3, <4>4, <4>8, <5>1, UserCancelsMoves, ThreadFacts
      <4>9. CASE LegEnds \/ StreamDrops \/ (\E c \in Callers : RequestStop(c)) \/ UNCHANGED vars
        BY <4>3, <4>9 DEF LegEnds, StreamDrops, RequestStop, vars, closeVars, SameThread
      <4> QED
        BY <4>2, <4>3, <4>5, <4>6, <4>7, <4>8, <4>9 DEF Next
    <3> QED
      BY <1>2, <2>2, <3>1, <3>2, GroupMovesFacts
  <2> QED
    BY <2>1, <2>2, StreamStays DEF GroupTrue
<1>3. CASE PlacementStep /\ ~EarlyFill
  <2>1. CASE group' = "open"
    BY <2>1, StreamStays DEF GroupTrue, ForgottenPairIsClosed
  <2>2. CASE UNCHANGED group
    <3>1. ForgottenPairIsClosed'
      BY <1>1, <2>2 DEF IInv, GroupTrue, ForgottenPairIsClosed, ExchangeGrows, Closed
    <3>2. ASSUME group' = "closing" PROVE \E t \in Threads : pc'[t] \in {"other", "close"}
      <4>1. PICK t \in Threads : pc[t] \in {"other", "close"}
        BY <2>2, <3>2 DEF IInv, GroupTrue
      <4>2. t # "owner"
        BY <1>3, <4>1 DEF PlacementStep, RegisterPlacement, PlaceTakeProfit, PlaceStopLoss, Rollback, CreateGroup, Placed, Goto
      <4> QED
        BY <1>1, <1>3, <4>1, <4>2, PlacementStepMoves DEF ThreadMoves, SameThread
    <3> QED
      BY <3>1, <3>2, StreamStays DEF GroupTrue
  <2> QED
    BY <1>3, <2>1, <2>2 DEF PlacementStep, RegisterPlacement, PlaceTakeProfit, PlaceStopLoss, Rollback, CreateGroup,
         Placed, ThrowFromPlacement, groupVars
<1> QED
  BY <1>2, <1>3, GroupMovesStep

LEMMA FillStaysHeld ==
  ASSUME IInv, [Next]_vars, NEW l \in Legs
  PROVE  FillHeld(l)'
<1> SUFFICES ASSUME drops' = 0, leg'[l] = "FILLED", group' # "none" \/ pc'["owner"] \in Placing
             PROVE  \/ Reported(l, "FILLED")' \/ l \in pendingOcoFilledOrderLinkIds' \/ pc'["owner"] = "early"
                    \/ group' \in {"closing", "erased"} \/ lastError' \/ Closed(Other(l))'
  BY DEF FillHeld
<1>1. ExchangeGrows /\ drops = 0 /\ connected /\ ~StreamDrops
  BY ExchangeStep, DropsGrow
<1>2. CASE leg[l] # "FILLED"
  <2>1. Ended(leg'[l]) /\ leg'[l] # leg[l]
    BY <1>2 DEF Ended
  <2>2. ~Ended(leg[l])
    BY <1>1, <2>1 DEF ExchangeGrows
  <2>3. Reported(l, leg[l])'
    BY <1>1, <2>1, <2>2, EndsByLegEnds, LegEndsFacts
  <2>4. Reported(l, "FILLED")'
    BY <2>3 DEF Reported
  <2> QED
    BY <2>4
<1>3. CASE leg[l] = "FILLED"
  <2>1. Closed(Other(l)) => Closed(Other(l))'
    BY <1>1, LegFacts DEF ExchangeGrows
  <2>2. group # "none" \/ pc["owner"] \in Placing
    <3>1. CASE ~PlacementStep
      BY <3>1, GroupMovesStep, GroupMovesFacts, OwnerOutside
    <3>2. CASE PlacementStep
      <4>1. ~RegisterPlacement
        BY <1>3, LegFacts DEF RegisterPlacement, Goto, IInv, PlacementTrue
      <4>2. CASE EarlyFill \/ Placed
        BY <4>2 DEF EarlyFill, Placed, IInv, PlacementTrue, Placing
      <4>3. CASE PlaceTakeProfit \/ PlaceStopLoss \/ Rollback \/ CreateGroup
        BY <4>3 DEF PlaceTakeProfit, PlaceStopLoss, Rollback, CreateGroup, Goto, Placing
      <4> QED
        BY <3>2, <4>1, <4>2, <4>3 DEF PlacementStep
    <3> QED
      BY <3>1, <3>2
  <2>3. \/ Reported(l, "FILLED") \/ l \in pendingOcoFilledOrderLinkIds \/ pc["owner"] = "early"
        \/ group \in {"closing", "erased"} \/ lastError \/ Closed(Other(l))
    BY <1>1, <1>3, <2>2 DEF IInv, FillHeld
  <2>4. CASE GroupMoves
    <3>1. CASE l \in pendingOcoFilledOrderLinkIds \/ group \in {"closing", "erased"} \/ lastError
      BY <2>4, <3>1, GroupMovesFacts
    <3>2. CASE pc["owner"] = "early"
      <4>1. CASE PlacementStep
        <5>1. EarlyFill
          BY <3>2, <4>1 DEF PlacementStep, RegisterPlacement, PlaceTakeProfit, PlaceStopLoss, Rollback, CreateGroup, Placed, Goto
        <5>2. group # "none"
          BY <3>2 DEF IInv, PlacementTrue, Placing
        <5> QED
          BY <5>1, <5>2 DEF EarlyFill, FillNoted, IInv, TypeOK, GroupType
      <4>2. CASE ~PlacementStep
        BY <3>2, <4>2, OwnerOutside
      <4> QED
        BY <4>1, <4>2
    <3>3. CASE Reported(l, "FILLED")
      <4>1. PICK i \in 1 .. Len(inbox) : inbox[i] = <<l, "FILLED">>
        BY <3>3 DEF Reported
      <4>2. CASE ReadUpdate
        <5>1. inbox \in Seq(Legs \X Ends) /\ inbox' = Tail(inbox) /\ inbox # <<>>
          BY <4>2 DEF ReadUpdate, IInv, TypeOK, ExchangeType
        <5>2. CASE i > 1
          <6>1. inbox'[i - 1] = <<l, "FILLED">> /\ i - 1 \in 1 .. Len(inbox')
            BY <4>1, <5>1, <5>2
          <6> QED
            BY <6>1 DEF Reported
        <5>3. CASE i = 1
          <6>1. Head(inbox)[1] = l /\ Head(inbox)[2] = "FILLED"
            BY <4>1, <5>1, <5>3
          <6>2. FillNoted("runner", l, "publish")
            BY <4>2, <6>1, ReadFacts
          <6>3. group = "none" => l \in placingOcoOrderLinkIds
            BY <2>2 DEF IInv, PlacementTrue
          <6> QED
            BY <6>2, <6>3 DEF FillNoted, IInv, TypeOK, GroupType
        <5> QED
          BY <5>2, <5>3
      <4>3. CASE LegEnds
        BY <3>3, <4>3, LegEndsFacts DEF Ends
      <4>4. CASE UNCHANGED inbox
        BY <3>3, <4>4 DEF Reported
      <4> QED
        BY <1>1, <4>2, <4>3, <4>4, InboxStays
    <3> QED
      BY <2>1, <2>3, <3>1, <3>2, <3>3
  <2>5. CASE PlacementStep /\ ~EarlyFill
    <3>1. UNCHANGED inbox
      BY <2>5, InboxStays DEF PlacementStep, RegisterPlacement, PlaceTakeProfit, PlaceStopLoss, Rollback, CreateGroup,
           Placed, CancelRequest, exchangeVars
    <3>2. Reported(l, "FILLED") => Reported(l, "FILLED")'
      BY <3>1 DEF Reported
    <3>3. CASE CreateGroup
      <4>1. group = "none" /\ pc["owner"] = "createGroup"
        BY <3>3 DEF CreateGroup, IInv, PlacementTrue, Placing
      <4>2. l \in pendingOcoFilledOrderLinkIds => pc'["owner"] = "early"
        BY <3>3, ThreadFacts DEF CreateGroup, IInv, TypeOK, LocalType
      <4>3. UNCHANGED lastError
        BY <3>3 DEF CreateGroup
      <4> QED
        BY <2>1, <2>3, <3>2, <4>1, <4>2, <4>3
    <3>4. CASE ThrowFromPlacement /\ pc["owner"] \in Placing
      <4>1. group' = "none" /\ pc'["owner"] = "done"
        BY <3>4, ThreadFacts DEF ThrowFromPlacement, IInv, PlacementTrue, TypeOK, LocalType
      <4> QED
        BY <4>1 DEF Placing
    <3>5. CASE UNCHANGED <<group, lastError, pendingOcoFilledOrderLinkIds>> /\ pc["owner"] # "early"
      BY <2>1, <2>3, <3>2, <3>5
    <3> QED
      BY <2>5, <3>3, <3>4, <3>5 DEF PlacementStep, RegisterPlacement, PlaceTakeProfit, PlaceStopLoss, Rollback, Placed, Goto,
           groupVars, Placing
  <2> QED
    BY <2>4, <2>5, GroupMovesStep
<1> QED
  BY <1>2, <1>3
-----------------------------------------------------------------------------
(***************************************************************************)
(* What the calls return.                                                  *)
(***************************************************************************)
LEMMA LeaveResult ==
  ASSUME IInv, NEW c \in Callers, NEW outcome, Leave(c, outcome)
  PROVE  result'[c] = outcome /\ \A d \in Callers \ {c} : result'[d] = result[d]
  BY DEF Leave, IInv, TypeOK, LocalType

LEMMA CallerResult ==
  ASSUME IInv, NEW c \in Callers, CallerStep(c)
  PROVE  \/ result'[c] = result[c] \/ result'[c] \in {"threw", "interrupted"}
         \/ result'[c] = "terminal" /\ KnownEnded
         \/ /\ report[c] \in Legs /\ leg[report[c]] = "FILLED" /\ leg[Other(report[c])] = "CANCELED"
            /\ result'[c] = IF c = "user" THEN "terminal" ELSE "filled"
<1>1. CASE SiblingWaitEnds(c)
  <2>1. pc[c] = "waitSibling"
    BY <1>1 DEF SiblingWaitEnds, Wakes
  <2>2. report[c] \in Legs /\ leg[report[c]] = "FILLED" /\ Other(report[c]) \in Legs
    BY <2>1, ThreadFacts, LegFacts DEF IInv, ThreadTrue
  <2>3. entry[Other(report[c])].info = "CANCELED" => leg[Other(report[c])] = "CANCELED"
    BY <2>2, KnownIsTrue DEF Ended
  <2>4. \/ Cancel(c, "cleanup") \/ Leave(c, "threw")
        \/ /\ entry[Other(report[c])].info = "CANCELED"
           /\ Leave(c, IF c = "user" THEN "terminal" ELSE "filled")
    BY <1>1 DEF SiblingWaitEnds
  <2> QED
    BY <2>2, <2>3, <2>4, LeaveResult DEF Cancel
<1>2. CASE Decide(c) \/ Recovered(c) \/ CancelWaitEnds(c) \/ Confirmed(c)
  <2>1. Leave(c, "threw") \/ (Leave(c, "terminal") /\ KnownEnded) \/ UNCHANGED result
    BY <1>2 DEF Decide, Recovered, CancelWaitEnds, Confirmed, Stay, Reconcile, callVars
  <2> QED
    BY <2>1, LeaveResult
<1>3. CASE \/ CancelOther(c) \/ CloseGroup(c) \/ Query(c) \/ PublishAnswer(c) \/ OtherRequested(c)
           \/ CancelLeg(c, "TP", "cancelTP", "cancelSL") \/ CancelLeg(c, "SL", "cancelSL", "erase")
  BY <1>3 DEF CancelOther, CloseGroup, Query, PublishAnswer, OtherRequested, CancelLeg, Stay, callVars
<1>4. CASE Enter(c)
  BY <1>4 DEF Enter, IInv, TypeOK, LocalType
<1>5. CASE QueryFails(c) \/ Interrupted(c) \/ WaitEnds(c) \/ FilledLegFound(c) \/ CancelFindsGroup(c) \/ EraseGroup(c)
  <2>1. Leave(c, "threw") \/ Leave(c, "interrupted") \/ UNCHANGED result
    BY <1>5 DEF QueryFails, Interrupted, WaitEnds, FilledLegFound, CancelFindsGroup, EraseGroup, CancelThrows, Stay, Reconcile,
         Cancel, Complete, callVars
  <2> QED
    BY <2>1, LeaveResult
<1> QED
  BY <1>1, <1>2, <1>3, <1>4, <1>5 DEF CallerStep

LEMMA AnswersStayTrue ==
  ASSUME IInv, [Next]_vars
  PROVE  AnswersAreTrue'
<1>1. ExchangeGrows
  BY ExchangeStep
<1>2. \A l \in Legs : Ended(leg[l]) => leg'[l] = leg[l]
  BY <1>1 DEF ExchangeGrows
<1>3. result["owner"] = "filled" => \E l \in Legs : leg'[l] = "FILLED" /\ leg'[Other(l)] = "CANCELED"
  BY <1>2, LegFacts DEF IInv, AnswersAreTrue, Ended
<1>4. result["user"] = "terminal" => \A l \in Legs : Ended(leg'[l])
  BY <1>2 DEF IInv, AnswersAreTrue
<1>5. ASSUME \A c \in Callers : result'[c] = result[c] \/ result'[c] \in {"threw", "interrupted"} PROVE AnswersAreTrue'
  BY <1>3, <1>4, <1>5, ThreadFacts DEF AnswersAreTrue
<1>6. ASSUME NEW c \in Callers, CallerStep(c) PROVE AnswersAreTrue'
  <2>1. \A d \in Callers \ {c} : result'[d] = result[d]
    BY <1>1, <1>6, CallerStepMoves DEF ThreadMoves, SameCaller
  <2>2. CASE result'[c] = result[c] \/ result'[c] \in {"threw", "interrupted"}
    BY <1>5, <2>1, <2>2
  <2>3. CASE result'[c] = "terminal" /\ KnownEnded
    <3>1. \A l \in Legs : Ended(leg'[l])
      BY <1>2, <2>3, KnownIsTrue DEF KnownEnded
    <3> QED
      BY <1>3, <1>4, <2>1, <2>3, <3>1, ThreadFacts DEF AnswersAreTrue
  <2>4. CASE /\ report[c] \in Legs /\ leg[report[c]] = "FILLED" /\ leg[Other(report[c])] = "CANCELED"
             /\ result'[c] = IF c = "user" THEN "terminal" ELSE "filled"
    <3>1. Other(report[c]) \in Legs /\ leg'[report[c]] = "FILLED" /\ leg'[Other(report[c])] = "CANCELED"
      BY <1>2, <2>4, LegFacts DEF Ended
    <3>2. \A l \in Legs : l = report[c] \/ l = Other(report[c])
      BY <2>4 DEF Legs, Other
    <3>3. \A l \in Legs : Ended(leg'[l])
      BY <3>1, <3>2 DEF Ended
    <3> QED
      BY <1>3, <1>4, <2>1, <2>4, <3>1, <3>3, ThreadFacts DEF AnswersAreTrue
  <2> QED
    BY <1>6, <2>2, <2>3, <2>4, CallerResult
<1>7. CASE \/ LegEnds \/ StreamDrops \/ RunnerStep \/ UserCancels \/ UNCHANGED vars
           \/ (\E c \in Callers : RequestStop(c))
  <2>1. UNCHANGED result
    BY <1>7 DEF LegEnds, StreamDrops, RunnerStep, ReadUpdate, PublishUpdate, CancelOther, CloseGroup, UserCancels, vars,
         RequestStop, callVars
  <2> QED
    BY <1>5, <2>1
<1>8. CASE PlacementStep
  <2>1. UNCHANGED result \/ result' = [result EXCEPT !["owner"] = "threw"]
    BY <1>8 DEF PlacementStep, RegisterPlacement, PlaceTakeProfit, PlaceStopLoss, Rollback, CreateGroup, EarlyFill,
         Placed, ThrowFromPlacement, callVars
  <2> QED
    BY <1>5, <2>1, ThreadFacts DEF IInv, TypeOK, LocalType
<1> QED
  BY <1>6, <1>7, <1>8 DEF Next
-----------------------------------------------------------------------------
LEMMA InitInv == Init => IInv
<1> SUFFICES ASSUME Init PROVE IInv
  OBVIOUS
<1>1. TypeOK
  BY ThreadFacts DEF Init, TypeOK, ExchangeType, GroupType, EntryType, LocalType, Entry, Statuses, Ends, CallerPlaces,
       RunnerPlaces, WaitPlaces, Placing, Purposes
<1>2. ReportsTrue /\ PlacementTrue /\ GroupTrue /\ AnswersAreTrue
  BY ThreadFacts, LegFacts DEF Init, ReportsTrue, PlacementTrue, GroupTrue, ForgottenPairIsClosed, AnswersAreTrue, Ended,
       Placing
<1>3. \A c \in Callers : pc[c] = "idle" /\ ~Holds(c)
  BY ThreadFacts DEF Init, Holds, WaitPlaces
<1>4. CountTrue
  BY <1>3, ThreadFacts DEF Init, CountTrue
<1>5. \A t \in Threads : ThreadTrue(t)
  BY ThreadFacts DEF Init, ThreadTrue
<1>6. \A c \in Callers : CallerTrue(c) /\ EndsReach(c)
  BY <1>3 DEF CallerTrue, EndsReach, WaitPlaces, Placing
<1>7. \A l \in Legs : FillHeld(l)
  BY DEF Init, FillHeld
<1> QED
  BY <1>1, <1>2, <1>4, <1>5, <1>6, <1>7 DEF IInv

LEMMA StepInv == IInv /\ [Next]_vars => IInv'
<1> SUFFICES ASSUME IInv, [Next]_vars PROVE IInv'
  OBVIOUS
<1>1. ExchangeGrows /\ TableGrows
  BY ExchangeStep, TableStep
<1>2. GroupType' /\ (\A l \in pendingOcoFilledOrderLinkIds' : leg'[l] = "FILLED")
  BY GroupTypeStays
<1>3. LocalType' /\ (\A t \in Threads : ThreadTrue(t)') /\ (\A c \in Callers : CallerTrue(c)')
  BY LocalStep
<1>4. TypeOK' /\ ReportsTrue' /\ CountTrue'
  BY <1>1, <1>2, <1>3 DEF TypeOK, ReportsTrue, ExchangeGrows, TableGrows
<1>5. PlacementTrue' /\ GroupTrue' /\ AnswersAreTrue'
  BY PlacementStays, GroupStays, AnswersStayTrue
<1>6. (\A c \in Callers : EndsReach(c)') /\ (\A l \in Legs : FillHeld(l)')
  BY ReachStep, FillStaysHeld
<1> QED
  BY <1>3, <1>4, <1>5, <1>6 DEF IInv

\* Every reachable state satisfies the invariant.
THEOREM InvariantHolds == Spec => []IInv
<1>1. IInv /\ UNCHANGED vars => IInv'
  BY StepInv
<1> QED
  BY InitInv, StepInv, PTL DEF Spec

(***************************************************************************)
(* ocoGroups forgets a pair only when each leg has ended or is being       *)
(* cancelled, whoever closed the group: the runner, the owner or the user. *)
(***************************************************************************)
THEOREM ForgottenPairsAreClosed == Spec => []ForgottenPairIsClosed
<1>1. IInv => ForgottenPairIsClosed
  BY DEF IInv, GroupTrue
<1> QED
  BY <1>1, InvariantHolds, PTL

(***************************************************************************)
(* waitUntilOcoOrderFilled returns only for a filled leg beside an         *)
(* unfilled one that ended, and cancelOcoAndWaitUntilTerminal only when    *)
(* both legs ended.                                                        *)
(***************************************************************************)
THEOREM AnswersHold == Spec => []AnswersAreTrue
<1>1. IInv => AnswersAreTrue
  BY DEF IInv
<1> QED
  BY <1>1, InvariantHolds, PTL

(***************************************************************************)
(* While the stream is up, a fill closes a placed pair, whether it comes   *)
(* before createOcoGroup or after, and whether somebody waits for it or    *)
(* nobody; if the other leg cannot be cancelled, the group says so.        *)
(***************************************************************************)
THEOREM FillsClosePairs == Spec => []FillClosesPair
<1>1. ASSUME IInv PROVE FillClosesPair
  <2> SUFFICES ASSUME Quiet, group # "none", drops = 0, NEW l \in Legs, leg[l] = "FILLED"
               PROVE  Ended(leg[Other(l)]) \/ Other(l) \in cancelling \/ lastError
    BY DEF FillClosesPair
  <2>1. pc["runner"] = "read" /\ inbox = <<>> /\ \A c \in Callers : pc[c] \in {"idle", "done", "wait", "waitAll", "waitSibling"}
    BY DEF Quiet, Asleep, Waiting
  <2>2. pc["owner"] # "early" /\ pc["owner"] \notin Placing
    BY <2>1, ThreadFacts DEF Placing
  <2>3. ~Reported(l, "FILLED")
    BY <2>1 DEF Reported
  <2>4. group # "closing"
    BY <1>1, <2>1, ThreadFacts DEF IInv, GroupTrue
  <2>5. group = "erased" => Closed(Other(l))
    BY <1>1, LegFacts DEF IInv, GroupTrue, ForgottenPairIsClosed, Closed
  <2>6. l \notin pendingOcoFilledOrderLinkIds
    BY <1>1, <2>2 DEF IInv, PlacementTrue
  <2> QED
    BY <1>1, <2>2, <2>3, <2>4, <2>5, <2>6 DEF IInv, FillHeld, Closed
<1> QED
  BY <1>1, InvariantHolds, PTL

(***************************************************************************)
(* While the stream is up, no wait sleeps on a pair that has ended, unless *)
(* handleOrderUpdate dropped the fill.                                     *)
(***************************************************************************)
THEOREM NobodySleeps == Spec => []NobodySleepsOnEndedPair
<1>1. ASSUME IInv PROVE NobodySleepsOnEndedPair
  <2> SUFFICES ASSUME Quiet, drops = 0, dropped = {}, \A l \in Legs : Ended(leg[l]), NEW c \in Callers, Waiting(c)
               PROVE  FALSE
    BY DEF NobodySleepsOnEndedPair
  <2>1. pc["runner"] = "read" /\ inbox = <<>> /\ pc[c] \in {"wait", "waitAll", "waitSibling"} /\ ~Awake(c)
    BY DEF Quiet, Asleep, Waiting
  <2>2. Holds(c)
    BY <2>1 DEF Holds, WaitPlaces
  <2>3. \A l \in Legs : EndKnown(l) \/ Unasked(c, l) \/ Answered(c, l)
    BY <1>1, <2>2 DEF IInv, EndsReach
  <2>4. \A l \in Legs : ~Unasked(c, l) /\ ~Answered(c, l)
    BY <2>1 DEF Unasked, Answered
  <2>5. \A l \in Legs : Ended(entry[l].info)
    BY <2>1, <2>3, <2>4 DEF EndKnown, Reported
  <2>6. CASE pc[c] = "wait"
    BY <2>1, <2>5, <2>6, LegFacts DEF Awake
  <2>7. CASE pc[c] = "waitAll"
    BY <2>1, <2>5, <2>7 DEF Awake, KnownEnded
  <2>8. CASE pc[c] = "waitSibling"
    <3>1. Other(report[c]) \in Legs
      BY <1>1, <2>8, ThreadFacts, LegFacts DEF IInv, ThreadTrue
    <3> QED
      BY <2>1, <2>5, <2>8, <3>1 DEF Awake
  <2> QED
    BY <2>1, <2>6, <2>7, <2>8
<1> QED
  BY <1>1, InvariantHolds, PTL
=============================================================================
