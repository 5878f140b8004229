------------------------ MODULE BinanceOrderWaits_proofs ------------------------
(***************************************************************************)
(* For any number of threads and any calls they make, also on the same     *)
(* orders: the table of waits serves exactly the calls under way, what it  *)
(* says of the end of an order is true and stays, and so is what a call    *)
(* returns.                                                                *)
(*                                                                         *)
(* Three things are kept apart.  Orders only ever end (OrdersGrow).  What  *)
(* a waiter relies on concerns its own place and orders that have ended,   *)
(* so that only its own steps disturb it (WaiterTrue).  And a step treats  *)
(* the table in one of four ways (TableStep).                              *)
(***************************************************************************)
EXTENDS BinanceOrderWaits, FiniteSetTheorems, TLAPS

Ends == {"FILLED", "CANCELED"}

Statuses == Ends \cup {"NEW"}

\* Not in the middle of a call.
Out == {"idle", "done"}

\* Where a waiter can be, and where only the interface thread is.
WaiterPlaces ==
  Out \cup {"ensure", "start", "stopForStart", "closeForStart", "joinForStart", "await", "awaited", "query",
            "publish", "wait", "waitAll", "waitSibling", "filledLeg", "decide", "cancel", "cancelAnswer",
            "recovered", "confirmed", "cleanup"}

Places == WaiterPlaces \cup {"stop", "close", "join"}

Outcomes == {"none", "interrupted", "threw", "filled", "terminal"}

CallType ==
  /\ call \in [Waiters -> UNION {Calls[w] : w \in Waiters}]
  /\ \A w \in Waiters : call[w] \in Calls[w]

OrderType == order \in [Orders -> Statuses] /\ inbox \in Seq(Orders \X Ends)

TableType == pendingOrderWaits \in [Orders -> [count : Nat, info : Statuses \cup {"none"}]]

LocalType ==
  /\ pc \in [Callers -> Places] /\ \A w \in Waiters : pc[w] \in WaiterPlaces
  /\ todo \in [Waiters -> Seq(Orders)] /\ answer \in [Waiters -> Statuses \cup {"none"}]
  /\ purpose \in [Waiters -> {"prepare", "sibling", "recover", "confirm"}]
  /\ filled \in [Waiters -> Orders \cup {"none"}]
  /\ result \in [Waiters -> Outcomes]

TypeOK == CallType /\ OrderType /\ TableType /\ LocalType

\* The reports on their way are true.
ReportsTrue == \A i \in 1 .. Len(inbox) : order[inbox[i][1]] = inbox[i][2]

\* What a waiter has returned.
ResultTrue(w) ==
  /\ result[w] \in {"filled", "terminal"} => \A o \in Legs(w) : isOrderTerminal(order[o])
  /\ result[w] = "filled" => Cardinality({o \in Legs(w) : order[o] = "FILLED"}) = 1

\* What a waiter knows where it is: an answer is the order's state or older, and the leg it
\* found filled is one of two.
WaiterTrue(w) ==
  /\ pc[w] \in {"query", "publish"} => todo[w] # <<>>
  /\ pc[w] = "publish" => answer[w] \in {"NEW", order[Head(todo[w])]}
  /\ pc[w] = "cancelAnswer" => \A o \in Legs(w) : order[o] = "CANCELED"
  /\ pc[w] = "waitSibling" =>
       /\ filled[w] \in Legs(w) /\ order[filled[w]] = "FILLED"
       /\ \E o \in Legs(w) : o # filled[w]
  /\ ResultTrue(w)

(***************************************************************************)
(* The inductive invariant.                                                *)
(***************************************************************************)
IInv ==
  /\ TypeOK /\ ReportsTrue
  /\ \A w \in Waiters : WaiterTrue(w)
  /\ EntriesServeTheirWaiters
-----------------------------------------------------------------------------
(***************************************************************************)
(* The calls and their legs.                                               *)
(***************************************************************************)
LEMMA LegFacts ==
  ASSUME CallType, NEW w \in Waiters
  PROVE  /\ call[w].legs \in Seq(Orders) /\ call[w].legs # <<>>
         /\ \E a, b \in Orders : Legs(w) = {a, b} /\ (IsOco(w) <=> a # b)
<1>1. call[w] \in Calls[w]
  BY DEF CallType
<1> DEFINE c == call[w]
<1>2. /\ c.kind \in Kinds /\ c.legs \in Seq(Orders)
      /\ Len(c.legs) = IF c.kind \in {"waitOco", "cancelOco"} THEN 2 ELSE 1
      /\ \A i, j \in DOMAIN c.legs : i # j => c.legs[i] # c.legs[j]
  BY <1>1, CallsAssumption
<1>3. DOMAIN c.legs = 1 .. Len(c.legs)
  BY <1>2
<1>4. CASE IsOco(w)
  <2>1. Len(c.legs) = 2
    BY <1>2, <1>4 DEF IsOco
  <2>2. c.legs[1] \in Orders /\ c.legs[2] \in Orders /\ c.legs[1] # c.legs[2]
    BY <2>1, <1>2, <1>3
  <2>3. Legs(w) = {c.legs[1], c.legs[2]}
    BY <2>1, <1>3 DEF Legs
  <2> QED
    BY <1>2, <1>4, <2>1, <2>2, <2>3
<1>5. CASE ~IsOco(w)
  <2>1. Len(c.legs) = 1
    BY <1>2, <1>5 DEF IsOco
  <2>2. c.legs[1] \in Orders
    BY <2>1, <1>2, <1>3
  <2>3. Legs(w) = {c.legs[1]}
    BY <2>1, <1>3 DEF Legs
  <2> QED
    BY <1>2, <1>5, <2>1, <2>2, <2>3
<1> QED
  BY <1>4, <1>5

LEMMA LegsFinite ==
  ASSUME CallType, NEW w \in Waiters
  PROVE  /\ Legs(w) \subseteq Orders /\ Legs(w) # {}
         /\ \A S \in SUBSET Legs(w) : IsFiniteSet(S)
<1>1. PICK a, b \in Orders : Legs(w) = {a, b}
  BY LegFacts
<1>2. IsFiniteSet({a, b})
  <2>1. IsFiniteSet({a})
    BY FS_Singleton
  <2>2. IsFiniteSet({a} \cup {b})
    BY <2>1, FS_AddElement
  <2>3. {a} \cup {b} = {a, b}
    OBVIOUS
  <2> QED
    BY <2>2, <2>3
<1> QED
  BY <1>1, <1>2, FS_Subset

\* The sibling of a leg is the other one.
LEMMA OtherLegFacts ==
  ASSUME CallType, NEW w \in Waiters, NEW leg \in Legs(w), \E o \in Legs(w) : o # leg
  PROVE  /\ OtherLeg(w, leg) \in Legs(w) /\ OtherLeg(w, leg) # leg
         /\ Legs(w) = {leg, OtherLeg(w, leg)}
<1>1. OtherLeg(w, leg) \in Legs(w) /\ OtherLeg(w, leg) # leg
  BY DEF OtherLeg
<1> QED
  BY <1>1, LegFacts
-----------------------------------------------------------------------------
(***************************************************************************)
(* Orders end, and stay as they ended.                                     *)
(***************************************************************************)
OrdersGrow ==
  /\ OrderType' /\ ReportsTrue'
  /\ \A o \in Orders : isOrderTerminal(order[o]) => order'[o] = order[o]

LEMMA OrdersEndGrow ==
  ASSUME OrderType, ReportsTrue, NEW os \in SUBSET Orders, IsFiniteSet(os), NEW status \in Ends,
         OrdersEnd(os, status)
  PROVE  OrdersGrow /\ \A o \in os : order'[o] = status
<1> USE DEF OrderType
<1>1. /\ \A o \in os : order[o] = "NEW"
      /\ order' = [o \in Orders |-> IF o \in os THEN status ELSE order[o]]
  BY DEF OrdersEnd
<1>2. order' \in [Orders -> Statuses] /\ \A o \in os : order'[o] = status
  BY <1>1 DEF Statuses
<1>3. \A o \in Orders : isOrderTerminal(order[o]) => order'[o] = order[o]
  BY <1>1 DEF isOrderTerminal
<1>4. PICK reports \in [1 .. Cardinality(os) -> os] :
        inbox' = IF Subscribed THEN inbox \o [i \in DOMAIN reports |-> <<reports[i], status>>] ELSE inbox
  BY DEF OrdersEnd
<1> DEFINE news == [i \in DOMAIN reports |-> <<reports[i], status>>]
<1>5. Cardinality(os) \in Nat
  BY FS_CardinalityType
<1> DEFINE n == Cardinality(os)
<1>6. news \in [1 .. n -> Orders \X Ends] /\ \A i \in 1 .. n : news[i] = <<reports[i], status>>
  <2>1. DOMAIN reports = 1 .. n /\ \A i \in 1 .. n : reports[i] \in Orders
    OBVIOUS
  <2>2. \A i \in 1 .. n : <<reports[i], status>> \in Orders \X Ends
    BY <2>1
  <2>3. news = [i \in 1 .. n |-> <<reports[i], status>>]
    BY <2>1
  <2> HIDE DEF news, n
  <2> QED
    BY <2>2, <2>3
<1> HIDE DEF news, n
<1>7. news \in Seq(Orders \X Ends) /\ Len(news) = n
  <2>1. n \in Nat /\ DOMAIN news = 1 .. n
    BY <1>5, <1>6 DEF n
  <2> QED
    BY <2>1, <1>6
<1>8. inbox' \in Seq(Orders \X Ends)
  <2>1. inbox' = IF Subscribed THEN inbox \o news ELSE inbox
    BY <1>4 DEF news
  <2> QED
    BY <2>1, <1>7
<1>9. \A i \in 1 .. Len(inbox) : order'[inbox[i][1]] = inbox[i][2]
  <2> SUFFICES ASSUME NEW i \in 1 .. Len(inbox) PROVE order'[inbox[i][1]] = inbox[i][2]
    OBVIOUS
  <2>1. inbox[i] \in Orders \X Ends /\ order[inbox[i][1]] = inbox[i][2]
    BY DEF ReportsTrue
  <2> QED
    BY <2>1, <1>3 DEF isOrderTerminal, Ends
<1>10. ReportsTrue'
  <2>1. CASE Subscribed
    <3> SUFFICES ASSUME NEW i \in 1 .. Len(inbox') PROVE order'[inbox'[i][1]] = inbox'[i][2]
      BY DEF ReportsTrue
    <3>1. inbox' = inbox \o news
      BY <1>4, <2>1 DEF news
    <3>2. CASE i <= Len(inbox)
      BY <3>1, <3>2, <1>7, <1>9
    <3>3. CASE i > Len(inbox)
      <4>1. inbox'[i] = news[i - Len(inbox)] /\ i - Len(inbox) \in 1 .. Len(news)
        BY <3>1, <3>3, <1>7
      <4> QED
        BY <4>1, <1>6, <1>7, <1>2 DEF n
    <3> QED
      BY <3>2, <3>3
  <2>2. CASE ~Subscribed
    BY <2>2, <1>4, <1>9 DEF ReportsTrue
  <2> QED
    BY <2>1, <2>2
<1> QED
  BY <1>2, <1>3, <1>8, <1>10 DEF OrdersGrow

LEMMA NothingEnds ==
  ASSUME OrderType, ReportsTrue, UNCHANGED <<order, inbox>>
  PROVE  OrdersGrow
  BY DEF OrderType, ReportsTrue, OrdersGrow

\* Reports are taken from the front, or lost with the connection.
LEMMA ReportsTaken ==
  ASSUME OrderType, ReportsTrue, UNCHANGED order, inbox' = <<>> \/ (inbox # <<>> /\ inbox' = Tail(inbox))
  PROVE  OrdersGrow
<1> USE DEF OrderType
<1>1. CASE inbox' = <<>>
  BY <1>1 DEF OrdersGrow, ReportsTrue
<1>2. CASE inbox # <<>> /\ inbox' = Tail(inbox)
  <2>1. inbox' \in Seq(Orders \X Ends) /\ \A i \in 1 .. Len(inbox') : inbox'[i] = inbox[i + 1] /\ i + 1 \in 1 .. Len(inbox)
    BY <1>2
  <2> QED
    BY <2>1 DEF OrdersGrow, ReportsTrue
<1> QED
  BY <1>1, <1>2

\* What an action of one waiter may do to the orders.
LEMMA LegsEnd ==
  ASSUME TypeOK, ReportsTrue, NEW w \in Waiters,
         OrdersEnd(CancelledLegs(w), "CANCELED") \/ UNCHANGED <<order, inbox>>
  PROVE  OrdersGrow
<1>1. CancelledLegs(w) \in SUBSET Orders /\ IsFiniteSet(CancelledLegs(w)) /\ "CANCELED" \in Ends
  BY LegsFinite DEF CancelledLegs, TypeOK, Ends
<1> QED
  BY <1>1, OrdersEndGrow, NothingEnds DEF TypeOK
-----------------------------------------------------------------------------
(***************************************************************************)
(* What a waiter relies on.                                                *)
(***************************************************************************)
SameLocal(v) ==
  /\ pc'[v] = pc[v] /\ todo'[v] = todo[v] /\ answer'[v] = answer[v] /\ purpose'[v] = purpose[v]
  /\ filled'[v] = filled[v] /\ result'[v] = result[v]

\* A step of w alone, after which w still relies on facts.
WaiterMoves(w) ==
  LocalType' /\ WaiterTrue(w)' /\ \A v \in Waiters \ {w} : SameLocal(v)

LEMMA ResultStays ==
  ASSUME TypeOK, OrdersGrow, UNCHANGED call, NEW w \in Waiters, ResultTrue(w), result'[w] = result[w]
  PROVE  ResultTrue(w)'
<1>1. Legs(w)' = Legs(w) /\ Legs(w) \subseteq Orders
  BY LegsFinite DEF Legs, TypeOK
<1>2. CASE result[w] \notin {"filled", "terminal"}
  BY <1>2 DEF ResultTrue
<1>3. CASE result[w] \in {"filled", "terminal"}
  <2>1. \A o \in Legs(w) : isOrderTerminal(order[o]) /\ order'[o] = order[o]
    BY <1>1, <1>3 DEF ResultTrue, OrdersGrow
  <2>2. {o \in Legs(w)' : order'[o] = "FILLED"} = {o \in Legs(w) : order[o] = "FILLED"}
    BY <1>1, <2>1
  <2> QED
    BY <1>1, <2>1, <2>2 DEF ResultTrue
<1> QED
  BY <1>2, <1>3

\* Nobody else's step disturbs a waiter.
LEMMA OthersStayTrue ==
  ASSUME TypeOK, OrdersGrow, UNCHANGED call, NEW w \in Waiters, WaiterTrue(w), SameLocal(w)
  PROVE  WaiterTrue(w)'
<1>1. Legs(w)' = Legs(w) /\ Legs(w) \subseteq Orders
  BY LegsFinite DEF Legs, TypeOK
<1>2. ResultTrue(w)'
  BY ResultStays DEF WaiterTrue, SameLocal
<1>3. ASSUME pc[w] = "publish" PROVE answer[w] \in {"NEW", order'[Head(todo[w])]}
  <2>1. todo[w] # <<>> /\ todo[w] \in Seq(Orders) /\ answer[w] \in {"NEW", order[Head(todo[w])]}
    BY <1>3 DEF WaiterTrue, TypeOK, LocalType
  <2>2. Head(todo[w]) \in Orders
    BY <2>1
  <2>3. order[Head(todo[w])] \in Statuses
    BY <2>2 DEF TypeOK, OrderType
  <2> QED
    BY <2>1, <2>2, <2>3 DEF OrdersGrow, isOrderTerminal, Statuses, Ends
<1> QED
  BY <1>1, <1>2, <1>3 DEF WaiterTrue, SameLocal, OrdersGrow, isOrderTerminal

LEMMA LeaveMoves ==
  ASSUME TypeOK, OrdersGrow, UNCHANGED call, NEW w \in Waiters, NEW outcome \in Outcomes, Leave(w, outcome),
         outcome \in {"filled", "terminal"} => \A o \in Legs(w) : isOrderTerminal(order[o]),
         outcome = "filled" => Cardinality({o \in Legs(w) : order[o] = "FILLED"}) = 1
  PROVE  WaiterMoves(w)
<1>1. Legs(w)' = Legs(w) /\ Legs(w) \subseteq Orders
  BY LegsFinite DEF Legs, TypeOK
<1>2. w \in Callers /\ "done" \in WaiterPlaces /\ "done" \in Places
  BY DEF Callers, WaiterPlaces, Places, Out
<1>3. LocalType'
  BY <1>2 DEF Leave, TypeOK, LocalType, Callers
<1>4. result'[w] = outcome /\ pc'[w] = "done" /\ \A v \in Waiters \ {w} : SameLocal(v)
  BY <1>2 DEF Leave, TypeOK, LocalType, SameLocal, Callers
<1>5. ResultTrue(w)'
  <2>1. CASE outcome \notin {"filled", "terminal"}
    BY <1>4, <2>1 DEF ResultTrue
  <2>2. CASE outcome \in {"filled", "terminal"}
    <3>1. \A o \in Legs(w) : order'[o] = order[o]
      BY <1>1, <2>2 DEF OrdersGrow
    <3>2. {o \in Legs(w)' : order'[o] = "FILLED"} = {o \in Legs(w) : order[o] = "FILLED"}
      BY <1>1, <3>1
    <3> QED
      BY <1>1, <1>4, <2>2, <3>1, <3>2 DEF ResultTrue
  <2> QED
    BY <2>1, <2>2
<1> QED
  BY <1>3, <1>4, <1>5 DEF WaiterMoves, WaiterTrue

\* The places at which a waiter relies on nothing.
PlainPlaces == WaiterPlaces \ {"query", "publish", "cancelAnswer", "waitSibling"}

LEMMA StayMoves ==
  ASSUME TypeOK, OrdersGrow, UNCHANGED call, NEW w \in Waiters, WaiterTrue(w), NEW to \in PlainPlaces, Stay(w, to)
  PROVE  WaiterMoves(w)
<1>1. w \in Callers /\ to \in WaiterPlaces /\ to \in Places
  BY DEF Callers, PlainPlaces, Places
<1>2. LocalType'
  BY <1>1 DEF Stay, waitVars, TypeOK, LocalType, Callers
<1>3. pc'[w] = to /\ result'[w] = result[w] /\ \A v \in Waiters \ {w} : SameLocal(v)
  BY <1>1 DEF Stay, waitVars, TypeOK, LocalType, SameLocal, Callers
<1>4. ResultTrue(w)'
  BY <1>3, ResultStays DEF WaiterTrue
<1> QED
  BY <1>2, <1>3, <1>4 DEF WaiterMoves, WaiterTrue, PlainPlaces

LEMMA ReconcileMoves ==
  ASSUME TypeOK, OrdersGrow, UNCHANGED call, NEW w \in Waiters, WaiterTrue(w), NEW legs \in Seq(Orders),
         legs # <<>>, NEW why \in {"prepare", "sibling", "recover", "confirm"}, Reconcile(w, legs, why)
  PROVE  WaiterMoves(w)
<1>1. w \in Callers /\ "query" \in WaiterPlaces /\ "query" \in Places
  BY DEF Callers, WaiterPlaces, Places
<1>2. LocalType'
  BY <1>1 DEF Reconcile, TypeOK, LocalType, Callers
<1>3. pc'[w] = "query" /\ todo'[w] = legs /\ result'[w] = result[w] /\ \A v \in Waiters \ {w} : SameLocal(v)
  BY <1>1 DEF Reconcile, TypeOK, LocalType, SameLocal, Callers
<1>4. ResultTrue(w)'
  BY <1>3, ResultStays DEF WaiterTrue
<1> QED
  BY <1>2, <1>3, <1>4 DEF WaiterMoves, WaiterTrue

\* A leg that is known to be filled, beside one that is not.
LEMMA SiblingMoves ==
  ASSUME IInv, OrdersGrow, UNCHANGED call, NEW w \in Waiters, NEW o \in FilledLegs(w),
         FilledLegs(w) # Legs(w), WaitForSibling(w, o)
  PROVE  WaiterMoves(w)
<1> USE DEF IInv
<1>1. w \in Callers /\ "waitSibling" \in WaiterPlaces /\ "waitSibling" \in Places
  BY DEF Callers, WaiterPlaces, Places
<1>2. Legs(w)' = Legs(w) /\ Legs(w) \subseteq Orders /\ o \in Legs(w) /\ Info(o) = "FILLED"
  BY LegsFinite DEF Legs, TypeOK, FilledLegs
<1>3. order[o] = "FILLED" /\ order'[o] = "FILLED"
  BY <1>2 DEF EntriesServeTheirWaiters, KnownTerminal, isOrderTerminal, OrdersGrow
<1>4. \E p \in Legs(w) : p # o
  BY <1>2 DEF FilledLegs
<1>5. LocalType'
  BY <1>1, <1>2 DEF WaitForSibling, TypeOK, LocalType, Callers
<1>6. /\ pc'[w] = "waitSibling" /\ filled'[w] = o /\ result'[w] = result[w]
      /\ \A v \in Waiters \ {w} : SameLocal(v)
  BY <1>1, <1>2 DEF WaitForSibling, TypeOK, LocalType, SameLocal, Callers
<1>7. ResultTrue(w)'
  BY <1>6, ResultStays DEF WaiterTrue
<1> QED
  BY <1>2, <1>3, <1>4, <1>5, <1>6, <1>7 DEF WaiterMoves, WaiterTrue
-----------------------------------------------------------------------------
(***************************************************************************)
(* The steps of a waiter.                                                  *)
(***************************************************************************)
LEMMA KnownIsTrue ==
  ASSUME IInv, NEW o \in Orders, KnownTerminal(o)
  PROVE  isOrderTerminal(order[o]) /\ Info(o) = order[o]
  BY DEF IInv, EntriesServeTheirWaiters, KnownTerminal

\* Outcomes that say nothing of the orders.
LEMMA FailureMoves ==
  ASSUME IInv, OrdersGrow, UNCHANGED call, NEW w \in Waiters, Leave(w, "threw") \/ Leave(w, "interrupted")
  PROVE  WaiterMoves(w)
<1>1. "threw" \in Outcomes /\ "interrupted" \in Outcomes
  BY DEF Outcomes
<1>2. CASE Leave(w, "threw")
  BY <1>1, <1>2, LeaveMoves DEF IInv
<1>3. CASE Leave(w, "interrupted")
  BY <1>1, <1>3, LeaveMoves DEF IInv
<1> QED
  BY <1>2, <1>3

LEMMA TerminalMoves ==
  ASSUME IInv, OrdersGrow, UNCHANGED call, NEW w \in Waiters, Leave(w, "terminal"),
         \A o \in Legs(w) : KnownTerminal(o)
  PROVE  WaiterMoves(w)
<1>1. \A o \in Legs(w) : isOrderTerminal(order[o])
  BY KnownIsTrue, LegsFinite DEF IInv, TypeOK
<1>2. "terminal" \in Outcomes
  BY DEF Outcomes
<1> QED
  BY <1>1, <1>2, LeaveMoves DEF IInv

\* Most steps leave the orders alone.
LEMMA QuietStep ==
  ASSUME IInv, NEW w \in Waiters, Unchanged(w)
  PROVE  OrdersGrow /\ UNCHANGED call
  BY NothingEnds DEF IInv, TypeOK, Unchanged, statusVars, callVars

LEMMA EnterMoves ==
  ASSUME IInv, NEW w \in Waiters, Enter(w) \/ Ensure(w) \/ Connected(w)
  PROVE  OrdersGrow /\ UNCHANGED call /\ WaiterMoves(w)
<1> USE DEF IInv
<1>1. OrdersGrow /\ UNCHANGED call
  BY QuietStep, NothingEnds
  DEF Enter, Ensure, EnsureConnected, Connected, statusVars, callVars, TypeOK
<1>2. w \in Callers /\ {"done", "ensure", "await", "stopForStart", "start"} \subseteq PlainPlaces
  BY DEF Callers, PlainPlaces, WaiterPlaces, Out
<1>3. CASE Enter(w)
  <2>1. \/ pc' = [pc EXCEPT ![w] = "done"] /\ result' = [result EXCEPT ![w] = "interrupted"]
        \/ pc' = [pc EXCEPT ![w] = "ensure"] /\ result' = result
    BY <1>3 DEF Enter
  <2>2. UNCHANGED <<todo, answer, purpose, filled>>
    BY <1>3 DEF Enter
  <2>3. LocalType' /\ pc'[w] \in PlainPlaces /\ \A v \in Waiters \ {w} : SameLocal(v)
    <3>1. PICK to \in {"done", "ensure"}, out \in {result[w], "interrupted"} :
            pc' = [pc EXCEPT ![w] = to] /\ result' = [result EXCEPT ![w] = out]
      BY <2>1 DEF TypeOK, LocalType
    <3>2. to \in PlainPlaces /\ to \in WaiterPlaces /\ to \in Places /\ out \in Outcomes
      BY <1>2 DEF PlainPlaces, Places, Outcomes, TypeOK, LocalType
    <3> QED
      BY <2>2, <3>1, <3>2, <1>2 DEF TypeOK, LocalType, SameLocal, Callers
  <2>4. result'[w] = result[w] \/ result'[w] = "interrupted"
    BY <2>1 DEF TypeOK, LocalType
  <2>5. ResultTrue(w)'
    BY <1>1, <2>4, ResultStays DEF WaiterTrue, ResultTrue
  <2> QED
    BY <1>1, <2>3, <2>5 DEF WaiterMoves, WaiterTrue, PlainPlaces
<1>4. CASE Ensure(w)
  <2>1. PICK to \in {"await", "stopForStart", "start"} : pc' = [pc EXCEPT ![w] = to]
    BY <1>4 DEF Ensure, EnsureConnected, Goto
  <2>2. Stay(w, to)
    BY <1>4, <2>1 DEF Ensure, Stay
  <2> QED
    BY <1>1, <1>2, <2>2, StayMoves
<1>5. CASE Connected(w)
  <2>1. CASE Reconcile(w, call[w].legs, "prepare")
    BY <1>1, <2>1, LegFacts, ReconcileMoves DEF TypeOK
  <2>2. CASE Leave(w, "threw")
    BY <1>1, <2>2, FailureMoves
  <2> QED
    BY <1>5, <2>1, <2>2 DEF Connected
<1> QED
  BY <1>1, <1>3, <1>4, <1>5

LEMMA TailOfQueue ==
  ASSUME NEW S, NEW queue \in Seq(S), queue # <<>>
  PROVE  /\ Tail(queue) \in Seq(S) /\ Len(Tail(queue)) = Len(queue) - 1
         /\ Len(queue) > 1 => Tail(queue) # <<>>
<1>1. Tail(queue) \in Seq(S) /\ Len(Tail(queue)) = Len(queue) - 1 /\ Len(queue) \in Nat
  OBVIOUS
<1>2. Len(<<>>) = 0
  OBVIOUS
<1>3. \A n \in Nat : n - 1 = 0 => ~(n > 1)
  OBVIOUS
<1> QED
  BY <1>1, <1>2, <1>3, Zenon

LEMMA ReconcileStepMoves ==
  ASSUME IInv, NEW w \in Waiters, Query(w) \/ PublishAnswer(w) \/ QueryFails(w)
  PROVE  OrdersGrow /\ UNCHANGED call /\ WaiterMoves(w)
<1> USE DEF IInv
<1>1. OrdersGrow /\ UNCHANGED call
  BY QuietStep DEF Query, PublishAnswer, QueryFails
<1>2. /\ w \in Callers
      /\ {"decide", "wait", "filledLeg", "recovered", "confirmed"} \subseteq PlainPlaces
      /\ {"query", "publish"} \subseteq WaiterPlaces
  BY DEF Callers, PlainPlaces, WaiterPlaces
<1>3. WaiterTrue(w) /\ todo[w] \in Seq(Orders)
  BY DEF TypeOK, LocalType
<1>4. CASE Query(w)
  <2>1. todo[w] # <<>> /\ Head(todo[w]) \in Orders
    BY <1>3, <1>4 DEF Query, WaiterTrue
  <2>2. order[Head(todo[w])] \in Statuses /\ order' = order
    BY <1>4, <2>1 DEF Query, Unchanged, TypeOK, OrderType
  <2>3. LocalType' /\ \A v \in Waiters \ {w} : SameLocal(v)
    BY <1>2, <1>4, <2>2 DEF Query, TypeOK, LocalType, SameLocal, Callers, Places
  <2>4. /\ pc'[w] = "publish" /\ todo'[w] = todo[w] /\ answer'[w] = order[Head(todo[w])]
        /\ result'[w] = result[w]
    BY <1>2, <1>4 DEF Query, TypeOK, LocalType
  <2>5. ResultTrue(w)'
    BY <1>1, <1>3, <2>4, ResultStays DEF WaiterTrue
  <2> QED
    BY <1>1, <2>1, <2>2, <2>3, <2>4, <2>5 DEF WaiterMoves, WaiterTrue
<1>5. CASE PublishAnswer(w)
  <2>1. todo[w] # <<>>
    BY <1>3, <1>5 DEF PublishAnswer, WaiterTrue
  <2>2. /\ Tail(todo[w]) \in Seq(Orders) /\ Len(Tail(todo[w])) = Len(todo[w]) - 1
        /\ Len(todo[w]) > 1 => Tail(todo[w]) # <<>>
    BY <1>3, <2>1, TailOfQueue
  <2>3. Continue(w) \in PlainPlaces
    BY <1>2 DEF Continue, TypeOK, LocalType
  <2> DEFINE to == IF Len(todo[w]) > 1 THEN "query" ELSE Continue(w)
  <2>4. to \in WaiterPlaces /\ to \in Places /\ (to = "query" => Len(todo[w]) > 1)
          /\ to \notin {"publish", "cancelAnswer", "waitSibling"}
    BY <1>2, <2>3 DEF PlainPlaces, Places
  <2>5. /\ pc' = [pc EXCEPT ![w] = to] /\ todo' = [todo EXCEPT ![w] = Tail(todo[w])]
        /\ answer' = [answer EXCEPT ![w] = "none"] /\ UNCHANGED <<purpose, filled, result>>
    BY <1>5 DEF PublishAnswer, TypeOK, LocalType
  <2> HIDE DEF to
  <2>6. LocalType' /\ \A v \in Waiters \ {w} : SameLocal(v)
    BY <1>2, <2>2, <2>4, <2>5 DEF TypeOK, LocalType, SameLocal, Callers
  <2>7. pc'[w] = to /\ todo'[w] = Tail(todo[w]) /\ result'[w] = result[w]
    BY <1>2, <2>5 DEF TypeOK, LocalType
  <2>8. ResultTrue(w)'
    BY <1>1, <1>3, <2>7, ResultStays DEF WaiterTrue
  <2> QED
    BY <1>1, <2>2, <2>4, <2>6, <2>7, <2>8 DEF WaiterMoves, WaiterTrue
<1>6. CASE QueryFails(w)
  BY <1>1, <1>2, <1>6, StayMoves, FailureMoves DEF QueryFails
<1> QED
  BY <1>1, <1>4, <1>5, <1>6

LEMMA CheckMoves ==
  ASSUME IInv, NEW w \in Waiters, CheckFails(w) \/ Sleep(w)
  PROVE  OrdersGrow /\ UNCHANGED call /\ LocalType' /\ \A v \in Waiters : SameLocal(v)
<1>1. OrdersGrow /\ UNCHANGED call
  BY QuietStep DEF CheckFails, Sleep
<1> QED
  BY <1>1 DEF CheckFails, Sleep, waitVars, IInv, TypeOK, LocalType, SameLocal

\* A wait for an order returns for its fill.
LEMMA OrderWaitMoves ==
  ASSUME IInv, NEW w \in Waiters, OrderWaitEnds(w)
  PROVE  OrdersGrow /\ UNCHANGED call /\ WaiterMoves(w)
<1>1. OrdersGrow /\ UNCHANGED call
  BY QuietStep DEF OrderWaitEnds, Wakes
<1>2. CASE FilledLegs(w) = {}
  BY <1>1, <1>2, FailureMoves DEF OrderWaitEnds
<1>3. CASE FilledLegs(w) # {}
  <2>1. PICK a \in Orders : Legs(w) = {a}
    BY LegFacts DEF OrderWaitEnds, IInv, TypeOK
  <2>2. Info(a) = "FILLED"
    BY <1>3, <2>1 DEF FilledLegs
  <2>3. order[a] = "FILLED"
    BY <2>2, KnownIsTrue DEF KnownTerminal, isOrderTerminal
  <2>4. {o \in Legs(w) : order[o] = "FILLED"} = {a}
    BY <2>1, <2>3
  <2>5. Cardinality({o \in Legs(w) : order[o] = "FILLED"}) = 1
    BY <2>4, FS_Singleton
  <2>6. Leave(w, "filled") /\ "filled" \in Outcomes
    BY <1>3 DEF OrderWaitEnds, Outcomes
  <2> QED
    BY <1>1, <2>1, <2>3, <2>5, <2>6, LeaveMoves DEF isOrderTerminal, IInv
<1> QED
  BY <1>2, <1>3

LEMMA OcoWaitMoves ==
  ASSUME IInv, NEW w \in Waiters, OcoWaitEnds(w) \/ FilledLegFound(w)
  PROVE  OrdersGrow /\ UNCHANGED call /\ WaiterMoves(w)
<1> USE DEF IInv
<1>1. OrdersGrow /\ UNCHANGED call
  BY QuietStep DEF OcoWaitEnds, FilledLegFound, Wakes
<1>2. {"cleanup", "cancel"} \subseteq PlainPlaces
  BY DEF PlainPlaces, WaiterPlaces
<1>3. CASE Stay(w, "cleanup") \/ Stay(w, "cancel")
  BY <1>1, <1>2, <1>3, StayMoves
<1>4. CASE FilledLegs(w) # Legs(w) /\ \E o \in FilledLegs(w) : WaitForSibling(w, o)
  BY <1>1, <1>4, SiblingMoves
<1>5. CASE Leave(w, "threw") \/ Leave(w, "interrupted")
  BY <1>1, <1>5, FailureMoves
<1>6. ASSUME IsOco(w), NEW ended \in Legs(w), Reconcile(w, <<OtherLeg(w, ended)>>, "sibling")
      PROVE  WaiterMoves(w)
  <2>1. \E o \in Legs(w) : o # ended
    BY <1>6, LegFacts DEF TypeOK
  <2>2. OtherLeg(w, ended) \in Orders
    BY <2>1, <1>6, OtherLegFacts, LegsFinite DEF TypeOK
  <2>3. <<OtherLeg(w, ended)>> \in Seq(Orders) /\ <<OtherLeg(w, ended)>> # <<>>
    BY <2>2
  <2> QED
    BY <1>1, <1>6, <2>3, ReconcileMoves
<1>7. CASE OcoWaitEnds(w)
  BY <1>1, <1>3, <1>4, <1>6, <1>7 DEF OcoWaitEnds
<1>8. CASE FilledLegFound(w)
  <2>1. \/ Stay(w, "cleanup") \/ Stay(w, "cancel") \/ Leave(w, "threw") \/ Leave(w, "interrupted")
        \/ FilledLegs(w) # Legs(w) /\ \E o \in FilledLegs(w) : WaitForSibling(w, o)
    BY <1>8 DEF FilledLegFound
  <2> QED
    BY <2>1, <1>1, <1>3, <1>4, <1>5
<1> QED
  BY <1>7, <1>8

\* A wait for a pair returns when one leg is filled and the other has ended unfilled.
LEMMA SiblingWaitMoves ==
  ASSUME IInv, NEW w \in Waiters, SiblingWaitEnds(w)
  PROVE  OrdersGrow /\ UNCHANGED call /\ WaiterMoves(w)
<1> USE DEF IInv
<1>1. OrdersGrow /\ UNCHANGED call
  BY QuietStep DEF SiblingWaitEnds, Wakes
<1>2. "cleanup" \in PlainPlaces
  BY DEF PlainPlaces, WaiterPlaces
<1>3. CASE Stay(w, "cleanup")
  BY <1>1, <1>2, <1>3, StayMoves
<1>4. CASE Leave(w, "threw")
  BY <1>1, <1>4, FailureMoves
<1>5. ASSUME Info(Sibling(w)) = "CANCELED", NEW outcome \in {"terminal", "filled"}, Leave(w, outcome)
      PROVE  WaiterMoves(w)
  <2>1. filled[w] \in Legs(w) /\ order[filled[w]] = "FILLED" /\ \E o \in Legs(w) : o # filled[w]
    BY DEF SiblingWaitEnds, Wakes, WaiterTrue
  <2>2. Legs(w) = {filled[w], Sibling(w)} /\ Sibling(w) \in Orders
    BY <2>1, OtherLegFacts, LegsFinite DEF Sibling, TypeOK
  <2>3. order[Sibling(w)] = "CANCELED"
    BY <1>5, <2>2, KnownIsTrue DEF KnownTerminal, isOrderTerminal
  <2>4. {o \in Legs(w) : order[o] = "FILLED"} = {filled[w]}
    BY <2>1, <2>2, <2>3
  <2>5. Cardinality({o \in Legs(w) : order[o] = "FILLED"}) = 1
    BY <2>4, FS_Singleton
  <2>6. \A o \in Legs(w) : isOrderTerminal(order[o])
    BY <2>1, <2>2, <2>3 DEF isOrderTerminal
  <2>7. outcome \in Outcomes
    BY DEF Outcomes
  <2> QED
    BY <1>1, <1>5, <2>5, <2>6, <2>7, LeaveMoves
<1> QED
  BY <1>1, <1>3, <1>4, <1>5 DEF SiblingWaitEnds

LEMMA DecideMoves ==
  ASSUME IInv, NEW w \in Waiters,
         Decide(w) \/ Recovered(w) \/ CancelWaitEnds(w) \/ Confirmed(w) \/ Interrupted(w) \/ Await(w)
  PROVE  OrdersGrow /\ UNCHANGED call /\ WaiterMoves(w)
<1> USE DEF IInv
<1>1. OrdersGrow /\ UNCHANGED call
  BY QuietStep DEF Decide, Recovered, CancelWaitEnds, Confirmed, Interrupted, Await, Wakes
<1>2. {"filledLeg", "cancel", "awaited"} \subseteq PlainPlaces
  BY DEF PlainPlaces, WaiterPlaces
<1>3. CASE (\A o \in Legs(w) : KnownTerminal(o)) /\ Leave(w, "terminal")
  BY <1>1, <1>3, TerminalMoves
<1>4. CASE Leave(w, "threw") \/ Leave(w, "interrupted")
  BY <1>1, <1>4, FailureMoves
<1>5. CASE Stay(w, "filledLeg") \/ Stay(w, "cancel") \/ Stay(w, "awaited")
  BY <1>1, <1>2, <1>5, StayMoves
<1>6. CASE Reconcile(w, call[w].legs, "confirm")
  BY <1>1, <1>6, LegFacts, ReconcileMoves DEF TypeOK
<1>7. \/ (\A o \in Legs(w) : KnownTerminal(o)) /\ Leave(w, "terminal")
      \/ Leave(w, "threw") \/ Leave(w, "interrupted")
      \/ Stay(w, "filledLeg") \/ Stay(w, "cancel") \/ Stay(w, "awaited")
      \/ Reconcile(w, call[w].legs, "confirm")
  BY DEF Decide, Recovered, CancelWaitEnds, Confirmed, Interrupted, Await
<1> QED
  BY <1>1, <1>3, <1>4, <1>5, <1>6, <1>7

LEMMA CancelMoves ==
  ASSUME IInv, NEW w \in Waiters, CancelAccepted(w) \/ CancelFails(w) \/ Cleanup(w)
  PROVE  OrdersGrow /\ UNCHANGED call /\ WaiterMoves(w)
<1> USE DEF IInv
<1>1. OrdersGrow /\ UNCHANGED call
  BY LegsEnd DEF CancelAccepted, CancelFails, Cleanup, callVars
<1>2. CASE CancelAccepted(w)
  <2>1. CASE Stay(w, "waitAll")
    <3>1. "waitAll" \in PlainPlaces
      BY DEF PlainPlaces, WaiterPlaces
    <3> QED
      BY <1>1, <2>1, <3>1, StayMoves
  <2>2. CASE ~Stay(w, "waitAll")
    <3>1. /\ ~IsOco(w) /\ CancelledLegs(w) # {} /\ OrdersEnd(CancelledLegs(w), "CANCELED")
          /\ pc' = [pc EXCEPT ![w] = "cancelAnswer"] /\ UNCHANGED waitVars
      BY <1>2, <2>2 DEF CancelAccepted
    <3>2. PICK a \in Orders : Legs(w) = {a}
      BY <3>1, LegFacts DEF TypeOK
    <3>3. CancelledLegs(w) = {a}
      BY <3>1, <3>2 DEF CancelledLegs
    <3>4. order'[a] = "CANCELED"
      BY <3>1, <3>3 DEF OrdersEnd
    <3>5. w \in Callers /\ "cancelAnswer" \in WaiterPlaces /\ "cancelAnswer" \in Places
      BY DEF Callers, WaiterPlaces, Places
    <3>6. LocalType'
      BY <3>1, <3>5 DEF waitVars, TypeOK, LocalType, Callers
    <3>7. pc'[w] = "cancelAnswer" /\ result'[w] = result[w] /\ \A v \in Waiters \ {w} : SameLocal(v)
      BY <3>1, <3>5 DEF waitVars, TypeOK, LocalType, SameLocal, Callers
    <3>8. ResultTrue(w)'
      BY <1>1, <3>7, ResultStays DEF WaiterTrue
    <3>9. Legs(w)' = {a}
      BY <1>1, <3>2 DEF Legs
    <3> QED
      BY <1>1, <3>4, <3>6, <3>7, <3>8, <3>9 DEF WaiterMoves, WaiterTrue
  <2> QED
    BY <2>1, <2>2
<1>3. CASE CancelFails(w)
  BY <1>1, <1>3, LegFacts, ReconcileMoves DEF CancelFails, TypeOK
<1>4. CASE Cleanup(w)
  BY <1>1, <1>4, FailureMoves DEF Cleanup
<1> QED
  BY <1>1, <1>2, <1>3, <1>4

LEMMA CancelAnswerMoves ==
  ASSUME IInv, NEW w \in Waiters, PublishCancelAnswer(w)
  PROVE  OrdersGrow /\ UNCHANGED call /\ WaiterMoves(w)
<1> USE DEF IInv
<1>1. OrdersGrow /\ UNCHANGED call
  BY QuietStep DEF PublishCancelAnswer
<1>2. w \in Callers /\ "waitAll" \in WaiterPlaces /\ "waitAll" \in Places
  BY DEF Callers, WaiterPlaces, Places
<1>3. LocalType'
  BY <1>2 DEF PublishCancelAnswer, TypeOK, LocalType, Callers
<1>4. pc'[w] = "waitAll" /\ result'[w] = result[w] /\ \A v \in Waiters \ {w} : SameLocal(v)
  BY <1>2 DEF PublishCancelAnswer, TypeOK, LocalType, SameLocal, Callers
<1>5. ResultTrue(w)'
  BY <1>1, <1>4, ResultStays DEF WaiterTrue
<1> QED
  BY <1>1, <1>3, <1>4, <1>5 DEF WaiterMoves, WaiterTrue
-----------------------------------------------------------------------------
(***************************************************************************)
(* The stream, and all steps together.                                     *)
(***************************************************************************)
LEMMA LifecycleMoves ==
  ASSUME IInv, NEW c \in Callers, Lifecycle(c), UNCHANGED <<order, waitVars, callVars>>
  PROVE  /\ OrdersGrow /\ UNCHANGED call /\ LocalType'
         /\ \A w \in Waiters : pc'[w] \in PlainPlaces \ Out \/ pc'[w] = pc[w]
         /\ \A w \in Waiters : pc[w] \notin Out \/ pc'[w] = pc[w]
<1> USE DEF IInv
<1>1. UNCHANGED <<inbox, order, call>>
  BY DEF Lifecycle, StopLooks, StopCloses, StopJoins, Start, statusVars, callVars
<1>2. OrdersGrow /\ UNCHANGED call
  BY <1>1, NothingEnds DEF TypeOK
<1>3. PICK to \in {"close", "closeForStart", "idle", "join", "joinForStart", "start", "stopForStart", "await"} :
        /\ pc' = [pc EXCEPT ![c] = to]
        /\ pc[c] \notin Out
        /\ to \in {"close", "join"} => pc[c] \in {"stop", "close"}
        /\ to = "idle" => pc[c] \in {"stop", "join"} \/ c = Interface
  BY DEF Lifecycle, StopLooks, StopCloses, StopJoins, Start, Goto, Resume, Out, TypeOK, LocalType
<1>4. c \in Waiters => pc[c] \in WaiterPlaces /\ c # Interface
  BY StreamAssumption DEF TypeOK, LocalType
<1>5. to \in Places
  BY DEF Places, WaiterPlaces, Out
<1>6. c \in Waiters => to \in PlainPlaces \ Out
  BY <1>3, <1>4 DEF WaiterPlaces, Out, PlainPlaces
<1>7. LocalType'
  BY <1>3, <1>5, <1>6 DEF waitVars, TypeOK, LocalType, Callers, PlainPlaces
<1> QED
  BY <1>2, <1>3, <1>6, <1>7 DEF TypeOK, LocalType, Callers

\* What every step keeps, apart from the table.
LocalInv == OrdersGrow /\ UNCHANGED call /\ LocalType' /\ \A w \in Waiters : WaiterTrue(w)'

LEMMA MovesKeep ==
  ASSUME IInv, OrdersGrow, UNCHANGED call, NEW w \in Waiters, WaiterMoves(w)
  PROVE  LocalInv
  BY OthersStayTrue DEF IInv, WaiterMoves, LocalInv

LEMMA NobodyMoves ==
  ASSUME IInv, OrdersGrow, UNCHANGED call, LocalType', \A w \in Waiters : SameLocal(w)
  PROVE  LocalInv
  BY OthersStayTrue DEF IInv, LocalInv

LEMMA LocalStep == IInv /\ [Next]_vars => LocalInv
<1> SUFFICES ASSUME IInv, [Next]_vars PROVE LocalInv
  OBVIOUS
<1> USE DEF IInv
<1>1. ASSUME NEW w \in Waiters, WaiterStep(w) PROVE LocalInv
  <2>1. CASE CheckFails(w) \/ Sleep(w)
    BY <2>1, CheckMoves, NobodyMoves
  <2>2. CASE ~(CheckFails(w) \/ Sleep(w))
    <3>1. OrdersGrow /\ UNCHANGED call /\ WaiterMoves(w)
      BY <1>1, <2>2, EnterMoves, ReconcileStepMoves, OrderWaitMoves, OcoWaitMoves, SiblingWaitMoves,
         DecideMoves, CancelMoves, CancelAnswerMoves DEF WaiterStep
    <3> QED
      BY <3>1, MovesKeep
  <2> QED
    BY <2>1, <2>2
<1>2. ASSUME NEW w \in Waiters, RequestStop(w) PROVE LocalInv
  <2>1. OrdersGrow /\ UNCHANGED call
    BY <1>2, NothingEnds DEF RequestStop, statusVars, TypeOK
  <2>2. LocalType' /\ \A v \in Waiters : SameLocal(v)
    BY <1>2 DEF RequestStop, waitVars, TypeOK, LocalType, SameLocal
  <2> QED
    BY <2>1, <2>2, NobodyMoves
<1>3. CASE OrderEnds
  <2>1. OrdersGrow
    <3>1. CASE \E o \in Orders, status \in {"FILLED", "CANCELED"} : OrdersEnd({o}, status)
      <4>1. PICK o \in Orders, status \in {"FILLED", "CANCELED"} : OrdersEnd({o}, status)
        BY <3>1
      <4>2. {o} \in SUBSET Orders /\ IsFiniteSet({o}) /\ status \in Ends
        BY FS_Singleton DEF Ends
      <4> QED
        BY <4>1, <4>2, OrdersEndGrow DEF TypeOK
    <3>2. CASE \E w \in Waiters : IsOco(w) /\ OrdersEnd(Legs(w), "CANCELED")
      <4>1. PICK w \in Waiters : OrdersEnd(Legs(w), "CANCELED")
        BY <3>2
      <4>2. Legs(w) \in SUBSET Orders /\ IsFiniteSet(Legs(w)) /\ "CANCELED" \in Ends
        BY LegsFinite DEF Ends, TypeOK
      <4> QED
        BY <4>1, <4>2, OrdersEndGrow DEF TypeOK
    <3> QED
      BY <1>3, <3>1, <3>2 DEF OrderEnds
  <2>2. UNCHANGED call /\ LocalType' /\ \A v \in Waiters : SameLocal(v)
    BY <1>3 DEF OrderEnds, waitVars, callVars, TypeOK, LocalType, SameLocal
  <2> QED
    BY <2>1, <2>2, NobodyMoves
<1>4. CASE RunnerReads
  <2>1. OrdersGrow
    BY <1>4, ReportsTaken DEF RunnerReads, TypeOK
  <2>2. UNCHANGED call /\ LocalType' /\ \A v \in Waiters : SameLocal(v)
    BY <1>4 DEF RunnerReads, callVars, TypeOK, LocalType, SameLocal
  <2> QED
    BY <2>1, <2>2, NobodyMoves
<1>5. CASE StreamStep
  <2>1. ASSUME NEW c \in Callers, Lifecycle(c) PROVE LocalInv
    <3>1. /\ OrdersGrow /\ UNCHANGED call /\ LocalType'
          /\ \A w \in Waiters : pc'[w] \in PlainPlaces \/ pc'[w] = pc[w]
      BY <1>5, <2>1, LifecycleMoves DEF StreamStep
    <3>2. UNCHANGED waitVars
      BY <1>5 DEF StreamStep
    <3>3. ASSUME NEW w \in Waiters PROVE WaiterTrue(w)'
      <4>1. CASE pc'[w] = pc[w]
        BY <3>1, <3>2, <4>1, OthersStayTrue DEF SameLocal, waitVars
      <4>2. CASE pc'[w] \in PlainPlaces
        <5>1. ResultTrue(w)'
          BY <3>1, <3>2, ResultStays DEF waitVars, WaiterTrue
        <5> QED
          BY <4>2, <5>1 DEF WaiterTrue, PlainPlaces
      <4> QED
        BY <3>1, <4>1, <4>2
    <3> QED
      BY <3>1, <3>3 DEF LocalInv
  <2>2. CASE RunnerThread \/ RunnerFails \/ RunnerStops \/ InterfaceCalls
    <3>1. UNCHANGED order /\ (inbox' = inbox \/ inbox' = <<>>)
      BY <1>5, <2>2 DEF StreamStep, RunnerThread, RunnerConnects, RunnerSubscribed, RunnerLoops, RunnerCloses,
           RunnerEnds, RunnerFails, RunnerStops, InterfaceCalls, statusVars
    <3>2. OrdersGrow
      BY <3>1, ReportsTaken, NothingEnds DEF TypeOK
    <3>3. CASE ~InterfaceCalls
      <4>1. UNCHANGED pc
        BY <2>2, <3>3 DEF RunnerThread, RunnerConnects, RunnerSubscribed, RunnerLoops, RunnerCloses,
             RunnerEnds, RunnerFails, RunnerStops
      <4>2. UNCHANGED call /\ LocalType' /\ \A v \in Waiters : SameLocal(v)
        BY <1>5, <4>1 DEF StreamStep, waitVars, callVars, TypeOK, LocalType, SameLocal
      <4> QED
        BY <3>2, <4>2, NobodyMoves
    <3>4. CASE InterfaceCalls
      <4>1. PICK to \in {"start", "stop"} : pc' = [pc EXCEPT ![Interface] = to]
        BY <3>4 DEF InterfaceCalls
      <4>2. to \in Places /\ Interface \notin Waiters
        BY StreamAssumption DEF Places, WaiterPlaces
      <4>3. UNCHANGED call /\ LocalType' /\ \A v \in Waiters : SameLocal(v)
        BY <1>5, <4>1, <4>2 DEF StreamStep, waitVars, callVars, TypeOK, LocalType, SameLocal, Callers
      <4> QED
        BY <3>2, <4>3, NobodyMoves
    <3> QED
      BY <3>3, <3>4
  <2> QED
    BY <1>5, <2>1, <2>2 DEF StreamStep
<1>6. CASE UNCHANGED vars
  <2>1. OrdersGrow /\ UNCHANGED call
    BY <1>6, NothingEnds DEF vars, streamVars, statusVars, callVars, TypeOK
  <2>2. LocalType' /\ \A v \in Waiters : SameLocal(v)
    BY <1>6 DEF vars, streamVars, waitVars, TypeOK, LocalType, SameLocal
  <2> QED
    BY <2>1, <2>2, NobodyMoves
<1> QED
  BY <1>1, <1>2, <1>3, <1>4, <1>5, <1>6 DEF Next
-----------------------------------------------------------------------------
(***************************************************************************)
(* The table: a step leaves it alone, adds or takes away the registrations *)
(* of one call, or publishes what is true.                                 *)
(***************************************************************************)
SameRegistrations == \A w \in Waiters : pc'[w] \in Out <=> pc[w] \in Out

TableKept == UNCHANGED pendingOrderWaits /\ SameRegistrations

TableEntered(w) ==
  /\ pc[w] \in Out /\ pc'[w] \notin Out /\ Register(Legs(w))
  /\ \A v \in Waiters \ {w} : pc'[v] = pc[v]

TableLeft(w) ==
  /\ pc[w] \notin Out /\ pc'[w] \in Out /\ Unregister(Legs(w))
  /\ \A v \in Waiters \ {w} : pc'[v] = pc[v]

TablePublished(o, status) ==
  /\ News(o, status) /\ pendingOrderWaits' = [pendingOrderWaits EXCEPT ![o].info = status]
  /\ SameRegistrations /\ (isOrderTerminal(status) => status = order[o])

TableChanges ==
  \/ TableKept
  \/ \E w \in Waiters : TableEntered(w) \/ TableLeft(w)
  \/ \E o \in Orders, status \in Statuses : TablePublished(o, status)

LEMMA PublishChanges ==
  ASSUME NEW o \in Orders, NEW status \in Statuses, publishOrderUpdate(o, status), SameRegistrations,
         isOrderTerminal(status) => status = order[o]
  PROVE  TableChanges
  BY DEF publishOrderUpdate, TableChanges, TableKept, TablePublished

LEMMA LeaveChanges ==
  ASSUME IInv, NEW w \in Waiters, pc[w] \notin Out, NEW outcome, Leave(w, outcome)
  PROVE  TableChanges
<1>1. w \in Callers
  BY DEF Callers
<1>2. pc'[w] = "done" /\ \A v \in Waiters \ {w} : pc'[v] = pc[v]
  BY <1>1 DEF Leave, IInv, TypeOK, LocalType, Callers
<1> QED
  BY <1>2 DEF Leave, TableChanges, TableLeft, Out

LEMMA StayChanges ==
  ASSUME IInv, NEW w \in Waiters, pc[w] \notin Out, NEW to, to \notin Out, pc' = [pc EXCEPT ![w] = to]
  PROVE  SameRegistrations
<1>1. w \in Callers
  BY DEF Callers
<1> QED
  BY <1>1 DEF SameRegistrations, IInv, TypeOK, LocalType, Callers

\* A step of a call under way that neither leaves nor publishes.
LEMMA QuietChanges ==
  ASSUME IInv, NEW w \in Waiters, pc[w] \notin Out, UNCHANGED pendingOrderWaits,
         UNCHANGED pc \/ \E to \in Places \ Out : pc' = [pc EXCEPT ![w] = to]
  PROVE  TableChanges
  BY StayChanges DEF TableChanges, TableKept, SameRegistrations

LEMMA ContinuePlace ==
  ASSUME IInv, NEW w \in Waiters
  PROVE  Continue(w) \in Places \ Out
  BY DEF IInv, TypeOK, LocalType, Continue, Places, WaiterPlaces, Out

LEMMA WaiterChanges ==
  ASSUME IInv, NEW w \in Waiters, WaiterStep(w)
  PROVE  TableChanges
<1> USE DEF IInv
<1>1. CASE Enter(w)
  <2>1. w \in Callers
    BY DEF Callers
  <2>2. CASE w \in stopToken
    <3>1. pc[w] = "idle" /\ pc' = [pc EXCEPT ![w] = "done"] /\ UNCHANGED pendingOrderWaits
      BY <1>1, <2>2 DEF Enter
    <3>2. SameRegistrations
      BY <2>1, <3>1 DEF SameRegistrations, Out, TypeOK, LocalType, Callers
    <3> QED
      BY <3>1, <3>2 DEF TableChanges, TableKept
  <2>3. CASE w \notin stopToken
    <3>1. pc[w] = "idle" /\ pc' = [pc EXCEPT ![w] = "ensure"] /\ Register(Legs(w))
      BY <1>1, <2>3 DEF Enter
    <3>2. TableEntered(w)
      BY <2>1, <3>1 DEF TableEntered, Out, TypeOK, LocalType, Callers
    <3> QED
      BY <3>2 DEF TableChanges
  <2> QED
    BY <2>2, <2>3
<1>2. ASSUME pc[w] \notin Out, \E outcome \in Outcomes : Leave(w, outcome) PROVE TableChanges
  BY <1>2, LeaveChanges
<1>3. ASSUME pc[w] \notin Out, \E to \in Places \ Out : Stay(w, to) PROVE TableChanges
  BY <1>3, QuietChanges DEF Stay, waitVars
<1>4. ASSUME pc[w] \notin Out, \E legs, why : Reconcile(w, legs, why) PROVE TableChanges
  <2>1. "query" \in Places \ Out
    BY DEF Places, WaiterPlaces, Out
  <2> QED
    BY <1>4, <2>1, QuietChanges DEF Reconcile
<1>5. CASE Ensure(w)
  <2>1. pc[w] \notin Out /\ UNCHANGED pendingOrderWaits
    BY <1>5 DEF Ensure, EnsureConnected, Goto, Out, waitVars
  <2>2. \E to \in Places \ Out : pc' = [pc EXCEPT ![w] = to]
    BY <1>5 DEF Ensure, EnsureConnected, Goto, Out, Places, WaiterPlaces
  <2> QED
    BY <2>1, <2>2, QuietChanges
<1>6. CASE CheckFails(w) \/ Sleep(w)
  BY <1>6 DEF CheckFails, Sleep, waitVars, TableChanges, TableKept, SameRegistrations
<1>7. CASE Query(w)
  <2>1. pc[w] \notin Out /\ "publish" \in Places \ Out
    BY <1>7 DEF Query, Out, Places, WaiterPlaces
  <2> QED
    BY <1>7, <2>1, QuietChanges DEF Query
<1>8. CASE PublishAnswer(w)
  <2>1. pc[w] = "publish" /\ WaiterTrue(w)
    BY <1>8 DEF PublishAnswer
  <2>2. /\ todo[w] # <<>> /\ todo[w] \in Seq(Orders) /\ Head(todo[w]) \in Orders
        /\ answer[w] \in {"NEW", order[Head(todo[w])]}
    BY <2>1 DEF WaiterTrue, TypeOK, LocalType
  <2>3. answer[w] \in Statuses /\ (isOrderTerminal(answer[w]) => answer[w] = order[Head(todo[w])])
    BY <2>2 DEF TypeOK, OrderType, Statuses, isOrderTerminal
  <2>4. PICK to \in Places \ Out : pc' = [pc EXCEPT ![w] = to]
    <3>1. "query" \in Places \ Out
      BY DEF Places, WaiterPlaces, Out
    <3> QED
      BY <1>8, <3>1, ContinuePlace DEF PublishAnswer
  <2>5. SameRegistrations
    BY <2>1, <2>4, StayChanges DEF Out
  <2> QED
    BY <1>8, <2>2, <2>3, <2>5, PublishChanges DEF PublishAnswer
<1>9. CASE PublishCancelAnswer(w)
  <2>1. pc[w] = "cancelAnswer" /\ \A o \in Legs(w) : order[o] = "CANCELED" /\ o \in Orders
    BY <1>9, LegsFinite DEF PublishCancelAnswer, WaiterTrue, TypeOK
  <2>2. PICK o \in Legs(w) : publishOrderUpdate(o, "CANCELED")
    BY <1>9 DEF PublishCancelAnswer
  <2>3. SameRegistrations
    BY <1>9, <2>1, StayChanges DEF PublishCancelAnswer, Out
  <2> QED
    BY <2>1, <2>2, <2>3, PublishChanges DEF Statuses, Ends
<1>10. CASE OcoWaitEnds(w) \/ FilledLegFound(w)
  <2>1. pc[w] \notin Out
    BY <1>10 DEF OcoWaitEnds, FilledLegFound, Wakes, Out
  <2>2. {"cleanup", "cancel", "waitSibling"} \subseteq Places \ Out /\ {"threw", "interrupted"} \subseteq Outcomes
    BY DEF Places, WaiterPlaces, Out, Outcomes
  <2>3. \/ Stay(w, "cleanup") \/ Stay(w, "cancel") \/ Leave(w, "threw") \/ Leave(w, "interrupted")
        \/ \E o \in FilledLegs(w) : WaitForSibling(w, o)
        \/ \E legs, why : Reconcile(w, legs, why)
    BY <1>10 DEF OcoWaitEnds, FilledLegFound
  <2>4. ASSUME NEW o, WaitForSibling(w, o) PROVE TableChanges
    BY <2>1, <2>2, <2>4, QuietChanges DEF WaitForSibling
  <2> QED
    BY <2>1, <2>2, <2>3, <2>4, <1>2, <1>3, <1>4
<1>11. CASE CancelAccepted(w)
  <2>1. pc[w] \notin Out /\ {"cancelAnswer", "waitAll"} \subseteq Places \ Out
    BY <1>11 DEF CancelAccepted, Out, Places, WaiterPlaces
  <2>2. Stay(w, "waitAll") \/ (pc' = [pc EXCEPT ![w] = "cancelAnswer"] /\ UNCHANGED waitVars)
    BY <1>11 DEF CancelAccepted
  <2> QED
    BY <2>1, <2>2, <1>3, QuietChanges DEF waitVars
<1>12. CASE \/ Connected(w) \/ QueryFails(w) \/ Interrupted(w) \/ Await(w) \/ OrderWaitEnds(w)
            \/ SiblingWaitEnds(w) \/ Decide(w) \/ CancelFails(w) \/ Recovered(w) \/ CancelWaitEnds(w)
            \/ Confirmed(w) \/ Cleanup(w)
  <2>1. pc[w] \notin Out
    BY <1>12 DEF Connected, QueryFails, Interrupted, Await, OrderWaitEnds, SiblingWaitEnds, Decide, CancelFails,
         Recovered, CancelWaitEnds, Confirmed, Cleanup, Wakes, Out
  <2>2. /\ {"filledLeg", "awaited", "cleanup", "cancel"} \subseteq Places \ Out
        /\ {"threw", "interrupted", "filled", "terminal"} \subseteq Outcomes
    BY DEF Places, WaiterPlaces, Out, Outcomes
  <2>3. \/ Stay(w, "filledLeg") \/ Stay(w, "awaited") \/ Stay(w, "cleanup") \/ Stay(w, "cancel")
        \/ Leave(w, "threw") \/ Leave(w, "interrupted") \/ Leave(w, "filled") \/ Leave(w, "terminal")
        \/ \E legs, why : Reconcile(w, legs, why)
    BY <1>12 DEF Connected, QueryFails, Interrupted, Await, OrderWaitEnds, SiblingWaitEnds, Decide, CancelFails,
         Recovered, CancelWaitEnds, Confirmed, Cleanup
  <2> QED
    BY <2>1, <2>2, <2>3, <1>2, <1>3, <1>4
<1> QED
  BY <1>1, <1>5, <1>6, <1>7, <1>8, <1>9, <1>10, <1>11, <1>12 DEF WaiterStep

LEMMA TableStep == IInv /\ [Next]_vars => TableChanges
<1> SUFFICES ASSUME IInv, [Next]_vars PROVE TableChanges
  OBVIOUS
<1> USE DEF IInv
<1>1. ASSUME UNCHANGED <<pendingOrderWaits, pc>> PROVE TableChanges
  BY <1>1 DEF TableChanges, TableKept, SameRegistrations
<1>2. CASE OrderEnds \/ UNCHANGED vars \/ \E w \in Waiters : RequestStop(w)
  BY <1>1, <1>2 DEF OrderEnds, RequestStop, vars, streamVars, waitVars
<1>3. CASE RunnerReads
  <2> DEFINE message == Head(inbox)
  <2>1. inbox \in Seq(Orders \X Ends) /\ inbox # <<>>
    BY <1>3 DEF RunnerReads, TypeOK, OrderType
  <2>2. message \in Orders \X Ends /\ message = inbox[1] /\ 1 \in 1 .. Len(inbox)
    BY <2>1
  <2>3. order[message[1]] = message[2]
    BY <2>2 DEF ReportsTrue
  <2>4. message[1] \in Orders /\ message[2] \in Statuses
    BY <2>2 DEF Statuses
  <2>5. SameRegistrations /\ publishOrderUpdate(message[1], message[2])
    BY <1>3 DEF RunnerReads, SameRegistrations
  <2> QED
    BY <2>3, <2>4, <2>5, PublishChanges
<1>4. CASE StreamStep
  <2>1. ASSUME NEW c \in Callers, Lifecycle(c) PROVE TableChanges
    <3>1. /\ \A w \in Waiters : pc'[w] \in PlainPlaces \ Out \/ pc'[w] = pc[w]
          /\ \A w \in Waiters : pc[w] \notin Out \/ pc'[w] = pc[w]
      BY <1>4, <2>1, LifecycleMoves DEF StreamStep
    <3>2. UNCHANGED pendingOrderWaits
      BY <1>4 DEF StreamStep, waitVars
    <3> QED
      BY <3>1, <3>2 DEF TableChanges, TableKept, SameRegistrations
  <2>2. CASE InterfaceCalls
    BY <1>4, <2>2, StreamAssumption
    DEF StreamStep, InterfaceCalls, waitVars, TableChanges, TableKept, SameRegistrations, TypeOK, LocalType, Callers
  <2>3. CASE RunnerThread \/ RunnerFails \/ RunnerStops
    BY <1>1, <1>4, <2>3 DEF StreamStep, RunnerThread, RunnerConnects, RunnerSubscribed, RunnerLoops, RunnerCloses,
         RunnerEnds, RunnerFails, RunnerStops, waitVars
  <2> QED
    BY <1>4, <2>1, <2>2, <2>3 DEF StreamStep
<1> QED
  BY <1>2, <1>3, <1>4, WaiterChanges DEF Next
-----------------------------------------------------------------------------
(***************************************************************************)
(* What the ways of treating the table do to its entries.                  *)
(***************************************************************************)
LEMMA RegisteredFinite ==
  ASSUME NEW o
  PROVE  /\ IsFiniteSet(Registered(o)) /\ Cardinality(Registered(o)) \in Nat
         /\ Cardinality(Registered(o)) = 0 <=> Registered(o) = {}
<1>1. Registered(o) \in SUBSET Waiters
  BY DEF Registered
<1>2. IsFiniteSet(Registered(o))
  BY <1>1, StreamAssumption, FS_Subset
<1> QED
  BY <1>2, FS_CardinalityType, FS_EmptySet

\* The entry of one order serves its waiters.
EntryServes(o) ==
  /\ pendingOrderWaits[o].count = Cardinality(Registered(o))
  /\ Registered(o) = {} => Info(o) = "none"
  /\ KnownTerminal(o) => Info(o) = order[o]

LEMMA EntriesStep == IInv /\ LocalInv /\ TableChanges => TableType' /\ EntriesServeTheirWaiters'
<1> SUFFICES ASSUME IInv, LocalInv, TableChanges PROVE TableType' /\ EntriesServeTheirWaiters'
  OBVIOUS
<1> USE DEF IInv
<1> DEFINE Entry == [count : Nat, info : Statuses \cup {"none"}]
<1>1. /\ pendingOrderWaits \in [Orders -> Entry] /\ \A o \in Orders : EntryServes(o)
      /\ \A o \in Orders : isOrderTerminal(order[o]) => order'[o] = order[o]
      /\ \A w \in Waiters : Legs(w)' = Legs(w)
  BY DEF TypeOK, TableType, EntriesServeTheirWaiters, EntryServes, LocalInv, OrdersGrow, Legs
<1>2. SUFFICES \A o \in Orders : pendingOrderWaits'[o] \in Entry /\ EntryServes(o)'
  <2>1. pendingOrderWaits' = [o \in Orders |-> pendingOrderWaits'[o]]
    BY <1>1 DEF TableChanges, TableKept, TableEntered, TableLeft, TablePublished, Register, Unregister
  <2>2. TableType'
    BY <1>2, <2>1 DEF TableType
  <2> QED
    BY <1>2, <2>2 DEF EntriesServeTheirWaiters, EntryServes
<1> TAKE o \in Orders
<1> USE DEF Info, KnownTerminal
<1>3. pendingOrderWaits[o] \in Entry /\ EntryServes(o)
  BY <1>1
<1>4. ASSUME SameRegistrations PROVE Registered(o)' = Registered(o)
  BY <1>1, <1>4 DEF SameRegistrations, Registered, Out
<1>5. ASSUME SameRegistrations, pendingOrderWaits'[o] = pendingOrderWaits[o]
      PROVE  pendingOrderWaits'[o] \in Entry /\ EntryServes(o)'
  BY <1>1, <1>3, <1>4, <1>5 DEF EntryServes
<1>6. CASE TableKept
  BY <1>5, <1>6 DEF TableKept
<1>7. ASSUME NEW p \in Orders, NEW status \in Statuses, TablePublished(p, status)
      PROVE  pendingOrderWaits'[o] \in Entry /\ EntryServes(o)'
  <2>1. CASE o # p
    BY <1>1, <1>5, <1>7, <2>1 DEF TablePublished
  <2>2. CASE o = p
    <3>1. pendingOrderWaits'[o] = [pendingOrderWaits[o] EXCEPT !.info = status]
      BY <1>1, <1>7, <2>2 DEF TablePublished
    <3>2. pendingOrderWaits'[o] \in Entry /\ pendingOrderWaits'[o].count = pendingOrderWaits[o].count
            /\ pendingOrderWaits'[o].info = status
      BY <1>3, <3>1
    <3>3. Registered(o)' = Registered(o)
      BY <1>4, <1>7 DEF TablePublished
    <3>4. Registered(o) # {}
      BY <1>3, <1>7, <2>2, RegisteredFinite DEF TablePublished, News, EntryServes
    <3>5. isOrderTerminal(status) => status = order'[o]
      BY <1>1, <1>7, <2>2 DEF TablePublished
    <3> QED
      BY <1>3, <3>2, <3>3, <3>4, <3>5 DEF EntryServes
  <2> QED
    BY <2>1, <2>2
<1>8. ASSUME NEW w \in Waiters, TableEntered(w)
      PROVE  pendingOrderWaits'[o] \in Entry /\ EntryServes(o)'
  <2>1. CASE o \in Legs(w)
    <3>1. pendingOrderWaits'[o] = [pendingOrderWaits[o] EXCEPT !.count = @ + 1]
      BY <1>8, <2>1 DEF TableEntered, Register
    <3>2. /\ pendingOrderWaits'[o] \in Entry /\ pendingOrderWaits'[o].count = pendingOrderWaits[o].count + 1
          /\ pendingOrderWaits'[o].info = pendingOrderWaits[o].info
      BY <1>3, <3>1
    <3>3. Registered(o)' = Registered(o) \cup {w} /\ w \notin Registered(o)
      BY <1>1, <1>8, <2>1 DEF TableEntered, Registered, Out
    <3>4. Cardinality(Registered(o)') = Cardinality(Registered(o)) + 1
      BY <3>3, RegisteredFinite, FS_AddElement
    <3> QED
      BY <1>1, <1>3, <3>2, <3>3, <3>4 DEF EntryServes
  <2>2. CASE o \notin Legs(w)
    <3>1. pendingOrderWaits'[o] = pendingOrderWaits[o]
      BY <1>8, <2>2 DEF TableEntered, Register
    <3>2. Registered(o)' = Registered(o)
      BY <1>1, <1>8, <2>2 DEF TableEntered, Registered, Out
    <3> QED
      BY <1>1, <1>3, <3>1, <3>2 DEF EntryServes
  <2> QED
    BY <2>1, <2>2
<1>9. ASSUME NEW w \in Waiters, TableLeft(w)
      PROVE  pendingOrderWaits'[o] \in Entry /\ EntryServes(o)'
  <2>1. CASE o \in Legs(w)
    <3>1. Registered(o)' = Registered(o) \ {w} /\ w \in Registered(o)
      BY <1>1, <1>9, <2>1 DEF TableLeft, Registered, Out
    <3>2. Cardinality(Registered(o)') = Cardinality(Registered(o)) - 1
      BY <3>1, RegisteredFinite, FS_RemoveElement
    <3>3. CASE pendingOrderWaits[o].count > 1
      <4>1. pendingOrderWaits'[o] = [pendingOrderWaits[o] EXCEPT !.count = @ - 1]
        BY <1>9, <2>1, <3>3 DEF TableLeft, Unregister
      <4>2. /\ pendingOrderWaits'[o] \in Entry /\ pendingOrderWaits'[o].count = pendingOrderWaits[o].count - 1
            /\ pendingOrderWaits'[o].info = pendingOrderWaits[o].info
        BY <1>3, <3>3, <4>1
      <4>3. Registered(o)' # {}
        <5>1. Cardinality(Registered(o)') # 0
          BY <1>3, <3>2, <3>3 DEF EntryServes
        <5> QED
          BY <5>1, FS_EmptySet
      <4> QED
        BY <1>1, <1>3, <3>2, <4>2, <4>3 DEF EntryServes
    <3>4. CASE ~(pendingOrderWaits[o].count > 1)
      <4>1. pendingOrderWaits'[o] = [count |-> 0, info |-> "none"]
        BY <1>9, <2>1, <3>4 DEF TableLeft, Unregister
      <4>2. Cardinality(Registered(o)) # 0
        BY <3>1, RegisteredFinite
      <4>3. Cardinality(Registered(o)') = 0
        BY <1>3, <3>2, <3>4, <4>2, RegisteredFinite DEF EntryServes
      <4> QED
        BY <4>1, <4>3 DEF EntryServes, isOrderTerminal
    <3> QED
      BY <3>3, <3>4
  <2>2. CASE o \notin Legs(w)
    <3>1. pendingOrderWaits'[o] = pendingOrderWaits[o]
      BY <1>9, <2>2 DEF TableLeft, Unregister
    <3>2. Registered(o)' = Registered(o)
      BY <1>1, <1>9, <2>2 DEF TableLeft, Registered, Out
    <3> QED
      BY <1>1, <1>3, <3>1, <3>2 DEF EntryServes
  <2> QED
    BY <2>1, <2>2
<1> QED
  BY <1>6, <1>7, <1>8, <1>9 DEF TableChanges

\* What the table knows of an end, it knows as long as it has the entry.
LEMMA EndStays ==
  ASSUME TableType, TableChanges, NEW o \in Orders, KnownTerminal(o), pendingOrderWaits'[o].count > 0
  PROVE  isOrderTerminal(pendingOrderWaits'[o].info)
<1> USE DEF TableType, Info, KnownTerminal
<1>1. CASE TableKept
  BY <1>1 DEF TableKept
<1>2. ASSUME NEW w \in Waiters, TableEntered(w) PROVE isOrderTerminal(pendingOrderWaits'[o].info)
  BY <1>2 DEF TableEntered, Register
<1>3. ASSUME NEW w \in Waiters, TableLeft(w) PROVE isOrderTerminal(pendingOrderWaits'[o].info)
  BY <1>3 DEF TableLeft, Unregister
<1>4. ASSUME NEW p \in Orders, NEW status \in Statuses, TablePublished(p, status)
      PROVE  isOrderTerminal(pendingOrderWaits'[o].info)
  BY <1>4 DEF TablePublished, News, isOrderTerminal
<1> QED
  BY <1>1, <1>2, <1>3, <1>4 DEF TableChanges
-----------------------------------------------------------------------------
LEMMA InitInv == Init => IInv
<1> SUFFICES ASSUME Init PROVE IInv
  OBVIOUS
<1>1. CallType
  BY DEF Init, CallType
<1>2. OrderType /\ ReportsTrue /\ TableType
  BY DEF Init, StreamInit, OrderType, ReportsTrue, TableType, Statuses
<1>3. LocalType
  BY DEF Init, StreamInit, LocalType, Callers, Places, WaiterPlaces, Out, Outcomes
<1>4. ASSUME NEW w \in Waiters PROVE WaiterTrue(w)
  <2>1. pc[w] = "idle" /\ result[w] = "none"
    BY DEF Init, StreamInit, Callers
  <2> QED
    BY <2>1 DEF WaiterTrue, ResultTrue
<1>5. ASSUME NEW o \in Orders PROVE EntryServes(o)
  <2>1. Registered(o) = {} /\ pendingOrderWaits[o] = [count |-> 0, info |-> "none"]
    BY DEF Init, StreamInit, Registered, Callers
  <2> QED
    BY <2>1, FS_EmptySet DEF EntryServes, Info, KnownTerminal, isOrderTerminal
<1> QED
  BY <1>1, <1>2, <1>3, <1>4, <1>5 DEF IInv, TypeOK, EntriesServeTheirWaiters, EntryServes

LEMMA StepInv == IInv /\ [Next]_vars => IInv'
<1> SUFFICES ASSUME IInv, [Next]_vars PROVE IInv'
  OBVIOUS
<1>1. LocalInv /\ TableChanges
  BY LocalStep, TableStep
<1>2. TableType' /\ EntriesServeTheirWaiters'
  BY <1>1, EntriesStep
<1>3. CallType'
  BY <1>1 DEF LocalInv, IInv, TypeOK, CallType
<1> QED
  BY <1>1, <1>2, <1>3 DEF LocalInv, OrdersGrow, IInv, TypeOK

\* The table, the calls and the reports fit together in every state (pendingOrderWaits of
\* BinanceDealService with everything that reads and writes it).
THEOREM InvariantHolds == Spec => []IInv
  BY InitInv, StepInv, PTL DEF Spec

\* registerOrderWait and its destructor, publishOrderUpdate: the entry of an order is there
\* exactly while some call needs it, and what it says of an end is true.
THEOREM EntriesAreServed == Spec => []EntriesServeTheirWaiters
<1>1. IInv => EntriesServeTheirWaiters
  BY DEF IInv
<1> QED
  BY <1>1, InvariantHolds, PTL

\* waitUntilOrderFilled, waitUntilOcoOrderFilled and the two calls that cancel: what they
\* return is what happened at the exchange.
THEOREM AnswersHold == Spec => []AnswersAreTrue
<1>1. IInv => AnswersAreTrue
  BY DEF IInv, WaiterTrue, ResultTrue, AnswersAreTrue
<1> QED
  BY <1>1, InvariantHolds, PTL

\* publishOrderUpdate: an end that is known is not taken back, not by an older REST answer
\* either, while anybody waits for the order.
THEOREM EndsStayKnown == Spec => KnownEndStays
<1>1. IInv /\ [Next]_vars =>
        [\A o \in Orders : KnownTerminal(o) /\ pendingOrderWaits'[o].count > 0
           => isOrderTerminal(pendingOrderWaits'[o].info)]_vars
  BY TableStep, EndStays DEF IInv, TypeOK
<1> QED
  BY <1>1, InvariantHolds, PTL DEF Spec, KnownEndStays
=============================================================================
