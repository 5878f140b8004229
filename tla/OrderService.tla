---------------------------- MODULE OrderService ----------------------------
(***************************************************************************)
(* The orders one operation-chain run places, as the exchange holds them,  *)
(* and what the DealService wait and cancel calls answer about them.  An   *)
(* ordinary order has one leg and an OCO order two.  The state of a leg is *)
(* its OrderStatusState; NONE is a leg never placed.  CANCELLED includes a *)
(* cancellation after a partial fill, as in OrderStatusUtil.               *)
(*                                                                         *)
(* streamUp says whether the private user stream of the exchange is        *)
(* connected.  A wait that is under way learns the state of its legs while *)
(* the stream is up: updates lost between a disconnect and a reconnect of  *)
(* the stream are not modelled here.                                       *)
(***************************************************************************)
EXTENDS Naturals, Sequences

CONSTANT Operations      \* the types of the operations of the chain, in order

OperationType == {"PLACE_ORDER", "PLACE_OCO", "SEND_TO"}

ASSUME OperationsAssumption ==
  /\ Operations \in Seq(OperationType)
  /\ Operations # <<>>

VARIABLES
  legs,                  \* the status of every leg of every step
  streamUp               \* is the user stream connected?

serviceVars == <<legs, streamUp>>
-----------------------------------------------------------------------------
Steps == 1 .. Len(Operations)

Leg == {"order", "takeProfit", "stopLoss"}

\* BUY_CRYPTO and SELL_CRYPTO place one order, exactly as PLACE_ORDER does.
Legs(s) == CASE Operations[s] = "PLACE_ORDER" -> {"order"}
             [] Operations[s] = "PLACE_OCO"   -> {"takeProfit", "stopLoss"}
             [] OTHER                         -> {}

IsOrder(s) == Operations[s] # "SEND_TO"

Terminal == {"FILLED", "CANCELLED", "OTHER_TERMINAL"}

Unfilled == {"CANCELLED", "OTHER_TERMINAL"}

LegStatus == {"NONE", "ACTIVE"} \cup Terminal

Placed(s) == \E l \in Legs(s) : legs[s][l] # "NONE"

AllTerminal(s) == \A l \in Legs(s) : legs[s][l] \in Terminal

AnyFilled(s) == \E l \in Legs(s) : legs[s][l] = "FILLED"

AllCancelled(s) == \A l \in Legs(s) : legs[s][l] = "CANCELLED"

\* waitUntilOrderFilled, waitUntilOcoOrderFilled return: one leg is filled
\* and every other leg is terminal without a fill.
WaitSucceeds(s) ==
  \E l \in Legs(s) : /\ legs[s][l] = "FILLED"
                     /\ \A m \in Legs(s) \ {l} : legs[s][m] \in Unfilled

\* They throw: a leg ended unfilled and none is filled, or two are filled.
WaitFails(s) ==
  \/ ~AnyFilled(s) /\ \E l \in Legs(s) : legs[s][l] \in Unfilled
  \/ \E l, m \in Legs(s) : l # m /\ legs[s][l] = "FILLED" /\ legs[s][m] = "FILLED"
-----------------------------------------------------------------------------
ServiceInit ==
  /\ legs = [s \in Steps |-> [l \in Leg |-> "NONE"]]
  /\ streamUp \in BOOLEAN

\* Some legs of step s reach the exchange: all of them when the request
\* succeeds; none, or some, when it fails or its answer is lost.
PlaceLegs(s, placed) ==
  legs' = [legs EXCEPT ![s] = [l \in Leg |-> IF l \in placed THEN "ACTIVE" ELSE @[l]]]

EndLeg(s, l, status) ==
  /\ legs[s][l] = "ACTIVE"
  /\ legs' = [legs EXCEPT ![s][l] = status]
  /\ UNCHANGED streamUp

\* The exchange fills, cancels, rejects or expires an order on its own.
ExchangeEndsLeg == \E s \in Steps, l \in Leg, status \in Terminal : EndLeg(s, l, status)

\* The stream reader fails (setStreamError) or the server closes the stream.
StreamDrops ==
  /\ streamUp
  /\ streamUp' = FALSE
  /\ UNCHANGED legs

ServiceTypeOK ==
  /\ legs \in [Steps -> [Leg -> LegStatus]]
  /\ streamUp \in BOOLEAN
=============================================================================
