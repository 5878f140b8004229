-------------------------- MODULE MCBinanceOrderWaits --------------------------
(***************************************************************************)
(* Calls for TLC: an OCO wait beside a cancellation of the same pair, and  *)
(* one caller who waits for an order or cancels it.                        *)
(***************************************************************************)
EXTENDS BinanceOrderWaits

Pair(kind) == [kind |-> kind, legs |-> <<"takeProfit", "stopLoss">>]

Single(kind) == [kind |-> kind, legs |-> <<"order">>]

OcoCalls == [w \in Waiters |-> IF w = "w1" THEN {Pair("waitOco")} ELSE {Pair("cancelOco")}]

OrderCalls == [w \in Waiters |-> {Single("waitOrder"), Single("cancelOrder")}]
=============================================================================
