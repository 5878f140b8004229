------------------------------ MODULE MCOrderEntry ------------------------------
(***************************************************************************)
(* Two exchanges that share a pair but not its rules.  Values are tenths.  *)
(***************************************************************************)
EXTENDS OrderEntry

Listed == [BINANCE |-> <<<<"A", "U">>>>, BYBIT |-> <<<<"A", "U">>, <<"B", "V">>>>]

Halves == [stepSize |-> 5, minQty |-> 5, maxQty |-> 20, tickSize |-> 10, minPrice |-> 10, maxPrice |-> 30,
           minNotional |-> 150, maxNotional |-> 0, qtyPrecision |-> 0, pricePrecision |-> 0]
Wholes == [Halves EXCEPT !.stepSize = 10, !.minQty = 0, !.maxQty = 0, !.tickSize = 5, !.minPrice = 0, !.maxNotional = 200]
Closed == [Halves EXCEPT !.stepSize = 0]

Infos == [BINANCE |-> <<"A", "U">> :> Halves,
          BYBIT |-> (<<"A", "U">> :> Wholes) @@ (<<"B", "V">> :> Closed)]

\* "1" and "3"; as prices "0.5", which breaks a tick, "1", which is too little with "1", and "2".
Amounts == {[value |-> 10, places |-> 0], [value |-> 30, places |-> 0]}
Prices == {[value |-> 5, places |-> 1], [value |-> 10, places |-> 0], [value |-> 20, places |-> 0]}
TickerPrices == {0, 5, 20}
===============================================================================
