------------------------------ MODULE SymbolRules ------------------------------
(***************************************************************************)
(* The trading rules of a symbol, and the two places that check them: what *)
(* a user types, before an order is confirmed, and the order requests of   *)
(* the two exchange services.  A decimal is a number of units of           *)
(* 10^-Digits, a notional (quantity times price) one of 10^-2*Digits; both *)
(* fit the 34 digits of the program's decimals, so arithmetic is exact.    *)
(* A rule of 0 is absent.  The wording of the errors is left out.          *)
(***************************************************************************)
EXTENDS Integers, FiniteSetsExt

CONSTANT Digits

ASSUME DigitsAssumption == Digits \in Nat

Sides == {"BUY", "SELL"}
-----------------------------------------------------------------------------
isIncrementValid(value, increment) == value % increment = 0

\* SymbolRuleValidator: whether a violation is reported.
QuantityAllowed(q, info) ==
  /\ info.stepSize > 0 /\ isIncrementValid(q, info.stepSize)
  /\ info.minQty > 0 => q >= info.minQty
  /\ info.maxQty > 0 => q <= info.maxQty

PriceAllowed(p, info) ==
  /\ info.tickSize > 0 /\ isIncrementValid(p, info.tickSize)
  /\ info.minPrice > 0 => p >= info.minPrice
  /\ info.maxPrice > 0 => p <= info.maxPrice

NotionalAllowed(n, info) ==
  /\ info.minNotional > 0 => n >= info.minNotional
  /\ info.maxNotional > 0 => n <= info.maxNotional
-----------------------------------------------------------------------------
(***************************************************************************)
(* Typed input.  A text is the decimal it denotes and the number of digits *)
(* after its point; a text that parsePositiveDecimal refuses (empty,       *)
(* malformed, too long, not positive) has value 0.                         *)
(***************************************************************************)
NoText == [value |-> 0, places |-> 0]

decimalsFromStep(step) == Min({d \in 0 .. Digits : (step * 10 ^ d) % (10 ^ Digits) = 0})

getAllowedDecimalPlaces(increment, precision) ==
  IF precision > 0 THEN Min({decimalsFromStep(increment), precision}) ELSE decimalsFromStep(increment)

QuantityTextValid(text, info) ==
  /\ text.value > 0
  /\ QuantityAllowed(text.value, info)
  /\ text.places <= getAllowedDecimalPlaces(info.stepSize, info.qtyPrecision)

PriceTextValid(text, info) ==
  /\ text.value > 0
  /\ PriceAllowed(text.value, info)
  /\ text.places <= getAllowedDecimalPlaces(info.tickSize, info.pricePrecision)
-----------------------------------------------------------------------------
(***************************************************************************)
(* Requests.  An order is [side, type, quantity, price]; ticker is the     *)
(* market's price when the service asks for it, 0 when it has none.  The   *)
(* checks answer "passed", "rules" when what the order says breaks a rule, *)
(* or "market" when only the price of the moment does.                     *)
(***************************************************************************)
Answer(holds, reason, next) == IF holds THEN next ELSE reason

\* validateQuantity of a service: the quantity's rules, then the notional's.
QuantityCheck(o, price, info) ==
  Answer(QuantityAllowed(o.quantity, info), "rules",
    Answer(/\ price <= 0 => info.minNotional <= 0 /\ info.maxNotional <= 0
           /\ price > 0 => NotionalAllowed(o.quantity * price, info),
           IF o.type = "LIMIT" THEN "rules" ELSE "market", "passed"))

PriceUsed(o, ticker) == IF o.type = "LIMIT" THEN o.price ELSE ticker

ValidOrderRequest(o) == o.quantity > 0 /\ (o.type = "LIMIT" => o.price > 0)

LimitPriceAllowed(o, info) == o.type = "LIMIT" => PriceAllowed(o.price, info)

\* Binance: placeOrder, up to the balance.
BinanceOrderCheck(o, ticker, info) ==
  Answer(ValidOrderRequest(o) /\ LimitPriceAllowed(o, info), "rules",
    QuantityCheck(o, PriceUsed(o, ticker), info))

\* Bybit: placeOrder, where the quantity of a sale is checked by nobody.
BybitOrderCheck(o, ticker, info) ==
  Answer(ValidOrderRequest(o) /\ LimitPriceAllowed(o, info), "rules",
    IF o.side = "BUY" THEN QuantityCheck(o, PriceUsed(o, ticker), info) ELSE "passed")

\* A pair is [side, quantity, price, stopPrice, stopLimitPrice], the last 0 when it is not set.
TakeProfit(r) == [side |-> r.side, type |-> "LIMIT", quantity |-> r.quantity, price |-> r.price]

StopLoss(r) ==
  [side |-> r.side, type |-> IF r.stopLimitPrice > 0 THEN "LIMIT" ELSE "MARKET",
   quantity |-> r.quantity, price |-> r.stopLimitPrice]

ValidOcoRequest(r) == r.quantity > 0 /\ r.price > 0 /\ r.stopPrice > 0

PairPricesAllowed(r, info) ==
  /\ PriceAllowed(r.price, info) /\ PriceAllowed(r.stopPrice, info)
  /\ r.stopLimitPrice > 0 => PriceAllowed(r.stopLimitPrice, info)

\* The price that the lower leg is judged at: without a limit, its trigger.
BelowPrice(r) == IF r.stopLimitPrice > 0 THEN r.stopLimitPrice ELSE r.stopPrice

\* Binance: placeOco checks prices, quantity and the notional of both legs before its one request.
BinanceOcoCheck(r, info) ==
  Answer(/\ ValidOcoRequest(r) /\ PairPricesAllowed(r, info)
         /\ QuantityAllowed(r.quantity, info)
         /\ \A price \in {r.price, BelowPrice(r)} : NotionalAllowed(r.quantity * price, info),
         "rules", "passed")

\* Bybit: placeOco checks the prices, then places the two legs one after the other.
BybitOcoCheck(r, ticker, info) ==
  LET first == BybitOrderCheck(TakeProfit(r), ticker, info) IN
  Answer(ValidOcoRequest(r) /\ PairPricesAllowed(r, info), "rules",
    Answer(first = "passed", first, BybitOrderCheck(StopLoss(r), ticker, info)))
===============================================================================
