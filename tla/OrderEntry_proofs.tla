---------------------------- MODULE OrderEntry_proofs ----------------------------
(***************************************************************************)
(* For any exchanges, pairs, rules and typed numbers: the button of the    *)
(* order form is enabled exactly when pressing it makes a draft, and no    *)
(* draft breaks a rule the service checks.                                 *)
(*                                                                         *)
(* The invariant says that the form has been judged since the last event   *)
(* that could change the verdict, also when catalogs answer one after the  *)
(* other, and that a draft which left the form keeps to the rules.         *)
(***************************************************************************)
EXTENDS OrderEntry, TLAPS

Fields ==
  {"pairLoad", "infoLoad", "balanceLoad", "hasSnapshot", "exchange", "base", "quote", "operation", "type",
   "useStopLimit", "text", "inputEnabled", "proceed"}

TextFields == PriceFields \cup {"amount"}

\* The shape of the catalogs and of the form.
Form(s) ==
  /\ DOMAIN s = Fields
  /\ DOMAIN s.pairLoad = Exchanges /\ DOMAIN s.balanceLoad = Exchanges /\ DOMAIN s.hasSnapshot = Exchanges
  /\ DOMAIN s.infoLoad = Exchanges /\ \A e \in Exchanges : DOMAIN s.infoLoad[e] = Pairs[e]
  /\ s.exchange \in Exchanges
  /\ s.operation \in Operations /\ s.type \in {"MARKET", "LIMIT"}
  /\ DOMAIN s.text = TextFields /\ \A f \in TextFields : s.text[f].value \in Nat

\* What validateForm says of the form.
Judged(s) ==
  /\ hasSymbolInfo(s)
  /\ FieldsValid(s, getSelectedSymbolInfo(s)) /\ validateActiveNotional(s, getSelectedSymbolInfo(s))
  /\ hasReadySelectedBalances(s)

\* The button shows the verdict.
Consistent(s) == Form(s) /\ (s.proceed <=> Judged(s))

\* No service refuses the draft for a rule.
Meets(d) == d # NoDraft => \A ticker \in Tickers : ServiceCheck(d, ticker) # "rules"

(***************************************************************************)
(* The inductive invariant.                                                *)
(***************************************************************************)
IInv == Consistent(ui) /\ Meets(dialog) /\ Meets(submitted) /\ answer # "rules"
-----------------------------------------------------------------------------
(***************************************************************************)
(* Button and draft read the same rules.                                   *)
(***************************************************************************)
\* Two forms with the same choices and the same catalogs for them are judged the same.
LEMMA JudgedAlike ==
  ASSUME NEW s, NEW t, \A f \in {"exchange", "operation", "type", "useStopLimit", "text"} : s[f] = t[f],
         getSelectedPair(s) = getSelectedPair(t), hasSymbolInfo(s) <=> hasSymbolInfo(t),
         hasReadySelectedBalances(s) <=> hasReadySelectedBalances(t)
  PROVE  Judged(s) <=> Judged(t)
<1>1. /\ s.exchange = t.exchange /\ s.operation = t.operation /\ s.type = t.type
      /\ s.useStopLimit = t.useStopLimit /\ s.text = t.text
  OBVIOUS
<1>2. getSelectedSymbolInfo(s) = getSelectedSymbolInfo(t)
  BY <1>1 DEF getSelectedSymbolInfo
<1>3. /\ hasActivePlaceOrderPrice(s) <=> hasActivePlaceOrderPrice(t)
      /\ hasActiveOcoStopLimitPrice(s) <=> hasActiveOcoStopLimitPrice(t)
  BY <1>1 DEF hasActivePlaceOrderPrice, hasActiveOcoStopLimitPrice
<1>4. ActiveFields(s) = ActiveFields(t)
  BY <1>1, <1>3 DEF ActiveFields
<1> DEFINE info == getSelectedSymbolInfo(t)
<1>5. FieldsValid(s, info) <=> FieldsValid(t, info)
  BY <1>1, <1>4 DEF FieldsValid
<1>6. validateActiveNotional(s, info) <=> validateActiveNotional(t, info)
  BY <1>1, <1>3, <1>4 DEF validateActiveNotional, NotionalOf
<1> QED
  BY <1>2, <1>5, <1>6 DEF Judged

\* A form that differs only in what is shown is judged the same.
LEMMA JudgedSame ==
  ASSUME NEW s, NEW t, \A f \in Fields \ {"proceed", "inputEnabled"} : s[f] = t[f]
  PROVE  Judged(s) <=> Judged(t)
<1>1. /\ s.pairLoad = t.pairLoad /\ s.infoLoad = t.infoLoad /\ s.hasSnapshot = t.hasSnapshot
      /\ s.exchange = t.exchange /\ s.base = t.base /\ s.quote = t.quote
      /\ \A f \in {"exchange", "operation", "type", "useStopLimit", "text"} : s[f] = t[f]
  BY DEF Fields
<1>2. getSelectedPair(s) = getSelectedPair(t)
  BY <1>1 DEF getSelectedPair, hasUsableSelectedCatalog
<1>3. /\ hasSymbolInfo(s) <=> hasSymbolInfo(t)
      /\ hasReadySelectedBalances(s) <=> hasReadySelectedBalances(t)
  BY <1>1, <1>2 DEF hasSymbolInfo, hasReadySelectedBalances
<1> QED
  BY <1>1, <1>2, <1>3, JudgedAlike

\* validateForm and the draft agree.
LEMMA DraftIffJudged ==
  ASSUME NEW s, Form(s), NEW side
  PROVE  CreateDraft(s, side) # NoDraft <=> Judged(s)
<1> DEFINE info == getSelectedSymbolInfo(s)
<1>1. Judged(s) <=> /\ DraftReady(s)
                    /\ \A f \in ActiveFields(s) : PriceTextValid(s.text[f], info)
                    /\ validateActiveNotional(s, info)
  BY DEF Judged, DraftReady, FieldsValid, hasSymbolInfo
<1>2. \A way, type, price : BasicDraft(s, way, type, price) # NoDraft /\ OcoDraft(s, way, price) # NoDraft
  <2>1. \A way, type, price : /\ "side" \in DOMAIN BasicDraft(s, way, type, price)
                              /\ "side" \in DOMAIN OcoDraft(s, way, price)
    BY DEF BasicDraft, OcoDraft
  <2>2. "side" \notin DOMAIN NoDraft
    BY DEF NoDraft
  <2> QED
    BY <2>1, <2>2
<1>3. ActiveFields(s) = CASE s.operation = "PLACE_ORDER" /\ s.type = "LIMIT" -> {"placeOrderPrice"}
                          [] s.operation = "PLACE_OCO" /\ s.useStopLimit ->
                               {"ocoLimitPrice", "ocoStopPrice", "ocoStopLimitPrice"}
                          [] s.operation = "PLACE_OCO" /\ ~s.useStopLimit -> {"ocoLimitPrice", "ocoStopPrice"}
                          [] OTHER -> {}
  BY DEF ActiveFields, hasActivePlaceOrderPrice, hasActiveOcoStopLimitPrice
<1>4. hasActiveOcoStopLimitPrice(s) <=> s.operation = "PLACE_OCO" /\ s.useStopLimit
  BY DEF hasActiveOcoStopLimitPrice
<1> DEFINE Priced(f) == PriceTextValid(s.text[f], info) /\ NotionalAllowed(NotionalOf(s, f), info)
<1>5. \A f : PricedField(s, f) <=> Priced(f)
  BY DEF PricedField
<1> DEFINE Prices == /\ \A f \in ActiveFields(s) : PriceTextValid(s.text[f], info)
                     /\ validateActiveNotional(s, info)
<1>6. CASE s.operation \in {"BUY_CRYPTO", "SELL_CRYPTO"} \/ (s.operation = "PLACE_ORDER" /\ s.type = "MARKET")
  <2>1. Prices
    BY <1>3, <1>6 DEF validateActiveNotional
  <2>2. CreateDraft(s, side) # NoDraft <=> DraftReady(s)
    BY <1>2, <1>6 DEF CreateDraft, createBasicOrderDraft, hasActivePlaceOrderPrice
  <2> QED
    BY <1>1, <2>1, <2>2
<1>7. CASE s.operation = "PLACE_ORDER" /\ s.type = "LIMIT"
  <2>1. ActiveFields(s) = {"placeOrderPrice"} /\ ~hasActiveOcoStopLimitPrice(s)
    BY <1>3, <1>4, <1>7
  <2>2. Prices <=> Priced("placeOrderPrice")
    BY <2>1 DEF validateActiveNotional
  <2>3. CreateDraft(s, side) # NoDraft <=> DraftReady(s) /\ PricedField(s, "placeOrderPrice")
    BY <1>2, <1>7 DEF CreateDraft, createBasicOrderDraft, hasActivePlaceOrderPrice
  <2> QED
    BY <1>1, <1>5, <2>2, <2>3
<1>8. CASE s.operation = "PLACE_OCO" /\ s.useStopLimit
  <2>1. ActiveFields(s) = {"ocoLimitPrice", "ocoStopPrice", "ocoStopLimitPrice"} /\ hasActiveOcoStopLimitPrice(s)
    BY <1>3, <1>4, <1>8
  <2>2. ActiveFields(s) \ {"ocoStopPrice"} = {"ocoLimitPrice", "ocoStopLimitPrice"}
    BY <2>1
  <2>3. Prices <=> Priced("ocoLimitPrice") /\ PriceTextValid(s.text["ocoStopPrice"], info) /\ Priced("ocoStopLimitPrice")
    BY <2>1, <2>2 DEF validateActiveNotional
  <2>4. CreateDraft(s, side) # NoDraft <=>
          /\ DraftReady(s) /\ PricedField(s, "ocoLimitPrice") /\ PriceTextValid(s.text["ocoStopPrice"], info)
          /\ PricedField(s, "ocoStopLimitPrice")
    BY <1>2, <1>8, <2>1 DEF CreateDraft, createOcoOrderDraft
  <2> QED
    BY <1>1, <1>5, <2>3, <2>4
<1>9. CASE s.operation = "PLACE_OCO" /\ ~s.useStopLimit
  <2>1. ActiveFields(s) = {"ocoLimitPrice", "ocoStopPrice"} /\ ~hasActiveOcoStopLimitPrice(s)
    BY <1>3, <1>4, <1>9
  <2>2. ActiveFields(s) \ {} = {"ocoLimitPrice", "ocoStopPrice"}
    BY <2>1
  <2>3. Prices <=> Priced("ocoLimitPrice") /\ Priced("ocoStopPrice")
    BY <2>1, <2>2 DEF validateActiveNotional
  <2>4. CreateDraft(s, side) # NoDraft <=>
          /\ DraftReady(s) /\ PricedField(s, "ocoLimitPrice") /\ PriceTextValid(s.text["ocoStopPrice"], info)
          /\ PricedField(s, "ocoStopPrice")
    BY <1>2, <1>9, <2>1 DEF CreateDraft, createOcoOrderDraft
  <2> QED
    BY <1>1, <1>5, <2>3, <2>4
<1> QED
  BY <1>6, <1>7, <1>8, <1>9 DEF Form, Operations

\* A draft keeps to the rules that the service checks, whatever the market says.
LEMMA DraftMeets ==
  ASSUME NEW s, Form(s), NEW side
  PROVE  Meets(CreateDraft(s, side))
<1> DEFINE d == CreateDraft(s, side)
           info == getSelectedSymbolInfo(s)
           quantity == s.text.amount.value
<1> SUFFICES ASSUME d # NoDraft, NEW ticker \in Tickers
             PROVE  ServiceCheck(d, ticker) # "rules"
  BY DEF Meets
<1>1. DraftReady(s) /\ QuantityAllowed(quantity, info) /\ quantity > 0
  BY DEF CreateDraft, createBasicOrderDraft, createOcoOrderDraft, DraftReady, QuantityTextValid
<1>2. /\ quantity \in Nat /\ ticker \in Nat
      /\ \A f \in PriceFields : s.text[f].value \in Nat
  BY EntryAssumption DEF Form, TextFields
<1>3. \A f \in PriceFields : PricedField(s, f) =>
        /\ s.text[f].value > 0 /\ PriceAllowed(s.text[f].value, info)
        /\ NotionalAllowed(quantity * s.text[f].value, info)
  BY DEF PricedField, PriceTextValid, NotionalOf
\* An order of the form passes, or the market refuses it.
<1>4. ASSUME NEW o, o.quantity = quantity, NEW price, o.price = price, price \in Nat,
             \/ o.type = "MARKET"
             \/ o.type = "LIMIT" /\ price > 0 /\ PriceAllowed(price, info) /\ NotionalAllowed(quantity * price, info)
      PROVE  BinanceOrderCheck(o, ticker, info) # "rules" /\ BybitOrderCheck(o, ticker, info) # "rules"
  <2>1. ValidOrderRequest(o) /\ LimitPriceAllowed(o, info)
    BY <1>1, <1>4 DEF ValidOrderRequest, LimitPriceAllowed
  <2>2. QuantityCheck(o, PriceUsed(o, ticker), info) # "rules"
    <3>1. CASE o.type = "MARKET"
      BY <1>1, <1>4, <3>1 DEF QuantityCheck, Answer
    <3>2. CASE o.type = "LIMIT" /\ price > 0 /\ NotionalAllowed(quantity * price, info)
      <4>1. ~(price <= 0)
        BY <1>4, <3>2
      <4>2. PriceUsed(o, ticker) = price
        BY <1>4, <3>2 DEF PriceUsed
      <4> QED
        BY <1>1, <1>4, <3>2, <4>1, <4>2 DEF QuantityCheck, Answer
    <3> QED
      BY <1>4, <3>1, <3>2
  <2> QED
    BY <2>1, <2>2 DEF BinanceOrderCheck, BybitOrderCheck, Answer
<1>5. CASE s.operation # "PLACE_OCO"
  <2>1. \/ \E way : d = BasicDraft(s, way, "MARKET", 0)
        \/ \E way : /\ PricedField(s, "placeOrderPrice")
                    /\ d = BasicDraft(s, way, "LIMIT", s.text["placeOrderPrice"].value)
    BY <1>5 DEF CreateDraft, createBasicOrderDraft
  <2>2. PICK type \in {"MARKET", "LIMIT"}, price \in Nat :
          /\ \E way : d = BasicDraft(s, way, type, price)
          /\ \/ type = "MARKET"
             \/ price > 0 /\ PriceAllowed(price, info) /\ NotionalAllowed(quantity * price, info)
    <3>1. CASE \E way : d = BasicDraft(s, way, "MARKET", 0)
      BY <3>1
    <3>2. CASE \E way : /\ PricedField(s, "placeOrderPrice")
                        /\ d = BasicDraft(s, way, "LIMIT", s.text["placeOrderPrice"].value)
      <4>1. "placeOrderPrice" \in PriceFields
        BY DEF PriceFields
      <4> HIDE DEF d
      <4> QED
        BY <1>2, <1>3, <3>2, <4>1
    <3> HIDE DEF d
    <3> QED
      BY <2>1, <3>1, <3>2
  <2>3. d.exchange = s.exchange /\ d.pair = getSelectedPair(s) /\ d.type = type /\ d.quantity = quantity /\ d.price = price
    BY <2>2 DEF BasicDraft
  <2> HIDE DEF d
  <2>4. BinanceOrderCheck(d, ticker, info) # "rules" /\ BybitOrderCheck(d, ticker, info) # "rules"
    BY <1>4, <2>2, <2>3
  <2>5. SymbolInfo[d.exchange][d.pair] = info /\ d.type # "OCO"
    BY <2>3 DEF getSelectedSymbolInfo
  <2> QED
    BY <2>4, <2>5 DEF ServiceCheck
<1>6. CASE s.operation = "PLACE_OCO"
  <2> DEFINE price == s.text["ocoLimitPrice"].value
             stopPrice == s.text["ocoStopPrice"].value
             stopLimitPrice == IF hasActiveOcoStopLimitPrice(s) THEN s.text["ocoStopLimitPrice"].value ELSE 0
  <2>1. /\ d = OcoDraft(s, side, stopLimitPrice)
        /\ PricedField(s, "ocoLimitPrice") /\ PriceTextValid(s.text["ocoStopPrice"], info)
        /\ IF hasActiveOcoStopLimitPrice(s) THEN PricedField(s, "ocoStopLimitPrice") ELSE PricedField(s, "ocoStopPrice")
    BY <1>6 DEF CreateDraft, createOcoOrderDraft
  <2>2. /\ price \in Nat /\ stopPrice \in Nat /\ stopLimitPrice \in Nat
        /\ price > 0 /\ PriceAllowed(price, info) /\ NotionalAllowed(quantity * price, info)
        /\ stopPrice > 0 /\ PriceAllowed(stopPrice, info)
        /\ stopLimitPrice > 0 => PriceAllowed(stopLimitPrice, info) /\ NotionalAllowed(quantity * stopLimitPrice, info)
        /\ ~(stopLimitPrice > 0) => NotionalAllowed(quantity * stopPrice, info)
    BY <1>2, <1>3, <2>1 DEF PriceFields, PriceTextValid
  <2>3. /\ d.exchange = s.exchange /\ d.pair = getSelectedPair(s) /\ d.type = "OCO" /\ d.quantity = quantity
        /\ d.price = price /\ d.stopPrice = stopPrice /\ d.stopLimitPrice = stopLimitPrice
    BY <2>1 DEF OcoDraft
  <2> HIDE DEF d, price, stopPrice, stopLimitPrice
  <2>4. ValidOcoRequest(d)
    BY <1>1, <2>2, <2>3 DEF ValidOcoRequest
  <2>5. BybitOrderCheck(TakeProfit(d), ticker, info) # "rules"
    <3>1. TakeProfit(d).quantity = quantity /\ TakeProfit(d).price = price /\ TakeProfit(d).type = "LIMIT"
      BY <2>3 DEF TakeProfit
    <3> QED
      BY <1>4, <2>2, <3>1
  <2>6. BybitOrderCheck(StopLoss(d), ticker, info) # "rules"
    <3>1. /\ StopLoss(d).quantity = quantity /\ StopLoss(d).price = stopLimitPrice
          /\ StopLoss(d).type = IF stopLimitPrice > 0 THEN "LIMIT" ELSE "MARKET"
      BY <2>3 DEF StopLoss
    <3> QED
      BY <1>4, <2>2, <3>1
  <2>7. BinanceOcoCheck(d, info) # "rules" /\ BybitOcoCheck(d, ticker, info) # "rules"
    <3>1. PairPricesAllowed(d, info)
      BY <2>2, <2>3 DEF PairPricesAllowed
    <3>2. \A p \in {d.price, BelowPrice(d)} : NotionalAllowed(d.quantity * p, info)
      BY <2>2, <2>3 DEF BelowPrice
    <3> QED
      BY <1>1, <2>3, <2>4, <2>5, <2>6, <3>1, <3>2 DEF BinanceOcoCheck, BybitOcoCheck, Answer
  <2>8. SymbolInfo[d.exchange][d.pair] = info
    BY <2>3 DEF getSelectedSymbolInfo
  <2> QED
    BY <2>3, <2>7, <2>8 DEF ServiceCheck
<1> QED
  BY <1>5, <1>6
-----------------------------------------------------------------------------
(***************************************************************************)
(* The updates of the form keep the button right.                          *)
(***************************************************************************)
LEMMA Validated ==
  ASSUME NEW s, Form(s)
  PROVE  Consistent(validateForm(s))
<1> DEFINE t == validateForm(s)
<1>1. t = [s EXCEPT !.proceed = Judged(s)]
  BY DEF validateForm, Judged
<1>2. DOMAIN t = Fields /\ \A f \in Fields \ {"proceed", "inputEnabled"} : t[f] = s[f]
  BY <1>1 DEF Form
<1>3. t.proceed <=> Judged(s)
  BY <1>1 DEF Form, Fields
<1> HIDE DEF t
<1>4. Form(t)
  BY <1>2 DEF Form, Fields
<1>5. Judged(t) <=> Judged(s)
  BY <1>2, JudgedSame
<1> QED
  BY <1>3, <1>4, <1>5 DEF Consistent, t

LEMMA InfoUpdated ==
  ASSUME NEW s, Form(s)
  PROVE  Consistent(updateSelectedSymbolInfo(s))
<1> DEFINE pair == getSelectedPair(s)
           off == [s EXCEPT !.proceed = FALSE, !.inputEnabled = FALSE]
           load == s.infoLoad[s.exchange][pair]
<1>1. /\ DOMAIN off = Fields /\ \A f \in Fields \ {"proceed", "inputEnabled"} : off[f] = s[f]
      /\ off.proceed = FALSE
  BY DEF Form, Fields
<1>2. Form(off)
  <2> HIDE DEF off
  <2> QED
    BY <1>1 DEF Form, Fields
<1>3. CASE pair # NoPair /\ load = "IDLE"
  <2> DEFINE t == [off EXCEPT !.infoLoad[s.exchange][pair] = "LOADING"]
  <2>1. pair \in Pairs[s.exchange]
    BY <1>3 DEF getSelectedPair
  <2>2. /\ DOMAIN t = Fields /\ \A f \in Fields \ {"infoLoad"} : t[f] = off[f]
        /\ t.infoLoad = [s.infoLoad EXCEPT ![s.exchange][pair] = "LOADING"]
    <3> HIDE DEF off
    <3> QED
      BY <1>1 DEF Fields
  <2>3. /\ DOMAIN t.infoLoad = Exchanges /\ \A e \in Exchanges : DOMAIN t.infoLoad[e] = Pairs[e]
        /\ t.infoLoad[s.exchange][pair] = "LOADING"
    <3> HIDE DEF t, pair
    <3> QED
      BY <2>1, <2>2 DEF Form
  <2> HIDE DEF t, off
  <2>4. Form(t)
    BY <1>2, <2>2, <2>3 DEF Form, Fields
  <2>5. getSelectedPair(t) = pair /\ t.exchange = s.exchange
    BY <1>1, <2>2 DEF getSelectedPair, hasUsableSelectedCatalog, Fields
  <2>6. ~Judged(t)
    BY <2>3, <2>5 DEF Judged, hasSymbolInfo
  <2>7. t.proceed = FALSE
    BY <1>1, <2>2 DEF Fields
  <2>8. updateSelectedSymbolInfo(s) = t
    BY <1>3 DEF updateSelectedSymbolInfo, t, off
  <2> QED
    BY <2>4, <2>6, <2>7, <2>8 DEF Consistent
<1>4. CASE pair # NoPair /\ load = "SUCCEEDED"
  <2> DEFINE t == [off EXCEPT !.inputEnabled = TRUE]
  <2>1. DOMAIN t = Fields /\ \A f \in Fields \ {"inputEnabled"} : t[f] = off[f]
    <3> HIDE DEF off
    <3> QED
      BY <1>1
  <2>2. Form(t)
    <3> HIDE DEF t, off
    <3> QED
      BY <1>2, <2>1 DEF Form, Fields
  <2>3. updateSelectedSymbolInfo(s) = validateForm(t)
    BY <1>4 DEF updateSelectedSymbolInfo
  <2> QED
    BY <2>2, <2>3, Validated
<1>5. CASE ~(pair # NoPair /\ load \in {"IDLE", "SUCCEEDED"})
  <2>1. updateSelectedSymbolInfo(s) = off
    BY <1>5 DEF updateSelectedSymbolInfo
  <2> HIDE DEF off
  <2>2. ~Judged(s)
    BY <1>5 DEF Judged, hasSymbolInfo
  <2>3. ~Judged(off)
    BY <1>1, <2>2, JudgedSame
  <2> QED
    BY <1>1, <1>2, <2>1, <2>3 DEF Consistent
<1> QED
  BY <1>3, <1>4, <1>5

LEMMA QuotesUpdated ==
  ASSUME NEW s, Form(s)
  PROVE  Form(updateQuoteAssets(s))
<1>1. PICK quote : updateQuoteAssets(s) = [s EXCEPT !.quote = quote]
  BY DEF updateQuoteAssets
<1> DEFINE t == [s EXCEPT !.quote = quote]
<1>2. DOMAIN t = Fields /\ \A f \in Fields \ {"quote"} : t[f] = s[f]
  BY DEF Form
<1> HIDE DEF t
<1> QED
  BY <1>1, <1>2 DEF Form, Fields, t

LEMMA SelectorsUpdated ==
  ASSUME NEW s, Form(s)
  PROVE  Consistent(updatePairSelectors(s))
<1>1. ASSUME NEW base PROVE Form([s EXCEPT !.base = base])
  <2> DEFINE t == [s EXCEPT !.base = base]
  <2>1. DOMAIN t = Fields /\ \A f \in Fields \ {"base"} : t[f] = s[f]
    BY DEF Form
  <2> HIDE DEF t
  <2>2. Form(t)
    BY <2>1 DEF Form, Fields
  <2> QED
    BY <2>2 DEF t
<1>2. Form([s EXCEPT !.base = NoAsset, !.quote = NoAsset])
  <2> DEFINE t == [s EXCEPT !.base = NoAsset, !.quote = NoAsset]
  <2>1. DOMAIN t = Fields /\ \A f \in Fields \ {"base", "quote"} : t[f] = s[f]
    BY DEF Form
  <2> HIDE DEF t
  <2>2. Form(t)
    BY <2>1 DEF Form, Fields
  <2> QED
    BY <2>2 DEF t
<1>3. CASE hasUsableSelectedCatalog(s)
  <2>1. updatePairSelectors(s)
          = updateSelectedSymbolInfo(updateQuoteAssets([s EXCEPT !.base = Preferred(BaseAssets(s), s.base)]))
    BY <1>3 DEF updatePairSelectors
  <2> QED
    BY <1>1, <2>1, QuotesUpdated, InfoUpdated
<1>4. CASE ~hasUsableSelectedCatalog(s)
  <2>1. updatePairSelectors(s) = updateSelectedSymbolInfo([s EXCEPT !.base = NoAsset, !.quote = NoAsset])
    BY <1>4 DEF updatePairSelectors
  <2> QED
    BY <1>2, <2>1, InfoUpdated
<1> QED
  BY <1>3, <1>4
-----------------------------------------------------------------------------
(***************************************************************************)
(* The loads.                                                              *)
(***************************************************************************)
\* A load of another exchange, or of another pair, is not judged.
LEMMA LoadsElsewhere ==
  ASSUME NEW s, Consistent(s), NEW t, Form(t),
         \A f \in Fields \ {"pairLoad", "infoLoad", "balanceLoad", "hasSnapshot"} : t[f] = s[f],
         t.pairLoad[s.exchange] = s.pairLoad[s.exchange], t.hasSnapshot[s.exchange] = s.hasSnapshot[s.exchange],
         getSelectedPair(s) # NoPair =>
           t.infoLoad[s.exchange][getSelectedPair(s)] = s.infoLoad[s.exchange][getSelectedPair(s)]
  PROVE  Consistent(t)
<1>1. /\ s.exchange = t.exchange /\ s.base = t.base /\ s.quote = t.quote /\ s.proceed = t.proceed
      /\ \A f \in {"exchange", "operation", "type", "useStopLimit", "text"} : s[f] = t[f]
  BY DEF Fields
<1>2. getSelectedPair(s) = getSelectedPair(t)
  BY <1>1 DEF getSelectedPair, hasUsableSelectedCatalog
<1>3. /\ hasSymbolInfo(s) <=> hasSymbolInfo(t)
      /\ hasReadySelectedBalances(s) <=> hasReadySelectedBalances(t)
  BY <1>1, <1>2 DEF hasSymbolInfo, hasReadySelectedBalances
<1> QED
  BY <1>1, <1>2, <1>3, JudgedAlike DEF Consistent

LEMMA PairsLoadedStep ==
  ASSUME Consistent(ui), NEW e \in Exchanges, NEW status, PairsLoaded(e, status)
  PROVE  Consistent(ui')
<1> DEFINE announced == IF status = "SUCCEEDED" THEN IfSelected(e, ui, updateSelectedCatalog(ui)) ELSE ui
           ended == [announced EXCEPT !.pairLoad[e] = status]
<1>1. ui' = IfSelected(e, ended, updateSelectedCatalog(ended))
  BY DEF PairsLoaded
<1>2. Consistent(announced)
  BY SelectorsUpdated DEF IfSelected, updateSelectedCatalog, Consistent
<1>3. announced = ui \/ e = ui.exchange
  BY DEF IfSelected
<1> HIDE DEF announced
<1>4. /\ DOMAIN ended = Fields /\ \A f \in Fields \ {"pairLoad"} : ended[f] = announced[f]
      /\ ended.pairLoad = [announced.pairLoad EXCEPT ![e] = status]
  BY <1>2 DEF Consistent, Form, Fields
<1>5. Form(ended)
  <2> HIDE DEF ended
  <2>1. DOMAIN ended.pairLoad = Exchanges /\ Form(announced)
    BY <1>2, <1>4 DEF Consistent, Form
  <2> QED
    BY <1>4, <2>1 DEF Form, Fields
<1> HIDE DEF ended
<1>6. CASE e = ended.exchange
  BY <1>1, <1>5, <1>6, SelectorsUpdated DEF IfSelected, updateSelectedCatalog
<1>7. CASE e # ended.exchange
  <2>1. ui' = ended /\ ended.exchange = announced.exchange /\ e # announced.exchange
    BY <1>1, <1>4, <1>7 DEF IfSelected, Fields
  <2>2. /\ \A f \in Fields \ {"pairLoad", "infoLoad", "balanceLoad", "hasSnapshot"} : ended[f] = announced[f]
        /\ ended.infoLoad = announced.infoLoad /\ ended.hasSnapshot = announced.hasSnapshot
    BY <1>4 DEF Fields
  <2>3. ended.pairLoad[announced.exchange] = announced.pairLoad[announced.exchange]
    BY <1>2, <1>4, <2>1 DEF Consistent, Form
  <2>4. Consistent(ended)
    BY <1>2, <1>5, <2>2, <2>3, LoadsElsewhere
  <2> QED
    BY <2>1, <2>4
<1> QED
  BY <1>6, <1>7

LEMMA SymbolInfoLoadedStep ==
  ASSUME Consistent(ui), NEW e \in Exchanges, NEW pair \in Pairs[e], NEW status, SymbolInfoLoaded(e, pair, status)
  PROVE  Consistent(ui')
<1> DEFINE ended == [ui EXCEPT !.infoLoad[e][pair] = status]
<1>1. ui' = IF pair = getSelectedPair(ended) THEN IfSelected(e, ended, updateSelectedSymbolInfo(ended)) ELSE ended
  BY DEF SymbolInfoLoaded
<1>2. /\ DOMAIN ended = Fields /\ \A f \in Fields \ {"infoLoad"} : ended[f] = ui[f]
      /\ ended.infoLoad = [ui.infoLoad EXCEPT ![e][pair] = status]
  BY DEF Consistent, Form, Fields
<1> HIDE DEF ended
<1>3. /\ DOMAIN ended.infoLoad = Exchanges /\ \A x \in Exchanges : DOMAIN ended.infoLoad[x] = Pairs[x]
      /\ \A x \in Exchanges : \A p \in Pairs[x] : x # e \/ p # pair => ended.infoLoad[x][p] = ui.infoLoad[x][p]
  BY <1>2 DEF Consistent, Form
<1>4. Form(ended)
  BY <1>2, <1>3 DEF Consistent, Form, Fields
<1>5. ended.exchange = ui.exchange /\ getSelectedPair(ended) = getSelectedPair(ui)
  BY <1>2 DEF getSelectedPair, hasUsableSelectedCatalog, Fields
<1>6. CASE pair = getSelectedPair(ended) /\ e = ended.exchange
  BY <1>1, <1>4, <1>6, InfoUpdated DEF IfSelected
<1>7. CASE ~(pair = getSelectedPair(ended) /\ e = ended.exchange)
  <2>1. ui' = ended
    BY <1>1, <1>7 DEF IfSelected
  <2>2. getSelectedPair(ui) # NoPair => getSelectedPair(ui) \in Pairs[ui.exchange]
    BY DEF getSelectedPair
  <2>3. ui.exchange \in Exchanges
    BY DEF Consistent, Form
  <2>4. getSelectedPair(ui) # NoPair =>
          ended.infoLoad[ui.exchange][getSelectedPair(ui)] = ui.infoLoad[ui.exchange][getSelectedPair(ui)]
    BY <1>3, <1>5, <1>7, <2>2, <2>3
  <2>5. /\ \A f \in Fields \ {"pairLoad", "infoLoad", "balanceLoad", "hasSnapshot"} : ended[f] = ui[f]
        /\ ended.pairLoad = ui.pairLoad /\ ended.hasSnapshot = ui.hasSnapshot
    BY <1>2 DEF Fields
  <2>6. Consistent(ended)
    BY <1>4, <2>4, <2>5, LoadsElsewhere
  <2> QED
    BY <2>1, <2>6
<1> QED
  BY <1>6, <1>7

LEMMA BalancesLoadedStep ==
  ASSUME Consistent(ui), NEW e \in Exchanges, NEW status, BalancesLoaded(e, status)
  PROVE  Consistent(ui')
<1> DEFINE ended == [ui EXCEPT !.balanceLoad[e] = status, !.hasSnapshot[e] = @ \/ status = "SUCCEEDED"]
<1>1. ui' = IfSelected(e, ended, updateSelectedBalance(ended))
  BY DEF BalancesLoaded
<1>2. /\ DOMAIN ended = Fields /\ \A f \in Fields \ {"balanceLoad", "hasSnapshot"} : ended[f] = ui[f]
      /\ DOMAIN ended.balanceLoad = Exchanges /\ DOMAIN ended.hasSnapshot = Exchanges
      /\ \A x \in Exchanges : x # e => ended.hasSnapshot[x] = ui.hasSnapshot[x]
  BY DEF Consistent, Form, Fields
<1> HIDE DEF ended
<1>3. Form(ended) /\ ended.exchange = ui.exchange /\ ui.exchange \in Exchanges
  BY <1>2 DEF Consistent, Form, Fields
<1>4. CASE e = ended.exchange
  BY <1>1, <1>3, <1>4, Validated DEF IfSelected, updateSelectedBalance
<1>5. CASE e # ended.exchange
  <2>1. ui' = ended
    BY <1>1, <1>5 DEF IfSelected
  <2>2. /\ \A f \in Fields \ {"pairLoad", "infoLoad", "balanceLoad", "hasSnapshot"} : ended[f] = ui[f]
        /\ ended.pairLoad = ui.pairLoad /\ ended.infoLoad = ui.infoLoad
    BY <1>2 DEF Fields
  <2>3. Consistent(ended)
    BY <1>2, <1>3, <1>5, <2>2, LoadsElsewhere
  <2> QED
    BY <2>1, <2>3
<1> QED
  BY <1>4, <1>5
-----------------------------------------------------------------------------
(***************************************************************************)
(* The user.                                                               *)
(***************************************************************************)
\* The form is judged again after every choice.
LEMMA ChoiceStep ==
  ASSUME Form(ui),
         \/ \E e \in Exchanges : SelectExchange(e)
         \/ \E operation \in Operations : SelectOperation(operation)
         \/ \E type \in {"MARKET", "LIMIT"} : SelectOrderType(type)
         \/ ToggleStopLimit
  PROVE  Consistent(ui')
<1>1. ASSUME NEW e \in Exchanges, SelectExchange(e) PROVE Consistent(ui')
  <2> DEFINE t == [ui EXCEPT !.exchange = e]
  <2>1. DOMAIN t = Fields /\ t.exchange = e /\ \A f \in Fields \ {"exchange"} : t[f] = ui[f]
    BY DEF Form, Fields
  <2>2. ui' = updateSelectedBalance(updateSelectedCatalog(t))
    BY <1>1 DEF SelectExchange
  <2> HIDE DEF t
  <2>3. Form(t)
    BY <2>1 DEF Form, Fields
  <2> QED
    BY <2>2, <2>3, SelectorsUpdated, Validated DEF updateSelectedBalance, updateSelectedCatalog, Consistent
<1>2. ASSUME NEW operation \in Operations, SelectOperation(operation) PROVE Consistent(ui')
  <2> DEFINE t == [ui EXCEPT !.operation = operation]
  <2>1. DOMAIN t = Fields /\ t.operation = operation /\ \A f \in Fields \ {"operation"} : t[f] = ui[f]
    BY DEF Form, Fields
  <2>2. ui' = validateForm(t)
    BY <1>2 DEF SelectOperation
  <2> HIDE DEF t
  <2>3. Form(t)
    BY <2>1 DEF Form, Fields
  <2> QED
    BY <2>2, <2>3, Validated
<1>3. ASSUME NEW type \in {"MARKET", "LIMIT"}, SelectOrderType(type) PROVE Consistent(ui')
  <2> DEFINE t == [ui EXCEPT !.type = type]
  <2>1. DOMAIN t = Fields /\ t.type = type /\ \A f \in Fields \ {"type"} : t[f] = ui[f]
    BY DEF Form, Fields
  <2>2. ui' = validateForm(t)
    BY <1>3 DEF SelectOrderType
  <2> HIDE DEF t
  <2>3. Form(t)
    BY <2>1 DEF Form, Fields
  <2> QED
    BY <2>2, <2>3, Validated
<1>4. CASE ToggleStopLimit
  <2> DEFINE t == [ui EXCEPT !.useStopLimit = ~ui.useStopLimit]
  <2>1. DOMAIN t = Fields /\ \A f \in Fields \ {"useStopLimit"} : t[f] = ui[f]
    BY DEF Form, Fields
  <2>2. ui' = validateForm(t)
    BY <1>4 DEF ToggleStopLimit
  <2> HIDE DEF t
  <2>3. Form(t)
    BY <2>1 DEF Form, Fields
  <2> QED
    BY <2>2, <2>3, Validated
<1> QED
  BY <1>1, <1>2, <1>3, <1>4

LEMMA SelectAssetStep ==
  ASSUME Form(ui), NEW selector \in {"base", "quote"}, NEW asset, SelectAsset(selector, asset)
  PROVE  Consistent(ui')
<1> DEFINE t == [ui EXCEPT ![selector] = asset]
<1>1. DOMAIN t = Fields /\ \A f \in Fields \ {"base", "quote"} : t[f] = ui[f]
  BY DEF Form, Fields
<1>2. ui' = updateSelectedSymbolInfo(updateQuoteAssets(t))
  BY DEF SelectAsset
<1> HIDE DEF t
<1>3. Form(t)
  BY <1>1 DEF Form, Fields
<1> QED
  BY <1>2, <1>3, QuotesUpdated, InfoUpdated

LEMMA EditTextStep ==
  ASSUME Form(ui), NEW field \in TextFields, NEW text, text.value \in Nat, EditText(field, text)
  PROVE  Consistent(ui')
<1> DEFINE t == [ui EXCEPT !.text[field] = text]
<1>1. /\ DOMAIN t = Fields /\ \A f \in Fields \ {"text"} : t[f] = ui[f]
      /\ DOMAIN t.text = TextFields /\ \A f \in TextFields : t.text[f] = IF f = field THEN text ELSE ui.text[f]
  BY DEF Form, Fields
<1>2. ui' = validateForm(t)
  BY DEF EditText
<1> HIDE DEF t
<1>3. Form(t)
  <2>1. \A f \in TextFields : t.text[f].value \in Nat
    BY <1>1 DEF Form
  <2> QED
    BY <1>1, <2>1 DEF Form, Fields
<1> QED
  BY <1>2, <1>3, Validated

LEMMA RetryStep ==
  ASSUME Form(ui), RetrySymbolInfo \/ LoadBalancesAgain
  PROVE  Consistent(ui')
<1>1. CASE RetrySymbolInfo
  <2> DEFINE pair == getSelectedPair(ui)
             t == [ui EXCEPT !.infoLoad[ui.exchange][pair] = "LOADING"]
  <2>1. ui' = updateSelectedSymbolInfo(t)
    BY <1>1 DEF RetrySymbolInfo
  <2> HIDE DEF pair
  <2>2. /\ DOMAIN t = Fields /\ \A f \in Fields \ {"infoLoad"} : t[f] = ui[f]
        /\ DOMAIN t.infoLoad = Exchanges /\ \A e \in Exchanges : DOMAIN t.infoLoad[e] = Pairs[e]
    BY DEF Form, Fields
  <2> HIDE DEF t
  <2>3. Form(t)
    BY <2>2 DEF Form, Fields
  <2> QED
    BY <2>1, <2>3, InfoUpdated
<1>2. CASE LoadBalancesAgain
  <2> DEFINE t == [ui EXCEPT !.balanceLoad[ui.exchange] = "LOADING"]
  <2>1. DOMAIN t = Fields /\ DOMAIN t.balanceLoad = Exchanges /\ \A f \in Fields \ {"balanceLoad"} : t[f] = ui[f]
    BY DEF Form, Fields
  <2>2. ui' = validateForm(t)
    BY <1>2 DEF LoadBalancesAgain, updateSelectedBalance
  <2> HIDE DEF t
  <2>3. Form(t)
    BY <2>1 DEF Form, Fields
  <2> QED
    BY <2>2, <2>3, Validated
<1> QED
  BY <1>1, <1>2
-----------------------------------------------------------------------------
LEMMA InitInv ==
  ASSUME Init
  PROVE  IInv
<1>1. /\ DOMAIN ui = Fields /\ ui.exchange = "BINANCE" /\ ui.proceed = FALSE /\ ui.operation = "BUY_CRYPTO"
      /\ ui.type = "MARKET" /\ ui.text = [f \in TextFields |-> NoText]
      /\ ui.pairLoad = [e \in Exchanges |-> "LOADING"] /\ ui.balanceLoad = [e \in Exchanges |-> "LOADING"]
      /\ ui.hasSnapshot = [e \in Exchanges |-> FALSE]
      /\ ui.infoLoad = [e \in Exchanges |-> [p \in Pairs[e] |-> "IDLE"]]
  BY DEF Init, Fields, TextFields
<1>2. Form(ui)
  BY <1>1, EntryAssumption DEF Form, Operations, NoText
<1>3. ~hasReadySelectedBalances(ui)
  BY <1>1, EntryAssumption DEF hasReadySelectedBalances
<1>4. Consistent(ui)
  BY <1>1, <1>2, <1>3 DEF Consistent, Judged
<1> QED
  BY <1>4 DEF Init, IInv, Meets

LEMMA StepInv ==
  ASSUME IInv, [Next]_vars
  PROVE  IInv'
<1>1. Consistent(ui) /\ Form(ui)
  BY DEF IInv, Consistent
\* The events that leave the order alone.
<1>2. ASSUME Consistent(ui'), NoSubmission PROVE IInv'
  BY <1>2 DEF IInv, Consistent, Form, Judged, Meets, NoSubmission
<1>3. ASSUME NEW e \in Exchanges, NEW status,
             \/ PairsLoaded(e, status) \/ BalancesLoaded(e, status)
             \/ \E pair \in Pairs[e] : SymbolInfoLoaded(e, pair, status)
      PROVE  IInv'
  <2>1. Consistent(ui')
    BY <1>1, <1>3, PairsLoadedStep, BalancesLoadedStep, SymbolInfoLoadedStep
  <2>2. NoSubmission
    BY <1>3 DEF PairsLoaded, BalancesLoaded, SymbolInfoLoaded, LoadEnds
  <2> QED
    BY <1>2, <2>1, <2>2
<1>4. ASSUME \/ \E e \in Exchanges : SelectExchange(e)
             \/ \E operation \in Operations : SelectOperation(operation)
             \/ \E type \in {"MARKET", "LIMIT"} : SelectOrderType(type)
             \/ ToggleStopLimit
      PROVE  IInv'
  <2>1. NoSubmission
    BY <1>4 DEF SelectExchange, SelectOperation, SelectOrderType, ToggleStopLimit, UserStep
  <2> QED
    BY <1>1, <1>2, <1>4, <2>1, ChoiceStep
<1>5. ASSUME NEW selector \in {"base", "quote"}, NEW asset, SelectAsset(selector, asset) PROVE IInv'
  BY <1>1, <1>2, <1>5, SelectAssetStep DEF SelectAsset, UserStep
<1>6. ASSUME NEW field \in TextFields, NEW text \in AmountTexts \cup PriceTexts, EditText(field, text) PROVE IInv'
  <2>1. text.value \in Nat
    BY EntryAssumption
  <2>2. Consistent(ui') /\ NoSubmission
    BY <1>1, <1>6, <2>1, EditTextStep DEF EditText, UserStep
  <2> QED
    BY <1>2, <2>2
<1>7. CASE RetrySymbolInfo \/ LoadBalancesAgain
  <2>1. NoSubmission
    BY <1>7 DEF RetrySymbolInfo, LoadBalancesAgain, UserStep
  <2> QED
    BY <1>1, <1>2, <1>7, <2>1, RetryStep
<1>8. ASSUME NEW side \in Sides, PressProceed(side) PROVE IInv'
  <2>1. dialog' = CreateDraft(ui, side) /\ UNCHANGED <<ui, submitted, answer>>
    BY <1>8 DEF PressProceed
  <2>2. Meets(dialog')
    BY <1>1, <2>1, DraftMeets
  <2> QED
    BY <2>1, <2>2 DEF IInv
<1>9. CASE CloseDialog
  BY <1>9 DEF CloseDialog, IInv, Meets
<1>10. CASE PlaceWork
  <2>1. PICK ticker \in Tickers :
          answer' \in IF ServiceCheck(submitted, ticker) = "passed" THEN {"placed", "refused"}
                      ELSE {ServiceCheck(submitted, ticker)}
    BY <1>10 DEF PlaceWork
  <2>2. ServiceCheck(submitted, ticker) # "rules"
    BY <1>10, <2>1 DEF PlaceWork, IInv, Meets
  <2>3. answer' # "rules" /\ submitted' = NoDraft /\ UNCHANGED <<ui, dialog>>
    BY <1>10, <2>1, <2>2 DEF PlaceWork
  <2> QED
    BY <2>3 DEF IInv, Meets
<1>11. CASE UNCHANGED vars
  BY <1>11 DEF vars, IInv
<1>12. "amount" \in TextFields /\ PriceFields \subseteq TextFields
  BY DEF TextFields
<1>13. CASE Next
  BY <1>3, <1>4, <1>5, <1>6, <1>7, <1>8, <1>9, <1>10, <1>12, <1>13 DEF Next
<1> QED
  BY <1>11, <1>13

(***************************************************************************)
(* The inductive invariant holds: what the button shows is what validating *)
(* the form now would show, and a draft on its way keeps to the rules.     *)
(***************************************************************************)
THEOREM InvariantHolds == Spec => []IInv
<1>1. Init => IInv
  BY InitInv
<1>2. IInv /\ [Next]_vars => IInv'
  BY StepInv
<1> QED
  BY <1>1, <1>2, PTL DEF Spec

(***************************************************************************)
(* The button is enabled exactly when pressing it makes a draft, for any   *)
(* exchanges, pairs, rules and texts and in whatever order the catalogs    *)
(* answer (validateForm, createBasicOrderDraft, createOcoOrderDraft).      *)
(***************************************************************************)
THEOREM ButtonAndDraftAgree == Spec => []ButtonMatchesDraft
<1>1. IInv => ButtonMatchesDraft
  BY DraftIffJudged DEF IInv, Consistent, ButtonMatchesDraft
<1> QED
  BY <1>1, InvariantHolds, PTL

(***************************************************************************)
(* What the form lets a user confirm, placeOrder and placeOco of neither   *)
(* service refuse for a rule of the symbol, for any rules and numbers.     *)
(***************************************************************************)
THEOREM ConfirmedDraftsMeetRules == Spec => []ConfirmedMeetsRules
<1>1. IInv => ConfirmedMeetsRules
  BY DEF IInv, ConfirmedMeetsRules
<1> QED
  BY <1>1, InvariantHolds, PTL
=============================================================================
