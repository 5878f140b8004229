------------------------------- MODULE OrderEntry -------------------------------
(***************************************************************************)
(* The order form of the interface over its catalogs: pairs, balances and  *)
(* symbol rules arrive when they arrive, while the user chooses and types. *)
(* Everything here runs on the interface thread, one event after the       *)
(* other, except the placement at the end, which a worker runs.  The state *)
(* of the catalogs and of the form is one record, and a method of the form *)
(* is a function of it; a symbol is the pair it stands for.                *)
(***************************************************************************)
EXTENDS SymbolRules, SequencesExt

CONSTANTS
  TradablePairs,     \* of each exchange: the sequence of pairs it lists
  SymbolInfo,        \* of each exchange and pair: its rules
  AmountTexts, PriceTexts, Tickers,
  MaxUserSteps,      \* bound: what the user does before an order is confirmed
  MaxFailures        \* bound: loads that fail

Exchanges == DOMAIN TradablePairs
Pairs == [e \in Exchanges |-> ToSet(TradablePairs[e])]
PriceFields == {"placeOrderPrice", "ocoLimitPrice", "ocoStopPrice", "ocoStopLimitPrice"}
Operations == {"BUY_CRYPTO", "SELL_CRYPTO", "PLACE_ORDER", "PLACE_OCO"}
NoAsset == "none"
NoPair == <<NoAsset, NoAsset>>
NoDraft == [exchange |-> "none"]

ASSUME EntryAssumption ==
  /\ "BINANCE" \in Exchanges
  /\ \A text \in AmountTexts \cup PriceTexts : text.value \in Nat /\ text.places \in Nat
  /\ Tickers \subseteq Nat /\ MaxUserSteps \in Nat /\ MaxFailures \in Nat

VARIABLES
  ui,                \* the catalogs and the form
  dialog,            \* the draft the confirmation dialog shows
  submitted,         \* the draft a worker is placing
  answer,            \* what came of the order that was placed
  userSteps, failures   \* counted for the bounds

counters == <<userSteps, failures>>
vars == <<ui, dialog, submitted, answer, counters>>
-----------------------------------------------------------------------------
(***************************************************************************)
(* What the form reads.                                                    *)
(***************************************************************************)
hasUsableSelectedCatalog(s) ==
  s.pairLoad[s.exchange] = "SUCCEEDED" /\ TradablePairs[s.exchange] # <<>>

getSelectedPair(s) ==
  IF hasUsableSelectedCatalog(s) /\ <<s.base, s.quote>> \in Pairs[s.exchange]
  THEN <<s.base, s.quote>> ELSE NoPair

hasSymbolInfo(s) ==
  LET pair == getSelectedPair(s) IN pair # NoPair /\ s.infoLoad[s.exchange][pair] = "SUCCEEDED"

getSelectedSymbolInfo(s) == SymbolInfo[s.exchange][getSelectedPair(s)]

hasReadySelectedBalances(s) == s.hasSnapshot[s.exchange]

hasActivePlaceOrderPrice(s) == s.operation = "PLACE_ORDER" /\ s.type = "LIMIT"
hasActiveOcoStopLimitPrice(s) == s.operation = "PLACE_OCO" /\ s.useStopLimit

\* Mutated: the lower leg of a pair is judged at the price of the upper one.
NotionalAtLimitPrice(s, field) ==
  s.text.amount.value * s.text[IF field = "placeOrderPrice" THEN field ELSE "ocoLimitPrice"].value

NotionalOf(s, field) == s.text.amount.value * s.text[field].value
-----------------------------------------------------------------------------
(***************************************************************************)
(* validateForm, which enables the button, and the drafts, which are made  *)
(* when it is pressed, judge the form separately.                          *)
(***************************************************************************)
\* The price fields of the chosen operation.
ActiveFields(s) ==
  CASE hasActivePlaceOrderPrice(s) -> {"placeOrderPrice"}
    [] hasActiveOcoStopLimitPrice(s) -> {"ocoLimitPrice", "ocoStopPrice", "ocoStopLimitPrice"}
    [] s.operation = "PLACE_OCO" /\ ~s.useStopLimit -> {"ocoLimitPrice", "ocoStopPrice"}
    [] OTHER -> {}

FieldsValid(s, info) ==
  /\ QuantityTextValid(s.text.amount, info)
  /\ \A f \in ActiveFields(s) : PriceTextValid(s.text[f], info)

\* The legs whose notional counts: the stop price only when no limit replaces it.
validateActiveNotional(s, info) ==
  LET priced == ActiveFields(s) \ (IF hasActiveOcoStopLimitPrice(s) THEN {"ocoStopPrice"} ELSE {})
  IN \A f \in priced : NotionalAllowed(NotionalOf(s, f), info)

validateForm(s) ==
  [s EXCEPT !.proceed =
     /\ hasSymbolInfo(s)
     /\ LET info == getSelectedSymbolInfo(s) IN FieldsValid(s, info) /\ validateActiveNotional(s, info)
     /\ hasReadySelectedBalances(s)]

DraftReady(s) ==
  /\ getSelectedPair(s) # NoPair /\ hasSymbolInfo(s) /\ hasReadySelectedBalances(s)
  /\ QuantityTextValid(s.text.amount, getSelectedSymbolInfo(s))

\* The price has a valid text and, if it prices a leg, an allowed notional.
PricedField(s, field) ==
  LET info == getSelectedSymbolInfo(s) IN
  PriceTextValid(s.text[field], info) /\ NotionalAllowed(NotionalOf(s, field), info)

BasicDraft(s, side, type, price) ==
  [exchange |-> s.exchange, pair |-> getSelectedPair(s), side |-> side, type |-> type,
   quantity |-> s.text.amount.value, price |-> price]

OcoDraft(s, side, stopLimitPrice) ==
  [exchange |-> s.exchange, pair |-> getSelectedPair(s), side |-> side, type |-> "OCO",
   quantity |-> s.text.amount.value, price |-> s.text["ocoLimitPrice"].value,
   stopPrice |-> s.text["ocoStopPrice"].value, stopLimitPrice |-> stopLimitPrice]

\* With the side chosen in the form, which nothing here depends on before.
createBasicOrderDraft(s, side) ==
  CASE DraftReady(s) /\ s.operation = "BUY_CRYPTO" -> BasicDraft(s, "BUY", "MARKET", 0)
    [] DraftReady(s) /\ s.operation = "SELL_CRYPTO" -> BasicDraft(s, "SELL", "MARKET", 0)
    [] DraftReady(s) /\ s.operation = "PLACE_ORDER" /\ s.type = "MARKET" -> BasicDraft(s, side, "MARKET", 0)
    [] DraftReady(s) /\ hasActivePlaceOrderPrice(s) /\ PricedField(s, "placeOrderPrice") ->
         BasicDraft(s, side, "LIMIT", s.text["placeOrderPrice"].value)
    [] OTHER -> NoDraft

createOcoOrderDraft(s, side) ==
  IF /\ DraftReady(s) /\ s.operation = "PLACE_OCO"
     /\ PricedField(s, "ocoLimitPrice")
     /\ PriceTextValid(s.text["ocoStopPrice"], getSelectedSymbolInfo(s))
     /\ IF hasActiveOcoStopLimitPrice(s)
        THEN PricedField(s, "ocoStopLimitPrice") ELSE PricedField(s, "ocoStopPrice")
  THEN OcoDraft(s, side, IF hasActiveOcoStopLimitPrice(s) THEN s.text["ocoStopLimitPrice"].value ELSE 0)
  ELSE NoDraft

CreateDraft(s, side) ==
  IF s.operation = "PLACE_OCO" THEN createOcoOrderDraft(s, side) ELSE createBasicOrderDraft(s, side)
-----------------------------------------------------------------------------
(***************************************************************************)
(* The updates of the form.                                                *)
(***************************************************************************)
\* Trading rules are asked for the first time a pair is selected.
updateSelectedSymbolInfo(s) ==
  LET pair == getSelectedPair(s)
      off == [s EXCEPT !.proceed = FALSE, !.inputEnabled = FALSE]
      load == s.infoLoad[s.exchange][pair]
  IN CASE pair # NoPair /\ load = "IDLE" -> [off EXCEPT !.infoLoad[s.exchange][pair] = "LOADING"]
       [] pair # NoPair /\ load = "SUCCEEDED" -> validateForm([off EXCEPT !.inputEnabled = TRUE])
       [] OTHER -> off

\* The text stays selected if the new list holds it; otherwise its first entry is.
Preferred(assets, asset) ==
  CASE assets = <<>> -> NoAsset
    [] Contains(assets, asset) -> asset
    [] OTHER -> Head(assets)

BaseAssets(s) == [i \in DOMAIN TradablePairs[s.exchange] |-> TradablePairs[s.exchange][i][1]]

updateQuoteAssets(s) ==
  LET OfBase(pair) == pair[1] = s.base
      pairs == SelectSeq(TradablePairs[s.exchange], OfBase)
  IN [s EXCEPT !.quote = Preferred([i \in DOMAIN pairs |-> pairs[i][2]], s.quote)]

updatePairSelectors(s) ==
  updateSelectedSymbolInfo(
    IF hasUsableSelectedCatalog(s)
    THEN updateQuoteAssets([s EXCEPT !.base = Preferred(BaseAssets(s), s.base)])
    ELSE [s EXCEPT !.base = NoAsset, !.quote = NoAsset])

\* The texts they show are left out.
updateSelectedCatalog(s) == updatePairSelectors(s)

\* Mutated: the status of the balances is shown, and the form is not judged again.
BalanceShownOnly(s) == s

updateSelectedBalance(s) == validateForm(s)

\* A change of one exchange's catalog reaches the form if that exchange is selected.
IfSelected(e, s, updated) == IF e = s.exchange THEN updated ELSE s
-----------------------------------------------------------------------------
(***************************************************************************)
(* The window is built, then the catalogs start to load.                   *)
(***************************************************************************)
Init ==
  /\ ui = [pairLoad |-> [e \in Exchanges |-> "LOADING"],
           infoLoad |-> [e \in Exchanges |-> [p \in Pairs[e] |-> "IDLE"]],
           balanceLoad |-> [e \in Exchanges |-> "LOADING"],
           hasSnapshot |-> [e \in Exchanges |-> FALSE],
           exchange |-> "BINANCE", base |-> NoAsset, quote |-> NoAsset,
           operation |-> "BUY_CRYPTO", type |-> "MARKET", useStopLimit |-> FALSE,
           text |-> [f \in PriceFields \cup {"amount"} |-> NoText],
           inputEnabled |-> FALSE, proceed |-> FALSE]
  /\ dialog = NoDraft /\ submitted = NoDraft /\ answer = "none"
  /\ userSteps = 0 /\ failures = 0

NoSubmission == UNCHANGED <<dialog, submitted, answer>>

\* A load ends one way or the other.
LoadEnds(status) ==
  /\ status \in {"SUCCEEDED"} \cup (IF failures < MaxFailures THEN {"FAILED"} ELSE {})
  /\ failures' = failures + (IF status = "FAILED" THEN 1 ELSE 0)
  /\ UNCHANGED userSteps /\ NoSubmission

\* storePairs announces the pairs while the load still counts as loading, then the load ends.
PairsLoaded(e, status) ==
  /\ ui.pairLoad[e] = "LOADING" /\ LoadEnds(status)
  /\ LET announced == IF status = "SUCCEEDED" THEN IfSelected(e, ui, updateSelectedCatalog(ui)) ELSE ui
         ended == [announced EXCEPT !.pairLoad[e] = status]
     IN ui' = IfSelected(e, ended, updateSelectedCatalog(ended))

\* The rules of a symbol arrive; its signal counts for the pair then selected.
SymbolInfoLoaded(e, pair, status) ==
  /\ ui.infoLoad[e][pair] = "LOADING" /\ LoadEnds(status)
  /\ LET ended == [ui EXCEPT !.infoLoad[e][pair] = status] IN
     ui' = IF pair = getSelectedPair(ended) THEN IfSelected(e, ended, updateSelectedSymbolInfo(ended)) ELSE ended

BalancesLoaded(e, status) ==
  /\ ui.balanceLoad[e] = "LOADING" /\ LoadEnds(status)
  /\ LET ended == [ui EXCEPT !.balanceLoad[e] = status,
                             !.hasSnapshot[e] = @ \/ status = "SUCCEEDED"]
     IN ui' = IfSelected(e, ended, updateSelectedBalance(ended))
-----------------------------------------------------------------------------
(***************************************************************************)
(* The user, whom the confirmation dialog keeps from the form.             *)
(***************************************************************************)
\* One order is followed from the form to the exchange.
FormFree == dialog = NoDraft /\ submitted = NoDraft /\ answer = "none"

UserStep ==
  /\ FormFree /\ userSteps < MaxUserSteps
  /\ userSteps' = userSteps + 1 /\ UNCHANGED failures
  /\ NoSubmission

SelectExchange(e) ==
  /\ UserStep /\ e # ui.exchange
  /\ ui' = updateSelectedBalance(updateSelectedCatalog([ui EXCEPT !.exchange = e]))

\* Either selector: a quote asset that the base asset offers stays selected.
SelectAsset(selector, asset) ==
  /\ UserStep /\ hasUsableSelectedCatalog(ui) /\ asset # ui[selector]
  /\ IF selector = "base" THEN Contains(BaseAssets(ui), asset) ELSE <<ui.base, asset>> \in Pairs[ui.exchange]
  /\ ui' = updateSelectedSymbolInfo(updateQuoteAssets([ui EXCEPT ![selector] = asset]))

SelectOperation(operation) ==
  /\ UserStep /\ operation # ui.operation
  /\ ui' = validateForm([ui EXCEPT !.operation = operation])

SelectOrderType(type) ==
  /\ UserStep /\ ui.operation = "PLACE_ORDER" /\ type # ui.type
  /\ ui' = validateForm([ui EXCEPT !.type = type])

ToggleStopLimit ==
  /\ UserStep /\ ui.operation = "PLACE_OCO"
  /\ ui' = validateForm([ui EXCEPT !.useStopLimit = ~ui.useStopLimit])

EditText(field, text) ==
  /\ UserStep /\ ui.inputEnabled /\ field \in ActiveFields(ui) \cup {"amount"} /\ text # ui.text[field]
  /\ ui' = validateForm([ui EXCEPT !.text[field] = text])

\* The two buttons, which are shown after a failure.
RetrySymbolInfo ==
  LET pair == getSelectedPair(ui) IN
  /\ UserStep /\ pair # NoPair /\ ui.infoLoad[ui.exchange][pair] = "FAILED"
  /\ ui' = updateSelectedSymbolInfo([ui EXCEPT !.infoLoad[ui.exchange][pair] = "LOADING"])

\* retryBalances of the form, or refreshBalances of the accounts page.
LoadBalancesAgain ==
  /\ UserStep /\ ui.balanceLoad[ui.exchange] # "LOADING"
  /\ ui' = updateSelectedBalance([ui EXCEPT !.balanceLoad[ui.exchange] = "LOADING"])

\* requestOrderConfirmation: the draft the dialog shows is the one that will be placed.
PressProceed(side) ==
  /\ FormFree /\ ui.proceed
  /\ dialog' = CreateDraft(ui, side)
  /\ UNCHANGED <<ui, submitted, answer, counters>>

CloseDialog ==
  /\ dialog # NoDraft /\ dialog' = NoDraft
  /\ submitted' \in {NoDraft, dialog}
  /\ UNCHANGED <<ui, answer, counters>>
-----------------------------------------------------------------------------
(***************************************************************************)
(* The worker: the service, whose cache holds the rules the form loaded,   *)
(* checks the request.  The price limits of Bybit, the balances and the    *)
(* request itself may still refuse it.                                     *)
(***************************************************************************)
ServiceCheck(d, ticker) ==
  LET info == SymbolInfo[d.exchange][d.pair] IN
  CASE d.type = "OCO" /\ d.exchange = "BINANCE" -> BinanceOcoCheck(d, info)
    [] d.type = "OCO" /\ d.exchange # "BINANCE" -> BybitOcoCheck(d, ticker, info)
    [] d.type # "OCO" /\ d.exchange = "BINANCE" -> BinanceOrderCheck(d, ticker, info)
    [] OTHER -> BybitOrderCheck(d, ticker, info)

PlaceWork ==
  /\ submitted # NoDraft /\ submitted' = NoDraft
  /\ \E ticker \in Tickers :
       LET check == ServiceCheck(submitted, ticker) IN
       answer' \in IF check = "passed" THEN {"placed", "refused"} ELSE {check}
  /\ UNCHANGED <<ui, dialog, counters>>

Assets == UNION {{p[1], p[2]} : p \in UNION {Pairs[e] : e \in Exchanges}}

Next ==
  \/ \E e \in Exchanges, status \in {"SUCCEEDED", "FAILED"} :
       \/ PairsLoaded(e, status)
       \/ BalancesLoaded(e, status)
       \/ \E pair \in Pairs[e] : SymbolInfoLoaded(e, pair, status)
  \/ \E e \in Exchanges : SelectExchange(e)
  \/ \E selector \in {"base", "quote"}, asset \in Assets : SelectAsset(selector, asset)
  \/ \E operation \in Operations : SelectOperation(operation)
  \/ \E type \in {"MARKET", "LIMIT"} : SelectOrderType(type)
  \/ ToggleStopLimit
  \/ \E text \in AmountTexts : EditText("amount", text)
  \/ \E field \in PriceFields : \E text \in PriceTexts : EditText(field, text)
  \/ RetrySymbolInfo
  \/ LoadBalancesAgain
  \/ \E side \in Sides : PressProceed(side)
  \/ CloseDialog
  \/ PlaceWork

Spec == Init /\ [][Next]_vars
-----------------------------------------------------------------------------
\* The button and the draft never disagree: between two events the button is
\* enabled exactly when pressing it would produce a draft (validateForm and
\* createBasicOrderDraft or createOcoOrderDraft, which read the same catalogs at
\* different times).
ButtonMatchesDraft ==
  \A side \in Sides : ui.proceed <=> CreateDraft(ui, side) # NoDraft

\* What the form lets a user confirm, the service never refuses for a trading
\* rule that the order itself breaks: only the market's price, its price limits or
\* the balances can still stop it (placeOrder and placeOco of both services).
ConfirmedMeetsRules == answer # "rules"
===============================================================================
