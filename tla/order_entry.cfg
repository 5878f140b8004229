CONSTANTS
  Digits = 1
  TradablePairs <- Listed
  SymbolInfo <- Infos
  AmountTexts <- Amounts
  PriceTexts <- Prices
  Tickers <- TickerPrices
  MaxUserSteps = 7
  MaxFailures = 1
SPECIFICATION Spec
INVARIANTS ButtonMatchesDraft ConfirmedMeetsRules
CHECK_DEADLOCK FALSE
