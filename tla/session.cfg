SPECIFICATION SSpec
CONSTANTS
  MaxOrders = 3
  Prices <- ThreeTicks
  Gateways <- AB
  RefreshPolicy <- AnyFill
  NewOrders <- DayOrders
  OcoPairs <- DayPairs
  QuotePairs <- DayQuotes
  AmendPrices = {11}
  AmendQtys = {1}
  OpeningPrices <- NoTradeYet
  MaxSeq = 3
  TifChoices <- DayTifs
  PairTifs <- DayOnly
  AssertedPrices <- None
  HaltLevels <- TwoHalts
  Band = 10
  Rungs <- OneRung
  OpeningPrice = 10
  MaxWindow = 2
  MaxExtensions = 2
INVARIANT STypeOK
INVARIANT OpensUncrossedSession
INVARIANT NothingOutlivesItsPhase
PROPERTY HaltedNeverTrades
