SPECIFICATION Spec
CONSTANTS
  MaxOrders = 5
  Prices <- P3
  Gateways <- AB
  RefreshPolicy <- Makers
  NewOrders <- PairFlow
  OcoPairs <- OcoLegs
  QuotePairs <- QuoteLegsMC
  AmendPrices <- None
  AmendQtys <- None
  OpeningPrices <- NoTradeYet
  MaxSeq = 0
INVARIANT LevelIndexExact
INVARIANT FokAllOrNone
INVARIANT OcoEndsTogether
INVARIANT OneQuotePerSide
PROPERTY OcoLoserNeverTrades
PROPERTY InactiveQuoteNeverTrades
PROPERTY TerminalIsFinal
