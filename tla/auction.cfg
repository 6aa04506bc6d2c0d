SPECIFICATION ASpec
CONSTANTS
  MaxOrders = 4
  Prices <- Ladder
  Gateways <- AB
  RefreshPolicy <- AnyFill
  NewOrders <- CallOrders
  OcoPairs <- CallPairs
  QuotePairs <- CallQuotes
  AmendPrices <- None
  AmendQtys <- None
  OpeningPrices <- NoTradeYet
  MaxSeq = 0
INVARIANT ATypeOK
INVARIANT LevelIndexExact
INVARIANT IndicativePrints
INVARIANT EquilibriumIsBest
INVARIANT OpensUncrossed
 
PROPERTY StopsSkipHitQuotes
 
PROPERTY ALoserNeverTrades
