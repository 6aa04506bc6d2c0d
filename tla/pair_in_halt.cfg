SPECIFICATION SSpec
CONSTANTS
  MaxOrders = 4
  Prices <- ThreeTicks
  Gateways <- AB
  RefreshPolicy <- AnyFill
  NewOrders <- HaltOrders
  OcoPairs <- HaltPairs
  QuotePairs <- None
  AmendPrices <- None
  AmendQtys <- None
  OpeningPrices <- NoTradeYet
  MaxSeq = 0
  TifChoices <- HaltTifs
  PairTifs <- DayOnly
  AssertedPrices <- None
  HaltLevels <- TwoHalts
  Band = 10
  Rungs <- OneRung
  OpeningPrice = 10
  MaxWindow = 2
  MaxExtensions = 2
PROPERTY HaltedNeverTrades
