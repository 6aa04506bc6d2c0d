SPECIFICATION SFairSpec
CONSTANTS
  MaxOrders = 2
  Prices <- ThreeTicks
  Gateways = {"A"}
  RefreshPolicy <- AnyFillA
  NewOrders <- FarOrders
  OcoPairs <- None
  QuotePairs <- None
  AmendPrices = {11}
  AmendQtys = {1}
  OpeningPrices <- NoTradeYet
  MaxSeq = 3
  TifChoices <- FarTifs
  PairTifs <- DayOnly
  AssertedPrices = {11}
  HaltLevels <- TwoHalts
  Band = 10
  Rungs <- OneRung
  OpeningPrice = 10
  MaxWindow = 2
  MaxExtensions = 2
 
PROPERTY TimedHaltEnds
