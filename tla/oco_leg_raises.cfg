SPECIFICATION Spec
CONSTANTS
  MaxOrders = 3
  Prices <- P3
  Gateways <- AB
  RefreshPolicy <- AnyFill
  NewOrders <- SomeFlow
  OcoPairs <- TrailingLegs
  QuotePairs <- None
  AmendPrices <- None
  AmendQtys <- None
  OpeningPrices <- NoTradeYet
  MaxSeq = 0
INVARIANT NeitherOrBothPosted
