SPECIFICATION Spec
CONSTANTS
  MaxOrders = 3
  Prices <- P2
  Gateways <- AB
  RefreshPolicy <- AnyFill
  NewOrders <- SomeFlow
  OcoPairs <- CrossingLegs
  QuotePairs <- None
  AmendPrices <- None
  AmendQtys <- None
  OpeningPrices <- NoTradeYet
  MaxSeq = 0
INVARIANT NotBothFilled
