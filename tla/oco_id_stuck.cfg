SPECIFICATION Spec
CONSTANTS
  MaxOrders = 2
  Prices <- P2
  Gateways <- AB
  RefreshPolicy <- AnyFill
  NewOrders <- None
  OcoPairs <- StopLossLegs
  QuotePairs <- None
  AmendPrices <- None
  AmendQtys <- None
  OpeningPrices <- NoTradeYet
  MaxSeq = 0
INVARIANT OcoIdFreedWhenDone
