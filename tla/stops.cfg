SPECIFICATION Spec
CONSTANTS
  MaxOrders = 5
  Prices <- P3
  Gateways <- AB
  RefreshPolicy <- AnyFill
  NewOrders <- StopOrders
  OcoPairs <- None
  QuotePairs <- None
  AmendPrices <- None
  AmendQtys <- None
  OpeningPrices <- OpenAt12
  MaxSeq = 0
INVARIANT NoReachedStopSleeps
INVARIANT StopsAreWatched
PROPERTY TrailingOnlyTightens
