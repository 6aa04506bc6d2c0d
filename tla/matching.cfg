SPECIFICATION Spec
CONSTANTS
  MaxOrders = 3
  Prices <- P2
  Gateways <- AB
  RefreshPolicy <- AnyFill
  NewOrders <- MatchOrders
  OcoPairs <- None
  QuotePairs <- None
  AmendPrices <- MatchPrices
  AmendQtys <- MatchQtys
  OpeningPrices <- NoTradeYet
  MaxSeq = 3
INVARIANT TypeOK
INVARIANT OrdersSound
INVARIANT LevelIndexExact
INVARIANT NeverCrossed
INVARIANT FokAllOrNone
 
PROPERTY QueueDiscipline
 
