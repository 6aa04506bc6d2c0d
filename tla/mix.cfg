SPECIFICATION FairSpec
CONSTANTS
  MaxOrders = 4
  Prices <- P2
  Gateways <- AB
  RefreshPolicy <- Makers
  NewOrders <- MixOrders
  OcoPairs <- MixOcoLegs
  QuotePairs <- MixQuotes
  AmendPrices <- MixPrices
  AmendQtys <- MixQtys
  OpeningPrices <- NoTradeYet
  MaxSeq = 3
PROPERTY LedgerSpec
PROPERTY DispatchEnds
