----------------------------- MODULE MCOrderBook -----------------------------
(***************************************************************************)
(* Instances of OrderBook for TLC.  Each scenario is a set of requests the *)
(* participants A and B may send in any order and any number, up to        *)
(* MaxOrders.                                                              *)
(***************************************************************************)
EXTENDS OrderBook

AB == {"A", "B"}

AnyFill == [g \in AB |-> "INACTIVATE_ON_ANY_FILL"]
Makers  == [g \in AB |-> IF g = "A" THEN "INACTIVATE_ON_ANY_FILL"
                         ELSE "INACTIVATE_ON_FULL_FILL"]

P2 == {10, 11}
P3 == {10, 11, 12}
OpenAt12 == {12}
NoTradeYet == {NoPrice}

Plain(side, kind, price, qty, gw, smp) ==
  [side |-> side, kind |-> kind, price |-> price, stop |-> NoPrice, offset |-> 0,
   qty |-> qty, peak |-> 0, gw |-> gw, smp |-> smp]
Limit(side, price, qty, gw) == Plain(side, "LIMIT", price, qty, gw, "NONE")
Iceberg(side, price, qty, peak, gw) ==
  [Plain(side, "ICEBERG", price, qty, gw, "NONE") EXCEPT !.peak = peak]
Stop(side, kind, price, stop, qty, gw) ==
  [Plain(side, kind, price, qty, gw, "NONE") EXCEPT !.stop = stop]
Trailing(side, stop, offset, qty, gw) ==
  [Stop(side, "TRAILING_STOP", NoPrice, stop, qty, gw) EXCEPT !.offset = offset]

None == {}

\* Resting interest with icebergs on both sides, takers that never rest, and
\* every self-match policy on limit and fill-or-kill orders.
MatchOrders ==
  {Limit("BUY", 11, 2, "B"), Limit("SELL", 11, 1, "A"),
   Iceberg("SELL", 10, 3, 1, "B"), Iceberg("BUY", 10, 3, 2, "B"),
   Plain("SELL", "MARKET", NoPrice, 2, "A", "NONE")} \cup
  {Plain("BUY", "FOK", 11, 2, "A", smp) : smp \in SmpActions} \cup
  {Plain("BUY", "LIMIT", 10, 2, "A", smp) : smp \in SmpActions}
MatchPrices == {10, 11}
MatchQtys == {1, 3}

\* A stop-limit order and trailing stops of both sides around a ladder of bids,
\* and the orders that move the last price.  (Plain stops are in the scenarios
\* with pairs below.)
StopOrders ==
  {Limit("BUY", 10, 1, "A"), Limit("BUY", 11, 1, "A"),
   Plain("SELL", "MARKET", NoPrice, 1, "B", "NONE"),
   Stop("SELL", "STOP_LIMIT", 10, 10, 1, "B"),
   Trailing("SELL", NoPrice, 1, 1, "B"),
   Trailing("BUY", 12, 1, 1, "B")}

\* OCO pairs around the market: a take-profit with a stop-loss, two exits at
\* different prices, an entry on either side whose owner prevents
\* self-matching, and a pair with a leg that cannot wait.
OcoLegs ==
  {<<Limit("SELL", 12, 1, "A"), Stop("SELL", "STOP_LIMIT", 10, 10, 1, "A")>>,
   <<Limit("SELL", 11, 1, "A"), Limit("SELL", 12, 1, "A")>>,
   <<Plain("BUY", "LIMIT", 11, 2, "A", "CANCEL_BOTH"),
     Plain("SELL", "LIMIT", 11, 2, "A", "CANCEL_BOTH")>>,
   <<Plain("SELL", "IOC", 11, 1, "A", "NONE"), Limit("SELL", 12, 1, "A")>>}

\* Quotes of two makers with different refresh policies.
QuoteLegsMC ==
  {<<Limit("BUY", 10, 2, "A"), Limit("SELL", 11, 2, "A")>>,
   <<Limit("BUY", 11, 1, "A"), Limit("SELL", 12, 1, "A")>>,
   <<Limit("BUY", 10, 2, "B"), Limit("SELL", 12, 1, "B")>>}

\* Takers of either side, and a stop that a hit leg may release.
PairFlow ==
  {Limit("BUY", 12, 1, "B"), Limit("SELL", 10, 1, "B"),
   Plain("BUY", "FOK", 12, 2, "B", "NONE"),
   Plain("SELL", "MARKET", NoPrice, 2, "B", "NONE"),
   Stop("BUY", "STOP", NoPrice, 10, 1, "B")}

\* A little of everything, with a trailing leg that raises before any trade.
MixOrders ==
  {Iceberg("SELL", 10, 3, 1, "A"), Plain("BUY", "LIMIT", 11, 2, "A", "CANCEL_RESTING"),
   Stop("BUY", "STOP", NoPrice, 10, 2, "B"), Plain("SELL", "MARKET", NoPrice, 2, "B", "NONE")}
MixOcoLegs ==
  {<<Limit("SELL", 11, 1, "B"), Stop("SELL", "STOP", NoPrice, 10, 1, "B")>>,
   <<Limit("SELL", 11, 1, "B"), Trailing("SELL", NoPrice, 1, 1, "B")>>}
MixQuotes  == {<<Limit("BUY", 10, 1, "B"), Limit("SELL", 11, 1, "B")>>}
MixPrices  == {10, 11}
MixQtys    == {2}

\* The pairs of the violation runs: legs that meet each other, and a trailing
\* leg sent before any trade.
CrossingLegs == {<<Limit("BUY", 11, 1, "A"), Limit("SELL", 10, 1, "A")>>}
TrailingLegs == {<<Limit("SELL", 12, 1, "A"), Trailing("SELL", NoPrice, 1, 1, "A")>>}
StopLossLegs == {<<Limit("SELL", 11, 1, "A"), Stop("SELL", "STOP", NoPrice, 10, 1, "A")>>}
SomeFlow == {Limit("BUY", 10, 1, "B"), Limit("SELL", 11, 1, "B")}
=============================================================================
