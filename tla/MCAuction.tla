------------------------------ MODULE MCAuction ------------------------------
(***************************************************************************)
(* An instance of Auction: two participants collect crossing interest with *)
(* icebergs, self-match policies, OCO pairs and quotes, on a ladder with a *)
(* price between the levels that carry orders.                             *)
(***************************************************************************)
EXTENDS Auction

AB == {"A", "B"}
Ladder == {10, 11, 12}
AnyFill == [g \in AB |-> "INACTIVATE_ON_ANY_FILL"]
NoTradeYet == {NoPrice}
None == {}

Plain(side, kind, price, qty, gw, smp) ==
  [side |-> side, kind |-> kind, price |-> price, stop |-> NoPrice, offset |-> 0,
   qty |-> qty, peak |-> 0, gw |-> gw, smp |-> smp]

\* Bids and asks that overlap by one and by two ticks, an iceberg on each
\* side, and a self-match policy on a bid of A and on an ask of B.
CallOrders ==
  {Plain("BUY", "LIMIT", 12, 2, "A", "CANCEL_RESTING"),
   Plain("SELL", "LIMIT", 10, 1, "B", "CANCEL_AGGRESSOR"),
   Plain("SELL", "LIMIT", 11, 1, "A", "NONE"),
   [Plain("BUY", "ICEBERG", 12, 3, "B", "NONE") EXCEPT !.peak = 1],
   [Plain("SELL", "ICEBERG", 10, 3, "B", "NONE") EXCEPT !.peak = 2],
   [Plain("SELL", "STOP", NoPrice, 1, "B", "NONE") EXCEPT !.stop = 11]}

\* A pair whose legs cross each other, and two offers of which one may sell.
CallPairs ==
  {<<Plain("BUY", "LIMIT", 12, 1, "B", "NONE"), Plain("SELL", "LIMIT", 10, 1, "B", "NONE")>>,
   <<Plain("SELL", "LIMIT", 10, 1, "A", "NONE"), Plain("SELL", "LIMIT", 11, 1, "A", "NONE")>>}

CallQuotes ==
  {<<Plain("BUY", "LIMIT", 11, 4, "B", "NONE"), Plain("SELL", "LIMIT", 12, 1, "B", "NONE")>>}
=============================================================================
