------------------------------ MODULE MCSession ------------------------------
(***************************************************************************)
(* Instances of Session: a ladder of three ticks on which a trade one tick *)
(* from the reference fires a timed halt, one two ticks away a halt for    *)
(* the rest of the day, and a corridor that one extension widens from one  *)
(* tick to two.                                                            *)
(***************************************************************************)
EXTENDS Session

AB == {"A", "B"}
ThreeTicks == {10, 11, 12}
AnyFill == [g \in AB |-> "INACTIVATE_ON_ANY_FILL"]
AnyFillA == [g \in {"A"} |-> "INACTIVATE_ON_ANY_FILL"]
NoTradeYet == {NoPrice}
None == {}
DayOnly == {"DAY"}

TwoHalts == {[shift |-> 10, timed |-> TRUE], [shift |-> 20, timed |-> FALSE]}
OneRung  == <<10>>

Limit(side, price, qty, gw) ==
  [side |-> side, kind |-> "LIMIT", price |-> price, stop |-> NoPrice, offset |-> 0,
   qty |-> qty, peak |-> 0, gw |-> gw, smp |-> "NONE"]
Stop(side, stop, gw) ==
  [Limit(side, NoPrice, 1, gw) EXCEPT !.kind = "STOP", !.stop = stop]

\* Interest that crosses by two ticks, for the opening only or for the day,
\* and a stop that a print at the reference sets off.
DayOrders ==
  {Limit("BUY", 12, 1, "B"), Limit("SELL", 10, 1, "A"), Stop("BUY", 10, "B")}
DayPairs  == {<<Limit("SELL", 11, 1, "A"), Limit("SELL", 12, 1, "A")>>}
DayQuotes == {<<Limit("BUY", 10, 1, "A"), Limit("SELL", 11, 1, "A")>>}
DayTifs ==
  [r \in DayOrders |-> IF r.side = "SELL" THEN {"DAY", "ATO"}
                       ELSE IF r.kind = "STOP" THEN {"ATC"} ELSE {"GTC"}]

\* Interest whose indicative price is the reference, or two ticks above it.
FarOrders ==
  {Limit("BUY", 12, 1, "A"), Limit("SELL", 12, 1, "A")}
FarTifs == [r \in FarOrders |-> {"GTC"}]

\* A pair of two shares whose first leg may trade one of them at a price that
\* fires the breaker.
HaltOrders == {Limit("SELL", 12, 1, "B"), Limit("SELL", 11, 1, "B")}
HaltPairs  == {<<Limit("BUY", 11, 2, "A"), Limit("BUY", 12, 2, "A")>>}
HaltTifs == [r \in HaltOrders |-> {"GTC"}]
==============================================================================
