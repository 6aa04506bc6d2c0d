------------------------------ MODULE BookState ------------------------------
(***************************************************************************)
(* One symbol's order book as a value, and the operations the matching     *)
(* engine performs on it (engine/order_book.py, class OrderBook).          *)
(*                                                                         *)
(* A book b is a record                                                    *)
(*   b.ord    every order ever accepted, by id, with its current fields    *)
(*   b.level  the price-level quantity index (_bid_qty and _ask_qty)       *)
(*   b.seq    the arrival counter behind time priority (_arrival_seq)      *)
(*   b.live   the OCO pairs and quotes the engine still has registered     *)
(*            (_oco_groups and QuoteIndex), each named by its first leg    *)
(*                                                                         *)
(* The heaps and id maps of the source are the "place" of each order: the  *)
(* heap order is (price, seq), and an entry that is invalid or whose order *)
(* is dead is in no place.  The engine's control lives in OrderBook.       *)
(***************************************************************************)
EXTENDS Integers, FiniteSets

CONSTANTS
  MaxOrders,      \* bound: how many orders a behaviour accepts
  Prices,         \* the tick prices in use
  Gateways,       \* the participants
  RefreshPolicy   \* each participant's quote_refresh_policy

NoPrice == 0      \* an absent price_ticks / stop_price_ticks / last_trade_price

Policies ==
  {"INACTIVATE_ON_ANY_FILL", "INACTIVATE_ON_FULL_FILL", "NEVER_INACTIVATE"}

ASSUME MaxOrdersAssumption == MaxOrders \in Nat
ASSUME PricesAssumption    == Prices \subseteq Nat \ {NoPrice}
ASSUME GatewaysAssumption  == Gateways # {}
ASSUME PolicyAssumption    == RefreshPolicy \in [Gateways -> Policies]

-----------------------------------------------------------------------------
(***************************************************************************)
(* Orders.                                                                 *)
(***************************************************************************)
Ids        == 1 .. MaxOrders
Sides      == {"BUY", "SELL"}
StopKinds  == {"STOP", "STOP_LIMIT", "TRAILING_STOP"}
Immediate  == {"MARKET", "FOK", "IOC"}       \* never rest
Restable   == {"LIMIT", "ICEBERG"}
Kinds      == StopKinds \cup Immediate \cup Restable
SmpActions == {"NONE", "CANCEL_AGGRESSOR", "CANCEL_RESTING", "CANCEL_BOTH"}
Bonds      == {"none", "oco", "quote"}
Working    == {"NEW", "PARTIAL"}
Dead       == {"FILLED", "CANCELLED", "REJECTED", "EXPIRED"}

\* Where the book holds an order: a bid/ask heap, a stop heap, the list of
\* trailing stops, the waiting room of released stops, or nowhere.
Places == {"none", "book", "armed", "trailing", "triggered"}
Held   == {"book", "armed", "trailing"}      \* the keys of _order_index

Order ==
  [side : Sides, kind : Kinds, price : Prices \cup {NoPrice}, stop : Int,
   offset : Nat, qty : Nat, rem : Nat, peak : Nat, shown : Nat,
   gw : Gateways, smp : SmpActions, bond : Bonds, group : 0 .. MaxOrders,
   status : Working \cup Dead \cup {"ABSENT"}, seq : Nat, turn : Nat,
   place : Places]

\* The request of an order.new message, or of one leg of a pair.
Request ==
  [side : Sides, kind : Kinds, price : Prices \cup {NoPrice}, stop : Int,
   offset : Nat, qty : Nat, peak : Nat, gw : Gateways, smp : SmpActions]

Absent ==
  [side |-> "BUY", kind |-> "MARKET", price |-> NoPrice, stop |-> NoPrice,
   offset |-> 0, qty |-> 0, rem |-> 0, peak |-> 0, shown |-> 0,
   gw |-> CHOOSE g \in Gateways : TRUE, smp |-> "NONE", bond |-> "none",
   group |-> 0, status |-> "ABSENT", seq |-> 0, turn |-> 0, place |-> "none"]

\* What an order shows at its price: an iceberg's slice, else all that is left.
Slice(o) == IF o.kind = "ICEBERG" THEN o.shown ELSE o.rem

\* The price-level quantity index, and the book.
Levels == [Sides -> [Prices -> Nat]]
Book   == [ord : [Ids -> Order], level : Levels, seq : Nat, live : SUBSET Ids]

\* What the code relies on in every order it holds: the quantities agree with
\* the status, only limit and iceberg orders rest, a resting order shows a
\* positive slice no larger than what is left, and a stop that will become a
\* limit order has its price.
OrderSound(o) ==
  /\ o.rem <= o.qty
  /\ o.status \in Working => o.rem > 0
  /\ o.status = "FILLED" => o.rem = 0
  /\ o.place = "book" => /\ o.kind \in Restable /\ o.status \in Working
                         /\ Slice(o) \in 1 .. o.rem
  /\ o.place = "armed" => o.kind \in {"STOP", "STOP_LIMIT"} /\ o.status \in Working
  /\ o.place = "trailing" => o.kind = "TRAILING_STOP" /\ o.status \in Working
  /\ o.place = "triggered" => /\ o.kind \in {"MARKET", "LIMIT"}
                              /\ o.status \in Working \cup {"CANCELLED"}
  /\ o.kind = "ICEBERG" => o.peak > 0
  /\ o.kind \in {"LIMIT", "ICEBERG", "STOP_LIMIT"} => o.price \in Prices

\* The sum of n[i] over i in S, unit by unit.
Units(S, n) == Cardinality(UNION {{i} \X (1 .. n[i]) : i \in S})

Least(x, y) == IF x < y THEN x ELSE y

MinusUnclamped(x, y) == x - y     \* mutant: the floor at zero is lost
Minus(x, y) == IF x > y THEN x - y ELSE 0

Opposite(s) == IF s = "BUY" THEN "SELL" ELSE "BUY"

\* The order a request becomes when a handler accepts it.
Accepted(r, bond, group) ==
  [side |-> r.side, kind |-> r.kind, price |-> r.price, stop |-> r.stop,
   offset |-> r.offset, qty |-> r.qty, rem |-> r.qty, peak |-> r.peak,
   shown |-> IF r.kind = "ICEBERG" THEN r.peak ELSE 0,
   gw |-> r.gw, smp |-> r.smp, bond |-> bond, group |-> group,
   status |-> "NEW", seq |-> 0, turn |-> 0, place |-> "none"]

\* The other leg of i's pair: legs are created together, first leg first.
Sibling(b, i) == 2 * b.ord[i].group + 1 - i

-----------------------------------------------------------------------------
(***************************************************************************)
(* Reading the book.                                                       *)
(***************************************************************************)
Resting(b, s) == {i \in Ids : b.ord[i].place = "book" /\ b.ord[i].side = s}

\* Price p is acceptable to an order of side s with limit lim.
WithinUnlimited(s, lim, p) == TRUE     \* mutant: every order is a market order
Within(s, lim, p) ==
  \/ lim = NoPrice
  \/ s = "BUY" /\ p <= lim
  \/ s = "SELL" /\ p >= lim

Better(s, p, q) == IF s = "BUY" THEN p > q ELSE p < q

\* i is served before j on their common side: price, then arrival.
Ahead(b, i, j) ==
  LET o == b.ord[i]
      n == b.ord[j]
  IN  \/ Better(o.side, o.price, n.price)
      \/ o.price = n.price /\ o.seq < n.seq

\* The resting orders a may trade with, and the first of them.
Matchable(b, a) ==
  {p \in Resting(b, Opposite(b.ord[a].side)) :
     Within(b.ord[a].side, b.ord[a].price, b.ord[p].price)}

\* mutant: time priority is forgotten
IsBestByPrice(b, p, S) ==
  p \in S /\ \A q \in S : ~Better(b.ord[q].side, b.ord[q].price, b.ord[p].price)
IsBest(b, p, S) == p \in S /\ \A q \in S : q # p => ~Ahead(b, q, p)

\* _self_match_action: the aggressor's policy, and only against its own
\* gateway's orders.
\* mutant: the resting order's policy decides
SelfMatchByResting(b, a, p) ==
  IF b.ord[a].gw = b.ord[p].gw THEN b.ord[p].smp ELSE "NONE"
SelfMatch(b, a, p) ==
  IF b.ord[a].gw = b.ord[p].gw THEN b.ord[a].smp ELSE "NONE"

\* mutant: everything within the limit counts
FillableAll(b, a) == Units(Matchable(b, a), [p \in Ids |-> b.ord[p].rem])

\* fillable_quantity: what a sweep by a could execute.  It stops at the first
\* order of a's own gateway under CANCEL_AGGRESSOR and CANCEL_BOTH (and what
\* icebergs hide at that level is queued behind it), passes over them under
\* CANCEL_RESTING, and counts one leg of an OCO pair.
Fillable(b, a) ==
  LET all      == Matchable(b, a)
      own      == {p \in all : SelfMatch(b, a, p) # "NONE"}
      stoppers == IF b.ord[a].smp = "CANCEL_RESTING" THEN {} ELSE own
      reached  == {p \in all \ own : \A k \in stoppers : Ahead(b, p, k)}
      counted  == {p \in reached : b.ord[p].bond # "oco" \/
                     ~\E q \in reached : /\ q # p
                                         /\ b.ord[q].bond = "oco"
                                         /\ b.ord[q].group = b.ord[p].group
                                         /\ Ahead(b, q, p)}
      amount   == [p \in Ids |-> IF \E k \in stoppers : b.ord[k].price = b.ord[p].price
                                 THEN Slice(b.ord[p]) ELSE b.ord[p].rem]
  IN  Units(counted, amount)

-----------------------------------------------------------------------------
(***************************************************************************)
(* Changing the book.                                                      *)
(***************************************************************************)

\* _deduct_qty_index: a level never goes below zero; zero means no level.
Deduct(level, o, q) == [level EXCEPT ![o.side][o.price] = Minus(@, q)]
Credit(level, o, q) == [level EXCEPT ![o.side][o.price] = @ + q]

\* _rest: a fresh place at the back of the queue of its price.
Rest(b, i) ==
  LET o == b.ord[i]
      shown == IF o.kind = "ICEBERG" THEN Least(o.peak, o.rem) ELSE o.shown
      n == [o EXCEPT !.shown = shown, !.seq = b.seq + 1, !.place = "book"]
  IN  [b EXCEPT !.ord[i] = n, !.seq = @ + 1,
                !.level = Credit(@, n, Slice(n))]

\* mutant: a cancelled order stays in the level index
CancelKeepsLevel(b, i) ==
  IF b.ord[i].place = "none" \/ b.ord[i].status \in Dead
  THEN b
  ELSE [b EXCEPT !.ord[i].status = "CANCELLED",
                 !.ord[i].place = IF @ = "triggered" THEN @ ELSE "none"]

\* cancel_order and _smp_cancel_resting: only what the book holds, or a
\* released stop still waiting its turn, can be cancelled; the latter stays
\* in the queue until process() drops it.
Cancel(b, i) ==
  LET o == b.ord[i]
  IN  IF o.place = "none" \/ o.status \in Dead
      THEN b
      ELSE [b EXCEPT
              !.ord[i] = [o EXCEPT !.status = "CANCELLED",
                            !.place = IF @ = "triggered" THEN @ ELSE "none"],
              !.level  = IF o.place = "book" THEN Deduct(@, o, Slice(o)) ELSE @]

\* Unregister i's pair or quote and cancel the other leg.
PullSibling(b, i) ==
  IF b.ord[i].group \in b.live
  THEN [Cancel(b, Sibling(b, i)) EXCEPT !.live = @ \ {b.ord[i].group}]
  ELSE b

\* _check_oco_after_event, called when order i has ended (on_oco_leg_done).
OcoLegEndedByFill(b, i) ==     \* mutant: only a filled leg counts
  IF b.ord[i].bond = "oco" /\ b.ord[i].status = "FILLED"
  THEN PullSibling(b, i) ELSE b
OcoLegEnded(b, i) ==
  IF b.ord[i].bond = "oco" /\ b.ord[i].status \in Dead
  THEN PullSibling(b, i) ELSE b

\* _on_quote_leg_filled, called when order i has traded (on_quote_leg_fill).
QuoteLegFilled(b, i) ==
  LET o == b.ord[i]
      inactivate ==
        \/ RefreshPolicy[o.gw] = "INACTIVATE_ON_ANY_FILL"
        \/ RefreshPolicy[o.gw] = "INACTIVATE_ON_FULL_FILL" /\ o.status = "FILLED"
  IN  IF o.bond = "quote" /\ inactivate THEN PullSibling(b, i) ELSE b

\* A resting iceberg whose slice is used up shows the next one.
RefillsNever(o, q) == FALSE     \* mutant: the slice is not refilled
Refills(o, q) ==
  o.place = "book" /\ o.kind = "ICEBERG" /\ o.rem > q /\ o.shown <= q

\* The level index after resting o trades q and perhaps shows a new peak.
LevelAfterFillUndeducted(level, o, q, refill, peak) ==     \* mutant
  IF refill THEN Credit(level, o, peak) ELSE Deduct(level, o, q)
LevelAfterFill(level, o, q, refill, peak) ==
  IF refill THEN Credit(Deduct(level, o, q), o, peak) ELSE Deduct(level, o, q)

\* One side of _apply_fill: i trades q.  A new slice queues at the back of
\* its price.
Reduce(b, i, q) ==
  LET o      == b.ord[i]
      left   == o.rem - q
      refill == Refills(o, q)
      peak   == Least(o.peak, left)
  IN  [b EXCEPT
         !.ord[i] = [o EXCEPT
            !.rem    = left,
            !.shown  = IF refill THEN peak
                       ELSE IF o.kind = "ICEBERG" THEN Minus(@, q) ELSE @,
            !.seq    = IF refill THEN b.seq + 1 ELSE @,
            !.status = IF left = 0 THEN "FILLED" ELSE "PARTIAL",
            !.place  = IF left = 0 THEN "none" ELSE @],
         !.seq   = IF refill THEN @ + 1 ELSE @,
         !.level = IF o.place = "book" THEN LevelAfterFill(@, o, q, refill, peak) ELSE @]

\* The callbacks at the end of _apply_fill, passive order first.
FillHooksQuotesOnly(b, a, p) ==     \* mutant: OCO legs wait for process() to end
  QuoteLegFilled(QuoteLegFilled(b, p), a)
FillHooksOcoOnly(b, a, p) ==        \* mutant: quotes wait for process() to end
  OcoLegEnded(OcoLegEnded(b, p), a)
FillHooks(b, a, p) ==
  OcoLegEnded(OcoLegEnded(QuoteLegFilled(QuoteLegFilled(b, p), a), p), a)

\* What a and the resting p trade in one pass of the sweep.
FillQty(b, a, p) == Least(b.ord[a].rem, Slice(b.ord[p]))

ApplyFill(b, a, p) ==
  LET q == FillQty(b, a, p)
  IN  FillHooks(Reduce(Reduce(b, a, q), p, q), a, p)

\* _smp_cancel_resting.
SmpCancel(b, p) == OcoLegEnded(Cancel(b, p), p)

-----------------------------------------------------------------------------
(***************************************************************************)
(* Stops.                                                                  *)
(***************************************************************************)
Breached(side, stop, price) ==
  IF side = "BUY" THEN price >= stop ELSE price <= stop

\* A released stop becomes the order it stands for.
Converted(o) ==
  IF o.kind = "STOP_LIMIT"
  THEN [o EXCEPT !.kind = "LIMIT"]
  ELSE [o EXCEPT !.kind = "MARKET", !.price = NoPrice, !.offset = 0]

\* A trailing stop's trigger after a trade at price: it only tightens.
RatchetedBothWays(o, price) ==     \* mutant: it follows the price
  IF o.place # "trailing" THEN o
  ELSE [o EXCEPT !.stop = IF o.side = "SELL" THEN price - o.offset ELSE price + o.offset]
Ratcheted(o, price) ==
  LET candidate == IF o.side = "SELL" THEN price - o.offset ELSE price + o.offset
      tighter   == IF o.side = "SELL" THEN candidate > o.stop ELSE candidate < o.stop
  IN  IF o.place = "trailing" /\ tighter THEN [o EXCEPT !.stop = candidate] ELSE o

\* The order in which stops released together run: buy stops from the lowest,
\* sell stops from the highest, ties by arrival, then trailing stops as armed.
RunsBefore(o, i, p, j) ==
  LET class(x) == IF x.place = "trailing" THEN 3 ELSE IF x.side = "SELL" THEN 2 ELSE 1
  IN  \/ class(o) < class(p)
      \/ /\ class(o) = class(p)
         /\ IF class(o) = 3 THEN i < j
            ELSE \/ IF o.side = "BUY" THEN o.stop < p.stop ELSE o.stop > p.stop
                 \/ o.stop = p.stop /\ o.seq < p.seq

\* _check_stops and _check_trailing_stops after a trade at price: ratchet,
\* then move every breached stop to the back of the queue (positions after
\* last, the highest position given out so far).
Release(b, price, last) ==
  LET moved == [i \in Ids |-> Ratcheted(b.ord[i], price)]
      fired == {i \in Ids : /\ moved[i].place \in {"armed", "trailing"}
                            /\ Breached(moved[i].side, moved[i].stop, price)}
      rank(i) == Cardinality({j \in fired : RunsBefore(moved[j], j, moved[i], i)})
  IN  [b EXCEPT !.ord = [i \in Ids |->
         IF i \in fired
         THEN [Converted(moved[i]) EXCEPT !.place = "triggered",
                                          !.turn  = last + 1 + rank(i)]
         ELSE moved[i]]]
=============================================================================
