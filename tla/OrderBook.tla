------------------------------ MODULE OrderBook ------------------------------
(***************************************************************************)
(* The matching engine on one symbol: the handlers of engine/main.py that  *)
(* reach a book and OrderBook.process with its sweep and stop cascade.     *)
(*                                                                         *)
(* The engine is one thread.  A handler that matches is therefore a chain  *)
(* of steps that no other handler interrupts: pc is "idle" between         *)
(* messages, and while it is not only EngineStep can act.  One step is one *)
(* pass of a loop of the source (a trade, a self-match decision, one       *)
(* cancel of a batch), because callbacks change the book between passes.   *)
(***************************************************************************)
EXTENDS BookState

CONSTANTS
  NewOrders,      \* the requests of order.new
  OcoPairs,       \* the legs of order.oco: a set of pairs of requests
  QuotePairs,     \* the legs of quote.new: a set of (bid, ask) requests
  AmendPrices,    \* the new prices of order.amend
  AmendQtys,      \* the new quantities of order.amend
  OpeningPrices,  \* last_trade_price at start-up (restore_stats)
  MaxSeq          \* bound: no amend once this many arrivals are numbered

ASSUME RequestsAssumption ==
  /\ NewOrders \subseteq Request
  /\ OcoPairs \subseteq Request \X Request
  /\ QuotePairs \subseteq Request \X Request
  /\ AmendPrices \subseteq Prices
  /\ AmendQtys \subseteq Nat
  /\ OpeningPrices \subseteq Prices \cup {NoPrice}
  /\ MaxSeq \in Nat

\* What the gateways and the engine's gates let through (check_type_fields,
\* _validate_new_order, the quote checks).
WellFormed(r) ==
  /\ r.qty > 0
  /\ r.kind \in {"LIMIT", "FOK", "IOC", "ICEBERG", "STOP_LIMIT"} <=> r.price # NoPrice
  /\ r.kind \in {"STOP", "STOP_LIMIT"} => r.stop # NoPrice
  /\ r.kind = "ICEBERG" => r.peak \in 1 .. r.qty
  /\ r.kind = "TRAILING_STOP" => r.offset > 0

ASSUME GatesAssumption ==
  /\ \A r \in NewOrders : WellFormed(r)
  /\ \A l \in OcoPairs :
       /\ WellFormed(l[1]) /\ WellFormed(l[2])
       /\ l[1].gw = l[2].gw /\ l[1].qty = l[2].qty /\ l[1].smp = l[2].smp
       /\ "ICEBERG" \notin {l[1].kind, l[2].kind}
  /\ \A l \in QuotePairs :
       /\ WellFormed(l[1]) /\ WellFormed(l[2])
       /\ l[1].gw = l[2].gw /\ l[1].smp = l[2].smp
       /\ l[1].kind = "LIMIT" /\ l[2].kind = "LIMIT"
       /\ l[1].side = "BUY" /\ l[2].side = "SELL"
       /\ l[1].price < l[2].price

VARIABLES
  book,      \* the book (see BookState)
  last,      \* last_trade_price
  hasStops,  \* _has_stops: false skips the cascade
  matching,  \* the session matches continuously, as opposed to collecting
  born,      \* how many orders have been accepted
  pc,        \* where the running handler stands
  cur,       \* the order it processes, 0 for none
  todo,      \* the second leg of a pair still to be posted, 0 for none
  clearing,  \* the orders a batch of cancels still has to cancel
  traded,    \* the running process() call has traded
  released   \* how many stops the running handler has released

dispatch == <<pc, cur, todo, clearing, traded, released>>
vars     == <<book, last, hasStops, matching, born, dispatch>>

order(i)    == book.ord[i]
QuoteOf(gw) == {g \in book.live : order(g).bond = "quote" /\ order(g).gw = gw}

Init ==
  /\ book = [ord   |-> [i \in Ids |-> Absent],
             level |-> [s \in Sides |-> [p \in Prices |-> 0]],
             seq   |-> 0,
             live  |-> {}]
  /\ last \in OpeningPrices
  /\ hasStops = FALSE
  /\ matching \in BOOLEAN
  /\ born = 0
  /\ pc = "idle" /\ cur = 0 /\ todo = 0
  /\ clearing = {} /\ traded = FALSE /\ released = 0

-----------------------------------------------------------------------------
(***************************************************************************)
(* Messages.  Each is handled when the engine is idle.                     *)
(***************************************************************************)

\* Start process() on order i, then on leg j.
Start(i, j) ==
  /\ pc' = "process" /\ cur' = i /\ todo' = j
  /\ UNCHANGED <<clearing, traded, released>>

Add(b, i, o) == [b EXCEPT !.ord[i] = o]

\* _handle_new_order.
NewOrder(r) ==
  /\ pc = "idle" /\ born < MaxOrders
  /\ ~matching => r.kind \notin Immediate
  /\ r.kind = "TRAILING_STOP" /\ r.stop = NoPrice => last # NoPrice
  /\ book' = Add(book, born + 1, Accepted(r, "none", 0))
  /\ born' = born + 1
  /\ Start(born + 1, 0)
  /\ UNCHANGED <<last, hasStops, matching>>

\* Two legs created together take the next two ids; the first names the pair.
AddPair(b, legs, bond) ==
  LET g == born + 1
  IN  Add(Add(b, g, Accepted(legs[1], bond, g)), g + 1, Accepted(legs[2], bond, g))

\* _handle_oco_order: the pair is registered and acknowledged first.
OcoOrder(legs) ==
  /\ pc = "idle" /\ born + 1 < MaxOrders
  /\ book' = [AddPair(book, legs, "oco") EXCEPT !.live = @ \cup {born + 1}]
  /\ born' = born + 2
  /\ Start(born + 1, born + 2)
  /\ UNCHANGED <<last, hasStops, matching>>

\* The resting quote legs of gw that no registered quote names.
Orphans(gw) ==
  {i \in Ids : order(i).place = "book" /\ order(i).bond = "quote" /\ order(i).gw = gw}

\* What replacing or withdrawing gw's quote cancels.
QuoteLegsRegistered(gw) ==     \* mutant: the orphans stay
  {i \in Ids : order(i).group \in QuoteOf(gw)}
QuoteLegs(gw) ==
  IF QuoteOf(gw) = {} THEN Orphans(gw)
  ELSE {i \in Ids : order(i).group \in QuoteOf(gw)}

\* _handle_quote_new: the quote it replaces is unregistered and cancelled
\* leg by leg (Withdraw), then the new one is registered (PostQuote).
QuoteNew(legs) ==
  /\ pc = "idle" /\ born + 1 < MaxOrders
  /\ book' = [AddPair(book, legs, "quote") EXCEPT !.live = @ \ QuoteOf(legs[1].gw)]
  /\ born' = born + 2
  /\ pc' = "withdraw" /\ cur' = born + 1 /\ todo' = born + 2
  /\ clearing' = QuoteLegs(legs[1].gw)
  /\ UNCHANGED <<last, hasStops, matching, traded, released>>

\* _handle_quote_cancel; refused when there is nothing to withdraw.
QuoteCancel(gw) ==
  /\ pc = "idle"
  /\ QuoteOf(gw) # {} \/ Orphans(gw) # {}
  /\ book' = [book EXCEPT !.live = @ \ QuoteOf(gw)]
  /\ pc' = "withdraw" /\ clearing' = QuoteLegs(gw)
  /\ UNCHANGED <<last, hasStops, matching, born, cur, todo, traded, released>>

\* _order_symbol still knows order i: an OCO leg is forgotten with its pair,
\* whether or not the book held it then (_check_oco_after_event).
Routed(i) == order(i).bond = "oco" => order(i).group \in book.live

\* _handle_kill_switch, and a disconnect with CANCEL_ALL: quotes and orders of
\* gw, with no follow-up for OCO pairs.
KillSwitch(gw) ==
  /\ pc = "idle"
  /\ book' = [book EXCEPT !.live = @ \ QuoteOf(gw)]
  /\ pc' = "withdraw"
  /\ clearing' = {i \in Ids : order(i).place \in Held /\ order(i).gw = gw /\ Routed(i)}
  /\ UNCHANGED <<last, hasStops, matching, born, cur, todo, traded, released>>

\* _handle_cancel: the owner cancels an order the book holds.
CancelOrder(i) ==
  /\ pc = "idle" /\ order(i).place \in Held /\ Routed(i)
  /\ book' = OcoLegEnded(Cancel(book, i), i)
  /\ UNCHANGED <<last, hasStops, matching, born, dispatch>>

\* _handle_oco_cancel: both legs of a registered pair.
OcoCancel(g) ==
  /\ pc = "idle" /\ g \in book.live /\ order(g).bond = "oco"
  /\ book' = [Cancel(Cancel(book, g), g + 1) EXCEPT !.live = @ \ {g}]
  /\ UNCHANGED <<last, hasStops, matching, born, dispatch>>

\* The priority is lost with a new price or a larger quantity.
LosesPriorityAlways(o, price, qty) ==     \* mutant: a smaller quantity too
  price # o.price \/ qty # o.qty
LosesPriority(o, price, qty) == price # o.price \/ qty > o.qty

\* amend_order: only an amend that loses its priority may refill an iceberg.
Amended(b, i, price, qty) ==
  LET o     == b.ord[i]
      reset == LosesPriority(o, price, qty)
      rem   == qty - (o.qty - o.rem)
      slice == IF o.kind # "ICEBERG" THEN o.shown
               ELSE Least(IF reset THEN o.peak ELSE o.shown, rem)
      n == [o EXCEPT !.price = price, !.qty = qty, !.rem = rem, !.shown = slice,
                     !.seq = IF reset THEN b.seq + 1 ELSE @]
  IN  [b EXCEPT !.ord[i] = n,
                !.seq    = IF reset THEN @ + 1 ELSE @,
                !.level  = Credit(Deduct(@, o, Slice(o)), n, Slice(n))]

\* The order now reaches the best price of the other side, read from the
\* level index (best_bid_ticks, best_ask_ticks).
MarketableStrictly(b, i) ==     \* mutant: off by one at the touch
  LET o == b.ord[i]
  IN  \E p \in Prices :
        b.level[Opposite(o.side)][p] > 0 /\ Within(o.side, o.price, p) /\ p # o.price
Marketable(b, i) ==
  LET o == b.ord[i]
  IN  \E p \in Prices : b.level[Opposite(o.side)][p] > 0 /\ Within(o.side, o.price, p)

\* _handle_amend: a marketable amend takes the order out of the book and
\* processes it again as a new arrival.
Amend(i, price, qty) ==
  /\ pc = "idle" /\ book.seq < MaxSeq
  /\ order(i).place = "book" /\ Routed(i)
  /\ qty > order(i).qty - order(i).rem
  /\ LET amended == Amended(book, i, price, qty)
     IN  IF matching /\ Marketable(amended, i)
         THEN /\ book' = [Cancel(amended, i) EXCEPT !.ord[i].status = "NEW"]
              /\ Start(i, 0)
         ELSE /\ book' = amended
              /\ UNCHANGED dispatch
  /\ UNCHANGED <<last, hasStops, matching, born>>

\* _handle_session_transition out of CONTINUOUS, into the closing call phase:
\* it cancels nothing, and from then on the book collects and does not match.
CallPhaseBegins ==
  /\ pc = "idle" /\ matching
  /\ matching' = FALSE
  /\ UNCHANGED <<book, last, hasStops, born, dispatch>>

\* The poll of the run loop times out.
NoMessage == pc = "idle" /\ UNCHANGED vars

-----------------------------------------------------------------------------
(***************************************************************************)
(* A batch of cancels (quotes, kill switch), then the new quote if any.    *)
(***************************************************************************)
Withdraw ==
  /\ pc = "withdraw"
  /\ \E i \in clearing : book' = Cancel(book, i) /\ clearing' = clearing \ {i}
  /\ UNCHANGED <<last, hasStops, matching, born, pc, cur, todo, traded, released>>

Withdrawn ==
  /\ pc = "withdraw" /\ clearing = {}
  /\ IF todo = 0
     THEN pc' = "idle" /\ UNCHANGED book
     ELSE pc' = "process" /\ book' = [book EXCEPT !.live = @ \cup {cur}]
  /\ UNCHANGED <<last, hasStops, matching, born, cur, todo, clearing, traded, released>>

-----------------------------------------------------------------------------
(***************************************************************************)
(* process(): what becomes of the order cur.                               *)
(***************************************************************************)

\* The initial trigger of a trailing stop sent without one, and cur itself
\* once it has left the waiting room of released stops.
Resolved(o) ==
  [o EXCEPT !.stop = IF o.kind = "TRAILING_STOP" /\ o.stop = NoPrice
                     THEN IF o.side = "SELL" THEN last - o.offset ELSE last + o.offset
                     ELSE @,
            !.place = "none", !.turn = 0]

ProcessingAnyway == pc = "process"     \* mutant: a cancelled stop still runs
Processing == pc = "process" /\ ~(order(cur).place = "triggered" /\
                                  order(cur).status = "CANCELLED")

BreachedOnEntryNever(o) == FALSE     \* mutant: only later trades trigger
BreachedOnEntry(o) ==
  matching /\ last # NoPrice /\ Breached(o.side, o.stop, last)

\* A stop cancelled while it waited does nothing at all.
DropCancelled ==
  /\ pc = "process" /\ ~Processing
  /\ book' = [book EXCEPT !.ord[cur].place = "none", !.ord[cur].turn = 0]
  /\ pc' = "next"
  /\ UNCHANGED <<last, hasStops, matching, born, cur, todo, clearing, traded, released>>

\* match=False: what cannot wait is rejected.
RejectImmediate ==
  /\ Processing /\ ~matching /\ order(cur).kind \in Immediate
  /\ book' = OcoLegEnded([book EXCEPT !.ord[cur].status = "REJECTED"], cur)
  /\ pc' = "next"
  /\ UNCHANGED <<last, hasStops, matching, born, cur, todo, clearing, traded, released>>

\* match=False: the rest queues without matching.
RestUnmatched ==
  /\ Processing /\ ~matching /\ order(cur).kind \in Restable
  /\ book' = Rest(book, cur)
  /\ pc' = "next"
  /\ UNCHANGED <<last, hasStops, matching, born, cur, todo, clearing, traded, released>>

\* _add_trailing_stop asserts a stop price; the exception ends the handler.
TrailingRaises(o) == o.kind = "TRAILING_STOP" /\ o.stop = NoPrice /\ last = NoPrice

HandlerRaises ==
  /\ Processing /\ TrailingRaises(order(cur))
  /\ pc' = "idle" /\ cur' = 0 /\ todo' = 0
  /\ UNCHANGED <<book, last, hasStops, matching, born, clearing, traded, released>>

\* _add_stop and _add_trailing_stop.  Only the former takes an arrival number.
ArmStop ==
  LET o == Resolved(order(cur))
      trailing == o.kind = "TRAILING_STOP"
  IN  /\ Processing /\ o.kind \in StopKinds
      /\ ~TrailingRaises(order(cur))
      /\ ~BreachedOnEntry(o)
      /\ book' = IF trailing
                 THEN [book EXCEPT !.ord[cur] = [o EXCEPT !.place = "trailing"]]
                 ELSE [book EXCEPT
                         !.ord[cur] = [o EXCEPT !.place = "armed", !.seq = book.seq + 1],
                         !.seq = @ + 1]
      /\ hasStops' = TRUE
      /\ pc' = "next"
      /\ UNCHANGED <<last, matching, born, cur, todo, clearing, traded, released>>

\* _trigger_stop_now: already breached by the last trade.
TriggerOnEntry ==
  LET o == Resolved(order(cur))
  IN  /\ Processing /\ o.kind \in StopKinds
      /\ ~TrailingRaises(order(cur))
      /\ BreachedOnEntry(o)
      /\ book' = [book EXCEPT !.ord[cur] = Converted(o)]
      /\ pc' = "sweep"
      /\ UNCHANGED <<last, hasStops, matching, born, cur, todo, clearing, traded, released>>

\* A fill-or-kill order is looked at before it trades.
Fills(i) == order(i).kind = "FOK" => Fillable(book, i) >= order(i).qty

StartSweep ==
  /\ Processing /\ matching /\ order(cur).kind \notin StopKinds
  /\ Fills(cur)
  /\ book' = [book EXCEPT !.ord[cur] = Resolved(@)]
  /\ pc' = "sweep"
  /\ UNCHANGED <<last, hasStops, matching, born, cur, todo, clearing, traded, released>>

\* _match_fok refuses: as a sweep would, by its self-match policy.
RefuseFok ==
  LET o   == order(cur)
      own == {p \in Matchable(book, cur) : order(p).gw = o.gw}
  IN  /\ Processing /\ matching /\ o.kind = "FOK" /\ ~Fills(cur)
      /\ book' = [book EXCEPT !.ord[cur].status =
                    IF o.smp \in {"CANCEL_AGGRESSOR", "CANCEL_BOTH"} /\ own # {}
                    THEN "CANCELLED" ELSE "REJECTED"]
      /\ clearing' = IF o.smp \in {"CANCEL_RESTING", "CANCEL_BOTH"} THEN own ELSE {}
      /\ pc' = "refuse"
      /\ UNCHANGED <<last, hasStops, matching, born, cur, todo, traded, released>>

RefusePull ==
  /\ pc = "refuse"
  /\ \E p \in clearing : book' = SmpCancel(book, p) /\ clearing' = clearing \ {p}
  /\ UNCHANGED <<last, hasStops, matching, born, pc, cur, todo, traded, released>>

Refused ==
  /\ pc = "refuse" /\ clearing = {}
  /\ pc' = "settle"
  /\ UNCHANGED <<book, last, hasStops, matching, born, cur, todo, clearing, traded, released>>

-----------------------------------------------------------------------------
(***************************************************************************)
(* _sweep and the matchers' treatment of what it leaves.                   *)
(***************************************************************************)
Unfilled == pc = "sweep" /\ order(cur).rem > 0

\* The best resting order, if cur may trade with it.
Facing(p) == Unfilled /\ IsBest(book, p, Matchable(book, cur))

Trade(p) ==
  /\ Facing(p) /\ SelfMatch(book, cur, p) = "NONE"
  /\ book' = ApplyFill(book, cur, p)
  /\ last' = order(p).price
  /\ traded' = TRUE
  /\ UNCHANGED <<hasStops, matching, born, pc, cur, todo, clearing, released>>

SelfMatchPullsResting(p) ==
  /\ Facing(p) /\ SelfMatch(book, cur, p) = "CANCEL_RESTING"
  /\ book' = SmpCancel(book, p)
  /\ UNCHANGED <<last, hasStops, matching, born, dispatch>>

SelfMatchPullsAggressor(p) ==
  /\ Facing(p) /\ SelfMatch(book, cur, p) \in {"CANCEL_AGGRESSOR", "CANCEL_BOTH"}
  /\ LET b == IF SelfMatch(book, cur, p) = "CANCEL_BOTH" THEN SmpCancel(book, p) ELSE book
     IN  book' = [b EXCEPT !.ord[cur].status = "CANCELLED"]
  /\ pc' = "settle"
  /\ UNCHANGED <<last, hasStops, matching, born, cur, todo, clearing, traded, released>>

\* The remainder rests, or is cancelled if its type never rests.
SweepEnds ==
  /\ pc = "sweep"
  /\ order(cur).rem = 0 \/ Matchable(book, cur) = {}
  /\ book' = IF order(cur).rem = 0 THEN book
             ELSE IF order(cur).kind \in Restable THEN Rest(book, cur)
             ELSE [book EXCEPT !.ord[cur].status = "CANCELLED"]
  /\ pc' = "settle"
  /\ UNCHANGED <<last, hasStops, matching, born, cur, todo, clearing, traded, released>>

-----------------------------------------------------------------------------
(***************************************************************************)
(* The end of process(), the stop cascade and the second leg.              *)
(***************************************************************************)
Dormant(b) == {i \in Ids : b.ord[i].place \in {"armed", "trailing"}}

\* _has_stops after a cascade check.
WatchHeapsOnly(b) == \E i \in Ids : b.ord[i].place = "armed"     \* mutant
Watch(b) == Dormant(b) # {}

\* An OCO leg that ended pulls its sibling before the cascade goes on; then
\* the stops that the last trade reached join the queue.
Settle ==
  /\ pc = "settle"
  /\ LET b == OcoLegEnded(book, cur)
         r == Release(b, last, released)
     IN  IF traded /\ hasStops
         THEN /\ book' = r
              /\ hasStops' = Watch(r)
              /\ released' = released + Cardinality(Dormant(b) \ Dormant(r))
         ELSE book' = b /\ UNCHANGED <<hasStops, released>>
  /\ pc' = "next"
  /\ UNCHANGED <<last, matching, born, cur, todo, clearing, traded>>

Waiting == {i \in Ids : order(i).place = "triggered"}

\* run_stops takes the stop that was released first.
RunStop(i) ==
  /\ pc = "next" /\ i \in Waiting
  /\ \A j \in Waiting : order(i).turn <= order(j).turn
  /\ pc' = "process" /\ cur' = i /\ traded' = FALSE
  /\ UNCHANGED <<book, last, hasStops, matching, born, todo, clearing, released>>

\* The first leg ended the pair, so its second leg is never posted.
Stillborn(j) ==
  \/ order(j).bond = "oco" /\ order(j - 1).status \in Dead
  \/ order(j).bond = "quote" /\ order(j).group \notin book.live

PostSecondLeg ==
  /\ pc = "next" /\ Waiting = {} /\ todo # 0 /\ ~Stillborn(todo)
  /\ pc' = "process" /\ cur' = todo /\ todo' = 0 /\ traded' = FALSE
  /\ UNCHANGED <<book, last, hasStops, matching, born, clearing, released>>

DropSecondLeg ==
  /\ pc = "next" /\ Waiting = {} /\ todo # 0 /\ Stillborn(todo)
  /\ book' = [book EXCEPT !.ord[todo].status = "CANCELLED"]
  /\ todo' = 0
  /\ UNCHANGED <<last, hasStops, matching, born, pc, cur, clearing, traded, released>>

HandlerReturns ==
  /\ pc = "next" /\ Waiting = {} /\ todo = 0
  /\ pc' = "idle" /\ cur' = 0 /\ traded' = FALSE /\ released' = 0
  /\ UNCHANGED <<book, last, hasStops, matching, born, todo, clearing>>

-----------------------------------------------------------------------------
Message ==
  \/ \E r \in NewOrders : NewOrder(r)
  \/ \E legs \in OcoPairs : OcoOrder(legs)
  \/ \E legs \in QuotePairs : QuoteNew(legs)
  \/ \E gw \in Gateways : QuoteCancel(gw) \/ KillSwitch(gw)
  \/ \E i \in Ids : CancelOrder(i) \/ OcoCancel(i)
  \/ \E i \in Ids, price \in AmendPrices, qty \in AmendQtys : Amend(i, price, qty)
  \/ CallPhaseBegins \/ NoMessage

EngineStep ==
  \/ Withdraw \/ Withdrawn
  \/ DropCancelled \/ RejectImmediate \/ RestUnmatched
  \/ HandlerRaises \/ ArmStop \/ TriggerOnEntry
  \/ StartSweep \/ RefuseFok \/ RefusePull \/ Refused
  \/ \E p \in Ids : Trade(p) \/ SelfMatchPullsResting(p) \/ SelfMatchPullsAggressor(p)
  \/ SweepEnds \/ Settle
  \/ \E i \in Ids : RunStop(i)
  \/ PostSecondLeg \/ DropSecondLeg \/ HandlerReturns

Next == Message \/ EngineStep

Spec == Init /\ [][Next]_vars

\* The run loop never waits inside a handler.
FairSpec == Spec /\ WF_vars(EngineStep)

-----------------------------------------------------------------------------
(***************************************************************************)
(* Properties.                                                             *)
(***************************************************************************)
Pcs == {"idle", "withdraw", "process", "refuse", "sweep", "settle", "next"}

\* Every variable keeps its type.
TypeOK ==
  /\ book \in Book
  /\ last \in Prices \cup {NoPrice}
  /\ hasStops \in BOOLEAN /\ matching \in BOOLEAN /\ traded \in BOOLEAN
  /\ born \in 0 .. MaxOrders /\ cur \in 0 .. MaxOrders /\ todo \in 0 .. MaxOrders
  /\ clearing \subseteq Ids /\ pc \in Pcs /\ released \in Nat

\* Every order is sound (OrderSound in BookState): what is left of it agrees
\* with its status, and what the book holds shows a positive slice no larger
\* than what is left.  A slice of zero would make _sweep loop for ever, a
\* larger one would overfill.
OrdersSound == \A i \in Ids : OrderSound(order(i))

\* The shares on show at a price, one by one.
OnShow(s, p) ==
  UNION {{i} \X (1 .. Slice(order(i))) : i \in {j \in Resting(book, s) : order(j).price = p}}

\* The level index, kept by additions and deductions at a dozen places, is
\* always the sum of what the orders resting at that price show: depth, best
\* prices and the marketability of an amend are read from it.
LevelIndexExact ==
  \A s \in Sides, p \in Prices : book.level[s][p] = Cardinality(OnShow(s, p))

\* While the market matches continuously the book is never crossed, not even
\* between the steps of a handler: no resting bid reaches a resting ask.
NeverCrossed ==
  matching => \A b \in Resting(book, "BUY"), s \in Resting(book, "SELL") :
                order(b).price < order(s).price

\* A fill-or-kill order never ends its handling partly executed, whatever the
\* icebergs, OCO pairs and own orders its pre-check walked past.
FokAllOrNone ==
  pc # "sweep" => \A i \in Ids : order(i).kind = "FOK" => order(i).rem \in {0, order(i).qty}

\* When the engine returns to its queue no dormant stop has been reached by
\* the last trade: the cascade and the entry check together miss none.
NoReachedStopSleeps ==
  pc = "idle" /\ matching /\ last # NoPrice =>
    \A i \in Dormant(book) : ~Breached(order(i).side, order(i).stop, last)

\* _has_stops is what lets the cascade look at stops at all: while a stop is
\* armed or trailing it is set.
StopsAreWatched == Dormant(book) # {} => hasStops

\* The legs of an OCO pair that cannot meet each other, or whose owner lets the
\* incoming one of the two give way.
Tied(i) ==
  /\ order(i).bond = "oco"
  /\ \/ order(i).side = order(Sibling(book, i)).side
     \/ order(i).smp \in {"CANCEL_AGGRESSOR", "CANCEL_BOTH"}

\* One cancels the other: between messages the legs of a pair are both
\* working or both ended, however the first one ended.
OcoEndsTogether ==
  pc = "idle" => \A i \in Ids : Tied(i) /\ order(i).status \in Dead
                                => order(Sibling(book, i)).status \in Dead

\* A participant never has two resting quote legs on one side: replacing a
\* quote clears what a fill left behind even when no quote is registered.
OneQuotePerSide ==
  pc = "idle" =>
    \A i, j \in Ids :
      /\ order(i).place = "book" /\ order(j).place = "book"
      /\ order(i).bond = "quote" /\ order(j).bond = "quote"
      /\ order(i).gw = order(j).gw /\ order(i).side = order(j).side
      => i = j

\* A pair's cancel may only be asked for while it is registered; once both
\* legs are done its id is free again (comment in _handle_oco_order).
OcoIdFreedWhenDone ==
  pc = "idle" => \A g \in book.live :
     ~(/\ order(g).bond = "oco"
       /\ order(g).status \in Dead /\ order(g + 1).status \in Dead)

\* The guarantee the participant guide gives: a participant cannot be filled
\* on both legs of an OCO pair.
NotBothFilled ==
  \A i \in Ids : order(i).bond = "oco" /\ order(i).status = "FILLED"
                 => order(Sibling(book, i)).status # "FILLED"

\* Every reject of a pair is a reject of the whole: while neither leg has
\* ended, a leg is in the book only if the other one is.
NeitherOrBothPosted ==
  pc = "idle" => \A i \in Ids :
     order(i).bond = "oco" /\ order(i).place \in Held
       => \/ order(Sibling(book, i)).place \in Held
          \/ order(Sibling(book, i)).status \in Dead

\* Order i executes in this step (an amend leaves what is executed alone).
Executes(i) == book'.ord[i].qty - book'.ord[i].rem > order(i).qty - order(i).rem

\* Price-time priority: an order that rests is not traded while one with a
\* better price, or the same price and an earlier arrival, rests on its side.
PriceTimePriority ==
  [][\A p, q \in Ids :
       /\ order(p).place = "book" /\ order(q).place = "book"
       /\ order(p).side = order(q).side /\ Executes(p)
       => ~Ahead(book, q, p)]_vars

\* Of two orders resting at one price the one in front falls behind exactly
\* when its slice is used up or its owner asks for a larger size; nothing else
\* reorders them.
QueueDiscipline ==
  [][\A i, j \in Ids :
       /\ \A b \in {book, book'} : b.ord[i].place = "book" /\ b.ord[j].place = "book"
       /\ order(i).side = order(j).side
       /\ order(i).price = order(j).price /\ book'.ord[i].price = book'.ord[j].price
       /\ Ahead(book, i, j)
       => (~Ahead(book', i, j) <=>
             \/ book'.ord[i].qty > order(i).qty
             \/ /\ order(i).kind = "ICEBERG" /\ Executes(i)
                /\ book'.ord[i].rem = order(i).rem - order(i).shown)]_vars

\* No participant trades with itself unless the incoming order allows it.
NoWashTrade ==
  [][\A a, p \in Ids :
       /\ order(p).place = "book" /\ a = cur /\ a # p
       /\ Executes(a) /\ Executes(p) /\ order(a).gw = order(p).gw
       => order(a).smp = "NONE"]_vars

\* An ended order is never touched again: not by a hook, a cascade, a cancel
\* that crosses a fill, or a remainder that rests.
TerminalIsFinal ==
  [][\A i \in Ids : order(i).status \in Dead =>
       /\ book'.ord[i].status = order(i).status
       /\ book'.ord[i].rem = order(i).rem
       /\ book'.ord[i].place \notin Held]_vars

\* Once one leg of a pair has ended the other never executes, not even for
\* the rest of the sweep or in the cascade that the first leg set off.
OcoLoserNeverTrades ==
  [][\A i \in Ids :
       Tied(i) /\ order(Sibling(book, i)).status \in Dead => ~Executes(i)]_vars

\* A quote that is inactivated by a fill is inactivated at once: its other leg
\* never executes after that, not even against a stop the fill released.
Inactivated(i) ==
  LET sibling == order(Sibling(book, i))
  IN  /\ order(i).bond = "quote"
      /\ \/ RefreshPolicy[order(i).gw] = "INACTIVATE_ON_ANY_FILL" /\ sibling.rem < sibling.qty
         \/ RefreshPolicy[order(i).gw] = "INACTIVATE_ON_FULL_FILL" /\ sibling.status = "FILLED"

InactiveQuoteNeverTrades == [][\A i \in Ids : Inactivated(i) => ~Executes(i)]_vars

\* A trailing stop only tightens while it trails.
TrailingOnlyTightens ==
  [][\A i \in Ids :
       order(i).place = "trailing" /\ book'.ord[i].place \in {"trailing", "triggered"} =>
         IF order(i).side = "SELL" THEN book'.ord[i].stop >= order(i).stop
                                   ELSE book'.ord[i].stop <= order(i).stop]_vars

\* Every message is answered: no sweep, cascade or batch of cancels keeps the
\* engine for ever.
DispatchEnds == pc # "idle" ~> pc = "idle"

\* The book keeps the promises of the trade ledger.
View(o) ==
  [state |-> CASE o.status = "ABSENT" -> "absent"
               [] o.status \in Dead -> "ended"
               [] OTHER             -> "open",
   side |-> o.side, limit |-> o.price, qty |-> o.qty, rem |-> o.rem]

Ledger == INSTANCE TradeLedger WITH
            ledger <- [i \in Ids |-> View(order(i))], print <- last

LedgerSpec == Ledger!Spec
=============================================================================
