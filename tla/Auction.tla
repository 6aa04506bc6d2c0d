------------------------------- MODULE Auction -------------------------------
(***************************************************************************)
(* Call auctions (engine/auction.py and _run_uncross): while the market    *)
(* collects, the book may be crossed; when the phase ends one price is     *)
(* computed and everything that crosses it trades at that price.           *)
(*                                                                         *)
(* The price is found by a dry run of the uncross on a copy of the book;   *)
(* the uncross itself is a chain of steps of the engine, because an OCO    *)
(* leg that fills pulls its sibling in the middle of the walk.  pc is      *)
(* "uncross" during the walk, "unlock" while pairs of one participant      *)
(* left crossed beyond the price are resolved, and "follow-up" while the   *)
(* quotes that were hit are inactivated.  The stops come last, with the    *)
(* cascade of OrderBook.                                                   *)
(***************************************************************************)
EXTENDS OrderBook, Sequences

VARIABLES
  eq,        \* the price of the running uncross, NoPrice when none runs
  promised,  \* the quantity the dry run found at that price
  printed,   \* the quantity the uncross has traded so far
  hit        \* the orders it has filled, in order, each once

auction == <<eq, promised, printed, hit>>
avars   == <<vars, auction>>

-----------------------------------------------------------------------------
(***************************************************************************)
(* The demand and supply curves.                                           *)
(***************************************************************************)

\* The resting orders of side s that trade at price p.  An iceberg counts
\* with all that is left of it (_auction_levels), not with its slice.
Crossing(b, s, p) == {i \in Resting(b, s) : Within(Opposite(s), p, b.ord[i].price)}

\* mutant: the level index is read, which holds only slices
CurveShown(b, s, p) == Units(Crossing(b, s, p), [i \in Ids |-> Slice(b.ord[i])])
Curve(b, s, p)  == Units(Crossing(b, s, p), [i \in Ids |-> b.ord[i].rem])
Bound(b, p)     == Least(Curve(b, "BUY", p), Curve(b, "SELL", p))
Distance(x, y)  == IF x > y THEN x - y ELSE y - x
Levelled(b)     == {b.ord[i].price : i \in Resting(b, "BUY") \cup Resting(b, "SELL")}
Candidates(b)   == {p \in Levelled(b) : Bound(b, p) > 0}

\* Two legs of one OCO pair.
Twins(b, i, j) == b.ord[i].bond = "oco" /\ b.ord[j].bond = "oco"
                  /\ b.ord[i].group = b.ord[j].group

\* _auction_smp_action: nobody is the aggressor, so the bid's policy decides
\* and, if it has none, the ask's.
AuctionSmpOfBid(b, bid, ask) == SelfMatch(b, bid, ask)   \* mutant: the ask's is ignored
AskDecides(b, bid, ask) == SelfMatch(b, bid, ask) = "NONE"
AuctionSmp(b, bid, ask) ==
  IF AskDecides(b, bid, ask) THEN SelfMatch(b, ask, bid) ELSE SelfMatch(b, bid, ask)

\* The orders whose cancellation the policy asks for.
SmpCancels(b, bid, ask) ==
  LET aggressor == IF AskDecides(b, bid, ask) THEN ask ELSE bid
      passive   == IF AskDecides(b, bid, ask) THEN bid ELSE ask
      action    == AuctionSmp(b, bid, ask)
  IN  (IF action \in {"CANCEL_AGGRESSOR", "CANCEL_BOTH"} THEN {aggressor} ELSE {})
      \cup (IF action \in {"CANCEL_RESTING", "CANCEL_BOTH"} THEN {passive} ELSE {})

\* _needs_simulation: an OCO pair with both legs in the book, or a crossing
\* bid and ask of one participant of which one carries a policy.
SimulatesForSmpOnly(b) ==     \* mutant: OCO pairs are overlooked
  \E i \in Resting(b, "BUY"), j \in Resting(b, "SELL") :
     b.ord[i].price >= b.ord[j].price /\ AuctionSmp(b, i, j) # "NONE"
NeedsSimulation(b) ==
  \/ \E i, j \in Resting(b, "BUY") \cup Resting(b, "SELL") : i # j /\ Twins(b, i, j)
  \/ \E i \in Resting(b, "BUY"), j \in Resting(b, "SELL") :
       b.ord[i].price >= b.ord[j].price /\ AuctionSmp(b, i, j) # "NONE"

-----------------------------------------------------------------------------
(***************************************************************************)
(* The dry run (_simulated_quantity), on a copy of what crosses the price. *)
(* An order the dry run cancels has nothing left.                          *)
(***************************************************************************)
DryState(b) ==
  {d \in [left : [Ids -> Nat], shown : [Ids -> Nat], turn : [Ids -> Nat],
          next : Nat, qty : Nat] :
     \A i \in Ids : d.left[i] > 0 =>
        /\ d.shown[i] \in 1 .. d.left[i]
        /\ b.ord[i].kind # "ICEBERG" => d.shown[i] = d.left[i]}

DryStart(b, p) ==
  LET in == Crossing(b, "BUY", p) \cup Crossing(b, "SELL", p)
  IN  [left  |-> [i \in Ids |-> IF i \in in THEN b.ord[i].rem ELSE 0],
       shown |-> [i \in Ids |-> IF i \in in THEN Slice(b.ord[i]) ELSE 0],
       turn  |-> [i \in Ids |-> b.ord[i].seq],
       next  |-> b.seq + 1,
       qty   |-> 0]

DryLive(b, d, s) == {i \in Ids : d.left[i] > 0 /\ b.ord[i].side = s}

\* _head: best price first, then the turn.
DryHead(b, d, s) ==
  CHOOSE i \in DryLive(b, d, s) : \A j \in DryLive(b, d, s) :
     \/ Better(s, b.ord[i].price, b.ord[j].price)
     \/ b.ord[i].price = b.ord[j].price /\ d.turn[i] <= d.turn[j]

WithSibling(b, i) == IF b.ord[i].bond = "oco" THEN {i, Sibling(b, i)} ELSE {i}
DryKill(d, S) == [d EXCEPT !.left = [i \in Ids |-> IF i \in S THEN 0 ELSE @[i]]]

\* The two heads trade; a used-up slice is replaced at the back of its level.
DryTrade(b, d, bid, ask) ==
  LET q == Least(d.shown[bid], d.shown[ask])
      left(i)  == IF i \in {bid, ask} THEN d.left[i] - q ELSE d.left[i]
      shown(i) == IF i \in {bid, ask} THEN d.shown[i] - q ELSE d.shown[i]
      peaks(i) == i \in {bid, ask} /\ left(i) > 0 /\ shown(i) = 0
      gone     == {i \in {bid, ask} : left(i) = 0}
  IN  DryKill([d EXCEPT
         !.left  = [i \in Ids |-> left(i)],
         !.shown = [i \in Ids |-> IF peaks(i) THEN Least(b.ord[i].peak, left(i))
                                  ELSE shown(i)],
         !.turn  = [i \in Ids |-> IF peaks(i) THEN d.next ELSE @[i]],
         !.next  = @ + 1,
         !.qty   = @ + q], UNION {WithSibling(b, i) : i \in gone})

DryPass(b, d) ==
  LET bid == DryHead(b, d, "BUY")
      ask == DryHead(b, d, "SELL")
  IN  IF Twins(b, bid, ask) THEN DryKill(d, {bid, ask})
      ELSE IF AuctionSmp(b, bid, ask) # "NONE"
      THEN DryKill(d, UNION {WithSibling(b, i) : i \in SmpCancels(b, bid, ask)})
      ELSE DryTrade(b, d, bid, ask)

DryOver(b, d) == DryLive(b, d, "BUY") = {} \/ DryLive(b, d, "SELL") = {}
DryWalk(b) ==
  LET walk[d \in DryState(b)] == IF DryOver(b, d) THEN d ELSE walk[DryPass(b, d)]
  IN  walk

DryRun(b, p) ==
  LET end == DryWalk(b)[DryStart(b, p)]
      left(s) == Units(DryLive(b, end, s), end.left)
  IN  [qty |-> end.qty, surplus |-> Distance(left("BUY"), left("SELL"))]

-----------------------------------------------------------------------------
(***************************************************************************)
(* compute_equilibrium.                                                    *)
(***************************************************************************)
Outcome(b, p) ==
  IF NeedsSimulation(b) THEN DryRun(b, p)
  ELSE [qty |-> Bound(b, p), surplus |-> Distance(Curve(b, "BUY", p), Curve(b, "SELL", p))]

\* Most quantity, then least surplus, then the lowest price.
Preferred(x, p, y, q) ==
  \/ x.qty > y.qty
  \/ x.qty = y.qty /\ x.surplus < y.surplus
  \/ x.qty = y.qty /\ x.surplus = y.surplus /\ p <= q

\* Prices are tried best bound first, until a bound falls below the best
\* quantity already found.
TriedBefore(b, q, p) ==
  \/ Bound(b, q) > Bound(b, p)
  \/ Bound(b, q) = Bound(b, p) /\ q < p
Tried(b, out) ==
  {p \in Candidates(b) :
     \A q \in Candidates(b) : TriedBefore(b, q, p) => out[q].qty <= Bound(b, p)}

\* The price the book crosses at and what trades there, a set of one record.
\* The quantity may be zero: self-matches then consume the whole overlap, and
\* the uncross still runs to cancel them (resolve_price).
Equilibria(b) ==
  LET out   == [p \in Candidates(b) |-> Outcome(b, p)]
      tried == Tried(b, out)
      best  == {p \in tried : \A q \in tried : Preferred(out[p], p, out[q], q)}
  IN  IF Candidates(b) = {} THEN {[price |-> NoPrice, qty |-> 0]}
      ELSE {[price |-> p, qty |-> out[p].qty] : p \in best}

-----------------------------------------------------------------------------
(***************************************************************************)
(* execute_uncross, pass by pass.                                          *)
(***************************************************************************)
IsHeadByPrice(b, i, s) == IsBestByPrice(b, i, Resting(b, s))   \* mutant: no time priority
IsHead(b, i, s) == IsBest(b, i, Resting(b, s))
Heads(b, bid, ask) == IsHead(b, bid, "BUY") /\ IsHead(b, ask, "SELL")
Bids(b) == Resting(b, "BUY")
Asks(b) == Resting(b, "SELL")

\* The walk goes on while both heads trade at price p.
Meet(b, bid, ask, p) ==
  Heads(b, bid, ask) /\ bid \in Crossing(b, "BUY", p) /\ ask \in Crossing(b, "SELL", p)

SelfMatched(b, bid, ask) == Twins(b, bid, ask) \/ AuctionSmp(b, bid, ask) # "NONE"

\* _resolve_self_match.  Crossing legs of one pair: the bid is cancelled, and
\* the pair's hook takes the ask.
ResolveSelfMatch(b, bid, ask) ==
  IF Twins(b, bid, ask) THEN OcoLegEnded(Cancel(b, bid), bid)
  ELSE LET S == SmpCancels(b, bid, ask)
           pull(x, i) == IF i \in S THEN SmpCancel(x, i) ELSE x
       IN  pull(pull(b, bid), ask)

\* _apply_fill with both_resting: both sides leave the level index, the OCO
\* hook runs at once (ask first), the quote hook does not.
FillWithoutOcoHook(b, bid, ask) ==     \* mutant: the pair is looked at afterwards
  LET q == Least(Slice(b.ord[bid]), Slice(b.ord[ask]))
  IN  Reduce(Reduce(b, bid, q), ask, q)
FillLarger(b, bid, ask) ==     \* mutant: the larger of the two slices trades
  LET q == Slice(b.ord[bid]) + Slice(b.ord[ask]) - Least(Slice(b.ord[bid]), Slice(b.ord[ask]))
  IN  OcoLegEnded(OcoLegEnded(Reduce(Reduce(b, bid, q), ask, q), ask), bid)
FillHiddenToo(b, bid, ask) ==     \* mutant: an iceberg fills beyond its slice
  LET q == Least(b.ord[bid].rem, b.ord[ask].rem)
  IN  OcoLegEnded(OcoLegEnded(Reduce(Reduce(b, bid, q), ask, q), ask), bid)
FillBoth(b, bid, ask) ==
  LET q == Least(Slice(b.ord[bid]), Slice(b.ord[ask]))
  IN  OcoLegEnded(OcoLegEnded(Reduce(Reduce(b, bid, q), ask, q), ask), bid)

Listed(i) == \E k \in DOMAIN hit : hit[k] = i
WithHit(i, j) == hit \o (IF Listed(i) THEN <<>> ELSE <<i>>) \o (IF Listed(j) THEN <<>> ELSE <<j>>)

UncrossFill(bid, ask) ==
  /\ pc = "uncross" /\ Meet(book, bid, ask, eq)
  /\ ~SelfMatched(book, bid, ask)
  /\ book' = FillBoth(book, bid, ask)
  /\ last' = eq
  /\ printed' = printed + (order(bid).rem - book'.ord[bid].rem)
  /\ hit' = WithHit(bid, ask)
  /\ UNCHANGED <<hasStops, matching, born, dispatch, eq, promised>>

UncrossSelfMatch(bid, ask) ==
  /\ pc = "uncross" /\ Meet(book, bid, ask, eq)
  /\ SelfMatched(book, bid, ask)
  /\ book' = ResolveSelfMatch(book, bid, ask)
  /\ UNCHANGED <<last, hasStops, matching, born, dispatch, auction>>

Stay(next) ==
  /\ pc' = next
  /\ UNCHANGED <<book, last, hasStops, matching, born, cur, todo, clearing, traded, released>>

UncrossEnds ==
  /\ pc = "uncross" /\ ~\E bid, ask \in Ids : Meet(book, bid, ask, eq)
  /\ Stay("unlock")
  /\ UNCHANGED auction

LockedNever(b, bid, ask) == FALSE     \* mutant: the second loop is missing

\* The walk only meets orders priced at eq or better: a bid above and an ask
\* below it that one participant kept from trading are still crossed.
Locked(b, bid, ask) ==
  Heads(b, bid, ask) /\ b.ord[bid].price >= b.ord[ask].price /\ SelfMatched(b, bid, ask)

Unlock(bid, ask) ==
  /\ pc = "unlock" /\ Locked(book, bid, ask)
  /\ book' = ResolveSelfMatch(book, bid, ask)
  /\ UNCHANGED <<last, hasStops, matching, born, dispatch, auction>>

UnlockEnds ==
  /\ pc = "unlock" /\ ~\E bid, ask \in Ids : Locked(book, bid, ask)
  /\ Stay("follow-up")
  /\ UNCHANGED auction

-----------------------------------------------------------------------------
(***************************************************************************)
(* _run_uncross: the price, the walk, the quotes that were hit, the stops. *)
(***************************************************************************)

\* The uncross starts at price p; from here on the engine matches, because
\* the stops it will release are processed as in continuous trading.
StartUncross(p, qty) ==
  /\ eq' = p /\ promised' = qty /\ printed' = 0 /\ hit' = <<>>
  /\ pc' = "uncross" /\ matching' = TRUE
  /\ UNCHANGED <<book, last, hasStops, born, cur, todo, clearing, traded, released>>

\* _publish_dispatch: the refresh policy of a quote whose leg was hit.
FollowUp ==
  /\ pc = "follow-up" /\ hit # <<>>
  /\ book' = QuoteLegFilled(book, Head(hit))
  /\ hit' = Tail(hit)
  /\ UNCHANGED <<last, hasStops, matching, born, dispatch, eq, promised, printed>>

PublishedAlready == TRUE     \* mutant: the stops run before the quotes are looked at
Published == hit = <<>>

\* run_stops, if anything printed.
UncrossPublished ==
  /\ pc = "follow-up" /\ Published
  /\ LET r == Release(book, last, released)
     IN  IF printed > 0 /\ hasStops
         THEN /\ book' = r
              /\ hasStops' = Watch(r)
              /\ released' = released + Cardinality(Dormant(book) \ Dormant(r))
         ELSE UNCHANGED <<book, hasStops, released>>
  /\ pc' = "next"
  /\ eq' = NoPrice /\ promised' = 0 /\ printed' = 0 /\ hit' = <<>>
  /\ UNCHANGED <<last, matching, born, cur, todo, clearing, traded>>

UncrossStep ==
  \/ \E bid, ask \in Ids : \/ UncrossFill(bid, ask)
                           \/ UncrossSelfMatch(bid, ask)
                           \/ Unlock(bid, ask)
  \/ UncrossEnds \/ UnlockEnds \/ FollowUp \/ UncrossPublished

-----------------------------------------------------------------------------
(***************************************************************************)
(* A market that collects, uncrosses, trades continuously and collects     *)
(* again.  Session adds the phases, the halts and the expiries.            *)
(***************************************************************************)
AuctionIdle == eq = NoPrice /\ promised = 0 /\ printed = 0 /\ hit = <<>>

AInit == Init /\ AuctionIdle /\ ~matching

\* The phase ends: the book uncrosses if it crosses.
CallPhaseEnds ==
  /\ pc = "idle" /\ ~matching
  /\ \E e \in Equilibria(book) :
       IF e.price # NoPrice
       THEN StartUncross(e.price, e.qty)
       ELSE /\ matching' = TRUE
            /\ UNCHANGED <<book, last, hasStops, born, dispatch, auction>>

ANext ==
  \/ Next /\ UNCHANGED auction
  \/ CallPhaseEnds
  \/ UncrossStep

ASpec == AInit /\ [][ANext]_avars

-----------------------------------------------------------------------------
(***************************************************************************)
(* Properties.                                                             *)
(***************************************************************************)
Uncrossing == pc \in {"uncross", "unlock", "follow-up"}

\* Every variable keeps its type.
ATypeOK ==
  /\ book \in Book
  /\ last \in Prices \cup {NoPrice}
  /\ hasStops \in BOOLEAN /\ matching \in BOOLEAN /\ traded \in BOOLEAN
  /\ born \in 0 .. MaxOrders /\ cur \in 0 .. MaxOrders /\ todo \in 0 .. MaxOrders
  /\ clearing \subseteq Ids /\ released \in Nat
  /\ pc \in Pcs \cup {"uncross", "unlock", "follow-up"}
  /\ eq \in Prices \cup {NoPrice} /\ promised \in Nat /\ printed \in Nat
  /\ hit \in Seq(Ids)

\* The indicative is what prints (auction.py's own claim): the dry run on a
\* copy and the walk of the book, each with its own self-match, OCO and
\* iceberg rules, agree on the quantity.
IndicativePrints == pc \in {"unlock", "follow-up"} => printed = promised

\* One more pass of a walk of the book at price p.  x is the book and what was
\* traded so far; a walk that is over goes no further.
WalkPass(x, p) ==
  LET pair == CHOOSE c \in Ids \X Ids : Meet(x.book, c[1], c[2], p)
      next == IF SelfMatched(x.book, pair[1], pair[2])
              THEN ResolveSelfMatch(x.book, pair[1], pair[2])
              ELSE FillBoth(x.book, pair[1], pair[2])
      sold == IF SelfMatched(x.book, pair[1], pair[2]) THEN 0
              ELSE x.book.ord[pair[1]].rem - next.ord[pair[1]].rem
  IN  IF \E bid \in Bids(x.book), ask \in Asks(x.book) : Meet(x.book, bid, ask, p)
      THEN [book |-> next, qty |-> x.qty + sold]
      ELSE x

\* The quantity a walk of the book at price p really trades.  Every pass takes
\* a unit at least off what rests, so there are passes enough.
Volume(b, p) ==
  LET walk[k \in Nat] == IF k = 0 THEN [book |-> b, qty |-> 0] ELSE WalkPass(walk[k - 1], p)
  IN  walk[Units(Bids(b) \cup Asks(b), [i \in Ids |-> b.ord[i].rem])].qty

\* The equilibrium trades the most: at no price, on a level or between levels,
\* would a walk of the book trade more, although prices are skipped by their
\* bounds and the curves are trusted when no self-match is in sight.
EquilibriumIsBest ==
  pc = "idle" /\ ~matching =>
    \A e \in Equilibria(book), p \in Prices : Volume(book, p) <= e.qty

\* The market opens uncrossed: when the uncross is done, and for as long as
\* the market then matches, no resting bid reaches a resting ask, whatever
\* the self-match rules kept from trading.
OpensUncrossed ==
  matching /\ pc \notin {"uncross", "unlock"} =>
    \A b \in Bids(book), s \in Asks(book) : order(b).price < order(s).price

\* Of two orders of one participant that trade with each other in the
\* uncross neither asked for self-match prevention, and they are not the two
\* legs of one pair.
NoWashInUncross ==
  [][\A i \in Bids(book), j \in Asks(book) :
       pc = "uncross" /\ Executes(i) /\ Executes(j) /\ order(i).gw = order(j).gw
       => order(i).smp = "NONE" /\ order(j).smp = "NONE" /\ ~Twins(book, i, j)]_avars

\* The stops of an uncross never trade with a quote leg that the uncross
\* inactivated: the quotes are followed up before the stops run.
StopsSkipHitQuotes ==
  [][\A i \in Ids : pc = "sweep" /\ Inactivated(i) => ~Executes(i)]_avars

\* Price-time priority in the walk and in the continuous market: what rests
\* is not traded while something better, or earlier at its price, rests.
APriority ==
  [][\A p, q \in Ids :
       /\ order(p).place = "book" /\ order(q).place = "book"
       /\ order(p).side = order(q).side /\ Executes(p)
       => ~Ahead(book, q, p)]_avars

\* Once a leg of a pair has ended the other never executes, not even later in
\* the same uncross.
ALoserNeverTrades ==
  [][\A i \in Ids :
       Tied(i) /\ order(Sibling(book, i)).status \in Dead => ~Executes(i)]_avars
=============================================================================
