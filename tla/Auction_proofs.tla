---------------------------- MODULE Auction_proofs ----------------------------
(***************************************************************************)
(* Theorems about the uncross.  Outside it the engine is where OrderBook   *)
(* has it, and the invariant is that of OrderBook; inside it no order is   *)
(* in hand and the book is changed by fills of two resting orders and by   *)
(* withdrawals.  What the proofs about continuous matching say of a book   *)
(* that is reduced or thinned is used again here.                          *)
(***************************************************************************)
EXTENDS Auction, Fok_proofs, SequenceTheorems, WellFoundedInduction

\* The engine during an uncross.
UncrossOK ==
  /\ Sound(book) /\ Registered /\ Unborn
  /\ last \in Prices \cup {NoPrice} /\ hasStops \in BOOLEAN /\ traded \in BOOLEAN
  /\ matching = TRUE /\ born \in 0 .. MaxOrders /\ cur = 0 /\ todo = 0
  /\ clearing \subseteq Ids /\ released \in Nat
  /\ \A i \in Ids : order(i).place # "triggered"

AuctionTyped ==
  /\ eq \in Prices \cup {NoPrice} /\ (Uncrossing => eq \in Prices)
  /\ printed \in Nat /\ hit \in Seq(Ids)

AIInv ==
  /\ Uncrossing => UncrossOK
  /\ ~Uncrossing => IInv
  /\ AuctionTyped

-----------------------------------------------------------------------------
(***************************************************************************)
(* What one pass of the walk does to the book.                             *)
(***************************************************************************)

\* Two resting orders trade the smaller of their slices; the hooks then thin
\* the book.
LEMMA FillBothFacts ==
  ASSUME NEW b, Sound(b), NEW bid \in Ids, NEW ask \in Ids, bid # ask,
         b.ord[bid].place = "book", b.ord[ask].place = "book"
  PROVE  LET q == Least(Slice(b.ord[bid]), Slice(b.ord[ask]))
             c == Reduce(b, bid, q)
             d == Reduce(c, ask, q)
             e == OcoLegEnded(d, ask)
         IN  /\ Sound(c) /\ Sound(d) /\ Sound(e) /\ Sound(FillBoth(b, bid, ask))
             /\ q \in Nat \ {0} /\ d.live = b.live
             /\ q <= b.ord[bid].rem /\ q <= b.ord[ask].rem
             /\ q <= Slice(b.ord[bid]) /\ q <= Slice(b.ord[ask])
             /\ c.ord[ask] = b.ord[ask]
             /\ \A i \in Ids \ {bid, ask} : d.ord[i] = b.ord[i]
             /\ \A i \in {bid, ask} :
                  /\ SameOrder(b.ord[i], d.ord[i]) /\ d.ord[i].rem = b.ord[i].rem - q
                  /\ d.ord[i].status = IF d.ord[i].rem = 0 THEN "FILLED" ELSE "PARTIAL"
                  /\ d.ord[i].place = IF d.ord[i].rem = 0 THEN "none" ELSE "book"
             /\ Thinned(d, e) /\ Thinned(e, FillBoth(b, bid, ask))
             /\ Thinned(d, FillBoth(b, bid, ask))
             /\ FillBoth(b, bid, ask) = OcoLegEnded(e, bid)
<1> DEFINE q == Least(Slice(b.ord[bid]), Slice(b.ord[ask]))
           c == Reduce(b, bid, q)
           d == Reduce(c, ask, q)
           e == OcoLegEnded(d, ask)
<1>1. \A i \in {bid, ask} : /\ b.ord[i] \in Order /\ OrderSound(b.ord[i])
                            /\ b.ord[i].status \in Working
                            /\ b.ord[i].rem \in Nat
                            /\ Slice(b.ord[i]) \in 1 .. b.ord[i].rem
  BY DEF Sound, Book, OrderSound, Order
<1>2. /\ q \in Nat \ {0} /\ q <= b.ord[bid].rem /\ q <= b.ord[ask].rem
      /\ q <= Slice(b.ord[bid]) /\ q <= Slice(b.ord[ask])
  BY <1>1 DEF Least
<1>3. FillBoth(b, bid, ask) = OcoLegEnded(e, bid)
  BY DEF FillBoth
<1> HIDE DEF q
<1>4. /\ Sound(c) /\ OthersSame(b, c, bid) /\ SameOrder(b.ord[bid], c.ord[bid])
      /\ c.live = b.live /\ c.ord[bid].rem = b.ord[bid].rem - q
      /\ c.ord[bid].status = IF c.ord[bid].rem = 0 THEN "FILLED" ELSE "PARTIAL"
      /\ c.ord[bid].place = IF c.ord[bid].rem = 0 THEN "none" ELSE "book"
  BY <1>1, <1>2, ReduceSound
<1>5. c.ord[ask] = b.ord[ask]
  BY <1>4 DEF OthersSame
<1> HIDE DEF c
<1>6. /\ Sound(d) /\ OthersSame(c, d, ask) /\ SameOrder(c.ord[ask], d.ord[ask])
      /\ d.live = c.live /\ d.ord[ask].rem = c.ord[ask].rem - q
      /\ d.ord[ask].status = IF d.ord[ask].rem = 0 THEN "FILLED" ELSE "PARTIAL"
      /\ d.ord[ask].place = IF d.ord[ask].rem = 0 THEN "none" ELSE "book"
  BY <1>1, <1>2, <1>4, <1>5, ReduceSound
<1> HIDE DEF d
<1>7. Sound(e) /\ Thinned(d, e)
  BY <1>6, OcoLegEndedThins
<1> HIDE DEF e
<1>8. Sound(FillBoth(b, bid, ask)) /\ Thinned(e, FillBoth(b, bid, ask))
  BY <1>3, <1>7, OcoLegEndedThins
<1>9. Thinned(d, FillBoth(b, bid, ask))
  BY <1>6, <1>7, <1>8, ThinnedTransitive
<1>10. /\ \A i \in Ids \ {bid, ask} : d.ord[i] = b.ord[i]
       /\ d.ord[bid] = c.ord[bid]
  BY <1>4, <1>6 DEF OthersSame
<1>11. \A i \in {bid, ask} :
         /\ SameOrder(b.ord[i], d.ord[i]) /\ d.ord[i].rem = b.ord[i].rem - q
         /\ d.ord[i].status = IF d.ord[i].rem = 0 THEN "FILLED" ELSE "PARTIAL"
         /\ d.ord[i].place = IF d.ord[i].rem = 0 THEN "none" ELSE "book"
  BY <1>4, <1>5, <1>6, <1>10
<1>12. QED
  BY <1>2, <1>3, <1>4, <1>5, <1>6, <1>7, <1>8, <1>9, <1>10, <1>11 DEF q, c, d, e

\* A self-match is resolved by withdrawals.
LEMMA ResolveThins ==
  ASSUME NEW b, Sound(b), NEW bid \in Ids, NEW ask \in Ids
  PROVE  Sound(ResolveSelfMatch(b, bid, ask)) /\ Thinned(b, ResolveSelfMatch(b, bid, ask))
<1>1. Thinned(b, b)
  BY DEF Thinned
<1>2. CASE Twins(b, bid, ask)
  BY <1>2, SmpCancelThins DEF ResolveSelfMatch, SmpCancel
<1>3. CASE ~Twins(b, bid, ask)
  <2> DEFINE S == SmpCancels(b, bid, ask)
             x == IF bid \in S THEN SmpCancel(b, bid) ELSE b
             y == IF ask \in S THEN SmpCancel(x, ask) ELSE x
  <2>1. ResolveSelfMatch(b, bid, ask) = y
    BY <1>3 DEF ResolveSelfMatch
  <2> HIDE DEF S
  <2>2. Sound(x) /\ Thinned(b, x)
    BY <1>1, SmpCancelThins
  <2> HIDE DEF x
  <2>3. Thinned(x, x)
    BY DEF Thinned
  <2>4. Sound(y) /\ Thinned(x, y)
    BY <2>2, <2>3, SmpCancelThins
  <2> HIDE DEF y
  <2>5. QED
    BY <2>1, <2>2, <2>4, ThinnedTransitive
<1>4. QED
  BY <1>2, <1>3

\* Orders that meet rest on the two sides.
LEMMA MeetFacts ==
  ASSUME NEW b, NEW bid, NEW ask, Heads(b, bid, ask)
  PROVE  /\ bid \in Ids /\ ask \in Ids /\ bid # ask
         /\ b.ord[bid].place = "book" /\ b.ord[ask].place = "book"
         /\ b.ord[bid].side = "BUY" /\ b.ord[ask].side = "SELL"
BY DEF Heads, IsHead, IsBest, Resting

-----------------------------------------------------------------------------
(***************************************************************************)
(* The invariant.                                                          *)
(***************************************************************************)

\* A step of the book alone during an uncross.
LEMMA UncrossFrame ==
  ASSUME UncrossOK, NEW c, Sound(c), c.live \subseteq book.live,
         \A i \in Ids : /\ c.ord[i].bond = order(i).bond /\ c.ord[i].group = order(i).group
                        /\ c.ord[i] # order(i) => order(i).status # "ABSENT"
                        /\ c.ord[i].place # "triggered",
         book' = c, last' \in Prices \cup {NoPrice},
         UNCHANGED <<hasStops, matching, born, cur, todo, clearing, traded, released>>
  PROVE  UncrossOK'
<1>1. Registered'
  BY DEF UncrossOK, Registered, Sound, Book, order
<1>2. Unborn'
  BY DEF UncrossOK, Unborn, order
<1>3. QED
  BY <1>1, <1>2 DEF UncrossOK, order

LEMMA ThinnedUncross ==
  ASSUME UncrossOK, NEW c, Sound(c), Thinned(book, c), book' = c, last' = last,
         UNCHANGED <<hasStops, matching, born, cur, todo, clearing, traded, released>>
  PROVE  UncrossOK'
<1>1. Sound(book) /\ c.live \subseteq book.live
  BY DEF UncrossOK, Thinned
<1>2. ASSUME NEW i \in Ids
      PROVE  /\ c.ord[i].bond = order(i).bond /\ c.ord[i].group = order(i).group
             /\ c.ord[i] # order(i) => order(i).status # "ABSENT"
             /\ c.ord[i].place # "triggered"
  <2>1. /\ c.ord[i].bond = order(i).bond /\ c.ord[i].group = order(i).group
        /\ c.ord[i].place \in {order(i).place, "none"}
        /\ order(i).place = "none" => c.ord[i] = order(i)
    BY <1>1, ThinnedTies DEF SameBonds, SameTies, order
  <2>2. order(i).place # "none" => order(i).status # "ABSENT"
    BY <1>1 DEF Sound, OrderSound, Working, order, Book, Order, Places
  <2>3. QED
    BY <2>1, <2>2 DEF UncrossOK
<1>3. QED
  BY <1>1, <1>2, UncrossFrame DEF UncrossOK

LEMMA HitGrows ==
  ASSUME hit \in Seq(Ids), NEW i \in Ids, NEW j \in Ids
  PROVE  WithHit(i, j) \in Seq(Ids)
<1> DEFINE x == IF Listed(i) THEN <<>> ELSE <<i>>
           y == IF Listed(j) THEN <<>> ELSE <<j>>
<1>1. x \in Seq(Ids) /\ y \in Seq(Ids)
  OBVIOUS
<1> HIDE DEF x, y
<1>2. hit \o x \in Seq(Ids)
  BY <1>1, ConcatProperties
<1>3. (hit \o x) \o y \in Seq(Ids)
  BY <1>1, <1>2, ConcatProperties
<1>4. QED
  BY <1>3 DEF WithHit, x, y

LEMMA UncrossFillStep ==
  ASSUME AIInv, NEW bid \in Ids, NEW ask \in Ids, UncrossFill(bid, ask)
  PROVE  AIInv'
<1> DEFINE q == Least(Slice(order(bid)), Slice(order(ask)))
           d == Reduce(Reduce(book, bid, q), ask, q)
           c == FillBoth(book, bid, ask)
<1>1. /\ pc = "uncross" /\ pc' = "uncross" /\ Uncrossing /\ Uncrossing' /\ UncrossOK
      /\ Sound(book) /\ eq \in Prices /\ eq' = eq /\ last' = eq /\ book' = c
      /\ AuctionTyped
  BY DEF UncrossFill, Uncrossing, AIInv, AuctionTyped, UncrossOK, dispatch
<1>2. bid # ask /\ order(bid).place = "book" /\ order(ask).place = "book"
  BY MeetFacts DEF UncrossFill, Meet, order
<1>3. /\ Sound(d) /\ Sound(c) /\ Thinned(d, c) /\ d.live = book.live
      /\ q \in Nat \ {0} /\ q <= order(bid).rem
      /\ \A i \in Ids \ {bid, ask} : d.ord[i] = order(i)
      /\ \A i \in {bid, ask} :
           /\ SameOrder(order(i), d.ord[i]) /\ d.ord[i].rem = order(i).rem - q
           /\ d.ord[i].place \in {"none", "book"}
  BY <1>1, <1>2, FillBothFacts DEF order
<1> HIDE DEF d, c, q
<1>4. ASSUME NEW i \in Ids
      PROVE  /\ c.ord[i].bond = order(i).bond /\ c.ord[i].group = order(i).group
             /\ c.ord[i] # order(i) => order(i).status # "ABSENT"
             /\ c.ord[i].place # "triggered"
  <2>1. /\ c.ord[i].bond = d.ord[i].bond /\ c.ord[i].group = d.ord[i].group
        /\ c.ord[i].place \in {d.ord[i].place, "none"}
        /\ d.ord[i].place = "none" => c.ord[i] = d.ord[i]
    BY <1>3, ThinnedTies DEF SameBonds, SameTies
  <2>2. d.ord[i].bond = order(i).bond /\ d.ord[i].group = order(i).group
    BY <1>3 DEF SameOrder
  <2>3. order(i).place # "none" => order(i).status # "ABSENT"
    BY <1>1 DEF Sound, OrderSound, Working, order, Book, Order, Places
  <2>4. d.ord[i].place # "triggered"
    BY <1>1, <1>3 DEF UncrossOK
  <2>5. QED
    BY <1>2, <1>3, <2>1, <2>2, <2>3, <2>4
<1>5. c.live \subseteq book.live
  BY <1>3 DEF Thinned
<1>6. UncrossOK'
  BY <1>1, <1>3, <1>4, <1>5, UncrossFrame DEF UncrossFill, dispatch
<1>7. AuctionTyped'
  <2>1. c.ord[bid].rem = d.ord[bid].rem
    BY <1>3, ThinnedFields
  <2>2. order(bid).rem \in Nat
    BY <1>1 DEF Sound, Book, Order, order
  <2>3. printed' \in Nat
    <3>1. printed' = printed + (order(bid).rem - c.ord[bid].rem) /\ printed \in Nat
      BY <1>1 DEF UncrossFill, AuctionTyped
    <3>2. d.ord[bid].rem = order(bid).rem - q
      BY <1>3
    <3>3. QED
      BY <1>3, <2>1, <2>2, <3>1, <3>2
  <2>4. hit' \in Seq(Ids)
    BY <1>1, HitGrows DEF UncrossFill, AuctionTyped
  <2>5. QED
    BY <1>1, <2>3, <2>4 DEF AuctionTyped
<1>8. QED
  BY <1>1, <1>6, <1>7 DEF AIInv

LEMMA UncrossThinStep ==
  ASSUME AIInv, NEW bid \in Ids, NEW ask \in Ids,
         UncrossSelfMatch(bid, ask) \/ Unlock(bid, ask)
  PROVE  AIInv'
<1>1. /\ pc \in {"uncross", "unlock"} /\ pc' = pc /\ UNCHANGED auction
      /\ Uncrossing /\ Uncrossing' /\ UncrossOK /\ AuctionTyped /\ Sound(book)
      /\ book' = ResolveSelfMatch(book, bid, ask) /\ last' = last
      /\ UNCHANGED <<hasStops, matching, born, cur, todo, clearing, traded, released>>
  BY DEF UncrossSelfMatch, Unlock, Uncrossing, AIInv, UncrossOK, dispatch
<1>2. UncrossOK'
  BY <1>1, ResolveThins, ThinnedUncross
<1>3. QED
  BY <1>1, <1>2 DEF AIInv, AuctionTyped, auction

LEMMA UncrossMovesOn ==
  ASSUME AIInv, UncrossEnds \/ UnlockEnds
  PROVE  AIInv'
<1>1. /\ Uncrossing /\ Uncrossing' /\ UNCHANGED auction /\ UncrossOK /\ AuctionTyped
      /\ book' = book /\ last' = last
      /\ UNCHANGED <<hasStops, matching, born, cur, todo, clearing, traded, released>>
  BY DEF UncrossEnds, UnlockEnds, Stay, Uncrossing, AIInv
<1>2. Thinned(book, book) /\ Sound(book)
  BY <1>1 DEF Thinned, UncrossOK
<1>3. UncrossOK'
  BY <1>1, <1>2, ThinnedUncross
<1>4. QED
  BY <1>1, <1>3 DEF AIInv, AuctionTyped, auction

LEMMA FollowUpStep ==
  ASSUME AIInv, FollowUp
  PROVE  AIInv'
<1>1. /\ Uncrossing /\ Uncrossing' /\ UncrossOK /\ AuctionTyped /\ Sound(book)
      /\ book' = QuoteLegFilled(book, Head(hit)) /\ last' = last /\ eq' = eq
      /\ printed' = printed /\ hit' = Tail(hit)
      /\ hit # <<>> /\ hit \in Seq(Ids)
      /\ UNCHANGED <<hasStops, matching, born, cur, todo, clearing, traded, released>>
  BY DEF FollowUp, Uncrossing, AIInv, UncrossOK, AuctionTyped, dispatch
<1>2. Head(hit) \in Ids /\ hit' \in Seq(Ids)
  BY <1>1, HeadTailProperties
<1>3. UncrossOK'
  BY <1>1, <1>2, QuoteLegFilledThins, ThinnedUncross
<1>4. QED
  BY <1>1, <1>2, <1>3 DEF AIInv, AuctionTyped

LEMMA UncrossPublishedStep ==
  ASSUME AIInv, UncrossPublished
  PROVE  AIInv'
<1>1. /\ Uncrossing /\ ~Uncrossing' /\ UncrossOK /\ Sound(book) /\ pc' = "next"
      /\ last \in Int /\ released \in Nat /\ last' = last
      /\ book' \in {book, Release(book, last, released)}
      /\ UNCHANGED <<matching, born, cur, todo, clearing, traded>>
      /\ eq' = NoPrice /\ printed' = 0 /\ hit' = <<>>
  <2>1. Uncrossing /\ ~Uncrossing' /\ UncrossOK
    BY DEF UncrossPublished, Uncrossing, AIInv
  <2>2. last \in Int
    <3>1. last \in Prices \cup {NoPrice}
      BY <2>1 DEF UncrossOK
    <3>2. QED
      BY <3>1, PricesAssumption DEF NoPrice
  <2>3. Sound(book) /\ released \in Nat
    BY <2>1 DEF UncrossOK
  <2>4. book' \in {book, Release(book, last, released)}
    BY DEF UncrossPublished
  <2>5. QED
    BY <2>1, <2>2, <2>3, <2>4 DEF UncrossPublished
<1>2. /\ Sound(book') /\ book'.live = book.live
      /\ \A i \in Ids : /\ SameOrder(order(i), book'.ord[i])
                        /\ book'.ord[i].status = order(i).status
  <2>1. \A i \in Ids : SameOrder(order(i), order(i))
    BY DEF SameOrder
  <2>2. QED
    BY <1>1, <2>1, ReleaseSound DEF order
<1>3. hasStops' \in BOOLEAN /\ released' \in Nat
  <2>1. CASE printed > 0 /\ hasStops
    <3> DEFINE r == Release(book, last, released)
    <3>1. /\ hasStops' = Watch(r)
          /\ released' = released + Cardinality(Dormant(book) \ Dormant(r))
      BY <2>1 DEF UncrossPublished
    <3>2. Cardinality(Dormant(book) \ Dormant(r)) \in Nat
      <4>1. IsFiniteSet(Ids)
        BY MaxOrdersAssumption, FS_Interval DEF Ids
      <4>2. IsFiniteSet(Dormant(book) \ Dormant(r))
        BY <4>1, FS_Subset DEF Dormant
      <4>3. QED
        BY <4>2, FS_CardinalityType
    <3>3. Watch(r) \in BOOLEAN
      BY DEF Watch
    <3>4. QED
      BY <1>1, <3>1, <3>2, <3>3
  <2>2. CASE ~(printed > 0 /\ hasStops)
    BY <2>2 DEF UncrossPublished, AIInv, UncrossOK, Uncrossing
  <2>3. QED
    BY <2>1, <2>2
<1>4. Registered' /\ Unborn'
  <2>1. \A i \in Ids : /\ book'.ord[i].bond = order(i).bond
                       /\ book'.ord[i].group = order(i).group
    BY <1>2 DEF SameOrder
  <2>2. QED
    BY <1>1, <1>2, <2>1 DEF UncrossOK, Registered, Unborn, Sound, Book, order
<1>5. TypeOK' /\ HandlerOK' /\ CascadeOK'
  <2>1. /\ last' \in Prices \cup {NoPrice} /\ matching' = TRUE /\ traded' \in BOOLEAN
        /\ born' \in 0 .. MaxOrders /\ cur' = 0 /\ todo' = 0 /\ clearing' \subseteq Ids
    BY <1>1 DEF UncrossOK
  <2>2. TypeOK'
    BY <1>1, <1>2, <1>3, <2>1, MaxOrdersAssumption DEF TypeOK, Pcs, Sound
  <2>3. HandlerOK'
    BY <1>1, <2>1 DEF HandlerOK
  <2>4. CascadeOK'
    BY <1>1, <2>1 DEF CascadeOK
  <2>5. QED
    BY <2>2, <2>3, <2>4
<1>6. AuctionTyped'
  BY <1>1 DEF AuctionTyped
<1>7. QED
  BY <1>1, <1>2, <1>4, <1>5, <1>6 DEF AIInv, IInv

LEMMA UncrossStepInv ==
  ASSUME AIInv, UncrossStep
  PROVE  AIInv'
BY UncrossFillStep, UncrossThinStep, UncrossMovesOn, FollowUpStep, UncrossPublishedStep
   DEF UncrossStep

\* An uncross begins between messages, at a price of the ladder.
LEMMA StartUncrossStep ==
  ASSUME AIInv, pc = "idle", NEW p \in Prices, NEW qty, StartUncross(p, qty)
  PROVE  AIInv'
<1>1. IInv /\ Uncrossing' /\ book' = book /\ matching' = TRUE /\ eq' = p
  BY DEF AIInv, Uncrossing, StartUncross
<1>2. cur = 0 /\ todo = 0 /\ \A i \in Ids : order(i).place # "triggered"
  BY <1>1, IdleFacts
<1>3. UncrossOK'
  BY <1>1, <1>2 DEF StartUncross, UncrossOK, IInv, TypeOK, Registered, Unborn, order
<1>4. AuctionTyped'
  BY <1>1 DEF StartUncross, AuctionTyped
<1>5. QED
  BY <1>1, <1>3, <1>4 DEF AIInv

\* The engine's other steps know nothing of an uncross, and none of them is
\* taken during one.
LEMMA NextIsOutside ==
  ASSUME AIInv, Next
  PROVE  ~Uncrossing /\ IInv /\ IInv' /\ ~Uncrossing'
<1>1. ~Uncrossing
  <2>1. CASE Message
    BY <2>1 DEF Message, Uncrossing, NewOrder, OcoOrder, QuoteNew, QuoteCancel, KillSwitch,
                CancelOrder, OcoCancel, Amend, CallPhaseBegins, NoMessage
  <2>2. CASE EngineStep
    BY <2>2 DEF EngineStep, Uncrossing, Withdraw, Withdrawn, DropCancelled, RejectImmediate,
                RestUnmatched, HandlerRaises, ArmStop, TriggerOnEntry, StartSweep, RefuseFok,
                RefusePull, Refused, Trade, SelfMatchPullsResting, SelfMatchPullsAggressor,
                SweepEnds, Settle, RunStop, PostSecondLeg, DropSecondLeg, HandlerReturns,
                Processing, Facing, Unfilled
  <2>3. QED
    BY <2>1, <2>2 DEF Next
<1>2. IInv
  BY <1>1 DEF AIInv
<1>3. IInv'
  BY <1>2, InvStep
<1>4. QED
  BY <1>1, <1>2, <1>3 DEF IInv, TypeOK, Pcs, Uncrossing

LEMMA NextStepInv ==
  ASSUME AIInv, Next, UNCHANGED auction
  PROVE  AIInv'
BY NextIsOutside DEF AIInv, AuctionTyped, auction

\* The price of an uncross is one that a resting order carries.
LEMMA EquilibriumIsAPrice ==
  ASSUME NEW b, Sound(b), NEW e \in Equilibria(b), e.price # NoPrice
  PROVE  e.price \in Prices
<1>1. e.price \in Levelled(b)
  BY DEF Equilibria, Tried, Candidates
<1>2. PICK i \in Ids : b.ord[i].place = "book" /\ e.price = b.ord[i].price
  BY <1>1 DEF Levelled, Resting
<1>3. QED
  BY <1>2 DEF Sound, OrderSound, Restable

LEMMA CallPhaseEndsStep ==
  ASSUME AIInv, CallPhaseEnds
  PROVE  AIInv'
<1>1. IInv /\ pc = "idle"
  BY DEF CallPhaseEnds, AIInv, Uncrossing
<1>2. PICK e \in Equilibria(book) :
        \/ e.price # NoPrice /\ StartUncross(e.price, e.qty)
        \/ /\ matching' = TRUE
           /\ UNCHANGED <<book, last, hasStops, born, dispatch, auction>>
  BY DEF CallPhaseEnds
<1>3. CASE e.price # NoPrice /\ StartUncross(e.price, e.qty)
  BY <1>1, <1>3, EquilibriumIsAPrice, StartUncrossStep DEF IInv
<1>4. CASE matching' = TRUE /\ UNCHANGED <<book, last, hasStops, born, dispatch, auction>>
  BY <1>1, <1>4 DEF AIInv, Uncrossing, AuctionTyped, IInv, TypeOK, Registered, Unborn,
                    HandlerOK, CascadeOK, InHand, order, dispatch, auction
<1>5. QED
  BY <1>2, <1>3, <1>4

LEMMA AInvStep ==
  ASSUME AIInv, [ANext]_avars
  PROVE  AIInv'
<1>1. CASE UNCHANGED avars
  BY <1>1 DEF avars, vars, dispatch, auction, AIInv, Uncrossing, UncrossOK, AuctionTyped,
              IInv, TypeOK, Registered, Unborn, HandlerOK, CascadeOK, InHand, order
<1>2. QED
  BY <1>1, NextStepInv, CallPhaseEndsStep, UncrossStepInv DEF ANext

\* The inductive invariant of a market with call auctions: what the handlers and
\* the book of OrderBook rely on holds through every pass of execute_uncross, its
\* second loop, the follow-up of the quotes it hit and the stops it releases.
THEOREM AuctionInvariance == ASpec => []AIInv
<1>1. AInit => AIInv
  BY InvInit DEF AInit, AuctionIdle, AIInv, AuctionTyped, Uncrossing, Init
<1>2. QED
  BY <1>1, AInvStep, PTL DEF ASpec

-----------------------------------------------------------------------------
(***************************************************************************)
(* What executes.                                                          *)
(***************************************************************************)
LEMMA NothingExecutes ==
  ASSUME Sound(book), NEW i \in Ids,
         book'.ord[i].qty = order(i).qty, book'.ord[i].rem = order(i).rem
  PROVE  ~Executes(i)
<1>1. order(i).qty \in Nat /\ order(i).rem \in Nat
  BY DEF Sound, Book, Order, order
<1>2. QED
  BY <1>1 DEF Executes

LEMMA AuctionSound ==
  ASSUME AIInv
  PROVE  Sound(book)
BY DEF AIInv, UncrossOK, IInv

\* A fill of an uncross executes the two orders it names and no other.
LEMMA UncrossFillTakes ==
  ASSUME AIInv, NEW bid \in Ids, NEW ask \in Ids, UncrossFill(bid, ask),
         NEW i \in Ids, Executes(i)
  PROVE  i \in {bid, ask}
<1> DEFINE q == Least(Slice(order(bid)), Slice(order(ask)))
           d == Reduce(Reduce(book, bid, q), ask, q)
<1>1. SUFFICES ASSUME i \notin {bid, ask} PROVE FALSE
  OBVIOUS
<1>2. Sound(book)
  BY AuctionSound
<1>3. /\ bid # ask /\ order(bid).place = "book" /\ order(ask).place = "book"
      /\ book' = FillBoth(book, bid, ask)
  BY MeetFacts DEF UncrossFill, Meet, order
<1>4. Sound(d) /\ Thinned(d, book') /\ d.ord[i] = order(i)
  BY <1>1, <1>2, <1>3, FillBothFacts DEF order
<1> HIDE DEF d
<1>5. book'.ord[i].qty = d.ord[i].qty /\ book'.ord[i].rem = d.ord[i].rem
  BY <1>4, ThinnedFields
<1>6. QED
  BY <1>2, <1>4, <1>5, NothingExecutes

\* In an uncross only fills execute anything.
LEMMA UncrossExecutes ==
  ASSUME AIInv, UncrossStep, NEW i \in Ids, Executes(i)
  PROVE  \E bid, ask \in Ids : UncrossFill(bid, ask)
<1>1. SUFFICES ASSUME \A bid, ask \in Ids : ~UncrossFill(bid, ask) PROVE FALSE
  OBVIOUS
<1>2. Sound(book) /\ UncrossOK
  BY DEF AIInv, UncrossOK, Uncrossing, UncrossStep, UncrossFill, UncrossSelfMatch, Unlock,
         UncrossEnds, UnlockEnds, FollowUp, UncrossPublished
<1>3. ASSUME Thinned(book, book') PROVE FALSE
  BY <1>2, <1>3, ThinnedFields, NothingExecutes DEF order
<1>4. ASSUME NEW bid \in Ids, NEW ask \in Ids,
             UncrossSelfMatch(bid, ask) \/ Unlock(bid, ask)
      PROVE  FALSE
  BY <1>2, <1>3, <1>4, ResolveThins DEF UncrossSelfMatch, Unlock
<1>5. CASE UncrossEnds \/ UnlockEnds
  BY <1>3, <1>5 DEF UncrossEnds, UnlockEnds, Stay, Thinned
<1>6. CASE FollowUp
  <2>1. Head(hit) \in Ids
    BY <1>6, HeadTailProperties DEF FollowUp, AIInv, AuctionTyped
  <2>2. QED
    BY <1>2, <1>3, <1>6, <2>1, QuoteLegFilledThins DEF FollowUp
<1>7. CASE UncrossPublished
  <2>1. last \in Int /\ released \in Nat
    <3>1. last \in Prices \cup {NoPrice} /\ released \in Nat
      BY <1>2 DEF UncrossOK
    <3>2. QED
      BY <3>1, PricesAssumption DEF NoPrice
  <2>2. book' \in {book, Release(book, last, released)}
    BY <1>7 DEF UncrossPublished
  <2>3. book'.ord[i].qty = order(i).qty /\ book'.ord[i].rem = order(i).rem
    BY <1>2, <2>1, <2>2, ReleaseSound DEF SameOrder, order
  <2>4. QED
    BY <1>2, <2>3, NothingExecutes
<1>8. QED
  BY <1>1, <1>4, <1>5, <1>6, <1>7 DEF UncrossStep

\* The steps of the auction that are not the engine's own.
LEMMA AuctionSteps ==
  ASSUME AIInv, ANext
  PROVE  \/ IInv /\ Next /\ UNCHANGED auction
         \/ UncrossStep
         \/ pc = "idle" /\ book' = book
BY NextIsOutside DEF ANext, CallPhaseEnds, StartUncross

\* Price-time priority, in the walk of an uncross as in a sweep: no resting
\* order trades while one that is ahead of it rests on its side.
THEOREM AuctionPriorityKept == ASpec => APriority
<1>1. ASSUME AIInv, ANext, NEW p \in Ids, NEW q \in Ids,
             order(p).place = "book", order(q).place = "book",
             order(p).side = order(q).side, Executes(p)
      PROVE  ~Ahead(book, q, p)
  <2>1. CASE IInv /\ Next
    BY <1>1, <2>1, PriorityStep
  <2>2. CASE UncrossStep
    <3>1. PICK bid \in Ids, ask \in Ids : UncrossFill(bid, ask) /\ p \in {bid, ask}
      BY <1>1, <2>2, UncrossExecutes, UncrossFillTakes
    <3>2. IsBest(book, p, Resting(book, order(p).side))
      BY <3>1 DEF UncrossFill, Meet, Heads, IsHead, IsBest, Resting, order
    <3>3. q \in Resting(book, order(p).side)
      BY <1>1 DEF Resting, order
    <3>4. CASE q # p
      BY <3>2, <3>3, <3>4 DEF IsBest
    <3>5. CASE q = p
      <4>1. order(p) \in Order /\ OrderSound(order(p))
        BY <1>1, AuctionSound DEF Sound, Book, order
      <4>2. order(p).price \in Nat /\ order(p).seq \in Nat
        BY <1>1, <4>1, PricesAssumption DEF Order, OrderSound, Restable
      <4>3. QED
        BY <3>5, <4>2 DEF Ahead, Better, order
    <3>6. QED
      BY <3>4, <3>5
  <2>3. CASE book' = book
    BY <1>1, <2>3, AuctionSound, NothingExecutes DEF order
  <2>4. QED
    BY <1>1, <2>1, <2>2, <2>3, AuctionSteps
<1>2. AIInv /\ [ANext]_avars =>
        [\A p, q \in Ids :
           /\ order(p).place = "book" /\ order(q).place = "book"
           /\ order(p).side = order(q).side /\ Executes(p)
           => ~Ahead(book, q, p)]_avars
  BY <1>1
<1>3. QED
  BY <1>2, AuctionInvariance, PTL DEF ASpec, APriority

\* No participant trades with itself in the uncross if it prevents that on
\* either side, and never with the other leg of its own pair.
THEOREM UncrossPreventsSelfMatches == ASpec => NoWashInUncross
<1>1. ASSUME AIInv, ANext, NEW i \in Bids(book), NEW j \in Asks(book),
             pc = "uncross", Executes(i), Executes(j), order(i).gw = order(j).gw
      PROVE  order(i).smp = "NONE" /\ order(j).smp = "NONE" /\ ~Twins(book, i, j)
  <2>1. i \in Ids /\ j \in Ids /\ order(i).side = "BUY" /\ order(j).side = "SELL"
    BY <1>1 DEF Bids, Asks, Resting, order
  <2>2. UncrossStep
    BY <1>1, NextIsOutside DEF ANext, CallPhaseEnds, Uncrossing
  <2>3. PICK bid \in Ids, ask \in Ids : UncrossFill(bid, ask)
    BY <1>1, <2>1, <2>2, UncrossExecutes
  <2>4. i \in {bid, ask} /\ j \in {bid, ask}
    BY <1>1, <2>1, <2>3, UncrossFillTakes
  <2>5. order(bid).side = "BUY" /\ order(ask).side = "SELL"
    BY <2>3, MeetFacts DEF UncrossFill, Meet, order
  <2>6. i = bid /\ j = ask
    BY <2>1, <2>4, <2>5
  <2>7. ~SelfMatched(book, i, j)
    BY <2>3, <2>6 DEF UncrossFill
  <2>8. QED
    BY <1>1, <2>7 DEF SelfMatched, AuctionSmp, AskDecides, SelfMatch, order
<1>2. AIInv /\ [ANext]_avars =>
        [\A i \in Bids(book), j \in Asks(book) :
           pc = "uncross" /\ Executes(i) /\ Executes(j) /\ order(i).gw = order(j).gw
           => order(i).smp = "NONE" /\ order(j).smp = "NONE" /\ ~Twins(book, i, j)]_avars
  BY <1>1
<1>3. QED
  BY <1>2, AuctionInvariance, PTL DEF ASpec, NoWashInUncross

\* An ended order is final through an uncross as through everything else.
LEMMA UncrossFinal ==
  ASSUME AIInv, UncrossStep
  PROVE  Final
<1>1. Sound(book) /\ UncrossOK
  BY DEF AIInv, UncrossOK, Uncrossing, UncrossStep, UncrossFill, UncrossSelfMatch, Unlock,
         UncrossEnds, UnlockEnds, FollowUp, UncrossPublished
<1>2. \A i \in Ids : order(i).status \in Dead => order(i).place \notin Held
  BY <1>1 DEF Sound, OrderSound, Working, Dead, Held, order
<1>3. ASSUME NEW b, Sound(b), Thinned(b, book'),
             \A i \in Ids : order(i).status \in Dead => b.ord[i] = order(i)
      PROVE  Final
  BY <1>2, <1>3, ThinnedTies DEF Final
<1>4. ASSUME NEW bid \in Ids, NEW ask \in Ids, UncrossFill(bid, ask)
      PROVE  Final
  <2> DEFINE q == Least(Slice(order(bid)), Slice(order(ask)))
             d == Reduce(Reduce(book, bid, q), ask, q)
  <2>1. /\ bid # ask /\ order(bid).place = "book" /\ order(ask).place = "book"
        /\ book' = FillBoth(book, bid, ask)
    BY <1>4, MeetFacts DEF UncrossFill, Meet, order
  <2>2. Sound(d) /\ Thinned(d, book') /\ \A i \in Ids \ {bid, ask} : d.ord[i] = order(i)
    BY <1>1, <2>1, FillBothFacts DEF order
  <2> HIDE DEF d
  <2>3. \A i \in {bid, ask} : order(i).status \notin Dead
    BY <1>2, <2>1 DEF Held
  <2>4. QED
    BY <1>3, <2>2, <2>3
<1>5. ASSUME Thinned(book, book') PROVE Final
  BY <1>1, <1>3, <1>5 DEF order
<1>6. ASSUME NEW bid \in Ids, NEW ask \in Ids,
             UncrossSelfMatch(bid, ask) \/ Unlock(bid, ask)
      PROVE  Final
  BY <1>1, <1>5, <1>6, ResolveThins DEF UncrossSelfMatch, Unlock
<1>7. CASE UncrossEnds \/ UnlockEnds
  BY <1>5, <1>7 DEF UncrossEnds, UnlockEnds, Stay, Thinned
<1>8. CASE FollowUp
  <2>1. Head(hit) \in Ids
    BY <1>8, HeadTailProperties DEF FollowUp, AIInv, AuctionTyped
  <2>2. QED
    BY <1>1, <1>5, <1>8, <2>1, QuoteLegFilledThins DEF FollowUp
<1>9. CASE UncrossPublished
  <2>1. last \in Int /\ released \in Nat
    <3>1. last \in Prices \cup {NoPrice} /\ released \in Nat
      BY <1>1 DEF UncrossOK
    <3>2. QED
      BY <3>1, PricesAssumption DEF NoPrice
  <2>2. book' \in {book, Release(book, last, released)}
    BY <1>9 DEF UncrossPublished
  <2>3. \A i \in Ids : \/ book'.ord[i] = order(i)
                       \/ order(i).place \in {"armed", "trailing"}
    BY <1>1, <2>1, <2>2, ReleaseSound DEF order
  <2>4. QED
    BY <1>2, <2>3 DEF Final, Held
<1>10. QED
  BY <1>4, <1>6, <1>7, <1>8, <1>9 DEF UncrossStep

\* An ended order stays as it ended: no walk, second loop, hook or follow-up
\* of an uncross touches it again.
THEOREM UncrossKeepsEnded == ASpec => TerminalIsFinal
<1>1. ASSUME AIInv, [ANext]_avars PROVE Final \/ book' = book
  BY <1>1, AuctionSteps, FinalStep, UncrossFinal DEF avars, vars
<1>2. ASSUME AIInv, book' = book PROVE Final
  BY <1>2, AuctionSound DEF Final, Sound, OrderSound, Working, Dead, Held, order
<1>3. AIInv /\ [ANext]_avars =>
        [\A i \in Ids : order(i).status \in Dead =>
           /\ book'.ord[i].status = order(i).status
           /\ book'.ord[i].rem = order(i).rem
           /\ book'.ord[i].place \notin Held]_vars
  BY <1>1, <1>2 DEF Final
<1>4. QED
  BY <1>3, AuctionInvariance, PTL DEF ASpec, TerminalIsFinal

-----------------------------------------------------------------------------
(***************************************************************************)
(* The level index through an uncross: both sides of a fill rest, so both  *)
(* are deducted, and both may show a new peak.                             *)
(***************************************************************************)
LEMMA UncrossExact ==
  ASSUME AIInv, Exact(book), UncrossStep
  PROVE  Exact(book')
<1>1. Sound(book) /\ UncrossOK
  BY DEF AIInv, UncrossOK, Uncrossing, UncrossStep, UncrossFill, UncrossSelfMatch, Unlock,
         UncrossEnds, UnlockEnds, FollowUp, UncrossPublished
<1>2. ASSUME NEW bid \in Ids, NEW ask \in Ids, UncrossFill(bid, ask)
      PROVE  Exact(book')
  <2> DEFINE q == Least(Slice(order(bid)), Slice(order(ask)))
             c == Reduce(book, bid, q)
             d == Reduce(c, ask, q)
             e == OcoLegEnded(d, ask)
  <2>1. /\ bid # ask /\ order(bid).place = "book" /\ order(ask).place = "book"
        /\ book' = FillBoth(book, bid, ask)
    BY <1>2, MeetFacts DEF UncrossFill, Meet, order
  <2>2. /\ Sound(c) /\ Sound(d) /\ Sound(e) /\ c.ord[ask] = order(ask)
        /\ q \in Nat \ {0} /\ q <= order(bid).rem /\ q <= order(ask).rem
        /\ q <= Slice(order(bid)) /\ q <= Slice(order(ask))
        /\ book' = OcoLegEnded(e, bid)
    BY <1>1, <2>1, FillBothFacts DEF order
  <2>3. order(bid).status \in Working /\ order(ask).status \in Working
    BY <1>1, <2>1 DEF Sound, OrderSound, order
  <2> HIDE DEF q
  <2>4. Exact(c)
    BY <1>1, <2>1, <2>2, <2>3, ReduceExact DEF order
  <2> HIDE DEF c
  <2>5. Exact(d)
    BY <2>1, <2>2, <2>3, <2>4, ReduceExact
  <2> HIDE DEF d
  <2>6. Exact(e)
    BY <2>2, <2>5, OcoLegEndedExact DEF e
  <2> HIDE DEF e
  <2>7. QED
    BY <2>2, <2>6, OcoLegEndedExact
<1>3. ASSUME NEW bid \in Ids, NEW ask \in Ids,
             UncrossSelfMatch(bid, ask) \/ Unlock(bid, ask)
      PROVE  Exact(book')
  <2> DEFINE S == SmpCancels(book, bid, ask)
             x == IF bid \in S THEN SmpCancel(book, bid) ELSE book
             y == IF ask \in S THEN SmpCancel(x, ask) ELSE x
  <2>1. book' \in {SmpCancel(book, bid), y}
    BY <1>3 DEF UncrossSelfMatch, Unlock, ResolveSelfMatch, SmpCancel
  <2> HIDE DEF S
  <2>2. Sound(x) /\ Exact(x)
    BY <1>1, SmpCancelThins, SmpCancelExact
  <2> HIDE DEF x
  <2>3. Exact(y)
    BY <2>2, SmpCancelExact
  <2>4. Exact(SmpCancel(book, bid))
    BY <1>1, SmpCancelExact
  <2>5. QED
    BY <2>1, <2>3, <2>4
<1>4. CASE UncrossEnds \/ UnlockEnds
  BY <1>4 DEF UncrossEnds, UnlockEnds, Stay
<1>5. CASE FollowUp
  <2>1. Head(hit) \in Ids
    BY <1>5, HeadTailProperties DEF FollowUp, AIInv, AuctionTyped
  <2>2. QED
    BY <1>1, <1>5, <2>1, QuoteLegFilledExact DEF FollowUp
<1>6. CASE UncrossPublished
  <2>1. last \in Int /\ released \in Nat
    <3>1. last \in Prices \cup {NoPrice} /\ released \in Nat
      BY <1>1 DEF UncrossOK
    <3>2. QED
      BY <3>1, PricesAssumption DEF NoPrice
  <2>2. book' \in {book, Release(book, last, released)}
    BY <1>6 DEF UncrossPublished
  <2>3. QED
    BY <1>1, <2>1, <2>2, ReleaseExact
<1>7. QED
  BY <1>2, <1>3, <1>4, <1>5, <1>6 DEF UncrossStep

\* The price-level index is exact at every step of an uncross, and so are the
\* curves and the depth read after it.
THEOREM UncrossKeepsIndex == ASpec => []LevelIndexExact
<1>1. AInit => Exact(book)
  BY FaithfulInit DEF AInit
<1>2. ASSUME AIInv, Exact(book), [ANext]_avars PROVE Exact(book')
  BY <1>2, AuctionSteps, ExactStep, UncrossExact DEF avars, vars
<1>3. AIInv /\ Exact(book) /\ [ANext]_avars => Exact(book)'
  BY <1>2 DEF Exact, ShownAt, Shares
<1>4. Exact(book) => LevelIndexExact
  BY ShownIsOnShow
<1>5. QED
  BY <1>1, <1>3, <1>4, AuctionInvariance, PTL DEF ASpec

-----------------------------------------------------------------------------
(***************************************************************************)
(* The leg that lost, through an uncross.  No order is in hand, so what    *)
(* has ended is reported by the step that ends it.                         *)
(***************************************************************************)
LosersSpent(b) == Losers(b, 0, 0, {}, {})

APairInv ==
  /\ Uncrossing => Paired(book) /\ LosersSpent(book)
  /\ ~Uncrossing => PairInv

LEMMA NobodyInHand ==
  ASSUME NEW b, Sound(b), NEW i \in Ids
  PROVE  ~(TiedIn(b, i) /\ Sibling(b, i) = 0)
<1>1. TiedIn(b, i) => Sibling(b, i) \in Ids
  BY Siblings DEF TiedIn
<1>2. 0 \notin Ids
  BY DEF Ids
<1>3. QED
  BY <1>1, <1>2

\* A self-match cancel and its hook, whether or not the book still held the
\* order.
LEMMA PullReported ==
  ASSUME NEW b, Sound(b), Paired(b), LosersSpent(b), NEW i \in Ids
  PROVE  LET c == SmpCancel(b, i) IN Sound(c) /\ Paired(c) /\ LosersSpent(c)
<1>1. CASE b.ord[i].place # "none"
  BY <1>1, CancelReported, NobodyInHand DEF LosersSpent
<1>2. CASE b.ord[i].place = "none"
  <2>1. SmpCancel(b, i) = OcoLegEnded(b, i)
    BY <1>2 DEF SmpCancel, Cancel
  <2>2. Losers(OcoLegEnded(b, i), 0, 0, {}, {} \ {i})
    BY NobodyInHand, OcoEndReported DEF LosersSpent
  <2>3. {} \ {i} = {}
    OBVIOUS
  <2>4. Sound(OcoLegEnded(b, i)) /\ Paired(OcoLegEnded(b, i))
    BY OcoHookTouches
  <2>5. QED
    BY <2>1, <2>2, <2>3, <2>4 DEF LosersSpent
<1>3. QED
  BY <1>1, <1>2

LEMMA ResolveReported ==
  ASSUME NEW b, Sound(b), Paired(b), LosersSpent(b), NEW bid \in Ids, NEW ask \in Ids
  PROVE  Paired(ResolveSelfMatch(b, bid, ask)) /\ LosersSpent(ResolveSelfMatch(b, bid, ask))
<1> DEFINE S == SmpCancels(b, bid, ask)
           x == IF bid \in S THEN SmpCancel(b, bid) ELSE b
           y == IF ask \in S THEN SmpCancel(x, ask) ELSE x
<1>1. ResolveSelfMatch(b, bid, ask) \in {SmpCancel(b, bid), y}
  BY DEF ResolveSelfMatch, SmpCancel
<1> HIDE DEF S
<1>2. Sound(x) /\ Paired(x) /\ LosersSpent(x)
  BY PullReported
<1> HIDE DEF x
<1>3. Paired(y) /\ LosersSpent(y)
  BY <1>2, PullReported
<1> HIDE DEF y
<1>4. QED
  BY <1>1, <1>3, PullReported

\* Both sides of a fill may have ended; their hooks run, the ask's first,
\* before the walk goes on.
LEMMA UncrossFillReported ==
  ASSUME NEW b, Sound(b), Paired(b), LosersSpent(b), NEW bid \in Ids, NEW ask \in Ids,
         bid # ask, b.ord[bid].place = "book", b.ord[ask].place = "book"
  PROVE  Paired(FillBoth(b, bid, ask)) /\ LosersSpent(FillBoth(b, bid, ask))
<1> DEFINE q == Least(Slice(b.ord[bid]), Slice(b.ord[ask]))
           d == Reduce(Reduce(b, bid, q), ask, q)
           e == OcoLegEnded(d, ask)
           f == OcoLegEnded(e, bid)
<1>1. /\ Sound(d) /\ d.live = b.live
      /\ \A i \in Ids \ {bid, ask} : d.ord[i] = b.ord[i]
      /\ \A i \in {bid, ask} : SameOrder(b.ord[i], d.ord[i])
      /\ FillBoth(b, bid, ask) = f
  BY FillBothFacts
<1>2. \A i \in {bid, ask} : b.ord[i].status \in Working
  BY DEF Sound, OrderSound
<1> HIDE DEF d
<1>3. SameBonds(b, d)
  BY <1>1 DEF SameBonds, SameTies, SameOrder
<1>4. /\ Paired(d)
      /\ \A i \in Ids : Sibling(d, i) = Sibling(b, i)
  BY <1>3, TiesStay
<1>5. Losers(d, 0, 0, {}, {bid, ask})
  <2>1. Losers(b, 0, 0, {}, {})
    BY DEF LosersSpent
  <2>2. \A i \in {bid, ask} : ~SpentIn(b, i, 0, 0, {})
    BY <1>2 DEF SpentIn, Working, Dead
  <2>3. ASSUME NEW i \in Ids, TiedIn(b, i), SpentIn(b, i, 0, 0, {})
        PROVE  SpentIn(d, i, 0, 0, {})
    <3>1. i \notin {bid, ask} /\ d.ord[i] = b.ord[i] /\ Sibling(b, i) \in Ids
      BY <1>1, <2>2, <2>3, Siblings DEF TiedIn
    <3>2. b.ord[Sibling(b, i)].status \in Dead => d.ord[Sibling(b, i)].status \in Dead
      BY <1>1, <1>2, <3>1 DEF Working, Dead
    <3>3. QED
      BY <1>4, <2>3, <3>1, <3>2 DEF SpentIn
  <2>4. \A i \in Ids : d.ord[i].status \in Dead => b.ord[i].status \in Dead \/ i \in {bid, ask}
    BY <1>1
  <2>5. QED
    BY <1>1, <1>3, <2>1, <2>3, <2>4, LosersKept
<1>6. Sound(e) /\ Paired(e) /\ Losers(e, 0, 0, {}, {bid, ask} \ {ask})
  BY <1>1, <1>4, <1>5, NobodyInHand, OcoHookTouches, OcoEndReported
<1> HIDE DEF e
<1>7. Paired(f) /\ Losers(f, 0, 0, {}, ({bid, ask} \ {ask}) \ {bid})
  BY <1>6, NobodyInHand, OcoHookTouches, OcoEndReported
<1>8. ({bid, ask} \ {ask}) \ {bid} = {}
  OBVIOUS
<1> HIDE DEF f
<1>9. QED
  BY <1>1, <1>7, <1>8 DEF LosersSpent

LEMMA UncrossPairs ==
  ASSUME AIInv, APairInv, UncrossStep
  PROVE  APairInv'
<1>1. Sound(book) /\ UncrossOK /\ Uncrossing /\ Paired(book) /\ LosersSpent(book)
  <2>1. Uncrossing
    BY DEF Uncrossing, UncrossStep, UncrossFill, UncrossSelfMatch, Unlock, UncrossEnds,
           UnlockEnds, FollowUp, UncrossPublished
  <2>2. QED
    BY <2>1 DEF AIInv, UncrossOK, APairInv
<1>2. ASSUME Uncrossing', Paired(book'), LosersSpent(book') PROVE APairInv'
  BY <1>2 DEF APairInv, LosersSpent, Losers, Lost, SpentIn, TiedIn, Paired, Sibling
<1>3. ASSUME NEW bid \in Ids, NEW ask \in Ids, UncrossFill(bid, ask)
      PROVE  APairInv'
  <2>1. /\ bid # ask /\ order(bid).place = "book" /\ order(ask).place = "book"
        /\ book' = FillBoth(book, bid, ask) /\ Uncrossing'
    BY <1>3, MeetFacts DEF UncrossFill, Meet, order, Uncrossing, dispatch
  <2>2. QED
    BY <1>1, <1>2, <2>1, UncrossFillReported DEF order
<1>4. ASSUME NEW bid \in Ids, NEW ask \in Ids,
             UncrossSelfMatch(bid, ask) \/ Unlock(bid, ask)
      PROVE  APairInv'
  <2>1. Uncrossing' /\ book' = ResolveSelfMatch(book, bid, ask)
    BY <1>4 DEF UncrossSelfMatch, Unlock, Uncrossing, dispatch
  <2>2. QED
    BY <1>1, <1>2, <2>1, ResolveReported
<1>5. CASE UncrossEnds \/ UnlockEnds
  BY <1>1, <1>2, <1>5 DEF UncrossEnds, UnlockEnds, Stay, Uncrossing
<1>6. CASE FollowUp
  <2>1. Head(hit) \in Ids
    BY <1>6, HeadTailProperties DEF FollowUp, AIInv, AuctionTyped
  <2>2. Uncrossing' /\ book' = QuoteLegFilled(book, Head(hit))
    BY <1>6 DEF FollowUp, Uncrossing, dispatch
  <2>3. QED
    BY <1>1, <1>2, <2>1, <2>2, QuoteHookTouches, QuoteHookKeepsLosers DEF LosersSpent
<1>7. CASE UncrossPublished
  <2>1. last \in Int /\ released \in Nat
    <3>1. last \in Prices \cup {NoPrice} /\ released \in Nat
      BY <1>1 DEF UncrossOK
    <3>2. QED
      BY <3>1, PricesAssumption DEF NoPrice
  <2>2. /\ book' \in {book, Release(book, last, released)}
        /\ pc' = "next" /\ cur' = 0 /\ todo' = 0
    BY <1>1, <1>7 DEF UncrossPublished, UncrossOK
  <2>3. /\ book'.live = book.live
        /\ \A i \in Ids : /\ SameTies(order(i), book'.ord[i])
                          /\ book'.ord[i].status = order(i).status
                          /\ order(i).place = "none" => book'.ord[i] = order(i)
    <3> DEFINE r == Release(book, last, released)
    <3>1. CASE book' = book
      BY <3>1 DEF SameTies, order
    <3>2. CASE book' = r
      <4>1. /\ r.live = book.live
            /\ \A i \in Ids : /\ SameOrder(book.ord[i], r.ord[i])
                              /\ r.ord[i].status = book.ord[i].status
                              /\ book.ord[i].place = "none" => r.ord[i] = book.ord[i]
        BY <1>1, <2>1, ReleaseSound
      <4> HIDE DEF r
      <4>2. QED
        BY <3>2, <4>1 DEF SameOrder, SameTies, order
    <3>3. QED
      BY <2>2, <3>1, <3>2
  <2>4. SameBonds(book, book')
    BY <2>3 DEF SameBonds, order
  <2>5. LosersSpent(book')
    <3>1. ASSUME NEW i \in Ids, TiedIn(book, i), SpentIn(book, i, 0, 0, {})
          PROVE  SpentIn(book', i, 0, 0, {})
      <4>1. Sibling(book', i) = Sibling(book, i) /\ Sibling(book, i) \in Ids
        BY <1>1, <2>4, <3>1, TiesStay, Siblings DEF TiedIn
      <4>2. QED
        BY <2>3, <3>1, <4>1 DEF SpentIn, order
    <3>2. QED
      BY <1>1, <2>3, <2>4, <3>1, LosersKept DEF LosersSpent, order
  <2>6. Paired(book')
    BY <1>1, <2>4, TiesStay
  <2>7. PairInv'
    BY <2>2, <2>5, <2>6, PlainPairs DEF LosersSpent
  <2>8. QED
    BY <2>2, <2>7 DEF APairInv, Uncrossing
<1>8. QED
  BY <1>3, <1>4, <1>5, <1>6, <1>7 DEF UncrossStep

LEMMA AuctionPairs ==
  ASSUME AIInv, APairInv, [ANext]_avars
  PROVE  APairInv'
<1>1. CASE UNCHANGED avars
  BY <1>1 DEF avars, vars, dispatch, APairInv, Uncrossing, LosersSpent, PairInv, Paired,
     SecondLeg, WholePairs, Losers, Lost, SpentIn, TiedIn, Batch, Ending, Sibling, order
<1>2. CASE Next /\ UNCHANGED auction
  BY <1>2, NextIsOutside, PairsStep DEF APairInv
<1>3. CASE CallPhaseEnds
  <2>1. IInv /\ PairInv /\ pc = "idle"
    BY <1>3 DEF CallPhaseEnds, AIInv, APairInv, Uncrossing
  <2>2. Paired(book) /\ LosersSpent(book)
    BY <2>1, IdlePairs DEF LosersSpent
  <2>3. book' = book /\ (pc' = "uncross" \/ UNCHANGED <<dispatch>>)
    BY <1>3 DEF CallPhaseEnds, StartUncross
  <2>4. CASE pc' = "uncross"
    BY <2>2, <2>3, <2>4 DEF APairInv, Uncrossing
  <2>5. CASE UNCHANGED <<dispatch>>
    BY <2>1, <2>3, <2>5 DEF APairInv, Uncrossing, dispatch, PairInv,
       SecondLeg, WholePairs, Batch, Ending, order
  <2>6. QED
    BY <2>3, <2>4, <2>5
<1>4. QED
  BY <1>1, <1>2, <1>3, UncrossPairs DEF ANext

\* Once one leg of an OCO pair has ended the other never executes: not later
\* in the same walk, not in the second loop, not in the cascade behind it.
THEOREM LosersNeverTradeInAuctions == ASpec => ALoserNeverTrades
<1>1. ASSUME AIInv, APairInv, ANext, NEW i \in Ids, Tied(i),
             order(Sibling(book, i)).status \in Dead
      PROVE  ~Executes(i)
  <2>1. CASE IInv /\ Next
    BY <1>1, <2>1, NextIsOutside, LosersStep DEF APairInv
  <2>2. CASE UncrossStep
    <3>1. SUFFICES ASSUME NEW bid \in Ids, NEW ask \in Ids, UncrossFill(bid, ask),
                          i \in {bid, ask}
                   PROVE  FALSE
      BY <1>1, <2>2, UncrossExecutes, UncrossFillTakes
    <3>2. order(i).place = "book" /\ Uncrossing
      BY <3>1, MeetFacts DEF UncrossFill, Meet, order, Uncrossing
    <3>3. order(i).status \in Working
      BY <1>1, <3>2, AuctionSound DEF Sound, OrderSound, order
    <3>4. TiedIn(book, i) /\ Lost(book, i, {})
      BY <1>1 DEF Tied, TiedIn, Lost, order
    <3>5. SpentIn(book, i, 0, 0, {})
      BY <1>1, <3>2, <3>4 DEF APairInv, LosersSpent, Losers
    <3>6. QED
      BY <3>2, <3>3, <3>5 DEF SpentIn, order, Working, Dead
  <2>3. CASE book' = book
    BY <1>1, <2>3, AuctionSound, NothingExecutes DEF order
  <2>4. QED
    BY <1>1, <2>1, <2>2, <2>3, AuctionSteps
<1>2. AInit => APairInv
  BY PairsInit DEF AInit, Init, APairInv, Uncrossing
<1>3. AIInv /\ APairInv /\ [ANext]_avars => APairInv'
  BY AuctionPairs
<1>4. AIInv /\ APairInv /\ [ANext]_avars =>
        [\A i \in Ids :
           Tied(i) /\ order(Sibling(book, i)).status \in Dead => ~Executes(i)]_avars
  BY <1>1
<1>5. QED
  BY <1>2, <1>3, <1>4, AuctionInvariance, PTL DEF ASpec, ALoserNeverTrades

-----------------------------------------------------------------------------
(***************************************************************************)
(* What is first.                                                          *)
(***************************************************************************)

\* Among finite sets one has no other below it.
LEMMA LeastSet ==
  ASSUME NEW C, C # {}, \A T \in C : IsFiniteSet(T)
  PROVE  \E T \in C : \A U \in C : U \subseteq T => U = T
<1> DEFINE S == UNION C
           R == StrictSubsetOrdering(S)
<1>1. IsWellFoundedOn(R, FiniteSubsetsOf(S))
  BY FS_StrictSubsetOrderingWellFounded
<1>2. C \subseteq FiniteSubsetsOf(S) /\ C \subseteq SUBSET S
  BY DEF FiniteSubsetsOf
<1>3. \A T, U \in SUBSET S : U \subseteq T /\ U # T => <<U, T>> \in R
  BY DEF StrictSubsetOrdering
<1> HIDE DEF R, S
<1>4. PICK T \in C : \A U \in C : ~ (<<U, T>> \in R)
  BY <1>1, <1>2, WFMin
<1>5. \A U \in C : U \subseteq T => U = T
  BY <1>2, <1>3, <1>4
<1>6. QED
  BY <1>5

LEMMA IdsFinite ==
  ASSUME NEW S \in SUBSET Ids
  PROVE  IsFiniteSet(S)
<1>1. IsFiniteSet(1 .. MaxOrders)
  BY FS_Interval, MaxOrdersAssumption
<1>2. QED
  BY <1>1, FS_Subset DEF Ids

\* Of finitely many orders one is first.
LEMMA FirstExists ==
  ASSUME NEW S \in SUBSET Ids, S # {}, NEW R \in SUBSET (Ids \X Ids),
         \A i \in S : <<i, i>> \notin R,
         \A i, j, k \in S : <<i, j>> \in R /\ <<j, k>> \in R => <<i, k>> \in R
  PROVE  \E i \in S : \A j \in S : <<j, i>> \notin R
<1> DEFINE before(i) == {j \in S : <<j, i>> \in R}
           C == {before(i) : i \in S}
<1>1. \A i \in S : before(i) \in SUBSET Ids
  OBVIOUS
<1>2. \A i, j \in S : <<j, i>> \in R => before(j) \subseteq before(i) /\ before(j) # before(i)
  OBVIOUS
<1>3. C # {} /\ \A T \in C : IsFiniteSet(T)
  <2> HIDE DEF before
  <2>1. QED
    BY <1>1, IdsFinite
<1> HIDE DEF before
<1>4. PICK T \in C : \A U \in C : U \subseteq T => U = T
  <2> HIDE DEF C
  <2>1. QED
    BY <1>3, LeastSet
<1>5. PICK i \in S : T = before(i)
  OBVIOUS
<1>6. \A j \in S : <<j, i>> \notin R
  BY <1>2, <1>4, <1>5
<1>7. QED
  BY <1>6

\* A bounded set of numbers has a greatest.
LEMMA GreatestExists ==
  ASSUME NEW S, S # {}, S \subseteq Nat, NEW m \in Nat, \A n \in S : n <= m
  PROVE  \E n \in S : \A k \in S : k <= n
<1> DEFINE above(n) == (n + 1) .. m
           C == {above(n) : n \in S}
<1>1. C # {} /\ \A T \in C : IsFiniteSet(T)
  <2>1. ASSUME NEW n \in S
        PROVE  IsFiniteSet(above(n))
    <3>1. n + 1 \in Int /\ m \in Int
      OBVIOUS
    <3>2. QED
      BY <3>1, FS_Interval
  <2> HIDE DEF above
  <2>2. QED
    BY <2>1
<1>2. PICK T \in C : \A U \in C : U \subseteq T => U = T
  <2> HIDE DEF C
  <2>1. QED
    BY <1>1, LeastSet
<1>3. PICK n \in S : T = above(n)
  OBVIOUS
<1>4. ASSUME NEW k \in S, k > n
      PROVE  FALSE
  <2>1. above(k) \subseteq above(n) /\ k \in above(n) /\ k \notin above(k)
    BY <1>4
  <2>2. above(k) \in C
    OBVIOUS
  <2>3. QED
    BY <1>2, <1>3, <2>1, <2>2
<1>5. QED
  BY <1>4

-----------------------------------------------------------------------------
(***************************************************************************)
(* One pass of the dry run.                                                *)
(***************************************************************************)
DryOfSide(b, d, s) == Units(DryLive(b, d, s), d.left)

DryFirst(b, d, i, s) ==
  i \in DryLive(b, d, s) /\ \A j \in DryLive(b, d, s) :
     \/ Better(s, b.ord[i].price, b.ord[j].price)
     \/ b.ord[i].price = b.ord[j].price /\ d.turn[i] <= d.turn[j]

\* _head finds an order while there is one.
LEMMA DryHeadExists ==
  ASSUME NEW b, Sound(b), NEW d \in DryState(b), NEW s \in Sides, DryLive(b, d, s) # {}
  PROVE  DryFirst(b, d, DryHead(b, d, s), s)
<1> DEFINE S == DryLive(b, d, s)
           R == {c \in Ids \X Ids :
                   \/ Better(s, b.ord[c[1]].price, b.ord[c[2]].price)
                   \/ /\ b.ord[c[1]].price = b.ord[c[2]].price
                      /\ d.turn[c[1]] < d.turn[c[2]]}
<1>1. S \in SUBSET Ids /\ S # {}
  BY DEF DryLive
<1>2. \A i \in Ids : b.ord[i].price \in Nat /\ d.turn[i] \in Nat
  <2>1. \A i \in Ids : b.ord[i].price \in Prices \cup {NoPrice}
    BY DEF Sound, Book, Order
  <2>2. Prices \cup {NoPrice} \subseteq Nat
    BY PricesAssumption DEF NoPrice
  <2>3. d.turn \in [Ids -> Nat]
    BY DEF DryState
  <2>4. QED
    BY <2>1, <2>2, <2>3
<1>3. \A i \in S : <<i, i>> \notin R
  BY <1>1, <1>2 DEF Better
<1>4. \A i, j, k \in S : <<i, j>> \in R /\ <<j, k>> \in R => <<i, k>> \in R
  BY <1>1, <1>2 DEF Better
<1>5. \A i, j \in S : <<j, i>> \notin R =>
         \/ Better(s, b.ord[i].price, b.ord[j].price)
         \/ b.ord[i].price = b.ord[j].price /\ d.turn[i] <= d.turn[j]
  BY <1>1, <1>2 DEF Better
<1>6. R \in SUBSET (Ids \X Ids)
  OBVIOUS
<1> HIDE DEF R
<1>7. PICK i \in S : \A j \in S : <<j, i>> \notin R
  <2> HIDE DEF S
  <2>1. QED
    BY <1>1, <1>3, <1>4, <1>6, FirstExists
<1>8. DryFirst(b, d, i, s)
  BY <1>5, <1>7 DEF DryFirst
<1>9. QED
  BY <1>8 DEF DryFirst, DryHead

\* A state after a pass: what is left only falls, and of one of the heads it
\* does fall.
DryLess(d, e) ==
  /\ \A i \in Ids : e.left[i] <= d.left[i]
  /\ \E i \in Ids : e.left[i] < d.left[i]

LEMMA DryKillFacts ==
  ASSUME NEW b, NEW d \in DryState(b), NEW S, NEW i \in S, i \in Ids, d.left[i] > 0
  PROVE  /\ DryKill(d, S) \in DryState(b) /\ DryLess(d, DryKill(d, S))
         /\ DryKill(d, S).qty = d.qty
<1> DEFINE e == DryKill(d, S)
<1>1. /\ d.left \in [Ids -> Nat] /\ d.shown \in [Ids -> Nat] /\ d.turn \in [Ids -> Nat]
      /\ d.next \in Nat /\ d.qty \in Nat
      /\ \A j \in Ids : d.left[j] > 0 =>
            /\ d.shown[j] \in 1 .. d.left[j]
            /\ b.ord[j].kind # "ICEBERG" => d.shown[j] = d.left[j]
      /\ d = [left |-> d.left, shown |-> d.shown, turn |-> d.turn, next |-> d.next, qty |-> d.qty]
  BY DEF DryState
<1>2. e = [left |-> [j \in Ids |-> IF j \in S THEN 0 ELSE d.left[j]],
           shown |-> d.shown, turn |-> d.turn, next |-> d.next, qty |-> d.qty]
  BY <1>1 DEF DryKill
<1> HIDE DEF e
<1>3. e \in DryState(b) /\ e.qty = d.qty
  BY <1>1, <1>2 DEF DryState
<1>4. DryLess(d, e)
  BY <1>1, <1>2 DEF DryLess
<1>5. QED
  BY <1>3, <1>4 DEF e

\* The two heads trade q: both lose it, and what ended takes its pair along.
LEMMA DryTradeFacts ==
  ASSUME NEW b, Sound(b), NEW d \in DryState(b), NEW bid \in Ids, NEW ask \in Ids, bid # ask,
         d.left[bid] > 0, d.left[ask] > 0
  PROVE  LET q    == Least(d.shown[bid], d.shown[ask])
             e    == DryTrade(b, d, bid, ask)
             gone == {i \in {bid, ask} : d.left[i] - q = 0}
             dead == UNION {WithSibling(b, i) : i \in gone}
         IN  /\ e \in DryState(b)
             /\ q \in Nat \ {0} /\ q <= d.left[bid] /\ q <= d.left[ask]
             /\ e.qty = d.qty + q /\ e.next = d.next + 1
             /\ \A i \in Ids :
                  /\ e.left[i] = IF i \in dead THEN 0
                                 ELSE IF i \in {bid, ask} THEN d.left[i] - q ELSE d.left[i]
                  /\ e.shown[i] = IF i \notin {bid, ask} THEN d.shown[i]
                                  ELSE IF d.left[i] > q /\ d.shown[i] = q
                                  THEN Least(b.ord[i].peak, d.left[i] - q)
                                  ELSE d.shown[i] - q
                  /\ e.turn[i] = IF i \in {bid, ask} /\ d.left[i] > q /\ d.shown[i] = q
                                 THEN d.next ELSE d.turn[i]
<1> DEFINE q    == Least(d.shown[bid], d.shown[ask])
           left(i)  == IF i \in {bid, ask} THEN d.left[i] - q ELSE d.left[i]
           less(i)  == IF i \in {bid, ask} THEN d.shown[i] - q ELSE d.shown[i]
           peaks(i) == i \in {bid, ask} /\ left(i) > 0 /\ less(i) = 0
           shown(i) == IF peaks(i) THEN Least(b.ord[i].peak, left(i)) ELSE less(i)
           turn(i)  == IF peaks(i) THEN d.next ELSE d.turn[i]
           gone == {i \in {bid, ask} : left(i) = 0}
           dead == UNION {WithSibling(b, i) : i \in gone}
           e    == DryTrade(b, d, bid, ask)
<1>1. /\ d.left \in [Ids -> Nat] /\ d.shown \in [Ids -> Nat] /\ d.turn \in [Ids -> Nat]
      /\ d.next \in Nat /\ d.qty \in Nat
      /\ \A j \in Ids : d.left[j] > 0 =>
            /\ d.shown[j] \in 1 .. d.left[j]
            /\ b.ord[j].kind # "ICEBERG" => d.shown[j] = d.left[j]
      /\ d = [left |-> d.left, shown |-> d.shown, turn |-> d.turn, next |-> d.next, qty |-> d.qty]
  BY DEF DryState
<1>2. q \in Nat \ {0} /\ \A i \in {bid, ask} : q <= d.shown[i] /\ q <= d.left[i]
  BY <1>1 DEF Least
<1>3. e = [left |-> [i \in Ids |-> IF i \in dead THEN 0 ELSE left(i)],
           shown |-> [i \in Ids |-> shown(i)],
           turn |-> [i \in Ids |-> turn(i)], next |-> d.next + 1, qty |-> d.qty + q]
  <2> HIDE DEF dead
  <2>1. e = DryKill([d EXCEPT
         !.left  = [i \in Ids |-> left(i)],
         !.shown = [i \in Ids |-> shown(i)],
         !.turn  = [i \in Ids |-> IF peaks(i) THEN d.next ELSE @[i]],
         !.next  = @ + 1,
         !.qty   = @ + q], dead)
    BY DEF DryTrade, dead
  <2> HIDE DEF left, less, shown, peaks, q, e
  <2>2. QED
    BY <1>1, <2>1 DEF DryKill, turn
<1> HIDE DEF e, dead
<1>4. ASSUME NEW i \in Ids
      PROVE  /\ left(i) \in Nat /\ shown(i) \in Nat /\ turn(i) \in Nat
             /\ left(i) > 0 => /\ shown(i) \in 1 .. left(i)
                               /\ b.ord[i].kind # "ICEBERG" => shown(i) = left(i)
             /\ shown(i) = IF i \notin {bid, ask} THEN d.shown[i]
                           ELSE IF d.left[i] > q /\ d.shown[i] = q
                           THEN Least(b.ord[i].peak, d.left[i] - q)
                           ELSE d.shown[i] - q
             /\ turn(i) = IF i \in {bid, ask} /\ d.left[i] > q /\ d.shown[i] = q
                          THEN d.next ELSE d.turn[i]
  <2>1. b.ord[i].peak \in Nat /\ (b.ord[i].kind = "ICEBERG" => b.ord[i].peak > 0)
    BY DEF Sound, Book, Order, OrderSound
  <2>2. /\ d.left[i] \in Nat /\ d.shown[i] \in Nat /\ d.turn[i] \in Nat
        /\ d.left[i] > 0 => /\ d.shown[i] \in 1 .. d.left[i]
                            /\ b.ord[i].kind # "ICEBERG" => d.shown[i] = d.left[i]
        /\ i \in {bid, ask} => d.left[i] > 0
    BY <1>1
  <2> HIDE DEF q
  <2>3. CASE i \notin {bid, ask}
    BY <2>2, <2>3
  <2>4. CASE i \in {bid, ask}
    BY <1>1, <1>2, <2>1, <2>2, <2>4 DEF Least
  <2>5. QED
    BY <2>3, <2>4
<1> HIDE DEF shown, turn
<1>5. e \in DryState(b)
  <2> HIDE DEF left, q
  <2>1. QED
    BY <1>1, <1>2, <1>3, <1>4 DEF DryState
<1>6. dead = UNION {WithSibling(b, i) : i \in {j \in {bid, ask} : d.left[j] - q = 0}}
  BY DEF dead
<1> HIDE DEF q
<1>7. QED
  BY <1>2, <1>3, <1>4, <1>5, <1>6 DEF e, q

-----------------------------------------------------------------------------
(***************************************************************************)
(* What a pass does to the two sides.                                      *)
(***************************************************************************)
Taken(S, T, n, m, i, q) ==
  /\ S \in SUBSET Ids /\ T \in SUBSET S /\ i \in S
  /\ q \in Nat /\ q <= n[i]
  /\ \A j \in S : n[j] \in Nat
  /\ \A j \in T : m[j] \in Nat /\ m[j] <= (IF j = i THEN n[i] - q ELSE n[j])
TakenExactly(S, T, n, m, i, q) ==
  /\ \A j \in T : m[j] = (IF j = i THEN n[i] - q ELSE n[j])
  /\ S \ {i} \subseteq T /\ (i \notin T => n[i] = q)

LEMMA UnitsTaken ==
  ASSUME NEW S, NEW T, NEW n, NEW m, NEW i, NEW q, Taken(S, T, n, m, i, q)
  PROVE  /\ Units(T, m) + q <= Units(S, n)
         /\ Units(T, m) \in Nat /\ Units(S, n) \in Nat
         /\ TakenExactly(S, T, n, m, i, q) => Units(T, m) + q = Units(S, n)
<1> USE DEF Taken, TakenExactly
<1> DEFINE R == T \ {i}
<1>1. Units(S, n) = Units(S \ {i}, n) + n[i] /\ Units(S \ {i}, n) \in Nat /\ n[i] \in Nat
  BY UnitsSplit
<1>2. Units(R, m) <= Units(S \ {i}, n) /\ Units(R, m) \in Nat
  <2>1. R \in SUBSET Ids /\ S \ {i} \in SUBSET Ids /\ R \subseteq S \ {i}
    OBVIOUS
  <2>2. /\ \A j \in S \ {i} : n[j] \in Nat
        /\ \A j \in R : m[j] \in Nat /\ m[j] <= n[j]
    OBVIOUS
  <2> HIDE DEF R
  <2>3. QED
    BY <2>1, <2>2, UnitsGrow
<1>3. /\ i \in T => Units(T, m) = Units(R, m) + m[i] /\ m[i] \in Nat
      /\ i \notin T => Units(T, m) = Units(R, m)
  <2>1. T \in SUBSET Ids /\ \A j \in T : m[j] \in Nat
    OBVIOUS
  <2>2. CASE i \in T
    BY <2>1, <2>2, UnitsSplit
  <2>3. CASE i \notin T
    <3>1. R = T
      BY <2>3
    <3>2. QED
      BY <2>3, <3>1
  <2>4. QED
    BY <2>2, <2>3
<1>4. ASSUME \A j \in T : m[j] = (IF j = i THEN n[i] - q ELSE n[j]), S \ {i} \subseteq T
      PROVE  Units(R, m) = Units(S \ {i}, n)
  <2>1. R \in SUBSET Ids /\ R = S \ {i} /\ \A j \in R : m[j] = n[j] /\ m[j] \in Nat /\ n[j] \in Nat
    BY <1>4
  <2>2. \A j \in R : n[j] <= m[j]
    BY <2>1
  <2> HIDE DEF R
  <2>3. Units(R, n) <= Units(R, m) /\ Units(R, n) \in Nat
    BY <2>1, <2>2, UnitsGrow
  <2>4. QED
    BY <1>2, <2>1, <2>3
<1> HIDE DEF R
<1>5. Units(T, m) \in Nat /\ Units(T, m) + q <= Units(S, n)
  <2>1. CASE i \in T
    BY <1>1, <1>2, <1>3, <2>1
  <2>2. CASE i \notin T
    BY <1>1, <1>2, <1>3, <2>2
  <2>3. QED
    BY <2>1, <2>2
<1>6. ASSUME \A j \in T : m[j] = (IF j = i THEN n[i] - q ELSE n[j]), S \ {i} \subseteq T,
             i \notin T => n[i] = q
      PROVE  Units(T, m) + q = Units(S, n)
  <2>1. CASE i \in T
    BY <1>1, <1>2, <1>3, <1>4, <1>6, <2>1
  <2>2. CASE i \notin T
    BY <1>1, <1>2, <1>3, <1>4, <1>6, <2>2
  <2>3. QED
    BY <2>1, <2>2
<1>7. QED
  BY <1>1, <1>5, <1>6

\* A self-match resolved cancels one of the two at least.
LEMMA SmpCancelsOne ==
  ASSUME NEW b, Sound(b), NEW bid \in Ids, NEW ask \in Ids, AuctionSmp(b, bid, ask) # "NONE"
  PROVE  SmpCancels(b, bid, ask) # {} /\ SmpCancels(b, bid, ask) \subseteq {bid, ask}
<1>1. b.ord[bid].smp \in SmpActions /\ b.ord[ask].smp \in SmpActions
  BY DEF Sound, Book, Order
<1>2. AuctionSmp(b, bid, ask) \in {"CANCEL_AGGRESSOR", "CANCEL_RESTING", "CANCEL_BOTH"}
  BY <1>1 DEF AuctionSmp, SelfMatch, SmpActions
<1>3. QED
  BY <1>2 DEF SmpCancels

\* In this state of the dry run no two orders can meet that must not trade,
\* and no pair has both legs left.
DryPlain(b, d) ==
  /\ \A i \in DryLive(b, d, "BUY"), j \in DryLive(b, d, "SELL") : ~SelfMatched(b, i, j)
  /\ \A i \in Ids : d.left[i] > 0 /\ b.ord[i].bond = "oco"
                    => \A j \in Ids : j = Sibling(b, i) => d.left[j] = 0

DryDone(b, d, e, s, exact) ==
  /\ e.qty + DryOfSide(b, e, s) <= d.qty + DryOfSide(b, d, s)
  /\ exact => e.qty + DryOfSide(b, e, s) = d.qty + DryOfSide(b, d, s)

LEMMA DryPassFacts ==
  ASSUME NEW b, Sound(b), NEW d \in DryState(b), ~DryOver(b, d)
  PROVE  LET e == DryPass(b, d)
         IN  /\ e \in DryState(b) /\ DryLess(d, e) /\ d.qty <= e.qty
             /\ \A s \in Sides :
                  /\ e.qty + DryOfSide(b, e, s) <= d.qty + DryOfSide(b, d, s)
                  /\ DryPlain(b, d) => e.qty + DryOfSide(b, e, s) = d.qty + DryOfSide(b, d, s)
             /\ DryPlain(b, d) => DryPlain(b, e)
<1> DEFINE bid == DryHead(b, d, "BUY")
           ask == DryHead(b, d, "SELL")
           e   == DryPass(b, d)
<1>1. DryFirst(b, d, bid, "BUY") /\ DryFirst(b, d, ask, "SELL")
  BY DryHeadExists DEF DryOver, Sides
<1>2. /\ bid \in DryLive(b, d, "BUY") /\ ask \in DryLive(b, d, "SELL")
      /\ bid \in Ids /\ ask \in Ids /\ bid # ask
      /\ b.ord[bid].side = "BUY" /\ b.ord[ask].side = "SELL"
      /\ d.left[bid] > 0 /\ d.left[ask] > 0
  BY <1>1 DEF DryFirst, DryLive
<1>3. d.left \in [Ids -> Nat] /\ d.qty \in Nat
  BY DEF DryState
<1> HIDE DEF bid, ask
<1>4. CASE SelfMatched(b, bid, ask)
  <2> DEFINE S == IF Twins(b, bid, ask) THEN {bid, ask}
                  ELSE UNION {WithSibling(b, i) : i \in SmpCancels(b, bid, ask)}
  <2>1. e = DryKill(d, S)
    BY <1>4 DEF DryPass, bid, ask, SelfMatched
  <2>2. PICK i \in {bid, ask} : i \in S
    <3>1. CASE Twins(b, bid, ask)
      BY <3>1
    <3>2. CASE ~Twins(b, bid, ask)
      <4>1. PICK i \in SmpCancels(b, bid, ask) : i \in {bid, ask}
        BY <1>2, <1>4, <3>2, SmpCancelsOne DEF SelfMatched
      <4>2. i \in WithSibling(b, i)
        BY DEF WithSibling
      <4>3. QED
        BY <3>2, <4>1, <4>2
    <3>3. QED
      BY <3>1, <3>2
  <2> HIDE DEF S, e
  <2>3. e \in DryState(b) /\ DryLess(d, e) /\ e.qty = d.qty
    BY <1>2, <2>1, <2>2, DryKillFacts
  <2>4. ASSUME NEW s \in Sides
        PROVE  e.qty + DryOfSide(b, e, s) <= d.qty + DryOfSide(b, d, s)
    <3>1. e.left \in [Ids -> Nat] /\ \A j \in Ids : e.left[j] <= d.left[j]
      BY <2>3 DEF DryState, DryLess
    <3>2. /\ DryLive(b, e, s) \subseteq DryLive(b, d, s)
          /\ DryLive(b, e, s) \in SUBSET Ids /\ DryLive(b, d, s) \in SUBSET Ids
      BY <1>3, <3>1 DEF DryLive
    <3>3. /\ \A j \in DryLive(b, e, s) : e.left[j] \in Nat /\ e.left[j] <= d.left[j]
          /\ \A j \in DryLive(b, d, s) : d.left[j] \in Nat
      BY <1>3, <3>1, <3>2
    <3>4. DryOfSide(b, e, s) <= DryOfSide(b, d, s) /\ DryOfSide(b, e, s) \in Nat
          /\ DryOfSide(b, d, s) \in Nat
      BY <3>2, <3>3, UnitsGrow DEF DryOfSide
    <3>5. QED
      BY <1>3, <2>3, <3>4
  <2>5. ~DryPlain(b, d)
    BY <1>2, <1>4 DEF DryPlain
  <2>6. QED
    BY <1>3, <2>3, <2>4, <2>5 DEF e
<1>5. CASE ~SelfMatched(b, bid, ask)
  <2>1. e = DryTrade(b, d, bid, ask)
    BY <1>5 DEF DryPass, bid, ask, SelfMatched
  <2> DEFINE q    == Least(d.shown[bid], d.shown[ask])
             gone == {i \in {bid, ask} : d.left[i] - q = 0}
             dead == UNION {WithSibling(b, i) : i \in gone}
  <2>2. /\ e \in DryState(b) /\ e.qty = d.qty + q
        /\ q \in Nat \ {0} /\ q <= d.left[bid] /\ q <= d.left[ask]
        /\ \A i \in Ids : e.left[i] = IF i \in dead THEN 0
                                      ELSE IF i \in {bid, ask} THEN d.left[i] - q ELSE d.left[i]
    BY <1>2, <2>1, DryTradeFacts
  <2> HIDE DEF q, e
  <2>3. e.left \in [Ids -> Nat] /\ e.qty \in Nat
    BY <2>2 DEF DryState
  <2>4. DryLess(d, e)
    <3> HIDE DEF dead
    <3>1. QED
      BY <1>2, <1>3, <2>2, <2>3 DEF DryLess
  <2>5. ASSUME DryPlain(b, d), NEW i \in dead, i \in Ids
        PROVE  d.left[i] = (IF i \in {bid, ask} THEN q ELSE 0)
    <3>1. PICK j \in gone : i \in WithSibling(b, j)
      BY <2>5
    <3>2. j \in {bid, ask} /\ j \in Ids /\ d.left[j] > 0 /\ d.left[j] = q
      BY <1>2, <1>3, <2>2, <3>1
    <3>3. CASE i = j
      BY <3>2, <3>3
    <3>4. CASE i # j
      <4>1. b.ord[j].bond = "oco" /\ i = Sibling(b, j)
        BY <3>1, <3>4 DEF WithSibling
      <4>2. d.left[i] = 0
        BY <2>5, <3>2, <4>1 DEF DryPlain
      <4>3. i \notin {bid, ask}
        BY <1>2, <4>2
      <4>4. QED
        BY <4>2, <4>3
    <3>5. QED
      BY <3>3, <3>4
  <2>6. DryPlain(b, d) => \A i \in Ids : e.left[i] = IF i \in {bid, ask} THEN d.left[i] - q
                                                    ELSE d.left[i]
    <3> HIDE DEF dead
    <3>1. ASSUME DryPlain(b, d), NEW i \in Ids
          PROVE  e.left[i] = IF i \in {bid, ask} THEN d.left[i] - q ELSE d.left[i]
      <4>1. CASE i \in dead
        BY <1>3, <2>2, <2>5, <3>1, <4>1
      <4>2. CASE i \notin dead
        BY <2>2, <4>2
      <4>3. QED
        BY <4>1, <4>2
    <3>2. QED
      BY <3>1
  <2>7. \A i \in Ids : e.left[i] <= IF i \in {bid, ask} THEN d.left[i] - q ELSE d.left[i]
    <3> HIDE DEF dead
    <3>1. QED
      BY <1>2, <1>3, <2>2, <2>3
  <2>8. ASSUME NEW s \in Sides
        PROVE  /\ e.qty + DryOfSide(b, e, s) <= d.qty + DryOfSide(b, d, s)
               /\ DryPlain(b, d) => e.qty + DryOfSide(b, e, s) = d.qty + DryOfSide(b, d, s)
    <3> DEFINE h == IF s = "BUY" THEN bid ELSE ask
               T == DryLive(b, e, s)
               S == DryLive(b, d, s)
    <3>1. /\ S \in SUBSET Ids /\ T \in SUBSET S /\ h \in S
          /\ \A j \in S : (j \in {bid, ask} <=> j = h) /\ (j \in T <=> e.left[j] > 0)
      <4>1. \A i \in Ids : e.left[i] <= d.left[i]
        BY <2>4 DEF DryLess
      <4>2. QED
        BY <1>2, <1>3, <2>3, <4>1 DEF DryLive, Sides
    <3>2. \A j \in S : d.left[j] \in Nat /\ d.left[j] > 0
      BY <1>3, <3>1 DEF DryLive
    <3>3. q \in Nat /\ q <= d.left[h]
      BY <2>2
    <3>4. \A j \in T : e.left[j] \in Nat /\ e.left[j] <= IF j = h THEN d.left[h] - q ELSE d.left[j]
      BY <2>3, <2>7, <3>1
    <3> HIDE DEF h, S, T
    <3>5. Taken(S, T, d.left, e.left, h, q)
      BY <3>1, <3>2, <3>3, <3>4 DEF Taken
    <3>6. DryPlain(b, d) => TakenExactly(S, T, d.left, e.left, h, q)
      BY <2>2, <2>3, <2>6, <3>1, <3>2, <3>3 DEF TakenExactly
    <3>7. /\ DryOfSide(b, e, s) + q <= DryOfSide(b, d, s)
          /\ DryOfSide(b, e, s) \in Nat /\ DryOfSide(b, d, s) \in Nat
          /\ DryPlain(b, d) => DryOfSide(b, e, s) + q = DryOfSide(b, d, s)
      BY <3>5, <3>6, UnitsTaken DEF DryOfSide, S, T
    <3>8. QED
      BY <1>3, <2>2, <3>7
  <2>9. DryPlain(b, d) => DryPlain(b, e)
    <3>1. \A i \in Ids : e.left[i] <= d.left[i] /\ e.left[i] \in Nat /\ d.left[i] \in Nat
      BY <1>3, <2>3, <2>4 DEF DryLess
    <3>2. \A s \in Sides : DryLive(b, e, s) \subseteq DryLive(b, d, s)
      BY <3>1 DEF DryLive
    <3>3. QED
      BY <3>1, <3>2 DEF DryPlain, Sides
  <2>10. QED
    BY <1>3, <2>2, <2>4, <2>8, <2>9 DEF e
<1>6. QED
  BY <1>4, <1>5

-----------------------------------------------------------------------------
(***************************************************************************)
(* The dry run as a recursive function.  That its equation has a solution  *)
(* is shown without induction: the result of a state is a state that ends  *)
(* the run among those its passes reach.                                   *)
(***************************************************************************)
DryClosed(b, X) == \A x \in X : ~DryOver(b, x) => DryPass(b, x) \in X
DryReach(b, d) ==
  {e \in DryState(b) : \A X \in SUBSET DryState(b) : d \in X /\ DryClosed(b, X) => e \in X}

LEMMA DryReachStep ==
  ASSUME NEW b, Sound(b), NEW d \in DryState(b)
  PROVE  /\ DryOver(b, d) => DryReach(b, d) = {d}
         /\ ~DryOver(b, d) => DryReach(b, d) = {d} \cup DryReach(b, DryPass(b, d))
<1>1. d \in DryReach(b, d)
  BY DEF DryReach
<1>2. ASSUME DryOver(b, d)
      PROVE  DryReach(b, d) = {d}
  <2>1. {d} \in SUBSET DryState(b) /\ DryClosed(b, {d})
    BY <1>2 DEF DryClosed
  <2>2. QED
    BY <1>1, <2>1 DEF DryReach
<1>3. ASSUME ~DryOver(b, d)
      PROVE  DryReach(b, d) = {d} \cup DryReach(b, DryPass(b, d))
  <2> DEFINE p == DryPass(b, d)
             Y == {d} \cup DryReach(b, p)
  <2>1. p \in DryState(b)
    BY <1>3, DryPassFacts
  <2>2. \A x \in DryState(b) : ~DryOver(b, x) => DryPass(b, x) \in DryState(b)
    BY DryPassFacts
  <2> HIDE DEF p
  <2>3. p \in DryReach(b, p) /\ DryReach(b, p) \subseteq DryState(b)
    BY <2>1 DEF DryReach
  <2>4. ASSUME NEW x \in DryReach(b, p), ~DryOver(b, x)
        PROVE  DryPass(b, x) \in DryReach(b, p)
    BY <2>2, <2>3, <2>4 DEF DryReach, DryClosed
  <2>5. Y \in SUBSET DryState(b) /\ d \in Y /\ DryClosed(b, Y)
    BY <2>3, <2>4 DEF DryClosed, p
  <2>6. DryReach(b, d) \subseteq Y
    <3> HIDE DEF Y
    <3>1. QED
      BY <2>5 DEF DryReach
  <2>7. DryReach(b, p) \subseteq DryReach(b, d)
    BY <1>3 DEF DryReach, DryClosed, p
  <2>8. QED
    BY <1>1, <2>6, <2>7 DEF p
<1>4. QED
  BY <1>2, <1>3

LEMMA DryWalkStep ==
  ASSUME NEW b, Sound(b), NEW d \in DryState(b)
  PROVE  DryWalk(b)[d] = IF DryOver(b, d) THEN d ELSE DryWalk(b)[DryPass(b, d)]
<1> DEFINE Eqn(f) == f = [x \in DryState(b) |-> IF DryOver(b, x) THEN x ELSE f[DryPass(b, x)]]
           end(x) == CHOOSE e : e \in DryReach(b, x) /\ DryOver(b, e)
           f == [x \in DryState(b) |-> end(x)]
<1>1. ASSUME NEW x \in DryState(b)
      PROVE  f[x] = IF DryOver(b, x) THEN x ELSE f[DryPass(b, x)]
  <2>1. CASE DryOver(b, x)
    <3>1. DryReach(b, x) = {x}
      BY <2>1, DryReachStep
    <3>2. end(x) = x
      BY <2>1, <3>1
    <3>3. QED
      BY <2>1, <3>2
  <2>2. CASE ~DryOver(b, x)
    <3>1. DryPass(b, x) \in DryState(b)
      BY <2>2, DryPassFacts
    <3>2. \A e : e \in DryReach(b, x) /\ DryOver(b, e) <=>
                e \in DryReach(b, DryPass(b, x)) /\ DryOver(b, e)
      <4>1. DryReach(b, x) = {x} \cup DryReach(b, DryPass(b, x))
        BY <2>2, DryReachStep
      <4>2. QED
        BY <2>2, <4>1
    <3>3. end(x) = end(DryPass(b, x))
      BY <3>2
    <3>4. QED
      BY <2>2, <3>1, <3>3
  <2>3. QED
    BY <2>1, <2>2
<1>2. Eqn(f)
  <2> HIDE DEF end
  <2>1. f = [x \in DryState(b) |-> f[x]]
    OBVIOUS
  <2> HIDE DEF f
  <2>2. QED
    BY <1>1, <2>1
<1>3. DryWalk(b) = CHOOSE walk : Eqn(walk)
  BY DEF DryWalk
<1> HIDE DEF f
<1>4. Eqn(DryWalk(b))
  <2> HIDE DEF Eqn
  <2>1. QED
    BY <1>2, <1>3
<1> DEFINE W == DryWalk(b)
<1>5. W = [x \in DryState(b) |-> IF DryOver(b, x) THEN x ELSE W[DryPass(b, x)]]
  BY <1>4
<1> HIDE DEF W
<1>6. W[d] = IF DryOver(b, d) THEN d ELSE W[DryPass(b, d)]
  BY <1>5
<1>7. QED
  BY <1>6 DEF W

-----------------------------------------------------------------------------
(***************************************************************************)
(* What the dry run trades.                                                *)
(***************************************************************************)
DryBounded(b, d) ==
  LET e == DryWalk(b)[d]
  IN  /\ e \in DryState(b)
      /\ d.qty <= e.qty
      /\ \A s \in Sides : e.qty <= d.qty + DryOfSide(b, d, s)
      /\ DryPlain(b, d) =>
            e.qty = d.qty + Least(DryOfSide(b, d, "BUY"), DryOfSide(b, d, "SELL"))

LEMMA DryLessUnits ==
  ASSUME NEW b, NEW d \in DryState(b), NEW e \in DryState(b), DryLess(d, e)
  PROVE  Unit(Ids, e.left) \subseteq Unit(Ids, d.left) /\ Unit(Ids, e.left) # Unit(Ids, d.left)
<1>1. d.left \in [Ids -> Nat] /\ e.left \in [Ids -> Nat]
  BY DEF DryState
<1>2. ASSUME NEW i \in Ids
      PROVE  1 .. e.left[i] \subseteq 1 .. d.left[i]
  BY <1>1, <1>2 DEF DryLess
<1>3. Unit(Ids, e.left) \subseteq Unit(Ids, d.left)
  BY <1>2 DEF Unit
<1>4. PICK i \in Ids : e.left[i] < d.left[i]
  BY DEF DryLess
<1>5. <<i, d.left[i]>> \in Unit(Ids, d.left)
  <2>1. d.left[i] \in 1 .. d.left[i]
    BY <1>1, <1>4
  <2>2. QED
    BY <2>1 DEF Unit
<1>6. <<i, d.left[i]>> \notin Unit(Ids, e.left)
  <2>1. d.left[i] \notin 1 .. e.left[i]
    BY <1>1, <1>4
  <2>2. QED
    BY <2>1 DEF Unit
<1>7. QED
  BY <1>3, <1>5, <1>6

LEMMA DrySides ==
  ASSUME NEW b, NEW d \in DryState(b), NEW s
  PROVE  DryOfSide(b, d, s) \in Nat
<1>1. d.left \in [Ids -> Nat]
  BY DEF DryState
<1>2. DryLive(b, d, s) \in SUBSET Ids /\ \A i \in DryLive(b, d, s) : d.left[i] \in Nat
  BY <1>1 DEF DryLive
<1>3. QED
  BY <1>2, UnitsFinite DEF DryOfSide

LEMMA DryWalkBounded ==
  ASSUME NEW b, Sound(b), NEW d \in DryState(b)
  PROVE  DryBounded(b, d)
<1> DEFINE Bad == {x \in DryState(b) : ~DryBounded(b, x)}
           C == {Unit(Ids, x.left) : x \in Bad}
<1>1. SUFFICES ASSUME Bad # {} PROVE FALSE
  OBVIOUS
<1>2. \A x \in Bad : IsFiniteSet(Unit(Ids, x.left))
  <2>1. ASSUME NEW x \in Bad
        PROVE  IsFiniteSet(Unit(Ids, x.left))
    <3>1. x.left \in [Ids -> Nat]
      BY DEF DryState
    <3>2. \A i \in Ids : x.left[i] \in Nat
      BY <3>1
    <3>3. QED
      BY <3>2, UnitsFinite
  <2>2. QED
    BY <2>1
<1>3. PICK T \in C : \A U \in C : U \subseteq T => U = T
  <2>1. C # {} /\ \A U \in C : IsFiniteSet(U)
    BY <1>1, <1>2
  <2> HIDE DEF C
  <2>2. QED
    BY <2>1, LeastSet
<1>4. PICK x \in Bad : T = Unit(Ids, x.left)
  OBVIOUS
<1>5. /\ x \in DryState(b) /\ x.qty \in Nat
      /\ \A s \in Sides : DryOfSide(b, x, s) \in Nat
  BY DrySides DEF DryState
<1>6. CASE DryOver(b, x)
  <2>1. DryWalk(b)[x] = x
    BY <1>5, <1>6, DryWalkStep
  <2>2. PICK s \in Sides : DryOfSide(b, x, s) = 0
    BY <1>6, UnitsNone DEF DryOver, DryOfSide, Sides
  <2>3. Least(DryOfSide(b, x, "BUY"), DryOfSide(b, x, "SELL")) = 0
    BY <1>5, <2>2 DEF Least, Sides
  <2>4. DryBounded(b, x)
    BY <1>5, <2>1, <2>3 DEF DryBounded
  <2>5. QED
    BY <2>4
<1>7. CASE ~DryOver(b, x)
  <2> DEFINE e == DryPass(b, x)
  <2>1. /\ e \in DryState(b) /\ DryLess(x, e) /\ x.qty <= e.qty
        /\ \A s \in Sides :
             /\ e.qty + DryOfSide(b, e, s) <= x.qty + DryOfSide(b, x, s)
             /\ DryPlain(b, x) => e.qty + DryOfSide(b, e, s) = x.qty + DryOfSide(b, x, s)
        /\ DryPlain(b, x) => DryPlain(b, e)
    BY <1>5, <1>7, DryPassFacts
  <2>2. DryWalk(b)[x] = DryWalk(b)[e]
    BY <1>5, <1>7, DryWalkStep
  <2> HIDE DEF e
  <2>3. Unit(Ids, e.left) \subseteq T /\ Unit(Ids, e.left) # T
    BY <1>4, <1>5, <2>1, DryLessUnits
  <2>4. DryBounded(b, e)
    BY <1>3, <2>1, <2>3
  <2>5. e.qty \in Nat /\ \A s \in Sides : DryOfSide(b, e, s) \in Nat
    BY <2>1, DrySides DEF DryState
  <2>6. DryWalk(b)[e].qty \in Nat
    BY <2>4 DEF DryBounded, DryState
  <2>7. \A s \in Sides : DryWalk(b)[e].qty <= x.qty + DryOfSide(b, x, s)
    BY <1>5, <2>1, <2>4, <2>5, <2>6 DEF DryBounded
  <2>8. ASSUME DryPlain(b, x)
        PROVE  DryWalk(b)[e].qty = x.qty + Least(DryOfSide(b, x, "BUY"), DryOfSide(b, x, "SELL"))
    <3>1. DryWalk(b)[e].qty = e.qty + Least(DryOfSide(b, e, "BUY"), DryOfSide(b, e, "SELL"))
      BY <2>1, <2>4, <2>8 DEF DryBounded
    <3>2. /\ e.qty + DryOfSide(b, e, "BUY") = x.qty + DryOfSide(b, x, "BUY")
          /\ e.qty + DryOfSide(b, e, "SELL") = x.qty + DryOfSide(b, x, "SELL")
      BY <2>1, <2>8 DEF Sides
    <3>3. QED
      BY <1>5, <2>5, <3>1, <3>2 DEF Least, Sides
  <2>9. DryBounded(b, x)
    BY <1>5, <2>1, <2>2, <2>4, <2>5, <2>6, <2>7, <2>8 DEF DryBounded
  <2>10. QED
    BY <2>9
<1>8. QED
  BY <1>6, <1>7

-----------------------------------------------------------------------------
(***************************************************************************)
(* The price of the uncross.                                               *)
(***************************************************************************)
DryQty(b, p) == DryWalk(b)[DryStart(b, p)].qty

LEMMA SameUnits ==
  ASSUME NEW S, NEW n, NEW m, \A i \in S : n[i] = m[i]
  PROVE  Units(S, n) = Units(S, m)
<1>1. {{i} \X (1 .. n[i]) : i \in S} = {{i} \X (1 .. m[i]) : i \in S}
  OBVIOUS
<1>2. QED
  BY <1>1 DEF Units

LEMMA DryStartFacts ==
  ASSUME NEW b, Sound(b), NEW p
  PROVE  LET d == DryStart(b, p)
         IN  /\ d \in DryState(b) /\ d.qty = 0
             /\ \A s \in Sides : /\ DryLive(b, d, s) = Crossing(b, s, p)
                                /\ DryOfSide(b, d, s) = Curve(b, s, p)
<1> DEFINE In == Crossing(b, "BUY", p) \cup Crossing(b, "SELL", p)
           d  == DryStart(b, p)
<1>1. d = [left  |-> [i \in Ids |-> IF i \in In THEN b.ord[i].rem ELSE 0],
           shown |-> [i \in Ids |-> IF i \in In THEN Slice(b.ord[i]) ELSE 0],
           turn  |-> [i \in Ids |-> b.ord[i].seq],
           next  |-> b.seq + 1,
           qty   |-> 0]
  BY DEF DryStart
<1>2. ASSUME NEW i \in Ids
      PROVE  /\ b.ord[i].rem \in Nat /\ b.ord[i].seq \in Nat /\ b.ord[i].side \in Sides
             /\ i \in In => /\ b.ord[i].rem > 0 /\ Slice(b.ord[i]) \in 1 .. b.ord[i].rem
                            /\ b.ord[i].kind # "ICEBERG" => Slice(b.ord[i]) = b.ord[i].rem
             /\ \A s \in Sides : i \in Crossing(b, s, p) => b.ord[i].side = s
  <2>1. b.ord[i] \in Order /\ OrderSound(b.ord[i])
    BY DEF Sound, Book
  <2>2. i \in In => b.ord[i].place = "book"
    BY DEF Crossing, Resting
  <2>3. i \in In => b.ord[i].status \in Working
    BY <2>1, <2>2 DEF OrderSound
  <2>4. QED
    BY <2>1, <2>2, <2>3 DEF OrderSound, Order, Crossing, Resting, Slice
<1>3. b.seq \in Nat
  BY DEF Sound, Book
<1>4. In \subseteq Ids /\ \A s \in Sides : Crossing(b, s, p) \subseteq In
  BY DEF Crossing, Resting, Sides
<1> HIDE DEF In, d
<1>5. d \in DryState(b) /\ d.qty = 0
  <2>1. \A i \in In : Slice(b.ord[i]) \in Nat
    BY <1>2, <1>4
  <2>2. d.left \in [Ids -> Nat] /\ d.shown \in [Ids -> Nat] /\ d.turn \in [Ids -> Nat]
    BY <1>1, <1>2, <2>1
  <2>3. \A i \in Ids : d.left[i] > 0 =>
            /\ d.shown[i] \in 1 .. d.left[i]
            /\ b.ord[i].kind # "ICEBERG" => d.shown[i] = d.left[i]
    BY <1>1, <1>2
  <2>4. QED
    BY <1>1, <1>3, <2>2, <2>3 DEF DryState
<1>6. ASSUME NEW s \in Sides
      PROVE  DryLive(b, d, s) = Crossing(b, s, p)
  <2>1. \A i \in Ids : d.left[i] > 0 <=> i \in In
    BY <1>1, <1>2
  <2>2. \A i \in In : i \in Crossing(b, b.ord[i].side, p)
    BY DEF In, Crossing, Resting
  <2>3. QED
    BY <1>2, <1>4, <2>1, <2>2 DEF DryLive
<1>7. ASSUME NEW s \in Sides
      PROVE  DryOfSide(b, d, s) = Curve(b, s, p)
  <2> DEFINE n == [i \in Ids |-> b.ord[i].rem]
  <2>1. \A i \in Crossing(b, s, p) : d.left[i] = n[i]
    BY <1>1, <1>4
  <2>2. Curve(b, s, p) = Units(Crossing(b, s, p), n)
    BY DEF Curve
  <2> HIDE DEF n
  <2>3. QED
    BY <1>6, <2>1, <2>2, SameUnits DEF DryOfSide
<1>8. QED
  BY <1>5, <1>6, <1>7 DEF d

LEMMA DryStartPlain ==
  ASSUME NEW b, Sound(b), Paired(b), NEW p \in Prices, ~NeedsSimulation(b)
  PROVE  DryPlain(b, DryStart(b, p))
<1> DEFINE d == DryStart(b, p)
<1>1. \A i \in Ids : /\ b.ord[i].price \in Nat
                     /\ b.ord[i].place = "book" => b.ord[i].price # NoPrice
  <2>1. Prices \subseteq Nat \ {NoPrice} /\ NoPrice \in Nat
    BY PricesAssumption DEF NoPrice
  <2>2. QED
    BY <2>1 DEF Sound, Book, Order, OrderSound, Restable
<1>2. p \in Nat /\ p # NoPrice
  BY PricesAssumption
<1>3. \A s \in Sides : DryLive(b, d, s) = Crossing(b, s, p)
  BY DryStartFacts
<1> HIDE DEF d
<1>4. ASSUME NEW i \in DryLive(b, d, "BUY"), NEW j \in DryLive(b, d, "SELL")
      PROVE  ~SelfMatched(b, i, j)
  <2>1. i \in Crossing(b, "BUY", p) /\ j \in Crossing(b, "SELL", p)
    BY <1>3 DEF Sides
  <2>2. i \in Resting(b, "BUY") /\ j \in Resting(b, "SELL") /\ i # j
    BY <2>1 DEF Crossing, Resting
  <2>3. b.ord[i].price >= p /\ p >= b.ord[j].price
    BY <1>1, <1>2, <2>1 DEF Crossing, Within, Opposite
  <2>4. b.ord[i].price >= b.ord[j].price
    BY <1>1, <1>2, <2>2, <2>3 DEF Resting
  <2>5. QED
    BY <2>2, <2>4 DEF NeedsSimulation, SelfMatched
<1>5. ASSUME NEW i \in Ids, d.left[i] > 0, b.ord[i].bond = "oco",
             NEW j \in Ids, j = Sibling(b, i)
      PROVE  d.left[j] = 0
  <2>1. d.left[j] \in Nat
    BY DryStartFacts DEF d, DryState
  <2>2. SUFFICES ASSUME d.left[j] > 0 PROVE FALSE
    BY <2>1
  <2>3. \A k \in {i, j} : k \in Resting(b, "BUY") \cup Resting(b, "SELL")
    <3>1. \A k \in {i, j} : k \in Ids /\ d.left[k] > 0 /\ b.ord[k].side \in Sides
      BY <1>5, <2>2 DEF Sound, Book, Order
    <3>2. \A k \in {i, j} : k \in DryLive(b, d, b.ord[k].side)
      BY <3>1 DEF DryLive
    <3>3. QED
      BY <1>3, <3>1, <3>2 DEF Crossing, Sides
  <2>4. i # j
    BY <1>5, Siblings
  <2>5. Twins(b, i, j)
    BY <1>5 DEF Paired, Twins
  <2>6. QED
    BY <2>3, <2>4, <2>5 DEF NeedsSimulation
<1>6. QED
  BY <1>4, <1>5 DEF DryPlain, d

\* Whether or not a simulation is needed, the quantity of a price is what a
\* walk of the copy at that price trades, and it is within the curves.
LEMMA OutcomeIsDry ==
  ASSUME NEW b, Sound(b), Paired(b), NEW p \in Prices
  PROVE  /\ Outcome(b, p).qty = DryQty(b, p)
         /\ DryQty(b, p) \in Nat /\ Bound(b, p) \in Nat /\ DryQty(b, p) <= Bound(b, p)
<1> DEFINE d == DryStart(b, p)
<1>1. /\ d \in DryState(b) /\ d.qty = 0
      /\ \A s \in Sides : DryOfSide(b, d, s) = Curve(b, s, p)
  BY DryStartFacts
<1>2. DryQty(b, p) = DryWalk(b)[d].qty
  BY DEF DryQty
<1> HIDE DEF d
<1>3. DryBounded(b, d) /\ \A s \in Sides : Curve(b, s, p) \in Nat
  BY <1>1, DryWalkBounded, DrySides
<1>4. DryQty(b, p) \in Nat
  BY <1>2, <1>3 DEF DryBounded, DryState
<1>5. \A s \in Sides : DryQty(b, p) <= Curve(b, s, p)
  BY <1>1, <1>2, <1>3, <1>4 DEF DryBounded
<1>6. Bound(b, p) \in Nat /\ DryQty(b, p) <= Bound(b, p)
  BY <1>3, <1>4, <1>5 DEF Bound, Least, Sides
<1>7. CASE NeedsSimulation(b)
  BY <1>4, <1>6, <1>7 DEF Outcome, DryRun, DryQty
<1>8. CASE ~NeedsSimulation(b)
  <2>1. DryPlain(b, d)
    BY <1>8, DryStartPlain DEF d
  <2>2. DryQty(b, p) = 0 + Least(Curve(b, "BUY", p), Curve(b, "SELL", p))
    BY <1>1, <1>2, <1>3, <2>1 DEF DryBounded, Sides
  <2>3. DryQty(b, p) = Bound(b, p)
    BY <1>6, <2>2 DEF Bound
  <2>4. QED
    BY <1>4, <1>6, <1>8, <2>3 DEF Outcome
<1>9. QED
  BY <1>7, <1>8

LEMMA CandidatePrices ==
  ASSUME NEW b, Sound(b)
  PROVE  Candidates(b) \subseteq Prices
<1>1. \A i \in Ids : b.ord[i].place = "book" => b.ord[i].price \in Prices
  BY DEF Sound, OrderSound, Restable
<1>2. QED
  BY <1>1 DEF Candidates, Levelled, Resting

\* Where the book is crossed there is a price to uncross at.
LEMMA CrossedCandidate ==
  ASSUME NEW b, Sound(b), NEW i \in Bids(b), NEW j \in Asks(b),
         b.ord[i].price >= b.ord[j].price
  PROVE  b.ord[i].price \in Candidates(b)
<1> DEFINE p == b.ord[i].price
           n == [k \in Ids |-> b.ord[k].rem]
<1>1. /\ i \in Ids /\ j \in Ids /\ b.ord[i].place = "book" /\ b.ord[j].place = "book"
      /\ i \in Resting(b, "BUY") /\ j \in Resting(b, "SELL")
  BY DEF Bids, Asks, Resting
<1>2. \A k \in Ids : /\ b.ord[k].rem \in Nat
                     /\ b.ord[k].place = "book" => b.ord[k].rem > 0 /\ b.ord[k].price \in Nat
  <2>1. Prices \subseteq Nat
    BY PricesAssumption
  <2>2. QED
    BY <2>1 DEF Sound, Book, Order, OrderSound, Restable
<1>3. i \in Crossing(b, "BUY", p) /\ j \in Crossing(b, "SELL", p)
  BY <1>1, <1>2 DEF Crossing, Within, Opposite
<1> HIDE DEF p
<1>4. ASSUME NEW s \in Sides, NEW k \in Crossing(b, s, p)
      PROVE  Curve(b, s, p) \in Nat /\ Curve(b, s, p) > 0
  <2> DEFINE S == Crossing(b, s, p)
  <2>1. S \in SUBSET Ids /\ \A l \in S : b.ord[l].place = "book" /\ n[l] \in Nat
        /\ n[l] = b.ord[l].rem
    BY <1>2 DEF Crossing, Resting
  <2>2. Curve(b, s, p) = Units(S, n) /\ n[k] > 0
    BY <1>2, <2>1 DEF Curve
  <2>3. k \in S
    BY <1>4
  <2> HIDE DEF S, n
  <2>4. Units(S, n) = Units(S \ {k}, n) + n[k] /\ Units(S \ {k}, n) \in Nat
    BY <2>1, <2>3, UnitsSplit
  <2>5. n[k] \in Nat
    BY <2>1, <2>3
  <2>6. QED
    BY <2>2, <2>4, <2>5
<1>5. Bound(b, p) > 0
  BY <1>3, <1>4 DEF Bound, Least, Sides
<1>6. p \in Levelled(b)
  BY <1>1 DEF Levelled, p
<1>7. QED
  BY <1>5, <1>6 DEF Candidates, p

\* The equilibrium: where nothing can trade there is none; otherwise its price
\* is on the ladder, its quantity is what a walk at that price trades, and at no
\* other level would a walk trade more, those skipped by their bounds included.
LEMMA EquilibriumFacts ==
  ASSUME NEW b, Sound(b), Paired(b), NEW e \in Equilibria(b)
  PROVE  /\ e.qty \in Nat
         /\ e.price = NoPrice => Candidates(b) = {}
         /\ e.price # NoPrice => /\ e.price \in Prices /\ e.qty = DryQty(b, e.price)
                                 /\ \A p \in Candidates(b) : DryQty(b, p) <= e.qty
<1> DEFINE C     == Candidates(b)
           out   == [p \in C |-> Outcome(b, p)]
           tried == Tried(b, out)
           best  == {p \in tried : \A q \in tried : Preferred(out[p], p, out[q], q)}
<1>1. C \subseteq Prices /\ NoPrice \notin Prices /\ NoPrice \in Nat
  BY CandidatePrices, PricesAssumption DEF NoPrice
<1>2. CASE C = {}
  <2>1. Equilibria(b) = {[price |-> NoPrice, qty |-> 0]}
    BY <1>2 DEF Equilibria
  <2>2. e.price = NoPrice /\ e.qty = 0
    BY <2>1
  <2>3. QED
    BY <1>2, <2>2
<1>3. CASE C # {}
  <2>1. Equilibria(b) = {[price |-> p, qty |-> out[p].qty] : p \in best}
    BY <1>3 DEF Equilibria
  <2>2. PICK x \in best : e.price = x /\ e.qty = out[x].qty
    <3> HIDE DEF best, out
    <3>1. QED
      BY <2>1
  <2>3. x \in C /\ x \in tried
    BY <2>2 DEF Tried
  <2>4. \A p \in C : /\ out[p].qty = DryQty(b, p) /\ out[p].qty \in Nat
                     /\ Bound(b, p) \in Nat /\ out[p].qty <= Bound(b, p)
    BY <1>1, OutcomeIsDry
  <2> HIDE DEF out
  <2>5. PICK y \in C : \A p \in C : out[p].qty <= out[y].qty
    <3> DEFINE S == {out[p].qty : p \in C}
               m == Units(Resting(b, "BUY"), [i \in Ids |-> b.ord[i].rem])
    <3>1. S # {} /\ S \subseteq Nat
      BY <1>3, <2>4
    <3>2. ASSUME NEW p \in C
          PROVE  m \in Nat /\ out[p].qty <= m
      <4> DEFINE n == [i \in Ids |-> b.ord[i].rem]
      <4>1. /\ Crossing(b, "BUY", p) \in SUBSET Ids /\ Resting(b, "BUY") \in SUBSET Ids
            /\ Crossing(b, "BUY", p) \subseteq Resting(b, "BUY")
        BY DEF Crossing, Resting
      <4>2. \A i \in Ids : n[i] \in Nat
        BY DEF Sound, Book, Order
      <4>3. Curve(b, "BUY", p) = Units(Crossing(b, "BUY", p), n) /\ m = Units(Resting(b, "BUY"), n)
        BY DEF Curve
      <4> HIDE DEF n, m, S
      <4>4. \A i \in Crossing(b, "BUY", p) : n[i] <= n[i]
        BY <4>1, <4>2
      <4>5. Curve(b, "BUY", p) <= m /\ Curve(b, "BUY", p) \in Nat /\ m \in Nat
        BY <4>1, <4>2, <4>3, <4>4, UnitsGrow
      <4>6. DryStart(b, p) \in DryState(b) /\ DryOfSide(b, DryStart(b, p), "SELL") = Curve(b, "SELL", p)
        BY DryStartFacts DEF Sides
      <4>7. Curve(b, "SELL", p) \in Nat
        BY <4>6, DrySides
      <4>8. Bound(b, p) <= Curve(b, "BUY", p)
        BY <4>5, <4>7 DEF Bound, Least
      <4>9. QED
        BY <2>4, <4>5, <4>8
    <3>3. PICK z \in S : \A k \in S : k <= z
      <4>1. m \in Nat /\ \A k \in S : k <= m
        BY <1>3, <3>2
      <4> HIDE DEF S, m
      <4>2. QED
        BY <3>1, <4>1, GreatestExists
    <3>4. QED
      BY <3>3
  <2>6. y \in tried
    BY <2>4, <2>5 DEF Tried
  <2>7. out[x].qty >= out[y].qty
    BY <2>2, <2>3, <2>4, <2>6 DEF Preferred
  <2>8. \A p \in C : DryQty(b, p) <= e.qty
    BY <2>2, <2>3, <2>4, <2>5, <2>7
  <2>9. QED
    BY <1>1, <2>2, <2>3, <2>4, <2>8
<1>4. QED
  BY <1>2, <1>3

-----------------------------------------------------------------------------
(***************************************************************************)
(* Withdrawals in the walk of the book.                                    *)
(***************************************************************************)

\* The legs of a pair that both rest are still registered as a pair.
Together(b) ==
  \A i \in Ids : b.ord[i].bond = "oco" /\ b.ord[i].place = "book"
                 /\ b.ord[Sibling(b, i)].place = "book" => b.ord[i].group \in b.live

\* Of what rests in b only the orders of K have left in c.
Leaves(b, c, K) ==
  \A i \in Ids : /\ c.ord[i].place = "book" <=> b.ord[i].place = "book" /\ i \notin K
                 /\ c.ord[i].place = "book" => c.ord[i] = b.ord[i]

\* What the walk of the book never changes of an order.
SameTerms(o, n) ==
  SameOrder(o, n) /\ n.kind = o.kind /\ n.price = o.price /\ n.peak = o.peak
Static(b, c) == \A i \in Ids : SameTerms(b.ord[i], c.ord[i])

LEMMA ThinnedStatic ==
  ASSUME NEW b, Sound(b), NEW c, Thinned(b, c)
  PROVE  Static(b, c)
<1>1. ASSUME NEW i \in Ids
      PROVE  SameTerms(b.ord[i], c.ord[i])
  <2>1. b.ord[i] \in Order
    BY DEF Sound, Book
  <2>2. CASE c.ord[i] = b.ord[i]
    BY <2>2 DEF SameTerms, SameOrder
  <2>3. CASE c.ord[i] = Withdrawn1(b.ord[i])
    BY <2>1, <2>3 DEF SameTerms, SameOrder, Withdrawn1, Order
  <2>4. QED
    BY <2>2, <2>3 DEF Thinned
<1>2. QED
  BY <1>1 DEF Static

LEMMA StaticTransitive ==
  ASSUME NEW b, NEW c, NEW d, Static(b, c), Static(c, d)
  PROVE  Static(b, d)
BY DEF Static, SameTerms, SameOrder

\* What the rules of the uncross read of a book.
LEMMA StaticRules ==
  ASSUME NEW b, NEW c, Static(b, c), NEW i \in Ids, NEW j \in Ids
  PROVE  /\ Sibling(c, i) = Sibling(b, i) /\ WithSibling(c, i) = WithSibling(b, i)
         /\ Twins(c, i, j) <=> Twins(b, i, j)
         /\ SelfMatched(c, i, j) <=> SelfMatched(b, i, j)
         /\ AuctionSmp(c, i, j) = AuctionSmp(b, i, j)
         /\ SmpCancels(c, i, j) = SmpCancels(b, i, j)
<1>1. /\ SameTerms(b.ord[i], c.ord[i]) /\ SameTerms(b.ord[j], c.ord[j])
  BY DEF Static
<1>2. /\ Sibling(c, i) = Sibling(b, i) /\ (Twins(c, i, j) <=> Twins(b, i, j))
      /\ SelfMatch(c, i, j) = SelfMatch(b, i, j) /\ SelfMatch(c, j, i) = SelfMatch(b, j, i)
  BY <1>1 DEF SameTerms, SameOrder, Sibling, Twins, SelfMatch
<1>3. WithSibling(c, i) = WithSibling(b, i)
  BY <1>1, <1>2 DEF SameTerms, SameOrder, WithSibling
<1>4. AuctionSmp(c, i, j) = AuctionSmp(b, i, j) /\ (AskDecides(c, i, j) <=> AskDecides(b, i, j))
  BY <1>2 DEF AuctionSmp, AskDecides
<1>5. QED
  BY <1>2, <1>3, <1>4 DEF SelfMatched, SmpCancels

LEMMA StaticPaired ==
  ASSUME NEW b, Sound(b), Paired(b), NEW c, Static(b, c)
  PROVE  Paired(c)
<1>1. SameBonds(b, c)
  BY DEF Static, SameTerms, SameOrder, SameBonds, SameTies
<1>2. QED
  BY <1>1, TiesStay

\* The hook of an order that has ended takes the other leg of its pair from
\* the book.
LEMMA HookLeaves ==
  ASSUME NEW d, Sound(d), Paired(d), NEW i \in Ids, d.ord[i].status \in Dead,
         d.ord[i].bond = "oco" /\ d.ord[Sibling(d, i)].place = "book" => d.ord[i].group \in d.live
  PROVE  LET c == OcoLegEnded(d, i)
         IN  /\ Leaves(d, c, WithSibling(d, i)) /\ Sound(c) /\ Thinned(d, c) /\ Paired(c)
             /\ c.live = d.live \/ /\ d.ord[i].bond = "oco"
                                   /\ c.live = d.live \ {d.ord[i].group}
<1> DEFINE c == OcoLegEnded(d, i)
           s == Sibling(d, i)
<1>1. d.ord[i].place # "book"
  BY DEF Sound, OrderSound, Working, Dead
<1>2. Sound(c) /\ Thinned(d, c) /\ Paired(c)
  BY OcoHookTouches
<1>3. CASE d.ord[i].bond # "oco"
  BY <1>1, <1>2, <1>3 DEF OcoLegEnded, Leaves, WithSibling
<1>4. CASE d.ord[i].bond = "oco"
  <2>1. c = PullSibling(d, i)
    BY <1>4 DEF OcoLegEnded
  <2>2. /\ c.live = d.live \ {d.ord[i].group}
        /\ \A j \in Ids \ {s} : c.ord[j] = d.ord[j]
        /\ d.ord[i].group \notin d.live => c = d
        /\ d.ord[i].group \in d.live => \/ c.ord[s].status \in Dead
                                        \/ c.ord[s] = d.ord[s] /\ d.ord[s].place = "none"
    BY <1>4, <2>1, PullTouches
  <2>3. s \in Ids /\ WithSibling(d, i) = {i, s}
    BY <1>4, Siblings DEF WithSibling
  <2>4. c.ord[s].place # "book"
    <3>1. c.ord[s].status \in Dead => c.ord[s].place # "book"
      BY <1>2, <2>3 DEF Sound, OrderSound, Working, Dead
    <3>2. CASE d.ord[i].group \in d.live
      BY <2>2, <3>1, <3>2
    <3>3. CASE d.ord[i].group \notin d.live
      BY <1>4, <2>2, <3>3
    <3>4. QED
      BY <3>2, <3>3
  <2>5. Leaves(d, c, WithSibling(d, i))
    BY <1>1, <2>2, <2>3, <2>4 DEF Leaves
  <2>6. QED
    BY <1>2, <1>4, <2>2, <2>5
<1>5. QED
  BY <1>3, <1>4

LEMMA LeavesTwice ==
  ASSUME NEW b, NEW c, NEW d, NEW K, NEW L, Leaves(b, c, K), Leaves(c, d, L)
  PROVE  Leaves(b, d, K \cup L)
BY DEF Leaves

\* _smp_cancel_resting on a resting order.
LEMMA SmpCancelLeaves ==
  ASSUME NEW b, Sound(b), Paired(b), Together(b), NEW i \in Ids, b.ord[i].place = "book"
  PROVE  LET c == SmpCancel(b, i)
         IN  /\ Leaves(b, c, WithSibling(b, i)) /\ Sound(c) /\ Thinned(b, c)
             /\ Paired(c) /\ Together(c)
<1> DEFINE x == Cancel(b, i)
           c == OcoLegEnded(x, i)
<1>1. SmpCancel(b, i) = c
  BY DEF SmpCancel
<1>2. /\ Sound(x) /\ Thinned(b, x) /\ x.live = b.live
      /\ \A j \in Ids \ {i} : x.ord[j] = b.ord[j]
      /\ x.ord[i].status \in Dead
  BY CancelTouches
<1> HIDE DEF x
<1>3. Static(b, x) /\ Paired(x)
  BY <1>2, ThinnedStatic, StaticPaired
<1>4. /\ Sibling(x, i) = Sibling(b, i) /\ WithSibling(x, i) = WithSibling(b, i)
      /\ x.ord[i].bond = b.ord[i].bond /\ x.ord[i].group = b.ord[i].group
  BY <1>3, StaticRules DEF Static, SameTerms, SameOrder
<1>5. x.ord[i].bond = "oco" /\ x.ord[Sibling(x, i)].place = "book" => x.ord[i].group \in x.live
  <2>1. x.ord[i].bond = "oco" => Sibling(b, i) \in Ids /\ Sibling(b, i) # i
    BY <1>4, Siblings
  <2>2. QED
    BY <1>2, <1>4, <2>1 DEF Together
<1>6. /\ Leaves(x, c, WithSibling(x, i)) /\ Sound(c) /\ Thinned(x, c) /\ Paired(c)
      /\ c.live = x.live \/ (x.ord[i].bond = "oco" /\ c.live = x.live \ {x.ord[i].group})
  BY <1>2, <1>3, <1>5, HookLeaves
<1> HIDE DEF c
<1>7. Leaves(b, x, {i})
  <2>1. x.ord[i].place # "book"
    BY <1>2 DEF Sound, OrderSound, Working, Dead
  <2>2. QED
    BY <1>2, <2>1 DEF Leaves
<1>8. Leaves(b, c, WithSibling(b, i))
  <2>1. {i} \cup WithSibling(b, i) = WithSibling(b, i)
    BY DEF WithSibling
  <2>2. QED
    BY <1>4, <1>6, <1>7, <2>1, LeavesTwice
<1>9. Thinned(b, c)
  BY <1>2, <1>6, ThinnedTransitive
<1>10. Together(c)
  <2>1. SUFFICES ASSUME NEW j \in Ids, c.ord[j].bond = "oco", c.ord[j].place = "book",
                        c.ord[Sibling(c, j)].place = "book"
                 PROVE  c.ord[j].group \in c.live
    BY DEF Together
  <2>2. Static(b, c)
    BY <1>9, ThinnedStatic
  <2>3. b.ord[j].bond = "oco" /\ b.ord[j].group = c.ord[j].group /\ Sibling(c, j) = Sibling(b, j)
    BY <2>1, <2>2, StaticRules DEF Static, SameTerms, SameOrder
  <2>4. /\ Sibling(b, j) \in Ids /\ b.ord[j].group \in Nat
        /\ {j, Sibling(b, j)} = {b.ord[j].group, b.ord[j].group + 1}
    BY <2>3, Siblings
  <2>5. b.ord[j].group \in b.live
    BY <1>8, <2>1, <2>3, <2>4 DEF Together, Leaves
  <2>6. CASE b.ord[i].bond = "oco" /\ b.ord[i].group = b.ord[j].group
    <3>1. /\ WithSibling(b, i) = {i, Sibling(b, i)}
          /\ {i, Sibling(b, i)} = {b.ord[i].group, b.ord[i].group + 1}
      BY <2>6, Siblings DEF WithSibling
    <3>2. j \in WithSibling(b, i)
      BY <2>4, <2>6, <3>1
    <3>3. QED
      BY <1>8, <2>1, <3>2 DEF Leaves
  <2>7. CASE ~(b.ord[i].bond = "oco" /\ b.ord[i].group = b.ord[j].group)
    BY <1>2, <1>4, <1>6, <2>3, <2>5, <2>7
  <2>8. QED
    BY <2>6, <2>7
<1>11. QED
  BY <1>1, <1>6, <1>8, <1>9, <1>10

\* The other leg of an OCO pair is its twin.
LEMMA SiblingIsTwin ==
  ASSUME NEW b, Sound(b), Paired(b), NEW i \in Ids, NEW j \in Ids, i # j
  PROVE  j \in WithSibling(b, i) <=> Twins(b, i, j)
<1>1. CASE b.ord[i].bond # "oco"
  BY <1>1 DEF WithSibling, Twins
<1>2. CASE b.ord[i].bond = "oco"
  <2> DEFINE s == Sibling(b, i)
  <2>1. /\ s \in Ids /\ s # i /\ b.ord[i].group \in Nat
        /\ {i, s} = {b.ord[i].group, b.ord[i].group + 1}
    BY <1>2, Siblings
  <2>2. WithSibling(b, i) = {i, s}
    BY <1>2 DEF WithSibling
  <2>3. Twins(b, i, s)
    BY <1>2 DEF Twins, Paired
  <2>4. ASSUME Twins(b, i, j)
        PROVE  j \in {i, s}
    <3>1. b.ord[j].bond = "oco" /\ b.ord[j].group = b.ord[i].group
      BY <2>4 DEF Twins
    <3>2. {j, Sibling(b, j)} = {b.ord[j].group, b.ord[j].group + 1}
      BY <3>1, Siblings
    <3>3. QED
      BY <2>1, <3>1, <3>2
  <2> HIDE DEF s
  <2>5. QED
    BY <2>1, <2>2, <2>3, <2>4
<1>3. QED
  BY <1>1, <1>2

\* The orders a self-match takes out of the walk.
PulledBy(b, bid, ask) ==
  IF Twins(b, bid, ask) THEN {bid, ask}
  ELSE UNION {WithSibling(b, i) : i \in SmpCancels(b, bid, ask)}

LEMMA ResolveLeaves ==
  ASSUME NEW b, Sound(b), Paired(b), Together(b), NEW bid \in Ids, NEW ask \in Ids, bid # ask,
         b.ord[bid].place = "book", b.ord[ask].place = "book", SelfMatched(b, bid, ask)
  PROVE  LET c == ResolveSelfMatch(b, bid, ask)
         IN  /\ Leaves(b, c, PulledBy(b, bid, ask)) /\ Sound(c) /\ Thinned(b, c)
             /\ Paired(c) /\ Together(c)
<1> DEFINE c == ResolveSelfMatch(b, bid, ask)
<1>1. CASE Twins(b, bid, ask)
  <2>1. c = SmpCancel(b, bid)
    BY <1>1 DEF ResolveSelfMatch, SmpCancel
  <2>2. WithSibling(b, bid) = {bid, ask}
    <3>1. ask \in WithSibling(b, bid)
      BY <1>1, SiblingIsTwin
    <3>2. QED
      BY <3>1 DEF WithSibling
  <2>3. QED
    BY <1>1, <2>1, <2>2, SmpCancelLeaves DEF PulledBy
<1>2. CASE ~Twins(b, bid, ask)
  <2> DEFINE S == SmpCancels(b, bid, ask)
             x == IF bid \in S THEN SmpCancel(b, bid) ELSE b
             y == IF ask \in S THEN SmpCancel(x, ask) ELSE x
             K == IF bid \in S THEN WithSibling(b, bid) ELSE {}
             L == IF ask \in S THEN WithSibling(b, ask) ELSE {}
  <2>1. c = y
    BY <1>2 DEF ResolveSelfMatch
  <2>2. S \subseteq {bid, ask}
    BY <1>2, SmpCancelsOne DEF SelfMatched
  <2>3. PulledBy(b, bid, ask) = K \cup L
    BY <1>2, <2>2 DEF PulledBy
  <2> HIDE DEF S
  <2>4. Thinned(b, b) /\ Leaves(b, b, {})
    BY DEF Thinned, Leaves
  <2>5. Leaves(b, x, K) /\ Sound(x) /\ Thinned(b, x) /\ Paired(x) /\ Together(x)
    BY <2>4, SmpCancelLeaves
  <2>6. ask \notin K
    BY <1>2, SiblingIsTwin
  <2>7. x.ord[ask].place = "book"
    BY <2>5, <2>6 DEF Leaves
  <2> HIDE DEF x, K
  <2>8. Static(b, x)
    BY <2>5, ThinnedStatic
  <2>9. WithSibling(x, ask) = WithSibling(b, ask)
    BY <2>8, StaticRules
  <2>10. Thinned(x, x) /\ Leaves(x, x, {})
    BY DEF Thinned, Leaves
  <2>11. Leaves(x, y, L) /\ Sound(y) /\ Thinned(x, y) /\ Paired(y) /\ Together(y)
    BY <2>5, <2>7, <2>9, <2>10, SmpCancelLeaves
  <2> HIDE DEF y, L
  <2>12. Leaves(b, y, K \cup L) /\ Thinned(b, y)
    BY <2>5, <2>11, LeavesTwice, ThinnedTransitive
  <2>13. QED
    BY <2>1, <2>3, <2>11, <2>12
<1>3. QED
  BY <1>1, <1>2

-----------------------------------------------------------------------------
(***************************************************************************)
(* A fill in the walk of the book.                                         *)
(***************************************************************************)
LEMMA ReduceTerms ==
  ASSUME NEW b, Sound(b), NEW i \in Ids, NEW q \in Nat \ {0},
         b.ord[i].place = "book", q <= b.ord[i].rem, q <= Slice(b.ord[i])
  PROVE  LET c == Reduce(b, i, q)
             o == b.ord[i]
             n == c.ord[i]
         IN  /\ Sound(c) /\ c.live = b.live /\ Static(b, c)
             /\ \A j \in Ids \ {i} : c.ord[j] = b.ord[j]
             /\ n.rem = o.rem - q /\ (n.place = "book" <=> o.rem # q)
             /\ n.status = IF n.rem = 0 THEN "FILLED" ELSE "PARTIAL"
             /\ o.rem > q /\ Slice(o) = q =>
                  /\ n.seq = b.seq + 1 /\ c.seq = b.seq + 1
                  /\ Slice(n) = Least(o.peak, o.rem - q)
             /\ o.rem > q /\ Slice(o) # q =>
                  n.seq = o.seq /\ c.seq = b.seq /\ Slice(n) = Slice(o) - q
             /\ o.rem = q => c.seq = b.seq
<1> DEFINE c == Reduce(b, i, q)
           o == b.ord[i]
           n == c.ord[i]
<1>1. /\ Sound(c) /\ OthersSame(b, c, i) /\ SameOrder(o, n) /\ c.live = b.live
      /\ n.kind = o.kind /\ n.price = o.price /\ n.rem = o.rem - q
      /\ n.status = IF n.rem = 0 THEN "FILLED" ELSE "PARTIAL"
      /\ n.place = IF n.rem = 0 THEN "none" ELSE o.place
  <2>1. b.ord[i].status \in Working
    BY DEF Sound, OrderSound
  <2>2. QED
    BY <2>1, ReduceSound
<1>2. /\ o \in Order /\ o.rem \in Nat /\ o.shown \in Nat /\ b.seq \in Nat
      /\ (o.kind # "ICEBERG" => Slice(o) = o.rem) /\ (o.kind = "ICEBERG" => Slice(o) = o.shown)
      /\ b.ord \in [Ids -> Order]
  BY DEF Sound, Book, Order, Slice
<1>3. /\ n.peak = o.peak
      /\ n.seq = IF Refills(o, q) THEN b.seq + 1 ELSE o.seq
      /\ c.seq = IF Refills(o, q) THEN b.seq + 1 ELSE b.seq
      /\ n.shown = IF Refills(o, q) THEN Least(o.peak, o.rem - q)
                   ELSE IF o.kind = "ICEBERG" THEN Minus(o.shown, q) ELSE o.shown
  BY <1>2 DEF Reduce, Order, Book, Sound
<1>4. Refills(o, q) <=> o.kind = "ICEBERG" /\ o.rem > q /\ o.shown = q
  BY <1>2 DEF Refills
<1> HIDE DEF c
<1>5. Static(b, c)
  <2>1. \A j \in Ids : SameTerms(b.ord[j], b.ord[j])
    BY DEF SameTerms, SameOrder
  <2>2. SameTerms(o, n)
    BY <1>1, <1>3 DEF SameTerms
  <2>3. QED
    BY <1>1, <2>1, <2>2 DEF Static, OthersSame
<1>6. \A j \in Ids \ {i} : c.ord[j] = b.ord[j]
  BY <1>1 DEF OthersSame
<1> HIDE DEF n
<1>7. /\ o.rem > q /\ Slice(o) = q =>
           /\ n.seq = b.seq + 1 /\ c.seq = b.seq + 1
           /\ Slice(n) = Least(o.peak, o.rem - q)
      /\ o.rem > q /\ Slice(o) # q =>
           n.seq = o.seq /\ c.seq = b.seq /\ Slice(n) = Slice(o) - q
      /\ o.rem = q => c.seq = b.seq
  <2>1. CASE o.kind = "ICEBERG"
    <3>1. Slice(n) = n.shown /\ Slice(o) = o.shown
      BY <1>1, <2>1 DEF Slice
    <3>2. ~Refills(o, q) => n.shown = o.shown - q
      BY <1>2, <1>3, <2>1, <3>1 DEF Minus
    <3>3. QED
      BY <1>2, <1>3, <1>4, <2>1, <3>1, <3>2
  <2>2. CASE o.kind # "ICEBERG"
    <3>1. Slice(n) = n.rem /\ Slice(o) = o.rem
      BY <1>1, <2>2 DEF Slice
    <3>2. QED
      BY <1>1, <1>2, <1>3, <1>4, <2>2, <3>1
  <2>3. QED
    BY <2>1, <2>2
<1>8. QED
  BY <1>1, <1>2, <1>5, <1>6, <1>7 DEF c, n

\* Arrival numbers stay below the counter and apart.
Sequenced(b) == Numbered(b) /\ Ranked(b)

LEMMA ReduceSequenced ==
  ASSUME NEW b, Sound(b), Sequenced(b), NEW i \in Ids, NEW q \in Nat \ {0},
         b.ord[i].place = "book", q <= b.ord[i].rem, q <= Slice(b.ord[i])
  PROVE  Sequenced(Reduce(b, i, q)) /\ Reduce(b, i, q).seq >= b.seq
<1> DEFINE c == Reduce(b, i, q)
<1>1. /\ Numbered(c) /\ OthersSame(b, c, i)
      /\ c.seq = IF Refills(b.ord[i], q) THEN b.seq + 1 ELSE b.seq
      /\ c.ord[i].seq = IF Refills(b.ord[i], q) THEN b.seq + 1 ELSE b.ord[i].seq
  BY ReduceNumbers DEF Sequenced
<1>2. b.seq \in Nat /\ \A j \in Ids : b.ord[j].seq \in Nat /\ b.ord[j].seq <= b.seq
  BY DEF Sound, Book, Order, Sequenced, Numbered
<1> HIDE DEF c
<1>3. ASSUME NEW j \in Ids, NEW k \in Ids, j # k, c.ord[j].place = "book", c.ord[k].place = "book"
      PROVE  c.ord[j].seq # c.ord[k].seq
  <2>1. \A l \in {j, k} : b.ord[l].place = "book" /\ (l # i => c.ord[l].seq = b.ord[l].seq)
    BY <1>1, <1>3 DEF OthersSame
  <2>2. b.ord[j].seq # b.ord[k].seq
    BY <1>3, <2>1 DEF Sequenced, Ranked
  <2>3. QED
    BY <1>1, <1>2, <1>3, <2>1, <2>2
<1>4. Ranked(c)
  BY <1>3 DEF Ranked
<1>5. QED
  BY <1>1, <1>2, <1>4 DEF Sequenced, c

LEMMA ThinnedSequenced ==
  ASSUME NEW b, Sound(b), Sequenced(b), NEW c, Thinned(b, c)
  PROVE  Sequenced(c)
<1>1. Numbered(c) /\ \A i \in Ids : c.ord[i].seq = b.ord[i].seq
                                   /\ c.ord[i].place \in {b.ord[i].place, "none"}
  <2>1. Numbered(c)
    BY ThinnedStill DEF Sequenced
  <2>2. ASSUME NEW i \in Ids
        PROVE  c.ord[i].seq = b.ord[i].seq /\ c.ord[i].place \in {b.ord[i].place, "none"}
    <3>1. b.ord[i] \in Order
      BY DEF Sound, Book
    <3>2. CASE c.ord[i] = b.ord[i]
      BY <3>2
    <3>3. CASE c.ord[i] = Withdrawn1(b.ord[i])
      BY <3>1, <3>3 DEF Withdrawn1, Order
    <3>4. QED
      BY <3>2, <3>3 DEF Thinned
  <2>3. QED
    BY <2>1, <2>2
<1>2. Ranked(c)
  BY <1>1 DEF Sequenced, Ranked
<1>3. QED
  BY <1>1, <1>2 DEF Sequenced

\* What is left of a resting order, and its place in the queue, after it
\* traded q.
Took(b, o, n, q, top) ==
  /\ n.rem = o.rem - q /\ (n.place = "book" <=> o.rem # q)
  /\ o.rem > q /\ Slice(o) = q =>
       n.seq > b.seq /\ n.seq <= top /\ Slice(n) = Least(o.peak, o.rem - q)
  /\ o.rem > q /\ Slice(o) # q => n.seq = o.seq /\ Slice(n) = Slice(o) - q

\* The orders that a fill of q takes out of the walk.
FilledBy(b, bid, ask, q) ==
  UNION {WithSibling(b, i) : i \in {j \in {bid, ask} : b.ord[j].rem - q = 0}}

LEMMA FillLeaves ==
  ASSUME NEW b, Sound(b), Paired(b), Together(b), Sequenced(b),
         NEW bid \in Ids, NEW ask \in Ids, bid # ask,
         b.ord[bid].place = "book", b.ord[ask].place = "book", ~SelfMatched(b, bid, ask)
  PROVE  LET q    == Least(Slice(b.ord[bid]), Slice(b.ord[ask]))
             d    == Reduce(Reduce(b, bid, q), ask, q)
             f    == FillBoth(b, bid, ask)
         IN  /\ q \in Nat \ {0} /\ q <= b.ord[bid].rem /\ q <= b.ord[ask].rem
             /\ \A i \in Ids \ {bid, ask} : d.ord[i] = b.ord[i]
             /\ \A i \in {bid, ask} : Took(b, b.ord[i], d.ord[i], q, f.seq)
             /\ Leaves(d, f, FilledBy(b, bid, ask, q))
             /\ f.ord[bid].rem = b.ord[bid].rem - q
             /\ f.seq \in Nat /\ f.seq >= b.seq
             /\ Sound(f) /\ Static(b, f) /\ Paired(f) /\ Together(f) /\ Sequenced(f)
<1> DEFINE q    == Least(Slice(b.ord[bid]), Slice(b.ord[ask]))
           c    == Reduce(b, bid, q)
           d    == Reduce(c, ask, q)
           e    == OcoLegEnded(d, ask)
           f    == OcoLegEnded(e, bid)
           K(i) == IF b.ord[i].rem = q THEN WithSibling(b, i) ELSE {}
<1>1. FillBoth(b, bid, ask) = f
  BY DEF FillBoth
<1>2. /\ q \in Nat \ {0}
      /\ \A i \in {bid, ask} : q <= Slice(b.ord[i]) /\ q <= b.ord[i].rem /\ b.ord[i].rem \in Nat
  <2>1. \A i \in {bid, ask} : b.ord[i].rem \in Nat /\ Slice(b.ord[i]) \in 1 .. b.ord[i].rem
    BY DEF Sound, Book, Order, OrderSound
  <2>2. QED
    BY <2>1 DEF Least
<1> HIDE DEF q
<1>3. /\ Sound(c) /\ c.live = b.live /\ Static(b, c)
      /\ \A j \in Ids \ {bid} : c.ord[j] = b.ord[j]
      /\ Took(b, b.ord[bid], c.ord[bid], q, c.seq)
      /\ c.ord[bid].status = IF c.ord[bid].rem = 0 THEN "FILLED" ELSE "PARTIAL"
      /\ b.seq \in Nat
  <2>1. b.seq \in Nat
    BY DEF Sound, Book
  <2>2. QED
    BY <1>2, <2>1, ReduceTerms DEF Took
<1>4. Sequenced(c) /\ c.seq >= b.seq
  BY <1>2, ReduceSequenced
<1>5. c.ord[ask] = b.ord[ask]
  BY <1>3
<1> HIDE DEF c
<1>6. c.seq \in Nat
  BY <1>3 DEF Sound, Book
<1>7. /\ Sound(d) /\ d.live = c.live /\ Static(c, d)
      /\ \A j \in Ids \ {ask} : d.ord[j] = c.ord[j]
      /\ Took(c, c.ord[ask], d.ord[ask], q, d.seq)
      /\ d.ord[ask].status = IF d.ord[ask].rem = 0 THEN "FILLED" ELSE "PARTIAL"
  BY <1>2, <1>3, <1>5, <1>6, ReduceTerms DEF Took
<1>8. Sequenced(d) /\ d.seq >= c.seq
  BY <1>2, <1>3, <1>4, <1>5, ReduceSequenced
<1> HIDE DEF d
<1>9. /\ d.seq \in Nat
  BY <1>7 DEF Sound, Book
<1>10. Static(b, d) /\ Paired(d) /\ d.live = b.live
  BY <1>3, <1>7, StaticTransitive, StaticPaired
<1>11. /\ \A i \in Ids \ {bid, ask} : d.ord[i] = b.ord[i]
       /\ d.ord[bid] = c.ord[bid]
       /\ \A i \in {bid, ask} : /\ Took(b, b.ord[i], d.ord[i], q, d.seq)
                                /\ d.ord[i].status = IF b.ord[i].rem = q THEN "FILLED" ELSE "PARTIAL"
  <2>1. \A i \in Ids \ {bid, ask} : d.ord[i] = b.ord[i]
    BY <1>3, <1>7
  <2>2. d.ord[bid] = c.ord[bid]
    BY <1>7
  <2>3. \A i \in Ids : d.ord[i].seq \in Nat
    BY <1>7 DEF Sound, Book, Order
  <2>4. Took(b, b.ord[bid], d.ord[bid], q, d.seq)
    BY <1>3, <1>6, <1>8, <1>9, <2>2, <2>3 DEF Took
  <2>5. Took(b, b.ord[ask], d.ord[ask], q, d.seq)
    BY <1>3, <1>4, <1>5, <1>6, <1>7, <2>3 DEF Took
  <2>6. \A i \in {bid, ask} : d.ord[i].status = IF b.ord[i].rem = q THEN "FILLED" ELSE "PARTIAL"
    BY <1>2, <1>3, <1>7, <2>2, <2>4, <2>5 DEF Took
  <2>7. QED
    BY <2>1, <2>2, <2>4, <2>5, <2>6
<1>12. ASSUME NEW i \in {bid, ask}
       PROVE  /\ Sibling(d, i) = Sibling(b, i) /\ WithSibling(d, i) = WithSibling(b, i)
              /\ d.ord[i].bond = b.ord[i].bond /\ d.ord[i].group = b.ord[i].group
              /\ b.ord[i].bond = "oco" => Sibling(b, i) \in Ids \ {bid, ask}
  <2>1. /\ Sibling(d, i) = Sibling(b, i) /\ WithSibling(d, i) = WithSibling(b, i)
        /\ d.ord[i].bond = b.ord[i].bond /\ d.ord[i].group = b.ord[i].group
    BY <1>10, StaticRules DEF Static, SameTerms, SameOrder
  <2>2. ~Twins(b, bid, ask) /\ ~Twins(b, ask, bid)
    BY DEF SelfMatched, Twins
  <2>3. b.ord[i].bond = "oco" =>
          /\ Sibling(b, i) \in Ids /\ Sibling(b, i) # i /\ Sibling(b, i) \in WithSibling(b, i)
    BY Siblings DEF WithSibling
  <2>4. QED
    BY <2>1, <2>2, <2>3, SiblingIsTwin
<1>13. ASSUME NEW i \in {bid, ask}, d.ord[i].bond = "oco", d.ord[Sibling(d, i)].place = "book"
       PROVE  d.ord[i].group \in b.live
  <2>1. b.ord[i].bond = "oco" /\ b.ord[Sibling(b, i)].place = "book"
    BY <1>11, <1>12, <1>13
  <2>2. QED
    BY <1>12, <2>1 DEF Together
<1>14. /\ Leaves(d, e, K(ask)) /\ Sound(e) /\ Thinned(d, e) /\ Paired(e)
       /\ e.live = d.live \/ (d.ord[ask].bond = "oco" /\ e.live = d.live \ {d.ord[ask].group})
  <2>1. CASE b.ord[ask].rem = q
    BY <1>7, <1>10, <1>11, <1>12, <1>13, <2>1, HookLeaves DEF Dead
  <2>2. CASE b.ord[ask].rem # q
    <3>1. e = d
      BY <1>11, <2>2 DEF OcoLegEnded, Dead
    <3>2. Leaves(d, d, {}) /\ Thinned(d, d)
      BY DEF Leaves, Thinned
    <3>3. QED
      BY <1>7, <1>10, <2>2, <3>1, <3>2
  <2>3. QED
    BY <2>1, <2>2
<1> HIDE DEF e
<1>15. /\ Static(d, e) /\ e.ord[bid] = d.ord[bid]
       /\ Sibling(e, bid) = Sibling(b, bid) /\ WithSibling(e, bid) = WithSibling(b, bid)
  <2>1. Static(d, e)
    BY <1>7, <1>14, ThinnedStatic
  <2>2. bid \notin K(ask)
    <3>1. ~Twins(b, ask, bid)
      BY DEF SelfMatched, Twins
    <3>2. QED
      BY <3>1, SiblingIsTwin
  <2>3. e.ord[bid] = d.ord[bid]
    <3>1. CASE d.ord[bid].place = "book"
      BY <1>14, <2>2, <3>1 DEF Leaves
    <3>2. CASE d.ord[bid].place # "book"
      <4>1. d.ord[bid].status \in Dead
        BY <1>2, <1>11, <3>2 DEF Took, Dead
      <4>2. QED
        BY <1>7, <1>14, <4>1, ThinnedTies
    <3>3. QED
      BY <3>1, <3>2
  <2>4. Sibling(e, bid) = Sibling(d, bid) /\ WithSibling(e, bid) = WithSibling(d, bid)
    BY <2>1, StaticRules
  <2>5. QED
    BY <1>12, <2>1, <2>3, <2>4
<1>16. e.ord[bid].bond = "oco" /\ e.ord[Sibling(e, bid)].place = "book" => e.ord[bid].group \in e.live
  <2>1. SUFFICES ASSUME e.ord[bid].bond = "oco", e.ord[Sibling(e, bid)].place = "book"
                 PROVE  e.ord[bid].group \in e.live
    OBVIOUS
  <2>2. /\ d.ord[bid].bond = "oco" /\ b.ord[bid].bond = "oco"
        /\ Sibling(b, bid) \in Ids \ {bid, ask}
        /\ d.ord[Sibling(b, bid)].place = "book"
    BY <1>12, <1>14, <1>15, <2>1 DEF Leaves
  <2>3. d.ord[bid].group \in d.live
    BY <1>10, <1>12, <1>13, <2>2
  <2>4. ~(d.ord[ask].bond = "oco" /\ d.ord[ask].group = d.ord[bid].group)
    BY <1>12, <2>2 DEF SelfMatched, Twins
  <2>5. QED
    BY <1>14, <1>15, <2>3, <2>4
<1>17. /\ Leaves(e, f, K(bid)) /\ Sound(f) /\ Thinned(e, f) /\ Paired(f)
       /\ f.live = e.live \/ (d.ord[bid].bond = "oco" /\ f.live = e.live \ {d.ord[bid].group})
  <2>1. CASE b.ord[bid].rem = q
    BY <1>11, <1>14, <1>15, <1>16, <2>1, HookLeaves DEF Dead
  <2>2. CASE b.ord[bid].rem # q
    <3>1. f = e
      BY <1>11, <1>15, <2>2 DEF OcoLegEnded, Dead
    <3>2. Leaves(e, e, {}) /\ Thinned(e, e)
      BY DEF Leaves, Thinned
    <3>3. QED
      BY <1>14, <2>2, <3>1, <3>2
  <2>3. QED
    BY <2>1, <2>2
<1> HIDE DEF f
<1>18. /\ Leaves(d, f, K(ask) \cup K(bid)) /\ Thinned(d, f) /\ f.seq = d.seq
       /\ Static(d, f) /\ Static(b, f)
  <2>1. Leaves(d, f, K(ask) \cup K(bid))
    <3> HIDE DEF K
    <3>1. QED
      BY <1>14, <1>17, LeavesTwice
  <2>2. Thinned(d, f)
    BY <1>7, <1>14, <1>17, ThinnedTransitive
  <2>3. f.seq = d.seq
    BY <2>2 DEF Thinned
  <2>4. Static(d, f)
    BY <1>7, <2>2, ThinnedStatic
  <2>5. Static(b, f)
    BY <1>10, <2>4, StaticTransitive
  <2>6. QED
    BY <2>1, <2>2, <2>3, <2>4, <2>5
<1>19. Sequenced(f)
  BY <1>7, <1>8, <1>18, ThinnedSequenced
<1>20. f.ord[bid].rem = b.ord[bid].rem - q
  BY <1>7, <1>11, <1>18, ThinnedFields DEF Took
<1>21. FilledBy(b, bid, ask, q) = K(ask) \cup K(bid)
  <2>1. \A i \in {bid, ask} : b.ord[i].rem - q = 0 <=> b.ord[i].rem = q
    BY <1>2
  <2>2. QED
    BY <2>1 DEF FilledBy
<1>22. Together(f)
  <2>1. SUFFICES ASSUME NEW j \in Ids, f.ord[j].bond = "oco", f.ord[j].place = "book",
                        f.ord[Sibling(f, j)].place = "book"
                 PROVE  f.ord[j].group \in f.live
    BY DEF Together
  <2>2. b.ord[j].bond = "oco" /\ b.ord[j].group = f.ord[j].group /\ Sibling(f, j) = Sibling(b, j)
    <3>1. Static(b, f)
      BY <1>18
    <3>2. SameTerms(b.ord[j], f.ord[j])
      BY <3>1 DEF Static
    <3>3. Sibling(f, j) = Sibling(b, j)
      BY <3>1, StaticRules
    <3>4. QED
      BY <2>1, <3>2, <3>3 DEF SameTerms, SameOrder
  <2>3. /\ Sibling(b, j) \in Ids /\ b.ord[j].group \in Nat
        /\ {j, Sibling(b, j)} = {b.ord[j].group, b.ord[j].group + 1}
    BY <2>2, Siblings
  <2>4. \A i \in Ids : f.ord[i].place = "book" => /\ b.ord[i].place = "book"
                                                 /\ i \notin K(ask) \cup K(bid)
    BY <1>11, <1>18 DEF Leaves
  <2>5. b.ord[j].group \in b.live
    BY <2>1, <2>2, <2>3, <2>4 DEF Together
  <2>6. SUFFICES ASSUME NEW i \in {bid, ask}, d.ord[i].bond = "oco",
                        d.ord[i].group = b.ord[j].group,
                        f.live # d.live, b.ord[i].rem = q
                 PROVE  FALSE
    <3>1. b.ord[ask].rem # q => e = d
      BY <1>11 DEF OcoLegEnded, Dead, e
    <3>2. b.ord[bid].rem # q => f = e
      BY <1>11, <1>15 DEF OcoLegEnded, Dead, f
    <3>3. QED
      BY <1>10, <1>14, <1>17, <2>2, <2>5, <3>1, <3>2
  <2>7. b.ord[i].bond = "oco" /\ b.ord[i].group = b.ord[j].group
    BY <1>12, <2>6
  <2>8. /\ WithSibling(b, i) = {i, Sibling(b, i)}
        /\ {i, Sibling(b, i)} = {b.ord[i].group, b.ord[i].group + 1}
    BY <2>7, Siblings DEF WithSibling
  <2>9. j \in K(i)
    BY <2>3, <2>6, <2>7, <2>8
  <2>10. QED
    BY <2>1, <2>4, <2>9
<1>23. f.seq \in Nat /\ f.seq >= b.seq
  BY <1>3, <1>4, <1>6, <1>8, <1>9, <1>18
<1>24. Leaves(d, f, FilledBy(b, bid, ask, q))
  BY <1>18, <1>21
<1>25. \A i \in {bid, ask} : Took(b, b.ord[i], d.ord[i], q, f.seq)
  BY <1>11, <1>18
<1>26. d = Reduce(Reduce(b, bid, q), ask, q)
  BY DEF c, d
<1>27. q = Least(Slice(b.ord[bid]), Slice(b.ord[ask]))
  BY DEF q
<1> HIDE DEF K
<1>28. QED
  BY <1>1, <1>2, <1>11, <1>17, <1>18, <1>19, <1>20, <1>22, <1>23, <1>24, <1>25, <1>26, <1>27

-----------------------------------------------------------------------------
(***************************************************************************)
(* The heads of the book and the heads of its copy.                        *)
(***************************************************************************)
Walkable(b) == Sound(b) /\ Paired(b) /\ Together(b) /\ Sequenced(b)

\* b is what a walk has left of b0.
From(b0, b) ==
  Static(b0, b) /\ \A i \in Ids : b.ord[i].place = "book" => b0.ord[i].place = "book"

Among(b, p) == Crossing(b, "BUY", p) \cup Crossing(b, "SELL", p)

\* Copy d of book b0 stands where book b does, for what crosses at p.
Mirrors(b0, b, p, d) ==
  /\ \A i \in Ids : d.left[i] = IF i \in Among(b, p) THEN b.ord[i].rem ELSE 0
  /\ \A i \in Among(b, p) : d.shown[i] = Slice(b.ord[i]) /\ d.turn[i] < d.next
  /\ \A i, j \in Among(b, p) : b.ord[i].side = b.ord[j].side =>
        (d.turn[i] < d.turn[j] <=> b.ord[i].seq < b.ord[j].seq)

LEMMA Rests ==
  ASSUME NEW b, Sound(b), NEW i \in Ids, b.ord[i].place = "book"
  PROVE  /\ b.ord[i].rem \in Nat \ {0} /\ Slice(b.ord[i]) \in 1 .. b.ord[i].rem
         /\ b.ord[i].price \in Prices /\ b.ord[i].price \in Nat /\ b.ord[i].price # NoPrice
         /\ b.ord[i].side \in Sides /\ b.ord[i].seq \in Nat /\ b.seq \in Nat
<1>1. b.ord[i] \in Order /\ OrderSound(b.ord[i]) /\ b.seq \in Nat
  BY DEF Sound, Book
<1>2. b.ord[i].kind \in Restable /\ b.ord[i].status \in Working
  BY <1>1 DEF OrderSound
<1>3. b.ord[i].price \in Prices /\ Slice(b.ord[i]) \in 1 .. b.ord[i].rem
  BY <1>1, <1>2 DEF OrderSound, Restable
<1>4. b.ord[i].price \in Nat /\ b.ord[i].price # NoPrice
  BY <1>3, PricesAssumption
<1>5. b.ord[i].rem \in Nat \ {0} /\ b.ord[i].side \in Sides /\ b.ord[i].seq \in Nat
  BY <1>1, <1>2 DEF OrderSound, Order
<1>6. QED
  BY <1>1, <1>3, <1>4, <1>5

LEMMA Crosses ==
  ASSUME NEW b, Sound(b), NEW p \in Prices, NEW i \in Ids
  PROVE  /\ i \in Crossing(b, "BUY", p) <=> i \in Bids(b) /\ b.ord[i].price >= p
         /\ i \in Crossing(b, "SELL", p) <=> i \in Asks(b) /\ b.ord[i].price <= p
         /\ i \in Among(b, p) => b.ord[i].place = "book"
         /\ \A s \in Sides : i \in Crossing(b, s, p) <=> i \in Among(b, p) /\ b.ord[i].side = s
<1>1. p \in Nat /\ p # NoPrice
  BY PricesAssumption
<1>2. QED
  BY <1>1 DEF Crossing, Within, Opposite, Resting, Bids, Asks, Among, Sides

\* A side that is not empty has a head.
LEMMA HeadExists ==
  ASSUME NEW b, Sound(b), NEW s \in Sides, Resting(b, s) # {}
  PROVE  \E i \in Ids : IsHead(b, i, s)
<1> DEFINE S == Resting(b, s)
           R == {c \in Ids \X Ids : Ahead(b, c[1], c[2])}
<1>1. S \subseteq Ids /\ \A i \in S : b.ord[i].side = s /\ b.ord[i].price \in Nat /\ b.ord[i].seq \in Nat
  BY Rests DEF Resting
<1>2. \A i, j \in Ids : <<i, j>> \in R <=> Ahead(b, i, j)
  OBVIOUS
<1>3. \A i, j \in S : Ahead(b, i, j) <=> \/ Better(s, b.ord[i].price, b.ord[j].price)
                                         \/ b.ord[i].price = b.ord[j].price /\ b.ord[i].seq < b.ord[j].seq
  BY <1>1 DEF Ahead
<1> HIDE DEF S
<1>4. \A i \in S : ~Ahead(b, i, i)
  BY <1>1, <1>3 DEF Better
<1>5. \A i, j, k \in S : Ahead(b, i, j) /\ Ahead(b, j, k) => Ahead(b, i, k)
  BY <1>1, <1>3 DEF Better
<1>6. R \in SUBSET (Ids \X Ids)
  OBVIOUS
<1> HIDE DEF R
<1>7. PICK i \in S : \A j \in S : <<j, i>> \notin R
  <2>1. S \in SUBSET Ids /\ S # {}
    BY <1>1 DEF S
  <2>2. \A i \in S : <<i, i>> \notin R
    BY <1>1, <1>2, <1>4
  <2>3. \A i, j, k \in S : <<i, j>> \in R /\ <<j, k>> \in R => <<i, k>> \in R
    BY <1>1, <1>2, <1>5
  <2>4. QED
    BY <1>6, <2>1, <2>2, <2>3, FirstExists
<1>8. QED
  BY <1>1, <1>2, <1>7 DEF IsHead, IsBest, S

\* The head crosses whatever anything on its side does.
LEMMA HeadCrosses ==
  ASSUME NEW b, Sound(b), NEW p \in Prices, NEW s \in Sides, NEW i, IsHead(b, i, s),
         NEW j \in Crossing(b, s, p)
  PROVE  i \in Crossing(b, s, p)
<1>1. i \in Resting(b, s) /\ (j # i => ~Ahead(b, j, i))
  BY DEF IsHead, IsBest, Crossing
<1>2. \A k \in {i, j} : /\ k \in Ids /\ b.ord[k].place = "book" /\ b.ord[k].side = s
                        /\ b.ord[k].price \in Nat /\ b.ord[k].seq \in Nat
  BY <1>1, Rests DEF Crossing, Resting
<1>3. CASE j = i
  BY <1>3
<1>4. CASE j # i
  <2>1. ~Better(s, b.ord[j].price, b.ord[i].price)
    BY <1>1, <1>2, <1>4 DEF Ahead
  <2>2. p \in Nat
    BY PricesAssumption
  <2>3. QED
    BY <1>1, <1>2, <2>1, <2>2, Crosses DEF Sides, Better, Bids, Asks
<1>5. QED
  BY <1>3, <1>4

\* What crosses on both sides, meets at the heads.
LEMMA CrossingMeets ==
  ASSUME NEW b, Sound(b), NEW p \in Prices,
         Crossing(b, "BUY", p) # {}, Crossing(b, "SELL", p) # {}
  PROVE  \E bid, ask \in Ids : Meet(b, bid, ask, p)
<1>1. \A s \in Sides : Crossing(b, s, p) \subseteq Resting(b, s)
  BY DEF Crossing
<1>2. /\ \E bid \in Ids : IsHead(b, bid, "BUY")
      /\ \E ask \in Ids : IsHead(b, ask, "SELL")
  BY <1>1, HeadExists DEF Sides
<1>3. QED
  BY <1>2, HeadCrosses DEF Meet, Heads, Sides

LEMMA MirrorLive ==
  ASSUME NEW b0, Sound(b0), NEW b, Sound(b), Static(b0, b), NEW p \in Prices,
         NEW d, Mirrors(b0, b, p, d), NEW s \in Sides
  PROVE  DryLive(b0, d, s) = Crossing(b, s, p)
<1>1. ASSUME NEW i \in Ids
      PROVE  d.left[i] > 0 <=> i \in Among(b, p)
  <2>1. i \in Among(b, p) => b.ord[i].rem > 0
    BY Crosses, Rests
  <2>2. QED
    BY <2>1 DEF Mirrors
<1>2. \A i \in Ids : b0.ord[i].side = b.ord[i].side
  BY DEF Static, SameTerms, SameOrder
<1>3. \A i \in Ids : i \in Crossing(b, s, p) <=> i \in Among(b, p) /\ b.ord[i].side = s
  BY Crosses
<1>4. Crossing(b, s, p) \subseteq Ids
  BY DEF Crossing, Resting
<1>5. QED
  BY <1>1, <1>2, <1>3, <1>4 DEF DryLive

\* _head finds the head of the book.
LEMMA MirrorHead ==
  ASSUME NEW b0, Sound(b0), NEW b, Walkable(b), Static(b0, b), NEW p \in Prices,
         NEW d \in DryState(b0), Mirrors(b0, b, p, d), NEW s \in Sides,
         NEW i \in Crossing(b, s, p), IsHead(b, i, s)
  PROVE  DryHead(b0, d, s) = i
<1> DEFINE L == DryLive(b0, d, s)
           k == DryHead(b0, d, s)
<1>1. Sound(b) /\ Ranked(b)
  BY DEF Walkable, Sequenced
<1>2. L = Crossing(b, s, p)
  BY <1>1, MirrorLive
<1>3. DryFirst(b0, d, k, s)
  BY <1>2, DryHeadExists
<1> HIDE DEF k
<1>4. ASSUME k # i PROVE FALSE
  <2>1. k \in Crossing(b, s, p) /\ k \in Resting(b, s)
    BY <1>2, <1>3 DEF DryFirst, Crossing
  <2>2. \A j \in {i, k} : /\ j \in Ids /\ b.ord[j].place = "book" /\ b.ord[j].side = s
                          /\ b.ord[j].price \in Nat /\ b.ord[j].seq \in Nat
                          /\ b0.ord[j].price = b.ord[j].price
                          /\ j \in Among(b, p) /\ d.turn[j] \in Nat
    <3>1. \A j \in {i, k} : j \in Ids /\ b.ord[j].place = "book" /\ b.ord[j].side = s
      BY <2>1 DEF Crossing, Resting
    <3>2. d.turn \in [Ids -> Nat]
      BY DEF DryState
    <3>3. QED
      BY <1>1, <2>1, <3>1, <3>2, Rests DEF Static, SameTerms, Among, Sides
  <2>3. ~Ahead(b, k, i)
    BY <1>4, <2>1 DEF IsHead, IsBest
  <2>4. b.ord[i].seq # b.ord[k].seq
    BY <1>1, <1>4, <2>2 DEF Ranked
  <2>5. \/ Better(s, b.ord[k].price, b.ord[i].price)
        \/ b.ord[k].price = b.ord[i].price /\ d.turn[k] <= d.turn[i]
    BY <1>2, <1>3, <2>2 DEF DryFirst
  <2>6. d.turn[i] < d.turn[k] <=> b.ord[i].seq < b.ord[k].seq
    BY <2>2 DEF Mirrors
  <2>7. QED
    BY <2>2, <2>3, <2>4, <2>5, <2>6 DEF Ahead
<1>5. QED
  BY <1>4 DEF k

\* The dry run is over where the walk is.
LEMMA MirrorOver ==
  ASSUME NEW b0, Sound(b0), NEW b, Sound(b), Static(b0, b), NEW p \in Prices,
         NEW d, Mirrors(b0, b, p, d)
  PROVE  DryOver(b0, d) <=> ~\E bid, ask \in Ids : Meet(b, bid, ask, p)
<1>1. DryLive(b0, d, "BUY") = Crossing(b, "BUY", p) /\ DryLive(b0, d, "SELL") = Crossing(b, "SELL", p)
  BY MirrorLive DEF Sides
<1>2. QED
  BY <1>1, CrossingMeets DEF DryOver, Meet

LEMMA MirrorStart ==
  ASSUME NEW b, Walkable(b), NEW p \in Prices
  PROVE  /\ Mirrors(b, b, p, DryStart(b, p)) /\ From(b, b)
<1>1. Sound(b) /\ Numbered(b)
  BY DEF Walkable, Sequenced
<1>2. DryStart(b, p) =
        [left  |-> [i \in Ids |-> IF i \in Among(b, p) THEN b.ord[i].rem ELSE 0],
         shown |-> [i \in Ids |-> IF i \in Among(b, p) THEN Slice(b.ord[i]) ELSE 0],
         turn  |-> [i \in Ids |-> b.ord[i].seq],
         next  |-> b.seq + 1,
         qty   |-> 0]
  BY DEF DryStart, Among
<1>3. Among(b, p) \subseteq Ids
  BY DEF Among, Crossing, Resting
<1>4. \A i \in Ids : b.ord[i].seq < b.seq + 1
  <2>1. \A i \in Ids : b.ord[i].seq \in Nat /\ b.seq \in Nat /\ b.ord[i].seq <= b.seq
    BY <1>1 DEF Sound, Book, Order, Numbered
  <2>2. QED
    BY <2>1
<1>5. Mirrors(b, b, p, DryStart(b, p))
  BY <1>2, <1>3, <1>4 DEF Mirrors
<1>6. From(b, b)
  BY DEF From, Static, SameTerms, SameOrder
<1>7. QED
  BY <1>5, <1>6

-----------------------------------------------------------------------------
(***************************************************************************)
(* One pass of the walk and one of the dry run.                            *)
(***************************************************************************)

\* Orders leave the book, and have nothing left in the copy.
LEMMA MirrorLeaves ==
  ASSUME NEW b0, NEW b, Sound(b), NEW c, Sound(c), NEW K, Leaves(b, c, K), NEW p \in Prices,
         NEW d \in DryState(b0), Mirrors(b0, b, p, d)
  PROVE  Mirrors(b0, c, p, DryKill(d, K))
<1> DEFINE e == DryKill(d, K)
<1>1. /\ \A i \in Ids : e.left[i] = IF i \in K THEN 0 ELSE d.left[i]
      /\ e.shown = d.shown /\ e.turn = d.turn /\ e.next = d.next
  BY DEF DryKill, DryState
<1> HIDE DEF e
<1>2. ASSUME NEW i \in Ids
      PROVE  /\ i \in Among(c, p) <=> i \in Among(b, p) /\ i \notin K
             /\ i \in Among(c, p) => c.ord[i] = b.ord[i]
  <2>1. /\ i \in Among(c, p) => c.ord[i].place = "book"
        /\ i \in Among(b, p) => b.ord[i].place = "book"
    BY Crosses
  <2>2. c.ord[i] = b.ord[i] => (i \in Among(c, p) <=> i \in Among(b, p))
    BY DEF Among, Crossing, Resting
  <2>3. QED
    BY <2>1, <2>2 DEF Leaves
<1>3. \A i \in Ids : e.left[i] = IF i \in Among(c, p) THEN c.ord[i].rem ELSE 0
  BY <1>1, <1>2 DEF Mirrors
<1>4. Among(c, p) \subseteq Ids
  BY DEF Among, Crossing, Resting
<1>5. \A i \in Among(c, p) : e.shown[i] = Slice(c.ord[i]) /\ e.turn[i] < e.next
  BY <1>1, <1>2, <1>4 DEF Mirrors
<1>6. \A i, j \in Among(c, p) : c.ord[i].side = c.ord[j].side =>
        (e.turn[i] < e.turn[j] <=> c.ord[i].seq < c.ord[j].seq)
  BY <1>1, <1>2, <1>4 DEF Mirrors
<1>7. QED
  BY <1>3, <1>5, <1>6 DEF Mirrors, e

\* Where two heads meet, the dry run looks at the same two.
LEMMA MirrorMeets ==
  ASSUME NEW b0, Sound(b0), NEW b, Walkable(b), From(b0, b), NEW p \in Prices,
         NEW d \in DryState(b0), Mirrors(b0, b, p, d),
         NEW bid \in Ids, NEW ask \in Ids, Meet(b, bid, ask, p)
  PROVE  /\ ~DryOver(b0, d) /\ DryHead(b0, d, "BUY") = bid /\ DryHead(b0, d, "SELL") = ask
         /\ DryPass(b0, d) \in DryState(b0)
         /\ DryWalk(b0)[DryPass(b0, d)] = DryWalk(b0)[d]
<1>1. Sound(b) /\ Static(b0, b)
  BY DEF Walkable, From
<1>2. ~DryOver(b0, d)
  BY <1>1, MirrorOver
<1>3. DryHead(b0, d, "BUY") = bid /\ DryHead(b0, d, "SELL") = ask
  BY <1>1, MirrorHead DEF Meet, Heads, Sides
<1>4. QED
  BY <1>2, <1>3, DryPassFacts, DryWalkStep

LEMMA MirrorPulls ==
  ASSUME NEW b0, Sound(b0), NEW b, Walkable(b), From(b0, b), NEW p \in Prices,
         NEW d \in DryState(b0), Mirrors(b0, b, p, d),
         NEW bid \in Ids, NEW ask \in Ids, Meet(b, bid, ask, p), SelfMatched(b, bid, ask)
  PROVE  /\ Mirrors(b0, ResolveSelfMatch(b, bid, ask), p, DryPass(b0, d))
         /\ DryPass(b0, d).qty = d.qty
<1> DEFINE c == ResolveSelfMatch(b, bid, ask)
           K == PulledBy(b, bid, ask)
<1>1. Sound(b) /\ Static(b0, b) /\ Paired(b) /\ Together(b)
  BY DEF Walkable, From
<1>2. bid # ask /\ b.ord[bid].place = "book" /\ b.ord[ask].place = "book"
  BY MeetFacts DEF Meet
<1>3. Leaves(b, c, K) /\ Sound(c)
  BY <1>1, <1>2, ResolveLeaves
<1>4. DryPass(b0, d) = DryKill(d, K)
  <2>1. DryHead(b0, d, "BUY") = bid /\ DryHead(b0, d, "SELL") = ask
    BY MirrorMeets
  <2>2. /\ Twins(b0, bid, ask) <=> Twins(b, bid, ask)
        /\ AuctionSmp(b0, bid, ask) = AuctionSmp(b, bid, ask)
        /\ SmpCancels(b0, bid, ask) = SmpCancels(b, bid, ask)
        /\ \A i \in Ids : WithSibling(b0, i) = WithSibling(b, i)
    BY <1>1, StaticRules
  <2>3. CASE Twins(b, bid, ask)
    BY <2>1, <2>2, <2>3 DEF DryPass, PulledBy
  <2>4. CASE ~Twins(b, bid, ask)
    <3>1. AuctionSmp(b, bid, ask) # "NONE"
      BY <2>4 DEF SelfMatched
    <3>2. SmpCancels(b, bid, ask) \subseteq Ids
      BY <1>1, <3>1, SmpCancelsOne
    <3>3. {WithSibling(b0, i) : i \in SmpCancels(b0, bid, ask)}
            = {WithSibling(b, i) : i \in SmpCancels(b, bid, ask)}
      BY <2>2, <3>2
    <3>4. QED
      BY <2>1, <2>2, <2>4, <3>1, <3>3 DEF DryPass, PulledBy
  <2>5. QED
    BY <2>3, <2>4
<1> HIDE DEF c, K
<1>5. Mirrors(b0, c, p, DryPass(b0, d))
  BY <1>1, <1>3, <1>4, MirrorLeaves
<1>6. DryPass(b0, d).qty = d.qty
  BY <1>4 DEF DryKill, DryState
<1>7. QED
  BY <1>5, <1>6 DEF c

LEMMA MirrorTrades ==
  ASSUME NEW b0, Sound(b0), NEW b, Walkable(b), From(b0, b), NEW p \in Prices,
         NEW d \in DryState(b0), Mirrors(b0, b, p, d),
         NEW bid \in Ids, NEW ask \in Ids, Meet(b, bid, ask, p), ~SelfMatched(b, bid, ask)
  PROVE  LET f == FillBoth(b, bid, ask)
         IN  /\ Mirrors(b0, f, p, DryPass(b0, d))
             /\ DryPass(b0, d).qty = d.qty + (b.ord[bid].rem - f.ord[bid].rem)
             /\ DryPass(b0, d).qty > d.qty
<1> DEFINE f    == FillBoth(b, bid, ask)
           e    == DryPass(b0, d)
           q    == Least(Slice(b.ord[bid]), Slice(b.ord[ask]))
           x    == Reduce(Reduce(b, bid, q), ask, q)
           dead == FilledBy(b, bid, ask, q)
<1>1. Sound(b) /\ Static(b0, b) /\ Paired(b) /\ Together(b) /\ Sequenced(b)
  BY DEF Walkable, From
<1>2. /\ bid # ask /\ b.ord[bid].place = "book" /\ b.ord[ask].place = "book"
      /\ b.ord[bid].side = "BUY" /\ b.ord[ask].side = "SELL"
      /\ bid \in Among(b, p) /\ ask \in Among(b, p)
  BY MeetFacts DEF Meet, Among
<1>3. /\ q \in Nat \ {0} /\ q <= b.ord[bid].rem /\ q <= b.ord[ask].rem
      /\ \A i \in Ids \ {bid, ask} : x.ord[i] = b.ord[i]
      /\ \A i \in {bid, ask} : Took(b, b.ord[i], x.ord[i], q, f.seq)
      /\ Leaves(x, f, dead)
      /\ f.ord[bid].rem = b.ord[bid].rem - q
      /\ Sound(f) /\ Static(b, f)
  BY <1>1, <1>2, FillLeaves
<1>4. ASSUME NEW i \in {bid, ask}
      PROVE  /\ b.ord[i].rem \in Nat \ {0} /\ Slice(b.ord[i]) \in 1 .. b.ord[i].rem
             /\ d.left[i] = b.ord[i].rem /\ d.shown[i] = Slice(b.ord[i])
             /\ b0.ord[i].peak = b.ord[i].peak
  <2>1. i \in Ids /\ i \in Among(b, p) /\ b.ord[i].place = "book"
    BY <1>2
  <2>2. b.ord[i].rem \in Nat \ {0} /\ Slice(b.ord[i]) \in 1 .. b.ord[i].rem
    BY <1>1, <2>1, Rests
  <2>3. d.left[i] = b.ord[i].rem /\ d.shown[i] = Slice(b.ord[i])
    BY <2>1 DEF Mirrors
  <2>4. b0.ord[i].peak = b.ord[i].peak
    BY <1>1, <2>1 DEF Static, SameTerms
  <2>5. QED
    BY <2>2, <2>3, <2>4
<1>5. /\ e \in DryState(b0) /\ e.qty = d.qty + q /\ e.next = d.next + 1
      /\ \A i \in Ids :
           /\ e.left[i] = IF i \in dead THEN 0
                          ELSE IF i \in {bid, ask} THEN d.left[i] - q ELSE d.left[i]
           /\ e.shown[i] = IF i \notin {bid, ask} THEN d.shown[i]
                           ELSE IF d.left[i] > q /\ d.shown[i] = q
                           THEN Least(b0.ord[i].peak, d.left[i] - q)
                           ELSE d.shown[i] - q
           /\ e.turn[i] = IF i \in {bid, ask} /\ d.left[i] > q /\ d.shown[i] = q
                          THEN d.next ELSE d.turn[i]
  <2>1. DryHead(b0, d, "BUY") = bid /\ DryHead(b0, d, "SELL") = ask
    BY MirrorMeets
  <2>2. ~Twins(b0, bid, ask) /\ AuctionSmp(b0, bid, ask) = "NONE"
    BY <1>1, StaticRules DEF SelfMatched
  <2>3. e = DryTrade(b0, d, bid, ask)
    BY <2>1, <2>2 DEF DryPass
  <2>4. q = Least(d.shown[bid], d.shown[ask])
    BY <1>4
  <2>5. dead = UNION {WithSibling(b0, i) : i \in {j \in {bid, ask} : d.left[j] - q = 0}}
    <3>1. \A i \in {bid, ask} : WithSibling(b0, i) = WithSibling(b, i)
      BY <1>1, StaticRules
    <3> HIDE DEF q
    <3>2. {j \in {bid, ask} : d.left[j] - q = 0} = {j \in {bid, ask} : b.ord[j].rem - q = 0}
      BY <1>4
    <3>3. QED
      BY <3>1, <3>2 DEF FilledBy
  <2> HIDE DEF e, q, dead
  <2>6. d.left[bid] > 0 /\ d.left[ask] > 0
    BY <1>4
  <2>7. QED
    BY <1>2, <2>3, <2>4, <2>5, <2>6, DryTradeFacts
<1> HIDE DEF f, e, q, x
<1>6. \A i \in {bid, ask} : b.ord[i].rem = q => i \in dead
  <2>1. \A i \in {bid, ask} : i \in WithSibling(b, i)
    BY DEF WithSibling
  <2>2. QED
    BY <1>3, <1>4, <2>1 DEF FilledBy, dead
<1> HIDE DEF dead
<1>7. ASSUME NEW i \in Ids
      PROVE  /\ i \in Among(f, p) <=> i \in Among(b, p) /\ i \notin dead
             /\ i \in Among(f, p) => f.ord[i] = x.ord[i]
             /\ f.ord[i].side = b.ord[i].side
  <2>1. f.ord[i].price = b.ord[i].price /\ f.ord[i].side = b.ord[i].side
    BY <1>3 DEF Static, SameTerms, SameOrder
  <2>2. /\ i \in Among(f, p) => f.ord[i].place = "book"
        /\ i \in Among(b, p) => b.ord[i].place = "book"
    BY <1>1, <1>3, Crosses
  <2>3. f.ord[i].place = "book" /\ b.ord[i].place = "book"
           => (i \in Among(f, p) <=> i \in Among(b, p))
    BY <2>1 DEF Among, Crossing, Resting
  <2>4. f.ord[i].place = "book" <=> b.ord[i].place = "book" /\ i \notin dead
    <3>1. f.ord[i].place = "book" <=> x.ord[i].place = "book" /\ i \notin dead
      BY <1>3 DEF Leaves
    <3>2. CASE i \in {bid, ask}
      <4>1. x.ord[i].place = "book" <=> b.ord[i].rem # q
        BY <1>3, <3>2 DEF Took
      <4>2. QED
        BY <1>2, <1>6, <3>1, <3>2, <4>1
    <3>3. CASE i \notin {bid, ask}
      BY <1>3, <3>1, <3>3
    <3>4. QED
      BY <3>2, <3>3
  <2>5. i \in Among(f, p) => f.ord[i] = x.ord[i]
    BY <1>3, <2>2 DEF Leaves
  <2>6. QED
    BY <2>1, <2>2, <2>3, <2>4, <2>5
<1>8. Among(f, p) \subseteq Ids /\ Among(b, p) \subseteq Ids
  BY DEF Among, Crossing, Resting
<1>9. d.next \in Nat /\ d.qty \in Nat /\ d.turn \in [Ids -> Nat] /\ d.left \in [Ids -> Nat]
  BY DEF DryState
\* Every order that stays in the copy stays as in the book.
<1>10. ASSUME NEW i \in Among(f, p)
       PROVE  /\ i \in Ids /\ i \in Among(b, p) /\ i \notin dead
              /\ e.left[i] = f.ord[i].rem /\ e.shown[i] = Slice(f.ord[i]) /\ e.turn[i] < e.next
              /\ \/ e.turn[i] = d.turn[i] /\ f.ord[i].seq = b.ord[i].seq
                 \/ /\ i \in {bid, ask} /\ e.turn[i] = d.next /\ f.ord[i].seq > b.seq
  <2>1. i \in Ids /\ i \in Among(b, p) /\ i \notin dead /\ f.ord[i] = x.ord[i]
    BY <1>7, <1>8
  <2>2. d.left[i] = b.ord[i].rem /\ d.shown[i] = Slice(b.ord[i]) /\ d.turn[i] < d.next
    BY <2>1 DEF Mirrors
  <2>3. d.turn[i] \in Nat
    BY <1>9, <2>1
  <2>4. CASE i \notin {bid, ask}
    BY <1>3, <1>5, <1>9, <2>1, <2>2, <2>3, <2>4
  <2>5. CASE i \in {bid, ask}
    <3>1. Took(b, b.ord[i], f.ord[i], q, f.seq) /\ b.ord[i].rem # q
      BY <1>3, <1>6, <2>1, <2>5
    <3>2. b.ord[i].rem > q /\ b.ord[i].rem \in Nat /\ Slice(b.ord[i]) \in Nat
      BY <1>3, <1>4, <2>5, <3>1
    <3>3. CASE Slice(b.ord[i]) = q
      BY <1>4, <1>5, <1>9, <2>1, <2>2, <2>3, <2>5, <3>1, <3>2, <3>3 DEF Took
    <3>4. CASE Slice(b.ord[i]) # q
      BY <1>4, <1>5, <1>9, <2>1, <2>2, <2>3, <2>5, <3>1, <3>2, <3>4 DEF Took
    <3>5. QED
      BY <3>3, <3>4
  <2>6. QED
    BY <2>4, <2>5
<1>11. \A i \in Ids : e.left[i] = IF i \in Among(f, p) THEN f.ord[i].rem ELSE 0
  <2>1. ASSUME NEW i \in Ids, i \notin Among(f, p)
        PROVE  e.left[i] = 0
    <3>1. CASE i \in dead
      BY <1>5, <3>1
    <3>2. CASE i \notin dead
      BY <1>2, <1>5, <1>7, <2>1, <3>2 DEF Mirrors
    <3>3. QED
      BY <3>1, <3>2
  <2>2. QED
    BY <1>10, <2>1
<1>12. ASSUME NEW i \in Among(f, p), NEW j \in Among(f, p), f.ord[i].side = f.ord[j].side
       PROVE  e.turn[i] < e.turn[j] <=> f.ord[i].seq < f.ord[j].seq
  <2>1. /\ i \in Ids /\ j \in Ids /\ i \in Among(b, p) /\ j \in Among(b, p)
        /\ b.ord[i].side = b.ord[j].side
    BY <1>7, <1>8, <1>10, <1>12
  <2>2. /\ d.turn[i] < d.turn[j] <=> b.ord[i].seq < b.ord[j].seq
        /\ d.turn[i] < d.next /\ d.turn[j] < d.next /\ d.turn[i] \in Nat /\ d.turn[j] \in Nat
    BY <1>9, <2>1 DEF Mirrors
  <2>3. \A k \in {i, j} : /\ b.ord[k].seq \in Nat /\ b.seq \in Nat /\ b.ord[k].seq <= b.seq
                          /\ f.ord[k].seq \in Nat
    BY <1>1, <1>3, <2>1 DEF Sound, Book, Order, Sequenced, Numbered
  <2>4. i \in {bid, ask} /\ j \in {bid, ask} => i = j
    BY <1>2, <2>1
  <2>5. CASE i = j
    BY <1>9, <1>10, <2>2, <2>3, <2>5
  <2>6. CASE i # j
    BY <1>9, <1>10, <2>2, <2>3, <2>4, <2>6
  <2>7. QED
    BY <2>5, <2>6
<1>13. Mirrors(b0, f, p, e)
  BY <1>10, <1>11, <1>12 DEF Mirrors
<1>14. e.qty = d.qty + (b.ord[bid].rem - f.ord[bid].rem) /\ e.qty > d.qty
  BY <1>3, <1>4, <1>5, <1>9
<1>15. QED
  BY <1>13, <1>14 DEF f, e

-----------------------------------------------------------------------------
(***************************************************************************)
(* The book after a pass.                                                  *)
(***************************************************************************)
LEMMA ThinnedWalks ==
  ASSUME NEW b, Walkable(b), NEW c, Sound(c), Thinned(b, c)
  PROVE  Paired(c) /\ Sequenced(c) /\ From(b, c)
<1>1. Sound(b) /\ Paired(b) /\ Sequenced(b)
  BY DEF Walkable
<1>2. Static(b, c)
  BY <1>1, ThinnedStatic
<1>3. \A i \in Ids : c.ord[i].place \in {b.ord[i].place, "none"}
  BY <1>1, ThinnedTies
<1>4. QED
  BY <1>1, <1>2, <1>3, StaticPaired, ThinnedSequenced DEF From

LEMMA ResolveWalks ==
  ASSUME NEW b, Walkable(b), NEW bid \in Ids, NEW ask \in Ids, Heads(b, bid, ask),
         SelfMatched(b, bid, ask)
  PROVE  Walkable(ResolveSelfMatch(b, bid, ask)) /\ From(b, ResolveSelfMatch(b, bid, ask))
<1> DEFINE c == ResolveSelfMatch(b, bid, ask)
<1>1. Sound(b) /\ Paired(b) /\ Together(b)
  BY DEF Walkable
<1>2. Sound(c) /\ Thinned(b, c) /\ Together(c)
  BY <1>1, MeetFacts, ResolveLeaves
<1> HIDE DEF c
<1>3. QED
  BY <1>2, ThinnedWalks DEF Walkable, c

LEMMA FillWalks ==
  ASSUME NEW b, Walkable(b), NEW bid \in Ids, NEW ask \in Ids, Heads(b, bid, ask),
         ~SelfMatched(b, bid, ask)
  PROVE  Walkable(FillBoth(b, bid, ask)) /\ From(b, FillBoth(b, bid, ask))
<1> DEFINE q    == Least(Slice(b.ord[bid]), Slice(b.ord[ask]))
           d    == Reduce(Reduce(b, bid, q), ask, q)
           f    == FillBoth(b, bid, ask)
<1>1. /\ \A i \in Ids \ {bid, ask} : d.ord[i] = b.ord[i]
      /\ Leaves(d, f, FilledBy(b, bid, ask, q))
      /\ Sound(f) /\ Static(b, f) /\ Paired(f) /\ Together(f) /\ Sequenced(f)
  BY MeetFacts, FillLeaves DEF Walkable
<1> HIDE DEF d, f
<1>2. \A i \in {bid, ask} : b.ord[i].place = "book"
  BY MeetFacts
<1>3. ASSUME NEW i \in Ids, f.ord[i].place = "book"
      PROVE  b.ord[i].place = "book"
  <2>1. d.ord[i].place = "book"
    BY <1>1, <1>3 DEF Leaves
  <2>2. QED
    BY <1>1, <1>2, <2>1
<1>4. QED
  BY <1>1, <1>3 DEF Walkable, From, f

LEMMA FromTransitive ==
  ASSUME NEW b, NEW c, NEW d, From(b, c), From(c, d)
  PROVE  From(b, d)
BY StaticTransitive DEF From

\* Nothing crosses in a later book that did not in an earlier one.
LEMMA FromCrosses ==
  ASSUME NEW b, NEW c, From(b, c), NEW p, NEW s
  PROVE  Crossing(c, s, p) \subseteq Crossing(b, s, p)
BY DEF From, Static, SameTerms, SameOrder, Crossing, Resting

-----------------------------------------------------------------------------
(***************************************************************************)
(* Legs that both rest are registered.  The engine drops a pair when a leg *)
(* has ended, or when its owner cancels it; then one leg at least is where *)
(* it never rests again.                                                   *)
(***************************************************************************)

\* Leg i has ended, or is in no place and in nobody's hands.
Gone(b, i, a, t) ==
  b.ord[i].status \in Dead \/ (b.ord[i].place = "none" /\ i # a /\ i # t)

Split(b, a, t) ==
  \A i \in Ids : b.ord[i].bond = "oco" /\ b.ord[i].group \notin b.live
                 => Gone(b, i, a, t) \/ Gone(b, Sibling(b, i), a, t)

\* A pair that c no longer registers has lost a leg.
Falls(b, c) ==
  \A i \in Ids : /\ b.ord[i].bond = "oco" /\ b.ord[i].group \in b.live
                 /\ b.ord[i].group \notin c.live
                 => c.ord[i].status \in Dead \/ c.ord[Sibling(b, i)].status \in Dead

LEMMA SplitTogether ==
  ASSUME NEW b, Sound(b), NEW a, NEW t, Split(b, a, t)
  PROVE  Together(b)
<1>1. ASSUME NEW i \in Ids, b.ord[i].place = "book" PROVE ~Gone(b, i, a, t)
  BY <1>1 DEF Sound, OrderSound, Working, Dead, Gone
<1>2. \A i \in Ids : b.ord[i].bond = "oco" => Sibling(b, i) \in Ids
  BY Siblings
<1>3. QED
  BY <1>1, <1>2 DEF Split, Together

LEMMA SplitKept ==
  ASSUME NEW b, NEW c, Sound(b), SameBonds(b, c), Falls(b, c),
         NEW a, NEW t, NEW a1, NEW t1, Split(b, a, t),
         \A i \in Ids : Gone(b, i, a, t) => Gone(c, i, a1, t1)
  PROVE  Split(c, a1, t1)
<1> SUFFICES ASSUME NEW i \in Ids, c.ord[i].bond = "oco", c.ord[i].group \notin c.live
             PROVE  Gone(c, i, a1, t1) \/ Gone(c, Sibling(c, i), a1, t1)
  BY DEF Split
<1>1. /\ b.ord[i].bond = "oco" /\ b.ord[i].group = c.ord[i].group
      /\ Sibling(c, i) = Sibling(b, i)
  BY TiesStay DEF SameBonds, SameTies
<1>2. Sibling(b, i) \in Ids
  BY <1>1, Siblings
<1>3. CASE b.ord[i].group \in b.live
  BY <1>1, <1>3 DEF Falls, Gone
<1>4. CASE b.ord[i].group \notin b.live
  BY <1>1, <1>2, <1>4 DEF Split
<1>5. QED
  BY <1>3, <1>4

LEMMA FallsOn ==
  ASSUME NEW b, NEW c, NEW d, Sound(b), Sound(c), SameBonds(b, c), Falls(b, c), Falls(c, d),
         \A i \in Ids : c.ord[i].status \in Dead => d.ord[i].status \in Dead
  PROVE  Falls(b, d)
<1> SUFFICES ASSUME NEW i \in Ids, b.ord[i].bond = "oco", b.ord[i].group \in b.live,
                    b.ord[i].group \notin d.live
             PROVE  d.ord[i].status \in Dead \/ d.ord[Sibling(b, i)].status \in Dead
  BY DEF Falls
<1>1. c.ord[i].bond = "oco" /\ c.ord[i].group = b.ord[i].group /\ Sibling(c, i) = Sibling(b, i)
  BY TiesStay DEF SameBonds, SameTies
<1>2. Sibling(b, i) \in Ids
  BY Siblings
<1>3. CASE c.ord[i].group \in c.live
  BY <1>1, <1>3 DEF Falls
<1>4. CASE c.ord[i].group \notin c.live
  BY <1>1, <1>2, <1>4 DEF Falls
<1>5. QED
  BY <1>3, <1>4

LEMMA HookFalls ==
  ASSUME NEW b, Sound(b), Paired(b), NEW i \in Ids
  PROVE  Falls(b, OcoLegEnded(b, i))
<1> DEFINE c == OcoLegEnded(b, i)
<1>1. CASE ~(b.ord[i].bond = "oco" /\ b.ord[i].status \in Dead)
  BY <1>1 DEF OcoLegEnded, Falls
<1>2. CASE b.ord[i].bond = "oco" /\ b.ord[i].status \in Dead
  <2>1. c.live = b.live \ {b.ord[i].group}
    BY <1>2, PullTouches DEF OcoLegEnded
  <2>2. c.ord[i].status \in Dead
    BY <1>2, OcoHookTouches, ThinnedTies
  <2> HIDE DEF c
  <2>3. SUFFICES ASSUME NEW j \in Ids, b.ord[j].bond = "oco", b.ord[j].group \in b.live,
                        b.ord[j].group \notin c.live
                 PROVE  i \in {j, Sibling(b, j)}
    BY <2>2 DEF Falls, c
  <2>4. b.ord[i].group = b.ord[j].group
    BY <2>1, <2>3
  <2>5. QED
    BY <2>3, <2>4, Groups
<1>3. QED
  BY <1>1, <1>2

LEMMA QuoteHookFalls ==
  ASSUME NEW b, Sound(b), Paired(b), NEW i \in Ids
  PROVE  Falls(b, QuoteLegFilled(b, i))
<1> DEFINE c == QuoteLegFilled(b, i)
<1>1. \A g \in b.live \ c.live : b.ord[g].bond = "quote"
  BY QuoteHookTouches
<1>2. ASSUME NEW j \in Ids, b.ord[j].bond = "oco"
      PROVE  b.ord[b.ord[j].group].bond = "oco"
  BY <1>2, Groups
<1> HIDE DEF c
<1>3. QED
  BY <1>1, <1>2 DEF Falls, c

LEMMA CancelFalls ==
  ASSUME NEW b, Sound(b), Paired(b), NEW i \in Ids
  PROVE  /\ Falls(b, Cancel(b, i)) /\ Falls(b, SmpCancel(b, i))
         /\ Sound(SmpCancel(b, i)) /\ Paired(SmpCancel(b, i)) /\ Thinned(b, SmpCancel(b, i))
<1> DEFINE x == Cancel(b, i)
           c == OcoLegEnded(x, i)
<1>1. Sound(x) /\ Thinned(b, x) /\ x.live = b.live /\ SmpCancel(b, i) = c
  BY CancelTouches DEF SmpCancel
<1> HIDE DEF x
<1>2. Falls(b, x)
  BY <1>1 DEF Falls
<1>3. SameBonds(b, x) /\ Paired(x)
  BY <1>1, ThinnedTies, TiesStay
<1>4. Falls(x, c) /\ Thinned(x, c) /\ Sound(c) /\ Paired(c)
  BY <1>1, <1>3, HookFalls, OcoHookTouches
<1> HIDE DEF c
<1>5. Falls(b, c) /\ Thinned(b, c)
  BY <1>1, <1>2, <1>3, <1>4, FallsOn, ThinnedTies, ThinnedTransitive
<1>6. QED
  BY <1>1, <1>2, <1>4, <1>5 DEF x

\* What the hooks of a fill drop.
LEMMA FillHooksFall ==
  ASSUME NEW b, Sound(b), Paired(b), NEW a \in Ids, NEW p \in Ids
  PROVE  Falls(b, FillHooks(b, a, p))
<1> DEFINE c == QuoteLegFilled(b, p)
           d == QuoteLegFilled(c, a)
           e == OcoLegEnded(d, p)
           f == OcoLegEnded(e, a)
<1>1. Sound(c) /\ Paired(c) /\ SameBonds(b, c) /\ Thinned(b, c) /\ Falls(b, c)
  BY QuoteHookTouches, QuoteHookFalls
<1> HIDE DEF c
<1>2. Sound(d) /\ Paired(d) /\ Thinned(c, d) /\ Falls(c, d)
  BY <1>1, QuoteHookTouches, QuoteHookFalls
<1> HIDE DEF d
<1>3. Falls(b, d) /\ Thinned(b, d) /\ SameBonds(b, d)
  BY <1>1, <1>2, FallsOn, ThinnedTies, ThinnedTransitive
<1>4. Sound(e) /\ Paired(e) /\ Thinned(d, e) /\ Falls(d, e)
  BY <1>2, OcoHookTouches, HookFalls
<1> HIDE DEF e
<1>5. Falls(b, e) /\ Thinned(b, e) /\ SameBonds(b, e)
  BY <1>2, <1>3, <1>4, FallsOn, ThinnedTies, ThinnedTransitive
<1>6. Thinned(e, f) /\ Falls(e, f)
  BY <1>4, OcoHookTouches, HookFalls
<1> HIDE DEF f
<1>7. Falls(b, f)
  BY <1>4, <1>5, <1>6, FallsOn, ThinnedTies
<1>8. QED
  BY <1>7 DEF FillHooks, c, d, e, f

\* No message but the cancel of a pair, and no step of the engine, drops a pair
\* both legs of which may still trade.
LEMMA StepFalls ==
  ASSUME IInv, Paired(book), Next,
         ~\E r \in NewOrders : NewOrder(r),
         ~\E l \in OcoPairs : OcoOrder(l),
         ~\E l \in QuotePairs : QuoteNew(l),
         ~\E g \in Ids : OcoCancel(g)
  PROVE  Falls(book, book')
<1>1. Sound(book) /\ book \in Book
  BY DEF IInv, Sound
<1>2. ASSUME book.live \subseteq book'.live PROVE Falls(book, book')
  BY <1>2 DEF Falls
<1>3. CASE EditsCur
  BY <1>2, <1>3, CurEdited
<1>4. CASE Settle
  <2> DEFINE b == OcoLegEnded(book, cur)
             r == Release(b, last, released)
  <2>1. cur \in Ids /\ last \in Int /\ released \in Nat /\ book' \in {b, r}
    BY <1>4, PricesAssumption DEF Settle, IInv, TypeOK, HandlerOK, NoPrice
  <2>2. Sound(b) /\ Falls(book, b) /\ SameBonds(book, b)
    BY <1>1, <2>1, OcoHookTouches, HookFalls
  <2> HIDE DEF b
  <2>3. r.live = b.live /\ \A i \in Ids : r.ord[i].status = b.ord[i].status
    BY <2>1, <2>2, ReleaseSound
  <2>4. \A i \in Ids : order(i).bond = "oco" => Sibling(book, i) \in Ids
    BY <1>1, Siblings DEF order
  <2> HIDE DEF r
  <2>5. QED
    BY <2>1, <2>2, <2>3, <2>4 DEF Falls, order
<1>5. ASSUME NEW j \in Ids, NEW price \in AmendPrices, NEW qty \in AmendQtys,
             Amend(j, price, qty)
      PROVE  Falls(book, book')
  BY <1>2, <1>5, AmendOrders
<1>6. ASSUME NEW p \in Ids, Trade(p)
      PROVE  Falls(book, book')
  <2>1. PICK d : /\ Sound(d) /\ d.live = book.live /\ SameBonds(book, d)
                 /\ book' = FillHooks(d, cur, p)
    BY <1>6, TradeTakes
  <2>2. cur \in Ids /\ Paired(d) /\ Falls(book, d)
    BY <1>1, <1>6, <2>1, FacingFacts, TiesStay DEF Trade, Falls
  <2>3. Falls(d, book') /\ Thinned(d, book')
    BY <2>1, <2>2, FillHooksFall, FillHooksThin
  <2>4. QED
    BY <1>1, <2>1, <2>2, <2>3, FallsOn, ThinnedTies
<1>7. CASE Withdraw \/ RefusePull \/ \E p \in Ids : SelfMatchPullsResting(p)
  <2>1. PICK j \in Ids : book' = Cancel(book, j) \/ book' = SmpCancel(book, j)
    BY <1>7 DEF Withdraw, RefusePull, SelfMatchPullsResting, IInv, TypeOK
  <2>2. QED
    BY <1>1, <2>1, CancelFalls
<1>8. ASSUME NEW p \in Ids, SelfMatchPullsAggressor(p) PROVE Falls(book, book')
  <2> DEFINE b == IF SelfMatch(book, cur, p) = "CANCEL_BOTH" THEN SmpCancel(book, p) ELSE book
  <2>1. cur \in Ids /\ book' = [b EXCEPT !.ord[cur].status = "CANCELLED"]
    BY <1>8, FacingFacts DEF SelfMatchPullsAggressor
  <2>2. Sound(b) /\ Falls(book, b)
    <3>1. Falls(book, book)
      BY DEF Falls
    <3>2. QED
      BY <1>1, <3>1, CancelFalls
  <2> HIDE DEF b
  <2>3. /\ book'.live = b.live
        /\ \A i \in Ids : b.ord[i].status \in Dead => book'.ord[i].status \in Dead
    BY <2>1, <2>2 DEF Sound, Book, Order, Dead
  <2>4. \A i \in Ids : order(i).bond = "oco" => Sibling(book, i) \in Ids
    BY <1>1, Siblings DEF order
  <2>5. QED
    BY <2>2, <2>3, <2>4 DEF Falls, order
<1>9. CASE RejectImmediate
  <2> DEFINE c == [book EXCEPT !.ord[cur].status = "REJECTED"]
  <2>1. /\ cur \in Ids /\ order(cur).place = "none" /\ book' = OcoLegEnded(c, cur)
    BY <1>9, ProcessingFacts DEF RejectImmediate
  <2>2. /\ Sound(c) /\ c.live = book.live /\ OthersSame(book, c, cur)
        /\ SameOrder(book.ord[cur], c.ord[cur])
    BY <1>1, <2>1, StatusSound DEF order
  <2> HIDE DEF c
  <2>3. SameBonds(book, c) /\ Paired(c) /\ Falls(book, c)
    <3>1. SameBonds(book, c)
      BY <2>2 DEF SameBonds, SameTies, SameOrder, OthersSame
    <3>2. QED
      BY <1>1, <2>2, <3>1, TiesStay DEF Falls
  <2>4. Falls(c, book') /\ Thinned(c, book')
    BY <2>1, <2>2, <2>3, HookFalls, OcoHookTouches
  <2>5. QED
    BY <1>1, <2>2, <2>3, <2>4, FallsOn, ThinnedTies
<1>10. CASE DropSecondLeg
  <2>1. book' = [book EXCEPT !.ord[todo].status = "CANCELLED"]
    BY <1>10 DEF DropSecondLeg
  <2>2. QED
    BY <1>1, <1>2, <2>1 DEF Book
<1>11. ASSUME NEW j \in Ids, CancelOrder(j) PROVE Falls(book, book')
  BY <1>1, <1>11, CancelFalls DEF CancelOrder, SmpCancel
<1>12. ASSUME NEW gw \in Gateways, QuoteCancel(gw) \/ KillSwitch(gw)
       PROVE  Falls(book, book')
  <2>1. book'.live = book.live \ QuoteOf(gw)
    BY <1>1, <1>12 DEF QuoteCancel, KillSwitch, Book
  <2>2. \A g \in QuoteOf(gw) : book.ord[g].bond = "quote"
    BY DEF QuoteOf, order
  <2>3. \A i \in Ids : book.ord[i].bond = "oco" => book.ord[book.ord[i].group].bond = "oco"
    BY <1>1, Groups
  <2>4. QED
    BY <2>1, <2>2, <2>3 DEF Falls
<1>13. CASE \/ CallPhaseBegins \/ NoMessage \/ HandlerRaises \/ Refused
            \/ \E j \in Ids : RunStop(j)
            \/ PostSecondLeg \/ HandlerReturns \/ Withdrawn
  <2>1. book.live \subseteq book'.live
    BY <1>1, <1>13 DEF CallPhaseBegins, NoMessage, vars, HandlerRaises, Refused, RunStop,
                       PostSecondLeg, HandlerReturns, Withdrawn, Book
  <2>2. QED
    BY <1>2, <2>1
<1>14. CASE Message
  BY <1>5, <1>11, <1>12, <1>13, <1>14 DEF Message
<1>15. CASE EngineStep
  BY <1>3, <1>4, <1>6, <1>7, <1>8, <1>9, <1>10, <1>13, <1>15 DEF EngineStep, EditsCur
<1>16. QED
  BY <1>14, <1>15 DEF Next

LEMMA SplitInit ==
  ASSUME Init
  PROVE  Split(book, cur, todo)
BY DEF Init, Split, Absent

\* Orders accepted while the engine is idle split no pair.
LEMMA AcceptedSplit ==
  ASSUME IInv, Paired(book), pc = "idle", Split(book, cur, todo), NEW new \in SUBSET Ids,
         \A i \in Ids \ new :
           /\ book'.ord[i] = order(i) /\ Sibling(book', i) = Sibling(book, i)
           /\ order(i).bond # "none" => Sibling(book, i) \notin new,
         \A i \in new : book'.ord[i].bond = "oco" => book'.ord[i].group \in book'.live,
         \A g \in book.live : order(g).bond = "oco" => g \in book'.live,
         NEW a \in new \cup {0}, NEW t \in new \cup {0}
  PROVE  Split(book', a, t)
<1> SUFFICES ASSUME NEW i \in Ids, book'.ord[i].bond = "oco", book'.ord[i].group \notin book'.live
             PROVE  Gone(book', i, a, t) \/ Gone(book', Sibling(book', i), a, t)
  BY DEF Split
<1>1. Sound(book) /\ cur = 0 /\ todo = 0 /\ 0 \notin Ids
  BY IdleFacts DEF Ids
<1>2. /\ i \notin new /\ book'.ord[i] = order(i) /\ Sibling(book', i) = Sibling(book, i)
      /\ order(i).bond = "oco" /\ Sibling(book, i) \notin new
  OBVIOUS
<1>3. Sibling(book, i) \in Ids /\ book.ord[order(i).group].bond = "oco"
  BY <1>1, <1>2, Siblings, Groups DEF order
<1>4. order(i).group \notin book.live
  BY <1>2, <1>3 DEF order
<1>5. ASSUME NEW j \in Ids \ new, Gone(book, j, 0, 0) PROVE Gone(book', j, a, t)
  BY <1>1, <1>5 DEF Gone, order
<1>6. Gone(book, i, 0, 0) \/ Gone(book, Sibling(book, i), 0, 0)
  BY <1>1, <1>2, <1>4 DEF Split, order
<1>7. QED
  BY <1>2, <1>3, <1>5, <1>6

\* The engine never has a pair unregistered while both its legs may still trade.
LEMMA SplitStep ==
  ASSUME IInv, Paired(book), Split(book, cur, todo), Next
  PROVE  Split(book', cur', todo')
<1>1. Sound(book) /\ book \in Book
  BY DEF IInv, Sound
<1>2. ASSUME NEW r \in NewOrders, NewOrder(r)
      PROVE  Split(book', cur', todo')
  <2> DEFINE new == {born + 1}
  <2>1. /\ pc = "idle" /\ new \in SUBSET Ids /\ book'.live = book.live
        /\ cur' = born + 1 /\ todo' = 0
    BY <1>1, <1>2, MaxOrdersAssumption DEF NewOrder, Start, IInv, TypeOK, Ids, Add, Book
  <2>2. /\ book'.ord[born + 1].bond = "none"
        /\ \A i \in Ids \ new :
             /\ book'.ord[i] = order(i) /\ Sibling(book', i) = Sibling(book, i)
             /\ order(i).bond # "none" => Sibling(book, i) \notin new
    BY <1>2, NewOrderPaired
  <2>3. cur' \in new \cup {0} /\ todo' \in new \cup {0}
    BY <2>1
  <2>4. \A i \in new : book'.ord[i].bond = "oco" => book'.ord[i].group \in book'.live
    BY <2>2
  <2> HIDE DEF new
  <2>5. QED
    BY <2>1, <2>2, <2>3, <2>4, AcceptedSplit
<1>3. ASSUME NEW l \in Request \X Request, NEW bond \in {"oco", "quote"},
             \/ bond = "oco" /\ l \in OcoPairs /\ OcoOrder(l)
             \/ bond = "quote" /\ l \in QuotePairs /\ QuoteNew(l)
      PROVE  Split(book', cur', todo')
  <2> DEFINE new == {born + 1, born + 2}
  <2>1. /\ pc = "idle" /\ cur' = born + 1 /\ todo' = born + 2
        /\ \A i \in Ids \ new :
              /\ book'.ord[i] = order(i) /\ Sibling(book', i) = Sibling(book, i)
              /\ order(i).bond # "none" => Sibling(book, i) \notin new
        /\ \A i \in new : book'.ord[i].bond = bond /\ book'.ord[i].group = born + 1
    BY <1>3, AcceptedPaired DEF OcoOrder, QuoteNew, Start
  <2>2. new \in SUBSET Ids
    <3>1. born + 1 \in Ids /\ born + 1 + 1 \in Ids /\ born \in Nat
      BY <1>3, MaxOrdersAssumption DEF OcoOrder, QuoteNew, IInv, TypeOK, Ids
    <3>2. QED
      BY <3>1
  <2>3. \/ bond = "oco" /\ book'.live = book.live \cup {born + 1}
        \/ bond = "quote" /\ book'.live = book.live \ QuoteOf(l[1].gw)
    BY <1>1, <1>3, PairOrders
  <2>4. \A g \in book.live : order(g).bond = "oco" => g \in book'.live
    BY <2>3 DEF QuoteOf
  <2>5. \A i \in new : book'.ord[i].bond = "oco" => book'.ord[i].group \in book'.live
    BY <2>1, <2>3
  <2>6. cur' \in new \cup {0} /\ todo' \in new \cup {0}
    BY <2>1
  <2> HIDE DEF new
  <2>7. QED
    BY <2>1, <2>2, <2>4, <2>5, <2>6, AcceptedSplit
<1>4. ASSUME NEW g \in Ids, OcoCancel(g)
      PROVE  Split(book', cur', todo')
  <2>1. /\ pc = "idle" /\ cur' = 0 /\ todo' = 0
        /\ g \in book.live /\ order(g).bond = "oco" /\ order(g).group = g
        /\ g \in Nat /\ Sibling(book, g) = g + 1 /\ g + 1 \in Ids
        /\ SameBonds(book, book') /\ book'.live = book.live \ {g}
        /\ \A i \in Ids \ {g, g + 1} : book'.ord[i] = book.ord[i]
        /\ \A i \in {g, g + 1} : book'.ord[i].status \in Dead \/ book'.ord[i].place = "none"
    BY <1>4, OcoCancelTouches
  <2>2. cur = 0 /\ todo = 0 /\ 0 \notin Ids
    BY <2>1, IdleFacts DEF Ids
  <2>3. \A i \in {g, g + 1} : Gone(book', i, 0, 0)
    BY <2>1, <2>2 DEF Gone
  <2>4. \A i \in Ids : Gone(book, i, 0, 0) => Gone(book', i, 0, 0)
    BY <2>1, <2>3 DEF Gone
  <2>5. SUFFICES ASSUME NEW i \in Ids, book'.ord[i].bond = "oco",
                        book'.ord[i].group \notin book'.live
                 PROVE  Gone(book', i, 0, 0) \/ Gone(book', Sibling(book', i), 0, 0)
    BY <2>1 DEF Split
  <2>6. /\ book.ord[i].bond = "oco" /\ book.ord[i].group = book'.ord[i].group
        /\ Sibling(book', i) = Sibling(book, i) /\ Sibling(book, i) \in Ids
    <3>1. book.ord[i].bond = "oco" /\ book.ord[i].group = book'.ord[i].group
      BY <2>1, <2>5 DEF SameBonds, SameTies
    <3>2. Sibling(book', i) = Sibling(book, i)
      BY <1>1, <2>1, TiesStay
    <3>3. QED
      BY <1>1, <3>1, <3>2, Siblings
  <2>7. CASE book.ord[i].group = g
    <3>1. i \in {g, Sibling(book, g)}
      BY <1>1, <2>1, <2>6, <2>7, Groups DEF order
    <3>2. QED
      BY <2>1, <2>3, <3>1
  <2>8. CASE book.ord[i].group # g
    <3>1. Gone(book, i, 0, 0) \/ Gone(book, Sibling(book, i), 0, 0)
      BY <2>1, <2>2, <2>5, <2>6, <2>8 DEF Split
    <3>2. QED
      BY <2>4, <2>6, <3>1
  <2>9. QED
    BY <2>7, <2>8
<1>5. ASSUME ~\E r \in NewOrders : NewOrder(r),
             ~\E l \in OcoPairs : OcoOrder(l),
             ~\E l \in QuotePairs : QuoteNew(l),
             ~\E g \in Ids : OcoCancel(g)
      PROVE  Split(book', cur', todo')
  <2>1. SameBonds(book, book') /\ Falls(book, book') /\ Final
    BY <1>5, TiesKept, StepFalls, FinalStep
  <2>2. ASSUME NEW i \in Ids, Gone(book, i, cur, todo)
        PROVE  Gone(book', i, cur', todo')
    <3>1. CASE order(i).status \in Dead
      BY <2>1, <3>1 DEF Final, Gone
    <3>2. CASE book.ord[i].place = "none" /\ i # cur /\ i # todo
      <4>1. Placed(i)
        BY <1>5, StepPlaced
      <4>2. book'.ord[i].place = "none"
        BY <3>2, <4>1 DEF Placed, order
      <4>3. i \notin {cur', todo'}
        BY <1>5, <3>2, HandsFilled DEF order
      <4>4. QED
        BY <4>2, <4>3 DEF Gone
    <3>3. QED
      BY <2>2, <3>1, <3>2 DEF Gone, order
  <2>3. QED
    BY <1>1, <2>1, <2>2, SplitKept
<1>6. QED
  BY <1>2, <1>3, <1>4, <1>5, RequestsAssumption

-----------------------------------------------------------------------------
(***************************************************************************)
(* In every state of a market with call auctions the book can be walked.   *)
(***************************************************************************)
BookWalks == Split(book, cur, todo) /\ Sequenced(book)

LEMMA WalkableBook ==
  ASSUME AIInv, Paired(book), BookWalks
  PROVE  Walkable(book) /\ Sound(book) /\ Paired(book)
<1>1. Sound(book)
  BY AuctionSound
<1>2. QED
  BY <1>1, SplitTogether DEF BookWalks, Walkable

LEMMA ThinnedGone ==
  ASSUME NEW b, Sound(b), NEW c, Thinned(b, c), NEW i \in Ids, NEW a, NEW t, Gone(b, i, a, t)
  PROVE  Gone(c, i, a, t)
BY ThinnedTies DEF Gone

LEMMA ThinnedSplit ==
  ASSUME NEW b, Sound(b), NEW c, Thinned(b, c), Falls(b, c), NEW a, NEW t, Split(b, a, t)
  PROVE  Split(c, a, t)
<1>1. SameBonds(b, c)
  BY ThinnedTies
<1>2. \A i \in Ids : Gone(b, i, a, t) => Gone(c, i, a, t)
  BY ThinnedGone
<1>3. QED
  BY <1>1, <1>2, SplitKept

LEMMA FillSplit ==
  ASSUME NEW b, Sound(b), Paired(b), NEW bid \in Ids, NEW ask \in Ids, bid # ask,
         b.ord[bid].place = "book", b.ord[ask].place = "book", Split(b, 0, 0)
  PROVE  Split(FillBoth(b, bid, ask), 0, 0)
<1> DEFINE q == Least(Slice(b.ord[bid]), Slice(b.ord[ask]))
           d == Reduce(Reduce(b, bid, q), ask, q)
           e == OcoLegEnded(d, ask)
           f == FillBoth(b, bid, ask)
<1>1. /\ Sound(d) /\ Sound(e) /\ d.live = b.live /\ f = OcoLegEnded(e, bid)
      /\ \A i \in Ids \ {bid, ask} : d.ord[i] = b.ord[i]
      /\ \A i \in {bid, ask} : SameOrder(b.ord[i], d.ord[i])
      /\ Thinned(d, e) /\ Thinned(e, f)
  BY FillBothFacts
<1>2. \A i \in {bid, ask} : b.ord[i].status \notin Dead
  BY DEF Sound, OrderSound, Working, Dead
<1> HIDE DEF f, d
<1>3. SameBonds(b, d) /\ Paired(d) /\ Falls(b, d)
  <2>1. SameBonds(b, d)
    BY <1>1 DEF SameBonds, SameTies, SameOrder
  <2>2. QED
    BY <1>1, <2>1, TiesStay DEF Falls
<1>4. \A i \in Ids : Gone(b, i, 0, 0) => Gone(d, i, 0, 0)
  BY <1>1, <1>2 DEF Gone
<1>5. Split(d, 0, 0)
  BY <1>3, <1>4, SplitKept
<1>6. Split(e, 0, 0) /\ Paired(e)
  BY <1>1, <1>3, <1>5, HookFalls, OcoHookTouches, ThinnedSplit
<1> HIDE DEF e
<1>7. Split(f, 0, 0)
  BY <1>1, <1>6, HookFalls, ThinnedSplit
<1>8. QED
  BY <1>7 DEF f

LEMMA PullSplit ==
  ASSUME NEW b, Sound(b), Paired(b), NEW i \in Ids, Split(b, 0, 0)
  PROVE  Sound(SmpCancel(b, i)) /\ Paired(SmpCancel(b, i)) /\ Split(SmpCancel(b, i), 0, 0)
<1> DEFINE c == SmpCancel(b, i)
<1>1. Falls(b, c) /\ Sound(c) /\ Paired(c) /\ Thinned(b, c)
  BY CancelFalls
<1> HIDE DEF c
<1>2. Split(c, 0, 0)
  BY <1>1, ThinnedSplit
<1>3. QED
  BY <1>1, <1>2 DEF c

LEMMA ResolveSplit ==
  ASSUME NEW b, Sound(b), Paired(b), NEW bid \in Ids, NEW ask \in Ids, Split(b, 0, 0)
  PROVE  Split(ResolveSelfMatch(b, bid, ask), 0, 0)
<1> DEFINE S == SmpCancels(b, bid, ask)
           x == IF bid \in S THEN SmpCancel(b, bid) ELSE b
           y == IF ask \in S THEN SmpCancel(x, ask) ELSE x
<1>1. ResolveSelfMatch(b, bid, ask) \in {SmpCancel(b, bid), y}
  BY DEF ResolveSelfMatch, SmpCancel
<1> HIDE DEF S
<1>2. Sound(x) /\ Paired(x) /\ Split(x, 0, 0)
  BY PullSplit
<1> HIDE DEF x
<1>3. Split(y, 0, 0)
  BY <1>2, PullSplit
<1> HIDE DEF y
<1>4. QED
  BY <1>1, <1>3, PullSplit

\* Stops that are released leave pairs and queues alone.
LEMMA ReleaseWalks ==
  ASSUME NEW b, Sound(b), Sequenced(b), Split(b, 0, 0), NEW price \in Int, NEW top \in Nat
  PROVE  Sequenced(Release(b, price, top)) /\ Split(Release(b, price, top), 0, 0)
<1> DEFINE c == Release(b, price, top)
<1>1. /\ Sound(c) /\ c.live = b.live
      /\ \A i \in Ids :
           /\ SameOrder(b.ord[i], c.ord[i]) /\ c.ord[i].status = b.ord[i].status
           /\ \/ c.ord[i] = b.ord[i]
              \/ /\ b.ord[i].place \in {"armed", "trailing"}
                 /\ c.ord[i].place \in {b.ord[i].place, "triggered"}
  BY ReleaseSound
<1>2. Numbered(c)
  BY ReleaseStill DEF Sequenced
<1> HIDE DEF c
<1>3. \A i \in Ids : c.ord[i].place = "book" => c.ord[i] = b.ord[i]
  BY <1>1
<1>4. Sequenced(c)
  BY <1>2, <1>3 DEF Sequenced, Ranked
<1>5. SameBonds(b, c)
  BY <1>1 DEF SameBonds, SameTies, SameOrder
<1>6. Falls(b, c)
  BY <1>1 DEF Falls
<1>7. \A i \in Ids : Gone(b, i, 0, 0) => Gone(c, i, 0, 0)
  BY <1>1 DEF Gone
<1>8. Split(c, 0, 0)
  BY <1>5, <1>6, <1>7, SplitKept
<1>9. QED
  BY <1>4, <1>8 DEF c

LEMMA NextWalks ==
  ASSUME AIInv, Paired(book), BookWalks, Next
  PROVE  BookWalks'
<1>0. Walkable(book) /\ Sound(book) /\ Paired(book)
  BY WalkableBook
<1>1. IInv
  BY NextIsOutside
<1>2. Numbered(book')
  BY <1>1, MessageQueued, HandlerQueued DEF Next, Queued, BookWalks, Sequenced
<1>3. Ranked(book')
  BY <1>1, RankedStep DEF BookWalks, Sequenced
<1>4. Split(book', cur', todo')
  BY <1>0, <1>1, SplitStep DEF BookWalks
<1>5. QED
  BY <1>2, <1>3, <1>4 DEF BookWalks, Sequenced

LEMMA UncrossWalks ==
  ASSUME AIInv, Paired(book), BookWalks, UncrossStep
  PROVE  BookWalks'
<1>0. Walkable(book) /\ Sound(book) /\ Paired(book)
  BY WalkableBook
<1>1. cur = 0 /\ todo = 0 /\ cur' = 0 /\ todo' = 0 /\ UncrossOK
  BY DEF AIInv, UncrossOK, Uncrossing, UncrossStep, UncrossFill, UncrossSelfMatch, Unlock,
     UncrossEnds, UnlockEnds, FollowUp, UncrossPublished, Stay, dispatch
<1>2. Split(book, 0, 0) /\ Sequenced(book)
  BY <1>1 DEF BookWalks
<1>3. SUFFICES Sequenced(book') /\ Split(book', 0, 0)
  BY <1>1 DEF BookWalks
<1>4. ASSUME NEW bid \in Ids, NEW ask \in Ids, UncrossFill(bid, ask)
      PROVE  Sequenced(book') /\ Split(book', 0, 0)
  <2>1. Heads(book, bid, ask) /\ ~SelfMatched(book, bid, ask) /\ book' = FillBoth(book, bid, ask)
    BY <1>4 DEF UncrossFill, Meet
  <2>2. bid # ask /\ book.ord[bid].place = "book" /\ book.ord[ask].place = "book"
    BY <2>1, MeetFacts
  <2>3. QED
    BY <1>0, <1>2, <2>1, <2>2, FillSplit, FillWalks DEF Walkable
<1>5. ASSUME NEW bid \in Ids, NEW ask \in Ids,
             UncrossSelfMatch(bid, ask) \/ Unlock(bid, ask)
      PROVE  Sequenced(book') /\ Split(book', 0, 0)
  <2>1. /\ Heads(book, bid, ask) /\ SelfMatched(book, bid, ask)
        /\ book' = ResolveSelfMatch(book, bid, ask)
    BY <1>5 DEF UncrossSelfMatch, Unlock, Meet, Locked
  <2>2. QED
    BY <1>0, <1>2, <2>1, ResolveSplit, ResolveWalks DEF Walkable
<1>6. CASE UncrossEnds \/ UnlockEnds
  BY <1>2, <1>6 DEF UncrossEnds, UnlockEnds, Stay
<1>7. CASE FollowUp
  <2> DEFINE c == QuoteLegFilled(book, Head(hit))
  <2>1. Head(hit) \in Ids
    BY <1>7, HeadTailProperties DEF FollowUp, AIInv, AuctionTyped
  <2>2. book' = c /\ Sound(c) /\ Thinned(book, c) /\ Falls(book, c)
    BY <1>0, <1>7, <2>1, QuoteHookTouches, QuoteHookFalls DEF FollowUp
  <2> HIDE DEF c
  <2>3. QED
    BY <1>0, <1>2, <2>2, ThinnedSequenced, ThinnedSplit
<1>8. CASE UncrossPublished
  <2>1. last \in Int /\ released \in Nat
    <3>1. last \in Prices \cup {NoPrice} /\ released \in Nat
      BY <1>1 DEF UncrossOK
    <3>2. QED
      BY <3>1, PricesAssumption DEF NoPrice
  <2>2. book' \in {book, Release(book, last, released)}
    BY <1>8 DEF UncrossPublished
  <2>3. QED
    BY <1>0, <1>2, <2>1, <2>2, ReleaseWalks
<1>9. QED
  BY <1>4, <1>5, <1>6, <1>7, <1>8 DEF UncrossStep

LEMMA WalksStep ==
  ASSUME AIInv, Paired(book), BookWalks, [ANext]_avars
  PROVE  BookWalks'
<1>1. CASE UNCHANGED avars
  BY <1>1 DEF avars, vars, dispatch, BookWalks
<1>2. CASE CallPhaseEnds
  <2>1. book' = book /\ cur' = cur /\ todo' = todo
    BY <1>2 DEF CallPhaseEnds, StartUncross, dispatch
  <2>2. QED
    BY <2>1 DEF BookWalks
<1>3. QED
  BY <1>1, <1>2, NextWalks, UncrossWalks DEF ANext

LEMMA WalksInit ==
  ASSUME Init
  PROVE  BookWalks
<1>1. Sequenced(book)
  BY DEF Init, Sequenced, Numbered, Ranked, Absent
<1>2. QED
  BY <1>1, SplitInit DEF BookWalks

-----------------------------------------------------------------------------
(***************************************************************************)
(* The walk of the book follows the dry runs of the book it started from,  *)
(* at every price that both sides still cross: the dry run at that price   *)
(* has a state that mirrors the book, with the same quantity traded.       *)
(***************************************************************************)
BothCross(b, p) == Crossing(b, "BUY", p) # {} /\ Crossing(b, "SELL", p) # {}

Tracks(b0, b, p, n) ==
  \E d \in DryState(b0) :
     Mirrors(b0, b, p, d) /\ d.qty = n /\ DryWalk(b0)[d] = DryWalk(b0)[DryStart(b0, p)]

Shadowed(b0, b, n) ==
  /\ Walkable(b0) /\ From(b0, b)
  /\ \A p \in Prices : BothCross(b, p) => Tracks(b0, b, p, n)

Uncrossed(b) == \A i \in Bids(b), j \in Asks(b) : b.ord[i].price < b.ord[j].price

LEMMA FollowsStart ==
  ASSUME NEW b, Walkable(b)
  PROVE  Shadowed(b, b, 0) /\ \A p \in Prices : Tracks(b, b, p, 0)
<1>1. ASSUME NEW p \in Prices PROVE Tracks(b, b, p, 0)
  <2>1. Sound(b)
    BY DEF Walkable
  <2>2. DryStart(b, p) \in DryState(b) /\ DryStart(b, p).qty = 0
    BY <2>1, DryStartFacts
  <2>3. Mirrors(b, b, p, DryStart(b, p))
    BY <1>1, MirrorStart
  <2>4. QED
    BY <2>2, <2>3 DEF Tracks
<1>2. From(b, b)
  BY DEF From, Static, SameTerms, SameOrder
<1>3. QED
  BY <1>1, <1>2 DEF Shadowed

\* A price that both sides still cross after the heads have traded or were
\* pulled is one at which the heads met.
LEMMA MetBefore ==
  ASSUME NEW b, Walkable(b), NEW c, From(b, c), NEW p \in Prices, BothCross(c, p),
         NEW bid \in Ids, NEW ask \in Ids, Heads(b, bid, ask)
  PROVE  BothCross(b, p) /\ Meet(b, bid, ask, p)
<1>1. /\ Crossing(c, "BUY", p) \subseteq Crossing(b, "BUY", p)
      /\ Crossing(c, "SELL", p) \subseteq Crossing(b, "SELL", p)
  BY FromCrosses
<1>2. BothCross(b, p)
  BY <1>1 DEF BothCross
<1>3. Sound(b) /\ IsHead(b, bid, "BUY") /\ IsHead(b, ask, "SELL")
  BY DEF Walkable, Heads
<1>4. PICK i, j : i \in Crossing(b, "BUY", p) /\ j \in Crossing(b, "SELL", p)
  BY <1>2 DEF BothCross
<1>5. bid \in Crossing(b, "BUY", p)
  BY <1>3, <1>4, HeadCrosses DEF Sides
<1>6. ask \in Crossing(b, "SELL", p)
  BY <1>3, <1>4, HeadCrosses DEF Sides
<1>7. QED
  BY <1>2, <1>5, <1>6 DEF Meet

LEMMA FillFits ==
  ASSUME NEW b0, Walkable(b0), NEW b, Walkable(b), From(b0, b), NEW p \in Prices, NEW n,
         Tracks(b0, b, p, n), NEW bid \in Ids, NEW ask \in Ids, Meet(b, bid, ask, p),
         ~SelfMatched(b, bid, ask)
  PROVE  LET f == FillBoth(b, bid, ask)
         IN  Tracks(b0, f, p, n + (b.ord[bid].rem - f.ord[bid].rem))
<1> DEFINE f == FillBoth(b, bid, ask)
<1>1. Sound(b0)
  BY DEF Walkable
<1>2. PICK d \in DryState(b0) :
        Mirrors(b0, b, p, d) /\ d.qty = n /\ DryWalk(b0)[d] = DryWalk(b0)[DryStart(b0, p)]
  BY DEF Tracks
<1>3. DryPass(b0, d) \in DryState(b0) /\ DryWalk(b0)[DryPass(b0, d)] = DryWalk(b0)[d]
  BY <1>1, <1>2, MirrorMeets
<1>4. /\ Mirrors(b0, f, p, DryPass(b0, d))
      /\ DryPass(b0, d).qty = d.qty + (b.ord[bid].rem - f.ord[bid].rem)
  BY <1>1, <1>2, MirrorTrades
<1> HIDE DEF f
<1>5. Tracks(b0, f, p, n + (b.ord[bid].rem - f.ord[bid].rem))
  BY <1>2, <1>3, <1>4 DEF Tracks
<1>6. QED
  BY <1>5 DEF f

LEMMA PullFits ==
  ASSUME NEW b0, Walkable(b0), NEW b, Walkable(b), From(b0, b), NEW p \in Prices, NEW n,
         Tracks(b0, b, p, n), NEW bid \in Ids, NEW ask \in Ids, Meet(b, bid, ask, p),
         SelfMatched(b, bid, ask)
  PROVE  Tracks(b0, ResolveSelfMatch(b, bid, ask), p, n)
<1>1. Sound(b0)
  BY DEF Walkable
<1>2. PICK d \in DryState(b0) :
        Mirrors(b0, b, p, d) /\ d.qty = n /\ DryWalk(b0)[d] = DryWalk(b0)[DryStart(b0, p)]
  BY DEF Tracks
<1>3. DryPass(b0, d) \in DryState(b0) /\ DryWalk(b0)[DryPass(b0, d)] = DryWalk(b0)[d]
  BY <1>1, <1>2, MirrorMeets
<1>4. Mirrors(b0, ResolveSelfMatch(b, bid, ask), p, DryPass(b0, d)) /\ DryPass(b0, d).qty = d.qty
  BY <1>1, <1>2, MirrorPulls
<1>5. QED
  BY <1>2, <1>3, <1>4 DEF Tracks

LEMMA FillFollows ==
  ASSUME NEW b0, NEW b, Walkable(b), NEW n, Shadowed(b0, b, n),
         NEW bid \in Ids, NEW ask \in Ids, Heads(b, bid, ask), ~SelfMatched(b, bid, ask)
  PROVE  LET f == FillBoth(b, bid, ask)
         IN  Shadowed(b0, f, n + (b.ord[bid].rem - f.ord[bid].rem))
<1> DEFINE f == FillBoth(b, bid, ask)
           m == n + (b.ord[bid].rem - f.ord[bid].rem)
<1>1. From(b, f)
  BY FillWalks
<1>2. ASSUME NEW p \in Prices, BothCross(f, p) PROVE Tracks(b0, f, p, m)
  <2>1. BothCross(b, p) /\ Meet(b, bid, ask, p)
    BY <1>1, <1>2, MetBefore
  <2>2. Tracks(b0, b, p, n) /\ Walkable(b0) /\ From(b0, b)
    BY <2>1 DEF Shadowed
  <2>3. QED
    BY <2>1, <2>2, FillFits
<1> HIDE DEF f, m
<1>3. From(b0, f)
  BY <1>1, FromTransitive DEF Shadowed
<1>4. Shadowed(b0, f, m)
  BY <1>2, <1>3 DEF Shadowed
<1>5. QED
  BY <1>4 DEF f, m

LEMMA PullFollows ==
  ASSUME NEW b0, NEW b, Walkable(b), NEW n, Shadowed(b0, b, n),
         NEW bid \in Ids, NEW ask \in Ids, Heads(b, bid, ask), SelfMatched(b, bid, ask)
  PROVE  Shadowed(b0, ResolveSelfMatch(b, bid, ask), n)
<1> DEFINE c == ResolveSelfMatch(b, bid, ask)
<1>1. From(b, c)
  BY ResolveWalks
<1>2. ASSUME NEW p \in Prices, BothCross(c, p) PROVE Tracks(b0, c, p, n)
  <2>1. BothCross(b, p) /\ Meet(b, bid, ask, p)
    BY <1>1, <1>2, MetBefore
  <2>2. Tracks(b0, b, p, n) /\ Walkable(b0) /\ From(b0, b)
    BY <2>1 DEF Shadowed
  <2>3. QED
    BY <2>1, <2>2, PullFits
<1> HIDE DEF c
<1>3. From(b0, c)
  BY <1>1, FromTransitive DEF Shadowed
<1>4. Shadowed(b0, c, n)
  BY <1>2, <1>3 DEF Shadowed
<1>5. QED
  BY <1>4 DEF c

\* Where the walk ends at price p the dry run ends too.
LEMMA WalkEnds ==
  ASSUME NEW b0, Walkable(b0), NEW b, Walkable(b), From(b0, b), NEW p \in Prices, NEW n,
         Tracks(b0, b, p, n), ~\E bid, ask \in Ids : Meet(b, bid, ask, p)
  PROVE  DryQty(b0, p) = n
<1>1. Sound(b0) /\ Sound(b) /\ Static(b0, b)
  BY DEF Walkable, From
<1>2. PICK d \in DryState(b0) :
        Mirrors(b0, b, p, d) /\ d.qty = n /\ DryWalk(b0)[d] = DryWalk(b0)[DryStart(b0, p)]
  BY DEF Tracks
<1>3. DryOver(b0, d)
  BY <1>1, <1>2, MirrorOver
<1>4. DryWalk(b0)[d] = d
  BY <1>1, <1>3, DryWalkStep
<1>5. QED
  BY <1>2, <1>4 DEF DryQty

\* Two heads that may trade with each other at price p: at that price the
\* dry run finds more than was traded so far.
LEMMA MoreToTrade ==
  ASSUME NEW b0, Walkable(b0), NEW b, Walkable(b), From(b0, b), NEW p \in Prices, NEW n \in Nat,
         Tracks(b0, b, p, n), NEW bid \in Ids, NEW ask \in Ids, Meet(b, bid, ask, p),
         ~SelfMatched(b, bid, ask)
  PROVE  DryQty(b0, p) > n
<1>1. Sound(b0)
  BY DEF Walkable
<1>2. PICK d \in DryState(b0) :
        Mirrors(b0, b, p, d) /\ d.qty = n /\ DryWalk(b0)[d] = DryWalk(b0)[DryStart(b0, p)]
  BY DEF Tracks
<1> DEFINE e == DryPass(b0, d)
           w == DryWalk(b0)[e]
<1>3. e \in DryState(b0) /\ w = DryWalk(b0)[d]
  BY <1>1, <1>2, MirrorMeets
<1>4. e.qty > d.qty
  BY <1>1, <1>2, MirrorTrades
<1> HIDE DEF e
<1>5. w \in DryState(b0) /\ e.qty <= w.qty
  BY <1>1, <1>3, DryWalkBounded DEF DryBounded
<1>6. e.qty \in Nat /\ w.qty \in Nat /\ DryQty(b0, p) = w.qty
  BY <1>2, <1>3, <1>5 DEF DryState, DryQty
<1> HIDE DEF w
<1>7. QED
  BY <1>2, <1>4, <1>5, <1>6

\* A book followed to its end, at a price at which a dry run finds the most,
\* is not crossed once no self-match holds its heads.
LEMMA FollowedUncrossed ==
  ASSUME NEW b0, NEW b, Walkable(b), NEW n \in Nat, Shadowed(b0, b, n),
         \A p \in Candidates(b0) : DryQty(b0, p) <= n,
         ~\E bid, ask \in Ids : Locked(b, bid, ask)
  PROVE  Uncrossed(b)
<1>1. SUFFICES ASSUME NEW i \in Bids(b), NEW j \in Asks(b), b.ord[i].price >= b.ord[j].price
               PROVE  FALSE
  <2>1. Sound(b)
    BY DEF Walkable
  <2>2. ASSUME NEW i \in Bids(b), NEW j \in Asks(b)
        PROVE  b.ord[i].price \in Nat /\ b.ord[j].price \in Nat
    BY <2>1, <2>2, Rests DEF Bids, Asks, Resting
  <2>3. QED
    BY <2>2 DEF Uncrossed
<1> DEFINE p == b.ord[i].price
<1>2. Walkable(b0) /\ From(b0, b) /\ Static(b0, b) /\ Sound(b) /\ Sound(b0)
  BY DEF Shadowed, Walkable, From
<1>3. /\ i \in Ids /\ j \in Ids /\ b.ord[i].place = "book" /\ b.ord[j].place = "book"
      /\ b.ord[i].side = "BUY" /\ b.ord[j].side = "SELL"
  BY DEF Bids, Asks, Resting
<1>4. p \in Prices /\ p \in Nat /\ b.ord[j].price \in Nat
  BY <1>2, <1>3, Rests
<1>5. i \in Crossing(b, "BUY", p) /\ j \in Crossing(b, "SELL", p)
  BY <1>1, <1>2, <1>3, <1>4, Crosses
<1>6. BothCross(b, p)
  BY <1>5 DEF BothCross
<1>7. PICK bid \in Ids, ask \in Ids : Meet(b, bid, ask, p)
  BY <1>2, <1>4, <1>6, CrossingMeets DEF BothCross
<1>8. b.ord[bid].price >= b.ord[ask].price
  <2>1. b.ord[bid].price >= p /\ b.ord[ask].price <= p
    BY <1>2, <1>4, <1>7, Crosses DEF Meet
  <2>2. b.ord[bid].place = "book" /\ b.ord[ask].place = "book"
    BY <1>7, MeetFacts DEF Meet
  <2>3. b.ord[bid].price \in Nat /\ b.ord[ask].price \in Nat
    BY <1>2, <2>2, Rests
  <2>4. QED
    BY <1>4, <2>1, <2>3
<1>9. ~SelfMatched(b, bid, ask)
  BY <1>7, <1>8 DEF Locked, Meet
<1>10. Tracks(b0, b, p, n)
  BY <1>4, <1>6 DEF Shadowed
<1>11. DryQty(b0, p) > n
  BY <1>2, <1>4, <1>7, <1>9, <1>10, MoreToTrade
<1>12. p \in Candidates(b0)
  <2>1. /\ b0.ord[i].price = p /\ b0.ord[j].price = b.ord[j].price
        /\ b0.ord[i].side = "BUY" /\ b0.ord[j].side = "SELL"
    BY <1>2, <1>3 DEF Static, SameTerms, SameOrder
  <2>2. b0.ord[i].place = "book" /\ b0.ord[j].place = "book"
    BY <1>2, <1>3 DEF From
  <2>3. i \in Bids(b0) /\ j \in Asks(b0)
    BY <1>3, <2>1, <2>2 DEF Bids, Asks, Resting
  <2>4. QED
    BY <1>1, <1>2, <2>1, <2>3, CrossedCandidate
<1>13. DryQty(b0, p) <= n
  BY <1>12
<1>14. DryQty(b0, p) \in Nat
  <2>1. DryWalk(b0)[DryStart(b0, p)] \in DryState(b0)
    BY <1>2, DryStartFacts, DryWalkBounded DEF DryBounded
  <2>2. QED
    BY <2>1 DEF DryState, DryQty
<1> HIDE DEF p
<1>15. QED
  BY <1>11, <1>13, <1>14

-----------------------------------------------------------------------------
(***************************************************************************)
(* The uncross in the engine.                                              *)
(***************************************************************************)

\* The running walk started from book b0, at the price at which a dry run of
\* b0 finds the most.
WalkFrom(b0) ==
  /\ Shadowed(b0, book, printed)
  /\ promised = DryQty(b0, eq)
  /\ \A p \in Candidates(b0) : DryQty(b0, p) <= promised
  /\ pc = "uncross" => Tracks(b0, book, eq, printed)

UInv ==
  /\ promised \in Nat
  /\ pc \in {"uncross", "unlock"} => \E b0 \in Book : WalkFrom(b0)
  /\ IndicativePrints
  /\ matching /\ pc \notin {"uncross", "unlock"} => Uncrossed(book)

LEMMA FromUncrossed ==
  ASSUME NEW b, NEW c, From(b, c), Uncrossed(b)
  PROVE  Uncrossed(c)
BY DEF From, Static, SameTerms, SameOrder, Uncrossed, Bids, Asks, Resting

\* An uncross starts from the book as it is; where no price is found the
\* book is not crossed.
LEMMA WalkBegins ==
  ASSUME AIInv, Paired(book), BookWalks, promised \in Nat, pc = "idle",
         NEW e \in Equilibria(book),
         IF e.price # NoPrice THEN StartUncross(e.price, e.qty)
         ELSE UNCHANGED <<book, pc, promised>>
  PROVE  UInv' /\ (pc' \notin {"uncross", "unlock"} => Uncrossed(book'))
<1>1. Walkable(book) /\ Sound(book)
  BY WalkableBook
<1>2. /\ e.qty \in Nat
      /\ e.price = NoPrice => Candidates(book) = {}
      /\ e.price # NoPrice => /\ e.price \in Prices /\ e.qty = DryQty(book, e.price)
                              /\ \A p \in Candidates(book) : DryQty(book, p) <= e.qty
  BY <1>1, EquilibriumFacts
<1>3. CASE e.price # NoPrice
  <2>1. /\ eq' = e.price /\ promised' = e.qty /\ printed' = 0 /\ pc' = "uncross" /\ book' = book
    BY <1>3 DEF StartUncross
  <2>2. Shadowed(book, book', 0) /\ Tracks(book, book', e.price, 0)
    BY <1>1, <1>2, <1>3, <2>1, FollowsStart
  <2>3. /\ Shadowed(book, book', printed') /\ promised' = DryQty(book, eq')
        /\ \A p \in Candidates(book) : DryQty(book, p) <= promised'
        /\ Tracks(book, book', eq', printed')
    BY <1>2, <1>3, <2>1, <2>2
  <2>4. book \in Book
    BY <1>1 DEF Sound
  <2>5. \E b0 \in Book : WalkFrom(b0)'
    BY <2>3, <2>4 DEF WalkFrom
  <2>6. QED
    BY <1>2, <2>1, <2>5 DEF UInv, IndicativePrints
<1>4. CASE e.price = NoPrice
  <2>1. pc' = "idle" /\ book' = book /\ promised' = promised
    BY <1>4
  <2>2. Uncrossed(book)
    <3>1. SUFFICES ASSUME NEW i \in Bids(book), NEW j \in Asks(book)
                   PROVE  ~(book.ord[i].price >= book.ord[j].price)
      <4>1. ASSUME NEW i \in Bids(book), NEW j \in Asks(book)
            PROVE  book.ord[i].price \in Nat /\ book.ord[j].price \in Nat
        BY <1>1, <4>1, Rests DEF Bids, Asks, Resting
      <4>2. QED
        BY <3>1, <4>1 DEF Uncrossed
    <3>2. Candidates(book) = {}
      BY <1>2, <1>4
    <3>3. QED
      BY <1>1, <3>2, CrossedCandidate
  <2>3. QED
    BY <2>1, <2>2 DEF UInv, IndicativePrints
<1>5. QED
  BY <1>3, <1>4

LEMMA WalkStarts ==
  ASSUME AIInv, Paired(book), BookWalks, UInv, CallPhaseEnds
  PROVE  UInv'
<1>1. promised \in Nat /\ pc = "idle"
  BY DEF UInv, CallPhaseEnds
<1>2. PICK e \in Equilibria(book) :
        IF e.price # NoPrice
        THEN StartUncross(e.price, e.qty)
        ELSE /\ matching' = TRUE
             /\ UNCHANGED <<book, last, hasStops, born, dispatch, auction>>
  BY DEF CallPhaseEnds
<1>3. IF e.price # NoPrice THEN StartUncross(e.price, e.qty)
      ELSE UNCHANGED <<book, pc, promised>>
  BY <1>2 DEF dispatch, auction
<1>4. QED
  BY <1>1, <1>3, WalkBegins

\* A pass of the walk, before and after what remains at the price.
LEMMA WalkFills ==
  ASSUME AIInv, Paired(book), BookWalks, UInv, NEW bid \in Ids, NEW ask \in Ids,
         UncrossFill(bid, ask)
  PROVE  UInv'
<1> DEFINE m == printed + (order(bid).rem - book'.ord[bid].rem)
<1>1. Walkable(book) /\ Sound(book)
  BY WalkableBook
<1>2. /\ pc = "uncross" /\ Meet(book, bid, ask, eq) /\ Heads(book, bid, ask)
      /\ ~SelfMatched(book, bid, ask) /\ book' = FillBoth(book, bid, ask)
      /\ printed' = m /\ pc' = pc /\ eq' = eq /\ promised' = promised
  BY DEF UncrossFill, Meet, dispatch
<1>3. PICK b0 \in Book : WalkFrom(b0)
  BY <1>2 DEF UInv
<1>4. eq \in Prices
  BY <1>2 DEF AIInv, AuctionTyped, Uncrossing
<1>5. Shadowed(b0, book', m)
  BY <1>1, <1>2, <1>3, FillFollows DEF WalkFrom, order
<1>6. Tracks(b0, book', eq, m)
  <2>1. Tracks(b0, book, eq, printed) /\ Walkable(b0) /\ From(b0, book)
    BY <1>2, <1>3 DEF WalkFrom, Shadowed
  <2>2. QED
    BY <1>1, <1>2, <1>4, <2>1, FillFits DEF order
<1> HIDE DEF m
<1>7. WalkFrom(b0)'
  BY <1>2, <1>3, <1>5, <1>6 DEF WalkFrom
<1>8. QED
  BY <1>2, <1>7 DEF UInv, IndicativePrints

LEMMA WalkPulls ==
  ASSUME AIInv, Paired(book), BookWalks, UInv, NEW bid \in Ids, NEW ask \in Ids,
         UncrossSelfMatch(bid, ask) \/ Unlock(bid, ask)
  PROVE  UInv'
<1>1. Walkable(book)
  BY WalkableBook
<1>2. /\ pc \in {"uncross", "unlock"} /\ Heads(book, bid, ask)
      /\ pc = "uncross" => Meet(book, bid, ask, eq)
      /\ SelfMatched(book, bid, ask) /\ book' = ResolveSelfMatch(book, bid, ask)
      /\ printed' = printed /\ pc' = pc /\ eq' = eq /\ promised' = promised
  BY DEF UncrossSelfMatch, Unlock, Meet, Locked, dispatch, auction
<1>3. PICK b0 \in Book : WalkFrom(b0)
  BY <1>2 DEF UInv
<1>4. eq \in Prices
  BY <1>2 DEF AIInv, AuctionTyped, Uncrossing
<1>5. Shadowed(b0, book', printed)
  BY <1>1, <1>2, <1>3, PullFollows DEF WalkFrom
<1>6. pc = "uncross" => Tracks(b0, book', eq, printed)
  <2>1. SUFFICES ASSUME pc = "uncross" PROVE Tracks(b0, book', eq, printed)
    OBVIOUS
  <2>2. Tracks(b0, book, eq, printed) /\ Walkable(b0) /\ From(b0, book)
    BY <1>3, <2>1 DEF WalkFrom, Shadowed
  <2>3. QED
    BY <1>1, <1>2, <1>4, <2>1, <2>2, PullFits
<1>7. WalkFrom(b0)'
  BY <1>2, <1>3, <1>5, <1>6 DEF WalkFrom
<1>8. QED
  BY <1>2, <1>7 DEF UInv, IndicativePrints

LEMMA WalkMovesOn ==
  ASSUME AIInv, Paired(book), BookWalks, UInv, UncrossEnds \/ UnlockEnds
  PROVE  UInv'
<1>1. Walkable(book)
  BY WalkableBook
<1>2. /\ pc \in {"uncross", "unlock"} /\ book' = book
      /\ printed' = printed /\ eq' = eq /\ promised' = promised
  BY DEF UncrossEnds, UnlockEnds, Stay, auction
<1>3. PICK b0 \in Book : WalkFrom(b0)
  BY <1>2 DEF UInv
<1>4. eq \in Prices /\ printed \in Nat
  BY <1>2 DEF AIInv, AuctionTyped, Uncrossing
<1>5. CASE UncrossEnds
  <2>1. pc = "uncross" /\ pc' = "unlock" /\ ~\E bid, ask \in Ids : Meet(book, bid, ask, eq)
    BY <1>5 DEF UncrossEnds, Stay
  <2>2. Tracks(b0, book, eq, printed) /\ Walkable(b0) /\ From(b0, book)
    BY <1>3, <2>1 DEF WalkFrom, Shadowed
  <2>3. DryQty(b0, eq) = printed
    BY <1>1, <1>4, <2>1, <2>2, WalkEnds
  <2>4. WalkFrom(b0)'
    BY <1>2, <1>3, <2>1 DEF WalkFrom
  <2>5. QED
    BY <1>2, <1>3, <2>1, <2>3, <2>4 DEF UInv, IndicativePrints, WalkFrom
<1>6. CASE UnlockEnds
  <2>1. /\ pc = "unlock" /\ pc' = "follow-up"
        /\ ~\E bid, ask \in Ids : Locked(book, bid, ask)
    BY <1>6 DEF UnlockEnds, Stay
  <2>2. printed = promised
    BY <2>1 DEF UInv, IndicativePrints
  <2>3. Uncrossed(book)
    BY <1>1, <1>3, <1>4, <2>1, <2>2, FollowedUncrossed DEF WalkFrom
  <2>4. QED
    BY <1>2, <2>1, <2>2, <2>3 DEF UInv, IndicativePrints
<1>7. QED
  BY <1>5, <1>6

\* Quotes that are inactivated and stops that are released cross nothing.
LEMMA AfterTheWalk ==
  ASSUME AIInv, Paired(book), BookWalks, UInv, FollowUp \/ UncrossPublished
  PROVE  UInv'
<1>1. Walkable(book) /\ Sound(book) /\ Paired(book)
  BY WalkableBook
<1>2. pc = "follow-up" /\ Uncrossing
  BY DEF FollowUp, UncrossPublished, Uncrossing
<1>3. UncrossOK /\ Uncrossed(book) /\ promised \in Nat /\ printed = promised
  BY <1>2 DEF AIInv, UncrossOK, UInv, IndicativePrints
<1>4. CASE FollowUp
  <2> DEFINE c == QuoteLegFilled(book, Head(hit))
  <2>1. Head(hit) \in Ids
    BY <1>4, HeadTailProperties DEF FollowUp, AIInv, AuctionTyped
  <2>2. Sound(c) /\ Thinned(book, c)
    BY <1>1, <2>1, QuoteHookTouches, QuoteHookFalls
  <2>3. /\ book' = c /\ pc' = "follow-up" /\ promised' = promised /\ printed' = printed
    BY <1>4 DEF FollowUp, dispatch
  <2> HIDE DEF c
  <2>4. Uncrossed(book')
    BY <1>1, <1>3, <2>2, <2>3, ThinnedWalks, FromUncrossed
  <2>5. QED
    BY <1>3, <2>3, <2>4 DEF UInv, IndicativePrints
<1>5. CASE UncrossPublished
  <2> DEFINE r == Release(book, last, released)
  <2>1. last \in Int /\ released \in Nat
    <3>1. last \in Prices \cup {NoPrice} /\ released \in Nat
      BY <1>3 DEF UncrossOK
    <3>2. QED
      BY <3>1, PricesAssumption DEF NoPrice
  <2>2. book' \in {book, r} /\ pc' = "next" /\ promised' = 0
    BY <1>5 DEF UncrossPublished
  <2>3. \A i \in Ids : r.ord[i].place = "book" => r.ord[i] = book.ord[i]
    BY <1>1, <2>1, ReleaseSound
  <2> HIDE DEF r
  <2>4. Uncrossed(book')
    BY <1>3, <2>2, <2>3 DEF Uncrossed, Bids, Asks, Resting
  <2>5. QED
    BY <2>2, <2>4 DEF UInv, IndicativePrints
<1>6. QED
  BY <1>4, <1>5

LEMMA OutsideStep ==
  ASSUME AIInv, UInv, Exact(book), Next, UNCHANGED auction
  PROVE  UInv'
<1>1. ~Uncrossing /\ IInv /\ IInv' /\ ~Uncrossing'
  BY NextIsOutside
<1>2. NeverCrossed
  BY <1>1 DEF UInv, Uncrossing, Uncrossed, NeverCrossed, Bids, Asks, order
<1>3. NeverCrossed'
  BY <1>1, <1>2, FaithfulStep
<1>4. matching' => Uncrossed(book')
  BY <1>3 DEF Uncrossed, NeverCrossed, Bids, Asks, order, Resting
<1>5. QED
  BY <1>1, <1>4 DEF UInv, Uncrossing, auction, IndicativePrints

LEMMA UInvStep ==
  ASSUME AIInv, Paired(book), BookWalks, Exact(book), UInv, [ANext]_avars
  PROVE  UInv'
<1>1. CASE UNCHANGED avars
  <2>1. UNCHANGED <<book, matching, pc, eq, promised, printed>>
    BY <1>1 DEF avars, vars, dispatch, auction
  <2>2. \A b0 \in Book : WalkFrom(b0) => WalkFrom(b0)'
    BY <2>1 DEF WalkFrom
  <2>3. QED
    BY <2>1, <2>2 DEF UInv, IndicativePrints
<1>2. CASE Next /\ UNCHANGED auction
  BY <1>2, OutsideStep
<1>3. CASE CallPhaseEnds
  BY <1>3, WalkStarts
<1>4. CASE UncrossStep
  BY <1>4, WalkFills, WalkPulls, WalkMovesOn, AfterTheWalk DEF UncrossStep
<1>5. QED
  BY <1>1, <1>2, <1>3, <1>4 DEF ANext

LEMMA UInvInit ==
  ASSUME AInit
  PROVE  UInv
BY DEF AInit, AuctionIdle, Init, UInv, IndicativePrints

-----------------------------------------------------------------------------
(***************************************************************************)
(* The theorems.                                                           *)
(***************************************************************************)
AuctionInv == AIInv /\ APairInv /\ BookWalks /\ Exact(book) /\ UInv

LEMMA AuctionInvHolds == ASpec => []AuctionInv
<1>1. AInit => APairInv /\ BookWalks /\ Exact(book) /\ UInv
  <2>1. AInit => APairInv
    BY PairsInit DEF AInit, Init, APairInv, Uncrossing
  <2>2. AInit => BookWalks /\ Exact(book)
    BY WalksInit, FaithfulInit DEF AInit
  <2>3. QED
    BY <2>1, <2>2, UInvInit
<1>2. AIInv /\ APairInv /\ [ANext]_avars => APairInv'
  BY AuctionPairs
<1>3. AIInv /\ APairInv /\ BookWalks /\ [ANext]_avars => BookWalks'
  BY WalksStep DEF APairInv, PairInv
<1>4. AIInv /\ Exact(book) /\ [ANext]_avars => Exact(book)'
  <2>1. ASSUME AIInv, Exact(book), [ANext]_avars PROVE Exact(book')
    BY <2>1, AuctionSteps, ExactStep, UncrossExact DEF avars, vars
  <2>2. QED
    BY <2>1 DEF Exact, ShownAt, Shares
<1>5. AIInv /\ APairInv /\ BookWalks /\ Exact(book) /\ UInv /\ [ANext]_avars => UInv'
  BY UInvStep DEF APairInv, PairInv
<1>6. QED
  BY <1>1, <1>2, <1>3, <1>4, <1>5, AuctionInvariance, PTL DEF ASpec, AuctionInv

\* What the dry run promised on a copy of the book is what the walk of the
\* book prints, whatever self-matches, pairs and icebergs it meets.
THEOREM IndicativeIsPrinted == ASpec => []IndicativePrints
<1>1. AuctionInv => IndicativePrints
  BY DEF AuctionInv, UInv
<1>2. QED
  BY <1>1, AuctionInvHolds, PTL

\* When the uncross is done no resting bid reaches a resting ask, and none
\* does for as long as the market then matches.
THEOREM MarketOpensUncrossed == ASpec => []OpensUncrossed
<1>1. AuctionInv => OpensUncrossed
  BY DEF AuctionInv, UInv, OpensUncrossed, Uncrossed, order
<1>2. QED
  BY <1>1, AuctionInvHolds, PTL

LEMMA AuctionTypes ==
  ASSUME AIInv, promised \in Nat
  PROVE  ATypeOK
<1>1. book \in Book
  BY AuctionSound DEF Sound
<1>2. eq \in Prices \cup {NoPrice} /\ printed \in Nat /\ hit \in Seq(Ids)
  BY DEF AIInv, AuctionTyped
<1>3. /\ last \in Prices \cup {NoPrice}
      /\ hasStops \in BOOLEAN /\ matching \in BOOLEAN /\ traded \in BOOLEAN
      /\ clearing \subseteq Ids /\ released \in Nat
  BY DEF AIInv, UncrossOK, IInv, TypeOK
<1>4. born \in 0 .. MaxOrders /\ cur \in 0 .. MaxOrders /\ todo \in 0 .. MaxOrders
  <2>1. CASE Uncrossing
    <3>1. born \in 0 .. MaxOrders /\ cur = 0 /\ todo = 0
      BY <2>1 DEF AIInv, UncrossOK
    <3>2. QED
      BY <3>1, MaxOrdersAssumption
  <2>2. CASE ~Uncrossing
    BY <2>2 DEF AIInv, IInv, TypeOK
  <2>3. QED
    BY <2>1, <2>2
<1>5. pc \in Pcs \cup {"uncross", "unlock", "follow-up"}
  BY DEF AIInv, IInv, TypeOK, Uncrossing
<1>6. QED
  BY <1>1, <1>2, <1>3, <1>4, <1>5 DEF ATypeOK

\* Every variable of a market with call auctions keeps its type.
THEOREM AuctionTypeCorrect == ASpec => []ATypeOK
<1>1. AuctionInv => ATypeOK
  BY AuctionTypes DEF AuctionInv, UInv
<1>2. QED
  BY <1>1, AuctionInvHolds, PTL

-----------------------------------------------------------------------------
(***************************************************************************)
(* A function defined step by step on the natural numbers, without the     *)
(* induction theorems: what is so of 0 and of every successor is so of     *)
(* all, since of finite sets of exceptions one is least.                   *)
(***************************************************************************)
LEMMA AllNumbers ==
  ASSUME NEW T \in SUBSET Nat, 0 \in T, \A k \in T : k + 1 \in T
  PROVE  T = Nat
<1> DEFINE upto(n) == 0 .. n
           C == {upto(n) : n \in Nat \ T}
<1>1. SUFFICES ASSUME Nat \ T # {} PROVE FALSE
  OBVIOUS
<1>2. C # {} /\ \A U \in C : IsFiniteSet(U)
  <2>1. \A n \in Nat : IsFiniteSet(upto(n))
    BY FS_Interval
  <2> HIDE DEF upto
  <2>2. QED
    BY <1>1, <2>1
<1>3. PICK U \in C : \A V \in C : V \subseteq U => V = U
  <2> HIDE DEF C
  <2>1. QED
    BY <1>2, LeastSet
<1>4. PICK n \in Nat \ T : U = upto(n)
  OBVIOUS
<1>5. n # 0 /\ n - 1 \in Nat /\ (n - 1) + 1 = n
  BY <1>4
<1>6. n - 1 \in Nat \ T
  BY <1>4, <1>5
<1>7. upto(n - 1) \in C
  BY <1>6
<1>8. upto(n - 1) \subseteq upto(n) /\ n \in upto(n) /\ n \notin upto(n - 1)
  BY <1>5
<1>9. QED
  BY <1>3, <1>4, <1>7, <1>8

\* A step repeated from a start has a history.
LEMMA Histories ==
  ASSUME NEW S, NEW start \in S, NEW g \in [S -> S]
  PROVE  \E f \in [Nat -> S] : f[0] = start /\ \A k \in Nat : f[k + 1] = g[f[k]]
<1> DEFINE Pairs == Nat \X S
           Closed(R) == /\ <<0, start>> \in R
                        /\ \A k \in Nat, x \in S : <<k, x>> \in R => <<k + 1, g[x]>> \in R
           G == {c \in Pairs : \A R \in SUBSET Pairs : Closed(R) => c \in R}
           One(k) == \E x \in S : <<k, x>> \in G /\ \A y \in S : <<k, y>> \in G => y = x
           T == {k \in Nat : One(k)}
<1>1. Closed(G) /\ G \in SUBSET Pairs
  <2>1. G \in SUBSET Pairs /\ <<0, start>> \in G
    OBVIOUS
  <2>2. ASSUME NEW k \in Nat, NEW x \in S, <<k, x>> \in G
        PROVE  <<k + 1, g[x]>> \in G
    <3>1. <<k + 1, g[x]>> \in Pairs
      OBVIOUS
    <3>2. ASSUME NEW R \in SUBSET Pairs, Closed(R)
          PROVE  <<k + 1, g[x]>> \in R
      <4>1. <<k, x>> \in R
        BY <2>2, <3>2
      <4>2. QED
        BY <3>2, <4>1
    <3> HIDE DEF Closed
    <3>3. QED
      BY <3>1, <3>2
  <2> HIDE DEF G
  <2>3. QED
    BY <2>1, <2>2
<1>2. ASSUME NEW c \in Pairs, Closed(G \ {c})
      PROVE  c \notin G
  <2>1. G \ {c} \in SUBSET Pairs
    BY <1>1
  <2>2. QED
    BY <1>2, <2>1
<1> HIDE DEF G
<1>3. One(0)
  <2>1. ASSUME NEW y \in S, <<0, y>> \in G, y # start
        PROVE  FALSE
    <3>1. \A k \in Nat, x \in S : <<k + 1, g[x]>> # <<0, y>>
      OBVIOUS
    <3>2. Closed(G \ {<<0, y>>})
      BY <1>1, <2>1, <3>1
    <3>3. QED
      BY <1>2, <2>1, <3>2
  <2>2. QED
    BY <1>1, <2>1
<1>4. ASSUME NEW k \in Nat, One(k)
      PROVE  One(k + 1)
  <2>1. PICK x \in S : <<k, x>> \in G /\ \A y \in S : <<k, y>> \in G => y = x
    BY <1>4
  <2>2. <<k + 1, g[x]>> \in G /\ g[x] \in S
    BY <1>1, <2>1
  <2>3. ASSUME NEW y \in S, <<k + 1, y>> \in G, y # g[x]
        PROVE  FALSE
    <3> DEFINE c == <<k + 1, y>>
    <3>1. c \in Pairs /\ c # <<0, start>>
      OBVIOUS
    <3>2. ASSUME NEW j \in Nat, NEW z \in S, <<j, z>> \in G \ {c}
          PROVE  <<j + 1, g[z]>> \in G \ {c}
      <4>1. <<j + 1, g[z]>> \in G
        BY <1>1, <3>2
      <4>2. ASSUME <<j + 1, g[z]>> = c PROVE FALSE
        <5>1. j = k /\ g[z] = y
          BY <4>2
        <5>2. QED
          BY <2>1, <2>3, <3>2, <5>1
      <4>3. QED
        BY <4>1, <4>2
    <3>3. <<0, start>> \in G \ {c}
      BY <1>1, <3>1
    <3> HIDE DEF c
    <3>4. Closed(G \ {c})
      BY <3>2, <3>3
    <3>5. QED
      BY <1>2, <2>3, <3>1, <3>4 DEF c
  <2>4. QED
    BY <2>2, <2>3
<1> HIDE DEF One
<1>5. T = Nat
  <2>1. T \in SUBSET Nat /\ 0 \in T /\ \A k \in T : k + 1 \in T
    BY <1>3, <1>4
  <2> HIDE DEF T
  <2>2. QED
    BY <2>1, AllNumbers
<1>6. \A k \in Nat : One(k)
  BY <1>5
<1> DEFINE f == [k \in Nat |-> CHOOSE x \in S : <<k, x>> \in G]
<1>7. ASSUME NEW k \in Nat
      PROVE  f[k] \in S /\ <<k, f[k]>> \in G /\ \A y \in S : <<k, y>> \in G => y = f[k]
  <2>1. PICK x \in S : <<k, x>> \in G /\ \A y \in S : <<k, y>> \in G => y = x
    BY <1>6 DEF One
  <2>2. f[k] = CHOOSE y \in S : <<k, y>> \in G
    OBVIOUS
  <2> HIDE DEF f
  <2>3. QED
    BY <2>1, <2>2
<1>8. f \in [Nat -> S]
  <2>1. ASSUME NEW k \in Nat
        PROVE  (CHOOSE x \in S : <<k, x>> \in G) \in S
    <3>1. f[k] = CHOOSE x \in S : <<k, x>> \in G
      OBVIOUS
    <3> HIDE DEF f
    <3>2. QED
      BY <1>7, <3>1
  <2>2. QED
    BY <2>1
<1> HIDE DEF f
<1>9. f[0] = start
  BY <1>1, <1>7
<1>10. ASSUME NEW k \in Nat
       PROVE  f[k + 1] = g[f[k]]
  <2>1. f[k] \in S /\ <<k, f[k]>> \in G /\ k + 1 \in Nat
    BY <1>7
  <2>2. <<k + 1, g[f[k]]>> \in G /\ g[f[k]] \in S
    BY <1>1, <2>1
  <2>3. QED
    BY <1>7, <2>1, <2>2
<1>11. QED
  BY <1>8, <1>9, <1>10

-----------------------------------------------------------------------------
(***************************************************************************)
(* No walk trades more than the equilibrium promises, at whatever price.   *)
(***************************************************************************)

\* A walk at any price, that has traded no more than the most that a dry run
\* finds at a candidate price.
NoMoreThan(b0, m) ==
  {x \in [book : Book, qty : Nat] :
     Walkable(x.book) /\ Shadowed(b0, x.book, x.qty) /\ x.qty <= m}

LEMMA FillBounded ==
  ASSUME NEW b0, NEW m \in Nat, \A q \in Candidates(b0) : DryQty(b0, q) <= m,
         NEW b, Walkable(b), NEW n \in Nat, Shadowed(b0, b, n), NEW p \in Prices,
         NEW bid \in Ids, NEW ask \in Ids, Meet(b, bid, ask, p), ~SelfMatched(b, bid, ask)
  PROVE  LET q == b.ord[bid].rem - FillBoth(b, bid, ask).ord[bid].rem
         IN  n + q \in Nat /\ n + q <= m
<1> DEFINE f == FillBoth(b, bid, ask)
           x == n + (b.ord[bid].rem - f.ord[bid].rem)
           r == b.ord[bid].price
<1>1. Sound(b) /\ Sound(b0) /\ Walkable(b0) /\ From(b0, b)
  BY DEF Walkable, Shadowed
<1>2. /\ bid \in Bids(b) /\ ask \in Asks(b) /\ b.ord[bid].place = "book"
      /\ b.ord[bid].price >= p /\ b.ord[ask].price <= p
      /\ bid \in Ids /\ ask \in Ids /\ b.ord[ask].place = "book"
  BY <1>1, Crosses DEF Meet, Bids, Asks, Resting
<1>3. r \in Prices /\ r \in Nat /\ p \in Nat /\ b.ord[ask].price \in Nat
  BY <1>1, <1>2, Rests, PricesAssumption
<1>4. b.ord[ask].price <= r
  BY <1>2, <1>3
<1>5. bid \in Crossing(b, "BUY", r) /\ ask \in Crossing(b, "SELL", r)
  BY <1>1, <1>2, <1>3, <1>4, Crosses
<1>6. Meet(b, bid, ask, r) /\ BothCross(b, r)
  BY <1>5 DEF Meet, BothCross
<1>7. Tracks(b0, b, r, n)
  BY <1>3, <1>6 DEF Shadowed
<1> HIDE DEF f, r
<1>8. Tracks(b0, f, r, x)
  BY <1>1, <1>3, <1>6, <1>7, FillFits DEF f
<1>9. PICK d \in DryState(b0) : d.qty = x /\ DryWalk(b0)[d] = DryWalk(b0)[DryStart(b0, r)]
  BY <1>8 DEF Tracks
<1>10. x \in Nat /\ x <= DryQty(b0, r) /\ DryQty(b0, r) \in Nat
  <2>1. d.qty \in Nat /\ DryBounded(b0, d)
    BY <1>1, <1>9, DryWalkBounded DEF DryState
  <2>2. DryWalk(b0)[d].qty \in Nat /\ d.qty <= DryWalk(b0)[d].qty
    BY <2>1 DEF DryBounded, DryState
  <2>3. QED
    BY <1>9, <2>1, <2>2 DEF DryQty
<1>11. r \in Candidates(b0)
  <2>1. /\ b0.ord[bid].place = "book" /\ b0.ord[ask].place = "book"
        /\ b0.ord[bid].price = b.ord[bid].price /\ b0.ord[ask].price = b.ord[ask].price
        /\ b0.ord[bid].side = b.ord[bid].side /\ b0.ord[ask].side = b.ord[ask].side
    BY <1>1, <1>2 DEF From, Static, SameTerms, SameOrder
  <2>2. bid \in Bids(b0) /\ ask \in Asks(b0)
    BY <1>2, <2>1 DEF Bids, Asks, Resting
  <2>3. QED
    BY <1>1, <1>4, <2>1, <2>2, CrossedCandidate DEF r
<1>12. x <= m
  BY <1>10, <1>11
<1>13. QED
  BY <1>10, <1>12 DEF f

LEMMA PassNoMore ==
  ASSUME NEW b0, NEW m \in Nat, \A q \in Candidates(b0) : DryQty(b0, q) <= m,
         NEW p \in Prices, NEW x \in NoMoreThan(b0, m)
  PROVE  WalkPass(x, p) \in NoMoreThan(b0, m)
<1>1. Walkable(x.book) /\ Shadowed(b0, x.book, x.qty) /\ x.qty <= m /\ x.qty \in Nat
  BY DEF NoMoreThan
<1>2. CASE \E bid \in Bids(x.book), ask \in Asks(x.book) : Meet(x.book, bid, ask, p)
  <2> DEFINE b == x.book
             pair == CHOOSE c \in Ids \X Ids : Meet(b, c[1], c[2], p)
             bid == pair[1]
             ask == pair[2]
             next == IF SelfMatched(b, bid, ask) THEN ResolveSelfMatch(b, bid, ask)
                     ELSE FillBoth(b, bid, ask)
             sold == IF SelfMatched(b, bid, ask) THEN 0 ELSE b.ord[bid].rem - next.ord[bid].rem
  <2>1. WalkPass(x, p) = [book |-> next, qty |-> x.qty + sold]
    BY <1>2 DEF WalkPass
  <2>2. pair \in Ids \X Ids /\ Meet(b, bid, ask, p)
    <3>1. \E c \in Ids \X Ids : Meet(b, c[1], c[2], p)
      <4>1. PICK i \in Bids(b), j \in Asks(b) : Meet(b, i, j, p)
        BY <1>2
      <4>2. <<i, j>> \in Ids \X Ids /\ Meet(b, <<i, j>>[1], <<i, j>>[2], p)
        BY <4>1 DEF Bids, Asks, Resting
      <4>3. QED
        BY <4>2
    <3>2. QED
      BY <3>1
  <2>3. bid \in Ids /\ ask \in Ids
    BY <2>2
  <2> HIDE DEF pair
  <2>4. CASE SelfMatched(b, bid, ask)
    <3>1. Walkable(next) /\ Shadowed(b0, next, x.qty)
      BY <1>1, <2>2, <2>3, <2>4, ResolveWalks, PullFollows DEF Meet
    <3>2. next \in Book /\ sold = 0
      BY <2>4, <3>1 DEF Walkable, Sound
    <3> HIDE DEF next, sold
    <3>3. QED
      BY <1>1, <2>1, <3>1, <3>2 DEF NoMoreThan
  <2>5. CASE ~SelfMatched(b, bid, ask)
    <3>1. next = FillBoth(b, bid, ask) /\ sold = b.ord[bid].rem - next.ord[bid].rem
      BY <2>5
    <3>2. Walkable(next) /\ Shadowed(b0, next, x.qty + sold)
      <4> HIDE DEF next, sold
      <4>1. QED
        BY <1>1, <2>2, <2>3, <2>5, <3>1, FillWalks, FillFollows DEF Meet
    <3>3. x.qty + sold \in Nat /\ x.qty + sold <= m
      <4> HIDE DEF next, sold
      <4>1. QED
        BY <1>1, <2>2, <2>3, <2>5, <3>1, FillBounded
    <3>4. next \in Book
      <4> HIDE DEF next
      <4>1. QED
        BY <3>2 DEF Walkable, Sound
    <3> HIDE DEF next, sold
    <3>5. QED
      BY <1>1, <2>1, <3>2, <3>3, <3>4 DEF NoMoreThan
  <2>6. QED
    BY <2>4, <2>5
<1>3. CASE ~\E bid \in Bids(x.book), ask \in Asks(x.book) : Meet(x.book, bid, ask, p)
  BY <1>3 DEF WalkPass
<1>4. QED
  BY <1>2, <1>3

LEMMA VolumeNoMore ==
  ASSUME NEW b0, Walkable(b0), NEW m \in Nat, \A q \in Candidates(b0) : DryQty(b0, q) <= m,
         NEW p \in Prices
  PROVE  Volume(b0, p) <= m
<1> DEFINE S == NoMoreThan(b0, m)
           start == [book |-> b0, qty |-> 0]
           g == [x \in S |-> WalkPass(x, p)]
           Eqn(h) == h = [k \in Nat |-> IF k = 0 THEN start ELSE WalkPass(h[k - 1], p)]
           N == Units(Bids(b0) \cup Asks(b0), [i \in Ids |-> b0.ord[i].rem])
           W == CHOOSE h : Eqn(h)
<1>1. start \in S
  BY FollowsStart DEF NoMoreThan, Walkable, Sound
<1>2. g \in [S -> S]
  BY PassNoMore
<1> HIDE DEF S
<1>3. PICK f \in [Nat -> S] : f[0] = start /\ \A k \in Nat : f[k + 1] = g[f[k]]
  <2> HIDE DEF start, g
  <2>1. QED
    BY <1>1, <1>2, Histories
<1>4. \A k \in Nat : f[k] = IF k = 0 THEN start ELSE WalkPass(f[k - 1], p)
  <2> SUFFICES ASSUME NEW k \in Nat
               PROVE  f[k] = IF k = 0 THEN start ELSE WalkPass(f[k - 1], p)
    OBVIOUS
  <2>1. CASE k = 0
    BY <1>3, <2>1
  <2>2. CASE k # 0
    <3>1. k - 1 \in Nat /\ (k - 1) + 1 = k
      BY <2>2
    <3>2. f[k] = g[f[k - 1]] /\ f[k - 1] \in S
      BY <1>3, <3>1
    <3>3. QED
      BY <2>2, <3>2
  <2>3. QED
    BY <2>1, <2>2
<1>5. Eqn(f)
  <2> HIDE DEF start
  <2>1. f = [k \in Nat |-> f[k]]
    BY <1>3
  <2>2. QED
    BY <1>4, <2>1
<1>6. Eqn(W)
  <2> HIDE DEF Eqn
  <2>1. QED
    BY <1>5
<1>7. Volume(b0, p) = W[N].qty
  BY DEF Volume
<1> HIDE DEF W
<1>8. W = [k \in Nat |-> IF k = 0 THEN start ELSE WalkPass(W[k - 1], p)]
  BY <1>6
<1>9. {k \in Nat : W[k] \in S} = Nat
  <2> DEFINE T == {k \in Nat : W[k] \in S}
  <2>1. 0 \in T
    BY <1>1, <1>8
  <2>2. ASSUME NEW k \in T PROVE k + 1 \in T
    <3>1. k + 1 \in Nat /\ k + 1 # 0 /\ (k + 1) - 1 = k
      OBVIOUS
    <3>2. W[k + 1] = WalkPass(W[k], p)
      BY <1>8, <3>1
    <3>3. WalkPass(W[k], p) \in S
      BY PassNoMore DEF S
    <3>4. QED
      BY <3>1, <3>2, <3>3
  <2>3. QED
    <3> HIDE DEF W
    <3>1. T \in SUBSET Nat
      OBVIOUS
    <3> HIDE DEF T
    <3>2. T = Nat
      BY <2>1, <2>2, <3>1, AllNumbers
    <3>3. QED
      BY <3>2 DEF T
<1>10. N \in Nat
  <2> DEFINE n == [i \in Ids |-> b0.ord[i].rem]
             R == Bids(b0) \cup Asks(b0)
  <2>1. \A i \in Ids : n[i] \in Nat
    BY DEF Walkable, Sound, Book, Order
  <2>2. R \in SUBSET Ids
    BY DEF Bids, Asks, Resting
  <2> HIDE DEF n, R
  <2>3. Units(R, n) \in Nat
    BY <2>1, <2>2, UnitsFinite
  <2>4. QED
    BY <2>3 DEF n, R
<1> HIDE DEF N
<1>11. W[N] \in S
  BY <1>9, <1>10
<1>12. QED
  BY <1>7, <1>11 DEF S, NoMoreThan

\* At no price, on a level or between levels, would a walk of the book trade
\* more than the equilibrium does, although prices are skipped by their
\* bounds and the curves are trusted when no self-match is in sight.
THEOREM EquilibriumTradesMost == ASpec => []EquilibriumIsBest
<1>1. AuctionInv => EquilibriumIsBest
  <2>1. SUFFICES ASSUME AuctionInv, pc = "idle", NEW e \in Equilibria(book), NEW p \in Prices
                 PROVE  Volume(book, p) <= e.qty
    BY DEF EquilibriumIsBest
  <2>2. Walkable(book) /\ Sound(book) /\ Paired(book)
    BY <2>1, WalkableBook DEF AuctionInv, APairInv, PairInv
  <2>3. e.qty \in Nat /\ \A q \in Candidates(book) : DryQty(book, q) <= e.qty
    BY <2>2, EquilibriumFacts
  <2>4. QED
    BY <2>2, <2>3, VolumeNoMore
<1>2. QED
  BY <1>1, AuctionInvHolds, PTL

-----------------------------------------------------------------------------
(***************************************************************************)
(* The quotes that an uncross inactivates.  The walk does not follow them  *)
(* up; until FollowUp looks at a leg that was hit the quote is registered  *)
(* and its other leg rests, but nothing matches.                           *)
(***************************************************************************)
\* Of a quote leg: what the hooks, the walk and the released stops leave alone.
QuoteKept(o, n) ==
  /\ n.kind = o.kind /\ n.price = o.price /\ n.qty = o.qty
  /\ n.place \in {o.place, "none"}

\* It has not traded.
NotHit(o, n) == n.rem = o.rem /\ (n.status = "FILLED" => o.status = "FILLED")

KeepsQuotes(b, c) ==
  /\ SameBonds(b, c) /\ c.live \subseteq b.live
  /\ \A i \in Ids : b.ord[i].bond = "quote" => QuoteKept(b.ord[i], c.ord[i])

HitsOnly(b, c, S) ==
  \A i \in Ids \ S : b.ord[i].bond = "quote" => NotHit(b.ord[i], c.ord[i])

StillRegistered(b, c) == \A g \in b.live : b.ord[g].bond = "quote" => g \in c.live

LEMMA QuotesKeptTwice ==
  ASSUME NEW b, NEW c, NEW d, NEW S, Sound(b), KeepsQuotes(b, c), KeepsQuotes(c, d),
         HitsOnly(b, c, S), HitsOnly(c, d, S)
  PROVE  /\ KeepsQuotes(b, d) /\ HitsOnly(b, d, S)
         /\ StillRegistered(b, c) /\ StillRegistered(c, d) => StillRegistered(b, d)
<1>1. SameBonds(b, d) /\ \A i \in Ids : c.ord[i].bond = b.ord[i].bond
  BY DEF KeepsQuotes, SameBonds, SameTies
<1>2. KeepsQuotes(b, d)
  BY <1>1 DEF KeepsQuotes, QuoteKept
<1>3. HitsOnly(b, d, S)
  BY <1>1 DEF HitsOnly, NotHit
<1>4. StillRegistered(b, c) /\ StillRegistered(c, d) => StillRegistered(b, d)
  BY <1>1 DEF StillRegistered, Sound, Book
<1>5. QED
  BY <1>2, <1>3, <1>4

\* Cancels and hooks hit nothing.
LEMMA ThinnedKeepsQuotes ==
  ASSUME NEW b, Sound(b), NEW c, Thinned(b, c)
  PROVE  KeepsQuotes(b, c) /\ \A S : HitsOnly(b, c, S)
<1>1. SameBonds(b, c) /\ c.live \subseteq b.live
  BY ThinnedTies
<1>2. \A i \in Ids : QuoteKept(b.ord[i], c.ord[i]) /\ NotHit(b.ord[i], c.ord[i])
  <2>1. SUFFICES ASSUME NEW i \in Ids
                 PROVE  QuoteKept(b.ord[i], c.ord[i]) /\ NotHit(b.ord[i], c.ord[i])
    OBVIOUS
  <2>2. CASE c.ord[i] = b.ord[i]
    BY <2>2 DEF QuoteKept, NotHit
  <2>3. CASE c.ord[i] = Withdrawn1(b.ord[i])
    <3>1. b.ord[i] \in Order
      BY DEF Sound, Book
    <3>2. QED
      BY <2>3, <3>1 DEF QuoteKept, NotHit, Withdrawn1, Order
  <2>4. QED
    BY <2>2, <2>3 DEF Thinned
<1>3. QED
  BY <1>1, <1>2 DEF KeepsQuotes, HitsOnly

\* The hook of a pair leaves the quotes registered.
LEMMA OcoHookKeepsQuotes ==
  ASSUME NEW b, Sound(b), Paired(b), NEW i \in Ids
  PROVE  LET c == OcoLegEnded(b, i)
         IN  /\ Sound(c) /\ Paired(c) /\ KeepsQuotes(b, c)
             /\ (\A S : HitsOnly(b, c, S)) /\ StillRegistered(b, c)
BY OcoHookTouches, ThinnedKeepsQuotes DEF StillRegistered

LEMMA CancelKeepsQuotes ==
  ASSUME NEW b, Sound(b), Paired(b), NEW i \in Ids
  PROVE  LET c == Cancel(b, i)
         IN  /\ Sound(c) /\ Paired(c) /\ KeepsQuotes(b, c)
             /\ (\A S : HitsOnly(b, c, S)) /\ StillRegistered(b, c)
<1> DEFINE c == Cancel(b, i)
<1>1. Sound(c) /\ Thinned(b, c) /\ c.live = b.live
  BY CancelTouches
<1> HIDE DEF c
<1>2. KeepsQuotes(b, c) /\ \A S : HitsOnly(b, c, S)
  BY <1>1, ThinnedKeepsQuotes
<1>3. Paired(c)
  BY <1>2, TiesStay DEF KeepsQuotes
<1>4. QED
  BY <1>1, <1>2, <1>3 DEF StillRegistered, c

LEMMA SmpCancelKeepsQuotes ==
  ASSUME NEW b, Sound(b), Paired(b), NEW i \in Ids
  PROVE  LET c == SmpCancel(b, i)
         IN  /\ Sound(c) /\ Paired(c) /\ KeepsQuotes(b, c)
             /\ (\A S : HitsOnly(b, c, S)) /\ StillRegistered(b, c)
<1> DEFINE x == Cancel(b, i)
           c == OcoLegEnded(x, i)
<1>1. Sound(x) /\ Paired(x) /\ KeepsQuotes(b, x) /\ (\A S : HitsOnly(b, x, S))
      /\ StillRegistered(b, x)
  BY CancelKeepsQuotes
<1> HIDE DEF x
<1>2. Sound(c) /\ Paired(c) /\ KeepsQuotes(x, c) /\ (\A S : HitsOnly(x, c, S))
      /\ StillRegistered(x, c)
  BY <1>1, OcoHookKeepsQuotes
<1> HIDE DEF c
<1>3. KeepsQuotes(b, c) /\ (\A S : HitsOnly(b, c, S)) /\ StillRegistered(b, c)
  BY <1>1, <1>2, QuotesKeptTwice
<1>4. QED
  BY <1>2, <1>3 DEF SmpCancel, c, x

LEMMA ResolveKeepsQuotes ==
  ASSUME NEW b, Sound(b), Paired(b), NEW bid \in Ids, NEW ask \in Ids
  PROVE  LET c == ResolveSelfMatch(b, bid, ask)
         IN  KeepsQuotes(b, c) /\ HitsOnly(b, c, {}) /\ StillRegistered(b, c)
<1> DEFINE S == SmpCancels(b, bid, ask)
           x == IF bid \in S THEN SmpCancel(b, bid) ELSE b
           y == IF ask \in S THEN SmpCancel(x, ask) ELSE x
<1>1. KeepsQuotes(b, b) /\ HitsOnly(b, b, {}) /\ StillRegistered(b, b)
  BY DEF KeepsQuotes, HitsOnly, StillRegistered, SameBonds, SameTies, QuoteKept, NotHit
<1>2. Sound(x) /\ Paired(x) /\ KeepsQuotes(b, x) /\ HitsOnly(b, x, {}) /\ StillRegistered(b, x)
  <2>1. CASE bid \in S
    BY <2>1, SmpCancelKeepsQuotes
  <2>2. QED
    BY <1>1, <2>1
<1>3. KeepsQuotes(b, y) /\ HitsOnly(b, y, {}) /\ StillRegistered(b, y)
  <2>1. CASE ask \in S
    <3> HIDE DEF x
    <3>1. /\ KeepsQuotes(x, SmpCancel(x, ask)) /\ HitsOnly(x, SmpCancel(x, ask), {})
          /\ StillRegistered(x, SmpCancel(x, ask))
      BY <1>2, SmpCancelKeepsQuotes
    <3>2. QED
      BY <1>2, <2>1, <3>1, QuotesKeptTwice
  <2>2. QED
    BY <1>2, <2>1
<1>4. ResolveSelfMatch(b, bid, ask) = IF Twins(b, bid, ask) THEN SmpCancel(b, bid) ELSE y
  BY DEF ResolveSelfMatch, SmpCancel
<1>5. KeepsQuotes(b, SmpCancel(b, bid)) /\ HitsOnly(b, SmpCancel(b, bid), {})
      /\ StillRegistered(b, SmpCancel(b, bid))
  BY SmpCancelKeepsQuotes
<1> HIDE DEF y
<1>6. QED
  BY <1>3, <1>4, <1>5

\* A pass of the walk hits its two orders, and no hook of quotes runs.
LEMMA FillKeepsQuotes ==
  ASSUME NEW b, Sound(b), Paired(b), NEW bid \in Ids, NEW ask \in Ids, bid # ask,
         b.ord[bid].place = "book", b.ord[ask].place = "book"
  PROVE  LET f == FillBoth(b, bid, ask)
         IN  KeepsQuotes(b, f) /\ HitsOnly(b, f, {bid, ask}) /\ StillRegistered(b, f)
<1> DEFINE q == Least(Slice(b.ord[bid]), Slice(b.ord[ask]))
           c == Reduce(b, bid, q)
           d == Reduce(c, ask, q)
           e == OcoLegEnded(d, ask)
           f == OcoLegEnded(e, bid)
<1>1. /\ q \in Nat \ {0} /\ q <= b.ord[bid].rem /\ q <= b.ord[ask].rem
      /\ q <= Slice(b.ord[bid]) /\ q <= Slice(b.ord[ask])
      /\ c.ord[ask] = b.ord[ask] /\ Sound(c) /\ Sound(d) /\ d.live = b.live
      /\ \A i \in Ids \ {bid, ask} : d.ord[i] = b.ord[i]
      /\ \A i \in {bid, ask} : d.ord[i].place = IF d.ord[i].rem = 0 THEN "none" ELSE "book"
  BY FillBothFacts
<1> HIDE DEF q
<1>2. Static(b, c) /\ Static(c, d)
  <2>1. Static(b, c)
    BY <1>1, ReduceTerms
  <2> HIDE DEF c
  <2>2. Static(c, d)
    BY <1>1, ReduceTerms
  <2>3. QED
    BY <2>1, <2>2
<1> HIDE DEF c, d
<1>3. Static(b, d)
  BY <1>2, StaticTransitive
<1>4. /\ Paired(d) /\ KeepsQuotes(b, d) /\ HitsOnly(b, d, {bid, ask}) /\ StillRegistered(b, d)
  <2>1. Paired(d)
    BY <1>3, StaticPaired
  <2>2. SameBonds(b, d)
    BY <1>3 DEF Static, SameTerms, SameOrder, SameBonds, SameTies
  <2>3. \A i \in Ids : QuoteKept(b.ord[i], d.ord[i])
    BY <1>1, <1>3 DEF Static, SameTerms, SameOrder, QuoteKept
  <2>4. HitsOnly(b, d, {bid, ask})
    BY <1>1 DEF HitsOnly, NotHit
  <2>5. QED
    BY <1>1, <2>1, <2>2, <2>3, <2>4 DEF KeepsQuotes, StillRegistered
<1>5. Sound(e) /\ Paired(e) /\ KeepsQuotes(d, e) /\ HitsOnly(d, e, {bid, ask})
      /\ StillRegistered(d, e)
  BY <1>1, <1>4, OcoHookKeepsQuotes
<1> HIDE DEF e
<1>6. KeepsQuotes(e, f) /\ HitsOnly(e, f, {bid, ask}) /\ StillRegistered(e, f)
  BY <1>5, OcoHookKeepsQuotes
<1>7. f = FillBoth(b, bid, ask)
  BY DEF FillBoth, f, e, d, c, q
<1> HIDE DEF f
<1>8. KeepsQuotes(b, e) /\ HitsOnly(b, e, {bid, ask}) /\ StillRegistered(b, e)
  BY <1>4, <1>5, QuotesKeptTwice
<1>9. QED
  BY <1>6, <1>7, <1>8, QuotesKeptTwice

\* Every step of an uncross: which quotes it hits, and that only the follow-up
\* unregisters one.
LEMMA UncrossQuotes ==
  ASSUME AIInv, APairInv, QuoteShape(book), UncrossStep
  PROVE  /\ Sound(book) /\ Paired(book) /\ Uncrossing
         /\ cur = 0 /\ todo = 0 /\ cur' = 0 /\ todo' = 0 /\ pc' # "withdraw"
         /\ KeepsQuotes(book, book')
         /\ \/ HitsOnly(book, book', {})
            \/ \E bid, ask \in Ids :
                 UncrossFill(bid, ask) /\ HitsOnly(book, book', {bid, ask})
         /\ FollowUp \/ StillRegistered(book, book')
<1>1. Uncrossing
  BY DEF Uncrossing, UncrossStep, UncrossFill, UncrossSelfMatch, Unlock, UncrossEnds,
         UnlockEnds, FollowUp, UncrossPublished
<1>2. UncrossOK /\ Sound(book) /\ Paired(book) /\ cur = 0 /\ todo = 0
  BY <1>1 DEF AIInv, UncrossOK, APairInv
<1>3. cur' = 0 /\ todo' = 0 /\ pc' # "withdraw"
  BY <1>2 DEF UncrossStep, UncrossFill, UncrossSelfMatch, Unlock, UncrossEnds,
              UnlockEnds, FollowUp, UncrossPublished, Stay, dispatch
<1>4. ASSUME book' = book
      PROVE  KeepsQuotes(book, book') /\ HitsOnly(book, book', {}) /\ StillRegistered(book, book')
  BY <1>4 DEF KeepsQuotes, HitsOnly, StillRegistered, SameBonds, SameTies, QuoteKept, NotHit
<1>5. ASSUME NEW bid \in Ids, NEW ask \in Ids, UncrossFill(bid, ask)
      PROVE  /\ KeepsQuotes(book, book') /\ HitsOnly(book, book', {bid, ask})
             /\ StillRegistered(book, book')
  <2>1. /\ bid # ask /\ order(bid).place = "book" /\ order(ask).place = "book"
        /\ book' = FillBoth(book, bid, ask)
    BY <1>5, MeetFacts DEF UncrossFill, Meet, order
  <2>2. QED
    BY <1>2, <2>1, FillKeepsQuotes DEF order
<1>6. ASSUME NEW bid \in Ids, NEW ask \in Ids, UncrossSelfMatch(bid, ask) \/ Unlock(bid, ask)
      PROVE  KeepsQuotes(book, book') /\ HitsOnly(book, book', {}) /\ StillRegistered(book, book')
  <2>1. book' = ResolveSelfMatch(book, bid, ask)
    BY <1>6 DEF UncrossSelfMatch, Unlock
  <2>2. QED
    BY <1>2, <2>1, ResolveKeepsQuotes
<1>7. ASSUME FollowUp
      PROVE  KeepsQuotes(book, book') /\ HitsOnly(book, book', {})
  <2>1. Head(hit) \in Ids
    BY <1>7, HeadTailProperties DEF FollowUp, AIInv, AuctionTyped
  <2>2. Thinned(book, book')
    BY <1>2, <1>7, <2>1, QuoteHookTouches DEF FollowUp
  <2>3. QED
    BY <1>2, <2>2, ThinnedKeepsQuotes
<1>8. ASSUME UncrossPublished
      PROVE  KeepsQuotes(book, book') /\ HitsOnly(book, book', {}) /\ StillRegistered(book, book')
  <2> DEFINE r == Release(book, last, released)
  <2>1. last \in Int /\ released \in Nat
    <3>1. last \in Prices \cup {NoPrice} /\ released \in Nat
      BY <1>2 DEF UncrossOK
    <3>2. QED
      BY <3>1, PricesAssumption DEF NoPrice
  <2>2. /\ r.live = book.live
        /\ \A i \in Ids :
             /\ SameOrder(book.ord[i], r.ord[i])
             /\ \/ r.ord[i] = book.ord[i]
                \/ book.ord[i].place \in {"armed", "trailing"}
    BY <1>2, <2>1, ReleaseSound
  <2> HIDE DEF r
  <2>3. \A i \in Ids : order(i).bond = "quote" => r.ord[i] = book.ord[i]
    BY <2>2 DEF QuoteShape, order
  <2>4. book' \in {book, r}
    BY <1>8 DEF UncrossPublished, r
  <2>5. KeepsQuotes(book, r) /\ HitsOnly(book, r, {}) /\ StillRegistered(book, r)
    BY <2>2, <2>3 DEF KeepsQuotes, HitsOnly, StillRegistered, SameBonds, SameTies, SameOrder,
                      QuoteKept, NotHit, order
  <2>6. QED
    BY <1>4, <2>4, <2>5
<1>9. CASE UncrossEnds \/ UnlockEnds
  <2>1. book' = book
    BY <1>9 DEF UncrossEnds, UnlockEnds, Stay
  <2>2. QED
    BY <1>1, <1>2, <1>3, <1>4, <2>1
<1>10. CASE \E bid, ask \in Ids : UncrossFill(bid, ask)
  BY <1>1, <1>2, <1>3, <1>5, <1>10
<1>11. CASE \E bid, ask \in Ids : UncrossSelfMatch(bid, ask) \/ Unlock(bid, ask)
  BY <1>1, <1>2, <1>3, <1>6, <1>11
<1>12. CASE FollowUp
  BY <1>1, <1>2, <1>3, <1>7, <1>12
<1>13. CASE UncrossPublished
  BY <1>1, <1>2, <1>3, <1>8, <1>13
<1>14. QED
  BY <1>9, <1>10, <1>11, <1>12, <1>13 DEF UncrossStep

LEMMA UncrossQuoteInv ==
  ASSUME AIInv, APairInv, QuoteInv, UncrossStep
  PROVE  QuoteInv'
<1>1. /\ Sound(book) /\ cur = 0 /\ todo = 0 /\ cur' = 0 /\ todo' = 0
      /\ pc # "withdraw" /\ pc' # "withdraw" /\ KeepsQuotes(book, book')
  BY UncrossQuotes DEF QuoteInv, Uncrossing
<1>2. /\ \A i \in Ids : SameTies(order(i), book'.ord[i])
      /\ \A i \in Ids : order(i).bond = "quote" => QuoteKept(order(i), book'.ord[i])
      /\ book'.live \subseteq book.live /\ book.live \subseteq Ids /\ 0 \notin Ids
  BY <1>1 DEF KeepsQuotes, SameBonds, order, Sound, Book, Ids
<1>3. \A i \in Ids : Alive(i)' => Alive(i)
  BY <1>1, <1>2 DEF Alive, QuoteKept, SameTies, order
<1>4. QuoteShape(book')
  BY <1>2 DEF QuoteInv, QuoteShape, QuoteKept, SameTies, order
<1>5. OneQuote'
  <2>1. \A i \in Ids : /\ book'.ord[i].bond = order(i).bond /\ book'.ord[i].gw = order(i).gw
                       /\ book'.ord[i].group = order(i).group
    BY <1>2 DEF SameTies
  <2>2. QED
    BY <1>2, <1>3, <2>1 DEF QuoteInv, OneQuote, order
<1>6. QED
  BY <1>4, <1>5 DEF QuoteInv

\* An uncross prices nothing.
LEMMA UncrossApart ==
  ASSUME AIInv, APairInv, QuoteInv, QuotesApart, UncrossStep
  PROVE  QuotesApart'
<1>1. Sound(book) /\ Paired(book) /\ KeepsQuotes(book, book')
  BY UncrossQuotes DEF QuoteInv
<1>2. \A i \in Ids : Sibling(book', i) = Sibling(book, i)
  BY <1>1, TiesStay DEF KeepsQuotes
<1>3. SUFFICES ASSUME NEW i \in Ids, order(i).bond = "quote", i = order(i).group
               PROVE  book'.ord[i].price < book'.ord[Sibling(book, i)].price
  BY <1>1, <1>2 DEF QuotesApart, KeepsQuotes, SameBonds, SameTies, order
<1>4. Sibling(book, i) \in Ids /\ order(Sibling(book, i)).bond = "quote"
  BY <1>1, <1>3, Siblings DEF Paired, order
<1>5. QED
  BY <1>1, <1>3, <1>4 DEF QuotesApart, KeepsQuotes, QuoteKept, order

-----------------------------------------------------------------------------
\* The quote of leg i is still to be followed up: the walk has hit its sibling.
Owed(i) == order(i).group \in book.live /\ Listed(Sibling(book, i))

HitsFollow == \A i \in Ids : Inactivated(i) => Retired(i) \/ Owed(i)

\* What was hit trades at the price of the uncross.
HitsReach ==
  \A i \in Ids : order(i).bond = "quote" /\ Listed(i) =>
    IF order(i).side = "BUY" THEN order(i).price >= eq ELSE order(i).price <= eq

ALegInv ==
  /\ ~Uncrossing => LegInv
  /\ Uncrossing => Lone /\ HitsFollow /\ HitsReach

\* The walk never hits both legs of a quote.
LEMMA OneLegHit ==
  ASSUME AIInv, Uncrossing, APairInv, QuoteInv, QuotesApart, HitsReach,
         NEW i \in Ids, order(i).bond = "quote"
  PROVE  ~(Listed(i) /\ Listed(Sibling(book, i)))
<1> DEFINE s == Sibling(book, i)
<1>1. Sound(book) /\ Paired(book) /\ QuoteShape(book) /\ eq \in Nat
  BY PricesAssumption DEF AIInv, AuctionTyped, UncrossOK, APairInv, QuoteInv
<1>2. /\ s \in Ids /\ order(s).bond = "quote" /\ order(s).group = order(i).group
      /\ s # i /\ {i, s} = {order(i).group, order(i).group + 1} /\ Sibling(book, s) = i
      /\ order(i).group \in Nat
  BY <1>1, Siblings, SiblingTwice DEF Paired, order
<1> HIDE DEF s
<1>3. /\ order(i).price \in Nat /\ order(s).price \in Nat
  <2>1. \A j \in Ids : order(j).bond = "quote" => order(j).price \in Prices
    BY <1>1 DEF Sound, OrderSound, QuoteShape, order
  <2>2. QED
    BY <1>2, <2>1, PricesAssumption
<1>4. SUFFICES ASSUME Listed(i), Listed(s) PROVE FALSE
  BY DEF s
<1>5. CASE i = order(i).group
  <2>1. order(i).side = "BUY" /\ order(s).side = "SELL" /\ order(i).price < order(s).price
    BY <1>1, <1>2, <1>5 DEF QuoteShape, QuotesApart, order, s
  <2>2. QED
    BY <1>1, <1>2, <1>3, <1>4, <2>1 DEF HitsReach
<1>6. CASE s = order(i).group
  <2>1. order(s).side = "BUY" /\ order(i).side = "SELL" /\ order(s).price < order(i).price
    BY <1>1, <1>2, <1>6 DEF QuoteShape, QuotesApart, order
  <2>2. QED
    BY <1>1, <1>2, <1>3, <1>4, <2>1 DEF HitsReach
<1>7. QED
  BY <1>2, <1>5, <1>6

LEMMA ListedGrows ==
  ASSUME hit \in Seq(Ids), NEW i \in Ids, NEW j \in Ids, hit' = WithHit(i, j), NEW k
  PROVE  Listed(k)' <=> Listed(k) \/ k \in {i, j}
<1> DEFINE x == IF Listed(i) THEN <<>> ELSE <<i>>
           y == IF Listed(j) THEN <<>> ELSE <<j>>
           Holds(s) == \E n \in DOMAIN s : s[n] = k
<1>1. ASSUME NEW s \in Seq(Ids), NEW t \in Seq(Ids)
      PROVE  Holds(s \o t) <=> Holds(s) \/ Holds(t)
  <2>1. /\ s \o t \in Seq(Ids) /\ Len(s \o t) = Len(s) + Len(t)
        /\ \A n \in 1 .. Len(s) + Len(t) :
             (s \o t)[n] = IF n <= Len(s) THEN s[n] ELSE t[n - Len(s)]
    BY ConcatProperties
  <2>2. /\ DOMAIN (s \o t) = 1 .. Len(s) + Len(t)
        /\ DOMAIN s = 1 .. Len(s) /\ DOMAIN t = 1 .. Len(t)
        /\ Len(s) \in Nat /\ Len(t) \in Nat
    BY <2>1, LenProperties
  <2>3. ASSUME NEW n \in DOMAIN s, s[n] = k PROVE Holds(s \o t)
    <3>1. n \in DOMAIN (s \o t) /\ (s \o t)[n] = s[n]
      BY <2>1, <2>2, <2>3
    <3>2. QED
      BY <2>3, <3>1
  <2>4. ASSUME NEW n \in DOMAIN t, t[n] = k PROVE Holds(s \o t)
    <3>1. n + Len(s) \in DOMAIN (s \o t) /\ (s \o t)[n + Len(s)] = t[n]
      BY <2>1, <2>2, <2>4
    <3>2. QED
      BY <2>4, <3>1
  <2>5. ASSUME NEW n \in DOMAIN (s \o t), (s \o t)[n] = k PROVE Holds(s) \/ Holds(t)
    <3>1. CASE n <= Len(s)
      <4>1. n \in DOMAIN s /\ s[n] = k
        BY <2>1, <2>2, <2>5, <3>1
      <4>2. QED
        BY <4>1
    <3>2. CASE ~(n <= Len(s))
      <4>1. n - Len(s) \in DOMAIN t /\ t[n - Len(s)] = k
        BY <2>1, <2>2, <2>5, <3>2
      <4>2. QED
        BY <4>1
    <3>3. QED
      BY <3>1, <3>2
  <2>6. QED
    BY <2>3, <2>4, <2>5
<1>2. x \in Seq(Ids) /\ y \in Seq(Ids)
  OBVIOUS
<1>3. (Holds(x) <=> ~Listed(i) /\ k = i) /\ (Holds(y) <=> ~Listed(j) /\ k = j)
  <2>1. (\E n \in DOMAIN <<>> : <<>>[n] = k) <=> FALSE
    OBVIOUS
  <2>2. \A m \in Ids : (\E n \in DOMAIN <<m>> : <<m>>[n] = k) <=> k = m
    OBVIOUS
  <2>3. QED
    BY <2>1, <2>2
<1> HIDE DEF x, y
<1>4. hit \o x \in Seq(Ids)
  BY <1>2, ConcatProperties
<1>5. Holds((hit \o x) \o y) <=> Holds(hit) \/ Holds(x) \/ Holds(y)
  BY <1>1, <1>2, <1>4
<1>6. hit' = (hit \o x) \o y /\ (Listed(k) <=> Holds(hit))
  BY DEF WithHit, Listed, x, y
<1>7. Listed(k)' <=> Holds((hit \o x) \o y)
  BY <1>6 DEF Listed
<1> HIDE DEF Holds
<1>8. QED
  BY <1>3, <1>5, <1>6, <1>7

\* What an uncross leaves alone of a quote leg that none of its steps hit.
LEMMA UnhitStays ==
  ASSUME AIInv, APairInv, QuoteInv, UncrossStep, NEW S, HitsOnly(book, book', S),
         NEW i \in Ids, Inactivated(i)', Sibling(book, i) \notin S
  PROVE  Inactivated(i)
<1> DEFINE s == Sibling(book, i)
<1>1. Sound(book) /\ Paired(book) /\ KeepsQuotes(book, book')
  BY UncrossQuotes DEF QuoteInv
<1>2. /\ Sibling(book', i) = s /\ SameTies(order(i), book'.ord[i])
  BY <1>1, TiesStay DEF KeepsQuotes, SameBonds, order
<1>3. order(i).bond = "quote" /\ s \in Ids /\ order(s).bond = "quote"
  BY <1>1, <1>2, Siblings DEF Inactivated, Paired, SameTies, order
<1> HIDE DEF s
<1>4. s \in Ids \ S
  BY <1>3 DEF s
<1>5. QuoteKept(order(s), book'.ord[s]) /\ NotHit(order(s), book'.ord[s])
  BY <1>1, <1>3, <1>4 DEF KeepsQuotes, HitsOnly, order
<1>6. QED
  BY <1>2, <1>3, <1>5 DEF Inactivated, QuoteKept, NotHit, SameTies, order, s

\* What is out of the market stays out of it.
LEMMA UncrossRetired ==
  ASSUME AIInv, APairInv, QuoteInv, UncrossStep, NEW i \in Ids,
         order(i).bond = "quote", Retired(i)
  PROVE  Retired(i)'
<1>1. /\ cur' = 0 /\ pc' # "withdraw" /\ KeepsQuotes(book, book') /\ 0 \notin Ids
  BY UncrossQuotes DEF QuoteInv, Ids
<1>2. /\ book'.ord[i].group = order(i).group /\ book'.live \subseteq book.live
      /\ book'.ord[i].place \in {order(i).place, "none"}
  BY <1>1 DEF KeepsQuotes, SameBonds, SameTies, QuoteKept, order
<1>3. QED
  BY <1>1, <1>2 DEF Retired, order

\* A leg that is not in the book of a quote that is not registered is retired.
LEMMA UncrossLone ==
  ASSUME AIInv, Uncrossing, Lone, NEW i \in Ids, order(i).bond = "quote",
         order(i).group \notin book.live, order(Sibling(book, i)).place = "book"
  PROVE  Retired(i)
<1>1. cur = 0 /\ pc # "withdraw" /\ 0 \notin Ids
  BY DEF AIInv, UncrossOK, Uncrossing, Ids
<1>2. QED
  BY <1>1 DEF Lone, MayTrade, Retired

LEMMA UncrossStaysLone ==
  ASSUME AIInv, APairInv, QuoteInv, UncrossStep, Lone, StillRegistered(book, book')
  PROVE  Lone'
<1>1. /\ Sound(book) /\ Paired(book) /\ Uncrossing
      /\ cur' = 0 /\ pc # "withdraw" /\ KeepsQuotes(book, book')
  BY UncrossQuotes DEF QuoteInv, Uncrossing
<1>2. SUFFICES ASSUME NEW i \in Ids, order(i).bond = "quote", order(i).group \notin book'.live,
                      NEW s, s = Sibling(book, i), MayTrade(i)', MayTrade(s)'
               PROVE  FALSE
  BY <1>1, TiesStay DEF Lone, KeepsQuotes, SameBonds, SameTies, order
<1>3. /\ s \in Ids /\ order(s).bond = "quote" /\ order(i).group \in Ids
      /\ order(order(i).group).bond = "quote"
  BY <1>1, <1>2, Siblings, Groups DEF Paired, order
<1>4. \A j \in {i, s} : order(j).place = "book"
  BY <1>1, <1>2, <1>3 DEF MayTrade, KeepsQuotes, QuoteKept, order, Ids
<1>5. order(i).group \notin book.live
  BY <1>2, <1>3 DEF StillRegistered, order
<1>6. QED
  BY <1>1, <1>2, <1>4, <1>5 DEF Lone, MayTrade

\* A pass of the walk: a leg that it inactivates is out of the market already,
\* or waits for the follow-up.
LEMMA FillLegs ==
  ASSUME AIInv, APairInv, QuoteInv, ALegInv, UncrossStep, StillRegistered(book, book'),
         NEW bid \in Ids, NEW ask \in Ids, UncrossFill(bid, ask),
         HitsOnly(book, book', {bid, ask})
  PROVE  ALegInv'
<1>1. /\ Sound(book) /\ Paired(book) /\ Uncrossing /\ KeepsQuotes(book, book')
      /\ pc' = "uncross" /\ eq' = eq /\ Uncrossing' /\ Lone /\ HitsFollow /\ HitsReach
  BY UncrossQuotes DEF QuoteInv, UncrossFill, dispatch, Uncrossing, ALegInv
<1>2. \A i \in Ids : Sibling(book', i) = Sibling(book, i) /\ SameTies(order(i), book'.ord[i])
  BY <1>1, TiesStay DEF KeepsQuotes, SameBonds, order
<1>3. \A k : Listed(k)' <=> Listed(k) \/ k \in {bid, ask}
  BY ListedGrows DEF UncrossFill, AIInv, AuctionTyped
<1>4. /\ order(bid).place = "book" /\ order(bid).side = "BUY"
      /\ order(ask).place = "book" /\ order(ask).side = "SELL"
      /\ order(bid).price >= eq /\ order(ask).price <= eq
  <2>1. eq \in Prices
    BY <1>1 DEF AIInv, AuctionTyped
  <2>2. Meet(book, bid, ask, eq)
    BY DEF UncrossFill
  <2>3. order(bid).price >= eq /\ order(ask).price <= eq
    BY <1>1, <2>1, <2>2, Crosses DEF Meet, order
  <2>4. QED
    BY <2>2, <2>3, MeetFacts DEF Meet, order
<1>5. HitsReach'
  <2>1. SUFFICES ASSUME NEW i \in Ids, order(i).bond = "quote", Listed(i)'
                 PROVE  IF order(i).side = "BUY" THEN book'.ord[i].price >= eq
                                                 ELSE book'.ord[i].price <= eq
    BY <1>1, <1>2 DEF HitsReach, SameTies, order
  <2>2. book'.ord[i].price = order(i).price
    BY <1>1, <2>1 DEF KeepsQuotes, QuoteKept, order
  <2>3. QED
    BY <1>1, <1>3, <1>4, <2>1, <2>2 DEF HitsReach
<1>6. ASSUME NEW i \in Ids, Inactivated(i)'
      PROVE  Retired(i)' \/ Owed(i)'
  <2>0. PICK s : s = Sibling(book, i)
    OBVIOUS
  <2>1. /\ order(i).bond = "quote" /\ s \in Ids /\ order(s).bond = "quote"
        /\ order(i).group \in Ids /\ order(order(i).group).bond = "quote"
    BY <1>1, <1>2, <1>6, <2>0, Siblings, Groups DEF Inactivated, Paired, SameTies, order
  <2>2. Retired(i) \/ (order(i).group \in book.live /\ Listed(s)')
    <3>1. CASE s \notin {bid, ask}
      <4>1. Inactivated(i)
        BY <1>6, <2>0, <3>1, UnhitStays
      <4>2. QED
        BY <1>1, <1>3, <2>0, <4>1 DEF HitsFollow, Owed
    <3>2. CASE s \in {bid, ask} /\ order(i).group \notin book.live
      BY <1>1, <1>4, <2>0, <2>1, <3>2, UncrossLone
    <3>3. CASE s \in {bid, ask} /\ order(i).group \in book.live
      BY <1>3, <3>3
    <3>4. QED
      BY <3>1, <3>2, <3>3
  <2>3. CASE Retired(i)
    BY <2>1, <2>3, UncrossRetired
  <2>4. CASE order(i).group \in book.live /\ Listed(s)'
    BY <1>2, <2>0, <2>1, <2>4 DEF Owed, StillRegistered, SameTies, order
  <2>5. QED
    BY <2>2, <2>3, <2>4
<1>7. Lone'
  BY <1>1, UncrossStaysLone
<1>8. QED
  BY <1>1, <1>5, <1>6, <1>7 DEF ALegInv, HitsFollow

\* The follow-up of a leg that was hit inactivates its quote and pulls the
\* other leg.
LEMMA FollowUpLegs ==
  ASSUME AIInv, APairInv, QuoteInv, QuotesApart, ALegInv, FollowUp
  PROVE  ALegInv'
<1> DEFINE h == Head(hit)
           g == order(h).group
<1>1. /\ UncrossStep /\ Uncrossing /\ Uncrossing' /\ Lone /\ HitsFollow /\ HitsReach
      /\ pc' = pc /\ eq' = eq
  BY DEF UncrossStep, FollowUp, Uncrossing, ALegInv, dispatch
<1>2. /\ Sound(book) /\ Paired(book) /\ KeepsQuotes(book, book')
      /\ cur' = 0 /\ pc' # "withdraw" /\ HitsOnly(book, book', {}) /\ 0 \notin Ids
  <2>1. HitsOnly(book, book', {})
    <3>1. \A bid, ask \in Ids : ~UncrossFill(bid, ask)
      BY DEF UncrossFill, FollowUp
    <3>2. QED
      BY <1>1, <3>1, UncrossQuotes DEF QuoteInv
  <2>2. QED
    BY <1>1, <2>1, UncrossQuotes DEF QuoteInv, Ids
<1>3. /\ h \in Ids /\ book' = QuoteLegFilled(book, h)
      /\ \A k : Listed(k) <=> k = h \/ Listed(k)'
  <2>1. hit \in Seq(Ids) /\ hit # <<>> /\ hit' = Tail(hit)
    BY DEF FollowUp, AIInv, AuctionTyped
  <2>2. /\ Head(hit) \in Ids /\ Tail(hit) \in Seq(Ids) /\ Len(hit) \in Nat \ {0}
        /\ Len(Tail(hit)) = Len(hit) - 1 /\ Head(hit) = hit[1]
        /\ \A n \in 1 .. Len(Tail(hit)) : Tail(hit)[n] = hit[n + 1]
    BY <2>1, HeadTailProperties, EmptySeq, LenProperties
  <2>3. DOMAIN hit = 1 .. Len(hit) /\ DOMAIN Tail(hit) = 1 .. Len(hit) - 1
    BY <2>1, <2>2, LenProperties
  <2>4. ASSUME NEW k, NEW n \in DOMAIN hit, hit[n] = k
        PROVE  k = h \/ \E m \in DOMAIN Tail(hit) : Tail(hit)[m] = k
    <3>1. CASE n = 1
      BY <2>2, <2>4, <3>1
    <3>2. CASE n # 1
      <4>1. n - 1 \in DOMAIN Tail(hit) /\ Tail(hit)[n - 1] = hit[n - 1 + 1] /\ n - 1 + 1 = n
        BY <2>2, <2>3, <2>4, <3>2
      <4>2. QED
        BY <2>4, <4>1
    <3>3. QED
      BY <3>1, <3>2
  <2>5. ASSUME NEW k, NEW n \in DOMAIN Tail(hit), Tail(hit)[n] = k
        PROVE  \E m \in DOMAIN hit : hit[m] = k
    <3>1. n + 1 \in DOMAIN hit /\ hit[n + 1] = k
      BY <2>2, <2>3, <2>5
    <3>2. QED
      BY <3>1
  <2>6. 1 \in DOMAIN hit /\ hit[1] = h
    BY <2>2, <2>3
  <2>7. \A k : Listed(k) <=> k = h \/ Listed(k)'
    BY <2>1, <2>4, <2>5, <2>6 DEF Listed
  <2>8. QED
    BY <2>2, <2>7 DEF FollowUp
<1> HIDE DEF h
<1>4. \A i \in Ids : Sibling(book', i) = Sibling(book, i) /\ SameTies(order(i), book'.ord[i])
  BY <1>2, TiesStay DEF KeepsQuotes, SameBonds, order
<1>5. /\ book'.live \in {book.live, book.live \ {g}}
      /\ book'.live # book.live => Inactivates(order(h)) /\ OutOfPlay(book', Sibling(book, h))
      /\ Inactivates(order(h)) /\ g \in book.live => OutOfPlay(book', Sibling(book, h))
  <2>1. CASE Inactivates(order(h))
    <3>1. book' = PullSibling(book, h) /\ order(h).bond # "none"
      BY <1>3, <2>1 DEF QuoteLegFilled, Inactivates, order
    <3>2. book'.live = book.live \ {g}
      BY <1>2, <1>3, <3>1, PullTouches DEF order
    <3>3. g \in book.live => OutOfPlay(book', Sibling(book, h))
      BY <1>2, <1>3, <2>1, HookRetires DEF order
    <3>4. QED
      BY <2>1, <3>2, <3>3
  <2>2. CASE ~Inactivates(order(h))
    BY <1>3, <2>2 DEF QuoteLegFilled, Inactivates, order
  <2>3. QED
    BY <2>1, <2>2
<1>6. HitsReach'
  BY <1>1, <1>2, <1>3, <1>4 DEF HitsReach, KeepsQuotes, QuoteKept, SameTies, order
<1>7. ASSUME NEW i \in Ids, Inactivated(i)'
      PROVE  Retired(i)' \/ Owed(i)'
  <2>0. PICK s : s = Sibling(book, i)
    OBVIOUS
  <2>1. Inactivated(i)
    BY <1>1, <1>2, <1>7, UnhitStays
  <2>2. /\ order(i).bond = "quote" /\ s \in Ids /\ order(s).bond = "quote" /\ Sibling(book, s) = i
        /\ order(s).gw = order(i).gw /\ order(s).group = order(i).group
    BY <1>2, <2>0, <2>1, Siblings, SiblingTwice DEF Inactivated, Paired, order
  <2>3. CASE Retired(i)
    BY <1>1, <2>2, <2>3, UncrossRetired
  <2>4. CASE Owed(i) /\ s = h
    <3>1. Inactivates(order(h))
      BY <2>0, <2>1, <2>2, <2>4 DEF Inactivated, Inactivates
    <3>2. OutOfPlay(book', i)
      BY <1>5, <2>2, <2>4, <3>1 DEF Owed
    <3>3. QED
      BY <1>2, <3>2 DEF OutOfPlay, Retired, order
  <2>5. CASE Owed(i) /\ s # h
    <3>1. Listed(s)' /\ Listed(s) /\ order(i).group \in book.live
      BY <1>3, <2>0, <2>5 DEF Owed
    <3>2. ASSUME order(i).group \notin book'.live PROVE FALSE
      <4>1. g = order(i).group /\ order(h).bond = "quote"
        BY <1>5, <3>1, <3>2 DEF Inactivates
      <4>2. h = i
        BY <1>2, <1>3, <2>2, <2>5, <4>1, Groups DEF order
      <4>3. Listed(i)
        BY <1>3, <4>2
      <4>4. QED
        BY <1>1, <2>0, <2>2, <3>1, <4>3, OneLegHit
    <3>3. QED
      BY <1>4, <2>0, <3>1, <3>2 DEF Owed, SameTies, order
  <2>6. QED
    BY <1>1, <2>1, <2>3, <2>4, <2>5 DEF HitsFollow
<1>8. Lone'
  <2>1. CASE book'.live = book.live
    BY <1>1, <2>1, UncrossStaysLone DEF StillRegistered
  <2>2. CASE book'.live # book.live
    <3>1. SUFFICES ASSUME NEW i \in Ids, order(i).bond = "quote",
                          order(i).group \notin book'.live,
                          NEW s, s = Sibling(book, i), MayTrade(i)', MayTrade(s)'
                   PROVE  FALSE
      BY <1>4 DEF Lone, SameTies, order
    <3>2. s \in Ids /\ order(s).bond = "quote" /\ Sibling(book, s) = i
      BY <1>2, <3>1, Siblings, SiblingTwice DEF order
    <3>3. \A j \in {i, s} : book'.ord[j].place = "book" /\ order(j).place = "book"
      BY <1>2, <3>1, <3>2 DEF MayTrade, KeepsQuotes, QuoteKept, order
    <3>4. CASE order(i).group \notin book.live
      <4>1. Retired(s) \/ Retired(i)
        BY <1>1, <3>1, <3>3, <3>4, UncrossLone
      <4>2. QED
        BY <3>3, <4>1 DEF Retired
    <3>5. CASE order(i).group \in book.live
      <4>1. g = order(i).group /\ OutOfPlay(book', Sibling(book, h)) /\ order(h).bond = "quote"
        BY <1>5, <2>2, <3>1, <3>5 DEF Inactivates
      <4>2. h \in {i, s}
        BY <1>2, <1>3, <3>1, <4>1, Groups DEF order
      <4>3. QED
        BY <3>1, <3>2, <3>3, <4>1, <4>2 DEF OutOfPlay
    <3>6. QED
      BY <3>4, <3>5
  <2>3. QED
    BY <2>1, <2>2
<1>9. QED
  BY <1>1, <1>6, <1>7, <1>8 DEF ALegInv, HitsFollow

LEMMA UncrossLegs ==
  ASSUME AIInv, APairInv, QuoteInv, QuotesApart, ALegInv, UncrossStep
  PROVE  ALegInv'
<1>1. /\ Sound(book) /\ Paired(book) /\ Uncrossing /\ KeepsQuotes(book, book')
      /\ Lone /\ HitsFollow /\ HitsReach /\ cur' = 0 /\ pc' # "withdraw"
      /\ FollowUp \/ StillRegistered(book, book')
      /\ \/ HitsOnly(book, book', {})
         \/ \E bid, ask \in Ids : UncrossFill(bid, ask) /\ HitsOnly(book, book', {bid, ask})
  BY UncrossQuotes DEF QuoteInv, ALegInv
<1>2. CASE FollowUp
  BY <1>2, FollowUpLegs
<1>3. CASE \E bid, ask \in Ids : UncrossFill(bid, ask)
  <2>1. PICK bid \in Ids, ask \in Ids : UncrossFill(bid, ask)
    BY <1>3
  <2>2. HitsOnly(book, book', {bid, ask})
    <3>1. Sound(book) /\ Paired(book) /\ bid # ask /\ order(bid).place = "book"
          /\ order(ask).place = "book" /\ book' = FillBoth(book, bid, ask)
      BY <1>1, <2>1, MeetFacts DEF UncrossFill, Meet, order
    <3>2. QED
      BY <3>1, FillKeepsQuotes DEF order
  <2>3. StillRegistered(book, book')
    BY <1>1, <2>1 DEF UncrossFill, FollowUp
  <2>4. QED
    BY <2>1, <2>2, <2>3, FillLegs
<1>4. CASE ~FollowUp /\ ~\E bid, ask \in Ids : UncrossFill(bid, ask)
  <2>1. HitsOnly(book, book', {}) /\ StillRegistered(book, book')
    BY <1>1, <1>4
  <2>2. \A i \in Ids : Sibling(book', i) = Sibling(book, i) /\ SameTies(order(i), book'.ord[i])
    BY <1>1, TiesStay DEF KeepsQuotes, SameBonds, order
  <2>3. Lone'
    BY <1>1, <2>1, UncrossStaysLone
  <2>4. ASSUME NEW i \in Ids, Inactivated(i)'
        PROVE  /\ order(i).bond = "quote"
               /\ Retired(i)' \/ (Owed(i) /\ order(i).group \in book'.live)
    <3>1. Inactivated(i) /\ order(i).bond = "quote"
      BY <2>1, <2>4, UnhitStays DEF Inactivated
    <3>2. Retired(i) => Retired(i)'
      BY <3>1, UncrossRetired
    <3>3. order(i).group \in book.live => order(i).group \in book'.live
      BY <1>1, <2>1, <3>1, Groups DEF StillRegistered, order
    <3>4. QED
      BY <1>1, <3>1, <3>2, <3>3 DEF HitsFollow, Owed
  <2>5. CASE UncrossPublished
    <3>1. /\ pc' = "next" /\ ~Uncrossing' /\ \A k : ~Listed(k)
      BY <2>5 DEF UncrossPublished, Published, Uncrossing, Listed
    <3>2. HitsRetire'
      BY <2>4, <3>1 DEF HitsRetire, Owed
    <3>3. QED
      BY <2>3, <3>1, <3>2 DEF ALegInv, LegInv, SecondFollows
  <2>6. CASE ~UncrossPublished
    <3>1. Uncrossing' /\ hit' = hit /\ eq' = eq
      BY <1>4, <2>6 DEF UncrossStep, UncrossSelfMatch, Unlock, UncrossEnds, UnlockEnds, Stay,
                        Uncrossing, auction, dispatch
    <3>2. HitsReach'
      BY <1>1, <2>2, <3>1 DEF HitsReach, Listed, KeepsQuotes, QuoteKept, SameTies, order
    <3>3. HitsFollow'
      <4>1. SUFFICES ASSUME NEW i \in Ids, Inactivated(i)', ~Retired(i)' PROVE Owed(i)'
        BY DEF HitsFollow
      <4>2. QED
        BY <2>2, <2>4, <3>1, <4>1 DEF Owed, Listed, SameTies, order
    <3>4. QED
      BY <2>3, <3>1, <3>2, <3>3 DEF ALegInv
  <2>7. QED
    BY <2>5, <2>6
<1>5. QED
  BY <1>2, <1>3, <1>4

LEMMA AuctionQuotes ==
  ASSUME AIInv, APairInv, QuoteInv, [ANext]_avars
  PROVE  QuoteInv'
<1>1. CASE UNCHANGED avars
  BY <1>1 DEF avars, vars, dispatch, QuoteInv, QuoteShape, OneQuote, Alive, order
<1>2. CASE Next
  <2>1. IInv /\ PairInv
    BY <1>2, NextIsOutside DEF APairInv
  <2>2. QED
    BY <1>2, <2>1, QuotesStep
<1>3. CASE CallPhaseEnds
  <2>1. /\ pc = "idle" /\ pc' # "withdraw" /\ book' = book /\ cur' = cur /\ todo' = todo
    BY <1>3 DEF CallPhaseEnds, StartUncross, dispatch
  <2>2. QED
    BY <2>1 DEF QuoteInv, QuoteShape, OneQuote, Alive, order
<1>4. QED
  BY <1>1, <1>2, <1>3, UncrossQuoteInv DEF ANext

LEMMA AuctionLegs ==
  ASSUME AIInv, APairInv, QuoteInv, QuotesApart, ALegInv, [ANext]_avars
  PROVE  ALegInv'
<1>1. CASE UNCHANGED avars
  BY <1>1 DEF avars, vars, dispatch, auction, ALegInv, LegInv, Lone, HitsRetire, SecondFollows,
     HitsFollow, HitsReach, Owed, Listed, MayTrade, Retired, Inactivated, Uncrossing, order
<1>2. CASE Next
  <2>1. ~Uncrossing /\ ~Uncrossing' /\ IInv /\ PairInv /\ LegInv
    BY <1>2, NextIsOutside DEF APairInv, ALegInv
  <2>2. QED
    BY <1>2, <2>1, LegsStep DEF ALegInv
<1>3. CASE CallPhaseEnds
  <2>1. /\ pc = "idle" /\ LegInv /\ pc' \in {"idle", "uncross"}
        /\ book' = book /\ cur' = cur /\ todo' = todo /\ (pc' = "uncross" => hit' = <<>>)
    BY <1>3 DEF CallPhaseEnds, StartUncross, dispatch, ALegInv, Uncrossing
  <2>2. Lone' /\ HitsRetire' /\ SecondFollows'
    BY <2>1 DEF LegInv, Lone, HitsRetire, SecondFollows, MayTrade, Retired, Inactivated, order
  <2>3. HitsFollow'
    BY <2>2 DEF HitsRetire, HitsFollow
  <2>4. Uncrossing' => HitsReach'
    <3>1. hit' = <<>> => \A k : ~Listed(k)'
      BY DEF Listed
    <3>2. QED
      BY <2>1, <3>1 DEF Uncrossing, HitsReach
  <2>5. QED
    BY <2>2, <2>3, <2>4 DEF ALegInv, LegInv
<1>4. QED
  BY <1>1, <1>2, <1>3, UncrossLegs DEF ANext

\* StopsSkipHitQuotes: a leg that the uncross inactivated does not trade with
\* the stops the uncross releases, since _run_uncross follows the quotes up
\* before run_stops; nor does one that a cascade or a message inactivates.  As
\* in InactiveQuotesRest no amend may price one leg through the other.
THEOREM HitQuotesRest == ASpec /\ []QuotesApart => StopsSkipHitQuotes
<1>1. AInit => QuoteInv /\ APairInv /\ ALegInv
  <2>1. AInit => ~Uncrossing
    BY DEF AInit, Init, Uncrossing
  <2>2. QED
    BY <2>1, QuotesInit, PairsInit, LegsInit DEF AInit, APairInv, ALegInv
<1>2. AIInv /\ APairInv /\ QuoteInv /\ [ANext]_avars => QuoteInv'
  BY AuctionQuotes
<1>3. AIInv /\ APairInv /\ QuoteInv /\ QuotesApart /\ ALegInv /\ [ANext]_avars => ALegInv'
  BY AuctionLegs
<1>4. AIInv /\ APairInv /\ [ANext]_avars => APairInv'
  BY AuctionPairs
<1>5. AIInv /\ ALegInv /\ [ANext]_avars =>
        [\A i \in Ids : pc = "sweep" /\ Inactivated(i) => ~Executes(i)]_avars
  <2>1. SUFFICES ASSUME AIInv, ALegInv, ANext, NEW i \in Ids, pc = "sweep", Inactivated(i)
                 PROVE  ~Executes(i)
    OBVIOUS
  <2>2. ~Uncrossing /\ IInv /\ LegInv
    BY <2>1 DEF Uncrossing, AIInv, ALegInv
  <2>3. Next
    BY <2>1, <2>2, AuctionSteps
    DEF Uncrossing, UncrossStep, UncrossFill, UncrossSelfMatch, Unlock, UncrossEnds,
        UnlockEnds, FollowUp, UncrossPublished
  <2>4. QED
    BY <2>1, <2>2, <2>3, RetiredRests
<1>6. QED
  BY <1>1, <1>2, <1>3, <1>4, <1>5, AuctionInvariance, PTL DEF ASpec, StopsSkipHitQuotes

\* Where quote legs cannot be amended the hypothesis holds: an uncross prices
\* nothing.
THEOREM UnamendedStayApartInAuctions ==
  ASSUME AmendPrices = {} \/ AmendQtys = {}
  PROVE  ASpec => []QuotesApart
<1> SUFFICES ASSUME AmendPrices = {} \/ AmendQtys = {} PROVE ASpec => []QuotesApart
  OBVIOUS
<1>1. AInit => QuoteInv /\ APairInv /\ QuotesApart
  <2>1. AInit => ~Uncrossing
    BY DEF AInit, Init, Uncrossing
  <2>2. AInit => QuotesApart
    BY DEF AInit, Init, QuotesApart, order, Absent
  <2>3. QED
    BY <2>1, <2>2, QuotesInit, PairsInit DEF AInit, APairInv
<1>2. AIInv /\ APairInv /\ QuoteInv /\ [ANext]_avars => QuoteInv'
  BY AuctionQuotes
<1>3. AIInv /\ APairInv /\ QuoteInv /\ QuotesApart /\ [ANext]_avars => QuotesApart'
  <2>1. SUFFICES ASSUME AIInv, APairInv, QuoteInv, QuotesApart, [ANext]_avars
                 PROVE  QuotesApart'
    OBVIOUS
  <2>2. CASE UNCHANGED avars \/ CallPhaseEnds
    <3>1. book' = book
      BY <2>2 DEF avars, vars, CallPhaseEnds, StartUncross
    <3>2. QED
      BY <2>1, <3>1 DEF QuotesApart, order
  <2>3. CASE Next
    <3>1. IInv /\ PairInv
      BY <2>1, <2>3, NextIsOutside DEF APairInv
    <3>2. QED
      BY <2>1, <2>3, <3>1, ApartStep
  <2>4. QED
    BY <2>1, <2>2, <2>3, UncrossApart DEF ANext
<1>4. AIInv /\ APairInv /\ [ANext]_avars => APairInv'
  BY AuctionPairs
<1>5. QED
  BY <1>1, <1>2, <1>3, <1>4, AuctionInvariance, PTL DEF ASpec
=============================================================================
