---------------------------- MODULE Matching_proofs ----------------------------
(***************************************************************************)
(* Matching, in three parts.                                               *)
(*                                                                         *)
(* Who trades, and who wakes up: only the order the sweep has found at the *)
(* head of the queue executes while it rests, and only an arriving stop    *)
(* goes to sleep.  Price-time priority, self-match prevention and the      *)
(* stop flag follow for any book.                                          *)
(*                                                                         *)
(* The price-level index is exact: each addition and deduction, at each of *)
(* the places where the source makes one, agrees with what the order it is *)
(* made for shows.  Hence an amend that looks at the index sees the book,  *)
(* and a book that matches is never crossed.                               *)
(*                                                                         *)
(* Two orders that rest at one price keep their order in the queue through *)
(* every step, except that the front one falls behind when its slice is    *)
(* used up or its owner asks for more.  The argument is about arrival      *)
(* numbers: each one given out is larger than any an order has, and a step *)
(* gives one to at most one order that rests before and after.             *)
(***************************************************************************)
EXTENDS OrderBook_proofs

\* Nothing that rests executes in a step to book c.
NoneFilled(c) ==
  \A i \in Ids : order(i).place = "book" =>
    c.ord[i].qty - c.ord[i].rem = order(i).qty - order(i).rem

\* The stops that sleep in book c slept before, with the same trigger, and
\* none of them was woken in a step to c.
Undisturbed(c) ==
  \A i \in Ids :
    /\ c.ord[i].place \in {"armed", "trailing"} =>
         /\ order(i).place = c.ord[i].place /\ order(i).side = c.ord[i].side
         /\ order(i).stop = c.ord[i].stop
    /\ c.ord[i].place = "triggered" => order(i).place = "triggered"

Silent(c) == NoneFilled(c) /\ Undisturbed(c)

\* A withdrawal leaves the quantities of every order alone.
LEMMA ThinnedFields ==
  ASSUME NEW b, Sound(b), NEW c, Thinned(b, c), NEW i \in Ids
  PROVE  /\ c.ord[i].qty = b.ord[i].qty /\ c.ord[i].rem = b.ord[i].rem
         /\ c.ord[i].side = b.ord[i].side /\ c.ord[i].stop = b.ord[i].stop
         /\ c.ord[i].place \in {b.ord[i].place, "none"}
<1>1. b.ord[i] \in Order
  BY DEF Sound, Book
<1>2. CASE c.ord[i] = b.ord[i]
  BY <1>2
<1>3. CASE c.ord[i] = Withdrawn1(b.ord[i])
  BY <1>1, <1>3 DEF Withdrawn1, Order
<1>4. QED
  BY <1>2, <1>3 DEF Thinned

\* Withdrawing orders is quiet.
LEMMA ThinnedQuiet ==
  ASSUME Sound(book), NEW c, Thinned(book, c)
  PROVE  Silent(c)
BY ThinnedFields DEF Silent, NoneFilled, Undisturbed, order

\* Rewriting an order that does not rest is quiet unless it is put to sleep.
LEMMA EditQuiet ==
  ASSUME NEW i \in Ids, NEW c, OthersSame(book, c, i), order(i).place # "book",
         c.ord[i].place \notin {"armed", "trailing"},
         c.ord[i].place = "triggered" => order(i).place = "triggered"
  PROVE  Silent(c)
BY DEF Silent, NoneFilled, Undisturbed, OthersSame, order

\* A message executes nothing and puts nothing to sleep.
LEMMA MessageQuiet ==
  ASSUME IInv, Message
  PROVE  Silent(book') /\ hasStops' = hasStops
<1>1. Sound(book) /\ \A i \in Ids : OrderSound(order(i)) /\ order(i) \in Order
  BY DEF IInv, Sound, Book, order
<1>2. ASSUME NEW r \in NewOrders, NewOrder(r)
      PROVE  Silent(book')
  <2> DEFINE n == born + 1
  <2>1. /\ n \in Ids /\ r \in Request /\ WellFormed(r) /\ order(n).status = "ABSENT"
        /\ book' = Add(book, n, Accepted(r, "none", 0))
        /\ "none" \in Bonds /\ 0 \in 0 .. MaxOrders
    BY <1>2, MaxOrdersAssumption, RequestsAssumption, GatesAssumption
       DEF IInv, TypeOK, NewOrder, Ids, Unborn, Bonds
  <2> HIDE DEF n
  <2>2. OthersSame(book, book', n) /\ book'.ord[n].place = "none"
    BY <1>1, <2>1, AddSound
  <2>3. order(n).place # "book"
    BY <1>1, <2>1 DEF OrderSound, Working
  <2>4. QED
    BY <2>1, <2>2, <2>3, EditQuiet
<1>3. ASSUME NEW l \in Request \X Request, WellFormed(l[1]), WellFormed(l[2]),
             NEW bond \in {"oco", "quote"}, born + 1 < MaxOrders,
             book'.ord = AddPair(book, l, bond).ord
      PROVE  Silent(book')
  <2> DEFINE c == AddPair(book, l, bond)
             g == born + 1
  <2>1. /\ \A i \in {g, g + 1} : i \in Ids /\ order(i).status = "ABSENT"
                                 /\ c.ord[i].place = "none"
        /\ \A i \in Ids \ {g, g + 1} : c.ord[i] = order(i)
    BY <1>3, AddPairSound
  <2> HIDE DEF c, g
  <2>2. \A i \in {g, g + 1} : order(i).place # "book"
    BY <1>1, <2>1 DEF OrderSound, Working
  <2>3. book'.ord = c.ord
    BY <1>3 DEF c
  <2>4. QED
    BY <2>1, <2>2, <2>3 DEF Silent, NoneFilled, Undisturbed
<1>4. ASSUME NEW l \in OcoPairs, OcoOrder(l)
      PROVE  Silent(book')
  <2>1. l \in Request \X Request /\ WellFormed(l[1]) /\ WellFormed(l[2])
    BY RequestsAssumption, GatesAssumption
  <2>2. book'.ord = AddPair(book, l, "oco").ord /\ born + 1 < MaxOrders
    BY <1>4 DEF OcoOrder, AddPair, Add
  <2>3. QED
    BY <1>3, <2>1, <2>2
<1>5. ASSUME NEW l \in QuotePairs, QuoteNew(l)
      PROVE  Silent(book')
  <2>1. l \in Request \X Request /\ WellFormed(l[1]) /\ WellFormed(l[2])
    BY RequestsAssumption, GatesAssumption
  <2>2. book'.ord = AddPair(book, l, "quote").ord /\ born + 1 < MaxOrders
    BY <1>5 DEF QuoteNew, AddPair, Add
  <2>3. QED
    BY <1>3, <2>1, <2>2
<1>6. ASSUME book'.ord = book.ord
      PROVE  Silent(book')
  BY <1>6 DEF Silent, NoneFilled, Undisturbed, order
<1>7. ASSUME NEW gw \in Gateways, QuoteCancel(gw) \/ KillSwitch(gw)
      PROVE  Silent(book')
  <2>1. book'.ord = book.ord
    BY <1>1, <1>7 DEF QuoteCancel, KillSwitch, Sound, Book
  <2>2. QED
    BY <1>6, <2>1
<1>8. ASSUME NEW i \in Ids, CancelOrder(i)
      PROVE  Silent(book')
  <2>1. Sound(Cancel(book, i)) /\ Thinned(book, Cancel(book, i))
    BY <1>1, CancelThins
  <2>2. Thinned(Cancel(book, i), book')
    BY <1>8, <2>1, OcoLegEndedThins DEF CancelOrder
  <2>3. QED
    BY <1>1, <2>1, <2>2, ThinnedTransitive, ThinnedQuiet
<1>9. ASSUME NEW g \in Ids, OcoCancel(g)
      PROVE  Silent(book')
  <2> DEFINE c == Cancel(book, g)
             d == Cancel(c, g + 1)
  <2>1. g + 1 \in Ids
    BY <1>9 DEF IInv, OcoCancel, Registered, Sound, Bonded, order
  <2>2. Sound(c) /\ Thinned(book, c)
    BY <1>1, CancelThins
  <2> HIDE DEF c
  <2>3. Sound(d) /\ Thinned(c, d)
    BY <2>1, <2>2, CancelThins
  <2> HIDE DEF d
  <2>4. Silent(d)
    BY <1>1, <2>2, <2>3, ThinnedTransitive, ThinnedQuiet
  <2>5. book'.ord = d.ord
    <3>1. book' = [d EXCEPT !.live = d.live \ {g}]
      BY <1>9 DEF OcoCancel, c, d
    <3>2. QED
      BY <2>3, <3>1 DEF Sound, Book
  <2>6. QED
    BY <2>4, <2>5 DEF Silent, NoneFilled, Undisturbed
<1>10. ASSUME NEW i \in Ids, NEW price \in AmendPrices, NEW qty \in AmendQtys,
              Amend(i, price, qty)
       PROVE  Silent(book')
  <2> DEFINE b == Amended(book, i, price, qty)
             c == Cancel(b, i)
             d == [c EXCEPT !.ord[i].status = "NEW"]
  <2>1. /\ order(i).place = "book"
        /\ price \in Prices /\ qty \in Nat /\ qty > book.ord[i].qty - book.ord[i].rem
        /\ book' = b \/ book' = d
    BY <1>10, RequestsAssumption DEF Amend, order
  <2>2. Sound(b) /\ OthersSame(book, b, i) /\ b.ord[i].place = "book"
    BY <1>1, <2>1, AmendedSound DEF order
  <2>3. b.ord[i].qty = qty /\ b.ord[i].rem = qty - (order(i).qty - order(i).rem)
    BY <1>1 DEF Amended, Sound, Book, Order, order
  <2> HIDE DEF b
  <2>4. Silent(b)
    <3>1. b.ord[i].qty - b.ord[i].rem = order(i).qty - order(i).rem
      BY <1>1, <2>1, <2>3 DEF Order
    <3>2. QED
      BY <2>1, <2>2, <3>1 DEF Silent, NoneFilled, Undisturbed, OthersSame, order
  <2>5. /\ Sound(c) /\ Thinned(b, c)
    BY <2>2, CancelThins
  <2>6. \A j \in Ids : /\ c.ord[j].qty = b.ord[j].qty /\ c.ord[j].rem = b.ord[j].rem
                       /\ c.ord[j].side = b.ord[j].side /\ c.ord[j].stop = b.ord[j].stop
                       /\ c.ord[j].place \in {b.ord[j].place, "none"}
    BY <2>2, <2>5, ThinnedFields
  <2> HIDE DEF c
  <2>7. \A j \in Ids : /\ d.ord[j].qty = c.ord[j].qty /\ d.ord[j].rem = c.ord[j].rem
                       /\ d.ord[j].side = c.ord[j].side /\ d.ord[j].stop = c.ord[j].stop
                       /\ d.ord[j].place = c.ord[j].place
    BY <2>5 DEF Sound, Book, Order
  <2> HIDE DEF d
  <2>8. QED
    BY <2>1, <2>4, <2>6, <2>7 DEF Silent, NoneFilled, Undisturbed
<1>11. ASSUME CallPhaseBegins \/ NoMessage
       PROVE  Silent(book')
  BY <1>6, <1>11 DEF CallPhaseBegins, NoMessage, vars
<1>12. hasStops' = hasStops
  BY DEF Message, NewOrder, OcoOrder, QuoteNew, QuoteCancel, KillSwitch, CancelOrder,
         OcoCancel, Amend, CallPhaseBegins, NoMessage, vars
<1>13. QED
  BY <1>2, <1>4, <1>5, <1>7, <1>8, <1>9, <1>10, <1>11, <1>12 DEF Message
-----------------------------------------------------------------------------
(***************************************************************************)
(* Steps inside a handler.                                                 *)
(***************************************************************************)

\* What a refused order, a remainder or an order on its way to the matchers
\* changes is itself, and it rests at most afterwards.
LEMMA ProcessingQuiet ==
  ASSUME IInv,
         DropCancelled \/ RejectImmediate \/ RestUnmatched \/ HandlerRaises
           \/ TriggerOnEntry \/ StartSweep \/ RefuseFok
  PROVE  Silent(book') /\ hasStops' = hasStops
<1>1. /\ Sound(book) /\ book \in Book /\ cur \in Ids /\ order(cur) \in Order
      /\ order(cur).place \in {"none", "triggered"}
  <2>1. pc = "process"
    BY DEF DropCancelled, RejectImmediate, RestUnmatched, HandlerRaises,
           TriggerOnEntry, StartSweep, RefuseFok, Processing
  <2>2. QED
    BY <2>1 DEF IInv, HandlerOK, InHand, Sound, Book, order
<1>2. hasStops' = hasStops
  BY DEF DropCancelled, RejectImmediate, RestUnmatched, HandlerRaises,
         TriggerOnEntry, StartSweep, RefuseFok
<1>3. ASSUME NEW n \in Order, n.place \in {"none", order(cur).place},
             NEW c, c = [book EXCEPT !.ord[cur] = n]
      PROVE  Silent(c)
  <2>1. OthersSame(book, c, cur) /\ c.ord[cur] = n
    BY <1>1, <1>3 DEF OthersSame, Book
  <2>2. QED
    BY <1>1, <1>3, <2>1, EditQuiet
<1>4. CASE DropCancelled
  <2> DEFINE n == [order(cur) EXCEPT !.place = "none", !.turn = 0]
  <2>1. n \in Order /\ n.place = "none"
    BY <1>1 DEF Order, Places
  <2>2. book' = [book EXCEPT !.ord[cur] = n]
    BY <1>1, <1>4 DEF DropCancelled, order, Book
  <2> HIDE DEF n
  <2>3. QED
    BY <1>2, <1>3, <2>1, <2>2
<1>5. ASSUME NEW status \in {"CANCELLED", "REJECTED"},
             NEW c, c = [book EXCEPT !.ord[cur].status = status]
      PROVE  Silent(c)
  <2> DEFINE n == [order(cur) EXCEPT !.status = status]
  <2>1. n \in Order /\ n.place = order(cur).place
    BY <1>1 DEF Order, Dead
  <2>2. c = [book EXCEPT !.ord[cur] = n]
    BY <1>5 DEF order
  <2> HIDE DEF n
  <2>3. QED
    BY <1>3, <2>1, <2>2
<1>6. CASE RejectImmediate
  <2> DEFINE c == [book EXCEPT !.ord[cur].status = "REJECTED"]
  <2>1. order(cur).place = "none" /\ book' = OcoLegEnded(c, cur)
    BY <1>6, ProcessingFacts DEF RejectImmediate
  <2>2. Sound(c) /\ Silent(c)
    BY <1>1, <1>5, <2>1, StatusSound DEF order
  <2> HIDE DEF c
  <2>3. Thinned(c, book')
    BY <1>1, <2>1, <2>2, OcoLegEndedThins
  <2>4. Silent(book')
    BY <2>2, <2>3, ThinnedFields DEF Silent, NoneFilled, Undisturbed
  <2>5. QED
    BY <1>2, <2>4
<1>7. CASE RestUnmatched
  <2>1. order(cur).place = "none" /\ book' = Rest(book, cur)
        /\ order(cur).status \in Working /\ order(cur).kind \in Restable
    BY <1>7, ProcessingFacts DEF RestUnmatched
  <2>2. OthersSame(book, book', cur) /\ book'.ord[cur].place = "book"
    BY <1>1, <2>1, RestSound DEF order
  <2>3. QED
    BY <1>1, <1>2, <2>1, <2>2, EditQuiet
<1>8. CASE HandlerRaises
  BY <1>2, <1>8 DEF HandlerRaises, Silent, NoneFilled, Undisturbed, order
<1>9. CASE TriggerOnEntry \/ StartSweep
  <2> DEFINE n == book'.ord[cur]
  <2>1. OthersSame(book, book', cur)
    BY <1>1, <1>9 DEF TriggerOnEntry, StartSweep, OthersSame, Book
  <2>2. n = Converted(Resolved(order(cur))) \/ n = Resolved(order(cur))
    BY <1>1, <1>9 DEF TriggerOnEntry, StartSweep, Book, order
  <2>3. Resolved(order(cur)).place = "none"
    BY <1>1 DEF Resolved, Order
  <2>4. Converted(Resolved(order(cur))).place = "none"
    BY <1>1 DEF Converted, Resolved, Order
  <2>5. QED
    BY <1>1, <1>2, <2>1, <2>2, <2>3, <2>4, EditQuiet
<1>10. CASE RefuseFok
  BY <1>2, <1>5, <1>10 DEF RefuseFok
<1>11. QED
  BY <1>4, <1>2, <1>6, <1>7, <1>8, <1>9, <1>10

\* Batches, pulls and the end of a sweep are quiet.
LEMMA HandlingQuiet ==
  ASSUME IInv,
         \/ Withdraw \/ Withdrawn \/ RefusePull \/ Refused
         \/ \E p \in Ids : SelfMatchPullsResting(p) \/ SelfMatchPullsAggressor(p)
         \/ SweepEnds
         \/ \E i \in Ids : RunStop(i)
         \/ PostSecondLeg \/ DropSecondLeg \/ HandlerReturns
  PROVE  Silent(book') /\ hasStops' = hasStops
<1>1. Sound(book) /\ book \in Book
  BY DEF IInv, Sound
<1>2. hasStops' = hasStops
  BY DEF Withdraw, Withdrawn, RefusePull, Refused, SelfMatchPullsResting,
         SelfMatchPullsAggressor, SweepEnds, RunStop, PostSecondLeg, DropSecondLeg,
         HandlerReturns
<1>3. ASSUME book'.ord = book.ord
      PROVE  Silent(book')
  BY <1>3 DEF Silent, NoneFilled, Undisturbed, order
<1>4. ASSUME NEW i \in Ids, order(i).place = "none",
             NEW b, Sound(b), Thinned(book, b),
             book' = [b EXCEPT !.ord[i].status = "CANCELLED"]
      PROVE  Silent(book')
  <2>1. b.ord[i].place = "none" /\ Silent(b)
    BY <1>1, <1>4, ThinnedFields, ThinnedQuiet DEF order
  <2>2. /\ OthersSame(b, book', i) /\ SameOrder(b.ord[i], book'.ord[i])
        /\ book'.ord[i].rem = b.ord[i].rem /\ book'.ord[i].place = "none"
    BY <1>4, <2>1, StatusSound
  <2>3. QED
    BY <1>4, <2>1, <2>2 DEF Silent, NoneFilled, Undisturbed, OthersSame, SameOrder
<1>5. CASE Withdraw \/ RefusePull
  <2>1. PICK i \in Ids : book' = Cancel(book, i) \/ book' = SmpCancel(book, i)
    BY <1>5 DEF Withdraw, RefusePull, IInv, TypeOK
  <2>2. Thinned(book, book')
    BY <1>1, <2>1, CancelThins, SmpCancelThins
  <2>3. QED
    BY <1>1, <1>2, <2>2, ThinnedQuiet
<1>6. CASE Withdrawn \/ Refused \/ (\E i \in Ids : RunStop(i)) \/ PostSecondLeg \/ HandlerReturns
  <2>1. book'.ord = book.ord
    BY <1>1, <1>6 DEF Withdrawn, Refused, RunStop, PostSecondLeg, HandlerReturns, Book
  <2>2. QED
    BY <1>2, <1>3, <2>1
<1>7. ASSUME NEW p \in Ids, SelfMatchPullsResting(p)
      PROVE  Silent(book')
  <2>1. Thinned(book, book')
    BY <1>1, <1>7, SmpCancelThins DEF SelfMatchPullsResting
  <2>2. QED
    BY <1>1, <2>1, ThinnedQuiet
<1>8. ASSUME NEW p \in Ids, SelfMatchPullsAggressor(p)
      PROVE  Silent(book')
  <2> DEFINE b == IF SelfMatch(book, cur, p) = "CANCEL_BOTH" THEN SmpCancel(book, p) ELSE book
  <2>1. /\ cur \in Ids /\ order(cur).place = "none"
        /\ book' = [b EXCEPT !.ord[cur].status = "CANCELLED"]
    BY <1>8, FacingFacts DEF SelfMatchPullsAggressor
  <2>2. Sound(b) /\ Thinned(book, b)
    <3>1. Thinned(book, book)
      BY DEF Thinned
    <3>2. QED
      BY <1>1, <3>1, SmpCancelThins
  <2> HIDE DEF b
  <2>3. QED
    BY <1>4, <2>1, <2>2
<1>9. CASE SweepEnds
  <2>1. cur \in Ids /\ order(cur).place = "none" /\ order(cur) \in Order
        /\ (order(cur).rem # 0 => order(cur).status \in Working)
    BY <1>1, <1>9 DEF SweepEnds, IInv, HandlerOK, Book, Order, order
  <2>2. CASE order(cur).rem = 0
    BY <1>2, <1>3, <1>9, <2>2 DEF SweepEnds
  <2>3. CASE order(cur).rem # 0 /\ order(cur).kind \in Restable
    <3>1. book' = Rest(book, cur)
      BY <1>9, <2>3 DEF SweepEnds
    <3>2. OthersSame(book, book', cur) /\ book'.ord[cur].place = "book"
      BY <1>1, <2>1, <2>3, <3>1, RestSound DEF order
    <3>3. QED
      BY <1>2, <2>1, <3>2, EditQuiet
  <2>4. CASE order(cur).rem # 0 /\ order(cur).kind \notin Restable
    <3>1. book' = [book EXCEPT !.ord[cur].status = "CANCELLED"]
      BY <1>9, <2>4 DEF SweepEnds
    <3>2. Thinned(book, book)
      BY DEF Thinned
    <3>3. QED
      BY <1>1, <1>2, <1>4, <2>1, <3>1, <3>2
  <2>5. QED
    BY <2>2, <2>3, <2>4
<1>10. CASE DropSecondLeg
  <2>1. /\ todo \in Ids /\ order(todo).place = "none" /\ Thinned(book, book)
        /\ book' = [book EXCEPT !.ord[todo].status = "CANCELLED"]
    BY <1>10 DEF DropSecondLeg, IInv, HandlerOK, InHand, Thinned
  <2>2. QED
    BY <1>1, <1>2, <1>4, <2>1
<1>11. QED
  BY <1>2, <1>5, <1>6, <1>7, <1>8, <1>9, <1>10

\* Of the orders that rest, a trade executes the one at the head of the queue
\* only, whatever its callbacks withdraw.
LEMMA TradeExecutes ==
  ASSUME IInv, NEW p \in Ids, Trade(p)
  PROVE  /\ Undisturbed(book') /\ hasStops' = hasStops
         /\ \A i \in Ids : order(i).place = "book" /\ Executes(i) => i = p
<1> DEFINE c == ApplyFill(book, cur, p)
<1>1. /\ Sound(book) /\ cur \in Ids /\ cur # p
      /\ order(cur).place = "none" /\ order(cur).status \in Working
      /\ order(p).place = "book" /\ book' = c /\ hasStops' = hasStops
  BY FacingFacts DEF Trade
<1>2. /\ c.ord[cur].place = "none" /\ c.ord[p].place \in {"none", "book"}
      /\ \A j \in Ids \ {cur, p} :
           \/ c.ord[j] = order(j)
           \/ c.ord[j] = Withdrawn1(order(j))
  BY <1>1, ApplyFillSound DEF order
<1> HIDE DEF c
<1>3. ASSUME NEW j \in Ids \ {cur, p}
      PROVE  /\ c.ord[j].qty = order(j).qty /\ c.ord[j].rem = order(j).rem
             /\ c.ord[j].side = order(j).side /\ c.ord[j].stop = order(j).stop
             /\ c.ord[j].place \in {order(j).place, "none"}
  <2>1. order(j) \in Order
    BY <1>1 DEF Sound, Book, order
  <2>2. CASE c.ord[j] = order(j)
    BY <2>2
  <2>3. CASE c.ord[j] = Withdrawn1(order(j))
    BY <2>1, <2>3 DEF Withdrawn1, Order
  <2>4. QED
    BY <1>2, <2>2, <2>3
<1>4. Undisturbed(book')
  BY <1>1, <1>2, <1>3 DEF Undisturbed
<1>5. ASSUME NEW i \in Ids, order(i).place = "book", Executes(i), i # p
      PROVE  FALSE
  <2>1. i \in Ids \ {cur, p} /\ order(i) \in Order
    BY <1>1, <1>5 DEF Sound, Book, order
  <2>2. c.ord[i].qty - c.ord[i].rem = order(i).qty - order(i).rem
    BY <1>3, <2>1
  <2>3. QED
    BY <1>1, <1>5, <2>1, <2>2 DEF Executes, Order
<1>6. QED
  BY <1>1, <1>4, <1>5

\* The cascade check executes nothing, and sets the flag by what still sleeps.
LEMMA SettleFacts ==
  ASSUME IInv, Settle
  PROVE  /\ NoneFilled(book')
         /\ (Undisturbed(book') /\ hasStops' = hasStops) \/ hasStops' = Watch(book')
<1> DEFINE b == OcoLegEnded(book, cur)
           r == Release(b, last, released)
<1>1. /\ Sound(book) /\ cur \in Ids /\ last \in Int /\ released \in Nat
      /\ IF traded /\ hasStops
         THEN book' = r /\ hasStops' = Watch(r)
         ELSE book' = b /\ hasStops' = hasStops
  BY PricesAssumption DEF IInv, TypeOK, HandlerOK, Settle, NoPrice
<1>2. Sound(b) /\ Thinned(book, b)
  BY <1>1, OcoLegEndedThins
<1> HIDE DEF b
<1>3. Silent(b)
  BY <1>1, <1>2, ThinnedQuiet
<1>4. CASE ~(traded /\ hasStops)
  BY <1>1, <1>3, <1>4 DEF Silent
<1>5. CASE traded /\ hasStops
  <2>1. \A i \in Ids : SameOrder(b.ord[i], r.ord[i]) /\ r.ord[i].rem = b.ord[i].rem
    BY <1>1, <1>2, ReleaseSound
  <2> HIDE DEF r
  <2>2. QED
    BY <1>1, <1>3, <1>5, <2>1 DEF Silent, NoneFilled, SameOrder
<1>6. QED
  BY <1>4, <1>5

\* What the cascade check leaves asleep has not been reached, and a trigger
\* that trailed has not loosened.
LEMMA ReleaseWakes ==
  ASSUME NEW b, Sound(b), NEW price \in Int, NEW top \in Nat, NEW i \in Ids
  PROVE  LET o == b.ord[i]
             n == Release(b, price, top).ord[i]
         IN  /\ n.place \in {"armed", "trailing"} => ~Breached(n.side, n.stop, price)
             /\ IF o.side = "SELL" THEN n.stop >= o.stop ELSE n.stop <= o.stop
<1> DEFINE o == b.ord[i]
           moved == [j \in Ids |-> Ratcheted(b.ord[j], price)]
           m == moved[i]
           n == Release(b, price, top).ord[i]
           reached == m.place \in {"armed", "trailing"} /\ Breached(m.side, m.stop, price)
<1>1. o \in Order /\ o.stop \in Int /\ o.offset \in Nat
  BY DEF Sound, Book, Order
<1>2. IF o.side = "SELL" THEN m.stop >= o.stop ELSE m.stop <= o.stop
  BY <1>1 DEF Ratcheted, Order
<1>3. m.place = o.place /\ m.side = o.side /\ DOMAIN m = DOMAIN o
  BY <1>1 DEF Ratcheted, Order
<1>4. \/ reached /\ \E turn : n = [Converted(m) EXCEPT !.place = "triggered", !.turn = turn]
      \/ ~reached /\ n = m
  BY DEF Release, Sound, Book
<1> HIDE DEF m
<1>5. CASE ~reached /\ n = m
  BY <1>2, <1>5
<1>6. ASSUME reached, NEW turn,
             n = [Converted(m) EXCEPT !.place = "triggered", !.turn = turn]
      PROVE  n.stop = m.stop /\ n.place = "triggered"
  BY <1>1, <1>3, <1>6 DEF Converted, Order
<1>7. QED
  BY <1>2, <1>4, <1>5, <1>6

\* The end of process(): after a trade every stop that still sleeps has been
\* looked at; without one nothing stirs.
LEMMA SettleWakes ==
  ASSUME IInv, Settle
  PROVE  /\ traded /\ hasStops =>
              \A i \in Ids :
                /\ book'.ord[i].place \in {"armed", "trailing"} =>
                     ~Breached(book'.ord[i].side, book'.ord[i].stop, last)
                /\ IF order(i).side = "SELL" THEN book'.ord[i].stop >= order(i).stop
                                             ELSE book'.ord[i].stop <= order(i).stop
         /\ ~(traded /\ hasStops) => Undisturbed(book')
<1> DEFINE b == OcoLegEnded(book, cur)
           r == Release(b, last, released)
<1>1. /\ Sound(book) /\ cur \in Ids /\ last \in Int /\ released \in Nat
      /\ IF traded /\ hasStops THEN book' = r ELSE book' = b
  BY PricesAssumption DEF IInv, TypeOK, HandlerOK, Settle, NoPrice
<1>2. Sound(b) /\ Thinned(book, b)
  BY <1>1, OcoLegEndedThins
<1> HIDE DEF b
<1>3. CASE ~(traded /\ hasStops)
  BY <1>1, <1>2, <1>3, ThinnedQuiet DEF Silent
<1>4. CASE traded /\ hasStops
  <2>1. \A i \in Ids : b.ord[i].side = order(i).side /\ b.ord[i].stop = order(i).stop
    BY <1>1, <1>2, ThinnedFields DEF order
  <2>2. book' = r
    BY <1>1, <1>4
  <2>3. QED
    BY <1>1, <1>2, <1>4, <2>1, <2>2, ReleaseWakes
<1>5. QED
  BY <1>3, <1>4

\* A stop that arrives rewrites itself only, and sets the flag.
LEMMA ArmStopFacts ==
  ASSUME IInv, ArmStop
  PROVE  /\ NoneFilled(book') /\ hasStops' = TRUE
         /\ cur \in Ids /\ order(cur).place \in {"none", "triggered"}
         /\ \A i \in Ids \ {cur} : book'.ord[i] = order(i)
<1>1. cur \in Ids /\ order(cur).place \in {"none", "triggered"} /\ book \in Book
  BY ProcessingFacts DEF ArmStop, Processing, IInv, HandlerOK, InHand, Sound
<1>2. \A i \in Ids \ {cur} : book'.ord[i] = order(i)
  BY <1>1 DEF ArmStop, Book, order
<1>3. QED
  BY <1>1, <1>2 DEF ArmStop, NoneFilled

-----------------------------------------------------------------------------
(***************************************************************************)
(* Theorems.                                                               *)
(***************************************************************************)

\* A resting order executes in a trade at the head of its queue, or not at all.
LEMMA RestingExecutes ==
  ASSUME IInv, Next, NEW i \in Ids, order(i).place = "book", Executes(i)
  PROVE  Trade(i)
<1>1. order(i) \in Order
  BY DEF IInv, Sound, Book, order
<1>2. ~NoneFilled(book')
  BY <1>1 DEF NoneFilled, Executes, Order
<1>3. PICK p \in Ids : Trade(p)
  BY <1>2, MessageQuiet, ProcessingQuiet, HandlingQuiet, SettleFacts, ArmStopFacts
     DEF Next, EngineStep, Silent
<1>4. QED
  BY <1>3, TradeExecutes

\* The engine trades what is in front: not between the passes of a sweep, nor
\* after an amend, a refill or a callback, is anything better passed over.
LEMMA PriorityStep ==
  ASSUME IInv, Next, NEW p \in Ids, NEW q \in Ids,
         order(p).place = "book", order(q).place = "book",
         order(p).side = order(q).side, Executes(p)
  PROVE  ~Ahead(book, q, p)
<1>1. Facing(p)
  BY RestingExecutes DEF Trade
<1>2. SUFFICES ASSUME Ahead(book, q, p) PROVE FALSE
  OBVIOUS
<1>3. /\ order(p) \in Order /\ order(q) \in Order /\ order(cur) \in Order
      /\ order(p).price \in Prices /\ order(q).price \in Prices
  <2>1. OrderSound(order(p)) /\ OrderSound(order(q))
    BY DEF IInv, Sound, order
  <2>2. QED
    BY <1>1, <2>1, FacingFacts DEF IInv, Sound, Book, order, OrderSound, Restable
<1>4. order(p).side = Opposite(order(cur).side)
      /\ Within(order(cur).side, order(cur).price, order(p).price)
  BY <1>1 DEF Facing, IsBest, Matchable, Resting, order
<1>5. /\ order(p).price \in Nat /\ order(q).price \in Nat /\ order(cur).price \in Nat
      /\ order(p).seq \in Nat /\ order(cur).side \in {"BUY", "SELL"}
  <2>1. /\ order(p).seq \in Nat /\ order(cur).side \in Sides
        /\ order(cur).price \in Prices \cup {NoPrice}
    BY <1>3 DEF Order
  <2>2. \A x \in Prices \cup {NoPrice} : x \in Nat
    BY PricesAssumption DEF NoPrice
  <2>3. QED
    BY <1>3, <2>1, <2>2 DEF Sides
<1>6. Within(order(cur).side, order(cur).price, order(q).price) /\ p # q
  <2>1. order(q).price = order(p).price \/ Better(order(p).side, order(q).price, order(p).price)
    BY <1>2 DEF Ahead, order
  <2>2. p # q
    BY <1>2, <1>5 DEF Ahead, Better, order
  <2>3. QED
    BY <1>4, <1>5, <2>1, <2>2 DEF Within, Better, Opposite
<1>7. q \in Matchable(book, cur)
  BY <1>4, <1>6 DEF Matchable, Resting, order
<1>8. QED
  BY <1>1, <1>2, <1>6, <1>7 DEF Facing, IsBest

\* No step trades a resting order while one with a better price, or the same
\* price and an earlier arrival, rests on its side: not between the passes of
\* a sweep, nor after an amend, a refill or a callback.
THEOREM PriorityKept == Spec => PriceTimePriority
<1>1. IInv /\ [Next]_vars =>
        [\A p, q \in Ids :
           /\ order(p).place = "book" /\ order(q).place = "book"
           /\ order(p).side = order(q).side /\ Executes(p)
           => ~Ahead(book, q, p)]_vars
  BY PriorityStep
<1>2. QED
  BY <1>1, Invariance, PTL DEF Spec, PriceTimePriority

\* The order in hand executes against a resting order of its own participant
\* only if it does not prevent that.
THEOREM SelfMatchesPrevented == Spec => NoWashTrade
<1>1. ASSUME IInv, Next, NEW a \in Ids, NEW p \in Ids, order(p).place = "book", a = cur,
             Executes(p), order(a).gw = order(p).gw
      PROVE  order(a).smp = "NONE"
  BY <1>1, RestingExecutes DEF Trade, SelfMatch, order
<1>2. IInv /\ [Next]_vars =>
        [\A a, p \in Ids :
           /\ order(p).place = "book" /\ a = cur /\ a # p
           /\ Executes(a) /\ Executes(p) /\ order(a).gw = order(p).gw
           => order(a).smp = "NONE"]_vars
  BY <1>1
<1>3. QED
  BY <1>2, Invariance, PTL DEF Spec, NoWashTrade

\* While a stop sleeps the flag that makes the cascade look at stops is set.
THEOREM SleepersWatched == Spec => []StopsAreWatched
<1>1. Init => StopsAreWatched
  BY DEF Init, StopsAreWatched, Dormant, Absent
<1>2. ASSUME IInv, StopsAreWatched, [Next]_vars
      PROVE  StopsAreWatched'
  <2>1. \/ Undisturbed(book') /\ hasStops' = hasStops
        \/ hasStops' = TRUE
        \/ hasStops' = Watch(book')
    <3>1. CASE UNCHANGED vars
      BY <3>1 DEF vars, Undisturbed, order
    <3>2. CASE Next
      BY <1>2, <3>2, MessageQuiet, ProcessingQuiet, HandlingQuiet, SettleFacts,
         ArmStopFacts, TradeExecutes DEF Next, EngineStep, Silent
    <3>3. QED
      BY <1>2, <3>1, <3>2
  <2>2. CASE Undisturbed(book') /\ hasStops' = hasStops
    BY <1>2, <2>2 DEF Undisturbed, StopsAreWatched, Dormant, order
  <2>3. CASE hasStops' = TRUE \/ hasStops' = Watch(book')
    BY <2>3 DEF StopsAreWatched, Watch
  <2>4. QED
    BY <2>1, <2>2, <2>3
<1>3. QED
  BY <1>1, <1>2, Invariance, PTL DEF Spec

\* A trigger that trails only ever moves towards the order's own side of the
\* market, through every cascade, callback and amendment of other orders.
THEOREM TrailingKept == Spec => TrailingOnlyTightens
<1>1. ASSUME IInv, Next, NEW i \in Ids,
             order(i).place = "trailing", book'.ord[i].place \in {"trailing", "triggered"}
      PROVE  IF order(i).side = "SELL" THEN book'.ord[i].stop >= order(i).stop
                                       ELSE book'.ord[i].stop <= order(i).stop
  <2>1. order(i).stop \in Int
    BY <1>1 DEF IInv, Sound, Book, Order, order
  <2>2. CASE Undisturbed(book')
    BY <1>1, <2>1, <2>2 DEF Undisturbed
  <2>3. CASE Settle
    BY <1>1, <2>2, <2>3, SettleWakes
  <2>4. CASE ArmStop
    BY <1>1, <2>1, <2>4, ArmStopFacts
  <2>5. QED
    BY <1>1, <2>2, <2>3, <2>4, MessageQuiet, ProcessingQuiet, HandlingQuiet, TradeExecutes
       DEF Next, EngineStep, Silent
<1>2. IInv /\ [Next]_vars =>
        [\A i \in Ids :
           order(i).place = "trailing" /\ book'.ord[i].place \in {"trailing", "triggered"} =>
             IF order(i).side = "SELL" THEN book'.ord[i].stop >= order(i).stop
                                       ELSE book'.ord[i].stop <= order(i).stop]_vars
  BY <1>1
<1>3. QED
  BY <1>2, Invariance, PTL DEF Spec, TrailingOnlyTightens

\* Overdue orders exist only between a trade and the check that follows it.
CheckAhead == pc \in {"sweep", "settle"} /\ traded
NoneOverdue ==
  matching /\ last # NoPrice /\ ~CheckAhead =>
    \A i \in Dormant(book) : ~Breached(order(i).side, order(i).stop, last)

\* What every step but a trade, an arriving stop and the check itself does to
\* the last price and to the check that is due: nothing.
LEMMA CheckStaysAhead ==
  ASSUME IInv, Next, ~Settle, ~ArmStop, \A p \in Ids : ~Trade(p)
  PROVE  /\ Undisturbed(book') /\ last' = last /\ (matching' => matching)
         /\ CheckAhead => CheckAhead'
<1>1. Undisturbed(book')
  BY MessageQuiet, ProcessingQuiet, HandlingQuiet DEF Next, EngineStep, Silent
<1>2. CASE Message
  BY <1>1, <1>2 DEF Message, NewOrder, OcoOrder, QuoteNew, QuoteCancel, KillSwitch, CancelOrder,
         OcoCancel, Amend, CallPhaseBegins, NoMessage, vars, CheckAhead
<1>3. CASE EngineStep
  BY <1>1, <1>3 DEF EngineStep, Withdraw, Withdrawn, DropCancelled, RejectImmediate,
         RestUnmatched, HandlerRaises, TriggerOnEntry, StartSweep, RefuseFok, RefusePull,
         Refused, SelfMatchPullsResting, SelfMatchPullsAggressor, Facing, Unfilled, SweepEnds,
         RunStop, PostSecondLeg, DropSecondLeg, HandlerReturns, Processing, dispatch, CheckAhead
<1>4. QED
  BY <1>2, <1>3 DEF Next

\* Between messages no dormant stop has been reached by the last trade: the
\* check on entry, the cascade and the flag that starts it leave none out.
THEOREM NoStopMissed == Spec => []NoReachedStopSleeps
<1>1. Init => NoneOverdue
  BY DEF Init, NoneOverdue, Dormant, Absent
<1>2. ASSUME IInv, StopsAreWatched, NoneOverdue, [Next]_vars
      PROVE  NoneOverdue'
  <2>1. SUFFICES ASSUME matching', last' # NoPrice, ~CheckAhead', NEW i \in Ids,
                        book'.ord[i].place \in {"armed", "trailing"}
                 PROVE  ~Breached(book'.ord[i].side, book'.ord[i].stop, last')
    BY DEF NoneOverdue, Dormant, order
  <2>2. CASE Undisturbed(book') /\ last' = last /\ matching /\ ~CheckAhead
    BY <1>2, <2>1, <2>2 DEF NoneOverdue, Undisturbed, Dormant, order
  <2>3. CASE UNCHANGED vars
    <3>1. Undisturbed(book')
      BY <2>3 DEF vars, Undisturbed, order
    <3>2. QED
      BY <2>1, <2>2, <2>3, <3>1 DEF vars, dispatch, CheckAhead
  <2>4. ASSUME NEW p \in Ids, Trade(p)
        PROVE  FALSE
    BY <2>1, <2>4 DEF Trade, Facing, Unfilled, CheckAhead
  <2>5. CASE Settle
    <3>1. last' = last /\ matching' = matching
      BY <2>5 DEF Settle
    <3>2. CASE traded /\ hasStops
      BY <1>2, <2>1, <2>5, <3>1, <3>2, SettleWakes
    <3>3. CASE ~(traded /\ hasStops)
      <4>1. Undisturbed(book')
        BY <1>2, <2>5, <3>3, SettleWakes
      <4>2. i \in Dormant(book)
        BY <2>1, <4>1 DEF Undisturbed, Dormant, order
      <4>3. ~traded
        BY <1>2, <3>3, <4>2 DEF StopsAreWatched
      <4>4. QED
        BY <2>1, <2>2, <3>1, <4>1, <4>3 DEF CheckAhead
    <3>4. QED
      BY <3>2, <3>3
  <2>6. CASE ArmStop
    <3> DEFINE o == Resolved(order(cur))
    <3>1. /\ cur \in Ids /\ pc = "process" /\ book \in Book /\ order(cur) \in Order
          /\ last' = last /\ matching' = matching
      BY <1>2, <2>6, ProcessingFacts DEF ArmStop, Sound
    <3>2. CASE i # cur
      <4>1. book'.ord[i] = order(i)
        BY <1>2, <2>6, <3>2, ArmStopFacts
      <4>2. QED
        BY <1>2, <2>1, <3>1, <4>1 DEF NoneOverdue, Dormant, CheckAhead, order
    <3>3. CASE i = cur
      <4>1. book'.ord[cur].side = o.side /\ book'.ord[cur].stop = o.stop
        BY <2>6, <3>1 DEF ArmStop, Book, Order, Resolved, order
      <4>2. ~Breached(o.side, o.stop, last)
        BY <2>1, <2>6, <3>1 DEF ArmStop, BreachedOnEntry
      <4>3. QED
        BY <3>1, <3>3, <4>1, <4>2
    <3>4. QED
      BY <3>2, <3>3
  <2>7. QED
    BY <1>2, <2>1, <2>2, <2>3, <2>4, <2>5, <2>6, CheckStaysAhead
<1>3. IInv /\ NoneOverdue => NoReachedStopSleeps
  BY DEF NoneOverdue, NoReachedStopSleeps, CheckAhead
<1>4. QED
  BY <1>1, <1>2, <1>3, Invariance, SleepersWatched, PTL DEF Spec

-----------------------------------------------------------------------------
(***************************************************************************)
(* The price-level index.                                                  *)
(***************************************************************************)

\* What order o contributes to the level of price p on side s.
Share(o, s, p) ==
  IF o.place = "book" /\ o.side = s /\ o.price = p THEN Slice(o) ELSE 0

\* The shares the orders of S show, one by one.
Shares(b, S, s, p) == UNION {{i} \X (1 .. Share(b.ord[i], s, p)) : i \in S}
ShownAt(b, s, p)   == Shares(b, Ids, s, p)

Exact(b) == \A s \in Sides, p \in Prices : b.level[s][p] = Cardinality(ShownAt(b, s, p))

-----------------------------------------------------------------------------
(***************************************************************************)
(* Counting.                                                               *)
(***************************************************************************)

\* A share is a number of shares.
LEMMA ShareType ==
  ASSUME NEW o \in Order, NEW s, NEW p
  PROVE  Share(o, s, p) \in Nat
BY DEF Share, Slice, Order

\* What the other orders show is a finite set.
LEMMA RestFinite ==
  ASSUME NEW b, Sound(b), NEW s, NEW p, NEW S \in SUBSET Ids
  PROVE  IsFiniteSet(Shares(b, S, s, p))
<1> DEFINE part == [j \in S |-> {j} \X (1 .. Share(b.ord[j], s, p))]
           T == {{j} \X (1 .. Share(b.ord[j], s, p)) : j \in S}
<1>1. IsFiniteSet(S)
  <2>1. IsFiniteSet(1 .. MaxOrders)
    BY FS_Interval, MaxOrdersAssumption
  <2>2. QED
    BY <2>1, FS_Subset DEF Ids
<1>2. part \in Surjection(S, T)
  BY DEF Surjection
<1>3. IsFiniteSet(T)
  <2> HIDE DEF part, T
  <2>1. QED
    BY <1>1, <1>2, FS_Surjection
<1>4. ASSUME NEW j \in S
      PROVE  IsFiniteSet({j} \X (1 .. Share(b.ord[j], s, p)))
  <2>1. Share(b.ord[j], s, p) \in Nat
    BY ShareType DEF Sound, Book
  <2>2. IsFiniteSet(1 .. Share(b.ord[j], s, p))
    BY <2>1, FS_Interval
  <2>3. QED
    BY <2>2, FS_Singleton, FS_Product
<1>5. QED
  BY <1>3, <1>4, FS_UNION DEF Shares

\* When one order is rewritten the shares on show change by its share.
LEMMA ShareSplit ==
  ASSUME NEW b, Sound(b), NEW i \in Ids, NEW s, NEW p
  PROVE  LET R == Shares(b, Ids \ {i}, s, p)
         IN  /\ Cardinality(R) \in Nat
             /\ Cardinality(ShownAt(b, s, p)) = Cardinality(R) + Share(b.ord[i], s, p)
<1> DEFINE R == Shares(b, Ids \ {i}, s, p)
           x == Share(b.ord[i], s, p)
           B == {i} \X (1 .. x)
<1>1. ShownAt(b, s, p) = R \cup B
  BY DEF ShownAt, Shares
<1>2. R \cap B = {}
  <2>1. ASSUME NEW x1 \in R \cap B
        PROVE  FALSE
    <3>1. PICK j \in Ids \ {i} : x1 \in {j} \X (1 .. Share(b.ord[j], s, p))
      BY <2>1 DEF Shares
    <3>2. x1[1] = j /\ x1[1] = i
      BY <2>1, <3>1
    <3>3. QED
      BY <3>2
  <2>2. QED
    BY <2>1
<1>3. IsFiniteSet(R) /\ Cardinality(R) \in Nat
  <2>1. Ids \ {i} \in SUBSET Ids
    OBVIOUS
  <2>2. IsFiniteSet(R)
    BY <2>1, RestFinite
  <2> HIDE DEF R
  <2>3. QED
    BY <2>2, FS_CardinalityType
<1>4. x \in Nat
  BY ShareType DEF Sound, Book
<1>5. IsFiniteSet(B) /\ Cardinality(B) = x
  <2> HIDE DEF x
  <2>1. IsFiniteSet(1 .. x) /\ Cardinality(1 .. x) = x
    BY <1>4, FS_Interval
  <2>2. IsFiniteSet({i}) /\ Cardinality({i}) = 1
    BY FS_Singleton
  <2>3. IsFiniteSet({i} \X (1 .. x)) /\ Cardinality({i} \X (1 .. x)) = 1 * x
    BY <2>1, <2>2, FS_Product
  <2>4. QED
    BY <1>4, <2>3
<1> HIDE DEF R, B, x
<1>6. Cardinality(R \cup B) = Cardinality(R) + Cardinality(B) - Cardinality(R \cap B)
  BY <1>3, <1>5, FS_Union
<1>7. Cardinality({}) = 0
  BY FS_EmptySet
<1>8. QED
  BY <1>1, <1>2, <1>3, <1>4, <1>5, <1>6, <1>7 DEF R, x

\* When one order is rewritten the shares on show follow it.
LEMMA ShareChange ==
  ASSUME NEW b, NEW c, Sound(b), Sound(c), NEW i \in Ids, OthersSame(b, c, i), NEW s, NEW p
  PROVE  /\ Cardinality(ShownAt(b, s, p)) \in Nat
         /\ Share(b.ord[i], s, p) <= Cardinality(ShownAt(b, s, p))
         /\ Cardinality(ShownAt(c, s, p)) =
              Cardinality(ShownAt(b, s, p)) - Share(b.ord[i], s, p) + Share(c.ord[i], s, p)
<1> DEFINE R(x) == Shares(x, Ids \ {i}, s, p)
<1>1. R(b) = R(c)
  BY DEF OthersSame, Shares
<1>2. /\ Cardinality(R(b)) \in Nat
      /\ Cardinality(ShownAt(b, s, p)) = Cardinality(R(b)) + Share(b.ord[i], s, p)
  BY ShareSplit
<1>3. Cardinality(ShownAt(c, s, p)) = Cardinality(R(c)) + Share(c.ord[i], s, p)
  BY ShareSplit
<1>4. Share(b.ord[i], s, p) \in Nat /\ Share(c.ord[i], s, p) \in Nat
  BY ShareType DEF Sound, Book
<1> HIDE DEF R
<1>5. QED
  BY <1>1, <1>2, <1>3, <1>4

\* An index that follows the order rewritten stays exact.
LEMMA Follows1 ==
  ASSUME NEW b, NEW c, Sound(b), Sound(c), Exact(b), NEW i \in Ids, OthersSame(b, c, i),
         \A s \in Sides, p \in Prices :
           c.level[s][p] = b.level[s][p] - Share(b.ord[i], s, p) + Share(c.ord[i], s, p)
  PROVE  Exact(c)
BY ShareChange DEF Exact

\* Deducting what an order shows never meets the floor.
LEMMA Covered ==
  ASSUME NEW b, Sound(b), Exact(b), NEW i \in Ids, b.ord[i].place = "book"
  PROVE  /\ b.ord[i].price \in Prices /\ b.ord[i].side \in Sides
         /\ Slice(b.ord[i]) \in Nat
         /\ Slice(b.ord[i]) <= b.level[b.ord[i].side][b.ord[i].price]
<1>1. b.ord[i] \in Order /\ OrderSound(b.ord[i])
  BY DEF Sound, Book
<1>2. b.ord[i].price \in Prices /\ b.ord[i].side \in Sides /\ Slice(b.ord[i]) \in Nat
  BY <1>1 DEF OrderSound, Restable, Order, Slice
<1>3. OthersSame(b, b, i)
  BY DEF OthersSame
<1>4. QED
  BY <1>2, <1>3, ShareChange DEF Exact, Share

\* The index, entry by entry.
LEMMA LevelEntries ==
  ASSUME NEW level \in Levels, NEW o, o.side \in Sides, o.price \in Prices, NEW q \in Nat,
         NEW s \in Sides, NEW p \in Prices
  PROVE  /\ Credit(level, o, q)[s][p] =
              IF s = o.side /\ p = o.price THEN level[s][p] + q ELSE level[s][p]
         /\ q <= level[o.side][o.price] =>
              Deduct(level, o, q)[s][p] =
                IF s = o.side /\ p = o.price THEN level[s][p] - q ELSE level[s][p]
         /\ level[s][p] \in Nat
<1>1. level \in [Sides -> [Prices -> Nat]]
  BY DEF Levels
<1>2. level[s] \in [Prices -> Nat] /\ level[o.side] \in [Prices -> Nat]
  BY <1>1
<1>3. level[s][p] \in Nat /\ level[o.side][o.price] \in Nat
  BY <1>2
<1>4. Credit(level, o, q)[s][p] =
        IF s = o.side /\ p = o.price THEN level[s][p] + q ELSE level[s][p]
  BY <1>1, <1>2 DEF Credit
<1>5. Deduct(level, o, q)[s][p] =
        IF s = o.side /\ p = o.price THEN Minus(level[s][p], q) ELSE level[s][p]
  BY <1>1, <1>2 DEF Deduct
<1>6. q <= level[o.side][o.price] => Minus(level[o.side][o.price], q) = level[o.side][o.price] - q
  BY <1>3 DEF Minus
<1>7. QED
  BY <1>3, <1>4, <1>5, <1>6

-----------------------------------------------------------------------------
(***************************************************************************)
(* The operations of BookState.                                            *)
(***************************************************************************)

\* Whatever rests in book c rested in book b, on the same side at the same
\* price.
Fewer(b, c) ==
  \A i \in Ids : c.ord[i].place = "book" =>
    b.ord[i].place = "book" /\ c.ord[i].side = b.ord[i].side /\ c.ord[i].price = b.ord[i].price

\* From book b to book c nothing changes in front of the public.
Backstage(b, c) ==
  /\ c.level = b.level
  /\ \A i \in Ids :
       \/ c.ord[i] = b.ord[i]
       \/ b.ord[i].place # "book" /\ c.ord[i].place # "book"

\* What happens backstage concerns no level.
LEMMA BackstageExact ==
  ASSUME NEW b, NEW c, Exact(b), Backstage(b, c)
  PROVE  Exact(c) /\ Fewer(b, c)
<1>1. \A s, p : \A i \in Ids : Share(c.ord[i], s, p) = Share(b.ord[i], s, p)
  BY DEF Backstage, Share
<1>2. \A s, p : ShownAt(c, s, p) = ShownAt(b, s, p)
  BY <1>1 DEF ShownAt, Shares
<1>3. QED
  BY <1>2 DEF Exact, Backstage, Fewer

\* Leaving happens step by step.
LEMMA FewerTransitive ==
  ASSUME NEW b, NEW c, NEW d, Fewer(b, c), Fewer(c, d)
  PROVE  Fewer(b, d)
BY DEF Fewer

\* An order the book holds leaves with its share.
LEMMA CancelExact ==
  ASSUME NEW b, Sound(b), Exact(b), NEW i \in Ids
  PROVE  Exact(Cancel(b, i)) /\ Fewer(b, Cancel(b, i))
<1> DEFINE c == Cancel(b, i)
           o == b.ord[i]
<1>1. /\ o \in Order /\ OrderSound(o) /\ Sound(c) /\ b \in Book
      /\ \A j \in Ids : b.ord[j] \in Order
  BY CancelThins DEF Sound, Book
<1>2. CASE o.place = "none" \/ o.status \in Dead
  <2>1. c = b
    BY <1>2 DEF Cancel
  <2>2. Backstage(b, b)
    BY DEF Backstage
  <2> HIDE DEF c
  <2>3. QED
    BY <2>1, <2>2, BackstageExact DEF c
<1>3. CASE o.place = "book" /\ o.status \notin Dead
  <2>1. /\ c.ord = [b.ord EXCEPT ![i] = [o EXCEPT !.status = "CANCELLED", !.place = "none"]]
        /\ c.level = Deduct(b.level, o, Slice(o))
    BY <1>1, <1>3 DEF Cancel, Book, Order
  <2>2. OthersSame(b, c, i) /\ c.ord[i].place = "none"
    BY <1>1, <2>1 DEF OthersSame, Book, Order
  <2>3. /\ o.price \in Prices /\ o.side \in Sides /\ Slice(o) \in Nat
        /\ Slice(o) <= b.level[o.side][o.price]
    BY <1>3, Covered
  <2>4. ASSUME NEW s \in Sides, NEW p \in Prices
        PROVE  c.level[s][p] = b.level[s][p] - Share(o, s, p) + Share(c.ord[i], s, p)
    <3>1. b.level \in Levels
      BY <1>1 DEF Book
    <3>2. /\ c.level[s][p] = IF s = o.side /\ p = o.price
                             THEN b.level[s][p] - Slice(o) ELSE b.level[s][p]
          /\ b.level[s][p] \in Nat
      BY <2>1, <2>3, <3>1, LevelEntries
    <3>3. Share(c.ord[i], s, p) = 0
      BY <2>2 DEF Share
    <3>4. Share(o, s, p) = IF s = o.side /\ p = o.price THEN Slice(o) ELSE 0
      BY <1>3 DEF Share
    <3> HIDE DEF c, o
    <3>5. QED
      BY <2>3, <3>2, <3>3, <3>4
  <2>5. Exact(c)
    BY <1>1, <2>2, <2>4, Follows1
  <2>6. Fewer(b, c)
    BY <2>2 DEF Fewer, OthersSame
  <2>7. QED
    BY <2>5, <2>6
<1>4. CASE o.place \notin {"none", "book"} /\ o.status \notin Dead
  <2>1. /\ c.ord = [b.ord EXCEPT ![i] = [o EXCEPT !.status = "CANCELLED",
                                          !.place = IF @ = "triggered" THEN @ ELSE "none"]]
        /\ c.level = b.level
    BY <1>1, <1>4 DEF Cancel, Book
  <2>2. OthersSame(b, c, i) /\ c.ord[i].place # "book"
    BY <1>1, <1>4, <2>1 DEF OthersSame, Book, Order
  <2>3. Backstage(b, c)
    BY <1>4, <2>1, <2>2 DEF Backstage, OthersSame
  <2> HIDE DEF c
  <2>4. QED
    BY <2>3, BackstageExact DEF c
<1>5. QED
  BY <1>2, <1>3, <1>4

\* Hooks withdraw at most the other leg.
LEMMA PullExact ==
  ASSUME NEW b, Sound(b), Exact(b), NEW i \in Ids, b.ord[i].bond # "none"
  PROVE  Exact(PullSibling(b, i)) /\ Fewer(b, PullSibling(b, i))
<1> DEFINE j == Sibling(b, i)
           d == Cancel(b, j)
           c == PullSibling(b, i)
<1>1. CASE b.ord[i].group \notin b.live
  <2>1. c = b
    BY <1>1 DEF PullSibling
  <2>2. Fewer(b, b)
    BY DEF Fewer
  <2> HIDE DEF c
  <2>3. QED
    BY <2>1, <2>2 DEF c
<1>2. CASE b.ord[i].group \in b.live
  <2>1. j \in Ids
    BY DEF Sound, Bonded, Sibling, Ids
  <2>2. Exact(d) /\ Fewer(b, d) /\ Sound(d)
    BY <2>1, CancelExact, CancelThins
  <2>3. c.ord = d.ord /\ c.level = d.level
    BY <1>2, <2>2 DEF PullSibling, Sound, Book
  <2>4. Exact(c) /\ Fewer(d, c)
    <3> HIDE DEF c, d
    <3>1. Backstage(d, c)
      BY <2>3 DEF Backstage
    <3>2. QED
      BY <2>2, <3>1, BackstageExact
  <2> HIDE DEF c, d
  <2>5. QED
    BY <2>2, <2>4, FewerTransitive DEF c
<1> HIDE DEF c
<1>3. QED
  BY <1>1, <1>2 DEF c

\* Doing nothing is orderly.
LEMMA NothingExact ==
  ASSUME NEW b, Exact(b)
  PROVE  Exact(b) /\ Fewer(b, b)
BY DEF Fewer

\* The follow-up of an OCO leg that ended.
LEMMA OcoLegEndedExact ==
  ASSUME NEW b, Sound(b), Exact(b), NEW i \in Ids
  PROVE  Exact(OcoLegEnded(b, i)) /\ Fewer(b, OcoLegEnded(b, i))
BY PullExact, NothingExact DEF OcoLegEnded

\* The follow-up of a quote leg that traded.
LEMMA QuoteLegFilledExact ==
  ASSUME NEW b, Sound(b), Exact(b), NEW i \in Ids
  PROVE  Exact(QuoteLegFilled(b, i)) /\ Fewer(b, QuoteLegFilled(b, i))
BY PullExact, NothingExact DEF QuoteLegFilled

\* The callbacks of a trade.
LEMMA FillHooksExact ==
  ASSUME NEW b, Sound(b), Exact(b), NEW a \in Ids, NEW p \in Ids
  PROVE  Exact(FillHooks(b, a, p)) /\ Fewer(b, FillHooks(b, a, p))
<1> DEFINE b1 == QuoteLegFilled(b, p)
           b2 == QuoteLegFilled(b1, a)
           b3 == OcoLegEnded(b2, p)
           b4 == OcoLegEnded(b3, a)
<1>1. Sound(b1) /\ Exact(b1) /\ Fewer(b, b1)
  BY QuoteLegFilledThins, QuoteLegFilledExact
<1> HIDE DEF b1
<1>2. Sound(b2) /\ Exact(b2) /\ Fewer(b1, b2)
  BY <1>1, QuoteLegFilledThins, QuoteLegFilledExact
<1> HIDE DEF b2
<1>3. Sound(b3) /\ Exact(b3) /\ Fewer(b2, b3)
  BY <1>2, OcoLegEndedThins, OcoLegEndedExact
<1> HIDE DEF b3
<1>4. Exact(b4) /\ Fewer(b3, b4)
  BY <1>3, OcoLegEndedExact
<1> HIDE DEF b4
<1>5. Fewer(b, b4)
  BY <1>1, <1>2, <1>3, <1>4, FewerTransitive
<1>6. QED
  BY <1>4, <1>5 DEF FillHooks, b1, b2, b3, b4

\* A pull by self-match prevention, with its follow-up.
LEMMA SmpCancelExact ==
  ASSUME NEW b, Sound(b), Exact(b), NEW p \in Ids
  PROVE  Exact(SmpCancel(b, p)) /\ Fewer(b, SmpCancel(b, p))
<1> DEFINE d == Cancel(b, p)
<1>1. Sound(d) /\ Exact(d) /\ Fewer(b, d)
  BY CancelThins, CancelExact
<1> HIDE DEF d
<1>2. Exact(OcoLegEnded(d, p)) /\ Fewer(d, OcoLegEnded(d, p))
  BY <1>1, OcoLegEndedExact
<1>3. QED
  BY <1>1, <1>2, FewerTransitive DEF SmpCancel, d

\* An order that comes to rest adds its share.
LEMMA RestExact ==
  ASSUME NEW b, Sound(b), Exact(b), NEW i \in Ids, b.ord[i].place = "none",
         b.ord[i].status \in Working, b.ord[i].kind \in Restable
  PROVE  LET c == Rest(b, i)
         IN  /\ Exact(c) /\ OthersSame(b, c, i)
             /\ c.ord[i].side = b.ord[i].side /\ c.ord[i].price = b.ord[i].price
<1> DEFINE c == Rest(b, i)
           o == b.ord[i]
           n == c.ord[i]
<1>1. Sound(c) /\ OthersSame(b, c, i) /\ n.place = "book"
  BY RestSound
<1>2. o \in Order /\ OrderSound(o) /\ b \in Book /\ b.level \in Levels
  BY DEF Sound, Book
<1>3. n \in Order /\ OrderSound(n)
  BY <1>1 DEF Sound, Book
<1>4. /\ n.side = o.side /\ n.price = o.price
      /\ c.level = Credit(b.level, n, Slice(n))
  BY <1>2 DEF Rest, Book, Order
<1>5. n.side \in Sides /\ n.price \in Prices /\ Slice(n) \in Nat
  BY <1>1, <1>3 DEF OrderSound, Restable, Order, Slice
<1>6. ASSUME NEW s \in Sides, NEW p \in Prices
      PROVE  c.level[s][p] = b.level[s][p] - Share(o, s, p) + Share(n, s, p)
  <2>1. /\ c.level[s][p] = IF s = n.side /\ p = n.price
                           THEN b.level[s][p] + Slice(n) ELSE b.level[s][p]
        /\ b.level[s][p] \in Nat
    BY <1>2, <1>4, <1>5, LevelEntries
  <2>2. Share(o, s, p) = 0
    BY DEF Share
  <2>3. Share(n, s, p) = IF s = n.side /\ p = n.price THEN Slice(n) ELSE 0
    BY <1>1 DEF Share
  <2> HIDE DEF c, o, n
  <2>4. QED
    BY <1>5, <2>1, <2>2, <2>3
<1>7. Exact(c)
  <2> HIDE DEF c
  <2>1. QED
    BY <1>1, <1>6, Follows1
<1>8. QED
  BY <1>1, <1>4, <1>7

\* A resting order that trades gives up what it trades, and adds the slice it
\* shows next.
LEMMA ReduceExact ==
  ASSUME NEW b, Sound(b), Exact(b), NEW i \in Ids, NEW q \in Nat \ {0},
         b.ord[i].place \in {"none", "book"}, b.ord[i].status \in Working,
         q <= b.ord[i].rem, b.ord[i].place = "book" => q <= Slice(b.ord[i])
  PROVE  Exact(Reduce(b, i, q)) /\ Fewer(b, Reduce(b, i, q))
<1> DEFINE c == Reduce(b, i, q)
           o == b.ord[i]
           n == c.ord[i]
           refill == Refills(o, q)
           peak == Least(o.peak, o.rem - q)
<1>1. /\ Sound(c) /\ OthersSame(b, c, i) /\ n.side = o.side /\ n.price = o.price
      /\ n.kind = o.kind /\ n.rem = o.rem - q
      /\ n.place = IF n.rem = 0 THEN "none" ELSE o.place
  BY ReduceSound DEF SameOrder
<1>2. o \in Order /\ OrderSound(o) /\ b \in Book /\ b.level \in Levels
  BY DEF Sound, Book
<1>3. Fewer(b, c)
  BY <1>1, <1>2 DEF Fewer, OthersSame
<1>4. CASE o.place = "none"
  <2>1. c.level = b.level
    BY <1>2, <1>4 DEF Reduce, Book
  <2>2. Backstage(b, c)
    BY <1>1, <1>4, <2>1 DEF Backstage, OthersSame
  <2> HIDE DEF c
  <2>3. QED
    BY <2>2, BackstageExact DEF c
<1>5. CASE o.place = "book"
  <2>1. /\ c.level = LevelAfterFill(b.level, o, q, refill, peak)
        /\ n.shown = IF refill THEN peak
                     ELSE IF o.kind = "ICEBERG" THEN Minus(o.shown, q) ELSE o.shown
    BY <1>2, <1>5 DEF Reduce, Book, Order
  <2>2. /\ o.price \in Prices /\ o.side \in Sides /\ Slice(o) \in Nat
        /\ Slice(o) <= b.level[o.side][o.price] /\ q <= Slice(o) /\ Slice(o) <= o.rem
    BY <1>2, <1>5, Covered DEF OrderSound
  <2>3. o.rem \in Nat /\ o.peak \in Nat /\ o.shown \in Nat /\ peak \in Nat
    BY <1>2 DEF Order, Least
  <2>4. refill => o.kind = "ICEBERG" /\ o.rem > q /\ Slice(o) = q
    BY <2>2, <2>3 DEF Refills, Slice
  <2>5. /\ refill => n.place = "book" /\ Slice(n) = peak
        /\ ~refill /\ n.rem # 0 => n.place = "book" /\ Slice(n) = Slice(o) - q
        /\ ~refill /\ n.rem = 0 => n.place = "none" /\ Slice(o) = q
    <3> HIDE DEF c, peak, n
    <3>1. CASE refill
      BY <1>1, <1>5, <2>1, <2>3, <2>4, <3>1 DEF Slice
    <3>2. CASE ~refill /\ o.kind = "ICEBERG"
      <4>1. o.rem > q => o.shown > q
        BY <1>5, <2>3, <3>2 DEF Refills
      <4>2. o.rem > q => Slice(n) = Slice(o) - q
        BY <1>1, <2>1, <2>3, <3>2, <4>1 DEF Slice, Minus
      <4>3. QED
        BY <1>1, <1>5, <2>2, <2>3, <3>2, <4>2
    <3>3. CASE ~refill /\ o.kind # "ICEBERG"
      <4>1. Slice(o) = o.rem /\ Slice(n) = n.rem
        BY <1>1, <3>3 DEF Slice
      <4>2. QED
        BY <1>1, <1>5, <2>2, <2>3, <3>3, <4>1
    <3>4. QED
      BY <3>1, <3>2, <3>3
  <2>6. ASSUME NEW s \in Sides, NEW p \in Prices
        PROVE  c.level[s][p] = b.level[s][p] - Share(o, s, p) + Share(n, s, p)
    <3> DEFINE at == s = o.side /\ p = o.price
               less == Deduct(b.level, o, q)
    <3>1. b.level[s][p] \in Nat /\ b.level[o.side][o.price] \in Nat
      BY <1>2, <2>2 DEF Levels
    <3>2. /\ less \in Levels
          /\ less[s][p] = IF at THEN b.level[s][p] - q ELSE b.level[s][p]
      <4>1. q <= b.level[o.side][o.price]
        BY <2>2, <3>1
      <4>2. less \in Levels
        BY <1>2, LevelsUpdate
      <4> HIDE DEF o, refill, peak, c, n
      <4>3. less[s][p] = IF s = o.side /\ p = o.price THEN b.level[s][p] - q ELSE b.level[s][p]
        BY <1>2, <2>2, <4>1, LevelEntries
      <4>4. QED
        BY <4>2, <4>3
    <3>3. c.level[s][p] = IF refill /\ at THEN less[s][p] + peak ELSE less[s][p]
      <4> HIDE DEF less, refill, peak, n
      <4>1. CASE refill
        <5>1. c.level = Credit(less, o, peak)
          BY <2>1, <4>1 DEF LevelAfterFill, less
        <5> HIDE DEF c, at
        <5>2. Credit(less, o, peak)[s][p] =
                IF s = o.side /\ p = o.price THEN less[s][p] + peak ELSE less[s][p]
          BY <2>2, <2>3, <3>2, LevelEntries
        <5>3. QED
          BY <4>1, <5>1, <5>2 DEF at
      <4>2. CASE ~refill
        BY <2>1, <4>2 DEF LevelAfterFill, less
      <4>3. QED
        BY <4>1, <4>2
    <3>4. Share(o, s, p) = IF at THEN Slice(o) ELSE 0
      BY <1>5 DEF Share
    <3>5. Share(n, s, p) = IF at /\ n.place = "book" THEN Slice(n) ELSE 0
      BY <1>1 DEF Share
    <3> HIDE DEF c, o, n, less, refill, peak, at
    <3>6. CASE refill
      BY <2>3, <2>4, <2>2, <2>5, <3>1, <3>2, <3>3, <3>4, <3>5, <3>6
    <3>7. CASE ~refill /\ n.rem # 0
      BY <2>2, <2>5, <3>1, <3>2, <3>3, <3>4, <3>5, <3>7
    <3>8. CASE ~refill /\ n.rem = 0
      BY <2>2, <2>5, <3>1, <3>2, <3>3, <3>4, <3>5, <3>8
    <3>9. QED
      BY <3>6, <3>7, <3>8
  <2>7. Exact(c)
    <3> HIDE DEF c
    <3>1. QED
      BY <1>1, <2>6, Follows1
  <2>8. QED
    BY <1>3, <2>7
<1>6. QED
  BY <1>4, <1>5

\* A trade with its callbacks.
LEMMA ApplyFillExact ==
  ASSUME NEW b, Sound(b), Exact(b), NEW a \in Ids, NEW p \in Ids, a # p,
         b.ord[a].place = "none", b.ord[a].status \in Working,
         b.ord[p].place = "book"
  PROVE  Exact(ApplyFill(b, a, p)) /\ Fewer(b, ApplyFill(b, a, p))
<1> DEFINE q == FillQty(b, a, p)
           d == Reduce(b, a, q)
           e == Reduce(d, p, q)
<1>1. /\ OrderSound(b.ord[a]) /\ OrderSound(b.ord[p])
      /\ b.ord[a] \in Order /\ b.ord[p] \in Order
  BY DEF Sound, Book
<1>2. /\ q \in Nat \ {0} /\ q <= b.ord[a].rem /\ q <= b.ord[p].rem
      /\ q <= Slice(b.ord[p])
  BY <1>1 DEF FillQty, Least, OrderSound, Order, Slice
<1> HIDE DEF q
<1>3. Sound(d) /\ OthersSame(b, d, a) /\ Exact(d) /\ Fewer(b, d)
  BY <1>2, ReduceSound, ReduceExact
<1>4. d.ord[p] = b.ord[p]
  BY <1>3 DEF OthersSame
<1>5. b.ord[p].status \in Working
  BY <1>1 DEF OrderSound
<1> HIDE DEF d
<1>6. Sound(e) /\ Exact(e) /\ Fewer(d, e)
  BY <1>2, <1>3, <1>4, <1>5, ReduceSound, ReduceExact
<1> HIDE DEF e
<1>7. Exact(FillHooks(e, a, p)) /\ Fewer(e, FillHooks(e, a, p))
  BY <1>6, FillHooksExact
<1>8. ApplyFill(b, a, p) = FillHooks(e, a, p)
  BY DEF ApplyFill, q, d, e
<1>9. Fewer(b, FillHooks(e, a, p))
  BY <1>3, <1>6, <1>7, FewerTransitive
<1>10. QED
  BY <1>7, <1>8, <1>9

\* An amended order moves its share to its new price.
LEMMA AmendedExact ==
  ASSUME NEW b, Sound(b), Exact(b), NEW i \in Ids, b.ord[i].place = "book",
         NEW price \in Prices, NEW qty \in Nat, qty > b.ord[i].qty - b.ord[i].rem
  PROVE  LET c == Amended(b, i, price, qty)
         IN  /\ Exact(c) /\ OthersSame(b, c, i)
             /\ c.ord[i].side = b.ord[i].side /\ c.ord[i].price = price
<1> DEFINE c == Amended(b, i, price, qty)
           o == b.ord[i]
           n == c.ord[i]
<1>1. Sound(c) /\ OthersSame(b, c, i) /\ n.place = "book"
  BY AmendedSound
<1>2. o \in Order /\ OrderSound(o) /\ b \in Book /\ b.level \in Levels
  BY DEF Sound, Book
<1>3. n \in Order /\ OrderSound(n)
  BY <1>1 DEF Sound, Book
<1>4. /\ n.side = o.side /\ n.price = price
      /\ c.level = Credit(Deduct(b.level, o, Slice(o)), n, Slice(n))
  BY <1>2 DEF Amended, Book, Order
<1>5. n.side \in Sides /\ n.price \in Prices /\ Slice(n) \in Nat
  BY <1>1, <1>3 DEF OrderSound, Restable, Order, Slice
<1>6. /\ o.price \in Prices /\ o.side \in Sides /\ Slice(o) \in Nat
      /\ Slice(o) <= b.level[o.side][o.price]
  BY Covered
<1>7. ASSUME NEW s \in Sides, NEW p \in Prices
      PROVE  c.level[s][p] = b.level[s][p] - Share(o, s, p) + Share(n, s, p)
  <2> DEFINE less == Deduct(b.level, o, Slice(o))
  <2>1. /\ less \in Levels /\ b.level[s][p] \in Nat
        /\ less[s][p] = IF s = o.side /\ p = o.price
                        THEN b.level[s][p] - Slice(o) ELSE b.level[s][p]
    <3> HIDE DEF c, n, o
    <3>1. less \in Levels
      BY <1>2, <1>6, LevelsUpdate
    <3>2. /\ b.level[s][p] \in Nat
          /\ less[s][p] = IF s = o.side /\ p = o.price
                          THEN b.level[s][p] - Slice(o) ELSE b.level[s][p]
      BY <1>2, <1>6, LevelEntries
    <3>3. QED
      BY <3>1, <3>2
  <2>2. c.level = Credit(less, n, Slice(n))
    BY <1>4
  <2> HIDE DEF less, c, o, n
  <2>3. /\ c.level[s][p] = IF s = n.side /\ p = n.price
                           THEN less[s][p] + Slice(n) ELSE less[s][p]
    BY <1>5, <2>1, <2>2, LevelEntries
  <2>4. Share(o, s, p) = IF s = o.side /\ p = o.price THEN Slice(o) ELSE 0
    BY DEF Share, o
  <2>5. Share(n, s, p) = IF s = n.side /\ p = n.price THEN Slice(n) ELSE 0
    BY <1>1 DEF Share
  <2>6. QED
    BY <1>5, <1>6, <2>1, <2>3, <2>4, <2>5
<1>8. Exact(c)
  <2> HIDE DEF c
  <2>1. QED
    BY <1>1, <1>7, Follows1
<1>9. QED
  BY <1>1, <1>4, <1>8

\* The cascade moves stops, and no stop rests.
LEMMA ReleaseExact ==
  ASSUME NEW b, Sound(b), Exact(b), NEW price \in Int, NEW top \in Nat
  PROVE  Exact(Release(b, price, top)) /\ Fewer(b, Release(b, price, top))
<1> DEFINE c == Release(b, price, top)
<1>1. \A i \in Ids : \/ c.ord[i] = b.ord[i]
                     \/ /\ b.ord[i].place \in {"armed", "trailing"}
                        /\ c.ord[i].place \in {b.ord[i].place, "triggered"}
  BY ReleaseSound
<1>2. c.level = b.level
  BY DEF Release, Sound, Book
<1> HIDE DEF c
<1>3. Backstage(b, c)
  BY <1>1, <1>2 DEF Backstage
<1>4. QED
  BY <1>3, BackstageExact DEF c

-----------------------------------------------------------------------------
(***************************************************************************)
(* The steps.                                                              *)
(***************************************************************************)

\* Book c has an exact index too, and nothing new rests in it.
Orderly(c) == Exact(c) /\ Fewer(book, c)

\* What a step does to orders that do not rest is orderly.
LEMMA EditOrderly ==
  ASSUME Exact(book), NEW c, c.level = book.level, NEW i \in Ids, OthersSame(book, c, i),
         order(i).place # "book", c.ord[i].place # "book"
  PROVE  Orderly(c)
<1>1. Backstage(book, c)
  BY DEF Backstage, OthersSame, order
<1>2. QED
  BY <1>1, BackstageExact DEF Orderly

\* A step that leaves orders and levels alone is orderly.
LEMMA SameOrderly ==
  ASSUME Exact(book), NEW c, c.level = book.level, c.ord = book.ord
  PROVE  Orderly(c)
<1>1. Backstage(book, c)
  BY DEF Backstage
<1>2. QED
  BY <1>1, BackstageExact DEF Orderly

\* A change of status in a handler's hands.
LEMMA StatusOrderly ==
  ASSUME NEW b, Sound(b), Orderly(b), NEW i \in Ids, b.ord[i].place = "none",
         NEW status \in {"CANCELLED", "REJECTED"}
  PROVE  Orderly([b EXCEPT !.ord[i].status = status])
<1> DEFINE c == [b EXCEPT !.ord[i].status = status]
<1>1. OthersSame(b, c, i) /\ c.ord[i].place = "none"
  BY DEF OthersSame, Sound, Book, Order
<1>2. c.level = b.level
  BY DEF Sound, Book
<1> HIDE DEF c
<1>3. Backstage(b, c)
  BY <1>1, <1>2 DEF Backstage, OthersSame
<1>4. Exact(c) /\ Fewer(b, c)
  BY <1>3, BackstageExact DEF Orderly
<1>5. QED
  BY <1>4, FewerTransitive DEF Orderly, c

\* Every message but an amend is orderly.
LEMMA MessageOrderly ==
  ASSUME IInv, Exact(book), Message,
         \A i \in Ids, price \in AmendPrices, qty \in AmendQtys : ~Amend(i, price, qty)
  PROVE  Orderly(book')
<1>1. Sound(book) /\ book \in Book /\ \A i \in Ids : OrderSound(order(i)) /\ order(i) \in Order
  BY DEF IInv, Sound, Book, order
<1>2. ASSUME NEW r \in NewOrders, NewOrder(r)
      PROVE  Orderly(book')
  <2> DEFINE n == born + 1
  <2>1. /\ n \in Ids /\ r \in Request /\ WellFormed(r) /\ order(n).status = "ABSENT"
        /\ book' = Add(book, n, Accepted(r, "none", 0))
        /\ "none" \in Bonds /\ 0 \in 0 .. MaxOrders
    BY <1>2, MaxOrdersAssumption, RequestsAssumption, GatesAssumption
       DEF IInv, TypeOK, NewOrder, Ids, Unborn, Bonds
  <2> HIDE DEF n
  <2>2. OthersSame(book, book', n) /\ book'.ord[n].place = "none"
    BY <1>1, <2>1, AddSound
  <2>3. order(n).place # "book"
    BY <1>1, <2>1 DEF OrderSound, Working
  <2>4. book'.level = book.level
    BY <1>1, <2>1 DEF Add, Book
  <2>5. QED
    BY <2>1, <2>2, <2>3, <2>4, EditOrderly
<1>3. ASSUME NEW l \in Request \X Request, WellFormed(l[1]), WellFormed(l[2]),
             NEW bond \in {"oco", "quote"}, born + 1 < MaxOrders,
             book'.ord = AddPair(book, l, bond).ord, book'.level = book.level
      PROVE  Orderly(book')
  <2> DEFINE c == AddPair(book, l, bond)
             g == born + 1
  <2>1. /\ \A i \in {g, g + 1} : i \in Ids /\ order(i).status = "ABSENT"
                                 /\ c.ord[i].place = "none"
        /\ \A i \in Ids \ {g, g + 1} : c.ord[i] = order(i)
    BY <1>3, AddPairSound
  <2> HIDE DEF c, g
  <2>2. \A i \in {g, g + 1} : order(i).place # "book"
    BY <1>1, <2>1 DEF OrderSound, Working
  <2>3. book'.ord = c.ord
    BY <1>3 DEF c
  <2>4. Backstage(book, book')
    BY <1>3, <2>1, <2>2, <2>3 DEF Backstage, order
  <2>5. QED
    BY <2>4, BackstageExact DEF Orderly
<1>4. ASSUME NEW l \in OcoPairs, OcoOrder(l)
      PROVE  Orderly(book')
  <2>1. l \in Request \X Request /\ WellFormed(l[1]) /\ WellFormed(l[2])
    BY RequestsAssumption, GatesAssumption
  <2>2. /\ book'.ord = AddPair(book, l, "oco").ord /\ born + 1 < MaxOrders
        /\ book'.level = book.level
    BY <1>1, <1>4 DEF OcoOrder, AddPair, Add, Book
  <2>3. QED
    BY <1>3, <2>1, <2>2
<1>5. ASSUME NEW l \in QuotePairs, QuoteNew(l)
      PROVE  Orderly(book')
  <2>1. l \in Request \X Request /\ WellFormed(l[1]) /\ WellFormed(l[2])
    BY RequestsAssumption, GatesAssumption
  <2>2. /\ book'.ord = AddPair(book, l, "quote").ord /\ born + 1 < MaxOrders
        /\ book'.level = book.level
    BY <1>1, <1>5 DEF QuoteNew, AddPair, Add, Book
  <2>3. QED
    BY <1>3, <2>1, <2>2
<1>6. ASSUME NEW gw \in Gateways, QuoteCancel(gw) \/ KillSwitch(gw)
      PROVE  Orderly(book')
  <2>1. book'.ord = book.ord /\ book'.level = book.level
    BY <1>1, <1>6 DEF QuoteCancel, KillSwitch, Book
  <2>2. QED
    BY <2>1, SameOrderly
<1>7. ASSUME NEW i \in Ids, CancelOrder(i)
      PROVE  Orderly(book')
  <2>1. /\ Sound(Cancel(book, i)) /\ Exact(Cancel(book, i)) /\ Fewer(book, Cancel(book, i))
        /\ book' = OcoLegEnded(Cancel(book, i), i)
    BY <1>1, <1>7, CancelThins, CancelExact DEF CancelOrder
  <2>2. Exact(book') /\ Fewer(Cancel(book, i), book')
    BY <2>1, OcoLegEndedExact
  <2>3. QED
    BY <2>1, <2>2, FewerTransitive DEF Orderly
<1>8. ASSUME NEW g \in Ids, OcoCancel(g)
      PROVE  Orderly(book')
  <2> DEFINE c == Cancel(book, g)
             d == Cancel(c, g + 1)
  <2>1. g + 1 \in Ids
    BY <1>8 DEF IInv, OcoCancel, Registered, Sound, Bonded, order
  <2>2. Sound(c) /\ Exact(c) /\ Fewer(book, c)
    BY <1>1, CancelThins, CancelExact
  <2> HIDE DEF c
  <2>3. Sound(d) /\ Exact(d) /\ Fewer(c, d)
    BY <2>1, <2>2, CancelThins, CancelExact
  <2>4. book' = [d EXCEPT !.live = d.live \ {g}]
    BY <1>8 DEF OcoCancel, c, d
  <2> HIDE DEF d
  <2>5. book'.ord = d.ord /\ book'.level = d.level
    BY <2>3, <2>4 DEF Sound, Book
  <2>6. Backstage(d, book')
    BY <2>5 DEF Backstage
  <2>7. Exact(book') /\ Fewer(d, book')
    BY <2>3, <2>6, BackstageExact
  <2>8. Fewer(book, book')
    BY <2>2, <2>3, <2>7, FewerTransitive
  <2>9. QED
    BY <2>7, <2>8 DEF Orderly
<1>9. ASSUME CallPhaseBegins \/ NoMessage
      PROVE  Orderly(book')
  <2>1. book' = book
    BY <1>9 DEF CallPhaseBegins, NoMessage, vars
  <2>2. QED
    BY <2>1, SameOrderly
<1>10. QED
  BY <1>2, <1>4, <1>5, <1>6, <1>7, <1>8, <1>9 DEF Message

\* A step inside a handler is orderly unless it lets a remainder rest.
LEMMA HandlerOrderly ==
  ASSUME IInv, Exact(book), EngineStep, ~RestUnmatched, ~SweepEnds
  PROVE  Orderly(book')
<1>1. Sound(book) /\ book \in Book /\ \A i \in Ids : OrderSound(order(i)) /\ order(i) \in Order
  BY DEF IInv, Sound, Book, order
<1>2. ASSUME book'.ord = book.ord, book'.level = book.level
      PROVE  Orderly(book')
  BY <1>2, SameOrderly
<1>3. ASSUME NEW i \in Ids, order(i).place \in {"none", "triggered"},
             NEW n \in Order, n.place # "book", book'.ord = [book.ord EXCEPT ![i] = n],
             book'.level = book.level
      PROVE  Orderly(book')
  <2>1. OthersSame(book, book', i) /\ book'.ord[i] = n
    BY <1>1, <1>3 DEF OthersSame, Book
  <2>2. QED
    BY <1>3, <2>1, EditOrderly
<1>4. CASE Withdraw \/ RefusePull
  <2>1. PICK i \in Ids : book' = Cancel(book, i) \/ book' = SmpCancel(book, i)
    BY <1>4 DEF Withdraw, RefusePull, IInv, TypeOK
  <2>2. QED
    BY <1>1, <2>1, CancelExact, SmpCancelExact DEF Orderly
<1>5. CASE Withdrawn \/ Refused \/ (\E i \in Ids : RunStop(i)) \/ PostSecondLeg
           \/ HandlerReturns \/ HandlerRaises
  <2>1. book'.ord = book.ord /\ book'.level = book.level
    BY <1>1, <1>5 DEF Withdrawn, Refused, RunStop, PostSecondLeg, HandlerReturns,
                      HandlerRaises, Book
  <2>2. QED
    BY <1>2, <2>1
<1>6. CASE DropCancelled
  <2> DEFINE n == [order(cur) EXCEPT !.place = "none", !.turn = 0]
  <2>1. cur \in Ids /\ order(cur).place \in {"none", "triggered"}
    BY <1>1, <1>6 DEF DropCancelled, IInv, HandlerOK, InHand
  <2>2. n \in Order /\ n.place = "none"
    BY <1>1, <2>1 DEF Order, Places
  <2>3. book'.ord = [book.ord EXCEPT ![cur] = n] /\ book'.level = book.level
    BY <1>1, <1>6, <2>1 DEF DropCancelled, order, Book
  <2> HIDE DEF n
  <2>4. QED
    BY <1>3, <2>1, <2>2, <2>3
<1>7. CASE RejectImmediate
  <2> DEFINE c == [book EXCEPT !.ord[cur].status = "REJECTED"]
  <2>1. cur \in Ids /\ order(cur).place = "none" /\ book' = OcoLegEnded(c, cur)
    BY <1>7, ProcessingFacts DEF RejectImmediate
  <2>2. Orderly(book)
    BY SameOrderly
  <2>3. Sound(c) /\ Orderly(c)
    BY <1>1, <2>1, <2>2, StatusSound, StatusOrderly DEF order
  <2> HIDE DEF c
  <2>4. Exact(book') /\ Fewer(c, book')
    BY <2>1, <2>3, OcoLegEndedExact DEF Orderly
  <2>5. QED
    BY <2>3, <2>4, FewerTransitive DEF Orderly
<1>8. CASE ArmStop \/ TriggerOnEntry \/ StartSweep
  <2>1. /\ cur \in Ids /\ order(cur).place \in {"none", "triggered"}
        /\ order(cur) \in Order
    BY <1>1, <1>8, ProcessingFacts DEF ArmStop, TriggerOnEntry, StartSweep
  <2>2. OthersSame(book, book', cur) /\ book'.level = book.level
    BY <1>1, <1>8, <2>1 DEF ArmStop, TriggerOnEntry, StartSweep, OthersSame, Book
  <2>3. Resolved(order(cur)).place = "none" /\ Converted(Resolved(order(cur))).place = "none"
    BY <2>1 DEF Resolved, Converted, Order
  <2>4. book'.ord[cur].place # "book"
    <3>1. CASE ArmStop
      <4>1. book'.ord[cur].place \in {"trailing", "armed"}
        BY <1>1, <2>1, <3>1 DEF ArmStop, Resolved, Book, Order, order
      <4>2. QED
        BY <4>1
    <3>2. CASE TriggerOnEntry \/ StartSweep
      BY <1>1, <2>1, <2>3, <3>2 DEF TriggerOnEntry, StartSweep, Book, order
    <3>3. QED
      BY <1>8, <3>1, <3>2
  <2>5. QED
    BY <2>1, <2>2, <2>4, EditOrderly
<1>9. CASE RefuseFok
  <2>1. cur \in Ids /\ order(cur).place = "none" /\ Orderly(book)
    BY <1>9, ProcessingFacts, SameOrderly DEF RefuseFok
  <2>2. PICK status \in {"CANCELLED", "REJECTED"} :
          book' = [book EXCEPT !.ord[cur].status = status]
    BY <1>9 DEF RefuseFok
  <2>3. QED
    BY <1>1, <2>1, <2>2, StatusOrderly DEF order
<1>10. ASSUME NEW p \in Ids, Trade(p)
       PROVE  Orderly(book')
  <2>1. /\ cur \in Ids /\ cur # p /\ order(cur).place = "none" /\ order(p).place = "book"
        /\ order(cur).status \in Working /\ book' = ApplyFill(book, cur, p)
    BY <1>10, FacingFacts DEF Trade
  <2>2. QED
    BY <1>1, <2>1, ApplyFillExact DEF Orderly, order
<1>11. ASSUME NEW p \in Ids, SelfMatchPullsResting(p)
       PROVE  Orderly(book')
  BY <1>1, <1>11, SmpCancelExact DEF SelfMatchPullsResting, Orderly
<1>12. ASSUME NEW p \in Ids, SelfMatchPullsAggressor(p)
       PROVE  Orderly(book')
  <2> DEFINE b == IF SelfMatch(book, cur, p) = "CANCEL_BOTH" THEN SmpCancel(book, p) ELSE book
  <2>1. /\ cur \in Ids /\ order(cur).place = "none"
        /\ book' = [b EXCEPT !.ord[cur].status = "CANCELLED"]
    BY <1>12, FacingFacts DEF SelfMatchPullsAggressor
  <2>2. Sound(b) /\ Thinned(book, b) /\ Orderly(b)
    <3>1. Thinned(book, book) /\ Orderly(book)
      BY SameOrderly DEF Thinned
    <3>2. QED
      BY <1>1, <3>1, SmpCancelThins, SmpCancelExact DEF Orderly
  <2> HIDE DEF b
  <2>3. b.ord[cur].place = "none"
    BY <1>1, <2>1, <2>2, ThinnedFields DEF order
  <2>4. QED
    BY <2>1, <2>2, <2>3, StatusOrderly
<1>13. CASE Settle
  <2> DEFINE b == OcoLegEnded(book, cur)
  <2>1. /\ cur \in Ids /\ last \in Int /\ released \in Nat
        /\ book' = b \/ book' = Release(b, last, released)
    BY <1>13, PricesAssumption DEF IInv, TypeOK, HandlerOK, Settle, NoPrice
  <2>2. Sound(b) /\ Exact(b) /\ Fewer(book, b)
    BY <1>1, <2>1, OcoLegEndedThins, OcoLegEndedExact
  <2> HIDE DEF b
  <2>3. Exact(Release(b, last, released)) /\ Fewer(b, Release(b, last, released))
    BY <2>1, <2>2, ReleaseExact
  <2>4. QED
    BY <2>1, <2>2, <2>3, FewerTransitive DEF Orderly
<1>14. CASE DropSecondLeg
  <2>1. /\ todo \in Ids /\ order(todo).place = "none" /\ Orderly(book)
        /\ book' = [book EXCEPT !.ord[todo].status = "CANCELLED"]
    BY <1>14, SameOrderly DEF DropSecondLeg, IInv, HandlerOK, InHand
  <2>2. QED
    BY <1>1, <2>1, StatusOrderly DEF order
<1>15. QED
  BY <1>4, <1>5, <1>6, <1>7, <1>8, <1>9, <1>10, <1>11, <1>12, <1>13, <1>14 DEF EngineStep

\* One order that comes to rest out of the other side's reach crosses nothing.
LEMMA OutOfReach ==
  ASSUME Sound(book), Sound(book'), NeverCrossed, matching' => matching,
         NEW i \in Ids, OthersSame(book, book', i),
         \A q \in Ids \ {i} :
            order(q).place = "book" /\ order(q).side = Opposite(book'.ord[i].side)
            => ~Within(book'.ord[i].side, book'.ord[i].price, order(q).price)
  PROVE  NeverCrossed'
<1>1. SUFFICES ASSUME matching', NEW x \in Ids, NEW y \in Ids,
                      book'.ord[x].place = "book", book'.ord[x].side = "BUY",
                      book'.ord[y].place = "book", book'.ord[y].side = "SELL"
               PROVE  book'.ord[x].price < book'.ord[y].price
  BY DEF NeverCrossed, Resting, order
<1>2. /\ book'.ord[x].price \in Nat /\ book'.ord[y].price \in Nat
  <2>1. book'.ord[x].price \in Prices /\ book'.ord[y].price \in Prices
    BY <1>1 DEF Sound, OrderSound, Restable
  <2>2. QED
    BY <2>1, PricesAssumption
<1>3. CASE x # i /\ y # i
  BY <1>1, <1>3 DEF NeverCrossed, Resting, OthersSame, order
<1>4. CASE x = i
  BY <1>1, <1>2, <1>4 DEF OthersSame, Opposite, Within, order
<1>5. CASE y = i
  BY <1>1, <1>2, <1>5 DEF OthersSame, Opposite, Within, order
<1>6. QED
  BY <1>3, <1>4, <1>5

\* Where nothing new rests nothing new crosses.
LEMMA FewerUncrossed ==
  ASSUME NeverCrossed, Fewer(book, book'), matching' => matching
  PROVE  NeverCrossed'
BY DEF NeverCrossed, Fewer, Resting, order

\* A remainder rests when the sweep has found nothing more within its limit.
LEMMA RemainderRests ==
  ASSUME IInv, IInv', Exact(book), NeverCrossed, RestUnmatched \/ SweepEnds
  PROVE  Exact(book') /\ NeverCrossed'
<1>1. Sound(book) /\ Sound(book') /\ book \in Book /\ matching' = matching
  BY DEF IInv, Sound, RestUnmatched, SweepEnds
<1>2. CASE book' = book
  BY <1>1, <1>2 DEF NeverCrossed, Resting, order
<1>3. ASSUME cur \in Ids, order(cur).place = "none", order(cur).status \in Working,
             order(cur).kind \in Restable, book' = Rest(book, cur),
             matching => Matchable(book, cur) = {}
      PROVE  Exact(book') /\ NeverCrossed'
  <2>1. /\ Exact(book') /\ OthersSame(book, book', cur)
        /\ book'.ord[cur].side = order(cur).side /\ book'.ord[cur].price = order(cur).price
    BY <1>1, <1>3, RestExact DEF order
  <2>2. CASE ~matching
    BY <1>1, <2>1, <2>2 DEF NeverCrossed
  <2>3. CASE matching
    <3>1. \A q \in Ids \ {cur} :
            order(q).place = "book" /\ order(q).side = Opposite(book'.ord[cur].side)
            => ~Within(book'.ord[cur].side, book'.ord[cur].price, order(q).price)
      BY <1>3, <2>1, <2>3 DEF Matchable, Resting, order
    <3>2. QED
      BY <1>1, <1>3, <2>1, <3>1, OutOfReach
  <2>4. QED
    BY <2>2, <2>3
<1>4. CASE RestUnmatched
  <2>1. /\ cur \in Ids /\ order(cur).place = "none" /\ order(cur).status \in Working
        /\ order(cur).kind \in Restable /\ book' = Rest(book, cur) /\ ~matching
    BY <1>4, ProcessingFacts DEF RestUnmatched
  <2>2. QED
    BY <1>3, <2>1
<1>5. CASE SweepEnds
  <2>1. /\ cur \in Ids /\ order(cur).place = "none"
        /\ order(cur).rem # 0 => order(cur).status \in Working /\ Matchable(book, cur) = {}
    BY <1>1, <1>5 DEF SweepEnds, IInv, HandlerOK, Book, Order, order
  <2>2. CASE order(cur).rem = 0
    BY <1>2, <1>5, <2>2 DEF SweepEnds
  <2>3. CASE order(cur).rem # 0 /\ order(cur).kind \in Restable
    BY <1>3, <1>5, <2>1, <2>3 DEF SweepEnds
  <2>4. CASE order(cur).rem # 0 /\ order(cur).kind \notin Restable
    <3>1. book' = [book EXCEPT !.ord[cur].status = "CANCELLED"] /\ Orderly(book)
      BY <1>5, <2>4, SameOrderly DEF SweepEnds
    <3>2. Orderly(book')
      BY <1>1, <2>1, <3>1, StatusOrderly DEF order
    <3>3. QED
      BY <1>1, <3>2, FewerUncrossed DEF Orderly
  <2>5. QED
    BY <2>2, <2>3, <2>4
<1>6. QED
  BY <1>4, <1>5

\* An amend that does not reach the other side, by the index, crosses nothing;
\* one that does leaves the book.
LEMMA AmendUncrossed ==
  ASSUME IInv, IInv', Exact(book), NeverCrossed,
         NEW i \in Ids, NEW price \in AmendPrices, NEW qty \in AmendQtys,
         Amend(i, price, qty)
  PROVE  Exact(book') /\ NeverCrossed'
<1> DEFINE b == Amended(book, i, price, qty)
           c == Cancel(b, i)
           d == [c EXCEPT !.ord[i].status = "NEW"]
<1>1. /\ Sound(book) /\ Sound(book') /\ matching' = matching /\ order(i).place = "book"
      /\ price \in Prices /\ qty \in Nat /\ qty > book.ord[i].qty - book.ord[i].rem
      /\ IF matching /\ Marketable(b, i) THEN book' = d ELSE book' = b
  BY RequestsAssumption DEF Amend, IInv, order
<1>2. Sound(b) /\ OthersSame(book, b, i) /\ b.ord[i].place = "book" /\ Exact(b)
      /\ b.ord[i].status \in Working
  BY <1>1, AmendedSound, AmendedExact DEF order
<1> HIDE DEF b
<1>3. CASE matching /\ Marketable(b, i)
  <2>1. Sound(c) /\ Exact(c) /\ Fewer(b, c)
    BY <1>2, CancelThins, CancelExact
  <2>2. c.ord[i].place = "none" /\ c.ord[i].rem = b.ord[i].rem
    BY <1>2 DEF Cancel, Sound, Book, Order, Working, Dead
  <2>3. b.ord[i].rem > 0
    BY <1>2 DEF Sound, OrderSound
  <2> HIDE DEF c
  <2>4. OthersSame(c, d, i) /\ d.ord[i].place = "none"
    BY <2>1, <2>2, <2>3, StatusSound
  <2>5. d.level = c.level
    BY <2>1 DEF Sound, Book
  <2> HIDE DEF d
  <2>6. Backstage(c, d)
    BY <2>2, <2>4, <2>5 DEF Backstage, OthersSame
  <2>7. Exact(d) /\ Fewer(b, d)
    BY <2>1, <2>6, BackstageExact, FewerTransitive
  <2>8. Fewer(book, d)
    BY <1>2, <2>4, <2>7 DEF Fewer, OthersSame
  <2>9. QED
    BY <1>1, <1>3, <2>7, <2>8, FewerUncrossed
<1>4. CASE matching /\ ~Marketable(b, i)
  <2>1. book' = b
    BY <1>1, <1>4
  <2>2. ASSUME NEW q \in Ids \ {i}, order(q).place = "book",
               order(q).side = Opposite(b.ord[i].side)
        PROVE  ~Within(b.ord[i].side, b.ord[i].price, order(q).price)
    <3>1. b.ord[q] = order(q)
      BY <1>2 DEF OthersSame, order
    <3>2. /\ b.ord[q].price \in Prices /\ Slice(b.ord[q]) \in Nat
          /\ Slice(b.ord[q]) <= b.level[b.ord[q].side][b.ord[q].price]
          /\ b.ord[q].side \in Sides
      BY <1>2, <2>2, <3>1, Covered
    <3>3. Slice(b.ord[q]) > 0 /\ b.level[b.ord[q].side][b.ord[q].price] \in Nat
      BY <1>2, <2>2, <3>1, <3>2 DEF Sound, OrderSound, Book, Levels
    <3>4. b.level[Opposite(b.ord[i].side)][b.ord[q].price] > 0
      BY <2>2, <3>1, <3>2, <3>3
    <3>5. QED
      BY <1>4, <3>1, <3>2, <3>4 DEF Marketable
  <2>3. QED
    BY <1>1, <1>2, <2>1, <2>2, OutOfReach
<1>5. CASE ~matching
  BY <1>1, <1>2, <1>5 DEF NeverCrossed
<1>6. QED
  BY <1>3, <1>4, <1>5

\* The index stays exact and the book uncrossed.
LEMMA FaithfulStep ==
  ASSUME IInv, IInv', Exact(book), NeverCrossed, [Next]_vars
  PROVE  Exact(book') /\ NeverCrossed'
<1>1. CASE UNCHANGED vars
  BY <1>1 DEF vars, NeverCrossed, Resting, order
<1>2. CASE \E i \in Ids, price \in AmendPrices, qty \in AmendQtys : Amend(i, price, qty)
  BY <1>2, AmendUncrossed
<1>3. CASE RestUnmatched \/ SweepEnds
  BY <1>3, RemainderRests
<1>4. CASE /\ Next /\ ~RestUnmatched /\ ~SweepEnds
           /\ \A i \in Ids, price \in AmendPrices, qty \in AmendQtys : ~Amend(i, price, qty)
  <2>1. Orderly(book')
    BY <1>4, MessageOrderly, HandlerOrderly DEF Next
  <2>2. matching' => matching
    BY <1>4 DEF Next, Message, EngineStep, NewOrder, OcoOrder, QuoteNew, QuoteCancel,
         KillSwitch, CancelOrder, OcoCancel, CallPhaseBegins, NoMessage, vars, Withdraw,
         Withdrawn, DropCancelled, RejectImmediate, HandlerRaises, ArmStop, TriggerOnEntry,
         StartSweep, RefuseFok, RefusePull, Refused, Trade, SelfMatchPullsResting,
         SelfMatchPullsAggressor, Settle, RunStop, PostSecondLeg, DropSecondLeg,
         HandlerReturns
  <2>3. QED
    BY <2>1, <2>2, FewerUncrossed DEF Orderly
<1>5. QED
  BY <1>1, <1>2, <1>3, <1>4

\* Whether or not the book is crossed, as it may be while the market collects,
\* what rests is credited and what is amended is counted again.
LEMMA RemainderExact ==
  ASSUME IInv, Exact(book), RestUnmatched \/ SweepEnds
  PROVE  Exact(book')
<1>1. Sound(book) /\ book \in Book
  BY DEF IInv, Sound
<1>2. /\ cur \in Ids
      /\ order(cur).rem # 0 => order(cur).place = "none" /\ order(cur).status \in Working
      /\ pc = "sweep" => order(cur).place = "none"
  <2>1. CASE RestUnmatched
    BY <2>1, ProcessingFacts DEF RestUnmatched
  <2>2. CASE SweepEnds
    BY <1>1, <2>2 DEF SweepEnds, IInv, HandlerOK, Book, Order, order
  <2>3. QED
    BY <2>1, <2>2
<1>3. CASE book' = book
  BY <1>3
<1>4. CASE /\ book' = Rest(book, cur) /\ order(cur).rem # 0
           /\ order(cur).kind \in Restable
  BY <1>1, <1>2, <1>4, RestExact DEF order
<1>5. CASE SweepEnds /\ book' = [book EXCEPT !.ord[cur].status = "CANCELLED"]
  BY <1>1, <1>2, <1>5, SameOrderly, StatusOrderly DEF SweepEnds, Orderly, order
<1>6. RestUnmatched => order(cur).rem # 0
  <2>1. RestUnmatched => order(cur).status \in Working
    BY ProcessingFacts DEF RestUnmatched
  <2>2. QED
    BY <1>1, <1>2, <2>1 DEF Sound, OrderSound, order
<1>7. QED
  BY <1>3, <1>4, <1>5, <1>6 DEF RestUnmatched, SweepEnds

LEMMA AmendExact ==
  ASSUME IInv, Exact(book), NEW i \in Ids, NEW price \in AmendPrices,
         NEW qty \in AmendQtys, Amend(i, price, qty)
  PROVE  Exact(book')
<1> DEFINE b == Amended(book, i, price, qty)
           c == Cancel(b, i)
           d == [c EXCEPT !.ord[i].status = "NEW"]
<1>1. /\ Sound(book) /\ order(i).place = "book" /\ price \in Prices /\ qty \in Nat
      /\ qty > book.ord[i].qty - book.ord[i].rem /\ book' \in {b, d}
  BY RequestsAssumption DEF Amend, IInv, order
<1>2. Sound(b) /\ b.ord[i].place = "book" /\ Exact(b) /\ b.ord[i].status \in Working
  BY <1>1, AmendedSound, AmendedExact DEF order
<1> HIDE DEF b
<1>3. Sound(c) /\ Exact(c)
  BY <1>2, CancelThins, CancelExact
<1>4. c.ord[i].place = "none" /\ c.ord[i].rem = b.ord[i].rem
  BY <1>2 DEF Cancel, Sound, Book, Order, Working, Dead
<1>5. b.ord[i].rem > 0
  BY <1>2 DEF Sound, OrderSound
<1> HIDE DEF c
<1>6. OthersSame(c, d, i) /\ d.ord[i].place = "none"
  BY <1>3, <1>4, <1>5, StatusSound
<1>7. d.level = c.level
  BY <1>3 DEF Sound, Book
<1> HIDE DEF d
<1>8. Backstage(c, d)
  BY <1>4, <1>6, <1>7 DEF Backstage, OthersSame
<1>9. QED
  BY <1>1, <1>2, <1>3, <1>8, BackstageExact

LEMMA ExactStep ==
  ASSUME IInv, Exact(book), [Next]_vars
  PROVE  Exact(book')
<1>1. CASE UNCHANGED vars
  BY <1>1 DEF vars
<1>2. CASE \E i \in Ids, price \in AmendPrices, qty \in AmendQtys : Amend(i, price, qty)
  BY <1>2, AmendExact
<1>3. CASE RestUnmatched \/ SweepEnds
  BY <1>3, RemainderExact
<1>4. CASE /\ Next /\ ~RestUnmatched /\ ~SweepEnds
           /\ \A i \in Ids, price \in AmendPrices, qty \in AmendQtys : ~Amend(i, price, qty)
  BY <1>4, MessageOrderly, HandlerOrderly DEF Next, Orderly
<1>5. QED
  BY <1>1, <1>2, <1>3, <1>4

\* An empty book shows nothing.
LEMMA FaithfulInit ==
  ASSUME Init
  PROVE  Exact(book) /\ NeverCrossed
<1>1. \A i \in Ids : book.ord[i].place = "none" /\ book.ord[i] = Absent
  BY DEF Init, Absent
<1>2. \A s, p : ShownAt(book, s, p) = {}
  <2>1. \A s, p : \A i \in Ids : Share(book.ord[i], s, p) = 0
    BY <1>1 DEF Share
  <2>2. 1 .. 0 = {}
    OBVIOUS
  <2>3. QED
    BY <2>1, <2>2 DEF ShownAt, Shares
<1>3. Cardinality({}) = 0
  BY FS_EmptySet
<1>4. \A s \in Sides, p \in Prices : book.level[s][p] = 0
  BY DEF Init
<1>5. QED
  BY <1>1, <1>2, <1>3, <1>4 DEF Exact, NeverCrossed, Resting, order

\* The shares counted here are those the property counts.
LEMMA ShownIsOnShow ==
  ASSUME Exact(book)
  PROVE  LevelIndexExact
<1>1. ASSUME NEW s \in Sides, NEW p \in Prices
      PROVE  ShownAt(book, s, p) = OnShow(s, p)
  <2> DEFINE S == {j \in Resting(book, s) : order(j).price = p}
  <2>1. \A i \in Ids : i \in S <=> order(i).place = "book" /\ order(i).side = s
                                   /\ order(i).price = p
    BY DEF Resting, order
  <2>2. S \subseteq Ids
    BY DEF Resting
  <2>3. ASSUME NEW i \in Ids
        PROVE  1 .. Share(order(i), s, p) = IF i \in S THEN 1 .. Slice(order(i)) ELSE {}
    BY <2>1 DEF Share
  <2>4. OnShow(s, p) = UNION {{i} \X (1 .. Slice(order(i))) : i \in S}
    BY DEF OnShow
  <2>5. ShownAt(book, s, p) = UNION {{i} \X (1 .. Share(order(i), s, p)) : i \in Ids}
    BY DEF ShownAt, Shares, order
  <2> HIDE DEF S
  <2>6. ASSUME NEW x
        PROVE  x \in ShownAt(book, s, p) <=> x \in OnShow(s, p)
    <3>1. x \in ShownAt(book, s, p) <=> \E i \in Ids : x \in {i} \X (1 .. Share(order(i), s, p))
      BY <2>5
    <3>2. x \in OnShow(s, p) <=> \E i \in S : x \in {i} \X (1 .. Slice(order(i)))
      BY <2>4
    <3>3. ASSUME NEW i \in Ids, x \in {i} \X (1 .. Share(order(i), s, p))
          PROVE  x \in OnShow(s, p)
      <4>1. i \in S
        BY <2>3, <3>3
      <4>2. QED
        BY <2>3, <3>2, <3>3, <4>1
    <3>4. ASSUME NEW i \in S, x \in {i} \X (1 .. Slice(order(i)))
          PROVE  x \in ShownAt(book, s, p)
      BY <2>2, <2>3, <3>1, <3>4
    <3>5. QED
      BY <3>1, <3>2, <3>3, <3>4
  <2>7. QED
    BY <2>6
<1>2. QED
  BY <1>1 DEF Exact, LevelIndexExact

-----------------------------------------------------------------------------
\* The price-level index is exact at every step of every handler: it is the
\* sum of what rests at that price and shows.
THEOREM IndexAlwaysExact == Spec => []LevelIndexExact
<1>1. Init => Exact(book) /\ NeverCrossed
  BY FaithfulInit
<1>2. /\ IInv /\ IInv' /\ Exact(book) /\ NeverCrossed /\ [Next]_vars
      => (Exact(book) /\ NeverCrossed)'
  BY FaithfulStep DEF Exact, ShownAt, Shares
<1>3. Exact(book) => LevelIndexExact
  BY ShownIsOnShow
<1>4. QED
  BY <1>1, <1>2, <1>3, Invariance, PTL DEF Spec

\* A book that matches is never crossed, not even between the steps of a
\* handler.
THEOREM BookNeverCrossed == Spec => []NeverCrossed
<1>1. Init => Exact(book) /\ NeverCrossed
  BY FaithfulInit
<1>2. /\ IInv /\ IInv' /\ Exact(book) /\ NeverCrossed /\ [Next]_vars
      => (Exact(book) /\ NeverCrossed)'
  BY FaithfulStep DEF Exact, ShownAt, Shares
<1>3. QED
  BY <1>1, <1>2, Invariance, PTL DEF Spec

-----------------------------------------------------------------------------
(***************************************************************************)
(* Queues.                                                                 *)
(***************************************************************************)

\* No order has an arrival number that was not given out yet.
Numbered(b) == \A i \in Ids : b.ord[i].seq <= b.seq

\* What rests in both books is the same in both.
Still(b, c) ==
  \A i \in Ids : b.ord[i].place = "book" /\ c.ord[i].place = "book" => c.ord[i] = b.ord[i]

\* Order k goes to the back of its queue.
FallsBehind(k) ==
  \/ book'.ord[k].qty > order(k).qty
  \/ /\ order(k).kind = "ICEBERG" /\ Executes(k)
     /\ book'.ord[k].rem = order(k).rem - order(k).shown

\* Of the orders that rest before and after this step only k changes, and its
\* place in the queue of its price is the old one or the last.
OneMoves(k) ==
  /\ \A i \in Ids \ {k} :
       order(i).place = "book" /\ book'.ord[i].place = "book" => book'.ord[i] = order(i)
  /\ order(k).place = "book" /\ book'.ord[k].place = "book"
       /\ book'.ord[k].price = order(k).price
     => book'.ord[k].seq = IF FallsBehind(k) THEN book.seq + 1 ELSE order(k).seq

Queued == Numbered(book') /\ (Still(book, book') \/ \E k \in Ids : OneMoves(k))

-----------------------------------------------------------------------------
(***************************************************************************)
(* Steps that move nobody.                                                 *)
(***************************************************************************)

\* Withdrawals give out no numbers.
LEMMA ThinnedStill ==
  ASSUME NEW b, Sound(b), Numbered(b), NEW c, Thinned(b, c)
  PROVE  Numbered(c) /\ Still(b, c)
<1>1. ASSUME NEW i \in Ids
      PROVE  /\ c.ord[i].seq = b.ord[i].seq
             /\ c.ord[i] = b.ord[i] \/ c.ord[i].place # "book"
  <2>1. b.ord[i] \in Order
    BY DEF Sound, Book
  <2>2. QED
    BY <2>1 DEF Thinned, Withdrawn1, Order
<1>2. QED
  BY <1>1 DEF Numbered, Still, Thinned

\* An order that does not rest, before or after, is no one's neighbour.
LEMMA EditStill ==
  ASSUME NEW b, Sound(b), Numbered(b), NEW c, NEW i \in Ids, OthersSame(b, c, i),
         b.ord[i].place # "book" \/ c.ord[i].place # "book",
         c.seq \in Nat, b.seq <= c.seq, c.ord[i].seq <= c.seq
  PROVE  Numbered(c) /\ Still(b, c)
<1>1. b.seq \in Nat /\ \A j \in Ids : b.ord[j].seq \in Nat
  BY DEF Sound, Book, Order
<1>2. QED
  BY <1>1 DEF Numbered, Still, OthersSame

\* Standing still twice is standing still, if nothing came to rest in between.
LEMMA StillTransitive ==
  ASSUME NEW b, NEW c, NEW d, Still(b, c), Still(c, d),
         \A i \in Ids : d.ord[i].place = "book" => c.ord[i].place = "book"
  PROVE  Still(b, d)
BY DEF Still

\* A change of status in a handler's hands.
LEMMA StatusStill ==
  ASSUME NEW b, Sound(b), Numbered(b), NEW i \in Ids, b.ord[i].place = "none",
         NEW status
  PROVE  LET c == [b EXCEPT !.ord[i].status = status]
         IN  Numbered(c) /\ Still(b, c)
<1> DEFINE c == [b EXCEPT !.ord[i].status = status]
<1>1. OthersSame(b, c, i) /\ c.ord[i].seq = b.ord[i].seq /\ c.seq = b.seq /\ b.seq \in Nat
  BY DEF OthersSame, Sound, Book, Order
<1>2. b.ord[i].seq <= b.seq /\ b.ord[i].place # "book"
  BY DEF Numbered
<1> HIDE DEF c
<1>3. Numbered(c) /\ Still(b, c)
  BY <1>1, <1>2, EditStill
<1>4. QED
  BY <1>3 DEF c

\* A remainder that rests gets a new number.
LEMMA RestStill ==
  ASSUME NEW b, Sound(b), Numbered(b), NEW i \in Ids, b.ord[i].place = "none"
  PROVE  Numbered(Rest(b, i)) /\ Still(b, Rest(b, i))
<1> DEFINE c == Rest(b, i)
<1>1. /\ OthersSame(b, c, i) /\ c.ord[i].seq = b.seq + 1 /\ c.seq = b.seq + 1
      /\ b.seq \in Nat
  BY DEF Rest, OthersSame, Sound, Book, Order
<1> HIDE DEF c
<1>2. Numbered(c) /\ Still(b, c)
  BY <1>1, EditStill
<1>3. QED
  BY <1>2 DEF c

\* Released stops keep their numbers.
LEMMA ReleaseStill ==
  ASSUME NEW b, Sound(b), Numbered(b), NEW price \in Int, NEW top \in Nat
  PROVE  Numbered(Release(b, price, top)) /\ Still(b, Release(b, price, top))
<1> DEFINE c == Release(b, price, top)
<1>1. \A i \in Ids : \/ c.ord[i] = b.ord[i]
                     \/ b.ord[i].place \in {"armed", "trailing"}
  BY ReleaseSound
<1>2. c.seq = b.seq
  BY DEF Release, Sound, Book
<1>3. ASSUME NEW i \in Ids PROVE c.ord[i].seq = b.ord[i].seq
  <2> DEFINE o == b.ord[i]
             m == Ratcheted(o, price)
  <2>1. o \in Order
    BY DEF Sound, Book
  <2>2. m \in Order /\ m.seq = o.seq
    BY <2>1 DEF Ratcheted, Order
  <2> HIDE DEF m
  <2>3. Converted(m) \in Order /\ Converted(m).seq = m.seq
    BY <2>2 DEF Converted, Order, Kinds, Restable, Immediate
  <2> DEFINE moved   == [j \in Ids |-> Ratcheted(b.ord[j], price)]
             fired   == {j \in Ids : /\ moved[j].place \in {"armed", "trailing"}
                                     /\ Breached(moved[j].side, moved[j].stop, price)}
             rank(k) == Cardinality({j \in fired : RunsBefore(moved[j], j, moved[k], k)})
  <2>4. c.ord[i] = IF i \in fired
                   THEN [Converted(m) EXCEPT !.place = "triggered",
                                             !.turn  = top + 1 + rank(i)]
                   ELSE m
    BY DEF Release, Sound, Book, m
  <2> HIDE DEF fired, rank, c
  <2>5. QED
    BY <2>2, <2>3, <2>4 DEF Order
<1> HIDE DEF c
<1>4. QED
  BY <1>1, <1>2, <1>3 DEF Numbered, Still, c
-----------------------------------------------------------------------------
(***************************************************************************)
(* Steps that move one order.                                              *)
(***************************************************************************)

\* One side of a fill gives out a number only for a refilled slice.
LEMMA ReduceNumbers ==
  ASSUME NEW b, Sound(b), Numbered(b), NEW i \in Ids, NEW q \in Nat
  PROVE  LET c == Reduce(b, i, q)
         IN  /\ Numbered(c) /\ OthersSame(b, c, i)
             /\ c.seq = IF Refills(b.ord[i], q) THEN b.seq + 1 ELSE b.seq
             /\ c.ord[i].seq = IF Refills(b.ord[i], q) THEN b.seq + 1 ELSE b.ord[i].seq
             /\ c.ord[i].qty = b.ord[i].qty
             /\ c.ord[i].rem = b.ord[i].rem - q
             /\ c.ord[i].place = IF b.ord[i].rem = q THEN "none" ELSE b.ord[i].place
<1> DEFINE c == Reduce(b, i, q)
           o == b.ord[i]
<1>1. b.seq \in Nat /\ o \in Order /\ \A j \in Ids : b.ord[j] \in Order
  BY DEF Sound, Book
<1>2. OthersSame(b, c, i)
  BY DEF Reduce, OthersSame, Sound, Book
<1>3. /\ c.seq = IF Refills(o, q) THEN b.seq + 1 ELSE b.seq
      /\ c.ord[i].seq = IF Refills(o, q) THEN b.seq + 1 ELSE o.seq
      /\ c.ord[i].qty = o.qty /\ c.ord[i].rem = o.rem - q
      /\ c.ord[i].place = IF o.rem - q = 0 THEN "none" ELSE o.place
  <2>1. c.seq = IF Refills(o, q) THEN b.seq + 1 ELSE b.seq
    BY DEF Reduce, Sound, Book
  <2>2. /\ c.ord[i].seq = IF Refills(o, q) THEN b.seq + 1 ELSE o.seq
        /\ c.ord[i].qty = o.qty /\ c.ord[i].rem = o.rem - q
        /\ c.ord[i].place = IF o.rem - q = 0 THEN "none" ELSE o.place
    BY <1>1 DEF Reduce, Sound, Book, Order
  <2>3. QED
    BY <2>1, <2>2
<1> HIDE DEF c
<1>4. Numbered(c)
  BY <1>1, <1>2, <1>3 DEF Numbered, OthersSame, Order
<1>5. o.rem \in Nat
  BY <1>1 DEF Order
<1>6. QED
  BY <1>2, <1>3, <1>4, <1>5 DEF c

\* A trade moves the resting order, and only when its slice is used up.
LEMMA TradeMoves ==
  ASSUME IInv, Numbered(book), NEW p \in Ids, Trade(p)
  PROVE  Queued
<1> DEFINE q == FillQty(book, cur, p)
           d == Reduce(book, cur, q)
           e == Reduce(d, p, q)
<1>1. /\ Sound(book) /\ cur \in Ids /\ cur # p
      /\ order(cur) \in Order /\ order(p) \in Order /\ OrderSound(order(p))
      /\ order(cur).place = "none" /\ order(cur).status \in Working
      /\ order(p).place = "book" /\ book' = FillHooks(e, cur, p)
  BY FacingFacts DEF Trade, ApplyFill
<1>2. /\ q \in Nat \ {0} /\ q <= order(cur).rem
      /\ q <= Slice(order(p)) /\ q <= order(p).rem
  <2>1. q \in 1 .. order(cur).rem
    BY <1>1, ApplyFillSound DEF order
  <2>2. q <= Slice(order(p)) /\ Slice(order(p)) \in 1 .. order(p).rem
    BY <1>1 DEF FillQty, Least, OrderSound, order, Order, Slice
  <2> HIDE DEF q
  <2>3. QED
    BY <1>1, <2>1, <2>2 DEF Order
<1> HIDE DEF q
<1>3. /\ Sound(d) /\ Numbered(d) /\ OthersSame(book, d, cur)
      /\ d.seq = book.seq /\ d.ord[p] = order(p)
      /\ d.ord[cur].place = "none"
  <2>1. Sound(d)
    BY <1>1, <1>2, ReduceSound DEF order
  <2>2. ~Refills(order(cur), q)
    BY <1>1 DEF Refills
  <2>3. /\ Numbered(d) /\ OthersSame(book, d, cur) /\ d.seq = book.seq
        /\ d.ord[cur].place = "none"
    BY <1>1, <1>2, <2>2, ReduceNumbers DEF order
  <2>4. QED
    BY <1>1, <2>1, <2>3 DEF OthersSame, order
<1> HIDE DEF d
<1>4. /\ Sound(e) /\ Numbered(e) /\ OthersSame(d, e, p)
      /\ e.ord[p].seq = IF Refills(order(p), q) THEN book.seq + 1 ELSE order(p).seq
      /\ e.ord[p].qty = order(p).qty /\ e.ord[p].rem = order(p).rem - q
      /\ e.ord[p].place = IF order(p).rem = q THEN "none" ELSE "book"
  <2>1. order(p).status \in Working
    BY <1>1 DEF OrderSound
  <2>2. Sound(e)
    BY <1>1, <1>2, <1>3, <2>1, ReduceSound
  <2>3. QED
    BY <1>1, <1>2, <1>3, <2>2, ReduceNumbers
<1> HIDE DEF e
<1>5. Numbered(book') /\ Still(e, book') /\ Thinned(e, book')
  BY <1>1, <1>4, FillHooksThin, ThinnedStill
<1>6. ASSUME NEW i \in Ids \ {p}, order(i).place = "book", book'.ord[i].place = "book"
      PROVE  book'.ord[i] = order(i)
  <2>1. i # cur /\ e.ord[i] = order(i)
    BY <1>1, <1>3, <1>4, <1>6 DEF OthersSame, order
  <2>2. QED
    BY <1>5, <1>6, <2>1 DEF Still
<1>7. ASSUME book'.ord[p].place = "book"
      PROVE  book'.ord[p].seq = IF FallsBehind(p) THEN book.seq + 1 ELSE order(p).seq
  <2>1. e.ord[p].place = "book" /\ book'.ord[p] = e.ord[p]
    <3>1. e.ord[p] \in Order
      BY <1>4 DEF Sound, Book
    <3>2. book'.ord[p] = e.ord[p]
      BY <1>5, <1>7, <3>1 DEF Thinned, Withdrawn1, Order
    <3>3. QED
      BY <1>7, <3>2
  <2>2. /\ order(p).rem \in Nat /\ order(p).qty \in Nat /\ order(p).shown \in Nat
        /\ order(p).rem # q
    BY <1>1, <1>4, <2>1 DEF Order
  <2>3. FallsBehind(p) <=> order(p).kind = "ICEBERG" /\ q = order(p).shown
    BY <1>2, <1>4, <2>1, <2>2 DEF FallsBehind, Executes
  <2>4. Refills(order(p), q) <=> order(p).kind = "ICEBERG" /\ q = order(p).shown
    BY <1>1, <1>2, <2>2 DEF Refills, Slice
  <2>5. QED
    BY <1>4, <2>1, <2>3, <2>4
<1>8. OneMoves(p)
  BY <1>6, <1>7 DEF OneMoves
<1>9. QED
  BY <1>5, <1>8 DEF Queued

\* An amend moves the order to the back of its queue if it asks for more.
LEMMA AmendMoves ==
  ASSUME IInv, Numbered(book), NEW i \in Ids, NEW price \in AmendPrices,
         NEW qty \in AmendQtys, Amend(i, price, qty)
  PROVE  Queued
<1> DEFINE b == Amended(book, i, price, qty)
           c == Cancel(b, i)
           d == [c EXCEPT !.ord[i].status = "NEW"]
<1>1. /\ Sound(book) /\ order(i) \in Order /\ order(i).place = "book"
      /\ price \in Prices /\ qty \in Nat /\ qty > book.ord[i].qty - book.ord[i].rem
      /\ book' = b \/ book' = d
  BY RequestsAssumption DEF Amend, order, IInv, Sound, Book
<1>2. Sound(b) /\ OthersSame(book, b, i) /\ b.ord[i].place = "book"
  BY <1>1, AmendedSound DEF order
<1>3. /\ b.ord[i].price = price /\ b.ord[i].qty = qty
      /\ b.ord[i].rem = qty - (order(i).qty - order(i).rem)
      /\ b.ord[i].seq = IF LosesPriority(order(i), price, qty) THEN book.seq + 1
                        ELSE order(i).seq
      /\ b.seq = IF LosesPriority(order(i), price, qty) THEN book.seq + 1 ELSE book.seq
  <2>1. b.seq = IF LosesPriority(order(i), price, qty) THEN book.seq + 1 ELSE book.seq
    BY <1>1 DEF Amended, Sound, Book, order
  <2>2. QED
    BY <1>1, <2>1 DEF Amended, Sound, Book, Order, order
<1> HIDE DEF b
<1>4. Numbered(b)
  BY <1>1, <1>2, <1>3 DEF Numbered, OthersSame, Sound, Book, Order, order
<1>5. CASE book' = b
  <2>1. \A j \in Ids \ {i} : book'.ord[j] = order(j)
    BY <1>2, <1>5 DEF OthersSame, order
  <2>2. ~Executes(i)
    BY <1>1, <1>3, <1>5 DEF Executes, Order, order
  <2>3. FallsBehind(i) <=> qty > order(i).qty
    BY <1>3, <1>5, <2>2 DEF FallsBehind
  <2>4. OneMoves(i)
    BY <1>3, <1>5, <2>1, <2>3 DEF OneMoves, LosesPriority
  <2>5. QED
    BY <1>4, <1>5, <2>4 DEF Queued
<1>6. CASE book' = d
  <2>1. Sound(c) /\ Thinned(b, c) /\ c.ord[i].place = "none"
    <3>1. b.ord[i].status \in Working
      BY <1>2 DEF Sound, OrderSound
    <3>2. c.ord[i].place = "none"
      BY <1>2, <3>1 DEF Cancel, Sound, Book, Order, Working, Dead
    <3>3. QED
      BY <1>2, <3>2, CancelThins
  <2>2. Numbered(c) /\ Still(b, c)
    BY <1>2, <1>4, <2>1, ThinnedStill
  <2> HIDE DEF c
  <2>3. Numbered(d) /\ Still(c, d) /\ OthersSame(c, d, i) /\ d.ord[i].place = "none"
    <3>1. OthersSame(c, d, i) /\ d.ord[i].place = "none"
      BY <2>1 DEF OthersSame, Sound, Book, Order
    <3>2. QED
      BY <2>1, <2>2, <3>1, StatusStill
  <2>4. Still(book, book')
    BY <1>2, <1>6, <2>1, <2>2, <2>3 DEF Still, OthersSame, order
  <2>5. QED
    BY <1>6, <2>3, <2>4 DEF Queued
<1>7. QED
  BY <1>1, <1>5, <1>6

-----------------------------------------------------------------------------
(***************************************************************************)
(* Every step.                                                             *)
(***************************************************************************)

\* A step that leaves the orders and the counter alone.
LEMMA SameQueued ==
  ASSUME Numbered(book), book'.ord = book.ord, book'.seq = book.seq
  PROVE  Queued
BY DEF Queued, Numbered, Still

\* Withdrawals move nobody.
LEMMA ThinnedQueued ==
  ASSUME Sound(book), Numbered(book), Thinned(book, book')
  PROVE  Queued
BY ThinnedStill DEF Queued

\* A message moves nobody, unless it is an amend.
LEMMA MessageQueued ==
  ASSUME IInv, Numbered(book), Message
  PROVE  Queued
<1>1. /\ Sound(book) /\ book \in Book /\ book.seq \in Nat
      /\ \A i \in Ids : OrderSound(order(i)) /\ order(i) \in Order
  BY DEF IInv, Sound, Book, order
<1>2. ASSUME NEW r \in NewOrders, NewOrder(r)
      PROVE  Queued
  <2> DEFINE n == born + 1
  <2>1. /\ n \in Ids /\ r \in Request /\ WellFormed(r) /\ order(n).status = "ABSENT"
        /\ book' = Add(book, n, Accepted(r, "none", 0))
        /\ "none" \in Bonds /\ 0 \in 0 .. MaxOrders
    BY <1>2, MaxOrdersAssumption, RequestsAssumption, GatesAssumption
       DEF IInv, TypeOK, NewOrder, Ids, Unborn, Bonds
  <2> HIDE DEF n
  <2>2. OthersSame(book, book', n) /\ book'.ord[n].place = "none"
    BY <1>1, <2>1, AddSound
  <2>3. book'.ord[n].seq = 0 /\ book'.seq = book.seq
    BY <1>1, <2>1 DEF Add, Accepted, Book
  <2>4. QED
    BY <1>1, <2>1, <2>2, <2>3, EditStill DEF Queued
<1>3. ASSUME NEW l \in Request \X Request, WellFormed(l[1]), WellFormed(l[2]),
             NEW bond \in {"oco", "quote"}, born + 1 < MaxOrders,
             book'.ord = AddPair(book, l, bond).ord, book'.seq = book.seq
      PROVE  Queued
  <2> DEFINE c == AddPair(book, l, bond)
             g == born + 1
  <2>1. /\ \A i \in {g, g + 1} : i \in Ids /\ c.ord[i].place = "none"
        /\ \A i \in Ids \ {g, g + 1} : c.ord[i] = order(i)
    BY <1>3, AddPairSound
  <2>2. \A i \in {g, g + 1} : c.ord[i].seq = 0
    <3>1. g \in Ids /\ g + 1 \in Ids /\ g # g + 1
      BY <2>1 DEF IInv, TypeOK
    <3>2. QED
      BY <1>1, <3>1 DEF AddPair, Add, Accepted, Book
  <2> HIDE DEF c, g
  <2>3. book'.ord = c.ord
    BY <1>3 DEF c
  <2>4. Numbered(book') /\ Still(book, book')
    BY <1>1, <1>3, <2>1, <2>2, <2>3 DEF Numbered, Still, order
  <2>5. QED
    BY <2>4 DEF Queued
<1>4. ASSUME NEW l \in OcoPairs, OcoOrder(l)
      PROVE  Queued
  <2>1. l \in Request \X Request /\ WellFormed(l[1]) /\ WellFormed(l[2])
    BY RequestsAssumption, GatesAssumption
  <2>2. /\ book'.ord = AddPair(book, l, "oco").ord /\ born + 1 < MaxOrders
        /\ book'.seq = book.seq
    BY <1>1, <1>4 DEF OcoOrder, AddPair, Add, Book
  <2>3. QED
    BY <1>3, <2>1, <2>2
<1>5. ASSUME NEW l \in QuotePairs, QuoteNew(l)
      PROVE  Queued
  <2>1. l \in Request \X Request /\ WellFormed(l[1]) /\ WellFormed(l[2])
    BY RequestsAssumption, GatesAssumption
  <2>2. /\ book'.ord = AddPair(book, l, "quote").ord /\ born + 1 < MaxOrders
        /\ book'.seq = book.seq
    BY <1>1, <1>5 DEF QuoteNew, AddPair, Add, Book
  <2>3. QED
    BY <1>3, <2>1, <2>2
<1>6. ASSUME NEW gw \in Gateways, QuoteCancel(gw) \/ KillSwitch(gw)
      PROVE  Queued
  <2>1. book'.ord = book.ord /\ book'.seq = book.seq
    BY <1>1, <1>6 DEF QuoteCancel, KillSwitch, Book
  <2>2. QED
    BY <2>1, SameQueued
<1>7. ASSUME NEW i \in Ids, CancelOrder(i)
      PROVE  Queued
  <2>1. Sound(Cancel(book, i)) /\ Thinned(book, Cancel(book, i))
    BY <1>1, CancelThins
  <2>2. Thinned(Cancel(book, i), book')
    BY <1>7, <2>1, OcoLegEndedThins DEF CancelOrder
  <2>3. QED
    BY <1>1, <2>1, <2>2, ThinnedTransitive, ThinnedQueued
<1>8. ASSUME NEW g \in Ids, OcoCancel(g)
      PROVE  Queued
  <2> DEFINE c == Cancel(book, g)
             d == Cancel(c, g + 1)
  <2>1. g + 1 \in Ids
    BY <1>8 DEF IInv, OcoCancel, Registered, Sound, Bonded, order
  <2>2. Sound(c) /\ Thinned(book, c)
    BY <1>1, CancelThins
  <2> HIDE DEF c
  <2>3. Sound(d) /\ Thinned(c, d)
    BY <2>1, <2>2, CancelThins
  <2>4. book' = [d EXCEPT !.live = d.live \ {g}]
    BY <1>8 DEF OcoCancel, c, d
  <2> HIDE DEF d
  <2>5. book'.ord = d.ord /\ book'.seq = d.seq /\ book'.live \subseteq d.live
    BY <2>3, <2>4 DEF Sound, Book
  <2>6. Thinned(d, book')
    BY <2>5 DEF Thinned
  <2>7. QED
    BY <1>1, <2>2, <2>3, <2>6, ThinnedTransitive, ThinnedQueued
<1>9. ASSUME CallPhaseBegins \/ NoMessage
      PROVE  Queued
  <2>1. book' = book
    BY <1>9 DEF CallPhaseBegins, NoMessage, vars
  <2>2. QED
    BY <2>1, SameQueued
<1>10. QED
  BY <1>2, <1>4, <1>5, <1>6, <1>7, <1>8, <1>9, AmendMoves DEF Message

\* Inside a handler only a trade moves an order.
LEMMA HandlerQueued ==
  ASSUME IInv, Numbered(book), EngineStep
  PROVE  Queued
<1>1. /\ Sound(book) /\ book \in Book /\ book.seq \in Nat
      /\ \A i \in Ids : OrderSound(order(i)) /\ order(i) \in Order
  BY DEF IInv, Sound, Book, order
<1>2. CASE Withdraw \/ RefusePull
  <2>1. PICK i \in Ids : book' = Cancel(book, i) \/ book' = SmpCancel(book, i)
    BY <1>2 DEF Withdraw, RefusePull, IInv, TypeOK
  <2>2. QED
    BY <1>1, <2>1, CancelThins, SmpCancelThins, ThinnedQueued
<1>3. CASE Withdrawn \/ Refused \/ (\E i \in Ids : RunStop(i)) \/ PostSecondLeg
           \/ HandlerReturns \/ HandlerRaises
  <2>1. book'.ord = book.ord /\ book'.seq = book.seq
    BY <1>1, <1>3 DEF Withdrawn, Refused, RunStop, PostSecondLeg, HandlerReturns,
                      HandlerRaises, Book
  <2>2. QED
    BY <2>1, SameQueued
<1>4. CASE DropCancelled \/ ArmStop \/ TriggerOnEntry \/ StartSweep
  <2>1. /\ cur \in Ids /\ order(cur).place \in {"none", "triggered"}
        /\ order(cur) \in Order /\ order(cur).seq <= book.seq
    BY <1>1, <1>4, ProcessingFacts
       DEF DropCancelled, ArmStop, TriggerOnEntry, StartSweep, IInv, HandlerOK, InHand,
           Numbered, order
  <2>2. OthersSame(book, book', cur)
    <3>1. CASE ArmStop
      BY <1>1, <2>1, <3>1 DEF ArmStop, OthersSame, Book
    <3>2. CASE DropCancelled
      BY <1>1, <2>1, <3>2 DEF DropCancelled, OthersSame, Book
    <3>3. CASE TriggerOnEntry \/ StartSweep
      BY <1>1, <2>1, <3>3 DEF TriggerOnEntry, StartSweep, OthersSame, Book
    <3>4. QED
      BY <1>4, <3>1, <3>2, <3>3
  <2>3. /\ Resolved(order(cur)).seq = order(cur).seq
        /\ Converted(Resolved(order(cur))).seq = order(cur).seq
    BY <2>1 DEF Resolved, Converted, Order
  <2>4. /\ book'.seq \in {book.seq, book.seq + 1}
        /\ book'.ord[cur].seq \in {order(cur).seq, book'.seq}
    <3>1. CASE ArmStop
      BY <1>1, <2>1, <2>3, <3>1 DEF ArmStop, Resolved, Book, Order, order
    <3>2. CASE DropCancelled
      BY <1>1, <2>1, <3>2 DEF DropCancelled, Book, Order, order
    <3>3. CASE TriggerOnEntry \/ StartSweep
      BY <1>1, <2>1, <2>3, <3>3 DEF TriggerOnEntry, StartSweep, Book, order
    <3>4. QED
      BY <1>4, <3>1, <3>2, <3>3
  <2>5. order(cur).seq \in Nat /\ order(cur).place # "book"
    BY <2>1 DEF Order
  <2>6. QED
    BY <1>1, <2>1, <2>2, <2>4, <2>5, EditStill DEF Queued, order
<1>5. CASE RejectImmediate
  <2> DEFINE c == [book EXCEPT !.ord[cur].status = "REJECTED"]
  <2>1. cur \in Ids /\ order(cur).place = "none" /\ book' = OcoLegEnded(c, cur)
    BY <1>5, ProcessingFacts DEF RejectImmediate
  <2>2. Sound(c) /\ OthersSame(book, c, cur) /\ c.ord[cur].place = "none"
    BY <1>1, <2>1, StatusSound DEF order
  <2>3. Numbered(c) /\ Still(book, c)
    BY <1>1, <2>1, StatusStill DEF order
  <2> HIDE DEF c
  <2>4. Thinned(c, book') /\ Numbered(book') /\ Still(c, book')
    BY <2>1, <2>2, <2>3, OcoLegEndedThins, ThinnedStill
  <2>5. \A i \in Ids : book'.ord[i].place = "book" => c.ord[i].place = "book"
    BY <2>2, <2>4, ThinnedFields
  <2>6. QED
    BY <2>3, <2>4, <2>5, StillTransitive DEF Queued
<1>6. CASE RestUnmatched \/ SweepEnds
  <2>1. /\ cur \in Ids /\ order(cur).place = "none"
        /\ \/ book' = book \/ book' = Rest(book, cur)
           \/ book' = [book EXCEPT !.ord[cur].status = "CANCELLED"]
    BY <1>6, ProcessingFacts DEF RestUnmatched, SweepEnds, IInv, HandlerOK
  <2>2. QED
    BY <1>1, <2>1, RestStill, StatusStill, SameQueued DEF Queued, order
<1>7. CASE RefuseFok
  <2>1. cur \in Ids /\ order(cur).place = "none"
    BY <1>7, ProcessingFacts DEF RefuseFok
  <2>2. PICK status : book' = [book EXCEPT !.ord[cur].status = status]
    BY <1>7 DEF RefuseFok
  <2>3. QED
    BY <1>1, <2>1, <2>2, StatusStill DEF Queued, order
<1>8. ASSUME NEW p \in Ids, SelfMatchPullsResting(p)
      PROVE  Queued
  BY <1>1, <1>8, SmpCancelThins, ThinnedQueued DEF SelfMatchPullsResting
<1>9. ASSUME NEW p \in Ids, SelfMatchPullsAggressor(p)
      PROVE  Queued
  <2> DEFINE b == IF SelfMatch(book, cur, p) = "CANCEL_BOTH" THEN SmpCancel(book, p) ELSE book
  <2>1. /\ cur \in Ids /\ order(cur).place = "none"
        /\ book' = [b EXCEPT !.ord[cur].status = "CANCELLED"]
    BY <1>9, FacingFacts DEF SelfMatchPullsAggressor
  <2>2. Sound(b) /\ Thinned(book, b)
    <3>1. Thinned(book, book)
      BY DEF Thinned
    <3>2. QED
      BY <1>1, <3>1, SmpCancelThins
  <2> HIDE DEF b
  <2>3. Numbered(b) /\ Still(book, b) /\ b.ord[cur].place = "none"
    BY <1>1, <2>1, <2>2, ThinnedStill, ThinnedFields DEF order
  <2>4. Numbered(book') /\ Still(b, book') /\ OthersSame(b, book', cur)
        /\ book'.ord[cur].place = "none"
    BY <2>1, <2>2, <2>3, StatusStill, StatusSound
  <2>5. \A i \in Ids : book'.ord[i].place = "book" => b.ord[i].place = "book"
    BY <2>4 DEF OthersSame
  <2>6. QED
    BY <2>3, <2>4, <2>5, StillTransitive DEF Queued
<1>10. CASE Settle
  <2> DEFINE b == OcoLegEnded(book, cur)
  <2>1. /\ cur \in Ids /\ last \in Int /\ released \in Nat
        /\ book' = b \/ book' = Release(b, last, released)
    BY <1>10, PricesAssumption DEF IInv, TypeOK, HandlerOK, Settle, NoPrice
  <2>2. Sound(b) /\ Thinned(book, b)
    BY <1>1, <2>1, OcoLegEndedThins
  <2> HIDE DEF b
  <2>3. Numbered(b) /\ Still(book, b)
    BY <1>1, <2>2, ThinnedStill
  <2>4. CASE book' = b
    BY <2>3, <2>4 DEF Queued
  <2>5. CASE book' = Release(b, last, released)
    <3>1. Numbered(book') /\ Still(b, book')
      BY <2>1, <2>2, <2>3, <2>5, ReleaseStill
    <3>2. \A i \in Ids : book'.ord[i].place = "book" => b.ord[i].place = "book"
      BY <2>1, <2>2, <2>5, ReleaseSound
    <3>3. QED
      BY <2>3, <3>1, <3>2, StillTransitive DEF Queued
  <2>6. QED
    BY <2>1, <2>4, <2>5
<1>11. CASE DropSecondLeg
  <2>1. /\ todo \in Ids /\ order(todo).place = "none"
        /\ book' = [book EXCEPT !.ord[todo].status = "CANCELLED"]
    BY <1>11 DEF DropSecondLeg, IInv, HandlerOK, InHand
  <2>2. QED
    BY <1>1, <2>1, StatusStill DEF Queued, order
<1>12. QED
  BY <1>2, <1>3, <1>4, <1>5, <1>6, <1>7, <1>8, <1>9, <1>10, <1>11, TradeMoves DEF EngineStep

\* No order has an arrival number that has not been given out.
LEMMA ArrivalsNumbered == Spec => []Numbered(book)
<1>1. Init => Numbered(book)
  BY DEF Init, Numbered, Absent
<1>2. IInv /\ Numbered(book) /\ [Next]_vars => Numbered(book)'
  <2>1. ASSUME IInv, Numbered(book), Next
        PROVE  Numbered(book')
    BY <2>1, MessageQueued, HandlerQueued DEF Next, Queued
  <2>2. ASSUME Numbered(book), UNCHANGED vars
        PROVE  Numbered(book')
    BY <2>2 DEF vars
  <2>3. QED
    BY <2>1, <2>2 DEF Numbered
<1>3. QED
  BY <1>1, <1>2, Invariance, PTL DEF Spec

\* Of two orders that rest at one price the one in front falls behind exactly
\* when its slice is used up or its owner asks for a larger size.
THEOREM QueuesKept == Spec => QueueDiscipline
<1>1. ASSUME IInv, Numbered(book), Next, NEW i \in Ids, NEW j \in Ids,
             order(i).place = "book", order(j).place = "book",
             book'.ord[i].place = "book", book'.ord[j].place = "book",
             order(i).side = order(j).side,
             order(i).price = order(j).price, book'.ord[i].price = book'.ord[j].price,
             Ahead(book, i, j)
      PROVE  ~Ahead(book', i, j) <=> FallsBehind(i)
  <2>1. /\ order(i) \in Order /\ order(j) \in Order /\ book.seq \in Nat
        /\ order(i).seq <= book.seq /\ order(j).seq <= book.seq
        /\ order(i).price \in Int
    <3>1. order(i) \in Order /\ order(j) \in Order /\ book.seq \in Nat
      BY <1>1 DEF IInv, Sound, Book, order
    <3>2. order(i).seq <= book.seq /\ order(j).seq <= book.seq
      BY <1>1 DEF Numbered, order
    <3>3. order(i).price \in Prices \cup {NoPrice}
      BY <3>1 DEF Order
    <3>4. order(i).price \in Int
      <4>1. \A x \in Prices \cup {NoPrice} : x \in Int
        BY PricesAssumption DEF NoPrice
      <4>2. QED
        BY <3>3, <4>1
    <3>5. QED
      BY <1>1, <3>1, <3>2, <3>4
  <2>2. i # j /\ order(i).seq < order(j).seq
    BY <1>1, <2>1 DEF Ahead, Better, order, Order
  <2>3. ASSUME book'.ord[i] = order(i)
        PROVE  ~FallsBehind(i)
    BY <2>1, <2>3 DEF FallsBehind, Executes, Order
  <2>4. ASSUME book'.ord[i].price = order(i).price
        PROVE  Ahead(book', i, j) <=> book'.ord[i].seq < book'.ord[j].seq
    BY <1>1, <2>1, <2>4 DEF Ahead, Better
  <2>5. ASSUME book'.ord[i] = order(i), book'.ord[j] = order(j)
        PROVE  ~Ahead(book', i, j) <=> FallsBehind(i)
    BY <2>2, <2>3, <2>4, <2>5
  <2>6. ASSUME NEW k \in Ids, OneMoves(k)
        PROVE  ~Ahead(book', i, j) <=> FallsBehind(i)
    <3>1. CASE k = i
      <4>1. book'.ord[j] = order(j) /\ book'.ord[i].price = order(i).price
        BY <1>1, <2>2, <2>6, <3>1 DEF OneMoves
      <4>2. book'.ord[i].seq = IF FallsBehind(i) THEN book.seq + 1 ELSE order(i).seq
        BY <1>1, <2>6, <3>1, <4>1 DEF OneMoves
      <4>3. order(i).seq \in Nat /\ order(j).seq \in Nat
        BY <2>1 DEF Order
      <4>4. QED
        BY <2>1, <2>2, <2>4, <4>1, <4>2, <4>3
    <3>2. CASE k = j
      <4>1. book'.ord[i] = order(i) /\ book'.ord[j].price = order(j).price
        BY <1>1, <2>2, <2>6, <3>2 DEF OneMoves
      <4>2. book'.ord[j].seq \in {book.seq + 1, order(j).seq}
        BY <1>1, <2>6, <3>2, <4>1 DEF OneMoves
      <4>3. order(i).seq \in Nat /\ order(j).seq \in Nat
        BY <2>1 DEF Order
      <4>4. QED
        BY <2>1, <2>2, <2>3, <2>4, <4>1, <4>2, <4>3
    <3>3. CASE k \notin {i, j}
      BY <1>1, <2>5, <2>6, <3>3 DEF OneMoves
    <3>4. QED
      BY <3>1, <3>2, <3>3
  <2>7. Queued
    BY <1>1, MessageQueued, HandlerQueued DEF Next
  <2>8. CASE Still(book, book')
    BY <1>1, <2>5, <2>8 DEF Still, order
  <2>9. QED
    BY <2>6, <2>7, <2>8 DEF Queued
<1>2. IInv /\ Numbered(book) /\ [Next]_vars =>
        [\A i, j \in Ids :
           /\ \A b \in {book, book'} : b.ord[i].place = "book" /\ b.ord[j].place = "book"
           /\ order(i).side = order(j).side
           /\ order(i).price = order(j).price /\ book'.ord[i].price = book'.ord[j].price
           /\ Ahead(book, i, j)
           => (~Ahead(book', i, j) <=>
                 \/ book'.ord[i].qty > order(i).qty
                 \/ /\ order(i).kind = "ICEBERG" /\ Executes(i)
                    /\ book'.ord[i].rem = order(i).rem - order(i).shown)]_vars
  BY <1>1 DEF FallsBehind, order
<1>3. QED
  BY <1>2, ArrivalsNumbered, Invariance, PTL DEF Spec, QueueDiscipline
=============================================================================
