---------------------------- MODULE Ledger_proofs ----------------------------
(***************************************************************************)
(* What each step makes of every order, whoever holds it: only messages    *)
(* accept or amend, only Trade executes, and every other step at most ends *)
(* an order or converts a stop.  The refinement of TradeLedger follows,    *)
(* and Pairs_proofs builds on the same facts.                              *)
(***************************************************************************)
EXTENDS Matching_proofs

\* What becomes of order o when it is neither accepted, amended nor traded: it
\* may end, and a stop may become the order it stands for.
Calm(o, n) ==
  /\ SameOrder(o, n) /\ n.rem = o.rem
  /\ \/ n.kind = o.kind /\ n.price = o.price
     \/ o.kind = "STOP_LIMIT" /\ n.kind = "LIMIT" /\ n.price = o.price
     \/ o.kind \in {"STOP", "TRAILING_STOP"} /\ n.kind = "MARKET" /\ n.price = NoPrice
  /\ n.status \in {o.status, "CANCELLED", "REJECTED"}
  /\ o.status \notin Working => n.status = o.status

CalmBook(b, c) == \A i \in Ids : Calm(b.ord[i], c.ord[i])

-----------------------------------------------------------------------------
(***************************************************************************)
(* Operations that are calm.                                               *)
(***************************************************************************)
LEMMA CalmTransitive ==
  ASSUME NEW b, NEW c, NEW d, CalmBook(b, c), CalmBook(c, d)
  PROVE  CalmBook(b, d)
BY DEF CalmBook, Calm, SameOrder, Working

\* Withdrawing orders.
LEMMA ThinnedCalm ==
  ASSUME NEW b, Sound(b), NEW c, Thinned(b, c)
  PROVE  CalmBook(b, c)
<1> SUFFICES ASSUME NEW i \in Ids PROVE Calm(b.ord[i], c.ord[i])
  BY DEF CalmBook
<1>1. b.ord[i] \in Order /\ OrderSound(b.ord[i])
  BY DEF Sound, Book
<1>2. CASE c.ord[i] = b.ord[i]
  BY <1>2 DEF Calm, SameOrder
<1>3. CASE /\ b.ord[i].place # "none" /\ b.ord[i].status \notin Dead
           /\ c.ord[i] = Withdrawn1(b.ord[i])
  <2>1. b.ord[i].status \in Working
    BY <1>1, <1>3 DEF Order, OrderSound, Places
  <2>2. QED
    BY <1>1, <1>3, <2>1 DEF Calm, Withdrawn1, Order, SameOrder
<1>4. QED
  BY <1>2, <1>3 DEF Thinned

\* Rewriting one order calmly, or none.
LEMMA EditCalm ==
  ASSUME NEW b, NEW c, NEW i \in Ids, OthersSame(b, c, i), Calm(b.ord[i], c.ord[i])
  PROVE  CalmBook(b, c)
BY DEF CalmBook, Calm, OthersSame, SameOrder

LEMMA SameCalm ==
  ASSUME NEW b, NEW c, c.ord = b.ord
  PROVE  CalmBook(b, c)
BY DEF CalmBook, Calm, SameOrder

\* Ending an order that is in no place.
LEMMA StatusCalm ==
  ASSUME NEW b, Sound(b), NEW i \in Ids, b.ord[i].status \in Working,
         NEW status \in {"CANCELLED", "REJECTED"},
         NEW c, c = [b EXCEPT !.ord[i].status = status]
  PROVE  CalmBook(b, c)
<1>1. OthersSame(b, c, i) /\ c.ord[i] = [b.ord[i] EXCEPT !.status = status]
      /\ b.ord[i] \in Order
  BY DEF Sound, Book, OthersSame
<1>2. Calm(b.ord[i], c.ord[i])
  BY <1>1 DEF Calm, SameOrder, Order
<1>3. QED
  BY <1>1, <1>2, EditCalm

\* Joining the queue.
LEMMA RestCalm ==
  ASSUME NEW b, Sound(b), NEW i \in Ids
  PROVE  CalmBook(b, Rest(b, i))
<1>1. OthersSame(b, Rest(b, i), i) /\ b.ord[i] \in Order
  BY DEF Rest, Sound, Book, OthersSame
<1>2. Calm(b.ord[i], Rest(b, i).ord[i])
  BY <1>1 DEF Rest, Calm, SameOrder, Sound, Book, Order
<1>3. QED
  BY <1>1, <1>2, EditCalm

\* Releasing stops converts them.
LEMMA ReleaseCalm ==
  ASSUME NEW b, Sound(b), NEW price \in Int, NEW top \in Nat
  PROVE  CalmBook(b, Release(b, price, top))
<1> SUFFICES ASSUME NEW i \in Ids
             PROVE  Calm(b.ord[i], Release(b, price, top).ord[i])
  BY DEF CalmBook
<1> DEFINE o == b.ord[i]
           moved == [j \in Ids |-> Ratcheted(b.ord[j], price)]
           m == moved[i]
           n == Release(b, price, top).ord[i]
           reached == m.place \in {"armed", "trailing"} /\ Breached(m.side, m.stop, price)
<1>1. o \in Order /\ OrderSound(o)
  BY DEF Sound, Book
<1>2. /\ SameOrder(o, m) /\ m.rem = o.rem /\ m.kind = o.kind /\ m.price = o.price
      /\ m.status = o.status /\ m.place = o.place /\ DOMAIN m = DOMAIN o
  BY <1>1 DEF Ratcheted, Order, SameOrder
<1>3. \/ reached /\ \E turn : n = [Converted(m) EXCEPT !.place = "triggered", !.turn = turn]
      \/ ~reached /\ n = m
  BY <1>1 DEF Release, Sound, Book
<1> HIDE DEF m
<1>4. CASE ~reached /\ n = m
  BY <1>2, <1>4 DEF Calm
<1>5. ASSUME reached, NEW turn,
             n = [Converted(m) EXCEPT !.place = "triggered", !.turn = turn]
      PROVE  Calm(o, n)
  <2>1. m.kind \in StopKinds
    BY <1>1, <1>2, <1>5 DEF OrderSound, StopKinds
  <2>2. n.kind = Converted(m).kind /\ n.price = Converted(m).price
        /\ n.status = m.status /\ SameOrder(m, n) /\ n.rem = m.rem
    BY <1>1, <1>2, <1>5 DEF Converted, Order, SameOrder
  <2>3. \/ m.kind = "STOP_LIMIT" /\ n.kind = "LIMIT" /\ n.price = m.price
        \/ m.kind \in {"STOP", "TRAILING_STOP"} /\ n.kind = "MARKET" /\ n.price = NoPrice
    BY <1>1, <1>2, <2>1, <2>2 DEF Converted, Order, StopKinds
  <2>4. QED
    BY <1>2, <2>2, <2>3 DEF Calm, SameOrder
<1>6. QED
  BY <1>3, <1>4, <1>5

-----------------------------------------------------------------------------
(***************************************************************************)
(* Steps that are calm.                                                    *)
(***************************************************************************)

\* An order on its way to the matchers, refused, dropped or put to sleep.
LEMMA ProcessingCalm ==
  ASSUME IInv,
         DropCancelled \/ RejectImmediate \/ RestUnmatched \/ HandlerRaises
           \/ ArmStop \/ TriggerOnEntry \/ StartSweep \/ RefuseFok
  PROVE  CalmBook(book, book')
<1>1. Sound(book) /\ book \in Book /\ cur \in Ids /\ order(cur) \in Order
  <2>1. pc = "process"
    BY DEF DropCancelled, RejectImmediate, RestUnmatched, HandlerRaises,
           ArmStop, TriggerOnEntry, StartSweep, RefuseFok, Processing
  <2>2. QED
    BY <2>1 DEF IInv, HandlerOK, Sound, Book, order
<1>2. ASSUME NEW n, Calm(order(cur), n), book'.ord = [book.ord EXCEPT ![cur] = n]
      PROVE  CalmBook(book, book')
  <2>1. OthersSame(book, book', cur) /\ book'.ord[cur] = n
    BY <1>1, <1>2 DEF OthersSame, Book
  <2>2. QED
    BY <1>1, <1>2, <2>1, EditCalm DEF order
<1>3. CASE DropCancelled
  <2> DEFINE n == [order(cur) EXCEPT !.place = "none", !.turn = 0]
  <2>1. book'.ord = [book.ord EXCEPT ![cur] = n]
    BY <1>1, <1>3 DEF DropCancelled, order, Book
  <2>2. Calm(order(cur), n)
    BY <1>1 DEF Calm, SameOrder, Order
  <2> HIDE DEF n
  <2>3. QED
    BY <1>2, <2>1, <2>2
<1>4. CASE RejectImmediate \/ RefuseFok
  <2>1. PICK status \in {"CANCELLED", "REJECTED"} :
          LET c == [book EXCEPT !.ord[cur].status = status]
          IN  book' = c \/ book' = OcoLegEnded(c, cur)
    BY <1>4 DEF RejectImmediate, RefuseFok
  <2> DEFINE c == [book EXCEPT !.ord[cur].status = status]
  <2>2. order(cur).status \in Working /\ order(cur).place = "none"
    BY <1>4, ProcessingFacts DEF RejectImmediate, RefuseFok
  <2>3. Sound(c) /\ CalmBook(book, c)
    BY <1>1, <2>2, StatusSound, StatusCalm DEF order
  <2>4. book' = c \/ book' = OcoLegEnded(c, cur)
    BY <2>1
  <2> HIDE DEF c
  <2>5. CalmBook(c, OcoLegEnded(c, cur))
    BY <1>1, <2>3, OcoLegEndedThins, ThinnedCalm
  <2>6. QED
    BY <2>3, <2>4, <2>5, CalmTransitive
<1>5. CASE RestUnmatched
  <2>1. order(cur).place = "none" /\ order(cur).status \in Working
        /\ order(cur).kind \in Restable /\ book' = Rest(book, cur)
    BY <1>5, ProcessingFacts DEF RestUnmatched
  <2>2. QED
    BY <1>1, <2>1, RestCalm
<1>6. CASE HandlerRaises
  BY <1>6, SameCalm DEF HandlerRaises
<1>7. CASE ArmStop \/ TriggerOnEntry \/ StartSweep
  <2> DEFINE o == order(cur)
             m == Resolved(o)
  <2>1. /\ SameOrder(o, m) /\ m.rem = o.rem /\ m.kind = o.kind /\ m.price = o.price
        /\ m.status = o.status /\ m \in Order
    <3>1. last \in Int /\ OrderSound(o)
      BY <1>1, PricesAssumption DEF IInv, TypeOK, NoPrice, Sound, order
    <3>2. QED
      BY <1>1, <3>1, ResolvedSound
  <2>2. o.kind \in StopKinds \/ StartSweep
    BY <1>7 DEF ArmStop, TriggerOnEntry, Resolved
  <2>3. PICK n : /\ book'.ord = [book.ord EXCEPT ![cur] = n]
                 /\ \/ n = m /\ StartSweep
                    \/ n = Converted(m) /\ m.kind \in StopKinds
                    \/ n = [m EXCEPT !.place = "trailing"]
                    \/ n = [m EXCEPT !.place = "armed", !.seq = book.seq + 1]
    BY <1>1, <1>7 DEF ArmStop, TriggerOnEntry, StartSweep, Book, order
  <2> HIDE DEF m
  <2>4. Calm(m, n)
    BY <2>1, <2>3 DEF Calm, Converted, SameOrder, Order, StopKinds
  <2>5. Calm(o, n)
    BY <2>1, <2>4 DEF Calm, SameOrder
  <2>6. QED
    BY <1>2, <2>3, <2>5
<1>8. QED
  BY <1>3, <1>4, <1>5, <1>6, <1>7

\* Batches, pulls, the end of a sweep, the cascade and the second leg.
LEMMA HandlingCalm ==
  ASSUME IInv,
         \/ Withdraw \/ Withdrawn \/ RefusePull \/ Refused
         \/ \E p \in Ids : SelfMatchPullsResting(p) \/ SelfMatchPullsAggressor(p)
         \/ SweepEnds \/ Settle
         \/ \E i \in Ids : RunStop(i)
         \/ PostSecondLeg \/ DropSecondLeg \/ HandlerReturns
  PROVE  CalmBook(book, book')
<1>1. Sound(book) /\ book \in Book
  BY DEF IInv, Sound
<1>2. CASE Withdraw \/ RefusePull \/ \E p \in Ids : SelfMatchPullsResting(p)
  <2>1. PICK i \in Ids : book' = Cancel(book, i) \/ book' = SmpCancel(book, i)
    BY <1>2 DEF Withdraw, RefusePull, SelfMatchPullsResting, IInv, TypeOK
  <2>2. QED
    BY <1>1, <2>1, CancelThins, SmpCancelThins, ThinnedCalm
<1>3. CASE \/ Withdrawn \/ Refused \/ (\E i \in Ids : RunStop(i)) \/ PostSecondLeg
           \/ HandlerReturns
  <2>1. book'.ord = book.ord
    BY <1>1, <1>3 DEF Withdrawn, Refused, RunStop, PostSecondLeg, HandlerReturns, Book
  <2>2. QED
    BY <2>1, SameCalm
<1>4. ASSUME NEW p \in Ids, SelfMatchPullsAggressor(p)
      PROVE  CalmBook(book, book')
  <2> DEFINE b == IF SelfMatch(book, cur, p) = "CANCEL_BOTH" THEN SmpCancel(book, p) ELSE book
  <2>1. /\ cur \in Ids /\ order(cur).place = "none" /\ order(cur).status \in Working
        /\ book' = [b EXCEPT !.ord[cur].status = "CANCELLED"]
    BY <1>4, FacingFacts DEF SelfMatchPullsAggressor
  <2>2. Sound(b) /\ Thinned(book, b)
    <3>1. Thinned(book, book)
      BY DEF Thinned
    <3>2. QED
      BY <1>1, <3>1, SmpCancelThins
  <2> HIDE DEF b
  <2>3. b.ord[cur] = order(cur)
    BY <2>1, <2>2 DEF Thinned, order
  <2>4. CalmBook(b, book')
    BY <2>1, <2>2, <2>3, StatusCalm
  <2>5. QED
    BY <1>1, <2>2, <2>4, ThinnedCalm, CalmTransitive
<1>5. CASE SweepEnds
  <2>1. /\ cur \in Ids /\ order(cur).place = "none" /\ order(cur) \in Order
        /\ order(cur).rem # 0 => order(cur).status \in Working
    BY <1>1, <1>5 DEF SweepEnds, IInv, HandlerOK, Book, Order, order
  <2>2. CASE order(cur).rem = 0
    BY <1>5, <2>2, SameCalm DEF SweepEnds
  <2>3. CASE order(cur).rem # 0 /\ order(cur).kind \in Restable
    BY <1>1, <1>5, <2>1, <2>3, RestCalm DEF SweepEnds
  <2>4. CASE order(cur).rem # 0 /\ order(cur).kind \notin Restable
    BY <1>1, <1>5, <2>1, <2>4, StatusCalm DEF SweepEnds, order
  <2>5. QED
    BY <2>2, <2>3, <2>4
<1>6. CASE Settle
  <2> DEFINE b == OcoLegEnded(book, cur)
  <2>1. /\ cur \in Ids /\ last \in Int /\ released \in Nat
        /\ book' = b \/ book' = Release(b, last, released)
    BY <1>6, PricesAssumption DEF IInv, TypeOK, HandlerOK, Settle, NoPrice
  <2>2. Sound(b) /\ CalmBook(book, b)
    BY <1>1, <2>1, OcoLegEndedThins, ThinnedCalm
  <2> HIDE DEF b
  <2>3. QED
    BY <2>1, <2>2, ReleaseCalm, CalmTransitive
<1>7. CASE DropSecondLeg
  <2>1. todo \in Ids /\ order(todo).status \in Working
        /\ book' = [book EXCEPT !.ord[todo].status = "CANCELLED"]
    BY <1>7 DEF DropSecondLeg, IInv, HandlerOK, InHand
  <2>2. QED
    BY <1>1, <2>1, StatusCalm DEF order
<1>8. QED
  BY <1>2, <1>3, <1>4, <1>5, <1>6, <1>7

\* Messages that cancel, or change nothing in the book.
LEMMA MessageCalm ==
  ASSUME IInv,
         \/ \E gw \in Gateways : QuoteCancel(gw) \/ KillSwitch(gw)
         \/ \E i \in Ids : CancelOrder(i) \/ OcoCancel(i)
         \/ CallPhaseBegins \/ NoMessage
  PROVE  CalmBook(book, book')
<1>1. Sound(book) /\ book \in Book
  BY DEF IInv, Sound
<1>2. CASE (\E gw \in Gateways : QuoteCancel(gw) \/ KillSwitch(gw)) \/ CallPhaseBegins \/ NoMessage
  <2>1. book'.ord = book.ord
    BY <1>1, <1>2 DEF QuoteCancel, KillSwitch, CallPhaseBegins, NoMessage, vars, Book
  <2>2. QED
    BY <2>1, SameCalm
<1>3. ASSUME NEW i \in Ids, CancelOrder(i)
      PROVE  CalmBook(book, book')
  <2> DEFINE c == Cancel(book, i)
  <2>1. Sound(c) /\ CalmBook(book, c) /\ book' = OcoLegEnded(c, i)
    BY <1>1, <1>3, CancelThins, ThinnedCalm DEF CancelOrder
  <2> HIDE DEF c
  <2>2. QED
    BY <2>1, OcoLegEndedThins, ThinnedCalm, CalmTransitive
<1>4. ASSUME NEW g \in Ids, OcoCancel(g)
      PROVE  CalmBook(book, book')
  <2> DEFINE c == Cancel(book, g)
             d == Cancel(c, g + 1)
  <2>1. g + 1 \in Ids
    BY <1>4 DEF IInv, OcoCancel, Registered, Sound, Bonded, order
  <2>2. Sound(c) /\ CalmBook(book, c)
    BY <1>1, CancelThins, ThinnedCalm
  <2> HIDE DEF c
  <2>3. Sound(d) /\ CalmBook(c, d)
    BY <2>1, <2>2, CancelThins, ThinnedCalm
  <2> HIDE DEF d
  <2>4. book'.ord = d.ord
    <3>1. book' = [d EXCEPT !.live = d.live \ {g}]
      BY <1>4 DEF OcoCancel, c, d
    <3>2. QED
      BY <2>3, <3>1 DEF Sound, Book
  <2>5. CalmBook(d, book')
    BY <2>4, SameCalm
  <2>6. QED
    BY <2>2, <2>3, <2>5, CalmTransitive
<1>5. QED
  BY <1>2, <1>3, <1>4

\* A trade takes the same quantity from both orders.  Its callbacks may cancel
\* what is left of the resting one, and others that were held.
LEMMA TradeOrders ==
  ASSUME IInv, NEW p \in Ids, Trade(p)
  PROVE  LET q == FillQty(book, cur, p)
             a == book'.ord[cur]
             n == book'.ord[p]
         IN  /\ cur \in Ids /\ cur # p /\ q \in 1 .. order(cur).rem /\ q <= order(p).rem
             /\ q = Least(order(cur).rem, Slice(order(p)))
             /\ SameOrder(order(cur), a) /\ a.kind = order(cur).kind
             /\ a.price = order(cur).price /\ a.rem = order(cur).rem - q
             /\ a.status = IF a.rem = 0 THEN "FILLED" ELSE "PARTIAL"
             /\ SameOrder(order(p), n) /\ n.kind = order(p).kind
             /\ n.price = order(p).price /\ n.rem = order(p).rem - q
             /\ n.status \in IF n.rem = 0 THEN {"FILLED"} ELSE {"PARTIAL", "CANCELLED"}
             /\ \A i \in Ids \ {cur, p} : Calm(order(i), book'.ord[i])
<1> DEFINE q == FillQty(book, cur, p)
           c1 == Reduce(book, cur, q)
           c2 == Reduce(c1, p, q)
<1>1. /\ Sound(book) /\ cur \in Ids /\ cur # p
      /\ order(cur).place = "none" /\ order(cur).status \in Working
      /\ order(p).place = "book" /\ order(p).status \in Working
      /\ order(cur) \in Order /\ order(p) \in Order /\ OrderSound(order(p))
      /\ book' = ApplyFill(book, cur, p)
  BY FacingFacts DEF Trade, OrderSound
<1>2. /\ q \in 1 .. order(cur).rem /\ q \in Nat \ {0}
      /\ q <= Slice(order(p)) /\ q <= order(p).rem
      /\ q = Least(order(cur).rem, Slice(order(p)))
  <2>1. order(cur).rem \in Nat /\ order(cur).rem > 0 /\ order(p).rem \in Nat
    BY <1>1 DEF Order, Sound, OrderSound, order
  <2>2. Slice(order(p)) \in 1 .. order(p).rem
    BY <1>1 DEF OrderSound
  <2>3. QED
    BY <2>1, <2>2 DEF FillQty, Least, order
<1> HIDE DEF q
<1>3. /\ Sound(c1) /\ OthersSame(book, c1, cur) /\ SameOrder(order(cur), c1.ord[cur])
      /\ c1.ord[cur].kind = order(cur).kind /\ c1.ord[cur].price = order(cur).price
      /\ c1.ord[cur].rem = order(cur).rem - q
      /\ c1.ord[cur].status = (IF c1.ord[cur].rem = 0 THEN "FILLED" ELSE "PARTIAL")
      /\ c1.ord[cur].place = "none"
  BY <1>1, <1>2, ReduceSound DEF order
<1> HIDE DEF c1
<1>4. c1.ord[p] = order(p)
  BY <1>1, <1>3 DEF OthersSame, order
<1>5. /\ Sound(c2) /\ OthersSame(c1, c2, p) /\ SameOrder(order(p), c2.ord[p])
      /\ c2.ord[p].kind = order(p).kind /\ c2.ord[p].price = order(p).price
      /\ c2.ord[p].rem = order(p).rem - q
      /\ c2.ord[p].status = (IF c2.ord[p].rem = 0 THEN "FILLED" ELSE "PARTIAL")
  BY <1>1, <1>2, <1>3, <1>4, ReduceSound
<1> HIDE DEF c2
<1>6. Thinned(c2, book')
  <2>1. book' = FillHooks(c2, cur, p)
    BY <1>1 DEF ApplyFill, c2, c1, q
  <2>2. QED
    BY <1>1, <1>5, <2>1, FillHooksThin
<1>7. CalmBook(c2, book')
  BY <1>5, <1>6, ThinnedCalm
<1>8. c2.ord[cur] = c1.ord[cur] /\ book'.ord[cur] = c2.ord[cur]
  BY <1>1, <1>3, <1>5, <1>6 DEF OthersSame, Thinned
<1>9. \A i \in Ids \ {cur, p} : Calm(order(i), book'.ord[i])
  BY <1>3, <1>5, <1>7 DEF OthersSame, CalmBook, order
<1>10. /\ SameOrder(order(p), book'.ord[p]) /\ book'.ord[p].kind = order(p).kind
       /\ book'.ord[p].price = order(p).price /\ book'.ord[p].rem = order(p).rem - q
       /\ book'.ord[p].status \in IF book'.ord[p].rem = 0 THEN {"FILLED"} ELSE {"PARTIAL", "CANCELLED"}
  <2>1. c2.ord[p] \in Order
    BY <1>5 DEF Sound, Book
  <2>2. CASE book'.ord[p] = c2.ord[p]
    BY <1>5, <2>2
  <2>3. CASE /\ c2.ord[p].status \notin Dead
             /\ book'.ord[p] = Withdrawn1(c2.ord[p])
    BY <1>5, <2>1, <2>3 DEF Withdrawn1, Order, Dead, SameOrder
  <2>4. QED
    BY <1>6, <2>2, <2>3 DEF Thinned
<1>11. QED
  BY <1>1, <1>2, <1>3, <1>8, <1>9, <1>10 DEF q

-----------------------------------------------------------------------------
(***************************************************************************)
(* Steps that accept or amend.                                             *)
(***************************************************************************)

\* A new order takes the next id.
LEMMA NewOrderOrders ==
  ASSUME IInv, NEW r \in NewOrders, NewOrder(r)
  PROVE  /\ born + 1 \in Ids /\ order(born + 1).status = "ABSENT" /\ born' = born + 1
         /\ book'.ord = [book.ord EXCEPT ![born + 1] = Accepted(r, "none", 0)]
         /\ book'.live = book.live /\ r \in Request /\ WellFormed(r)
<1>1. /\ born \in 0 .. MaxOrders /\ born + 1 \in Ids /\ book \in Book
      /\ r \in Request /\ WellFormed(r)
  BY MaxOrdersAssumption, RequestsAssumption, GatesAssumption
     DEF IInv, TypeOK, NewOrder, Ids
<1>2. order(born + 1).status = "ABSENT"
  BY <1>1 DEF IInv, Unborn, Ids
<1>3. QED
  BY <1>1, <1>2 DEF NewOrder, Add, Book

\* The legs of a pair take the next two.
LEMMA PairOrders ==
  ASSUME IInv, NEW l \in Request \X Request, NEW bond \in {"oco", "quote"},
         \/ bond = "oco" /\ l \in OcoPairs /\ OcoOrder(l)
         \/ bond = "quote" /\ l \in QuotePairs /\ QuoteNew(l)
  PROVE  LET g == born + 1
         IN  /\ g \in Ids /\ g + 1 \in Ids /\ born' = born + 2
             /\ \A i \in {g, g + 1} : order(i).status = "ABSENT" /\ order(i).bond = "none"
             /\ book'.ord[g] = Accepted(l[1], bond, g)
             /\ book'.ord[g + 1] = Accepted(l[2], bond, g)
             /\ \A i \in Ids \ {g, g + 1} : book'.ord[i] = order(i)
             /\ book'.live = IF bond = "oco" THEN book.live \cup {g}
                                             ELSE book.live \ QuoteOf(l[1].gw)
             /\ WellFormed(l[1]) /\ WellFormed(l[2]) /\ pc = "idle"
<1> DEFINE g == born + 1
           c == AddPair(book, l, bond)
<1>1. WellFormed(l[1]) /\ WellFormed(l[2]) /\ born + 1 < MaxOrders /\ pc = "idle"
  BY GatesAssumption DEF OcoOrder, QuoteNew
<1>2. /\ g \in Ids /\ g + 1 \in Ids /\ g # g + 1 /\ Sound(c) /\ c.live = book.live
      /\ \A i \in {g, g + 1} : order(i).status = "ABSENT" /\ order(i).bond = "none"
      /\ \A i \in Ids \ {g, g + 1} : c.ord[i] = order(i)
  BY <1>1, AddPairSound
<1>3. c.ord[g] = Accepted(l[1], bond, g) /\ c.ord[g + 1] = Accepted(l[2], bond, g)
  BY <1>2 DEF AddPair, Add, IInv, Sound, Book
<1>4. book'.ord = c.ord /\ born' = born + 2
      /\ book'.live = IF bond = "oco" THEN book.live \cup {g} ELSE book.live \ QuoteOf(l[1].gw)
  <2>1. c.live = book.live /\ DOMAIN c = {"ord", "level", "seq", "live"}
    BY <1>2 DEF Sound, Book
  <2>2. \/ bond = "oco" /\ book' = [c EXCEPT !.live = @ \cup {g}]
        \/ bond = "quote" /\ book' = [c EXCEPT !.live = @ \ QuoteOf(l[1].gw)]
    BY DEF OcoOrder, QuoteNew
  <2>3. born' = born + 2
    BY DEF OcoOrder, QuoteNew
  <2> HIDE DEF c
  <2>4. QED
    BY <2>1, <2>2, <2>3
<1>5. QED
  BY <1>1, <1>2, <1>3, <1>4

\* An amend rewrites the price and the size of one resting order, and leaves
\* what is executed alone.
LEMMA AmendOrders ==
  ASSUME IInv, NEW i \in Ids, NEW price \in AmendPrices, NEW qty \in AmendQtys,
         Amend(i, price, qty)
  PROVE  LET o == order(i)
             n == book'.ord[i]
         IN  /\ price \in Prices /\ qty \in Nat /\ qty > o.qty - o.rem
             /\ o.place = "book" /\ o.status \in Working
             /\ OthersSame(book, book', i) /\ book'.live = book.live
             /\ n.side = o.side /\ n.gw = o.gw /\ n.smp = o.smp /\ n.bond = o.bond
             /\ n.group = o.group /\ n.kind = o.kind
             /\ n.price = price /\ n.qty = qty /\ n.rem = qty - (o.qty - o.rem)
             /\ n.status \in Working
             /\ \/ n.place = "book" /\ UNCHANGED dispatch
                \/ n.place = "none" /\ Start(i, 0)
<1> DEFINE b == Amended(book, i, price, qty)
           c == Cancel(b, i)
           d == [c EXCEPT !.ord[i].status = "NEW"]
<1>1. /\ Sound(book) /\ order(i) \in Order /\ OrderSound(order(i))
      /\ order(i).place = "book" /\ order(i).status \in Working
      /\ price \in Prices /\ qty \in Nat /\ qty > order(i).qty - order(i).rem
  BY RequestsAssumption DEF IInv, Amend, Sound, Book, order, OrderSound
<1>2. \/ book' = b /\ UNCHANGED dispatch
      \/ book' = d /\ Start(i, 0)
  BY DEF Amend
<1>3. /\ Sound(b) /\ OthersSame(book, b, i) /\ b.live = book.live
      /\ b.ord[i].place = "book" /\ b.ord[i].status \in Working
  BY <1>1, AmendedSound DEF order
<1>4. /\ b.ord[i].price = price /\ b.ord[i].qty = qty
      /\ b.ord[i].rem = qty - (order(i).qty - order(i).rem)
      /\ b.ord[i].side = order(i).side /\ b.ord[i].gw = order(i).gw
      /\ b.ord[i].smp = order(i).smp /\ b.ord[i].kind = order(i).kind
      /\ b.ord[i].bond = order(i).bond /\ b.ord[i].group = order(i).group
  BY <1>1 DEF Amended, Sound, Book, Order, order
<1> HIDE DEF b
<1>5. /\ Sound(c) /\ OthersSame(b, c, i) /\ c.live = b.live
      /\ c.ord[i] = Withdrawn1(b.ord[i])
  <2>1. c = [b EXCEPT !.ord[i] = Withdrawn1(b.ord[i]), !.level = c.level]
    BY <1>3 DEF Cancel, Withdrawn1, Working, Dead, Sound, Book
  <2>2. Sound(c)
    BY <1>3, CancelThins
  <2> HIDE DEF c
  <2>3. QED
    BY <1>3, <2>1, <2>2 DEF Sound, Book, OthersSame
<1> HIDE DEF c
<1>6. /\ OthersSame(c, d, i) /\ d.live = c.live
      /\ d.ord[i] = [Withdrawn1(b.ord[i]) EXCEPT !.status = "NEW"]
  BY <1>5 DEF Sound, Book, OthersSame
<1>7. b.ord[i] \in Order
  BY <1>3 DEF Sound, Book
<1> HIDE DEF d
<1>8. /\ d.ord[i].place = "none" /\ d.ord[i].status = "NEW"
      /\ SameOrder(b.ord[i], d.ord[i]) /\ d.ord[i].rem = b.ord[i].rem
      /\ d.ord[i].kind = b.ord[i].kind /\ d.ord[i].price = b.ord[i].price
  BY <1>3, <1>6, <1>7 DEF Withdrawn1, Order, SameOrder
<1>9. CASE book' = b /\ UNCHANGED dispatch
  BY <1>1, <1>3, <1>4, <1>9
<1>10. CASE book' = d /\ Start(i, 0)
  <2>1. OthersSame(book, d, i) /\ d.live = book.live
    BY <1>3, <1>5, <1>6 DEF OthersSame
  <2>2. "NEW" \in Working
    BY DEF Working
  <2>3. QED
    BY <1>1, <1>4, <1>8, <1>10, <2>1, <2>2 DEF SameOrder
<1>11. QED
  BY <1>2, <1>9, <1>10

\* Every step is one of these, or calm.
LEMMA StepKinds ==
  ASSUME IInv, Next
  PROVE  \/ \E r \in NewOrders : NewOrder(r)
         \/ \E l \in OcoPairs : OcoOrder(l)
         \/ \E l \in QuotePairs : QuoteNew(l)
         \/ \E i \in Ids, price \in AmendPrices, qty \in AmendQtys : Amend(i, price, qty)
         \/ \E p \in Ids : Trade(p)
         \/ CalmBook(book, book') /\ last' = last
<1>1. ASSUME Message
      PROVE  \/ \E r \in NewOrders : NewOrder(r)
             \/ \E l \in OcoPairs : OcoOrder(l)
             \/ \E l \in QuotePairs : QuoteNew(l)
             \/ \E i \in Ids, price \in AmendPrices, qty \in AmendQtys : Amend(i, price, qty)
             \/ CalmBook(book, book') /\ last' = last
  <2>1. CASE \/ \E gw \in Gateways : QuoteCancel(gw) \/ KillSwitch(gw)
             \/ \E i \in Ids : CancelOrder(i) \/ OcoCancel(i)
             \/ CallPhaseBegins \/ NoMessage
    <3>1. last' = last
      BY <2>1 DEF QuoteCancel, KillSwitch, CancelOrder, OcoCancel, CallPhaseBegins,
                  NoMessage, vars
    <3>2. QED
      BY <2>1, <3>1, MessageCalm
  <2>2. QED
    BY <1>1, <2>1 DEF Message
<1>2. ASSUME EngineStep, ~\E p \in Ids : Trade(p)
      PROVE  CalmBook(book, book') /\ last' = last
  <2>1. CASE DropCancelled \/ RejectImmediate \/ RestUnmatched \/ HandlerRaises
               \/ ArmStop \/ TriggerOnEntry \/ StartSweep \/ RefuseFok
    <3>1. last' = last
      BY <2>1 DEF DropCancelled, RejectImmediate, RestUnmatched, HandlerRaises,
                  ArmStop, TriggerOnEntry, StartSweep, RefuseFok
    <3>2. QED
      BY <2>1, <3>1, ProcessingCalm
  <2>2. CASE \/ Withdraw \/ Withdrawn \/ RefusePull \/ Refused
             \/ \E p \in Ids : SelfMatchPullsResting(p) \/ SelfMatchPullsAggressor(p)
             \/ SweepEnds \/ Settle
             \/ \E i \in Ids : RunStop(i)
             \/ PostSecondLeg \/ DropSecondLeg \/ HandlerReturns
    <3>1. last' = last
      BY <2>2 DEF Withdraw, Withdrawn, RefusePull, Refused, SelfMatchPullsResting,
                  SelfMatchPullsAggressor, SweepEnds, Settle, RunStop, PostSecondLeg,
                  DropSecondLeg, HandlerReturns
    <3>2. QED
      BY <2>2, <3>1, HandlingCalm
  <2>3. QED
    BY <1>2, <2>1, <2>2 DEF EngineStep
<1>3. QED
  BY <1>1, <1>2 DEF Next

\* What is executed only grows in a trade, and only on the two orders traded.
LEMMA OnlyTradesExecute ==
  ASSUME IInv, Next, NEW i \in Ids, Executes(i)
  PROVE  \E p \in Ids : Trade(p) /\ i \in {cur, p}
<1>1. /\ Sound(book) /\ order(i) \in Order /\ order(i).qty \in Nat /\ order(i).rem \in Nat
      /\ order(i).rem <= order(i).qty
  BY DEF IInv, Sound, Book, Order, OrderSound, order
<1>2. ASSUME NEW r \in Request, NEW bond, NEW g, book'.ord[i] = Accepted(r, bond, g)
      PROVE  FALSE
  BY <1>1, <1>2 DEF Accepted, Request, Executes
<1>3. ASSUME book'.ord[i] = order(i)
      PROVE  FALSE
  BY <1>1, <1>3 DEF Executes
<1>4. ASSUME NEW r \in NewOrders, NewOrder(r)
      PROVE  FALSE
  <2>1. /\ r \in Request /\ book.ord \in [Ids -> Order]
        /\ book'.ord = [book.ord EXCEPT ![born + 1] = Accepted(r, "none", 0)]
    BY <1>1, <1>4, NewOrderOrders DEF Sound, Book
  <2>2. book'.ord[i] = Accepted(r, "none", 0) \/ book'.ord[i] = order(i)
    BY <2>1 DEF order
  <2>3. QED
    BY <1>2, <1>3, <2>1, <2>2
<1>5. ASSUME NEW l \in Request \X Request, NEW bond \in {"oco", "quote"},
             \/ bond = "oco" /\ l \in OcoPairs /\ OcoOrder(l)
             \/ bond = "quote" /\ l \in QuotePairs /\ QuoteNew(l)
      PROVE  FALSE
  <2>1. l[1] \in Request /\ l[2] \in Request
    OBVIOUS
  <2>2. QED
    BY <1>2, <1>3, <1>5, <2>1, PairOrders
<1>6. ASSUME NEW j \in Ids, NEW price \in AmendPrices, NEW qty \in AmendQtys,
             Amend(j, price, qty)
      PROVE  FALSE
  <2>1. CASE i = j
    BY <1>1, <1>6, <2>1, AmendOrders DEF Executes
  <2>2. CASE i # j
    BY <1>3, <1>6, <2>2, AmendOrders DEF OthersSame, order
  <2>3. QED
    BY <2>1, <2>2
<1>7. ASSUME Calm(order(i), book'.ord[i])
      PROVE  FALSE
  BY <1>1, <1>7 DEF Calm, SameOrder, Executes
<1>8. ASSUME NEW p \in Ids, Trade(p), i \notin {cur, p}
      PROVE  FALSE
  BY <1>7, <1>8, TradeOrders
<1>9. /\ \A l \in OcoPairs : ~OcoOrder(l)
      /\ \A l \in QuotePairs : ~QuoteNew(l)
  <2>1. OcoPairs \subseteq Request \X Request /\ QuotePairs \subseteq Request \X Request
    BY RequestsAssumption
  <2>2. "oco" \in {"oco", "quote"} /\ "quote" \in {"oco", "quote"}
    OBVIOUS
  <2>3. QED
    BY <1>5, <2>1, <2>2
<1>10. CalmBook(book, book') => FALSE
  BY <1>7 DEF CalmBook, order
<1>11. QED
  BY <1>4, <1>6, <1>8, <1>9, <1>10, StepKinds

-----------------------------------------------------------------------------
(***************************************************************************)
(* The refinement of TradeLedger.                                          *)
(***************************************************************************)

\* An id that has not been given out names an order nobody has seen.
Blank(o) ==
  /\ o.status = "ABSENT" /\ o.side = "BUY" /\ o.kind = "MARKET" /\ o.price = NoPrice
  /\ o.qty = 0 /\ o.rem = 0

\* A stop without a limit has no price, so that becoming a market order changes
\* nothing its owner sees.
Unpriced(o) == o.kind \in {"STOP", "TRAILING_STOP"} => o.price = NoPrice

Seen ==
  /\ \A i \in Ids : i > born => Blank(order(i))
  /\ \A i \in Ids : i <= born => order(i).status # "ABSENT"
  /\ \A i \in Ids : Unpriced(order(i))

LEMMA AcceptedSeen ==
  ASSUME NEW r \in Request, WellFormed(r), NEW bond, NEW g
  PROVE  /\ Unpriced(Accepted(r, bond, g)) /\ Accepted(r, bond, g).status = "NEW"
         /\ View(Accepted(r, bond, g)) \in Ledger!Entry
         /\ View(Accepted(r, bond, g)).state = "open"
         /\ View(Accepted(r, bond, g)).rem = r.qty
         /\ View(Accepted(r, bond, g)).qty = r.qty /\ r.qty > 0
<1>1. /\ r.side \in {"BUY", "SELL"} /\ r.price \in Prices \cup {NoPrice} /\ r.qty \in Nat
      /\ r.qty > 0
  BY DEF Request, Sides, WellFormed
<1>2. Unpriced(Accepted(r, bond, g))
  BY DEF WellFormed, Unpriced, Accepted
<1>3. View(Accepted(r, bond, g)) =
        [state |-> "open", side |-> r.side, limit |-> r.price, qty |-> r.qty, rem |-> r.qty]
  BY DEF View, Accepted, Dead
<1>4. Accepted(r, bond, g).status = "NEW"
  BY DEF Accepted
<1>5. QED
  BY <1>1, <1>2, <1>3, <1>4 DEF Ledger!Entry

LEMMA CalmSeen ==
  ASSUME NEW o, NEW n, Calm(o, n)
  PROVE  /\ Blank(o) => Blank(n)
         /\ Unpriced(o) => Unpriced(n)
         /\ o.status # "ABSENT" => n.status # "ABSENT"
BY DEF Calm, Blank, Unpriced, SameOrder, Working

\* Every step keeps that.
LEMMA SeenStep ==
  ASSUME IInv, Seen, Next
  PROVE  Seen'
<1>1. /\ Sound(book) /\ book.ord \in [Ids -> Order] /\ born \in 0 .. MaxOrders
      /\ \A i \in Ids : order(i) = book.ord[i]
      /\ Ids = 1 .. MaxOrders /\ MaxOrders \in Nat
  BY MaxOrdersAssumption DEF IInv, TypeOK, Sound, Book, order, Ids
<1>2. ASSUME NEW new \in SUBSET Ids,
             \A i \in new : Unpriced(book'.ord[i]) /\ book'.ord[i].status # "ABSENT",
             \A i \in Ids \ new : book'.ord[i] = order(i),
             born' \in Nat, born <= born', \A i \in Ids : i \in new <=> i > born /\ i <= born'
      PROVE  Seen'
  BY <1>1, <1>2 DEF Seen, order
<1>3. ASSUME NEW r \in NewOrders, NewOrder(r)
      PROVE  Seen'
  <2>1. /\ born + 1 \in Ids /\ born' = born + 1
        /\ \A i \in Ids \ {born + 1} : book'.ord[i] = order(i)
        /\ book'.ord[born + 1] = Accepted(r, "none", 0)
        /\ r \in Request /\ WellFormed(r)
    BY <1>1, <1>3, NewOrderOrders
  <2>2. Unpriced(book'.ord[born + 1]) /\ book'.ord[born + 1].status # "ABSENT"
    BY <2>1, AcceptedSeen
  <2>3. born' \in Nat /\ born <= born' /\ \A i \in Ids : i \in {born + 1} <=> i > born /\ i <= born'
    BY <1>1, <2>1
  <2>4. QED
    BY <1>2, <2>1, <2>2, <2>3
<1>4. ASSUME NEW l \in Request \X Request, NEW bond \in {"oco", "quote"},
             \/ bond = "oco" /\ l \in OcoPairs /\ OcoOrder(l)
             \/ bond = "quote" /\ l \in QuotePairs /\ QuoteNew(l)
      PROVE  Seen'
  <2> DEFINE g == born + 1
  <2>1. /\ g \in Ids /\ g + 1 \in Ids /\ born' = born + 2
        /\ book'.ord[g] = Accepted(l[1], bond, g)
        /\ book'.ord[g + 1] = Accepted(l[2], bond, g)
        /\ \A i \in Ids \ {g, g + 1} : book'.ord[i] = order(i)
        /\ WellFormed(l[1]) /\ WellFormed(l[2]) /\ l[1] \in Request /\ l[2] \in Request
    BY <1>4, PairOrders
  <2>2. \A i \in {g, g + 1} : Unpriced(book'.ord[i]) /\ book'.ord[i].status # "ABSENT"
    BY <2>1, AcceptedSeen
  <2>3. born' \in Nat /\ born <= born' /\ \A i \in Ids : i \in {g, g + 1} <=> i > born /\ i <= born'
    BY <1>1, <2>1
  <2>4. QED
    BY <1>2, <2>1, <2>2, <2>3
<1>5. ASSUME born' = born,
             \A i \in Ids : \/ Calm(order(i), book'.ord[i])
                            \/ /\ order(i).status # "ABSENT" /\ book'.ord[i].status # "ABSENT"
                               /\ Unpriced(book'.ord[i])
      PROVE  Seen'
  <2> SUFFICES ASSUME NEW i \in Ids
               PROVE  /\ i > born => Blank(book'.ord[i])
                      /\ i <= born => book'.ord[i].status # "ABSENT"
                      /\ Unpriced(book'.ord[i])
    BY <1>5 DEF Seen, order
  <2>1. /\ i > born => Blank(order(i)) /\ order(i).status = "ABSENT"
        /\ i <= born => order(i).status # "ABSENT"
        /\ Unpriced(order(i))
    BY DEF Seen, Blank
  <2>2. CASE Calm(order(i), book'.ord[i])
    BY <2>1, <2>2, CalmSeen
  <2>3. QED
    BY <1>5, <2>1, <2>2
<1>6. ASSUME NEW i \in Ids, NEW price \in AmendPrices, NEW qty \in AmendQtys,
             Amend(i, price, qty)
      PROVE  Seen'
  <2>1. /\ OthersSame(book, book', i) /\ book'.ord[i].kind = order(i).kind
        /\ order(i).place = "book" /\ order(i).status \in Working
        /\ book'.ord[i].status \in Working /\ born' = born
    BY <1>6, AmendOrders DEF Amend
  <2>2. OrderSound(order(i))
    BY <1>1 DEF Sound
  <2>3. Unpriced(book'.ord[i])
    BY <2>1, <2>2 DEF OrderSound, Restable, Unpriced
  <2>4. \A j \in Ids \ {i} : Calm(order(j), book'.ord[j])
    BY <1>1, <2>1 DEF OthersSame, Calm, SameOrder
  <2>5. QED
    BY <1>5, <2>1, <2>3, <2>4 DEF Working
<1>7. ASSUME NEW p \in Ids, Trade(p)
      PROVE  Seen'
  <2>1. /\ \A i \in Ids \ {cur, p} : Calm(order(i), book'.ord[i])
        /\ \A i \in {cur, p} : /\ i \in Ids /\ book'.ord[i].kind = order(i).kind
                               /\ book'.ord[i].price = order(i).price
                               /\ book'.ord[i].status \in {"FILLED", "PARTIAL", "CANCELLED"}
        /\ born' = born
    BY <1>7, TradeOrders DEF Trade
  <2>2. order(cur).status \in Working /\ order(p).status \in Working
    BY <1>7, FacingFacts DEF Trade, OrderSound
  <2>3. \A i \in {cur, p} : /\ order(i).status # "ABSENT" /\ book'.ord[i].status # "ABSENT"
                            /\ Unpriced(book'.ord[i])
    BY <2>1, <2>2 DEF Seen, Unpriced, Working
  <2>4. QED
    BY <1>5, <2>1, <2>3
<1>8. ASSUME CalmBook(book, book'), born' = born
      PROVE  Seen'
  BY <1>1, <1>5, <1>8 DEF CalmBook
<1>9. \/ \E r \in NewOrders : NewOrder(r)
      \/ \E l \in OcoPairs : OcoOrder(l)
      \/ \E l \in QuotePairs : QuoteNew(l)
      \/ born' = born
  BY DEF Next, Message, QuoteCancel, KillSwitch, CancelOrder, OcoCancel, Amend,
         CallPhaseBegins, NoMessage, vars, EngineStep, Withdraw, Withdrawn,
         DropCancelled, RejectImmediate, RestUnmatched, HandlerRaises, ArmStop,
         TriggerOnEntry, StartSweep, RefuseFok, RefusePull, Refused, Trade,
         SelfMatchPullsResting, SelfMatchPullsAggressor, SweepEnds, Settle, RunStop,
         PostSecondLeg, DropSecondLeg, HandlerReturns
<1>10. /\ \A l \in OcoPairs : OcoOrder(l) => Seen'
       /\ \A l \in QuotePairs : QuoteNew(l) => Seen'
  <2>1. OcoPairs \subseteq Request \X Request /\ QuotePairs \subseteq Request \X Request
    BY RequestsAssumption
  <2>2. "oco" \in {"oco", "quote"} /\ "quote" \in {"oco", "quote"}
    OBVIOUS
  <2>3. QED
    BY <1>4, <2>1, <2>2
<1>11. QED
  BY <1>3, <1>6, <1>7, <1>8, <1>9, <1>10, StepKinds

\* What an owner sees of an order.
LEMMA ViewIs ==
  ASSUME NEW o \in Order
  PROVE  /\ View(o).side = o.side /\ View(o).limit = o.price
         /\ View(o).qty = o.qty /\ View(o).rem = o.rem
         /\ View(o).state = "open" <=> o.status \in Working
         /\ View(o).state = "ended" <=> o.status \in Dead
         /\ View(o).state = "absent" <=> o.status = "ABSENT"
         /\ DOMAIN View(o) = {"state", "side", "limit", "qty", "rem"}
         /\ View(o) = [state |-> View(o).state, side |-> o.side, limit |-> o.price,
                       qty |-> o.qty, rem |-> o.rem]
BY DEF View, Order, Working, Dead

\* Calm changes nothing an owner sees, but the end of an open order.
LEMMA ViewCalm ==
  ASSUME NEW o \in Order, NEW n \in Order, Calm(o, n), Unpriced(o)
  PROVE  \/ View(n) = View(o)
         \/ View(o).state = "open" /\ View(n) = Ledger!Ended(View(o))
<1>1. n.side = o.side /\ n.price = o.price /\ n.qty = o.qty /\ n.rem = o.rem
  BY DEF Calm, SameOrder, Unpriced
<1>2. CASE View(n).state = View(o).state
  BY <1>1, <1>2, ViewIs
<1>3. CASE View(n).state # View(o).state
  <2>1. o.status \in Working /\ n.status \in Dead
    BY <1>3, ViewIs DEF Calm, Order, Working, Dead
  <2>2. View(o).state = "open" /\ View(n).state = "ended"
    BY <2>1, ViewIs
  <2>3. View(n) = Ledger!Ended(View(o))
    BY <1>1, <2>2, ViewIs DEF Ledger!Ended
  <2>4. QED
    BY <2>2, <2>3
<1>4. QED
  BY <1>2, <1>3

\* The ledger before and after a step.
L0 == [i \in Ids |-> View(order(i))]

LEMMA LedgerTyped ==
  ASSUME IInv, IInv'
  PROVE  \A i \in Ids : /\ order(i) \in Order /\ book'.ord[i] \in Order
                        /\ L0[i] = View(order(i)) /\ L0'[i] = View(book'.ord[i])
BY DEF IInv, Sound, Book, order, L0

\* A message that accepts orders enters them whole.
LEMMA AcceptSimulated ==
  ASSUME IInv, IInv', Seen, NEW new \in SUBSET Ids, new # {},
         \A i \in new : /\ order(i).status = "ABSENT"
                        /\ \E r \in Request, bond \in Bonds, g \in 0 .. MaxOrders :
                             WellFormed(r) /\ book'.ord[i] = Accepted(r, bond, g),
         \A i \in Ids \ new : book'.ord[i] = order(i),
         last' = last
  PROVE  Ledger!Next
<1>1. \A i \in Ids : /\ order(i) \in Order /\ book'.ord[i] \in Order
                     /\ L0[i] = View(order(i)) /\ L0'[i] = View(book'.ord[i])
  BY LedgerTyped
<1>2. ASSUME NEW i \in new
      PROVE  /\ L0[i] = Ledger!Absent /\ L0'[i] \in Ledger!Entry
             /\ L0'[i].state = "open" /\ L0'[i].rem = L0'[i].qty /\ L0'[i].qty > 0
             /\ i \notin Ledger!Open
  <2>1. Blank(order(i))
    BY DEF Seen, IInv, TypeOK, Ids
  <2>2. View(order(i)) = Ledger!Absent
    BY <1>1, <2>1, ViewIs DEF Blank, Ledger!Absent
  <2>3. L0'[i] \in Ledger!Entry /\ L0'[i].state = "open" /\ L0'[i].rem = L0'[i].qty
        /\ L0'[i].qty > 0
    BY <1>1, AcceptedSeen
  <2>4. i \notin Ledger!Open
    BY <2>1, <1>1, ViewIs DEF Ledger!Open, Blank, L0, Working
  <2>5. QED
    BY <1>1, <2>2, <2>3, <2>4
<1>3. \A i \in Ids \ new : L0'[i] = L0[i]
  BY <1>1
<1>4. Ledger!Accept(new)
  BY <1>2, <1>3 DEF Ledger!Accept, L0
<1>5. new \in SUBSET (Ids \ Ledger!Open)
  BY <1>2
<1>6. QED
  BY <1>4, <1>5 DEF Ledger!Next

\* An amend as its owner sees it.
LEMMA ViewAmended ==
  ASSUME NEW o \in Order, NEW n \in Order, o.status \in Working, n.status \in Working,
         NEW price, NEW qty, n.side = o.side, n.price = price, n.qty = qty,
         n.rem = qty - (o.qty - o.rem)
  PROVE  View(n) = Ledger!Resized(View(o), price, qty)
<1>1. /\ View(o) = [state |-> "open", side |-> o.side, limit |-> o.price,
                    qty |-> o.qty, rem |-> o.rem]
      /\ View(n) = [state |-> "open", side |-> o.side, limit |-> price,
                    qty |-> qty, rem |-> qty - (o.qty - o.rem)]
  BY ViewIs
<1>2. QED
  BY <1>1 DEF Ledger!Resized

\* An owner's amend.
LEMMA AmendSimulated ==
  ASSUME IInv, IInv', NEW i \in Ids, NEW price \in AmendPrices, NEW qty \in AmendQtys,
         Amend(i, price, qty)
  PROVE  Ledger!Next
<1>1. \A j \in Ids : /\ order(j) \in Order /\ book'.ord[j] \in Order
                     /\ L0[j] = View(order(j)) /\ L0'[j] = View(book'.ord[j])
  BY LedgerTyped
<1>2. /\ price \in Prices /\ qty > order(i).qty - order(i).rem
      /\ order(i).status \in Working /\ book'.ord[i].status \in Working
      /\ book'.ord[i].side = order(i).side /\ book'.ord[i].price = price
      /\ book'.ord[i].qty = qty /\ book'.ord[i].rem = qty - (order(i).qty - order(i).rem)
      /\ \A j \in Ids \ {i} : book'.ord[j] = order(j)
      /\ last' = last
  BY AmendOrders DEF OthersSame, order, Amend
<1>3. /\ L0[i].qty = order(i).qty /\ L0[i].rem = order(i).rem /\ L0[i].state = "open"
      /\ L0[i].side = order(i).side /\ L0'[i].qty = qty
  BY <1>1, <1>2, ViewIs
<1>4. L0'[i] = Ledger!Resized(L0[i], price, qty)
  BY <1>1, <1>2, ViewAmended
<1>5. L0' = [L0 EXCEPT ![i] = Ledger!Resized(L0[i], price, qty)]
  <2>1. \A j \in Ids \ {i} : L0'[j] = L0[j]
    BY <1>1, <1>2
  <2>2. L0 = [j \in Ids |-> L0[j]] /\ L0' = [j \in Ids |-> L0'[j]]
    BY DEF L0
  <2>3. QED
    BY <1>4, <2>1, <2>2
<1>6. Ledger!Amend(i)
  <2>1. L0'[i].qty = qty /\ qty > L0[i].qty - L0[i].rem
    BY <1>2, <1>3
  <2>2. QED
    BY <1>2, <1>5, <2>1 DEF Ledger!Amend, L0
<1>7. i \in Ledger!Open
  BY <1>3 DEF Ledger!Open, L0
<1>8. QED
  BY <1>6, <1>7 DEF Ledger!Next

\* Cancels, rejects and conversions.
LEMMA CalmSimulated ==
  ASSUME IInv, IInv', Seen, CalmBook(book, book'), last' = last
  PROVE  Ledger!Next \/ UNCHANGED <<L0, last>>
<1>1. \A j \in Ids : /\ order(j) \in Order /\ book'.ord[j] \in Order
                     /\ L0[j] = View(order(j)) /\ L0'[j] = View(book'.ord[j])
  BY LedgerTyped
<1> DEFINE gone == {i \in Ids : L0'[i] # L0[i]}
<1>2. \A i \in Ids : \/ L0'[i] = L0[i]
                     \/ L0[i].state = "open" /\ L0'[i] = Ledger!Ended(L0[i])
  BY <1>1, ViewCalm DEF CalmBook, order, Seen
<1>3. L0' = [i \in Ids |-> IF i \in gone THEN Ledger!Ended(L0[i]) ELSE L0[i]]
  <2>1. DOMAIN L0' = Ids /\ L0' = [i \in Ids |-> L0'[i]]
    BY DEF L0
  <2>2. \A i \in Ids : L0'[i] = IF i \in gone THEN Ledger!Ended(L0[i]) ELSE L0[i]
    BY <1>2
  <2>3. QED
    BY <2>1, <2>2
<1>4. gone \in SUBSET Ledger!Open
  BY <1>2 DEF Ledger!Open, L0
<1>5. CASE gone = {}
  <2>1. \A i \in Ids : L0'[i] = L0[i]
    BY <1>5
  <2>2. L0' = L0
    BY <2>1 DEF L0
  <2>3. QED
    BY <2>2
<1>6. CASE gone # {}
  <2> HIDE DEF gone
  <2>1. Ledger!End(gone)
    BY <1>3, <1>6 DEF Ledger!End, L0
  <2>2. QED
    BY <1>4, <2>1 DEF Ledger!Next
<1>7. QED
  BY <1>5, <1>6

\* A traded order as its owner sees it; what is left may be withdrawn.
LEMMA ViewTraded ==
  ASSUME NEW o \in Order, NEW n \in Order, NEW q \in Nat, o.status \in Working,
         SameOrder(o, n), n.price = o.price, n.rem = o.rem - q
  PROVE  /\ n.status = (IF n.rem = 0 THEN "FILLED" ELSE "PARTIAL")
              => View(n) = Ledger!Traded(View(o), q)
         /\ n.rem # 0 /\ n.status = "CANCELLED"
              => View(n) = Ledger!Ended(Ledger!Traded(View(o), q))
<1>1. /\ View(o) = [state |-> "open", side |-> o.side, limit |-> o.price,
                    qty |-> o.qty, rem |-> o.rem]
      /\ View(n) = [state |-> View(n).state, side |-> o.side, limit |-> o.price,
                    qty |-> o.qty, rem |-> o.rem - q]
  BY ViewIs DEF SameOrder
<1>2. o.rem \in Nat /\ n.rem \in Nat /\ (n.rem = 0 <=> o.rem = q)
  BY DEF Order
<1>3. /\ n.status = "FILLED" => View(n).state = "ended"
      /\ n.status = "PARTIAL" => View(n).state = "open"
      /\ n.status = "CANCELLED" => View(n).state = "ended"
  BY ViewIs DEF Working, Dead
<1>4. Ledger!Traded(View(o), q) =
        [state |-> IF o.rem = q THEN "ended" ELSE "open", side |-> o.side,
         limit |-> o.price, qty |-> o.qty, rem |-> o.rem - q]
  BY <1>1 DEF Ledger!Traded
<1>5. Ledger!Ended(Ledger!Traded(View(o), q)) =
        [state |-> "ended", side |-> o.side,
         limit |-> o.price, qty |-> o.qty, rem |-> o.rem - q]
  BY <1>4 DEF Ledger!Ended
<1>6. QED
  BY <1>1, <1>2, <1>3, <1>4, <1>5

\* A trade.
LEMMA TradeSimulated ==
  ASSUME IInv, IInv', Seen, NEW p \in Ids, Trade(p)
  PROVE  Ledger!Next
<1>1. \A j \in Ids : /\ order(j) \in Order /\ book'.ord[j] \in Order
                     /\ L0[j] = View(order(j)) /\ L0'[j] = View(book'.ord[j])
  BY LedgerTyped
<1> DEFINE q == FillQty(book, cur, p)
           e(i) == IF i \in {cur, p} THEN Ledger!Traded(L0[i], q) ELSE L0[i]
           gone == {i \in Ids : L0'[i] # e(i)}
<1>2. /\ cur \in Ids /\ cur # p /\ order(cur).status \in Working /\ order(p).status \in Working
      /\ order(p).kind \in Restable /\ OrderSound(order(p))
  BY FacingFacts DEF Trade, OrderSound
<1>3. /\ q \in 1 .. order(cur).rem /\ q \in Nat /\ q <= order(p).rem
      /\ \A i \in {cur, p} :
           /\ SameOrder(order(i), book'.ord[i])
           /\ book'.ord[i].price = order(i).price /\ book'.ord[i].rem = order(i).rem - q
      /\ book'.ord[cur].status = (IF book'.ord[cur].rem = 0 THEN "FILLED" ELSE "PARTIAL")
      /\ book'.ord[p].status \in IF book'.ord[p].rem = 0 THEN {"FILLED"} ELSE {"PARTIAL", "CANCELLED"}
      /\ \A i \in Ids \ {cur, p} : Calm(order(i), book'.ord[i])
  BY <1>2, TradeOrders
<1> HIDE DEF q
<1>4. L0'[cur] = e(cur)
  <2>1. View(book'.ord[cur]) = Ledger!Traded(View(order(cur)), q)
    BY <1>1, <1>2, <1>3, ViewTraded
  <2>2. QED
    BY <1>1, <1>2, <2>1
<1>5. L0'[p] = e(p) \/ L0'[p] = Ledger!Ended(e(p))
  <2>1. \/ View(book'.ord[p]) = Ledger!Traded(View(order(p)), q)
        \/ View(book'.ord[p]) = Ledger!Ended(Ledger!Traded(View(order(p)), q))
    BY <1>1, <1>2, <1>3, ViewTraded
  <2>2. QED
    BY <1>1, <1>2, <2>1
<1>6. ASSUME NEW i \in Ids \ {cur, p}
      PROVE  \/ L0'[i] = L0[i]
             \/ L0[i].state = "open" /\ L0'[i] = Ledger!Ended(L0[i])
  <2>1. Calm(order(i), book'.ord[i]) /\ Unpriced(order(i))
    BY <1>3 DEF Seen
  <2>2. order(i) \in Order /\ book'.ord[i] \in Order
        /\ L0[i] = View(order(i)) /\ L0'[i] = View(book'.ord[i])
    BY <1>1
  <2>3. \/ View(book'.ord[i]) = View(order(i))
        \/ /\ View(order(i)).state = "open"
           /\ View(book'.ord[i]) = Ledger!Ended(View(order(i)))
    BY <2>1, <2>2, ViewCalm
  <2>4. QED
    BY <2>2, <2>3
<1>7. L0[cur].state = "open" /\ L0[p].state = "open"
  BY <1>1, <1>2, ViewIs
<1>8. gone \in SUBSET Ledger!Open
  BY <1>1, <1>4, <1>6, <1>7 DEF Ledger!Open, L0
<1>9. \A i \in Ids : L0'[i] = IF i \in gone THEN Ledger!Ended(e(i)) ELSE e(i)
  BY <1>4, <1>5, <1>6
<1>10. L0' = [i \in Ids |-> IF i \in gone THEN Ledger!Ended(e(i)) ELSE e(i)]
  <2> HIDE DEF gone, e
  <2>1. L0' = [i \in Ids |-> L0'[i]]
    BY DEF L0
  <2>2. QED
    BY <1>9, <2>1
<1>11. /\ last' \in Prices /\ last' = order(p).price
       /\ order(p).side = Opposite(order(cur).side)
       /\ Within(order(cur).side, order(cur).price, order(p).price)
  BY <1>2 DEF Trade, Facing, IsBest, Matchable, Resting, order, OrderSound, Restable
<1>12. /\ L0[cur].rem = order(cur).rem /\ L0[p].rem = order(p).rem
       /\ L0[cur].limit = order(cur).price /\ L0[p].limit = order(p).price
       /\ L0[cur].side = order(cur).side /\ L0[p].side = order(p).side
       /\ order(cur).rem \in Nat /\ order(p).rem \in Nat
  BY <1>1, <1>2, ViewIs DEF Order
<1>13. ASSUME NEW b \in Ids, NEW s \in Ids, {b, s} = {cur, p}, b # s,
              L0[b].side = "BUY", L0[s].side = "SELL"
       PROVE  Ledger!Trade(b, s, q, last', gone)
  <2>1. \A i \in Ids : e(i) = IF i \in {b, s} THEN Ledger!Traded(L0[i], q) ELSE L0[i]
    BY <1>13
  <2>2. q \in 1 .. L0[b].rem /\ q <= L0[s].rem
    <3>1. q \in 1 .. L0[cur].rem /\ q \in 1 .. L0[p].rem
      BY <1>3, <1>12
    <3>2. q <= L0[cur].rem /\ q <= L0[p].rem
      BY <1>12, <3>1
    <3>3. b \in {cur, p} /\ s \in {cur, p}
      BY <1>13
    <3>4. QED
      BY <3>1, <3>2, <3>3
  <2>3. Ledger!PriceFor(b, s, last')
    <3>1. last' \in Nat /\ last' # NoPrice
      BY <1>11, PricesAssumption
    <3>2. /\ L0[b].limit = NoPrice \/ last' <= L0[b].limit
          /\ L0[s].limit = NoPrice \/ last' >= L0[s].limit
          /\ last' \in {L0[b].limit, L0[s].limit}
      <4>1. CASE b = cur /\ s = p
        BY <1>11, <1>12, <1>13, <3>1, <4>1 DEF Within
      <4>2. CASE b = p /\ s = cur
        BY <1>11, <1>12, <1>13, <3>1, <4>2 DEF Within
      <4>3. QED
        BY <1>13, <4>1, <4>2
    <3>3. QED
      BY <3>2 DEF Ledger!PriceFor, L0
  <2>4. L0' = [i \in Ids |->
                 LET x == IF i \in {b, s} THEN Ledger!Traded(L0[i], q) ELSE L0[i]
                 IN  IF i \in gone THEN Ledger!Ended(x) ELSE x]
    <3> HIDE DEF gone
    <3>1. QED
      BY <1>10, <2>1
  <2> HIDE DEF gone, e
  <2>5. QED
    BY <1>13, <2>2, <2>3, <2>4 DEF Ledger!Trade, L0
<1>14. PICK b \in Ids, s \in Ids : /\ {b, s} = {cur, p} /\ b # s
                                   /\ L0[b].side = "BUY" /\ L0[s].side = "SELL"
  <2>1. order(cur).side \in {"BUY", "SELL"}
    BY <1>1, <1>2 DEF Order, Sides
  <2>2. CASE order(cur).side = "BUY"
    <3>1. L0[cur].side = "BUY" /\ L0[p].side = "SELL"
      BY <1>11, <1>12, <2>2 DEF Opposite
    <3>2. QED
      BY <1>2, <3>1
  <2>3. CASE order(cur).side = "SELL"
    <3>1. L0[cur].side = "SELL" /\ L0[p].side = "BUY"
      BY <1>11, <1>12, <2>3 DEF Opposite
    <3>2. QED
      BY <1>2, <3>1
  <2>4. QED
    BY <2>1, <2>2, <2>3
<1>15. Ledger!Trade(b, s, q, last', gone) /\ b \in Ledger!Open /\ s \in Ledger!Open
       /\ q \in 1 .. L0[b].rem
  <2>1. Ledger!Trade(b, s, q, last', gone)
    BY <1>13, <1>14
  <2>2. b \in Ledger!Open /\ s \in Ledger!Open
    BY <1>7, <1>14 DEF Ledger!Open, L0
  <2>3. q \in 1 .. L0[b].rem
    BY <1>3, <1>12, <1>14
  <2>4. QED
    BY <2>1, <2>2, <2>3
<1> HIDE DEF gone
<1>16. QED
  BY <1>8, <1>11, <1>15 DEF Ledger!Next, L0

-----------------------------------------------------------------------------
(***************************************************************************)
(* The refinement.                                                         *)
(***************************************************************************)
LEMMA NewOrderSimulated ==
  ASSUME IInv, IInv', Seen, NEW r \in NewOrders, NewOrder(r)
  PROVE  Ledger!Next
<1>1. /\ born + 1 \in Ids /\ order(born + 1).status = "ABSENT"
      /\ book'.ord = [book.ord EXCEPT ![born + 1] = Accepted(r, "none", 0)]
      /\ r \in Request /\ WellFormed(r)
  BY NewOrderOrders
<1>2. last' = last /\ book.ord \in [Ids -> Order]
  BY DEF NewOrder, IInv, Sound, Book
<1>3. "none" \in Bonds /\ 0 \in 0 .. MaxOrders
  BY MaxOrdersAssumption DEF Bonds
<1>4. /\ book'.ord[born + 1] = Accepted(r, "none", 0)
      /\ \A i \in Ids \ {born + 1} : book'.ord[i] = order(i)
  BY <1>1, <1>2 DEF order
<1>5. {born + 1} \in SUBSET Ids /\ {born + 1} # {}
  BY <1>1
<1>6. \A i \in {born + 1} :
        /\ order(i).status = "ABSENT"
        /\ \E x \in Request, bond \in Bonds, g \in 0 .. MaxOrders :
             WellFormed(x) /\ book'.ord[i] = Accepted(x, bond, g)
  BY <1>1, <1>3, <1>4
<1>7. QED
  BY <1>2, <1>4, <1>5, <1>6, AcceptSimulated

LEMMA PairSimulated ==
  ASSUME IInv, IInv', Seen, NEW l \in Request \X Request, NEW bond \in {"oco", "quote"},
         \/ bond = "oco" /\ l \in OcoPairs /\ OcoOrder(l)
         \/ bond = "quote" /\ l \in QuotePairs /\ QuoteNew(l)
  PROVE  Ledger!Next
<1> DEFINE g == born + 1
           new == {g, g + 1}
<1>1. /\ g \in Ids /\ g + 1 \in Ids
      /\ \A i \in new : order(i).status = "ABSENT"
      /\ book'.ord[g] = Accepted(l[1], bond, g)
      /\ book'.ord[g + 1] = Accepted(l[2], bond, g)
      /\ \A i \in Ids \ new : book'.ord[i] = order(i)
      /\ WellFormed(l[1]) /\ WellFormed(l[2])
  BY PairOrders
<1>2. last' = last
  BY DEF OcoOrder, QuoteNew
<1>3. bond \in Bonds /\ g \in 0 .. MaxOrders /\ l[1] \in Request /\ l[2] \in Request
  BY <1>1, MaxOrdersAssumption DEF Bonds, Ids
<1>4. new \in SUBSET Ids /\ new # {}
  BY <1>1
<1>5. \A i \in new : /\ order(i).status = "ABSENT"
                     /\ \E x \in Request, y \in Bonds, z \in 0 .. MaxOrders :
                          WellFormed(x) /\ book'.ord[i] = Accepted(x, y, z)
  BY <1>1, <1>3
<1> HIDE DEF new
<1>6. QED
  BY <1>1, <1>2, <1>4, <1>5, AcceptSimulated

\* Every step of the engine is a step of the ledger or leaves it alone.
LEMMA LedgerStep ==
  ASSUME IInv, IInv', Seen, [Next]_vars
  PROVE  Ledger!Next \/ UNCHANGED <<L0, last>>
<1>1. CASE UNCHANGED vars
  BY <1>1 DEF vars, L0, order
<1>2. CASE Next
  <2>1. ASSUME NEW l \in OcoPairs, OcoOrder(l) PROVE Ledger!Next
    <3>1. l \in Request \X Request /\ "oco" \in {"oco", "quote"}
      BY RequestsAssumption
    <3>2. QED
      BY <2>1, <3>1, PairSimulated
  <2>2. ASSUME NEW l \in QuotePairs, QuoteNew(l) PROVE Ledger!Next
    <3>1. l \in Request \X Request /\ "quote" \in {"oco", "quote"}
      BY RequestsAssumption
    <3>2. QED
      BY <2>2, <3>1, PairSimulated
  <2>3. QED
    BY <1>2, <2>1, <2>2, StepKinds, NewOrderSimulated, AmendSimulated, TradeSimulated,
       CalmSimulated
<1>3. QED
  BY <1>1, <1>2

LEMMA SeenInit ==
  ASSUME Init
  PROVE  Seen /\ Ledger!Init
<1>1. \A i \in Ids : order(i) = Absent
  BY DEF Init, order
<1>2. Seen
  <2>1. born = 0
    BY DEF Init
  <2>2. \A i \in Ids : i > 0
    BY MaxOrdersAssumption DEF Ids
  <2>3. Blank(Absent) /\ Unpriced(Absent)
    BY DEF Blank, Unpriced, Absent
  <2>4. QED
    BY <1>1, <2>1, <2>2, <2>3 DEF Seen, Ids
<1>3. View(Absent) = Ledger!Absent
  BY DEF View, Absent, Ledger!Absent, Dead
<1>4. last \in Prices \cup {NoPrice}
  BY RequestsAssumption DEF Init
<1>5. QED
  BY <1>1, <1>2, <1>3, <1>4 DEF Ledger!Init

\* The matching engine keeps the promises of the trade ledger: whatever the
\* handlers, hooks, sweeps and cascades do, orders enter whole, a trade is
\* between one open buy and one open sell for the same quantity at a price
\* that each of them allows, and an ended order never changes again.
THEOREM LedgerRefined == Spec => LedgerSpec
<1>1. Init => Seen /\ Ledger!Init
  BY SeenInit
<1>2. Seen /\ IInv /\ [Next]_vars => Seen'
  <2>1. ASSUME Seen, UNCHANGED vars PROVE Seen'
    BY <2>1 DEF Seen, vars, order
  <2>2. QED
    BY <2>1, SeenStep
<1>3. Seen /\ IInv /\ IInv' /\ [Next]_vars => [Ledger!Next]_<<L0, last>>
  BY LedgerStep
<1>4. [Ledger!Next]_<<L0, last>>
        <=> [Ledger!Next]_<<[i \in Ids |-> View(order(i))], last>>
  BY DEF L0
<1>5. QED
  BY <1>1, <1>2, <1>3, <1>4, Invariance, PTL DEF Spec, LedgerSpec, Ledger!Spec
=============================================================================
