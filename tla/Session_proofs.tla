---------------------------- MODULE Session_proofs ----------------------------
(***************************************************************************)
(* Theorems about the trading day: the invariant of the book and of the    *)
(* uncross through halts, transitions and expiries; what outlives its      *)
(* phase; and what trades in a halt.                                       *)
(*                                                                         *)
(* Beside the messages of OrderBook and the uncross of Auction, a step of  *)
(* the day only takes orders out of the book in one piece (a halt and the  *)
(* quotes, a transition and what expires); Trimmed says so.                *)
(***************************************************************************)
EXTENDS Session, Auction_proofs

-----------------------------------------------------------------------------
(***************************************************************************)
(* Orders that leave together.                                             *)
(***************************************************************************)
Ended(o, how) == [o EXCEPT !.status = how, !.place = "none"]

\* Book c is b without some of the orders it held.
Trimmed(b, c) ==
  /\ c.seq = b.seq /\ c.live \subseteq b.live
  /\ \A i \in Ids :
       \/ c.ord[i] = b.ord[i]
       \/ /\ b.ord[i].place \in Held
          /\ \E how \in {"CANCELLED", "EXPIRED"} : c.ord[i] = Ended(b.ord[i], how)

LEMMA EndedSound ==
  ASSUME NEW o \in Order, OrderSound(o), NEW how \in {"CANCELLED", "EXPIRED"}
  PROVE  LET n == Ended(o, how)
         IN  /\ n \in Order /\ OrderSound(n) /\ SameTies(o, n)
             /\ n.status = how /\ n.place = "none"
             /\ n.qty = o.qty /\ n.rem = o.rem /\ n.kind = o.kind
BY DEF Ended, Order, OrderSound, SameTies, Dead, Working, Places

LEMMA TrimmedTransitive ==
  ASSUME NEW b, NEW c, NEW d, Sound(b), Trimmed(b, c), Trimmed(c, d)
  PROVE  Trimmed(b, d)
<1>1. ASSUME NEW i \in Ids
      PROVE  \/ d.ord[i] = b.ord[i]
             \/ /\ b.ord[i].place \in Held
                /\ \E how \in {"CANCELLED", "EXPIRED"} : d.ord[i] = Ended(b.ord[i], how)
  <2>1. CASE c.ord[i] = b.ord[i]
    BY <2>1 DEF Trimmed
  <2>2. CASE c.ord[i] # b.ord[i]
    <3>1. PICK how \in {"CANCELLED", "EXPIRED"} : c.ord[i] = Ended(b.ord[i], how)
      BY <2>2 DEF Trimmed
    <3>2. c.ord[i].place = "none"
      BY <3>1, EndedSound DEF Sound, Book
    <3>3. d.ord[i] = c.ord[i]
      BY <3>2 DEF Trimmed, Held
    <3>4. QED
      BY <2>2, <3>3 DEF Trimmed
  <2>3. QED
    BY <2>1, <2>2
<1>2. QED
  BY <1>1 DEF Trimmed

\* The shares that leave are counted by the index they leave.
LEMMA SharesLeave ==
  ASSUME NEW b, Sound(b), NEW S \in SUBSET Ids, NEW s, NEW p
  PROVE  /\ SharesOf(b, S, s, p) = Shares(b, S, s, p)
         /\ IsFiniteSet(SharesOf(b, S, s, p))
         /\ Cardinality(SharesOf(b, S, s, p)) \in Nat
<1>1. SharesOf(b, S, s, p) \subseteq Shares(b, S, s, p)
  BY DEF SharesOf, Shares, Share, Resting
<1>2. Shares(b, S, s, p) \subseteq SharesOf(b, S, s, p)
  <2>1. ASSUME NEW x \in Shares(b, S, s, p)
        PROVE  x \in SharesOf(b, S, s, p)
    <3>1. PICK j \in S : x \in {j} \X (1 .. Share(b.ord[j], s, p))
      BY DEF Shares
    <3>2. Share(b.ord[j], s, p) # 0
      BY <3>1
    <3>3. j \in S \cap Resting(b, s) /\ b.ord[j].price = p /\ Share(b.ord[j], s, p) = Slice(b.ord[j])
      BY <3>2 DEF Share, Resting
    <3>4. QED
      BY <3>1, <3>3 DEF SharesOf
  <2>2. QED
    BY <2>1
<1>3. IsFiniteSet(Shares(b, S, s, p))
  BY RestFinite
<1>4. SharesOf(b, S, s, p) = Shares(b, S, s, p)
  BY <1>1, <1>2
<1>5. Cardinality(Shares(b, S, s, p)) \in Nat
  BY <1>3, FS_CardinalityType
<1>6. QED
  BY <1>3, <1>4, <1>5

LEMMA LeaveTrims ==
  ASSUME NEW b, Sound(b), NEW S \in SUBSET Ids, \A i \in S : b.ord[i].place \in Held,
         NEW how \in {"CANCELLED", "EXPIRED"}
  PROVE  LET c == Leave(b, S, how)
         IN  /\ Sound(c) /\ Trimmed(b, c) /\ c.live = b.live
             /\ \A i \in S : c.ord[i] = Ended(b.ord[i], how)
             /\ \A i \in Ids \ S : c.ord[i] = b.ord[i]
<1> DEFINE c == Leave(b, S, how)
           ord == [i \in Ids |-> IF i \in S THEN Ended(b.ord[i], how) ELSE b.ord[i]]
           lvl == [s \in Sides |-> [p \in Prices |->
                     Minus(b.level[s][p], Cardinality(SharesOf(b, S, s, p)))]]
<1>1. b = [ord |-> b.ord, level |-> b.level, seq |-> b.seq, live |-> b.live]
      /\ b.seq \in Nat /\ b.live \in SUBSET Ids
  BY DEF Sound, Book
<1>2. c = [ord |-> ord, level |-> lvl, seq |-> b.seq, live |-> b.live]
  <2>1. c = [b EXCEPT !.ord = ord, !.level = lvl]
    BY DEF Leave, Ended
  <2> HIDE DEF c, ord, lvl
  <2>2. QED
    BY <1>1, <2>1
<1>3. ASSUME NEW i \in Ids
      PROVE  /\ b.ord[i] \in Order /\ OrderSound(b.ord[i])
             /\ Ended(b.ord[i], how) \in Order /\ OrderSound(Ended(b.ord[i], how))
             /\ SameTies(b.ord[i], Ended(b.ord[i], how))
  BY EndedSound DEF Sound, Book
<1>4. ord \in [Ids -> Order]
  BY <1>3
<1>5. lvl \in Levels
  <2>1. ASSUME NEW s \in Sides, NEW p \in Prices
        PROVE  Minus(b.level[s][p], Cardinality(SharesOf(b, S, s, p))) \in Nat
    <3>1. b.level[s][p] \in Nat
      BY DEF Sound, Book, Levels
    <3>2. Cardinality(SharesOf(b, S, s, p)) \in Nat
      BY SharesLeave
    <3>3. QED
      BY <3>1, <3>2 DEF Minus
  <2>2. QED
    BY <2>1 DEF Levels
<1> HIDE DEF ord, lvl
<1>6. c \in Book /\ c.ord = ord /\ c.live = b.live /\ c.seq = b.seq
  BY <1>1, <1>2, <1>4, <1>5 DEF Book
<1> HIDE DEF c
<1>7. \A i \in Ids : ord[i] = IF i \in S THEN Ended(b.ord[i], how) ELSE b.ord[i]
  BY DEF ord
<1>8. Sound(c)
  BY <1>3, <1>6, <1>7 DEF Sound, Bonded, SameTies
<1>9. Trimmed(b, c)
  BY <1>6, <1>7 DEF Trimmed
<1>10. QED
  BY <1>6, <1>7, <1>8, <1>9 DEF c

LEMMA SharesSplit ==
  ASSUME NEW b, Sound(b), NEW S \in SUBSET Ids, NEW s, NEW p
  PROVE  /\ Cardinality(Shares(b, S, s, p)) \in Nat
         /\ Cardinality(Shares(b, Ids \ S, s, p)) \in Nat
         /\ Cardinality(ShownAt(b, s, p)) =
              Cardinality(Shares(b, S, s, p)) + Cardinality(Shares(b, Ids \ S, s, p))
<1> DEFINE R == Shares(b, Ids \ S, s, p)
           B == Shares(b, S, s, p)
<1>1. ShownAt(b, s, p) = B \cup R
  BY DEF ShownAt, Shares
<1>2. B \cap R = {}
  <2>1. ASSUME NEW x \in B \cap R
        PROVE  FALSE
    <3>1. PICK j \in Ids \ S : x \in {j} \X (1 .. Share(b.ord[j], s, p))
      BY DEF Shares
    <3>2. PICK k \in S : x \in {k} \X (1 .. Share(b.ord[k], s, p))
      BY DEF Shares
    <3>3. x[1] = j /\ x[1] = k
      BY <3>1, <3>2
    <3>4. QED
      BY <3>3
  <2>2. QED
    BY <2>1
<1>3. IsFiniteSet(B) /\ IsFiniteSet(R)
  <2>1. Ids \ S \in SUBSET Ids
    OBVIOUS
  <2>2. QED
    BY <2>1, RestFinite
<1> HIDE DEF B, R
<1>4. Cardinality(B) \in Nat /\ Cardinality(R) \in Nat
  BY <1>3, FS_CardinalityType
<1>5. Cardinality(B \cup R) = Cardinality(B) + Cardinality(R) - Cardinality(B \cap R)
  BY <1>3, FS_Union
<1>6. Cardinality({}) = 0
  BY FS_EmptySet
<1>7. Cardinality(ShownAt(b, s, p)) = Cardinality(B) + Cardinality(R)
  <2>1. Cardinality(B \cap R) = 0
    BY <1>2, <1>6
  <2>2. Cardinality(B \cup R) = Cardinality(B) + Cardinality(R)
    BY <1>4, <1>5, <2>1
  <2>3. QED
    BY <1>1, <2>2
<1>8. QED
  BY <1>4, <1>7 DEF B, R

\* What leaves together leaves the index together.
LEMMA LeaveExact ==
  ASSUME NEW b, Sound(b), Exact(b), NEW S \in SUBSET Ids,
         \A i \in S : b.ord[i].place \in Held, NEW how \in {"CANCELLED", "EXPIRED"}
  PROVE  Exact(Leave(b, S, how))
<1> DEFINE c == Leave(b, S, how)
<1>1. /\ \A i \in S : c.ord[i] = Ended(b.ord[i], how)
      /\ \A i \in Ids \ S : c.ord[i] = b.ord[i]
  BY LeaveTrims
<1>2. \A s \in Sides, p \in Prices :
        c.level[s][p] = Minus(b.level[s][p], Cardinality(SharesOf(b, S, s, p)))
  <2>1. b \in Book
    BY DEF Sound
  <2>2. c.level = [s \in Sides |-> [p \in Prices |->
                     Minus(b.level[s][p], Cardinality(SharesOf(b, S, s, p)))]]
    BY <2>1 DEF Leave, Book
  <2>3. QED
    BY <2>2
<1> HIDE DEF c
<1>3. ASSUME NEW s \in Sides, NEW p \in Prices
      PROVE  c.level[s][p] = Cardinality(ShownAt(c, s, p))
  <2>1. \A i \in S : Share(c.ord[i], s, p) = 0
    BY <1>1, EndedSound DEF Share, Sound, Book
  <2>2. Shares(c, Ids, s, p) = Shares(b, Ids \ S, s, p)
    <3>1. ASSUME NEW x, x \in Shares(c, Ids, s, p)
          PROVE  x \in Shares(b, Ids \ S, s, p)
      <4>1. PICK j \in Ids : x \in {j} \X (1 .. Share(c.ord[j], s, p))
        BY <3>1 DEF Shares
      <4>2. j \notin S
        BY <2>1, <4>1
      <4>3. QED
        BY <1>1, <4>1, <4>2 DEF Shares
    <3>2. ASSUME NEW x, x \in Shares(b, Ids \ S, s, p)
          PROVE  x \in Shares(c, Ids, s, p)
      <4>1. PICK j \in Ids \ S : x \in {j} \X (1 .. Share(b.ord[j], s, p))
        BY <3>2 DEF Shares
      <4>2. QED
        BY <1>1, <4>1 DEF Shares
    <3>3. QED
      BY <3>1, <3>2
  <2>3. SharesOf(b, S, s, p) = Shares(b, S, s, p)
    BY SharesLeave
  <2>4. /\ Cardinality(Shares(b, S, s, p)) \in Nat
        /\ Cardinality(Shares(b, Ids \ S, s, p)) \in Nat
        /\ b.level[s][p] = Cardinality(Shares(b, S, s, p))
                             + Cardinality(Shares(b, Ids \ S, s, p))
    BY SharesSplit DEF Exact
  <2>5. c.level[s][p] = Minus(b.level[s][p], Cardinality(Shares(b, S, s, p)))
    BY <1>2, <2>3
  <2>6. QED
    BY <2>2, <2>4, <2>5 DEF Minus, ShownAt
<1>4. QED
  BY <1>3 DEF Exact, c

\* A halt takes every quote out.
LEMMA QuotesLeave ==
  ASSUME NEW b, Sound(b)
  PROVE  LET c == WithoutQuotes(b)
         IN  /\ Sound(c) /\ Trimmed(b, c) /\ c.live = b.live \ AllQuotes(b)
             /\ Exact(b) => Exact(c)
<1> DEFINE legs == {i \in Ids : b.ord[i].place \in Held /\ b.ord[i].group \in AllQuotes(b)}
           d == Leave(b, legs, "CANCELLED")
           live == b.live \ AllQuotes(b)
<1>1. legs \in SUBSET Ids /\ \A i \in legs : b.ord[i].place \in Held
  OBVIOUS
<1>2. b.live \in SUBSET Ids
  BY DEF Sound, Book
<1> HIDE DEF legs
<1>3. Sound(d) /\ Trimmed(b, d) /\ d.live = b.live
  BY <1>1, LeaveTrims
<1>4. Exact(b) => Exact(d)
  BY <1>1, LeaveExact
<1>5. WithoutQuotes(b) = [d EXCEPT !.live = live]
  BY <1>3 DEF WithoutQuotes, legs
<1> HIDE DEF d
<1>6. LET c == [d EXCEPT !.live = live]
      IN  Sound(c) /\ c.ord = d.ord /\ c.live = live /\ c.seq = d.seq
  BY <1>2, <1>3, LiveSound
<1>7. [d EXCEPT !.live = live].level = d.level
  BY <1>3 DEF Sound, Book
<1>8. QED
  BY <1>2, <1>3, <1>4, <1>5, <1>6, <1>7 DEF Trimmed, Exact, ShownAt, Shares

\* So does the end of a phase with what does not outlive it.
LEMMA TifLeaves ==
  ASSUME NEW b, Sound(b), NEW t, NEW c \in BOOLEAN
  PROVE  LET d == ExpireIf(b, t, c)
         IN  /\ Sound(d) /\ Trimmed(b, d) /\ d.live = b.live
             /\ Exact(b) => Exact(d)
             /\ c => \A i \in Ids : tif[i] = t => d.ord[i].place \notin Held
<1>1. CASE c
  <2> DEFINE S == {i \in Ids : b.ord[i].place \in Held /\ tif[i] = t}
             d == Leave(b, S, "EXPIRED")
  <2>1. S \in SUBSET Ids /\ \A i \in S : b.ord[i].place \in Held
    OBVIOUS
  <2>2. ExpireIf(b, t, c) = d
    BY <1>1 DEF ExpireIf, ExpireTif
  <2>3. \A i \in Ids : tif[i] = t /\ b.ord[i].place \in Held => i \in S
    OBVIOUS
  <2> HIDE DEF S
  <2>4. /\ Sound(d) /\ Trimmed(b, d) /\ (Exact(b) => Exact(d)) /\ d.live = b.live
        /\ \A i \in S : d.ord[i] = Ended(b.ord[i], "EXPIRED")
        /\ \A i \in Ids \ S : d.ord[i] = b.ord[i]
    BY <2>1, LeaveTrims, LeaveExact
  <2>5. \A i \in S : d.ord[i].place = "none"
    BY <2>1, <2>4, EndedSound DEF Sound, Book
  <2>6. \A i \in Ids : tif[i] = t => d.ord[i].place \notin Held
    BY <2>3, <2>4, <2>5 DEF Held
  <2>7. QED
    BY <2>2, <2>4, <2>6
<1>2. CASE ~c
  BY <1>2 DEF ExpireIf, Trimmed
<1>3. QED
  BY <1>1, <1>2

-----------------------------------------------------------------------------
(***************************************************************************)
(* The steps of the day.                                                   *)
(***************************************************************************)

\* A price the engine draws for an uncross.
Starts == \E p \in Prices : \E qty \in {e.qty : e \in Indicative} : StartUncross(p, qty)

\* A step that changes the book in one piece, between the engine's own.
Trims ==
  /\ pc \in {"idle", "next"} /\ Sound(book') /\ Trimmed(book, book')
  /\ Exact(book) => Exact(book')
  /\ book'.live \in {book.live, book.live \ AllQuotes(book)}
  /\ UNCHANGED <<last, hasStops, matching, born, dispatch, auction>>

LEMMA Drawn ==
  ASSUME NEW e \in Indicative
  PROVE  e = [price |-> e.price, qty |-> e.qty]
<1>1. \E p, q : e = [price |-> p, qty |-> q]
  BY DEF Indicative, Equilibria
<1>2. QED
  BY <1>1

\* What a price that is begun does.
LEMMA Begins ==
  ASSUME Sound(book), NEW e \in Indicative, NEW p \in Prices \cup {NoPrice, e.price},
         Begin([e EXCEPT !.price = p])
  PROVE  Starts \/ UNCHANGED avars
<1>1. e = [price |-> e.price, qty |-> e.qty]
  BY Drawn
<1> DEFINE f == [e EXCEPT !.price = p]
<1>2. f.price = p /\ f.qty = e.qty
  BY <1>1
<1> HIDE DEF f
<1>3. CASE f.price = NoPrice
  BY <1>3 DEF Begin, f
<1>4. CASE f.price # NoPrice
  <2>1. StartUncross(p, e.qty)
    BY <1>2, <1>4 DEF Begin, f
  <2>2. p \in Prices
    BY <1>2, <1>4, EquilibriumIsAPrice DEF Indicative
  <2>3. QED
    BY <2>1, <2>2 DEF Starts
<1>5. QED
  BY <1>3, <1>4

LEMMA BeginsAsDrawn ==
  ASSUME Sound(book), NEW e \in Indicative, Begin(e)
  PROVE  Starts \/ UNCHANGED avars
<1>1. e = [price |-> e.price, qty |-> e.qty]
  BY Drawn
<1>2. [e EXCEPT !.price = e.price] = e
  BY <1>1
<1>3. QED
  BY <1>2, Begins

\* Every step of the day is a step of OrderBook, a step of an uncross or its
\* start, the reading of the gates, a withdrawal in bulk, or nothing to the
\* book.
LEMMA DaySteps ==
  ASSUME AIInv, SNext
  PROVE  \/ IInv /\ Next /\ UNCHANGED auction /\ (SMessage \/ BookStep)
         \/ UncrossStep /\ PrintStep
         \/ pc = "idle" /\ Starts
         \/ UNCHANGED avars
         \/ ReadGates
         \/ Trims
         \/ CancelSymbol
<1>1. Sound(book)
  BY AuctionSound
<1>2. CASE SMessage
  <2>1. ASSUME NEW r \in NewOrders, NEW t, SNewOrder(r, t)
        PROVE  Next /\ UNCHANGED auction
    BY <2>1 DEF SNewOrder, Next, Message
  <2>2. ASSUME NEW l \in OcoPairs, NEW t, SOcoOrder(l, t)
        PROVE  Next /\ UNCHANGED auction
    BY <2>2 DEF SOcoOrder, Next, Message
  <2>3. ASSUME NEW l \in QuotePairs, NEW t, SQuoteNew(l, t)
        PROVE  Next /\ UNCHANGED auction
    BY <2>3 DEF SQuoteNew, Next, Message
  <2>4. ASSUME SWithdrawal
        PROVE  Next /\ UNCHANGED auction
    <3>1. /\ UNCHANGED auction
          /\ \/ \E i \in Ids : CancelOrder(i) \/ OcoCancel(i)
             \/ \E gw \in Gateways : QuoteCancel(gw) \/ KillSwitch(gw)
             \/ \E i \in Ids, price \in AmendPrices, qty \in AmendQtys : Amend(i, price, qty)
      BY <2>4 DEF SWithdrawal
    <3>2. Message
      BY <3>1 DEF Message
    <3>3. QED
      BY <3>1, <3>2 DEF Next
  <2>5. CASE AdminResume
    BY <1>1, <2>5, BeginsAsDrawn DEF AdminResume, Ready, Quiet
  <2>6. CASE OperatorHalts
    <3>1. pc = "idle" /\ book' = WithoutQuotes(book)
          /\ UNCHANGED <<last, hasStops, matching, born, dispatch, auction>>
      BY <2>6 DEF OperatorHalts, AdminHalt, Ready, Quiet
    <3>2. QED
      BY <1>1, <3>1, QuotesLeave DEF Trims
  <2>7. ASSUME NEW p \in AssertedPrices \cup {NoPrice}, ForceUncross(p)
        PROVE  pc = "idle" /\ (Starts \/ UNCHANGED avars)
    <3>1. PICK e \in Indicative : Begin(IF p = NoPrice THEN e ELSE [e EXCEPT !.price = p])
      BY <2>7 DEF ForceUncross
    <3>2. pc = "idle"
      BY <2>7 DEF ForceUncross, Ready, Quiet
    <3>3. p # NoPrice => p \in Prices
      BY SessionAssumption
    <3>4. QED
      BY <1>1, <3>1, <3>2, <3>3, Begins, BeginsAsDrawn
  <2>8. IInv \/ ~Next
    BY NextIsOutside
  <2>9. QED
    BY <1>2, <2>1, <2>2, <2>3, <2>4, <2>5, <2>6, <2>7, <2>8 DEF SMessage
<1>3. CASE Schedule \/ TimerEnds
  BY <1>3 DEF Schedule, Transition, TimerEnds
<1>4. CASE BookStep
  <2>1. Next /\ UNCHANGED auction
    BY <1>4 DEF BookStep, Next
  <2>2. IInv
    BY <2>1, NextIsOutside
  <2>3. QED
    BY <1>4, <2>1, <2>2
<1>5. CASE PrintStep
  BY <1>5 DEF PrintStep
<1>6. CASE HaltTrips
  <2>1. pc = "next" /\ book' = WithoutQuotes(book)
        /\ UNCHANGED <<last, hasStops, matching, born, dispatch, auction>>
    BY <1>6 DEF HaltTrips
  <2>2. QED
    BY <1>1, <2>1, QuotesLeave DEF Trims
<1>7. CASE Extend \/ NoBackstop
  BY <1>7 DEF Extend, NoBackstop
<1>8. CASE Reopen \/ ScheduledUncross
  BY <1>1, <1>8, BeginsAsDrawn DEF Reopen, ScheduledUncross, Due, Ready, Quiet
<1>9. CASE Backstop
  <2>1. pc = "idle"
    BY <1>9 DEF Backstop
  <2>2. PICK e \in Indicative :
          \/ Begin(e)
          \/ \E p \in Clamped(breaker, e.price) : Begin([e EXCEPT !.price = p])
    BY <1>9 DEF Backstop
  <2>3. Clamped(breaker, e.price) \subseteq Prices
    BY DEF Clamped
  <2>4. QED
    BY <1>1, <2>1, <2>2, <2>3, Begins, BeginsAsDrawn
<1>10. CASE EnterPhase
  <2> DEFINE b1 == ExpireIf(book, "ATO", phase = "OPENING_AUCTION")
             b2 == ExpireIf(b1, "ATC", phase = "CLOSING_AUCTION")
             b3 == ExpireIf(b2, "DAY", AtClose)
  <2>1. /\ pc = "idle" /\ book' = b3
        /\ UNCHANGED <<last, hasStops, matching, born, dispatch, auction>>
    BY <1>10 DEF EnterPhase
  <2>2. AtClose \in BOOLEAN
    BY DEF AtClose
  <2>3. /\ Sound(b1) /\ Trimmed(book, b1) /\ (Exact(book) => Exact(b1))
        /\ b1.live = book.live
    BY <1>1, TifLeaves
  <2> HIDE DEF b1
  <2>4. /\ Sound(b2) /\ Trimmed(b1, b2) /\ (Exact(b1) => Exact(b2))
        /\ b2.live = b1.live
    BY <2>3, TifLeaves
  <2> HIDE DEF b2
  <2>5. /\ Sound(b3) /\ Trimmed(b2, b3) /\ (Exact(b2) => Exact(b3))
        /\ b3.live = b2.live
    BY <2>2, <2>4, TifLeaves
  <2> HIDE DEF b3
  <2>6. Trimmed(book, b3)
    BY <1>1, <2>3, <2>4, <2>5, TrimmedTransitive
  <2>7. QED
    BY <2>1, <2>3, <2>4, <2>5, <2>6 DEF Trims
<1>11. QED
  BY <1>2, <1>3, <1>4, <1>5, <1>6, <1>7, <1>8, <1>9, <1>10 DEF SNext, Work

-----------------------------------------------------------------------------
(***************************************************************************)
(* The invariant of the book and of the uncross, all day.                  *)
(***************************************************************************)
LEMMA TrimmedOrder ==
  ASSUME NEW b, NEW c, Sound(b), Trimmed(b, c), NEW i \in Ids
  PROVE  /\ SameTies(b.ord[i], c.ord[i])
         /\ c.ord[i].qty = b.ord[i].qty /\ c.ord[i].rem = b.ord[i].rem
         /\ c.ord[i].place \in {b.ord[i].place, "none"}
         /\ b.ord[i].place \notin Held => c.ord[i] = b.ord[i]
         /\ b.ord[i].status \notin Working => c.ord[i] = b.ord[i]
<1>1. b.ord[i] \in Order /\ OrderSound(b.ord[i])
  BY DEF Sound, Book
<1>2. CASE c.ord[i] = b.ord[i]
  BY <1>2 DEF SameTies
<1>3. CASE c.ord[i] # b.ord[i]
  <2>1. PICK how \in {"CANCELLED", "EXPIRED"} : c.ord[i] = Ended(b.ord[i], how)
    BY <1>3 DEF Trimmed
  <2>2. b.ord[i].place \in Held
    BY <1>3 DEF Trimmed
  <2>3. b.ord[i].status \in Working
    BY <1>1, <2>2 DEF OrderSound, Held
  <2>4. QED
    BY <1>1, <2>1, <2>2, <2>3, EndedSound
<1>4. QED
  BY <1>2, <1>3

LEMMA TrimsInv ==
  ASSUME AIInv, Trims
  PROVE  AIInv'
<1>1. /\ IInv /\ ~Uncrossing /\ ~Uncrossing' /\ Sound(book) /\ Sound(book')
      /\ Trimmed(book, book') /\ pc \in {"idle", "next"}
      /\ UNCHANGED <<last, hasStops, matching, born, pc, cur, todo, clearing, traded, released>>
      /\ UNCHANGED <<eq, printed, hit>>
  <2>1. pc \in {"idle", "next"} /\ UNCHANGED dispatch
    BY DEF Trims
  <2>2. ~Uncrossing /\ ~Uncrossing'
    BY <2>1 DEF Uncrossing, dispatch
  <2>3. IInv
    BY <2>2 DEF AIInv
  <2>4. QED
    BY <2>1, <2>2, <2>3 DEF Trims, dispatch, auction, IInv
<1>2. TypeOK'
  BY <1>1 DEF IInv, TypeOK, Sound
<1>3. \A i \in Ids :
        /\ book'.ord[i].bond = order(i).bond /\ book'.ord[i].group = order(i).group
        /\ book'.ord[i].place \in {order(i).place, "none"}
        /\ order(i).place \notin Held => book'.ord[i] = order(i)
        /\ order(i).status \notin Working => book'.ord[i] = order(i)
  BY <1>1, TrimmedOrder DEF SameTies, order
<1>4. Registered'
  BY <1>1, <1>3 DEF IInv, Registered, Sound, Book, Trimmed, order
<1>5. Unborn'
  BY <1>1, <1>3 DEF IInv, Unborn, Working, order
<1>6. HandlerOK'
  BY <1>1, <1>3 DEF IInv, HandlerOK, InHand, Held, order
<1>7. CascadeOK'
  BY <1>1, <1>3 DEF IInv, CascadeOK, order
<1>8. IInv'
  BY <1>1, <1>2, <1>4, <1>5, <1>6, <1>7 DEF IInv
<1>9. QED
  BY <1>1, <1>8 DEF AIInv, AuctionTyped, Uncrossing

LEMMA ReadGatesInv ==
  ASSUME AIInv, ReadGates
  PROVE  AIInv'
<1>1. /\ IInv /\ pc = "idle" /\ ~Uncrossing' /\ matching' \in BOOLEAN
      /\ UNCHANGED <<book, last, hasStops, born, pc, cur, todo, clearing, traded, released>>
      /\ UNCHANGED <<eq, printed, hit>>
  BY DEF ReadGates, Quiet, AIInv, Uncrossing, dispatch, auction, DoMatch
<1>2. CascadeOK'
  BY <1>1, IdleFacts DEF CascadeOK, order
<1>3. IInv'
  BY <1>1, <1>2 DEF IInv, TypeOK, Registered, Unborn, HandlerOK, InHand, order
<1>4. QED
  BY <1>1, <1>3 DEF AIInv, AuctionTyped, Uncrossing

LEMMA CancelSymbolInv ==
  ASSUME AIInv, CancelSymbol
  PROVE  /\ AIInv' /\ book'.ord = book.ord
         /\ Exact(book) => Exact(book')
<1> DEFINE c == [book EXCEPT !.live = @ \ AllQuotes(book)]
<1>1. /\ IInv /\ pc = "idle" /\ pc' = "withdraw" /\ ~Uncrossing' /\ book' = c
      /\ clearing' \subseteq Ids
      /\ UNCHANGED <<last, hasStops, matching, born, cur, todo, traded, released>>
      /\ UNCHANGED <<eq, printed, hit>>
  BY DEF CancelSymbol, Ready, Quiet, AIInv, Uncrossing, auction
<1>2. Sound(book) /\ book.live \in SUBSET Ids
  BY <1>1 DEF IInv, Sound, Book
<1>3. Sound(c) /\ c.ord = book.ord /\ c.live \subseteq book.live
  BY <1>2, LiveSound
<1>4. c.level = book.level
  BY <1>2 DEF Sound, Book
<1> HIDE DEF c
<1>5. \A i \in Ids : Moved(order(i), c.ord[i]) /\ c.ord[i].place \in {order(i).place, "none"}
  BY <1>3 DEF Moved, order
<1>6. book'.live \subseteq book.live
  BY <1>1, <1>3
<1>7. IInv'
  BY <1>1, <1>3, <1>5, <1>6, IdleThinned
<1>8. Exact(book) => Exact(book')
  BY <1>1, <1>3, <1>4 DEF Exact, ShownAt, Shares
<1>9. QED
  BY <1>1, <1>3, <1>7, <1>8 DEF AIInv, AuctionTyped, Uncrossing

LEMMA DayInvStep ==
  ASSUME AIInv, [SNext]_svars
  PROVE  AIInv'
<1>1. CASE UNCHANGED svars
  BY <1>1, AInvStep DEF svars
<1>2. CASE SNext
  <2>1. CASE pc = "idle" /\ Starts
    BY <2>1, StartUncrossStep DEF Starts
  <2>2. CASE UNCHANGED avars
    BY <2>2, AInvStep
  <2>3. QED
    BY <1>2, <2>1, <2>2, DaySteps, NextStepInv, UncrossStepInv, ReadGatesInv, TrimsInv,
       CancelSymbolInv
<1>3. QED
  BY <1>1, <1>2

LEMMA DayExactStep ==
  ASSUME AIInv, Exact(book), [SNext]_svars
  PROVE  Exact(book')
<1>1. CASE UNCHANGED svars
  BY <1>1 DEF svars, avars, vars
<1>2. CASE SNext
  <2>1. CASE Starts
    BY <2>1 DEF Starts, StartUncross
  <2>2. CASE UNCHANGED avars
    BY <2>2 DEF avars, vars
  <2>3. CASE ReadGates
    BY <2>3 DEF ReadGates
  <2>4. CASE Trims
    BY <2>4 DEF Trims
  <2>5. CASE IInv /\ Next
    BY <2>5, ExactStep
  <2>6. QED
    BY <1>2, <2>1, <2>2, <2>3, <2>4, <2>5, DaySteps, UncrossExact, CancelSymbolInv
<1>3. QED
  BY <1>1, <1>2

\* The invariants of the handlers and of the uncross hold through the whole
\* day: through halts that take the quotes out in the middle of a dispatch,
\* reopenings, transitions and what expires in them.
THEOREM DayInvariance == SSpec => []AIInv
<1>1. SInit => AIInv
  BY InvInit DEF SInit, AuctionIdle, AIInv, AuctionTyped, Uncrossing, Init
<1>2. QED
  BY <1>1, DayInvStep, PTL DEF SSpec

\* The price-level index stays exact through the day: what halts and phase
\* ends take out of the book leaves the index with it.
THEOREM DayKeepsIndex == SSpec => []LevelIndexExact
<1>1. SInit => Exact(book)
  BY FaithfulInit DEF SInit
<1>2. AIInv /\ Exact(book) /\ [SNext]_svars => Exact(book)'
  BY DayExactStep DEF Exact, ShownAt, Shares
<1>3. Exact(book) => LevelIndexExact
  BY ShownIsOnShow
<1>4. QED
  BY <1>1, <1>2, <1>3, DayInvariance, PTL DEF SSpec

-----------------------------------------------------------------------------
(***************************************************************************)
(* What outlives its phase.                                                *)
(***************************************************************************)

\* Orders the engine has not finished with: in some place, or in hand.
InPlay(i) == order(i).place # "none" \/ i \in {cur, todo}

Fits(i) ==
  /\ tif[i] = "ATO" => phase = "OPENING_AUCTION"
  /\ tif[i] = "ATC" => phase = "CLOSING_AUCTION"
  /\ tif[i] = "DAY" => phase # "CLOSED"

TifInv == tif \in [Ids -> Tifs] /\ \A i \in Ids : InPlay(i) => Fits(i)

\* An uncross places nothing, and nobody's order becomes another's.
LEMMA UncrossPlaced ==
  ASSUME AIInv, UncrossStep, NEW i \in Ids
  PROVE  /\ SameTies(order(i), book'.ord[i])
         /\ order(i).place = "none" => book'.ord[i].place = "none"
<1>1. Sound(book)
  BY AuctionSound
<1>2. ASSUME NEW bid \in Ids, NEW ask \in Ids, UncrossFill(bid, ask)
      PROVE  /\ SameTies(order(i), book'.ord[i])
             /\ order(i).place = "none" => book'.ord[i].place = "none"
  <2>1. /\ bid # ask /\ order(bid).place = "book" /\ order(ask).place = "book"
        /\ book' = FillBoth(book, bid, ask)
    BY <1>2, MeetFacts DEF UncrossFill, Meet, order
  <2>2. PICK d : /\ Sound(d) /\ Thinned(d, book')
                 /\ \A j \in Ids \ {bid, ask} : d.ord[j] = order(j)
                 /\ \A j \in {bid, ask} : SameOrder(order(j), d.ord[j])
    BY <1>1, <2>1, FillBothFacts DEF order
  <2>3. SameTies(order(i), d.ord[i])
    BY <2>2 DEF SameTies, SameOrder
  <2>4. SameTies(d.ord[i], book'.ord[i])
    BY <2>2, ThinnedTies DEF SameBonds
  <2>5. order(i).place = "none" => d.ord[i].place = "none"
    BY <2>1, <2>2
  <2>6. d.ord[i].place = "none" => book'.ord[i].place = "none"
    BY <2>2, ThinnedTies
  <2>7. QED
    BY <2>3, <2>4, <2>5, <2>6 DEF SameTies
<1>3. ASSUME Thinned(book, book')
      PROVE  /\ SameTies(order(i), book'.ord[i])
             /\ order(i).place = "none" => book'.ord[i].place = "none"
  BY <1>1, <1>3, ThinnedTies DEF SameBonds, order
<1>4. ASSUME NEW bid \in Ids, NEW ask \in Ids, UncrossSelfMatch(bid, ask) \/ Unlock(bid, ask)
      PROVE  Thinned(book, book')
  BY <1>1, <1>4, ResolveThins DEF UncrossSelfMatch, Unlock
<1>5. CASE UncrossEnds \/ UnlockEnds
  BY <1>5 DEF UncrossEnds, UnlockEnds, Stay, SameTies, order
<1>6. CASE FollowUp
  <2>1. Head(hit) \in Ids
    BY <1>6, HeadTailProperties DEF FollowUp, AIInv, AuctionTyped
  <2>2. Thinned(book, book')
    BY <1>1, <1>6, <2>1, QuoteLegFilledThins DEF FollowUp
  <2>3. QED
    BY <1>3, <2>2
<1>7. CASE UncrossPublished
  <2>1. book' \in {book, Release(book, last, released)}
    BY <1>7 DEF UncrossPublished
  <2>2. UncrossOK
    BY <1>7 DEF UncrossPublished, AIInv, Uncrossing
  <2>3. last \in Int /\ released \in Nat
    BY <2>2, PricesAssumption DEF UncrossOK, NoPrice
  <2>4. CASE book' = Release(book, last, released)
    <3>1. LET c == Release(book, last, released)
          IN  /\ SameOrder(book.ord[i], c.ord[i])
              /\ \/ c.ord[i] = book.ord[i]
                 \/ book.ord[i].place \in {"armed", "trailing"}
      BY <1>1, <2>3, ReleaseSound
    <3>2. QED
      BY <2>4, <3>1 DEF SameTies, SameOrder, order
  <2>5. CASE book' = book
    BY <2>5 DEF SameTies, order
  <2>6. QED
    BY <2>1, <2>4, <2>5
<1>8. QED
  BY <1>2, <1>3, <1>4, <1>5, <1>6, <1>7 DEF UncrossStep

\* Every order in play was in play, or is accepted now.
LEMMA StaysInPlay ==
  ASSUME AIInv, SNext, born' = born, NEW i \in Ids, InPlay(i)'
  PROVE  InPlay(i)
<1>1. Sound(book)
  BY AuctionSound
<1>2. CASE IInv /\ Next
  <2>1. born \in Nat
    BY <1>2 DEF IInv, TypeOK
  <2>2. /\ ~\E r \in NewOrders : NewOrder(r)
        /\ ~\E l \in OcoPairs : OcoOrder(l)
        /\ ~\E l \in QuotePairs : QuoteNew(l)
    BY <2>1 DEF NewOrder, OcoOrder, QuoteNew
  <2>3. CASE book'.ord[i].place # "none"
    <3>1. Placed(i)
      BY <1>2, <2>2, StepPlaced
    <3>2. QED
      BY <2>3, <3>1 DEF Placed, InPlay
  <2>4. CASE i \in {cur', todo'}
    <3>1. i \in {cur, todo} \/ order(i).place = "book" \/ order(i).place = "triggered"
      BY <1>2, <2>2, <2>4, HandsFilled
    <3>2. QED
      BY <3>1 DEF InPlay
  <2>5. QED
    BY <2>3, <2>4 DEF InPlay, order
<1>3. ASSUME UNCHANGED <<cur, todo>>, order(i).place = "none" => book'.ord[i].place = "none"
      PROVE  InPlay(i)
  BY <1>3 DEF InPlay, order
<1>4. CASE UncrossStep
  <2>1. UNCHANGED <<cur, todo>>
    BY <1>4 DEF UncrossStep, UncrossFill, UncrossSelfMatch, Unlock, UncrossEnds, UnlockEnds,
                Stay, FollowUp, UncrossPublished, dispatch
  <2>2. QED
    BY <1>3, <1>4, <2>1, UncrossPlaced
<1>5. CASE Starts \/ UNCHANGED avars \/ ReadGates
  BY <1>3, <1>5 DEF Starts, StartUncross, avars, vars, dispatch, ReadGates, order
<1>6. CASE Trims
  BY <1>1, <1>3, <1>6, TrimmedOrder DEF Trims, dispatch, order
<1>7. CASE CancelSymbol
  <2>1. book'.ord = book.ord /\ UNCHANGED <<cur, todo>>
    BY <1>7, CancelSymbolInv DEF CancelSymbol
  <2>2. QED
    BY <1>3, <2>1 DEF order
<1>8. QED
  BY <1>2, <1>4, <1>5, <1>6, <1>7, DaySteps

\* The steps that accept an order or change the phase.
LEMMA DayKinds ==
  ASSUME SNext
  PROVE  \/ \E r \in NewOrders : \E t \in TifChoices[r] : SNewOrder(r, t)
         \/ \E l \in OcoPairs, t \in PairTifs : SOcoOrder(l, t)
         \/ \E l \in QuotePairs, t \in PairTifs : SQuoteNew(l, t)
         \/ EnterPhase
         \/ UNCHANGED <<phase, tif, born>>
<1>1. CASE SWithdrawal
  BY <1>1 DEF SWithdrawal, CancelOrder, OcoCancel, QuoteCancel, KillSwitch, Amend, day
<1>2. CASE CancelSymbol \/ OperatorHalts
  BY <1>2 DEF CancelSymbol, OperatorHalts, AdminHalt, day
<1>3. \A e : Begin(e) => born' = born
  BY DEF Begin, StartUncross, avars, vars
<1>4. UNCHANGED avars => born' = born
  BY DEF avars, vars
<1>5. CASE AdminResume \/ Reopen \/ ScheduledUncross \/ Backstop
  BY <1>3, <1>4, <1>5 DEF AdminResume, Reopen, ScheduledUncross, Backstop, day
<1>6. ASSUME NEW p, ForceUncross(p)
      PROVE  UNCHANGED <<phase, tif, born>>
  BY <1>3, <1>6 DEF ForceUncross, day
<1>7. CASE Schedule \/ TimerEnds \/ Extend \/ NoBackstop \/ HaltTrips \/ ReadGates
  BY <1>4, <1>7 DEF Schedule, Transition, TimerEnds, Extend, NoBackstop, HaltTrips, ReadGates,
                    day
<1>8. CASE BookStep
  <2>1. EngineStep /\ UNCHANGED day
    BY <1>8 DEF BookStep
  <2>2. born' = born
    BY <2>1 DEF EngineStep, Withdraw, Withdrawn, DropCancelled, RejectImmediate,
                RestUnmatched, HandlerRaises, ArmStop, TriggerOnEntry, StartSweep, RefuseFok,
                RefusePull, Refused, Trade, SelfMatchPullsResting, SelfMatchPullsAggressor,
                SweepEnds, Settle, RunStop, PostSecondLeg, DropSecondLeg, HandlerReturns
  <2>3. QED
    BY <2>1, <2>2 DEF day
<1>9. CASE PrintStep
  BY <1>9 DEF PrintStep, UncrossStep, UncrossFill, UncrossSelfMatch, Unlock, UncrossEnds,
              UnlockEnds, Stay, FollowUp, UncrossPublished, day
<1>10. QED
  BY <1>1, <1>2, <1>5, <1>6, <1>7, <1>8, <1>9 DEF SNext, SMessage, Work

LEMMA AcceptedFits ==
  ASSUME TifInv, NEW new \in SUBSET Ids, NEW t \in Tifs, phase' = phase,
         tif' = [i \in Ids |-> IF i \in new THEN t ELSE tif[i]],
         \A i \in Ids \ new : book'.ord[i] = order(i),
         {cur', todo'} \subseteq new \cup {0},
         t = "ATO" => phase = "OPENING_AUCTION",
         t = "ATC" => phase = "CLOSING_AUCTION",
         phase # "CLOSED"
  PROVE  TifInv'
<1>1. 0 \notin Ids
  BY DEF Ids
<1>2. tif' \in [Ids -> Tifs]
  BY DEF TifInv
<1>3. ASSUME NEW i \in Ids, InPlay(i)'
      PROVE  Fits(i)'
  <2>1. CASE i \in new
    <3>1. tif'[i] = t
      BY <2>1
    <3>2. QED
      BY <3>1 DEF Fits
  <2>2. CASE i \notin new
    <3>1. InPlay(i)
      BY <1>1, <1>3, <2>2 DEF InPlay, order
    <3>2. tif'[i] = tif[i]
      BY <2>2
    <3>3. QED
      BY <3>1, <3>2 DEF TifInv, Fits
  <2>3. QED
    BY <2>1, <2>2
<1>4. QED
  BY <1>2, <1>3 DEF TifInv

\* A phase ends with nothing in hand, and takes along what does not outlive it.
LEMMA EnterPhaseFits ==
  ASSUME AIInv, TifInv, EnterPhase
  PROVE  TifInv'
<1> DEFINE b1 == ExpireIf(book, "ATO", phase = "OPENING_AUCTION")
           b2 == ExpireIf(b1, "ATC", phase = "CLOSING_AUCTION")
           b3 == ExpireIf(b2, "DAY", AtClose)
<1>1. /\ pc = "idle" /\ pc' = "idle" /\ IInv /\ IInv' /\ book' = b3 /\ tif' = tif /\ phase' = goal
  <2>1. pc = "idle" /\ pc' = "idle" /\ book' = b3 /\ tif' = tif /\ phase' = goal
    BY DEF EnterPhase, dispatch
  <2>2. AIInv'
    BY DayInvStep DEF SNext, Work
  <2>3. QED
    BY <2>1, <2>2 DEF AIInv, Uncrossing
<1>2. /\ cur' = 0 /\ todo' = 0 /\ Sound(book)
      /\ \A i \in Ids : order(i).place # "triggered" /\ book'.ord[i].place # "triggered"
  BY <1>1, IdleFacts DEF IInv, HandlerOK, CascadeOK, order
<1>3. AtClose \in BOOLEAN
  BY DEF AtClose
<1>4. /\ Sound(b1) /\ Trimmed(book, b1)
      /\ phase = "OPENING_AUCTION" => \A i \in Ids : tif[i] = "ATO" => b1.ord[i].place \notin Held
  BY <1>2, TifLeaves
<1> HIDE DEF b1
<1>5. /\ Sound(b2) /\ Trimmed(b1, b2)
      /\ phase = "CLOSING_AUCTION" => \A i \in Ids : tif[i] = "ATC" => b2.ord[i].place \notin Held
  BY <1>4, TifLeaves
<1> HIDE DEF b2
<1>6. /\ Trimmed(b2, b3)
      /\ AtClose => \A i \in Ids : tif[i] = "DAY" => b3.ord[i].place \notin Held
  BY <1>3, <1>5, TifLeaves
<1> HIDE DEF b3
<1>7. ASSUME NEW i \in Ids, InPlay(i)'
      PROVE  Fits(i)'
  <2>1. /\ b1.ord[i].place \in {order(i).place, "none"}
        /\ b2.ord[i].place \in {b1.ord[i].place, "none"}
        /\ b3.ord[i].place \in {b2.ord[i].place, "none"}
    BY <1>2, <1>4, <1>5, <1>6, TrimmedOrder DEF order
  <2>2. b3.ord[i].place # "none" /\ b3.ord[i].place # "triggered" /\ b3.ord[i].place \in Places
    <3>1. 0 \notin Ids
      BY DEF Ids
    <3>2. book'.ord[i].place \in Places
      BY <1>1 DEF IInv, TypeOK, Book, Order
    <3>3. QED
      BY <1>1, <1>2, <1>7, <3>1, <3>2 DEF InPlay, order
  <2>3. {order(i).place, b1.ord[i].place, b2.ord[i].place, b3.ord[i].place} \subseteq Held
    BY <2>1, <2>2 DEF Held, Places
  <2>4. Fits(i)
    BY <2>3 DEF TifInv, InPlay, Held
  <2>5. tif[i] # "ATO" /\ tif[i] # "ATC" /\ (tif[i] = "DAY" => goal # "CLOSED")
    BY <1>4, <1>5, <1>6, <2>3, <2>4 DEF Fits, AtClose
  <2>6. QED
    BY <1>1, <2>5 DEF Fits
<1>8. QED
  BY <1>1, <1>7 DEF TifInv

LEMMA FitsStep ==
  ASSUME PairTifs \subseteq {"DAY", "GTC"}, AIInv, TifInv, [SNext]_svars
  PROVE  TifInv'
<1>1. ASSUME NEW r \in NewOrders, NEW t \in TifChoices[r], SNewOrder(r, t)
      PROVE  TifInv'
  <2>1. /\ NewOrder(r) /\ tif' = [tif EXCEPT ![born + 1] = t] /\ phase' = phase
        /\ phase # "CLOSED" /\ TifAccepted(t)
    BY <1>1 DEF SNewOrder
  <2>2. IInv
    BY <2>1 DEF NewOrder, AIInv, Uncrossing
  <2>3. /\ born + 1 \in Ids
        /\ \A i \in Ids \ {born + 1} : book'.ord[i] = order(i)
    BY <2>1, <2>2, NewOrderOrders DEF order, IInv, TypeOK, Book
  <2>4. cur' = born + 1 /\ todo' = 0
    BY <2>1 DEF NewOrder, Start
  <2>5. t \in Tifs
    BY SessionAssumption
  <2>6. tif' = [i \in Ids |-> IF i \in {born + 1} THEN t ELSE tif[i]]
    BY <2>1, <2>3 DEF TifInv
  <2>7. QED
    BY <2>1, <2>3, <2>4, <2>5, <2>6, AcceptedFits DEF TifAccepted
<1>2. ASSUME NEW l \in Request \X Request, NEW bond \in {"oco", "quote"},
             \/ bond = "oco" /\ l \in OcoPairs /\ OcoOrder(l)
             \/ bond = "quote" /\ l \in QuotePairs /\ QuoteNew(l),
             NEW t \in PairTifs, phase # "CLOSED", phase' = phase,
             tif' = [tif EXCEPT ![born + 1] = t, ![born + 2] = t]
      PROVE  TifInv'
  <2>1. IInv
    BY <1>2 DEF OcoOrder, QuoteNew, AIInv, Uncrossing
  <2>2. born \in Nat
    BY <2>1 DEF IInv, TypeOK
  <2>3. /\ born + 1 \in Ids /\ born + 2 \in Ids
        /\ \A i \in Ids \ {born + 1, born + 2} : book'.ord[i] = order(i)
    <3>1. LET g == born + 1
          IN  /\ g \in Ids /\ g + 1 \in Ids
              /\ \A i \in Ids \ {g, g + 1} : book'.ord[i] = order(i)
      BY <1>2, <2>1, PairOrders
    <3>2. (born + 1) + 1 = born + 2
      BY <2>2
    <3>3. QED
      BY <3>1, <3>2
  <2>4. cur' = born + 1 /\ todo' = born + 2
    BY <1>2 DEF OcoOrder, QuoteNew, Start
  <2>5. t \in {"DAY", "GTC"} /\ t \in Tifs
    BY DEF Tifs
  <2>6. tif' = [i \in Ids |-> IF i \in {born + 1, born + 2} THEN t ELSE tif[i]]
    BY <1>2, <2>3 DEF TifInv
  <2>7. QED
    BY <1>2, <2>3, <2>4, <2>5, <2>6, AcceptedFits
<1>3. ASSUME NEW l \in OcoPairs, NEW t \in PairTifs, SOcoOrder(l, t)
      PROVE  TifInv'
  BY <1>2, <1>3, RequestsAssumption DEF SOcoOrder
<1>4. ASSUME NEW l \in QuotePairs, NEW t \in PairTifs, SQuoteNew(l, t)
      PROVE  TifInv'
  BY <1>2, <1>4, RequestsAssumption DEF SQuoteNew
<1>5. ASSUME SNext, UNCHANGED <<phase, tif, born>>
      PROVE  TifInv'
  <2>1. \A i \in Ids : InPlay(i)' => InPlay(i)
    BY <1>5, StaysInPlay
  <2>2. \A i \in Ids : Fits(i) => Fits(i)'
    BY <1>5 DEF Fits
  <2>3. QED
    BY <1>5, <2>1, <2>2 DEF TifInv
<1>6. CASE UNCHANGED svars
  BY <1>6 DEF svars, day, avars, vars, dispatch, TifInv, InPlay, Fits, order
<1>7. QED
  BY <1>1, <1>3, <1>4, <1>5, <1>6, EnterPhaseFits, DayKinds

\* Auction-only orders do not outlive their auction, nor day orders the close,
\* when pairs and quotes are of the day or longer: their windows are the ones
\* the engine does not check.  Resting, armed, trailing and waiting orders and
\* those in hand all fit the phase at every step, so that none is left when
\* the phase ends: nothing is in hand then, and what is held expires.
THEOREM NothingOutlives ==
  ASSUME PairTifs \subseteq {"DAY", "GTC"}
  PROVE  SSpec => []NothingOutlivesItsPhase
<1>1. SInit => TifInv
  BY DEF SInit, Init, TifInv, InPlay, Absent, Ids, Tifs, order
<1>2. AIInv /\ TifInv /\ [SNext]_svars => TifInv'
  BY FitsStep
<1>3. TifInv => NothingOutlivesItsPhase
  BY DEF TifInv, NothingOutlivesItsPhase, InPlay, Fits, Held
<1>4. QED
  BY <1>1, <1>2, <1>3, DayInvariance, PTL DEF SSpec

-----------------------------------------------------------------------------
(***************************************************************************)
(* The records of a halt, and the ties of orders.                          *)
(***************************************************************************)

\* The breaker is a record of these fields: what is set in it is found in it.
BreakerFields == {"on", "timer", "ref", "centre", "widened"}
BreakerShape == DOMAIN breaker = BreakerFields

LEMMA AgreeStep ==
  ASSUME BreakerShape, HaltsAgree, [SNext]_svars
  PROVE  BreakerShape' /\ HaltsAgree'
<1>2. ASSUME UNCHANGED <<breaker, halted>> \/ UNCHANGED halts
      PROVE  BreakerShape' /\ HaltsAgree'
  BY <1>2 DEF halts, BreakerShape, HaltsAgree
<1>3. ASSUME halted' = FALSE, breaker' = Deactivated(breaker)
      PROVE  BreakerShape' /\ HaltsAgree'
  <2>1. breaker'.on = FALSE /\ breaker'.timer = "none" /\ DOMAIN breaker' = BreakerFields
    BY <1>3 DEF Deactivated, BreakerShape, BreakerFields
  <2>2. QED
    BY <1>3, <2>1 DEF BreakerShape, HaltsAgree
<1>4. ASSUME halted' = TRUE, NEW timed \in BOOLEAN,
             breaker' = HeldByOperator(breaker) \/ breaker' = Activated(breaker, timed)
      PROVE  BreakerShape' /\ HaltsAgree'
  <2>1. CASE breaker' = HeldByOperator(breaker)
    <3>1. breaker'.on = TRUE /\ breaker'.timer = "none" /\ DOMAIN breaker' = BreakerFields
      BY <2>1 DEF HeldByOperator, BreakerShape, BreakerFields
    <3>2. QED
      BY <1>4, <3>1 DEF BreakerShape, HaltsAgree
  <2>2. CASE breaker' = Activated(breaker, timed)
    <3>1. breaker'.on = TRUE /\ DOMAIN breaker' = BreakerFields
      BY <2>2 DEF Activated, BreakerFields
    <3>2. QED
      BY <1>4, <3>1 DEF BreakerShape, HaltsAgree
  <2>3. QED
    BY <1>4, <2>1, <2>2
<1>5. ASSUME NEW p, NEW may, Record(p, may)
      PROVE  BreakerShape' /\ HaltsAgree'
  <2>1. CASE UNCHANGED halts
    BY <1>2, <2>1
  <2>2. CASE ~UNCHANGED halts
    <3>1. halted' = halted /\ \E x : breaker' = breaker \/ breaker' = [breaker EXCEPT !.ref = x]
      BY <1>5, <2>2 DEF Record
    <3>2. PICK x : breaker' = breaker \/ breaker' = [breaker EXCEPT !.ref = x]
      BY <3>1
    <3>3. breaker'.on = breaker.on /\ breaker'.timer = breaker.timer
          /\ DOMAIN breaker' = BreakerFields
      BY <3>2 DEF BreakerShape, BreakerFields
    <3>4. QED
      BY <3>1, <3>3 DEF BreakerShape, HaltsAgree
  <2>3. QED
    BY <2>1, <2>2
<1>6. CASE SMessage
  <2>1. CASE OperatorHalts
    BY <1>4, <2>1, SessionAssumption DEF OperatorHalts, AdminHalt
  <2>2. CASE AdminResume
    BY <1>3, <2>2 DEF AdminResume
  <2>3. ASSUME NEW p, ForceUncross(p)
        PROVE  BreakerShape' /\ HaltsAgree'
    BY <1>3, <2>3 DEF ForceUncross
  <2>4. \/ UNCHANGED halts \/ OperatorHalts \/ AdminResume
        \/ \E p \in AssertedPrices \cup {NoPrice} : ForceUncross(p)
    BY <1>6 DEF SMessage, SNewOrder, SOcoOrder, SQuoteNew, SWithdrawal, CancelSymbol
  <2>5. QED
    BY <1>2, <2>1, <2>2, <2>3, <2>4
<1>7. CASE BookStep \/ PrintStep
  BY <1>2, <1>5, <1>7 DEF BookStep, PrintStep
<1>8. CASE HaltTrips
  BY <1>4, <1>8 DEF HaltTrips, Timed
<1>9. CASE Reopen \/ Backstop
  BY <1>3, <1>9 DEF Reopen, Backstop
<1>10. CASE TimerEnds
  <2>1. /\ breaker.timer = "running" /\ halted' = halted
        /\ breaker' = [breaker EXCEPT !.timer = "due"]
    BY <1>10 DEF TimerEnds
  <2>2. breaker'.on = breaker.on /\ DOMAIN breaker' = BreakerFields
    BY <2>1 DEF BreakerShape, BreakerFields
  <2>3. QED
    BY <2>1, <2>2 DEF BreakerShape, HaltsAgree
<1>11. CASE Extend
  <2>1. /\ breaker.on /\ halted' = halted
        /\ breaker' = [breaker EXCEPT !.timer = "running", !.widened = @ + 1]
    BY <1>11 DEF Extend, Due
  <2>2. breaker'.on = breaker.on /\ DOMAIN breaker' = BreakerFields
    BY <2>1 DEF BreakerShape, BreakerFields
  <2>3. QED
    BY <2>1, <2>2 DEF BreakerShape, HaltsAgree
<1>12. CASE EnterPhase
  BY <1>2, <1>3, <1>12 DEF EnterPhase
<1>13. CASE Schedule \/ ReadGates \/ ScheduledUncross \/ NoBackstop \/ UNCHANGED svars
  BY <1>2, <1>13 DEF Schedule, Transition, ReadGates, ScheduledUncross, NoBackstop, svars
<1>14. QED
  BY <1>6, <1>7, <1>8, <1>9, <1>10, <1>11, <1>12, <1>13 DEF SNext, Work

\* The engine's two records of a halt agree at every step, whoever halts and
\* however the halt ends, and no timer outlives its halt.
THEOREM HaltRecordsAgree == SSpec => []HaltsAgree
<1>1. SInit => BreakerShape /\ HaltsAgree
  <2>1. SUFFICES ASSUME SInit PROVE BreakerShape /\ HaltsAgree
    OBVIOUS
  <2>2. breaker.on = FALSE /\ breaker.timer = "none" /\ halted = FALSE
    BY <2>1 DEF SInit
  <2>3. DOMAIN breaker = BreakerFields
    BY <2>1 DEF SInit, BreakerFields
  <2>4. QED
    BY <2>2, <2>3 DEF BreakerShape, HaltsAgree
<1>2. BreakerShape /\ HaltsAgree /\ [SNext]_svars => BreakerShape' /\ HaltsAgree'
  BY AgreeStep
<1>3. QED
  BY <1>1, <1>2, PTL DEF SSpec

\* Only the acceptance of an order ties it; what a second leg was tied to stays
\* so while it is in hand.
LEMMA BondsKept ==
  ASSUME AIInv, SNext
  PROVE  \/ IInv /\ \E r \in NewOrders : NewOrder(r)
         \/ IInv /\ \E l \in OcoPairs : OcoOrder(l)
         \/ IInv /\ \E l \in QuotePairs : QuoteNew(l)
         \/ SameBonds(book, book') /\ todo' \in {0, todo}
<1>1. Sound(book)
  BY AuctionSound
<1>2. CASE IInv /\ Next
  <2>1. SUFFICES ASSUME ~\E r \in NewOrders : NewOrder(r),
                        ~\E l \in OcoPairs : OcoOrder(l),
                        ~\E l \in QuotePairs : QuoteNew(l)
                 PROVE  SameBonds(book, book') /\ todo' \in {0, todo}
    BY <1>2
  <2>2. SameBonds(book, book')
    BY <1>2, <2>1, TiesKept
  <2>3. ASSUME Message PROVE todo' \in {0, todo}
    BY <2>1, <2>3 DEF Message, QuoteCancel, KillSwitch, CancelOrder, OcoCancel, Amend, Start,
                      CallPhaseBegins, NoMessage, dispatch, vars
  <2>4. ASSUME EngineStep PROVE todo' \in {0, todo}
    BY <2>4 DEF EngineStep, Withdraw, Withdrawn, DropCancelled, RejectImmediate,
                RestUnmatched, HandlerRaises, ArmStop, TriggerOnEntry, StartSweep, RefuseFok,
                RefusePull, Refused, Trade, SelfMatchPullsResting, SelfMatchPullsAggressor,
                SweepEnds, Settle, RunStop, PostSecondLeg, DropSecondLeg, HandlerReturns,
                dispatch
  <2>5. QED
    BY <1>2, <2>2, <2>3, <2>4 DEF Next
<1>3. ASSUME todo' = todo, \A i \in Ids : SameTies(order(i), book'.ord[i])
      PROVE  SameBonds(book, book') /\ todo' \in {0, todo}
  BY <1>3 DEF SameBonds, order
<1>4. CASE UncrossStep
  <2>1. todo' = todo
    BY <1>4 DEF UncrossStep, UncrossFill, UncrossSelfMatch, Unlock, UncrossEnds, UnlockEnds,
                Stay, FollowUp, UncrossPublished, dispatch
  <2>2. QED
    BY <1>3, <1>4, <2>1, UncrossPlaced
<1>5. CASE Starts \/ UNCHANGED avars \/ ReadGates
  BY <1>3, <1>5 DEF Starts, StartUncross, avars, vars, dispatch, ReadGates, order, SameTies
<1>6. CASE Trims
  <2>1. todo' = todo
    BY <1>6 DEF Trims, dispatch
  <2>2. QED
    BY <1>1, <1>3, <1>6, <2>1, TrimmedOrder DEF Trims, order
<1>7. CASE CancelSymbol
  <2>1. book'.ord = book.ord /\ todo' = todo
    BY <1>7, CancelSymbolInv DEF CancelSymbol
  <2>2. QED
    BY <1>3, <2>1 DEF order, SameTies
<1>8. QED
  BY <1>2, <1>4, <1>5, <1>6, <1>7, DaySteps

-----------------------------------------------------------------------------
(***************************************************************************)
(* The book can be walked all day: what is taken out of it in one piece    *)
(* leaves pairs and queues as they must be.                                *)
(***************************************************************************)
LEMMA DayPaired ==
  ASSUME AIInv, Paired(book), [SNext]_svars
  PROVE  Paired(book')
<1>1. Sound(book)
  BY AuctionSound
<1>2. CASE UNCHANGED svars
  BY <1>2 DEF svars, avars, vars
<1>3. CASE SNext
  <2>1. ASSUME IInv, NEW l \in OcoPairs, OcoOrder(l)
        PROVE  Paired(book')
    <3>1. l \in Request \X Request
      BY RequestsAssumption
    <3>2. QED
      BY <2>1, <3>1, AcceptedPaired
  <2>2. ASSUME IInv, NEW l \in QuotePairs, QuoteNew(l)
        PROVE  Paired(book')
    <3>1. l \in Request \X Request
      BY RequestsAssumption
    <3>2. QED
      BY <2>2, <3>1, AcceptedPaired
  <2>3. QED
    BY <1>1, <1>3, <2>1, <2>2, BondsKept, NewOrderPaired, TiesStay
<1>4. QED
  BY <1>2, <1>3

\* The legs of an OCO pair are no quotes.
LEMMA PairIsNoQuote ==
  ASSUME NEW b, Sound(b), Paired(b), NEW i \in Ids, b.ord[i].bond = "oco"
  PROVE  b.ord[i].group \notin AllQuotes(b)
<1>1. {i, Sibling(b, i)} = {b.ord[i].group, b.ord[i].group + 1} /\ Sibling(b, i) \in Ids
  BY Siblings
<1>2. b.ord[Sibling(b, i)].bond = "oco"
  BY DEF Paired
<1>3. QED
  BY <1>1, <1>2 DEF AllQuotes

LEMMA TrimmedWalks ==
  ASSUME NEW b, Sound(b), Paired(b), Sequenced(b), NEW a, NEW t, Split(b, a, t),
         NEW c, Sound(c), Trimmed(b, c), c.live \in {b.live, b.live \ AllQuotes(b)}
  PROVE  Sequenced(c) /\ Split(c, a, t)
<1>1. ASSUME NEW i \in Ids
      PROVE  /\ c.ord[i].seq = b.ord[i].seq
             /\ c.ord[i].place = "book" => c.ord[i] = b.ord[i]
             /\ b.ord[i].status \in Dead => c.ord[i] = b.ord[i]
             /\ b.ord[i].place = "none" => c.ord[i] = b.ord[i]
  <2>1. b.ord[i] \in Order /\ OrderSound(b.ord[i])
    BY DEF Sound, Book
  <2>2. CASE c.ord[i] = b.ord[i]
    BY <2>2
  <2>3. ASSUME NEW how \in {"CANCELLED", "EXPIRED"}, b.ord[i].place \in Held,
               c.ord[i] = Ended(b.ord[i], how)
        PROVE  /\ c.ord[i].seq = b.ord[i].seq /\ c.ord[i].place = "none"
               /\ b.ord[i].status \notin Dead /\ b.ord[i].place # "none"
    BY <2>1, <2>3 DEF Ended, Order, OrderSound, Held, Working, Dead
  <2>4. QED
    BY <2>2, <2>3 DEF Trimmed
<1>2. Sequenced(c)
  BY <1>1 DEF Sequenced, Numbered, Ranked, Trimmed
<1>3. SameBonds(b, c)
  BY TrimmedOrder DEF SameBonds
<1>4. Falls(b, c)
  BY PairIsNoQuote DEF Falls
<1>5. \A i \in Ids : Gone(b, i, a, t) => Gone(c, i, a, t)
  BY <1>1 DEF Gone
<1>6. QED
  BY <1>2, <1>3, <1>4, <1>5, SplitKept

LEMMA DayWalks ==
  ASSUME AIInv, Paired(book), BookWalks, [SNext]_svars
  PROVE  BookWalks'
<1>1. Sound(book)
  BY AuctionSound
<1>2. CASE Starts \/ UNCHANGED avars \/ ReadGates \/ UNCHANGED svars
  <2>1. UNCHANGED <<book, cur, todo>>
    BY <1>2 DEF Starts, StartUncross, ReadGates, svars, avars, vars, dispatch
  <2>2. QED
    BY <2>1 DEF BookWalks
<1>3. CASE Trims
  <2>1. UNCHANGED <<cur, todo>>
    BY <1>3 DEF Trims, dispatch
  <2>2. Sequenced(book') /\ Split(book', cur, todo)
    BY <1>1, <1>3, TrimmedWalks DEF Trims, BookWalks
  <2>3. QED
    BY <2>1, <2>2 DEF BookWalks
<1>4. CASE CancelSymbol
  <2> DEFINE c == book'
  <2>1. /\ UNCHANGED <<cur, todo>>
        /\ c.ord = book.ord /\ c.live = book.live \ AllQuotes(book) /\ c.seq = book.seq
    BY <1>1, <1>4 DEF CancelSymbol, Sound, Book
  <2> HIDE DEF c
  <2>2. Sequenced(c)
    BY <2>1 DEF Sequenced, Numbered, Ranked, BookWalks
  <2>3. SameBonds(book, c)
    BY <2>1 DEF SameBonds, SameTies
  <2>4. Falls(book, c)
    BY <1>1, <2>1, PairIsNoQuote DEF Falls
  <2>5. \A i \in Ids : Gone(book, i, cur, todo) => Gone(c, i, cur, todo)
    BY <2>1 DEF Gone
  <2>6. Split(c, cur, todo)
    BY <1>1, <2>3, <2>4, <2>5, SplitKept DEF BookWalks
  <2>7. QED
    BY <2>1, <2>2, <2>6 DEF BookWalks, c
<1>5. QED
  BY <1>2, <1>3, <1>4, NextWalks, UncrossWalks, DaySteps

-----------------------------------------------------------------------------
(***************************************************************************)
(* Opening uncrossed.  What crosses the book must be gone before it trades *)
(* continuously, so the uncrosses that matter are those that end a call    *)
(* phase or a halt; the closing one, at the bound of the corridor, may     *)
(* leave a crossed book behind, and nothing trades on it before the next   *)
(* day has uncrossed it.                                                   *)
(***************************************************************************)

\* The book trades continuously, or will when the running transition is done.
Opening ==
  /\ ~halted
  /\ \/ phase = "CONTINUOUS" /\ stage = "none"
     \/ stage = "enter" /\ goal = "CONTINUOUS"

Opened ==
  /\ UInv
  /\ pc \notin {"uncross", "unlock"} => Uncrossed(book)
  /\ pc # "idle" => matching

OpenInv ==
  /\ promised \in Nat
  /\ stage = "backstop" => goal = "CLOSED"
  /\ Opening => Opened

LEMMA DayPromises ==
  ASSUME AIInv, Paired(book), promised \in Nat, [SNext]_svars
  PROVE  promised' \in Nat
<1>1. Sound(book)
  BY AuctionSound
<1>2. CASE Starts
  <2>1. \A e \in Indicative : e.qty \in Nat
    BY <1>1, EquilibriumFacts DEF Indicative
  <2>2. QED
    BY <1>2, <2>1 DEF Starts, StartUncross
<1>3. CASE UncrossStep
  BY <1>3 DEF UncrossStep, UncrossFill, UncrossSelfMatch, Unlock, UncrossEnds, UnlockEnds,
              FollowUp, UncrossPublished, auction
<1>4. CASE UNCHANGED avars \/ UNCHANGED svars \/ UNCHANGED auction
  BY <1>4 DEF svars, avars, auction
<1>5. CASE ReadGates \/ Trims \/ CancelSymbol
  BY <1>5 DEF ReadGates, Trims, CancelSymbol, auction
<1>6. QED
  BY <1>2, <1>3, <1>4, <1>5, DaySteps

LEMMA DayBackstops ==
  ASSUME stage = "backstop" => goal = "CLOSED", [SNext]_svars
  PROVE  stage' = "backstop" => goal' = "CLOSED"
<1>1. CASE UNCHANGED svars
  BY <1>1 DEF svars, day
<1>2. CASE SMessage
  BY <1>2 DEF SMessage, SNewOrder, SOcoOrder, SQuoteNew, SWithdrawal, CancelSymbol, AdminResume,
              OperatorHalts, AdminHalt, ForceUncross, day
<1>3. CASE Schedule \/ TimerEnds
  BY <1>3 DEF Schedule, Transition, TimerEnds, AfterUncross, day
<1>4. CASE BookStep \/ PrintStep \/ HaltTrips \/ ReadGates \/ Extend \/ Reopen
  BY <1>4 DEF BookStep, PrintStep, HaltTrips, ReadGates, Extend, Reopen, day
<1>5. CASE ScheduledUncross \/ NoBackstop \/ Backstop \/ EnterPhase
  BY <1>5 DEF ScheduledUncross, NoBackstop, Backstop, EnterPhase, AfterUncross
<1>6. QED
  BY <1>1, <1>2, <1>3, <1>4, <1>5 DEF SNext, Work

\* A price that is begun as it was drawn opens the book.
LEMMA BeginOpens ==
  ASSUME AIInv, Paired(book), BookWalks, promised \in Nat, pc = "idle",
         NEW e \in Indicative, Begin(e)
  PROVE  Opened'
<1>1. IF e.price # NoPrice THEN StartUncross(e.price, e.qty)
      ELSE UNCHANGED <<book, pc, promised>>
  BY DEF Begin, avars, vars, dispatch, auction
<1>2. UInv' /\ (pc' \notin {"uncross", "unlock"} => Uncrossed(book'))
  BY <1>1, WalkBegins DEF Indicative
<1>3. pc' # "idle" => matching'
  BY <1>1 DEF StartUncross
<1>4. QED
  BY <1>2, <1>3 DEF Opened

\* A step of the engine on a book that is open.
LEMMA NextOpened ==
  ASSUME AIInv, Exact(book), Opened, matching, Next, UNCHANGED auction, matching' = matching
  PROVE  Opened'
<1>1. UInv' /\ ~Uncrossing'
  BY OutsideStep, NextIsOutside DEF Opened
<1>2. QED
  BY <1>1 DEF Opened, UInv, Uncrossing

LEMMA UncrossOpened ==
  ASSUME AIInv, Paired(book), BookWalks, Opened, UncrossStep
  PROVE  Opened'
<1>1. UInv'
  BY WalkFills, WalkPulls, WalkMovesOn, AfterTheWalk DEF UncrossStep, Opened
<1>2. matching'
  <2>1. Uncrossing /\ matching' = matching
    BY DEF Uncrossing, UncrossStep, UncrossFill, UncrossSelfMatch, Unlock, UncrossEnds,
           UnlockEnds, Stay, FollowUp, UncrossPublished
  <2>2. QED
    BY <2>1 DEF AIInv, UncrossOK
<1>3. QED
  BY <1>1, <1>2 DEF Opened, UInv

LEMMA EngineKeepsMatching ==
  ASSUME EngineStep
  PROVE  pc # "idle" /\ matching' = matching
BY DEF EngineStep, Withdraw, Withdrawn, DropCancelled, RejectImmediate, RestUnmatched,
       HandlerRaises, ArmStop, TriggerOnEntry, StartSweep, RefuseFok, RefusePull, Refused,
       Trade, SelfMatchPullsResting, SelfMatchPullsAggressor, SweepEnds, Settle, RunStop,
       PostSecondLeg, DropSecondLeg, HandlerReturns, Processing, Facing, Unfilled

\* Nothing but the dispatch changes while the day goes on as before.
LEMMA OpenedStays ==
  ASSUME Opened, UNCHANGED <<pc, eq, promised, printed>>,
         pc = "idle" \/ UNCHANGED matching,
         \A i \in Ids : book'.ord[i].place = "book" => book'.ord[i] = book.ord[i],
         pc = "idle" \/ book' = book
  PROVE  Opened'
<1>1. Uncrossed(book) => Uncrossed(book')
  BY DEF Uncrossed, Bids, Asks, Resting
<1>2. CASE pc = "idle"
  BY <1>1, <1>2 DEF Opened, UInv, IndicativePrints
<1>3. CASE pc # "idle"
  <2>1. book' = book /\ matching' = matching
    BY <1>3
  <2>2. \A b0 \in Book : WalkFrom(b0) => WalkFrom(b0)'
    BY <2>1 DEF WalkFrom
  <2>3. QED
    BY <1>1, <2>1, <2>2 DEF Opened, UInv, IndicativePrints
<1>4. QED
  BY <1>2, <1>3

LEMMA MessageOpens ==
  ASSUME AssertedPrices = {}, AIInv, Paired(book), BookWalks, Exact(book), OpenInv, SMessage
  PROVE  Opening' => Opened'
<1>1. pc = "idle" /\ stage = "none" /\ matching = DoMatch
  BY DEF SMessage, Ready, Quiet
<1>2. SUFFICES ASSUME Opening' PROVE Opened'
  OBVIOUS
<1>3. CASE OperatorHalts
  BY <1>2, <1>3 DEF OperatorHalts, AdminHalt, Opening
<1>4. CASE AdminResume
  <2>1. UNCHANGED <<phase, stage, goal>>
    BY <1>4 DEF AdminResume, day
  <2>2. phase = "CONTINUOUS"
    BY <1>1, <1>2, <2>1 DEF Opening
  <2>3. \E e \in Indicative : Begin(e)
    BY <1>4, <2>2 DEF AdminResume
  <2>4. QED
    BY <1>1, <2>3, BeginOpens DEF OpenInv
<1>5. ASSUME NEW p \in AssertedPrices \cup {NoPrice}, ForceUncross(p)
      PROVE  Opened'
  <2>1. p = NoPrice
    OBVIOUS
  <2>2. \E e \in Indicative : Begin(e)
    BY <1>5, <2>1 DEF ForceUncross
  <2>3. QED
    BY <1>1, <2>2, BeginOpens DEF OpenInv
<1>6. ASSUME UNCHANGED <<phase, stage, goal, halted>>
      PROVE  Opened /\ matching
  <2>1. Opening
    BY <1>2, <1>6 DEF Opening
  <2>2. DoMatch
    BY <1>1, <2>1 DEF Opening, DoMatch
  <2>3. QED
    BY <1>1, <2>1, <2>2 DEF OpenInv
<1>7. CASE CancelSymbol
  <2>1. UNCHANGED <<phase, stage, goal, halted>>
    BY <1>7 DEF CancelSymbol, day, halts
  <2>2. Opened /\ matching
    BY <1>6, <2>1
  <2>3. /\ book'.ord = book.ord /\ pc' = "withdraw" /\ matching' = matching
        /\ promised' = promised
    BY <1>7, CancelSymbolInv DEF CancelSymbol, auction
  <2>4. Uncrossed(book')
    BY <1>1, <2>2, <2>3 DEF Opened, Uncrossed, Bids, Asks, Resting
  <2>5. QED
    BY <1>1, <2>2, <2>3, <2>4 DEF Opened, UInv, IndicativePrints
<1>8. ASSUME Message, UNCHANGED auction, UNCHANGED <<phase, stage, goal, halted>>,
             matching' = matching
      PROVE  Opened'
  BY <1>6, <1>8, NextOpened DEF Next
<1>9. ASSUME NEW r \in NewOrders, NEW t, SNewOrder(r, t)
      PROVE  Opened'
  BY <1>8, <1>9 DEF SNewOrder, Message, NewOrder, Start, halts
<1>10. ASSUME NEW l \in OcoPairs, NEW t, SOcoOrder(l, t)
       PROVE  Opened'
  BY <1>8, <1>10 DEF SOcoOrder, Message, OcoOrder, Start, halts
<1>11. ASSUME NEW l \in QuotePairs, NEW t, SQuoteNew(l, t)
       PROVE  Opened'
  BY <1>8, <1>11 DEF SQuoteNew, Message, QuoteNew, Start, halts
<1>12. CASE SWithdrawal
  <2>1. /\ UNCHANGED auction /\ UNCHANGED <<phase, stage, goal, halted>>
        /\ \/ \E i \in Ids : CancelOrder(i) \/ OcoCancel(i)
           \/ \E gw \in Gateways : QuoteCancel(gw) \/ KillSwitch(gw)
           \/ \E i \in Ids, price \in AmendPrices, qty \in AmendQtys : Amend(i, price, qty)
    BY <1>12 DEF SWithdrawal, day, halts
  <2>2. Message
    BY <2>1 DEF Message
  <2>3. matching' = matching
    BY <2>1 DEF CancelOrder, OcoCancel, QuoteCancel, KillSwitch, Amend
  <2>4. QED
    BY <1>8, <2>1, <2>2, <2>3
<1>13. QED
  BY <1>3, <1>4, <1>5, <1>7, <1>9, <1>10, <1>11, <1>12 DEF SMessage

LEMMA WorkOpens ==
  ASSUME AIInv, Paired(book), BookWalks, Exact(book), OpenInv, Work
  PROVE  Opening' => Opened'
<1>1. Sound(book)
  BY AuctionSound
<1>2. SUFFICES ASSUME Opening' PROVE Opened'
  OBVIOUS
<1>3. CASE BookStep
  <2>1. EngineStep /\ UNCHANGED auction /\ UNCHANGED <<phase, stage, goal, halted>>
    BY <1>3 DEF BookStep, Record, halts, day
  <2>2. Opened
    BY <1>2, <2>1 DEF Opening, OpenInv
  <2>3. Next /\ matching' = matching /\ matching
    BY <2>1, <2>2, EngineKeepsMatching DEF Next, Opened
  <2>4. QED
    BY <2>1, <2>2, <2>3, NextOpened
<1>4. CASE PrintStep
  <2>1. UncrossStep /\ UNCHANGED <<phase, stage, goal, halted>>
    BY <1>4 DEF PrintStep, Record, halts, day
  <2>2. Opened
    BY <1>2, <2>1 DEF Opening, OpenInv
  <2>3. QED
    BY <2>1, <2>2, UncrossOpened
<1>5. CASE HaltTrips
  BY <1>2, <1>5 DEF HaltTrips, Opening
<1>6. CASE ReadGates
  <2>1. /\ pc = "idle" /\ UNCHANGED <<phase, stage, goal, halted>>
        /\ UNCHANGED <<book, pc, eq, promised, printed>>
    BY <1>6 DEF ReadGates, Quiet, day, halts, dispatch, auction
  <2>2. Opened
    BY <1>2, <2>1 DEF Opening, OpenInv
  <2>3. QED
    BY <2>1, <2>2, OpenedStays
<1>7. CASE Extend
  <2>1. /\ UNCHANGED <<phase, stage, goal, halted>>
        /\ UNCHANGED <<book, pc, matching, eq, promised, printed>>
    BY <1>7 DEF Extend, day, avars, vars, dispatch, auction
  <2>2. Opened
    BY <1>2, <2>1 DEF Opening, OpenInv
  <2>3. QED
    BY <2>1, <2>2, OpenedStays
<1>8. CASE Reopen
  <2>1. pc = "idle" /\ \E e \in Indicative : Begin(e)
    BY <1>8 DEF Reopen, Due, Ready, Quiet
  <2>2. QED
    BY <2>1, BeginOpens DEF OpenInv
<1>9. CASE ScheduledUncross
  <2>1. pc = "idle" /\ halted' = halted
    BY <1>9 DEF ScheduledUncross, halts
  <2>2. \E e \in Indicative : Begin(e)
    BY <1>2, <1>9, <2>1 DEF ScheduledUncross, Opening
  <2>3. QED
    BY <2>1, <2>2, BeginOpens DEF OpenInv
<1>10. CASE NoBackstop \/ Backstop
  <2>1. goal = "CLOSED" /\ goal' = goal /\ stage' = "enter"
    BY <1>10 DEF NoBackstop, Backstop, OpenInv
  <2>2. QED
    BY <1>2, <2>1 DEF Opening
<1>11. CASE EnterPhase
  <2>1. /\ pc = "idle" /\ stage = "enter" /\ stage' = "none" /\ phase' = goal
        /\ ~AtClose => halted' = halted
        /\ UNCHANGED <<pc, eq, promised, printed, matching>>
    BY <1>11 DEF EnterPhase, dispatch, auction
  <2>2. goal = "CONTINUOUS" /\ ~halted
    BY <1>2, <2>1 DEF Opening, AtClose
  <2>3. Opened
    BY <2>1, <2>2 DEF Opening, OpenInv
  <2>4. Trimmed(book, book')
    <3> DEFINE b1 == ExpireIf(book, "ATO", phase = "OPENING_AUCTION")
               b2 == ExpireIf(b1, "ATC", phase = "CLOSING_AUCTION")
               b3 == ExpireIf(b2, "DAY", AtClose)
    <3>1. book' = b3 /\ AtClose \in BOOLEAN
      BY <1>11 DEF EnterPhase, AtClose
    <3>2. Sound(b1) /\ Trimmed(book, b1)
      BY <1>1, TifLeaves
    <3> HIDE DEF b1
    <3>3. Sound(b2) /\ Trimmed(b1, b2)
      BY <3>2, TifLeaves
    <3> HIDE DEF b2
    <3>4. Trimmed(b2, b3)
      BY <3>1, <3>3, TifLeaves
    <3> HIDE DEF b3
    <3>5. QED
      BY <1>1, <3>1, <3>2, <3>3, <3>4, TrimmedTransitive
  <2>5. ASSUME NEW i \in Ids, book'.ord[i].place = "book"
        PROVE  book'.ord[i] = book.ord[i]
    <3>1. book.ord[i] \in Order
      BY <1>1 DEF Sound, Book
    <3>2. QED
      BY <2>4, <2>5, <3>1 DEF Trimmed, Ended, Order
  <2>6. QED
    BY <2>1, <2>3, <2>5, OpenedStays
<1>12. QED
  BY <1>3, <1>4, <1>5, <1>6, <1>7, <1>8, <1>9, <1>10, <1>11 DEF Work

LEMMA OpenStep ==
  ASSUME AssertedPrices = {}, AIInv, Paired(book), BookWalks, Exact(book), OpenInv,
         [SNext]_svars
  PROVE  OpenInv'
<1>1. promised' \in Nat /\ (stage' = "backstop" => goal' = "CLOSED")
  BY DayPromises, DayBackstops DEF OpenInv
<1>2. ASSUME UNCHANGED <<phase, stage, goal, halted>>,
             UNCHANGED <<book, pc, matching, eq, promised, printed>>
      PROVE  Opening' => Opened'
  BY <1>2, OpenedStays DEF Opening, OpenInv
<1>3. CASE UNCHANGED svars \/ TimerEnds
  <2>1. UNCHANGED <<phase, stage, goal, halted, book, pc, matching, eq, promised, printed>>
    BY <1>3 DEF svars, TimerEnds, day, halts, avars, vars, dispatch, auction
  <2>2. QED
    BY <1>1, <1>2, <2>1 DEF OpenInv
<1>4. CASE Schedule
  <2>1. PICK to \in Phases : Transition(to)
    BY <1>4 DEF Schedule
  <2>2. stage' = "enter" /\ goal' = "CONTINUOUS" => phase = "CONTINUOUS" /\ to = "CONTINUOUS"
    BY <2>1 DEF Transition, LeavesCall, AfterUncross
  <2>3. to \in Follows[phase] /\ stage' # "none"
    BY <2>1 DEF Transition, MayEnter, AfterUncross
  <2>4. "CONTINUOUS" \notin Follows["CONTINUOUS"]
    BY DEF Follows
  <2>5. ~Opening'
    BY <2>2, <2>3, <2>4 DEF Opening
  <2>6. QED
    BY <1>1, <2>5 DEF OpenInv
<1>5. CASE SMessage
  BY <1>1, <1>5, MessageOpens DEF OpenInv
<1>6. CASE Work
  BY <1>1, <1>6, WorkOpens DEF OpenInv
<1>7. QED
  BY <1>1, <1>2, <1>3, <1>4, <1>5, <1>6 DEF SNext, OpenInv

LEMMA DayOpenInv ==
  ASSUME AssertedPrices = {}
  PROVE  SSpec => [](Paired(book) /\ OpenInv)
<1>1. SInit => Paired(book) /\ BookWalks /\ OpenInv
  <2>1. SInit => Paired(book)
    BY PairsInit DEF SInit, PairInv
  <2>2. SInit => BookWalks
    BY WalksInit DEF SInit
  <2>3. SInit => OpenInv
    BY DEF SInit, AuctionIdle, OpenInv, Opening
  <2>4. QED
    BY <2>1, <2>2, <2>3
<1>2. AIInv /\ Paired(book) /\ [SNext]_svars => Paired(book)'
  <2>1. AIInv /\ Paired(book) /\ [SNext]_svars => Paired(book')
    BY DayPaired
  <2>2. QED
    BY <2>1 DEF Paired, Sibling
<1>3. AIInv /\ Paired(book) /\ BookWalks /\ [SNext]_svars => BookWalks'
  BY DayWalks
<1>4. SInit => Exact(book)
  BY FaithfulInit DEF SInit
<1>5. AIInv /\ Exact(book) /\ [SNext]_svars => Exact(book)'
  BY DayExactStep DEF Exact, ShownAt, Shares
<1>6. AIInv /\ Paired(book) /\ BookWalks /\ Exact(book) /\ OpenInv /\ [SNext]_svars => OpenInv'
  BY OpenStep
<1>7. QED
  BY <1>1, <1>2, <1>3, <1>4, <1>5, <1>6, DayInvariance, PTL DEF SSpec

\* Continuous trading never starts, or goes on, on a crossed book: whatever
\* ended the call phase or the halt before it uncrossed the book first.  The
\* hypothesis is needed: a forced uncross at a price that is not the
\* equilibrium leaves the book crossed.
THEOREM DayOpensUncrossed ==
  ASSUME AssertedPrices = {}
  PROVE  SSpec => []OpensUncrossedSession
<1>1. OpenInv => OpensUncrossedSession
  BY DEF OpenInv, Opening, Opened, OpensUncrossedSession, Quiet, DoMatch, Uncrossed, order
<1>2. QED
  BY <1>1, DayOpenInv, PTL

-----------------------------------------------------------------------------
(***************************************************************************)
(* What a halt stops.                                                      *)
(***************************************************************************)

\* What is left of the order after its own sweep never works on: its type does
\* not rest, or it is of one unit.
LeavesNothing(o) == o.kind \in {"LIMIT", "STOP_LIMIT", "ICEBERG"} => o.qty = 1

\* A second leg that is still to be posted follows its first one.
LegToCome ==
  todo # 0 => /\ todo \in Ids /\ todo - 1 \in Ids
              /\ order(todo).bond \in {"oco", "quote"}
              /\ order(todo - 1).bond = order(todo).bond
              /\ order(todo).group = todo - 1

\* A breaker that has fired acts before the handler returns, and there has
\* been a trade by then; the flag of process() is down before its sweep.
Firing ==
  /\ pc \notin {"sweep", "settle", "next"} => ~traded
  /\ tripped # NoLevel =>
       last # NoPrice /\ pc \in {"process", "refuse", "sweep", "settle", "next"}

\* The first leg of an OCO pair whose second one is still to be posted has
\* ended, or it has not traded yet, or its sweep goes on and will end it.
FirstLegEnds ==
  todo # 0 /\ order(todo).bond = "oco" =>
    LET leg == order(todo - 1)
    IN  \/ leg.status \in Dead
        \/ /\ cur = todo - 1 /\ leg.status \in Working
           /\ Waiting = {} /\ LeavesNothing(leg)
           /\ \/ ~traded /\ tripped = NoLevel
              \/ pc = "sweep" /\ leg.kind \notin {"LIMIT", "STOP_LIMIT", "ICEBERG"}

LegsEnd == LegToCome /\ Firing /\ FirstLegEnds

LEMMA LegToComeStep ==
  ASSUME AIInv, LegToCome, [SNext]_svars
  PROVE  LegToCome'
<1>1. ASSUME NEW l \in Request \X Request, NEW bond \in {"oco", "quote"}, IInv,
             \/ bond = "oco" /\ l \in OcoPairs /\ OcoOrder(l)
             \/ bond = "quote" /\ l \in QuotePairs /\ QuoteNew(l)
      PROVE  LegToCome'
  <2>1. /\ born \in Nat /\ born + 1 \in Ids /\ (born + 1) + 1 \in Ids
        /\ book'.ord[born + 1] = Accepted(l[1], bond, born + 1)
        /\ book'.ord[(born + 1) + 1] = Accepted(l[2], bond, born + 1)
    BY <1>1, PairOrders DEF IInv, TypeOK
  <2>2. todo' = (born + 1) + 1
    BY <1>1, <2>1 DEF OcoOrder, QuoteNew, Start
  <2>3. todo' - 1 = born + 1
    BY <2>1, <2>2
  <2>4. /\ book'.ord[born + 1].bond = bond /\ book'.ord[(born + 1) + 1].bond = bond
        /\ book'.ord[(born + 1) + 1].group = born + 1
    BY <2>1 DEF Accepted
  <2>5. QED
    BY <2>1, <2>2, <2>3, <2>4 DEF LegToCome, order
<1>2. ASSUME NEW r \in NewOrders, NewOrder(r)
      PROVE  LegToCome'
  BY <1>2 DEF NewOrder, Start, LegToCome
<1>3. ASSUME SameBonds(book, book'), todo' \in {0, todo}
      PROVE  LegToCome'
  BY <1>3 DEF LegToCome, SameBonds, SameTies, order
<1>4. CASE UNCHANGED svars
  BY <1>4 DEF svars, avars, vars, dispatch, LegToCome, order
<1>5. CASE SNext
  <2>1. OcoPairs \subseteq Request \X Request /\ QuotePairs \subseteq Request \X Request
    BY RequestsAssumption
  <2>2. ASSUME IInv, NEW l \in OcoPairs, OcoOrder(l)
        PROVE  LegToCome'
    BY <1>1, <2>1, <2>2
  <2>3. ASSUME IInv, NEW l \in QuotePairs, QuoteNew(l)
        PROVE  LegToCome'
    BY <1>1, <2>1, <2>3
  <2>4. QED
    BY <1>2, <1>3, <1>5, <2>2, <2>3, BondsKept
<1>6. QED
  BY <1>4, <1>5

\* Only a trade of a sweep fires the breaker.
LEMMA OnlyTradesFire ==
  ASSUME AIInv, Ranked(book), [SNext]_svars
  PROVE  tripped' \in {tripped, NoLevel} \/ \E p \in Ids : Trade(p)
<1>1. CASE BookStep
  <2>1. CASE \E p \in Ids : Trading(p)
    <3>1. PICK p \in Ids : Trading(p)
      BY <2>1
    <3>2. /\ EngineStep /\ pc = "sweep" /\ Facing(p) /\ SelfMatch(book, cur, p) = "NONE"
          /\ order(cur).rem > 0 /\ p \in Matchable(book, cur)
      BY <1>1, <3>1 DEF BookStep, Trading, Facing, Unfilled, IsBest
    <3>3. IInv /\ Sound(book)
      BY <3>2 DEF AIInv, Uncrossing, IInv
    <3>4. ASSUME NEW q \in Ids, Facing(q)
          PROVE  q = p
      <4>1. SUFFICES ASSUME q # p PROVE FALSE
        OBVIOUS
      <4>2. /\ q \in Matchable(book, cur) /\ ~Ahead(book, q, p) /\ ~Ahead(book, p, q)
        BY <3>2, <3>4, <4>1 DEF Facing, IsBest
      <4>3. /\ order(p).place = "book" /\ order(q).place = "book"
            /\ order(p).side = order(q).side
        BY <3>2, <4>2 DEF Matchable, Resting, order
      <4>4. order(p) \in Order /\ order(q) \in Order
        BY <3>3 DEF Sound, Book, order
      <4>5. /\ order(p).price \in Int /\ order(q).price \in Int
            /\ order(p).seq \in Int /\ order(q).seq \in Int
        <5>1. ASSUME NEW o \in Order
              PROVE  o.price \in Int /\ o.seq \in Int
          <6>1. o.price \in Prices \cup {NoPrice} /\ o.seq \in Nat
            BY DEF Order
          <6>2. \A x \in Prices \cup {NoPrice} : x \in Nat
            BY PricesAssumption DEF NoPrice
          <6>3. QED
            BY <6>1, <6>2
        <5>2. QED
          BY <4>4, <5>1
      <4>6. order(p).seq # order(q).seq
        BY <4>1, <4>3 DEF Ranked, order
      <4>7. /\ ~Better(order(q).side, order(q).price, order(p).price)
            /\ ~Better(order(p).side, order(p).price, order(q).price)
            /\ ~(order(q).price = order(p).price /\ order(q).seq < order(p).seq)
            /\ ~(order(p).price = order(q).price /\ order(p).seq < order(q).seq)
        BY <4>2 DEF Ahead, order
      <4>8. order(p).price = order(q).price
        BY <4>3, <4>5, <4>7 DEF Better
      <4>9. QED
        BY <4>5, <4>6, <4>7, <4>8
    <3>5. ~SweepEnds
      BY <3>2 DEF SweepEnds
    <3>6. \E q \in Ids : Trade(q) \/ SelfMatchPullsResting(q) \/ SelfMatchPullsAggressor(q)
      BY <3>2, <3>5
         DEF EngineStep, Withdraw, Withdrawn, DropCancelled, RejectImmediate, RestUnmatched,
             HandlerRaises, ArmStop, TriggerOnEntry, StartSweep, RefuseFok, RefusePull,
             Refused, Settle, RunStop, PostSecondLeg, DropSecondLeg, HandlerReturns,
             Processing
    <3>7. QED
      BY <3>2, <3>4, <3>6 DEF SelfMatchPullsResting, SelfMatchPullsAggressor
  <2>2. CASE ~\E p \in Ids : Trading(p)
    BY <1>1, <2>2 DEF BookStep, halts
  <2>3. QED
    BY <2>1, <2>2
<1>2. CASE SMessage
  BY <1>2 DEF SMessage, SNewOrder, SOcoOrder, SQuoteNew, SWithdrawal, CancelSymbol, AdminResume,
              OperatorHalts, AdminHalt, ForceUncross, halts
<1>3. CASE PrintStep
  BY <1>3 DEF PrintStep, Record, halts
<1>4. CASE HaltTrips \/ ReadGates \/ Extend \/ Reopen \/ TimerEnds \/ Schedule
  BY <1>4 DEF HaltTrips, ReadGates, Extend, Reopen, TimerEnds, Schedule, Transition, halts
<1>5. CASE ScheduledUncross \/ NoBackstop \/ Backstop \/ EnterPhase \/ UNCHANGED svars
  BY <1>5 DEF ScheduledUncross, NoBackstop, Backstop, EnterPhase, halts, svars
<1>6. QED
  BY <1>1, <1>2, <1>3, <1>4, <1>5 DEF SNext, Work

LEMMA TradedStep ==
  ASSUME AIInv, pc \notin {"sweep", "settle", "next"} => ~traded, [SNext]_svars,
         pc' \notin {"sweep", "settle", "next"}
  PROVE  ~traded'
<1>1. CASE Message
  <2>1. pc = "idle" /\ traded' = traded
    BY <1>1 DEF Message, NewOrder, OcoOrder, QuoteNew, QuoteCancel, KillSwitch, CancelOrder,
                OcoCancel, Amend, Start, CallPhaseBegins, NoMessage, dispatch, vars
  <2>2. QED
    BY <2>1
<1>2. CASE EngineStep
  BY <1>2 DEF EngineStep, Withdraw, Withdrawn, DropCancelled, RejectImmediate, RestUnmatched,
              HandlerRaises, ArmStop, TriggerOnEntry, StartSweep, RefuseFok, RefusePull,
              Refused, Trade, SelfMatchPullsResting, SelfMatchPullsAggressor, SweepEnds,
              Settle, RunStop, PostSecondLeg, DropSecondLeg, HandlerReturns, dispatch,
              Processing, Facing, Unfilled
<1>3. CASE UncrossStep
  BY <1>3 DEF UncrossStep, UncrossFill, UncrossSelfMatch, Unlock, UncrossEnds, UnlockEnds,
              Stay, FollowUp, UncrossPublished, dispatch
<1>4. CASE pc = "idle" /\ Starts
  BY <1>4 DEF Starts, StartUncross
<1>5. CASE UNCHANGED avars \/ ReadGates \/ Trims \/ UNCHANGED svars
  BY <1>5 DEF svars, avars, vars, dispatch, ReadGates, Trims
<1>6. CASE CancelSymbol
  BY <1>6 DEF CancelSymbol, Ready, Quiet
<1>7. QED
  BY <1>1, <1>2, <1>3, <1>4, <1>5, <1>6, DaySteps DEF Next

LEMMA FiringStep ==
  ASSUME AIInv, Ranked(book), Firing, [SNext]_svars
  PROVE  Firing'
<1> DEFINE Busy == {"process", "refuse", "sweep", "settle", "next"}
<1>1. pc' \notin {"sweep", "settle", "next"} => ~traded'
  BY TradedStep DEF Firing
<1>2. SUFFICES ASSUME tripped' # NoLevel
               PROVE  last' # NoPrice /\ pc' \in Busy
  BY <1>1 DEF Firing
<1>3. ASSUME NEW p \in Ids, Trade(p)
      PROVE  last' # NoPrice /\ pc' \in Busy
  <2>1. pc = "sweep" /\ pc' = "sweep" /\ last' = order(p).price /\ Facing(p)
    BY <1>3 DEF Trade, Facing, Unfilled
  <2>2. IInv
    BY <2>1 DEF AIInv, Uncrossing
  <2>3. order(p).price \in Prices
    BY <2>1, <2>2, FacingFacts DEF OrderSound, Restable
  <2>4. QED
    BY <2>1, <2>3, PricesAssumption DEF NoPrice
<1>4. ASSUME tripped # NoLevel
      PROVE  last' # NoPrice /\ pc' \in Busy
  <2>1. last # NoPrice /\ pc \in Busy
    BY <1>4 DEF Firing
  <2>2. CASE BookStep /\ ~\E p \in Ids : Trade(p)
    <3>1. IInv /\ EngineStep
      BY <2>1, <2>2 DEF AIInv, Uncrossing, BookStep
    <3>2. ~HandlerReturns
      BY <1>4, <2>2 DEF BookStep, HandlerReturns
    <3>3. ~HandlerRaises
      BY <2>1 DEF HandlerRaises, TrailingRaises
    <3>4. QED
      BY <2>1, <2>2, <3>1, <3>2, <3>3
         DEF EngineStep, Withdraw, Withdrawn, DropCancelled, RejectImmediate, RestUnmatched,
             ArmStop, TriggerOnEntry, StartSweep, RefuseFok, RefusePull, Refused,
             SelfMatchPullsResting, SelfMatchPullsAggressor, SweepEnds, Settle, RunStop,
             PostSecondLeg, DropSecondLeg, dispatch
  <2>3. CASE UNCHANGED <<last, pc>>
    BY <2>1, <2>3
  <2>4. CASE HaltTrips \/ UNCHANGED avars \/ UNCHANGED svars
    BY <2>1, <2>4 DEF HaltTrips, dispatch, svars, avars, vars
  <2>5. CASE PrintStep
    BY <2>1, <2>5 DEF PrintStep, UncrossStep, UncrossFill, UncrossSelfMatch, Unlock, UncrossEnds,
                      UnlockEnds, FollowUp, UncrossPublished
  <2>6. CASE SMessage \/ Schedule \/ TimerEnds \/ ReadGates \/ Extend \/ Reopen
             \/ ScheduledUncross \/ NoBackstop \/ Backstop \/ EnterPhase
    <3>1. pc = "idle"
      BY <2>6 DEF SMessage, Schedule, Transition, TimerEnds, ReadGates, Extend, Reopen, Due,
                  ScheduledUncross, NoBackstop, Backstop, EnterPhase, Ready, Quiet
    <3>2. QED
      BY <2>1, <3>1
  <2>7. QED
    BY <1>3, <2>2, <2>4, <2>5, <2>6 DEF SNext, Work
<1>5. QED
  BY <1>2, <1>3, <1>4, OnlyTradesFire

\* Nothing starts to wait except at the end of a process() that has traded.
LEMMA NothingWakes ==
  ASSUME IInv, Next, Waiting = {}, ~(Settle /\ traded)
  PROVE  Waiting' = {}
<1>1. ASSUME Undisturbed(book')
      PROVE  Waiting' = {}
  BY <1>1 DEF Undisturbed, Waiting, order
<1>2. CASE Message
  BY <1>1, <1>2, MessageQuiet DEF Silent
<1>3. CASE \/ DropCancelled \/ RejectImmediate \/ RestUnmatched \/ HandlerRaises
           \/ TriggerOnEntry \/ StartSweep \/ RefuseFok
  BY <1>1, <1>3, ProcessingQuiet DEF Silent
<1>4. CASE \/ Withdraw \/ Withdrawn \/ RefusePull \/ Refused
           \/ \E p \in Ids : SelfMatchPullsResting(p) \/ SelfMatchPullsAggressor(p)
           \/ SweepEnds
           \/ \E i \in Ids : RunStop(i)
           \/ PostSecondLeg \/ DropSecondLeg \/ HandlerReturns
  BY <1>1, <1>4, HandlingQuiet DEF Silent
<1>5. ASSUME NEW p \in Ids, Trade(p)
      PROVE  Waiting' = {}
  BY <1>1, <1>5, TradeExecutes
<1>6. CASE Settle
  BY <1>1, <1>6, SettleWakes
<1>7. CASE ArmStop
  <2>1. cur \in Ids /\ \A i \in Ids \ {cur} : book'.ord[i] = order(i)
    BY <1>7, ArmStopFacts
  <2>2. book'.ord[cur].place \in {"armed", "trailing"}
    <3> DEFINE o == order(cur)
               n == Resolved(o)
    <3>1. /\ Sound(book) /\ cur \in Ids /\ o \in Order /\ OrderSound(o)
          /\ o.status \in Working /\ last \in Int
      BY <1>7, ProcessingFacts, PricesAssumption DEF ArmStop, IInv, TypeOK, NoPrice
    <3>2. n \in Order
      BY <1>7, <3>1, ResolvedSound DEF ArmStop
    <3>3. book' = IF n.kind = "TRAILING_STOP"
                  THEN [book EXCEPT !.ord[cur] = [n EXCEPT !.place = "trailing"]]
                  ELSE [book EXCEPT
                          !.ord[cur] = [n EXCEPT !.place = "armed", !.seq = book.seq + 1],
                          !.seq = book.seq + 1]
      BY <1>7, <3>1 DEF ArmStop, Resolved, Order
    <3> HIDE DEF n
    <3>4. QED
      BY <3>1, <3>2, <3>3 DEF Sound, Book, Order
  <2>3. QED
    BY <2>1, <2>2 DEF Waiting, order
<1>8. QED
  BY <1>2, <1>3, <1>4, <1>5, <1>6, <1>7 DEF Next, EngineStep

\* A trade of the first leg ends it, or its sweep will.
LEMMA FirstLegTrades ==
  ASSUME AIInv, LegsEnd, NEW p \in Ids, Trade(p), todo # 0, order(todo).bond = "oco"
  PROVE  FirstLegEnds'
<1> DEFINE g == todo - 1
           leg == order(g)
           next == book'.ord[g]
           Resting1 == {"LIMIT", "STOP_LIMIT", "ICEBERG"}
<1>1. /\ pc = "sweep" /\ pc' = "sweep" /\ cur' = cur /\ todo' = todo /\ Facing(p)
      /\ g \in Ids /\ todo \in Ids
  BY DEF Trade, Facing, Unfilled, LegsEnd, LegToCome
<1>2. IInv /\ Next
  BY <1>1 DEF AIInv, Uncrossing, Next, EngineStep
<1>3. CASE leg.status \in Dead
  <2>1. next.status \in Dead
    BY <1>1, <1>2, <1>3, FinalStep DEF Final
  <2>2. QED
    BY <1>1, <2>1 DEF FirstLegEnds, order
<1>4. CASE leg.status \notin Dead
  <2>1. cur = g /\ leg.status \in Working /\ Waiting = {} /\ LeavesNothing(leg)
    BY <1>4 DEF LegsEnd, FirstLegEnds
  <2>2. Waiting' = {}
    BY <1>1, <1>2, <2>1, NothingWakes DEF Settle
  <2>3. /\ next.kind = leg.kind /\ next.qty = leg.qty
        /\ next.status = IF next.rem = 0 THEN "FILLED" ELSE "PARTIAL"
        /\ FillQty(book, cur, p) \in 1 .. leg.rem
        /\ next.rem = leg.rem - FillQty(book, cur, p)
    BY <1>2, <2>1, TradeOrders DEF SameOrder
  <2>4. CASE leg.kind \in Resting1
    <3>1. leg.qty = 1 /\ leg.rem \in Nat /\ leg.rem <= leg.qty
      BY <1>1, <1>2, <2>1, <2>4 DEF LeavesNothing, IInv, Sound, Book, Order, OrderSound, order
    <3>2. next.rem = 0
      BY <2>3, <3>1
    <3>3. next.status \in Dead
      BY <2>3, <3>2 DEF Dead
    <3>4. QED
      BY <1>1, <3>3 DEF FirstLegEnds, order
  <2>5. CASE leg.kind \notin Resting1
    <3>1. next.status \in Dead \/ next.status \in Working
      BY <2>3 DEF Dead, Working
    <3>2. LeavesNothing(next)
      BY <2>3, <2>5 DEF LeavesNothing
    <3>3. QED
      BY <1>1, <2>1, <2>2, <2>3, <2>5, <3>1, <3>2 DEF FirstLegEnds, order
  <2>6. QED
    BY <2>4, <2>5
<1>5. QED
  BY <1>3, <1>4

\* Any other step of the handler leaves the first leg as it is, or ends it.
LEMMA FirstLegHandled ==
  ASSUME AIInv, LegsEnd, EngineStep, ~\E p \in Ids : Trade(p),
         tripped' \in {tripped, NoLevel}, todo # 0, todo' = todo, order(todo).bond = "oco",
         order(todo - 1).status \notin Dead
  PROVE  FirstLegEnds'
<1> DEFINE g == todo - 1
           leg == order(g)
           next == book'.ord[g]
           Resting1 == {"LIMIT", "STOP_LIMIT", "ICEBERG"}
<1>1. /\ cur = g /\ leg.status \in Working /\ Waiting = {} /\ LeavesNothing(leg)
      /\ \/ ~traded /\ tripped = NoLevel
         \/ pc = "sweep" /\ leg.kind \notin Resting1
      /\ g \in Ids
  BY DEF LegsEnd, FirstLegEnds, LegToCome
<1>2. IInv /\ Next
  <2>1. pc \notin {"idle", "uncross", "unlock", "follow-up"}
    BY DEF EngineStep, Withdraw, Withdrawn, DropCancelled, RejectImmediate, RestUnmatched,
           HandlerRaises, ArmStop, TriggerOnEntry, StartSweep, RefuseFok, RefusePull,
           Refused, Trade, SelfMatchPullsResting, SelfMatchPullsAggressor, SweepEnds,
           Settle, RunStop, PostSecondLeg, DropSecondLeg, HandlerReturns, Processing,
           Facing, Unfilled
  <2>2. QED
    BY <2>1 DEF AIInv, Uncrossing, Next
<1>3. pc # "idle"
  BY <1>2 DEF IInv, HandlerOK
<1>4. Calm(leg, next)
  <2>1. CalmBook(book, book')
    BY <1>2, <1>3, StepKinds DEF NewOrder, OcoOrder, QuoteNew, Amend
  <2>2. QED
    BY <1>1, <2>1 DEF CalmBook, order
<1>5. /\ next.status \in Dead \/ next.status = leg.status
      /\ LeavesNothing(next)
      /\ leg.kind \notin Resting1 => next.kind \notin Resting1
  BY <1>1, <1>4 DEF Calm, SameOrder, LeavesNothing, Dead
<1>6. Waiting' = {}
  <2>1. ~(Settle /\ traded)
    BY <1>1 DEF Settle
  <2>2. QED
    BY <1>1, <1>2, <2>1, NothingWakes
<1>7. SUFFICES ASSUME next.status \notin Dead
               PROVE  /\ cur' = cur
                      /\ \/ ~traded' /\ tripped' = NoLevel
                         \/ pc' = "sweep" /\ leg.kind \notin Resting1
  BY <1>1, <1>5, <1>6 DEF FirstLegEnds, order
<1>8. leg \in Order /\ OrderSound(leg) /\ leg.rem > 0 /\ book \in Book
  BY <1>1, <1>2 DEF IInv, Sound, Book, OrderSound, order
<1>9. ASSUME NEW p \in Ids, SelfMatchPullsAggressor(p)
      PROVE  FALSE
  <2>1. Facing(p) /\ book' = [(IF SelfMatch(book, cur, p) = "CANCEL_BOTH"
                               THEN SmpCancel(book, p) ELSE book)
                              EXCEPT !.ord[cur].status = "CANCELLED"]
    BY <1>9 DEF SelfMatchPullsAggressor
  <2>2. SmpCancel(book, p) \in Book
    BY <1>2, <1>9, <2>1, FacingFacts, SmpCancelThins DEF Sound
  <2>3. next.status = "CANCELLED"
    <3> DEFINE b == IF SelfMatch(book, cur, p) = "CANCEL_BOTH" THEN SmpCancel(book, p) ELSE book
    <3>1. b \in Book /\ book' = [b EXCEPT !.ord[cur].status = "CANCELLED"]
      BY <1>8, <2>1, <2>2
    <3> HIDE DEF b
    <3>2. QED
      BY <1>1, <3>1 DEF Book, Order
  <2>4. QED
    BY <1>7, <2>3 DEF Dead
<1>10. CASE SweepEnds
  <2>1. /\ cur' = cur /\ traded' = traded /\ pc = "sweep"
        /\ book' = IF leg.kind \in Restable THEN Rest(book, cur)
                   ELSE [book EXCEPT !.ord[cur].status = "CANCELLED"]
    BY <1>1, <1>8, <1>10 DEF SweepEnds
  <2>2. CASE leg.kind \in Resting1
    BY <1>1, <2>1, <2>2
  <2>3. CASE leg.kind \notin Resting1
    <3>1. next.status = "CANCELLED"
      BY <1>1, <1>8, <2>1, <2>3 DEF Book, Order, Restable
    <3>2. QED
      BY <1>7, <3>1 DEF Dead
  <2>4. QED
    BY <2>2, <2>3
<1>11. CASE ~SweepEnds
  <2>1. \A i \in Ids : ~RunStop(i)
    BY <1>1 DEF RunStop
  <2>2. ~HandlerRaises /\ ~PostSecondLeg /\ ~DropSecondLeg /\ ~HandlerReturns
    BY DEF HandlerRaises, PostSecondLeg, DropSecondLeg, HandlerReturns
  <2>3. \/ Withdraw \/ Withdrawn \/ DropCancelled \/ RejectImmediate \/ RestUnmatched
        \/ ArmStop \/ TriggerOnEntry \/ StartSweep \/ RefuseFok \/ RefusePull \/ Refused
        \/ Settle
        \/ \E p \in Ids : SelfMatchPullsResting(p)
    BY <1>9, <1>11, <2>1, <2>2 DEF EngineStep
  <2>4. /\ cur' = cur /\ traded' = traded
        /\ pc = "sweep" => pc' = "sweep"
    BY <2>3
       DEF Withdraw, Withdrawn, DropCancelled, RejectImmediate, RestUnmatched, ArmStop,
           TriggerOnEntry, StartSweep, RefuseFok, RefusePull, Refused,
           SelfMatchPullsResting, Settle, Processing, dispatch
  <2>5. QED
    BY <1>1, <2>4
<1>12. QED
  BY <1>10, <1>11

LEMMA FirstLegStep ==
  ASSUME \A l \in OcoPairs : LeavesNothing(l[1]),
         AIInv, Ranked(book), LegsEnd, [SNext]_svars
  PROVE  FirstLegEnds'
<1>1. ASSUME IInv, NEW l \in OcoPairs, OcoOrder(l)
      PROVE  FirstLegEnds'
  <2>1. l \in Request \X Request /\ "oco" \in {"oco", "quote"}
    BY RequestsAssumption
  <2>2. /\ born \in Nat /\ born + 1 \in Ids
        /\ book'.ord[born + 1] = Accepted(l[1], "oco", born + 1)
        /\ todo' = (born + 1) + 1 /\ cur' = born + 1 /\ pc = "idle" /\ pc' = "process"
    BY <1>1, <2>1, PairOrders DEF IInv, TypeOK, OcoOrder, Start
  <2>3. /\ book'.ord[born + 1].status = "NEW"
        /\ book'.ord[born + 1].kind = l[1].kind /\ book'.ord[born + 1].qty = l[1].qty
    BY <2>2 DEF Accepted
  <2>4. Waiting' = {}
    <3>1. Waiting = {} /\ Next
      BY <1>1, <2>2, IdleFacts DEF Waiting, Next, Message
    <3>2. QED
      BY <1>1, <2>2, <3>1, NothingWakes DEF Settle
  <2>5. ~traded' /\ tripped' = NoLevel
    <3>1. ~traded'
      BY <2>2, TradedStep DEF LegsEnd, Firing
    <3>2. tripped = NoLevel /\ \A p \in Ids : ~Trade(p)
      BY <2>2 DEF LegsEnd, Firing, Trade, Facing, Unfilled
    <3>3. QED
      BY <3>1, <3>2, OnlyTradesFire
  <2>6. /\ todo' - 1 = born + 1 /\ LeavesNothing(book'.ord[born + 1])
    BY <1>1, <2>2, <2>3 DEF LeavesNothing
  <2>7. QED
    BY <2>2, <2>3, <2>4, <2>5, <2>6 DEF FirstLegEnds, Working, order
<1>2. ASSUME NEW r \in NewOrders, NewOrder(r)
      PROVE  FirstLegEnds'
  BY <1>2 DEF NewOrder, Start, FirstLegEnds
<1>3. ASSUME IInv, NEW l \in QuotePairs, QuoteNew(l)
      PROVE  FirstLegEnds'
  <2>1. l \in Request \X Request /\ "quote" \in {"oco", "quote"}
    BY RequestsAssumption
  <2>2. /\ born \in Nat /\ book'.ord[(born + 1) + 1] = Accepted(l[2], "quote", born + 1)
        /\ todo' = (born + 1) + 1
    BY <1>3, <2>1, PairOrders DEF IInv, TypeOK, QuoteNew
  <2>3. book'.ord[(born + 1) + 1].bond = "quote"
    BY <2>2 DEF Accepted
  <2>4. QED
    BY <2>2, <2>3 DEF FirstLegEnds, order
<1>4. ASSUME SameBonds(book, book'), todo' = todo, todo # 0, order(todo).bond = "oco"
      PROVE  FirstLegEnds'
  <2>1. todo \in Ids /\ todo - 1 \in Ids
    BY <1>4 DEF LegsEnd, LegToCome
  <2>2. pc # "idle" /\ ~Uncrossing
    BY <1>4 DEF AIInv, UncrossOK, IInv, HandlerOK, Uncrossing
  <2>3. IInv /\ Sound(book)
    BY <2>2 DEF AIInv, IInv
  <2>4. CASE \E p \in Ids : Trade(p)
    BY <1>4, <2>4, FirstLegTrades
  <2>5. ASSUME ~\E p \in Ids : Trade(p), tripped' \in {tripped, NoLevel}
        PROVE  FirstLegEnds'
    <3>1. CASE IInv /\ Next /\ order(todo - 1).status \in Dead
      <4>1. book'.ord[todo - 1].status \in Dead
        BY <2>1, <3>1, FinalStep DEF Final
      <4>2. QED
        BY <1>4, <4>1 DEF FirstLegEnds, order
    <3>2. CASE IInv /\ Next /\ order(todo - 1).status \notin Dead
      <4>1. EngineStep
        BY <2>2, <3>2 DEF Next, Message, NewOrder, OcoOrder, QuoteNew, QuoteCancel,
                          KillSwitch, CancelOrder, OcoCancel, Amend, CallPhaseBegins, NoMessage
      <4>2. QED
        BY <1>4, <2>5, <3>2, <4>1, FirstLegHandled
    <3>3. CASE UNCHANGED avars \/ UNCHANGED svars
      BY <1>4, <2>5, <3>3
         DEF LegsEnd, FirstLegEnds, svars, avars, vars, dispatch, Waiting, order
    <3>4. CASE Trims
      <4>1. \A i \in Ids : /\ book'.ord[i].place \in {order(i).place, "none"}
                           /\ book'.ord[i] = order(i) \/ book'.ord[i].status \in Dead
        <5>1. ASSUME NEW i \in Ids
              PROVE  /\ book'.ord[i].place \in {order(i).place, "none"}
                     /\ book'.ord[i] = order(i) \/ book'.ord[i].status \in Dead
          <6>1. order(i) \in Order /\ OrderSound(order(i))
            BY <2>3 DEF Sound, Book, order
          <6>2. QED
            BY <2>3, <3>4, <6>1, TrimmedOrder, EndedSound DEF Trims, Trimmed, Dead, order
        <5>2. QED
          BY <5>1
      <4>2. UNCHANGED <<pc, cur, traded>>
        BY <3>4 DEF Trims, dispatch
      <4>3. Waiting = {} => Waiting' = {}
        BY <4>1 DEF Waiting, order
      <4>4. CASE book'.ord[todo - 1].status \in Dead
        BY <1>4, <4>4 DEF FirstLegEnds, order
      <4>5. CASE book'.ord[todo - 1] = order(todo - 1)
        BY <1>4, <2>5, <4>2, <4>3, <4>5 DEF LegsEnd, FirstLegEnds, order
      <4>6. QED
        BY <2>1, <4>1, <4>4, <4>5
    <3>5. CASE UncrossStep
      BY <2>2, <3>5
         DEF UncrossStep, UncrossFill, UncrossSelfMatch, Unlock, UncrossEnds, UnlockEnds,
             FollowUp, UncrossPublished, Uncrossing
    <3>6. CASE pc = "idle" \/ ReadGates \/ CancelSymbol
      BY <2>2, <3>6 DEF ReadGates, CancelSymbol, Ready, Quiet
    <3>7. QED
      BY <3>1, <3>2, <3>3, <3>4, <3>5, <3>6, DaySteps
  <2>6. QED
    BY <2>4, <2>5, OnlyTradesFire
<1>5. ASSUME SameBonds(book, book'), todo' \in {0, todo}
      PROVE  FirstLegEnds'
  <2>1. CASE todo' = 0
    BY <2>1 DEF FirstLegEnds
  <2>2. CASE todo' = todo /\ todo # 0
    <3>1. book'.ord[todo].bond = order(todo).bond
      BY <1>5, <2>2 DEF LegsEnd, LegToCome, SameBonds, SameTies, order
    <3>2. CASE order(todo).bond = "oco"
      BY <1>4, <1>5, <2>2, <3>2
    <3>3. CASE order(todo).bond # "oco"
      BY <2>2, <3>1, <3>3 DEF FirstLegEnds, order
    <3>4. QED
      BY <3>2, <3>3
  <2>3. QED
    BY <1>5, <2>1, <2>2
<1>6. CASE UNCHANGED svars
  BY <1>5, <1>6 DEF svars, avars, vars, dispatch, SameBonds, SameTies
<1>7. CASE SNext
  BY <1>1, <1>2, <1>3, <1>5, <1>7, BondsKept
<1>8. QED
  BY <1>6, <1>7

\* A halted symbol runs no uncross.  If its engine still matches then it has
\* just tripped: the dispatch is over but for a second leg that will not be
\* posted, and matching is switched off before the next message is read.
Stopped ==
  halted =>
    /\ ~Uncrossing
    /\ matching =>
         \/ pc = "idle"
         \/ pc = "next" /\ Waiting = {} /\ (todo = 0 \/ Stillborn(todo))

\* The breaker that trips takes the quotes away, so that the second leg of a
\* quote is never posted; that of an OCO pair is not posted either, since the
\* first one has ended.
LEMMA TripStops ==
  ASSUME AIInv, LegsEnd, HaltTrips
  PROVE  Stopped'
<1>1. /\ pc = "next" /\ pc' = "next" /\ Waiting = {} /\ todo' = todo
      /\ book' = WithoutQuotes(book)
  BY DEF HaltTrips, dispatch
<1>2. IInv /\ Sound(book)
  BY <1>1 DEF AIInv, Uncrossing, IInv
<1>3. Trimmed(book, book') /\ book'.live = book.live \ AllQuotes(book)
  BY <1>1, <1>2, QuotesLeave
<1>4. Waiting' = {}
  <2>1. \A i \in Ids : book'.ord[i].place \in {order(i).place, "none"}
    BY <1>2, <1>3, TrimmedOrder DEF order
  <2>2. QED
    BY <1>1, <2>1 DEF Waiting, order
<1>5. ASSUME todo # 0
      PROVE  Stillborn(todo)'
  <2>1. /\ todo \in Ids /\ todo - 1 \in Ids /\ order(todo).bond \in {"oco", "quote"}
        /\ order(todo - 1).bond = order(todo).bond /\ order(todo).group = todo - 1
    BY <1>5 DEF LegsEnd, LegToCome
  <2>2. /\ book'.ord[todo].bond = order(todo).bond
        /\ book'.ord[todo].group = todo - 1
    BY <1>2, <1>3, <2>1, TrimmedOrder DEF SameTies, order
  <2>3. CASE order(todo).bond = "oco"
    <3>1. order(todo - 1).status \in Dead
      BY <1>1, <1>5, <2>3 DEF LegsEnd, FirstLegEnds, HaltTrips
    <3>2. book'.ord[todo - 1] = order(todo - 1)
      BY <1>2, <1>3, <2>1, <3>1, TrimmedOrder DEF Dead, Working, order
    <3>3. QED
      BY <1>1, <2>2, <2>3, <3>1, <3>2 DEF Stillborn, order
  <2>4. CASE order(todo).bond = "quote"
    <3>1. todo - 1 \notin book'.live
      BY <1>3, <2>1, <2>4 DEF AllQuotes, order
    <3>2. QED
      BY <1>1, <2>2, <2>4, <3>1 DEF Stillborn, order
  <2>5. QED
    BY <2>1, <2>3, <2>4
<1>6. QED
  BY <1>1, <1>4, <1>5 DEF Stopped, Uncrossing

LEMMA StoppedStep ==
  ASSUME AIInv, LegsEnd, Stopped, [SNext]_svars
  PROVE  Stopped'
<1>1. ASSUME pc = "idle", pc' \in {"idle", "withdraw", "process"},
             pc' # "idle" => ~matching' \/ ~halted'
      PROVE  Stopped'
  BY <1>1 DEF Stopped, Uncrossing
<1>2. CASE HaltTrips
  BY <1>2, TripStops
<1>3. ASSUME ~halted'
      PROVE  Stopped'
  BY <1>3 DEF Stopped
<1>4. CASE UNCHANGED svars \/ TimerEnds \/ Extend \/ Schedule \/ NoBackstop
  <2>1. UNCHANGED avars /\ halted' = halted
    BY <1>4 DEF svars, halts, TimerEnds, Extend, Schedule, Transition, NoBackstop
  <2>2. QED
    BY <2>1 DEF avars, vars, dispatch, Stopped, Uncrossing, Waiting, Stillborn, order
<1>5. CASE ReadGates \/ EnterPhase \/ OperatorHalts
  BY <1>1, <1>5 DEF ReadGates, Quiet, EnterPhase, OperatorHalts, AdminHalt, Ready, dispatch
<1>6. CASE SMessage /\ ~OperatorHalts
  <2>1. SUFFICES ASSUME halted' PROVE Stopped'
    BY <1>3
  <2>2. pc = "idle" /\ matching = DoMatch
    BY <1>6 DEF SMessage, Ready, Quiet
  <2>3. /\ ~AdminResume
        /\ ~\E p \in AssertedPrices \cup {NoPrice} : ForceUncross(p)
    BY <2>1 DEF AdminResume, ForceUncross
  <2>4. /\ UNCHANGED halted /\ matching' = matching
        /\ pc' \in {"idle", "withdraw", "process"}
    BY <1>6, <2>2, <2>3
       DEF SMessage, SNewOrder, SOcoOrder, SQuoteNew, SWithdrawal, CancelSymbol, halts,
           NewOrder, OcoOrder, QuoteNew, QuoteCancel, KillSwitch, CancelOrder, OcoCancel,
           Amend, Start, dispatch
  <2>5. QED
    BY <1>1, <2>1, <2>2, <2>4 DEF DoMatch
<1>7. CASE Reopen \/ Backstop
  BY <1>3, <1>7 DEF Reopen, Backstop
<1>8. CASE ScheduledUncross
  <2>1. CASE halted
    BY <1>8, <2>1 DEF ScheduledUncross, avars, vars, dispatch, halts, Stopped, Uncrossing
  <2>2. CASE ~halted
    BY <1>3, <1>8, <2>2 DEF ScheduledUncross, halts
  <2>3. QED
    BY <2>1, <2>2
<1>9. CASE PrintStep
  <2>1. Uncrossing /\ halted' = halted
    BY <1>9 DEF PrintStep, UncrossStep, UncrossFill, UncrossSelfMatch, Unlock, UncrossEnds,
                UnlockEnds, FollowUp, UncrossPublished, Uncrossing, Record, halts
  <2>2. QED
    BY <1>3, <2>1 DEF Stopped
<1>10. CASE BookStep
  <2>1. EngineStep /\ halted' = halted
    BY <1>10 DEF BookStep, Record, halts
  <2>2. SUFFICES ASSUME halted PROVE Stopped'
    BY <1>3, <2>1
  <2>3. ~Uncrossing /\ ~Uncrossing' /\ matching' = matching
    BY <2>1, <2>2
       DEF Stopped, Uncrossing, EngineStep, Withdraw, Withdrawn, DropCancelled,
           RejectImmediate, RestUnmatched, HandlerRaises, ArmStop, TriggerOnEntry,
           StartSweep, RefuseFok, RefusePull, Refused, Trade, SelfMatchPullsResting,
           SelfMatchPullsAggressor, SweepEnds, Settle, RunStop, PostSecondLeg, DropSecondLeg,
           HandlerReturns, dispatch
  <2>4. CASE ~matching
    BY <2>3, <2>4 DEF Stopped
  <2>5. CASE matching
    <3>1. pc = "next" /\ Waiting = {} /\ (todo = 0 \/ Stillborn(todo))
      <4>1. pc # "idle"
        BY <2>1
           DEF EngineStep, Withdraw, Withdrawn, DropCancelled, RejectImmediate,
               RestUnmatched, HandlerRaises, ArmStop, TriggerOnEntry, StartSweep, RefuseFok,
               RefusePull, Refused, Trade, SelfMatchPullsResting, SelfMatchPullsAggressor,
               SweepEnds, Settle, RunStop, PostSecondLeg, DropSecondLeg, HandlerReturns,
               Processing, Facing, Unfilled
      <4>2. QED
        BY <2>2, <2>5, <4>1 DEF Stopped
    <3>2. DropSecondLeg \/ HandlerReturns
      BY <2>1, <3>1
         DEF EngineStep, Withdraw, Withdrawn, DropCancelled, RejectImmediate, RestUnmatched,
             HandlerRaises, ArmStop, TriggerOnEntry, StartSweep, RefuseFok, RefusePull,
             Refused, Trade, SelfMatchPullsResting, SelfMatchPullsAggressor, SweepEnds,
             Settle, RunStop, PostSecondLeg, Processing, Facing, Unfilled
    <3>3. CASE HandlerReturns
      BY <2>3, <3>3 DEF HandlerReturns, Stopped
    <3>4. CASE DropSecondLeg
      <4>1. /\ book' = [book EXCEPT !.ord[todo].status = "CANCELLED"]
            /\ todo' = 0 /\ pc' = pc
        BY <3>4 DEF DropSecondLeg
      <4>2. IInv /\ todo \in Ids
        BY <3>1, <3>4 DEF AIInv, Uncrossing, DropSecondLeg, LegsEnd, LegToCome
      <4>3. book'.ord = [book.ord EXCEPT ![todo] = [@ EXCEPT !.status = "CANCELLED"]]
        BY <4>1, <4>2 DEF IInv, TypeOK, Book
      <4>4. \A i \in Ids : book'.ord[i].place = order(i).place
        BY <4>2, <4>3 DEF IInv, TypeOK, Book, Order, order
      <4>5. Waiting' = {}
        BY <3>1, <4>4 DEF Waiting, order
      <4>6. QED
        BY <2>3, <3>1, <4>1, <4>5 DEF Stopped
    <3>5. QED
      BY <3>2, <3>3, <3>4
  <2>6. QED
    BY <2>4, <2>5
<1>11. QED
  BY <1>2, <1>4, <1>5, <1>6, <1>7, <1>8, <1>9, <1>10 DEF SNext, Work

LEMMA StoppedExecutesNothing ==
  ASSUME AIInv, Stopped, [SNext]_svars, halted, halted', NEW i \in Ids
  PROVE  ~Executes(i)
<1>1. Sound(book)
  BY AuctionSound
<1>2. ~Uncrossing /\ pc # "sweep"
  BY DEF Stopped, AIInv, IInv, HandlerOK
<1>3. CASE IInv /\ Next
  <2>1. \A p \in Ids : ~Trade(p)
    BY <1>2 DEF Trade, Facing, Unfilled
  <2>2. QED
    BY <1>3, <2>1, OnlyTradesExecute
<1>4. CASE UncrossStep
  BY <1>2, <1>4
     DEF UncrossStep, UncrossFill, UncrossSelfMatch, Unlock, UncrossEnds, UnlockEnds,
         FollowUp, UncrossPublished, Uncrossing
<1>5. CASE Starts \/ UNCHANGED avars \/ ReadGates \/ UNCHANGED svars
  BY <1>1, <1>5, NothingExecutes DEF Starts, StartUncross, svars, avars, vars, ReadGates, order
<1>6. CASE Trims
  BY <1>1, <1>6, TrimmedOrder, NothingExecutes DEF Trims, order
<1>7. CASE CancelSymbol
  BY <1>1, <1>7, CancelSymbolInv, NothingExecutes DEF order
<1>8. QED
  BY <1>3, <1>4, <1>5, <1>6, <1>7, DaySteps

\* A halted symbol does not trade until its halt ends, whatever was in
\* progress when it was halted: not by the rest of the dispatch that tripped
\* the breaker, not by a new order, an amend or a stop, not by a scheduled
\* uncross.  The hypothesis is needed: the second leg of an OCO pair is posted,
\* and matched, after its first leg has halted the symbol, unless the trades of
\* the first leg have ended it.
THEOREM HaltsHold ==
  ASSUME \A l \in OcoPairs : LeavesNothing(l[1])
  PROVE  SSpec => HaltedNeverTrades
<1>1. SInit => Paired(book) /\ BookWalks /\ LegsEnd /\ Stopped
  <2>1. SInit => Paired(book) /\ BookWalks
    BY PairsInit, WalksInit DEF SInit, PairInv
  <2>2. SInit => LegsEnd /\ Stopped
    BY DEF SInit, Init, LegsEnd, LegToCome, Firing, FirstLegEnds, Stopped
  <2>3. QED
    BY <2>1, <2>2
<1>2. AIInv /\ Paired(book) /\ [SNext]_svars => Paired(book)'
  <2>1. AIInv /\ Paired(book) /\ [SNext]_svars => Paired(book')
    BY DayPaired
  <2>2. QED
    BY <2>1 DEF Paired, Sibling
<1>3. AIInv /\ Paired(book) /\ BookWalks /\ [SNext]_svars => BookWalks'
  BY DayWalks
<1>4. AIInv /\ BookWalks /\ LegsEnd /\ [SNext]_svars => LegsEnd'
  <2>1. BookWalks => Ranked(book)
    BY DEF BookWalks, Sequenced
  <2>2. QED
    BY <2>1, LegToComeStep, FiringStep, FirstLegStep DEF LegsEnd
<1>5. AIInv /\ LegsEnd /\ Stopped /\ [SNext]_svars => Stopped'
  BY StoppedStep
<1>6. AIInv /\ Stopped /\ [SNext]_svars
        => [halted /\ halted' => \A i \in Ids : ~Executes(i)]_svars
  BY StoppedExecutesNothing
<1>7. QED
  BY <1>1, <1>2, <1>3, <1>4, <1>5, <1>6, DayInvariance, PTL DEF SSpec, HaltedNeverTrades

-----------------------------------------------------------------------------
(***************************************************************************)
(* What the variables of the day hold.                                     *)
(***************************************************************************)
Breaker ==
  [on : BOOLEAN, timer : {"none", "running", "due"}, ref : Nat, centre : Nat,
   widened : 0 .. MaxExtensions]

HaltsTyped ==
  /\ halted \in BOOLEAN /\ breaker \in Breaker
  /\ window \in Seq(Prices) /\ Len(window) <= MaxWindow /\ tripped \in Nat

StageTyped ==
  /\ phase \in Phases /\ goal \in Phases \cup {"none"}
  /\ stage \in {"none", "uncross", "backstop", "enter"}
  /\ stage # "none" => goal \in Phases

\* The mean of prices is at least one tick.
LEMMA MeanOfPrices ==
  ASSUME NEW s \in Seq(Prices), s # <<>>
  PROVE  Mean(s) \in Nat \ {0}
<1> DEFINE D == DOMAIN s
           ones == D \X {1}
<1>1. Len(s) \in Nat \ {0} /\ D = 1 .. Len(s)
  OBVIOUS
<1>2. \A i \in D : s[i] \in Nat \ {0}
  <2>1. \A i \in D : s[i] \in Prices
    BY <1>1
  <2>2. QED
    BY <2>1, PricesAssumption DEF NoPrice
<1>3. IsFiniteSet(D) /\ Cardinality(D) = Len(s)
  BY <1>1, FS_Interval
<1>4. IsFiniteSet(Unit(D, s)) /\ Total(s) = Cardinality(Unit(D, s)) /\ Total(s) \in Nat
  BY <1>2, <1>3, UnitsNatural DEF Total
<1>5. ones \subseteq Unit(D, s)
  <2>1. \A i \in D : {i} \X {1} \subseteq {i} \X (1 .. s[i])
    BY <1>2
  <2>2. QED
    BY <2>1 DEF Unit
<1>6. Cardinality(ones) = Len(s)
  <2>1. IsFiniteSet({1}) /\ Cardinality({1}) = 1
    BY FS_Singleton
  <2>2. Cardinality(D \X {1}) = Cardinality(D) * Cardinality({1})
    <3> HIDE DEF D
    <3>1. QED
      BY <1>3, <2>1, FS_Product
  <2>3. QED
    BY <1>1, <1>3, <2>1, <2>2
<1>7. Cardinality(ones) <= Cardinality(Unit(D, s))
  <2> HIDE DEF ones, D
  <2>1. QED
    BY <1>4, <1>5, FS_Subset
<1> HIDE DEF ones, D
<1>8. Total(s) >= Len(s)
  BY <1>4, <1>6, <1>7
<1>9. \A a \in Nat, n \in Nat \ {0} : a >= n => a \div n \in Nat /\ a \div n >= 1
  OBVIOUS
<1>10. QED
  BY <1>1, <1>4, <1>8, <1>9 DEF Mean

\* What a print fires is a level of the ladder, or none: only finitely many
\* thresholds can be reached.
LEMMA FiredNatural ==
  ASSUME NEW p \in Nat, NEW ref \in Nat \ {0}
  PROVE  Fired(p, ref) \in Nat
<1> DEFINE reached == {l.shift : l \in {m \in HaltLevels : 100 * Distance(p, ref) >= m.shift * ref}}
<1>1. Distance(p, ref) \in Nat
  BY DEF Distance
<1>2. \A m \in HaltLevels : m.shift \in Nat
  BY SessionAssumption
<1>3. \A x \in Nat : x <= x * ref
  OBVIOUS
<1>4. reached \subseteq Nat /\ \A t \in reached : t <= 100 * Distance(p, ref)
  <2>1. ASSUME NEW m \in HaltLevels, 100 * Distance(p, ref) >= m.shift * ref
        PROVE  m.shift <= 100 * Distance(p, ref)
    <3>1. m.shift \in Nat /\ m.shift <= m.shift * ref /\ m.shift * ref \in Nat
      BY <1>2, <1>3
    <3>2. QED
      BY <1>1, <2>1, <3>1
  <2>2. QED
    BY <1>2, <2>1
<1>5. Fired(p, ref) = IF reached = {} THEN NoLevel
                      ELSE CHOOSE s \in reached : \A t \in reached : t <= s
  BY DEF Fired
<1> HIDE DEF reached
<1>6. CASE reached # {}
  <2>1. \E s \in reached : \A t \in reached : t <= s
    <3>1. PICK m \in Nat : m = 100 * Distance(p, ref)
      BY <1>1
    <3>2. \A t \in reached : t <= m
      BY <1>4, <3>1
    <3>3. QED
      BY <1>4, <1>6, <3>2, GreatestExists
  <2>2. QED
    BY <1>4, <1>5, <1>6, <2>1
<1>7. QED
  BY <1>5, <1>6 DEF NoLevel

\* What a print leaves in the window and in the breaker.
LEMMA Recorded ==
  ASSUME HaltsTyped, NEW p \in Prices, NEW may \in BOOLEAN, Record(p, may)
  PROVE  HaltsTyped'
<1>1. CASE UNCHANGED halts
  BY <1>1 DEF halts, HaltsTyped
<1>2. CASE ~(breaker.on \/ tripped # NoLevel)
  <2>1. PICK k \in 0 .. Least(Len(window), MaxWindow - 1) :
          LET kept   == Kept(k)
              judged == may /\ kept # <<>>
          IN  /\ window' = Append(kept, p)
              /\ breaker' = IF judged THEN [breaker EXCEPT !.ref = Mean(kept)] ELSE breaker
              /\ tripped' = IF judged THEN Fired(p, Mean(kept)) ELSE NoLevel
              /\ UNCHANGED halted
    BY <1>2 DEF Record
  <2>2. /\ Len(window) \in Nat /\ MaxWindow \in Nat \ {0} /\ k \in Nat
        /\ k <= Len(window) /\ k <= MaxWindow - 1
    BY SessionAssumption DEF HaltsTyped, Least
  <2>3. Kept(k) \in Seq(Prices) /\ Len(Kept(k)) = k
    <3> DEFINE lo == Len(window) - k + 1
               hi == Len(window)
    <3>1. lo \in Int /\ hi \in Int /\ \A i \in lo .. hi : window[i] \in Prices
      BY <2>2 DEF HaltsTyped
    <3>2. hi - lo + 1 = k /\ (lo <= hi <=> k > 0)
      BY <2>2
    <3>3. Kept(k) = SubSeq(window, lo, hi)
      BY DEF Kept
    <3> HIDE DEF lo, hi
    <3>4. Kept(k) \in Seq(Prices) /\ Len(Kept(k)) = IF lo <= hi THEN hi - lo + 1 ELSE 0
      BY <3>1, <3>3, SubSeqProperties
    <3>5. QED
      BY <2>2, <3>2, <3>4
  <2>4. window' \in Seq(Prices) /\ Len(window') <= MaxWindow
    BY <2>1, <2>2, <2>3
  <2>5. ASSUME Kept(k) # <<>>
        PROVE  Mean(Kept(k)) \in Nat \ {0} /\ Fired(p, Mean(Kept(k))) \in Nat
    BY <2>3, <2>5, MeanOfPrices, FiredNatural, PricesAssumption
  <2>6. breaker' \in Breaker /\ tripped' \in Nat
    BY <2>1, <2>5 DEF HaltsTyped, Breaker, NoLevel
  <2>7. QED
    BY <2>1, <2>4, <2>6 DEF HaltsTyped
<1>3. QED
  BY <1>1, <1>2 DEF Record

LEMMA HaltsTypedStep ==
  ASSUME AIInv, HaltsTyped, [SNext]_svars
  PROVE  HaltsTyped'
<1>1. ASSUME UNCHANGED halts
      PROVE  HaltsTyped'
  BY <1>1 DEF halts, HaltsTyped
<1>2. ASSUME halted' \in BOOLEAN, breaker' \in Breaker, tripped' \in {tripped, NoLevel},
             UNCHANGED window
      PROVE  HaltsTyped'
  BY <1>2 DEF HaltsTyped, NoLevel
<1>3. Deactivated(breaker) \in Breaker /\ HeldByOperator(breaker) \in Breaker
  <2>1. breaker \in Breaker /\ 0 \in 0 .. MaxExtensions
    BY SessionAssumption DEF HaltsTyped
  <2>2. QED
    BY <2>1 DEF Breaker, Deactivated, HeldByOperator, NoPrice
<1>4. ASSUME NEW timed \in BOOLEAN
      PROVE  Activated(breaker, timed) \in Breaker
  <2>1. breaker \in Breaker /\ 0 \in 0 .. MaxExtensions
    BY SessionAssumption DEF HaltsTyped
  <2>2. QED
    BY <2>1 DEF Breaker, Activated
<1>5. CASE OperatorHalts
  <2>1. \A l \in HaltLevels : l.timed \in BOOLEAN
    BY SessionAssumption
  <2>2. breaker' \in Breaker /\ halted' = TRUE /\ UNCHANGED <<window, tripped>>
    BY <1>3, <1>4, <1>5, <2>1 DEF OperatorHalts, AdminHalt
  <2>3. QED
    BY <1>2, <2>2
<1>6. CASE AdminResume \/ (\E p \in AssertedPrices \cup {NoPrice} : ForceUncross(p))
           \/ Reopen \/ Backstop
  <2>1. breaker' \in Breaker /\ halted' = FALSE /\ UNCHANGED <<window, tripped>>
    BY <1>3, <1>6 DEF AdminResume, ForceUncross, Reopen, Backstop
  <2>2. QED
    BY <1>2, <2>1
<1>7. CASE SMessage
  <2>1. \/ UNCHANGED halts \/ OperatorHalts \/ AdminResume
        \/ \E p \in AssertedPrices \cup {NoPrice} : ForceUncross(p)
    BY <1>7 DEF SMessage, SNewOrder, SOcoOrder, SQuoteNew, SWithdrawal, CancelSymbol
  <2>2. QED
    BY <1>1, <1>5, <1>6, <2>1
<1>8. CASE BookStep
  <2>1. ASSUME NEW p \in Ids, Trading(p)
        PROVE  order(p).place = "book" /\ order(p).price \in Prices
    <3>1. order(p).place = "book"
      BY <2>1 DEF Trading, Facing, IsBest, Matchable, Resting, order
    <3>2. OrderSound(order(p))
      BY AuctionSound DEF Sound, order
    <3>3. QED
      BY <3>1, <3>2 DEF OrderSound, Restable
  <2>2. QED
    BY <1>1, <1>8, <2>1, Recorded DEF BookStep
<1>9. CASE PrintStep
  <2>1. CASE printed' > printed
    <3>1. Uncrossing
      BY <1>9 DEF PrintStep, UncrossStep, UncrossFill, UncrossSelfMatch, Unlock, UncrossEnds,
                  UnlockEnds, FollowUp, UncrossPublished, Uncrossing
    <3>2. eq \in Prices
      BY <3>1 DEF AIInv, AuctionTyped
    <3>3. QED
      BY <1>9, <2>1, <3>2, Recorded DEF PrintStep
  <2>2. QED
    BY <1>1, <1>9, <2>1 DEF PrintStep
<1>10. CASE HaltTrips
  <2>1. breaker' \in Breaker /\ halted' = TRUE /\ tripped' = NoLevel /\ UNCHANGED window
    BY <1>4, <1>10 DEF HaltTrips, Timed
  <2>2. QED
    BY <1>2, <2>1
<1>11. CASE TimerEnds
  <2>1. breaker' \in Breaker /\ UNCHANGED <<halted, window, tripped>>
    BY <1>11 DEF TimerEnds, HaltsTyped, Breaker
  <2>2. QED
    BY <1>2, <2>1 DEF HaltsTyped
<1>12. CASE Extend
  <2>1. breaker.widened \in 0 .. MaxExtensions /\ breaker.widened < MaxExtensions
        /\ MaxExtensions \in Nat
    BY <1>12, SessionAssumption DEF Extend, HaltsTyped, Breaker
  <2>2. breaker' = [breaker EXCEPT !.timer = "running", !.widened = @ + 1]
        /\ breaker.widened + 1 \in 0 .. MaxExtensions /\ UNCHANGED <<halted, window, tripped>>
    BY <1>12, <2>1 DEF Extend
  <2>3. breaker' \in Breaker
    BY <2>2 DEF HaltsTyped, Breaker
  <2>4. QED
    BY <1>2, <2>2, <2>3 DEF HaltsTyped
<1>13. CASE EnterPhase
  <2>1. UNCHANGED <<window, tripped>>
        /\ ((breaker' = Deactivated(breaker) /\ halted' = FALSE) \/ UNCHANGED <<breaker, halted>>)
    BY <1>13 DEF EnterPhase
  <2>2. QED
    BY <1>2, <1>3, <2>1 DEF HaltsTyped
<1>14. CASE Schedule \/ ReadGates \/ ScheduledUncross \/ NoBackstop \/ UNCHANGED svars
  BY <1>1, <1>14 DEF Schedule, Transition, ReadGates, ScheduledUncross, NoBackstop, svars, halts
<1>15. QED
  BY <1>6, <1>7, <1>8, <1>9, <1>10, <1>11, <1>12, <1>13, <1>14 DEF SNext, Work

LEMMA StageTypedStep ==
  ASSUME StageTyped, [SNext]_svars
  PROVE  StageTyped'
<1>1. ASSUME UNCHANGED <<phase, goal, stage>>
      PROVE  StageTyped'
  BY <1>1 DEF StageTyped
<1>2. CASE Schedule
  BY <1>2 DEF Schedule, Transition, AfterUncross, StageTyped
<1>3. CASE ScheduledUncross \/ NoBackstop \/ Backstop \/ EnterPhase
  BY <1>3 DEF ScheduledUncross, NoBackstop, Backstop, EnterPhase, AfterUncross, StageTyped
<1>4. CASE SMessage
  BY <1>1, <1>4 DEF SMessage, SNewOrder, SOcoOrder, SQuoteNew, SWithdrawal, CancelSymbol,
                    AdminResume, OperatorHalts, AdminHalt, ForceUncross, day
<1>5. CASE BookStep \/ PrintStep \/ HaltTrips \/ ReadGates \/ Extend \/ Reopen \/ TimerEnds
           \/ UNCHANGED svars
  BY <1>1, <1>5 DEF BookStep, PrintStep, HaltTrips, ReadGates, Extend, Reopen, TimerEnds, day,
                    svars
<1>6. QED
  BY <1>2, <1>3, <1>4, <1>5 DEF SNext, Work

LEMMA TifTypedStep ==
  ASSUME tif \in [Ids -> Tifs], [SNext]_svars
  PROVE  tif' \in [Ids -> Tifs]
<1>1. ASSUME NEW r \in NewOrders, NEW t \in TifChoices[r], SNewOrder(r, t)
      PROVE  tif' \in [Ids -> Tifs]
  BY <1>1, SessionAssumption DEF SNewOrder
<1>2. ASSUME NEW t \in PairTifs, tif' = [tif EXCEPT ![born + 1] = t, ![born + 2] = t]
      PROVE  tif' \in [Ids -> Tifs]
  BY <1>2, SessionAssumption
<1>3. ASSUME UNCHANGED tif
      PROVE  tif' \in [Ids -> Tifs]
  BY <1>3
<1>4. CASE SMessage
  BY <1>1, <1>2, <1>3, <1>4 DEF SMessage, SOcoOrder, SQuoteNew, SWithdrawal, CancelSymbol,
                    AdminResume, OperatorHalts, AdminHalt, ForceUncross, day
<1>5. CASE Schedule \/ ScheduledUncross \/ NoBackstop \/ Backstop \/ EnterPhase
  BY <1>3, <1>5 DEF Schedule, Transition, ScheduledUncross, NoBackstop, Backstop, EnterPhase
<1>6. CASE BookStep \/ PrintStep \/ HaltTrips \/ ReadGates \/ Extend \/ Reopen \/ TimerEnds
           \/ UNCHANGED svars
  BY <1>3, <1>6 DEF BookStep, PrintStep, HaltTrips, ReadGates, Extend, Reopen, TimerEnds, day,
                    svars
<1>7. QED
  BY <1>4, <1>5, <1>6 DEF SNext, Work

\* Every variable of the day keeps its type, and the records of a halt agree.
\* What has tripped is a number only because a mean of prices is never zero,
\* so that no print reaches every threshold of a ladder without end.
THEOREM DayTypeCorrect == SSpec => []STypeOK
<1> DEFINE Typed == /\ HaltsTyped /\ StageTyped /\ tif \in [Ids -> Tifs]
                    /\ Paired(book) /\ promised \in Nat
<1>1. SInit => Typed
  <2>1. SUFFICES ASSUME SInit PROVE Typed
    OBVIOUS
  <2>2. HaltsTyped
    <3>1. OpeningPrice \in Prices /\ OpeningPrice \in Nat /\ MaxExtensions \in Nat
          /\ MaxWindow \in Nat \ {0}
      BY SessionAssumption, PricesAssumption
    <3>2. breaker \in Breaker
      BY <2>1, <3>1 DEF SInit, Breaker, NoPrice
    <3>3. window \in Seq(Prices) /\ Len(window) = 1
      BY <2>1, <3>1 DEF SInit
    <3>4. halted = FALSE /\ tripped = 0 /\ 1 <= MaxWindow
      BY <2>1, <3>1 DEF SInit, NoLevel
    <3>5. QED
      BY <3>2, <3>3, <3>4 DEF HaltsTyped
  <2>3. StageTyped
    BY <2>1 DEF SInit, StageTyped, Phases
  <2>4. tif \in [Ids -> Tifs] /\ promised \in Nat
    BY <2>1 DEF SInit, Tifs, AuctionIdle
  <2>5. Paired(book)
    BY <2>1, PairsInit DEF SInit, PairInv
  <2>6. QED
    BY <2>2, <2>3, <2>4, <2>5
<1>2. AIInv /\ Typed /\ [SNext]_svars => Typed'
  <2>1. SUFFICES ASSUME AIInv, Typed, [SNext]_svars PROVE Typed'
    OBVIOUS
  <2>2. Paired(book')
    BY <2>1, DayPaired
  <2>3. Paired(book)'
    BY <2>2 DEF Paired, Sibling
  <2>4. promised' \in Nat
    BY <2>1, DayPromises
  <2>5. QED
    BY <2>1, <2>3, <2>4, HaltsTypedStep, StageTypedStep, TifTypedStep
<1>3. AIInv /\ Typed /\ HaltsAgree => STypeOK
  BY AuctionTypes DEF HaltsTyped, StageTyped, Breaker, STypeOK
<1> HIDE DEF Typed
<1>4. QED
  BY <1>1, <1>2, <1>3, DayInvariance, HaltRecordsAgree, PTL DEF SSpec
=============================================================================
