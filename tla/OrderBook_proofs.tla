--------------------------- MODULE OrderBook_proofs ---------------------------
(***************************************************************************)
(* Theorems about OrderBook, for any number of orders, any prices, any     *)
(* participants and any requests the gates let through.                    *)
(*                                                                         *)
(* TypeOK is not inductive: that a quantity stays natural depends on what  *)
(* the book holds being sound (a fill never takes more than is shown), and *)
(* that in turn on where the handler stands (the order in hand is in no    *)
(* place, a released stop waits only while the cascade runs).  IInv adds   *)
(* just that.                                                              *)
(*                                                                         *)
(* First comes what the operations of BookState preserve: a sound book     *)
(* stays sound, and a withdrawal (a cancel, or anything an OCO or quote    *)
(* callback does) changes no order but those it cancels.                   *)
(***************************************************************************)
EXTENDS OrderBook, FiniteSetTheorems, TLAPS

-----------------------------------------------------------------------------
(***************************************************************************)
(* Sound books.                                                            *)
(***************************************************************************)

\* Legs of a pair have consecutive ids, and the first one names the pair.
Bonded(b) ==
  \A i \in Ids : b.ord[i].bond # "none" =>
     /\ b.ord[i].group \in Ids /\ b.ord[i].group + 1 \in Ids
     /\ i \in {b.ord[i].group, b.ord[i].group + 1}

Sound(b) ==
  /\ b \in Book
  /\ \A i \in Ids : OrderSound(b.ord[i])
  /\ Bonded(b)

\* Order o after a cancel.
Withdrawn1(o) ==
  [o EXCEPT !.status = "CANCELLED", !.place = IF @ = "triggered" THEN @ ELSE "none"]

\* Book c is book b after some withdrawals: every order is as it was, or was
\* held and is cancelled now.
Thinned(b, c) ==
  /\ c.seq = b.seq /\ c.live \subseteq b.live
  /\ \A i \in Ids :
       \/ c.ord[i] = b.ord[i]
       \/ /\ b.ord[i].place # "none" /\ b.ord[i].status \notin Dead
          /\ c.ord[i] = Withdrawn1(b.ord[i])

-----------------------------------------------------------------------------
(***************************************************************************)
(* Writing one order of a book.                                            *)
(***************************************************************************)

\* A level index stays one through credits and deductions.
LEMMA LevelsUpdate ==
  ASSUME NEW level \in Levels, NEW o \in Order, NEW q \in Nat
  PROVE  Credit(level, o, q) \in Levels /\ Deduct(level, o, q) \in Levels
<1>2. o.side \in Sides
  BY DEF Order
<1> DEFINE f(s) == [level[s] EXCEPT ![o.price] = level[s][o.price] + q]
           g(s) == [level[s] EXCEPT ![o.price] = Minus(level[s][o.price], q)]
<1>3. level[o.side] \in [Prices -> Nat]
  BY <1>2 DEF Levels
<1>4. \A h \in [Prices -> Nat] : \A x, v : (x \in Prices => v \in Nat) =>
        [h EXCEPT ![x] = v] \in [Prices -> Nat]
  OBVIOUS
<1>5. o.price \in Prices => level[o.side][o.price] \in Nat
  BY <1>3
<1>6. \A x \in Nat : x + q \in Nat /\ Minus(x, q) \in Nat
  BY DEF Minus
<1>7. f(o.side) \in [Prices -> Nat] /\ g(o.side) \in [Prices -> Nat]
  BY <1>3, <1>4, <1>5, <1>6
<1>8. QED
  BY <1>2, <1>3, <1>7 DEF Levels, Credit, Deduct

\* A book in which one order is rewritten soundly stays sound.
LEMMA SoundUpdate ==
  ASSUME NEW b, Sound(b), NEW i \in Ids, NEW n \in Order, OrderSound(n),
         n.bond = b.ord[i].bond, n.group = b.ord[i].group,
         NEW lvl \in Levels, NEW sq \in Nat, NEW lv \in SUBSET Ids
  PROVE  Sound([ord |-> [b.ord EXCEPT ![i] = n], level |-> lvl, seq |-> sq, live |-> lv])
<1>1. b.ord \in [Ids -> Order]
  BY DEF Sound, Book
<1>2. [b.ord EXCEPT ![i] = n] \in [Ids -> Order]
  BY <1>1
<1>3. QED
  BY <1>1, <1>2 DEF Sound, Book, Bonded

\* A cancel withdraws one order and keeps the book sound.
LEMMA CancelThins ==
  ASSUME NEW b, Sound(b), NEW i \in Ids
  PROVE  Sound(Cancel(b, i)) /\ Thinned(b, Cancel(b, i))
<1>1. CASE b.ord[i].place = "none" \/ b.ord[i].status \in Dead
  BY <1>1 DEF Cancel, Thinned
<1>2. CASE ~(b.ord[i].place = "none" \/ b.ord[i].status \in Dead)
  <2> DEFINE o == b.ord[i]
             n == Withdrawn1(o)
             lvl == IF o.place = "book" THEN Deduct(b.level, o, Slice(o)) ELSE b.level
  <2>1. o \in Order /\ OrderSound(o)
    BY DEF Sound, Book
  <2>2. n \in Order
    BY <2>1 DEF Order, Withdrawn1, Dead, Working, Places
  <2>3. OrderSound(n)
    BY <2>1 DEF OrderSound, Order, Withdrawn1, Dead, Working, Slice
  <2>4. lvl \in Levels
    BY <2>1, LevelsUpdate DEF Sound, Book, Order, Slice
  <2>5. Cancel(b, i) = [ord |-> [b.ord EXCEPT ![i] = n], level |-> lvl,
                        seq |-> b.seq, live |-> b.live]
    BY <1>2 DEF Cancel, Withdrawn1, Sound, Book
  <2>6. Sound(Cancel(b, i))
    <3>1. n.bond = o.bond /\ n.group = o.group
      BY <2>1 DEF Withdrawn1, Order
    <3>2. b.seq \in Nat /\ b.live \in SUBSET Ids
      BY DEF Sound, Book
    <3>3. QED
      BY <2>2, <2>3, <2>4, <2>5, <3>1, <3>2, SoundUpdate
  <2>7. Thinned(b, Cancel(b, i))
    BY <1>2, <2>5 DEF Thinned, Sound, Book
  <2>8. QED
    BY <2>6, <2>7
<1>3. QED
  BY <1>1, <1>2

-----------------------------------------------------------------------------
(***************************************************************************)
(* Withdrawals compose, so every callback is one.                          *)
(***************************************************************************)
LEMMA ThinnedTransitive ==
  ASSUME NEW b, NEW c, NEW d, Sound(b), Thinned(b, c), Thinned(c, d)
  PROVE  Thinned(b, d)
<1>1. \A i \in Ids : Withdrawn1(b.ord[i]).status \in Dead
  BY DEF Sound, Book, Order, Withdrawn1, Dead
<1>2. QED
  BY <1>1 DEF Thinned

\* Withdrawing the other leg of a pair.
LEMMA PullThins ==
  ASSUME NEW b, Sound(b), NEW i \in Ids, b.ord[i].bond # "none"
  PROVE  Sound(PullSibling(b, i)) /\ Thinned(b, PullSibling(b, i))
<1> DEFINE g == b.ord[i].group
           c == Cancel(b, Sibling(b, i))
           d == [c EXCEPT !.live = @ \ {g}]
<1>1. Sibling(b, i) \in Ids
  <2>1. g \in Ids /\ g + 1 \in Ids /\ (i = g \/ i = g + 1)
    BY DEF Sound, Bonded
  <2>2. Ids \subseteq Int
    BY DEF Ids
  <2>3. Sibling(b, i) = 2 * g + 1 - i
    BY DEF Sibling
  <2> HIDE DEF g
  <2>4. (i = g => 2 * g + 1 - i = g + 1) /\ (i = g + 1 => 2 * g + 1 - i = g)
    BY <2>1, <2>2
  <2>5. QED
    BY <2>1, <2>3, <2>4
<1>2. Sound(c) /\ Thinned(b, c)
  BY <1>1, CancelThins
<1>3. Sound(d) /\ Thinned(b, d)
  BY <1>2 DEF Sound, Thinned, Book, Bonded
<1>4. Sound(b) /\ Thinned(b, b)
  BY DEF Thinned
<1>5. QED
  BY <1>3, <1>4 DEF PullSibling

\* The callbacks of the OCO pairs and of the quotes.
LEMMA OcoLegEndedThins ==
  ASSUME NEW b, Sound(b), NEW i \in Ids
  PROVE  Sound(OcoLegEnded(b, i)) /\ Thinned(b, OcoLegEnded(b, i))
<1>1. Thinned(b, b)
  BY DEF Thinned
<1>2. QED
  BY <1>1, PullThins DEF OcoLegEnded

\* A quote callback only withdraws orders the book held.
LEMMA QuoteLegFilledThins ==
  ASSUME NEW b, Sound(b), NEW i \in Ids
  PROVE  Sound(QuoteLegFilled(b, i)) /\ Thinned(b, QuoteLegFilled(b, i))
<1>1. Thinned(b, b)
  BY DEF Thinned
<1>2. QED
  BY <1>1, PullThins DEF QuoteLegFilled

\* All four callbacks of a fill.
LEMMA FillHooksThin ==
  ASSUME NEW b, Sound(b), NEW a \in Ids, NEW p \in Ids
  PROVE  Sound(FillHooks(b, a, p)) /\ Thinned(b, FillHooks(b, a, p))
<1> DEFINE c == QuoteLegFilled(b, p)
           d == QuoteLegFilled(c, a)
           e == OcoLegEnded(d, p)
<1>1. Sound(c) /\ Thinned(b, c)
  BY QuoteLegFilledThins
<1>2. Sound(d) /\ Thinned(b, d)
  <2>1. Sound(d) /\ Thinned(c, d)
    BY <1>1, QuoteLegFilledThins
  <2>2. QED
    BY <1>1, <2>1, ThinnedTransitive
<1>3. Sound(e) /\ Thinned(b, e)
  <2>1. Sound(e) /\ Thinned(d, e)
    BY <1>2, OcoLegEndedThins
  <2>2. QED
    BY <1>2, <2>1, ThinnedTransitive
<1>4. Sound(OcoLegEnded(e, a)) /\ Thinned(e, OcoLegEnded(e, a))
  BY <1>3, OcoLegEndedThins
<1>5. QED
  BY <1>3, <1>4, ThinnedTransitive DEF FillHooks

\* A self-match cancel of a resting order, with its pair's.
LEMMA SmpCancelThins ==
  ASSUME NEW b, Sound(b), NEW p \in Ids
  PROVE  Sound(SmpCancel(b, p)) /\ Thinned(b, SmpCancel(b, p))
<1> DEFINE c == Cancel(b, p)
<1>1. Sound(c) /\ Thinned(b, c)
  BY CancelThins
<1>2. Sound(OcoLegEnded(c, p)) /\ Thinned(c, OcoLegEnded(c, p))
  BY <1>1, OcoLegEndedThins
<1>3. QED
  BY <1>1, <1>2, ThinnedTransitive DEF SmpCancel

-----------------------------------------------------------------------------
(***************************************************************************)
(* Executions, remainders and released stops.                              *)
(***************************************************************************)

\* What a fill, a new place in the queue or a release leaves alone in o.
SameOrder(o, n) ==
  /\ n.side = o.side /\ n.gw = o.gw /\ n.smp = o.smp /\ n.qty = o.qty
  /\ n.bond = o.bond /\ n.group = o.group

OthersSame(b, c, i) == \A j \in Ids \ {i} : c.ord[j] = b.ord[j]

\* One side of a fill.  The clamped deduction is never needed: q is at most
\* what a resting order shows.
LEMMA ReduceSound ==
  ASSUME NEW b, Sound(b), NEW i \in Ids, NEW q \in Nat \ {0},
         b.ord[i].place \in {"none", "book"}, b.ord[i].status \in Working,
         q <= b.ord[i].rem, b.ord[i].place = "book" => q <= Slice(b.ord[i])
  PROVE  LET c == Reduce(b, i, q)
             o == b.ord[i]
             n == c.ord[i]
         IN  /\ Sound(c) /\ OthersSame(b, c, i) /\ SameOrder(o, n)
             /\ c.live = b.live
             /\ n.kind = o.kind /\ n.price = o.price /\ n.rem = o.rem - q
             /\ n.status = IF n.rem = 0 THEN "FILLED" ELSE "PARTIAL"
             /\ n.place = IF n.rem = 0 THEN "none" ELSE o.place
<1> DEFINE o      == b.ord[i]
           left   == o.rem - q
           refill == Refills(o, q)
           peak   == Least(o.peak, left)
           shown  == IF refill THEN peak
                     ELSE IF o.kind = "ICEBERG" THEN Minus(o.shown, q) ELSE o.shown
           n      == [o EXCEPT
                       !.rem    = left,
                       !.shown  = shown,
                       !.seq    = IF refill THEN b.seq + 1 ELSE o.seq,
                       !.status = IF left = 0 THEN "FILLED" ELSE "PARTIAL",
                       !.place  = IF left = 0 THEN "none" ELSE o.place]
           lvl    == IF o.place = "book" THEN LevelAfterFill(b.level, o, q, refill, peak)
                     ELSE b.level
           sq     == IF refill THEN b.seq + 1 ELSE b.seq
<1>1. o \in Order /\ OrderSound(o) /\ b.seq \in Nat /\ b.level \in Levels
  BY DEF Sound, Book
<1>2. /\ o.rem \in Nat /\ o.qty \in Nat /\ o.peak \in Nat /\ o.shown \in Nat
      /\ o.seq \in Nat /\ o.place \in Places
  BY <1>1 DEF Order
<1>3. left \in Nat /\ peak \in Nat /\ shown \in Nat
  BY <1>2 DEF Least, Minus
<1>4. n \in Order
  <2>1. (IF refill THEN b.seq + 1 ELSE o.seq) \in Nat
    BY <1>1, <1>2
  <2>2. (IF left = 0 THEN "FILLED" ELSE "PARTIAL") \in Working \cup Dead
    BY DEF Working, Dead
  <2>3. (IF left = 0 THEN "none" ELSE o.place) \in Places
    BY <1>2 DEF Places
  <2> HIDE DEF left, refill, shown
  <2>4. QED
    BY <1>1, <1>3, <2>1, <2>2, <2>3 DEF Order
<1>5. lvl \in Levels
  BY <1>1, <1>3, LevelsUpdate DEF LevelAfterFill
<1>6. /\ n.rem = left /\ n.shown = shown /\ n.kind = o.kind /\ n.price = o.price
      /\ n.peak = o.peak /\ n.qty = o.qty /\ SameOrder(o, n)
      /\ n.status = (IF left = 0 THEN "FILLED" ELSE "PARTIAL")
      /\ n.place = (IF left = 0 THEN "none" ELSE o.place)
  BY <1>1 DEF Order, SameOrder
<1>7. OrderSound(n)
  <2>1. ASSUME left # 0, o.place = "book" PROVE Slice(n) \in 1 .. n.rem
    <3>1. CASE o.kind # "ICEBERG"
      BY <1>3, <1>6, <2>1, <3>1 DEF Slice
    <3>2. CASE o.kind = "ICEBERG" /\ refill
      BY <1>1, <1>2, <1>3, <1>6, <2>1, <3>2 DEF Slice, OrderSound, Least
    <3>3. CASE o.kind = "ICEBERG" /\ ~refill
      BY <1>1, <1>2, <1>3, <1>6, <2>1, <3>3 DEF Slice, OrderSound, Refills, Minus
    <3>4. QED
      BY <3>1, <3>2, <3>3
  <2>2. n.rem <= n.qty /\ (n.status \in Working => n.rem > 0) /\ (n.status = "FILLED" => n.rem = 0)
    BY <1>1, <1>2, <1>3, <1>6 DEF OrderSound, Working
  <2>3. n.place = "book" => n.kind \in Restable /\ n.status \in Working
    BY <1>1, <1>6 DEF OrderSound, Working
  <2>4. n.place \in {"none", "book"}
    BY <1>6
  <2>5. /\ n.kind = "ICEBERG" => n.peak > 0
        /\ n.kind \in {"LIMIT", "ICEBERG", "STOP_LIMIT"} => n.price \in Prices
    BY <1>1, <1>6 DEF OrderSound
  <2>6. n.place = "book" => Slice(n) \in 1 .. n.rem
    BY <1>6, <2>1
  <2> HIDE DEF n
  <2>7. QED
    BY <2>2, <2>3, <2>4, <2>5, <2>6 DEF OrderSound
<1>8. Reduce(b, i, q) = [ord |-> [b.ord EXCEPT ![i] = n], level |-> lvl, seq |-> sq,
                         live |-> b.live]
  <2>1. Reduce(b, i, q) = [b EXCEPT !.ord[i] = n, !.seq = sq, !.level = lvl]
    BY DEF Reduce
  <2> HIDE DEF n, lvl, sq
  <2>2. QED
    BY <2>1 DEF Sound, Book
<1>9. sq \in Nat /\ b.live \in SUBSET Ids /\ b.ord \in [Ids -> Order]
  BY DEF Sound, Book
<1> HIDE DEF n, lvl, sq
<1>10. Sound(Reduce(b, i, q))
  BY <1>4, <1>5, <1>6, <1>7, <1>8, <1>9, SoundUpdate DEF SameOrder
<1>11. QED
  BY <1>6, <1>8, <1>9, <1>10 DEF OthersSame

\* A remainder joins the queue of its price.
LEMMA RestSound ==
  ASSUME NEW b, Sound(b), NEW i \in Ids, b.ord[i].place = "none",
         b.ord[i].status \in Working, b.ord[i].kind \in Restable
  PROVE  LET c == Rest(b, i)
         IN  /\ Sound(c) /\ OthersSame(b, c, i) /\ SameOrder(b.ord[i], c.ord[i])
             /\ c.live = b.live /\ c.ord[i].rem = b.ord[i].rem
             /\ c.ord[i].status = b.ord[i].status /\ c.ord[i].place = "book"
<1> DEFINE o     == b.ord[i]
           shown == IF o.kind = "ICEBERG" THEN Least(o.peak, o.rem) ELSE o.shown
           n     == [o EXCEPT !.shown = shown, !.seq = b.seq + 1, !.place = "book"]
           lvl   == Credit(b.level, n, Slice(n))
<1>1. o \in Order /\ OrderSound(o) /\ b.seq \in Nat /\ b.level \in Levels
  BY DEF Sound, Book
<1>2. /\ o.rem \in Nat /\ o.qty \in Nat /\ o.peak \in Nat /\ o.shown \in Nat /\ o.rem > 0
  BY <1>1 DEF Order, OrderSound
<1>3. shown \in Nat
  BY <1>2 DEF Least
<1>4. n \in Order
  <2>1. b.seq + 1 \in Nat /\ "book" \in Places
    BY <1>1 DEF Places
  <2> HIDE DEF shown
  <2>2. QED
    BY <1>1, <1>3, <2>1 DEF Order
<1>5. /\ n.rem = o.rem /\ n.shown = shown /\ n.kind = o.kind /\ n.price = o.price
      /\ n.peak = o.peak /\ n.status = o.status /\ n.place = "book" /\ SameOrder(o, n)
  BY <1>1 DEF Order, SameOrder
<1>6. Slice(n) \in 1 .. n.rem
  BY <1>1, <1>2, <1>3, <1>5 DEF Slice, OrderSound, Least
<1>7. OrderSound(n)
  BY <1>1, <1>2, <1>5, <1>6 DEF OrderSound, SameOrder
<1>8. lvl \in Levels
  <2>1. Slice(n) \in Nat
    BY <1>4 DEF Slice, Order
  <2>2. QED
    BY <1>1, <1>4, <2>1, LevelsUpdate
<1>9. Rest(b, i) = [ord |-> [b.ord EXCEPT ![i] = n], level |-> lvl, seq |-> b.seq + 1,
                    live |-> b.live]
  <2>1. Rest(b, i) = [b EXCEPT !.ord[i] = n, !.seq = b.seq + 1, !.level = lvl]
    BY DEF Rest
  <2> HIDE DEF n, lvl
  <2>2. QED
    BY <2>1 DEF Sound, Book
<1>10. b.seq + 1 \in Nat /\ b.live \in SUBSET Ids /\ b.ord \in [Ids -> Order]
  BY DEF Sound, Book
<1> HIDE DEF n, lvl
<1>11. Sound(Rest(b, i))
  BY <1>4, <1>5, <1>7, <1>8, <1>9, <1>10, SoundUpdate DEF SameOrder
<1>12. QED
  BY <1>5, <1>9, <1>10, <1>11 DEF OthersSame

\* A fill of the incoming a against the resting p, with every callback.
LEMMA ApplyFillSound ==
  ASSUME NEW b, Sound(b), NEW a \in Ids, NEW p \in Ids, a # p,
         b.ord[a].place = "none", b.ord[a].status \in Working,
         b.ord[p].place = "book"
  PROVE  LET c == ApplyFill(b, a, p)
             o == b.ord[a]
             n == c.ord[a]
         IN  /\ Sound(c) /\ c.live \subseteq b.live
             /\ FillQty(b, a, p) \in 1 .. o.rem
             /\ SameOrder(o, n) /\ n.kind = o.kind /\ n.price = o.price
             /\ n.rem = o.rem - FillQty(b, a, p) /\ n.place = "none"
             /\ n.status = IF n.rem = 0 THEN "FILLED" ELSE "PARTIAL"
             /\ SameOrder(b.ord[p], c.ord[p]) /\ c.ord[p].place \in {"none", "book"}
             /\ c.ord[p].status # "ABSENT"
             /\ \A j \in Ids \ {a, p} :
                  \/ c.ord[j] = b.ord[j]
                  \/ /\ b.ord[j].place # "none" /\ b.ord[j].status \notin Dead
                     /\ c.ord[j] = Withdrawn1(b.ord[j])
<1> DEFINE q == FillQty(b, a, p)
           c == Reduce(b, a, q)
           d == Reduce(c, p, q)
           e == FillHooks(d, a, p)
<1>1. /\ b.ord[a] \in Order /\ OrderSound(b.ord[a])
      /\ b.ord[p] \in Order /\ OrderSound(b.ord[p])
  BY DEF Sound, Book
<1>2. /\ q \in Nat \ {0} /\ q <= b.ord[a].rem
      /\ q <= Slice(b.ord[p]) /\ q <= b.ord[p].rem
      /\ q \in 1 .. b.ord[a].rem
  BY <1>1 DEF FillQty, Least, OrderSound, Order
<1> HIDE DEF q
<1>3. /\ Sound(c) /\ OthersSame(b, c, a) /\ SameOrder(b.ord[a], c.ord[a])
      /\ c.live = b.live
      /\ c.ord[a].kind = b.ord[a].kind /\ c.ord[a].price = b.ord[a].price
      /\ c.ord[a].rem = b.ord[a].rem - q /\ c.ord[a].place = "none"
      /\ c.ord[a].status = (IF c.ord[a].rem = 0 THEN "FILLED" ELSE "PARTIAL")
  BY <1>2, ReduceSound
<1>4. c.ord[p] = b.ord[p]
  BY <1>3 DEF OthersSame
<1>5. b.ord[p].status \in Working
  BY <1>1 DEF OrderSound
<1>6. /\ Sound(d) /\ OthersSame(c, d, p) /\ SameOrder(b.ord[p], d.ord[p])
      /\ d.live = b.live
      /\ d.ord[p].status = (IF d.ord[p].rem = 0 THEN "FILLED" ELSE "PARTIAL")
      /\ d.ord[p].place \in {"none", "book"}
  <2> HIDE DEF c
  <2>1. c.ord[p].place \in {"none", "book"} /\ c.ord[p].status \in Working
    BY <1>4, <1>5
  <2>2. q <= c.ord[p].rem /\ (c.ord[p].place = "book" => q <= Slice(c.ord[p]))
    BY <1>2, <1>4
  <2>3. q \in Nat \ {0}
    BY <1>2
  <2>4. QED
    BY <1>3, <1>4, <2>1, <2>2, <2>3, ReduceSound
<1>7. d.ord[a] = c.ord[a] /\ \A j \in Ids \ {a, p} : d.ord[j] = b.ord[j]
  BY <1>3, <1>6 DEF OthersSame
<1> HIDE DEF c, d
<1>8. Sound(e) /\ Thinned(d, e)
  BY <1>6, FillHooksThin
<1> HIDE DEF e
<1>9. e.ord[a] = c.ord[a]
  BY <1>3, <1>7, <1>8 DEF Thinned
<1>10. /\ SameOrder(b.ord[p], e.ord[p]) /\ e.ord[p].place \in {"none", "book"}
       /\ e.ord[p].status # "ABSENT"
  <2>1. \/ e.ord[p] = d.ord[p]
        \/ e.ord[p] = Withdrawn1(d.ord[p])
    BY <1>8 DEF Thinned
  <2>2. d.ord[p] \in Order
    BY <1>6 DEF Sound, Book
  <2>3. CASE e.ord[p] = d.ord[p]
    BY <1>6, <2>3
  <2>4. CASE e.ord[p] = Withdrawn1(d.ord[p])
    BY <1>6, <2>2, <2>4 DEF Withdrawn1, SameOrder, Order
  <2>5. QED
    BY <2>1, <2>3, <2>4
<1>11. \A j \in Ids \ {a, p} :
         \/ e.ord[j] = b.ord[j]
         \/ /\ b.ord[j].place # "none" /\ b.ord[j].status \notin Dead
            /\ e.ord[j] = Withdrawn1(b.ord[j])
  BY <1>7, <1>8 DEF Thinned
<1>12. ApplyFill(b, a, p) = e /\ e.live \subseteq b.live
  BY <1>6, <1>8 DEF ApplyFill, Thinned, q, c, d, e
<1>13. QED
  BY <1>2, <1>3, <1>8, <1>9, <1>10, <1>11, <1>12 DEF q

-----------------------------------------------------------------------------
\* What a trade at price does to an order: nothing that counts, or a dormant
\* stop is released.
LEMMA ReleaseSound ==
  ASSUME NEW b, Sound(b), NEW price \in Int, NEW top \in Nat
  PROVE  LET c == Release(b, price, top)
         IN  /\ Sound(c) /\ c.live = b.live
             /\ \A i \in Ids :
                  /\ SameOrder(b.ord[i], c.ord[i])
                  /\ c.ord[i].rem = b.ord[i].rem /\ c.ord[i].status = b.ord[i].status
                  /\ \/ c.ord[i] = b.ord[i]
                     \/ /\ b.ord[i].place \in {"armed", "trailing"}
                        /\ c.ord[i].place \in {b.ord[i].place, "triggered"}
<1> DEFINE moved   == [i \in Ids |-> Ratcheted(b.ord[i], price)]
           fired   == {i \in Ids : /\ moved[i].place \in {"armed", "trailing"}
                                   /\ Breached(moved[i].side, moved[i].stop, price)}
           rank(i) == Cardinality({j \in fired : RunsBefore(moved[j], j, moved[i], i)})
           run(i)  == [Converted(moved[i]) EXCEPT !.place = "triggered",
                                                  !.turn  = top + 1 + rank(i)]
           ord     == [i \in Ids |-> IF i \in fired THEN run(i) ELSE moved[i]]
           c       == Release(b, price, top)
<1>1. \A i \in Ids : b.ord[i] \in Order /\ OrderSound(b.ord[i])
  BY DEF Sound, Book
<1>2. ASSUME NEW i \in Ids
      PROVE  /\ moved[i] \in Order /\ OrderSound(moved[i])
             /\ SameOrder(b.ord[i], moved[i]) /\ moved[i].place = b.ord[i].place
             /\ moved[i].rem = b.ord[i].rem /\ moved[i].status = b.ord[i].status
             /\ moved[i] = b.ord[i] \/ b.ord[i].place = "trailing"
  <2> DEFINE o == b.ord[i]
             stop == IF o.side = "SELL" THEN price - o.offset ELSE price + o.offset
             n == [o EXCEPT !.stop = stop]
  <2>1. o \in Order /\ OrderSound(o)
    BY <1>1
  <2>2. stop \in Int
    BY <2>1 DEF Order
  <2> HIDE DEF stop
  <2>3. n \in Order
    BY <2>1, <2>2 DEF Order
  <2>4. /\ SameOrder(o, n) /\ n.place = o.place /\ n.rem = o.rem /\ n.status = o.status
        /\ n.kind = o.kind /\ n.price = o.price /\ n.peak = o.peak /\ n.shown = o.shown
    BY <2>1 DEF Order, SameOrder
  <2> HIDE DEF n
  <2>5. OrderSound(n)
    BY <2>1, <2>4 DEF OrderSound, SameOrder, Slice
  <2>6. moved[i] = o \/ (moved[i] = n /\ o.place = "trailing")
    BY DEF Ratcheted, n, stop
  <2>7. QED
    BY <2>1, <2>3, <2>4, <2>5, <2>6 DEF SameOrder
<1> HIDE DEF moved
<1>3. ASSUME NEW i \in fired
      PROVE  /\ run(i) \in Order /\ OrderSound(run(i)) /\ SameOrder(b.ord[i], run(i))
             /\ run(i).rem = b.ord[i].rem /\ run(i).status = b.ord[i].status
             /\ run(i).place = "triggered"
  <2> DEFINE o == moved[i]
             t == top + 1 + rank(i)
  <2>1. /\ o \in Order /\ OrderSound(o) /\ o.place \in {"armed", "trailing"}
        /\ o.status \in Working
    BY <1>2 DEF OrderSound
  <2>2. t \in Nat
    <3>1. {j \in fired : RunsBefore(moved[j], j, moved[i], i)} \subseteq 1 .. MaxOrders
      BY DEF Ids
    <3>2. IsFiniteSet(1 .. MaxOrders)
      BY FS_Interval, MaxOrdersAssumption
    <3>3. rank(i) \in Nat
      BY <3>1, <3>2, FS_Subset, FS_CardinalityType
    <3>4. QED
      BY <3>3
  <2> HIDE DEF rank, t
  <2>3. CASE o.kind = "STOP_LIMIT"
    <3> DEFINE n == [o EXCEPT !.kind = "LIMIT", !.place = "triggered", !.turn = t]
    <3>1. run(i) = n
      BY <2>3, <2>1 DEF Converted, t, Order
    <3>2. n \in Order
      BY <2>1, <2>2 DEF Order, Kinds, Restable, Places
    <3>3. /\ SameOrder(o, n) /\ n.place = "triggered" /\ n.rem = o.rem
          /\ n.status = o.status /\ n.kind = "LIMIT" /\ n.price = o.price
      BY <2>1 DEF Order, SameOrder
    <3> HIDE DEF n
    <3>4. OrderSound(n)
      BY <2>1, <2>3, <3>3 DEF OrderSound, SameOrder
    <3>5. QED
      BY <1>2, <3>1, <3>2, <3>3, <3>4 DEF SameOrder
  <2>4. CASE o.kind # "STOP_LIMIT"
    <3> DEFINE n == [o EXCEPT !.kind = "MARKET", !.price = NoPrice, !.offset = 0,
                              !.place = "triggered", !.turn = t]
    <3>1. run(i) = n
      BY <2>4, <2>1 DEF Converted, t, Order
    <3>2. n \in Order
      BY <2>1, <2>2 DEF Order, Kinds, Immediate, Places
    <3>3. /\ SameOrder(o, n) /\ n.place = "triggered" /\ n.rem = o.rem
          /\ n.status = o.status /\ n.kind = "MARKET"
      BY <2>1 DEF Order, SameOrder
    <3> HIDE DEF n
    <3>4. OrderSound(n)
      BY <2>1, <3>3 DEF OrderSound, SameOrder
    <3>5. QED
      BY <1>2, <3>1, <3>2, <3>3, <3>4 DEF SameOrder
  <2>5. QED
    BY <2>3, <2>4
<1> HIDE DEF run
<1>4. \A i \in Ids : i \in fired => b.ord[i].place \in {"armed", "trailing"}
  BY <1>2
<1>5. fired \subseteq Ids
  OBVIOUS
<1> HIDE DEF fired
<1>6. \A i \in Ids : ord[i] \in Order /\ OrderSound(ord[i]) /\ SameOrder(b.ord[i], ord[i])
  BY <1>2, <1>3
<1>7. c = [ord |-> ord, level |-> b.level, seq |-> b.seq, live |-> b.live]
  <2>1. c = [b EXCEPT !.ord = ord]
    BY DEF Release, ord, run, rank, fired, moved
  <2> HIDE DEF ord, c
  <2>2. QED
    BY <2>1 DEF Sound, Book
<1>8. Sound(c)
  <2>1. ord \in [Ids -> Order]
    BY <1>6
  <2> HIDE DEF ord, c
  <2>2. c.ord = ord /\ c \in Book /\ c.live = b.live
    BY <1>7, <2>1 DEF Sound, Book
  <2>3. Bonded(c)
    BY <1>6, <2>2 DEF Bonded, Sound, SameOrder
  <2>4. QED
    BY <1>6, <2>2, <2>3 DEF Sound
<1>9. ASSUME NEW i \in Ids
      PROVE  /\ SameOrder(b.ord[i], c.ord[i])
             /\ c.ord[i].rem = b.ord[i].rem /\ c.ord[i].status = b.ord[i].status
             /\ \/ c.ord[i] = b.ord[i]
                \/ /\ b.ord[i].place \in {"armed", "trailing"}
                   /\ c.ord[i].place \in {b.ord[i].place, "triggered"}
  <2>1. c.ord[i] = IF i \in fired THEN run(i) ELSE moved[i]
    BY <1>7
  <2> HIDE DEF c, ord
  <2>2. CASE i \in fired
    BY <1>3, <1>4, <2>1, <2>2
  <2>3. CASE i \notin fired
    BY <1>2, <2>1, <2>3
  <2>4. QED
    BY <2>2, <2>3
<1>10. QED
  BY <1>7, <1>8, <1>9

-----------------------------------------------------------------------------
\* A new verdict on an order that is held nowhere.
LEMMA StatusSound ==
  ASSUME NEW b, Sound(b), NEW i \in Ids, b.ord[i].place = "none",
         NEW status \in {"NEW", "CANCELLED", "REJECTED"},
         status = "NEW" => b.ord[i].rem > 0
  PROVE  LET c == [b EXCEPT !.ord[i].status = status]
         IN  /\ Sound(c) /\ OthersSame(b, c, i) /\ SameOrder(b.ord[i], c.ord[i])
             /\ c.live = b.live /\ c.ord[i].rem = b.ord[i].rem
             /\ c.ord[i].status = status /\ c.ord[i].place = "none"
<1> DEFINE o == b.ord[i]
           n == [o EXCEPT !.status = status]
           c == [b EXCEPT !.ord[i].status = status]
<1>1. o \in Order /\ OrderSound(o)
  BY DEF Sound, Book
<1>2. n \in Order
  BY <1>1 DEF Order, Working, Dead
<1>3. /\ SameOrder(o, n) /\ n.rem = o.rem /\ n.status = status /\ n.place = "none"
      /\ n.kind = o.kind /\ n.peak = o.peak /\ n.price = o.price
  BY <1>1 DEF Order, SameOrder
<1>4. OrderSound(n)
  BY <1>1, <1>3 DEF OrderSound, SameOrder, Working
<1>5. c = [ord |-> [b.ord EXCEPT ![i] = n], level |-> b.level, seq |-> b.seq, live |-> b.live]
  <2>1. c = [b EXCEPT !.ord[i] = n]
    OBVIOUS
  <2> HIDE DEF n
  <2>2. QED
    BY <2>1 DEF Sound, Book
<1>6. /\ b.level \in Levels /\ b.seq \in Nat /\ b.live \in SUBSET Ids
      /\ b.ord \in [Ids -> Order]
  BY DEF Sound, Book
<1> HIDE DEF n, c
<1>7. Sound(c)
  BY <1>2, <1>3, <1>4, <1>5, <1>6, SoundUpdate DEF SameOrder
<1>8. OthersSame(b, c, i) /\ c.ord[i] = n /\ c.live = b.live
  BY <1>5, <1>6 DEF OthersSame
<1>9. QED
  BY <1>3, <1>7, <1>8 DEF c

\* A book's registrations may change without touching its orders.
LEMMA LiveSound ==
  ASSUME NEW b, Sound(b), NEW live \in SUBSET Ids
  PROVE  LET c == [b EXCEPT !.live = live]
         IN  Sound(c) /\ c.ord = b.ord /\ c.live = live /\ c.seq = b.seq
BY DEF Sound, Book, Bonded

\* Rewriting one order.
LEMMA EditSound ==
  ASSUME NEW b, Sound(b), NEW i \in Ids, NEW n \in Order, OrderSound(n),
         n.bond = b.ord[i].bond, n.group = b.ord[i].group
  PROVE  LET c == [b EXCEPT !.ord[i] = n]
         IN  Sound(c) /\ OthersSame(b, c, i) /\ c.ord[i] = n /\ c.live = b.live
<1> SUFFICES ASSUME NEW c, c = [b EXCEPT !.ord[i] = n]
             PROVE  Sound(c) /\ OthersSame(b, c, i) /\ c.ord[i] = n /\ c.live = b.live
  OBVIOUS
<1> DEFINE r == [ord |-> [b.ord EXCEPT ![i] = n], level |-> b.level, seq |-> b.seq,
                 live |-> b.live]
<1>1. /\ b.level \in Levels /\ b.live \in SUBSET Ids /\ b.ord \in [Ids -> Order]
      /\ b.seq \in Nat
  BY DEF Sound, Book
<1>2. c = r
  BY DEF Sound, Book
<1>3. Sound(r)
  BY <1>1, SoundUpdate
<1>4. QED
  BY <1>1, <1>2, <1>3 DEF OthersSame

-----------------------------------------------------------------------------
(***************************************************************************)
(* The inductive invariant of the engine.                                  *)
(***************************************************************************)

\* Order i is working and held nowhere: it is in a handler's hands.
InHand(i) ==
  i \in Ids /\ order(i).place = "none" /\ order(i).status \in Working

\* Every registered pair or quote is named by its first leg.
Registered ==
  \A g \in book.live : order(g).bond # "none" /\ order(g).group = g

\* Ids are given out in order.
Unborn == \A i \in Ids : i > born => order(i).status = "ABSENT" /\ order(i).bond = "none"

\* Where the handler stands says what it holds.
HandlerOK ==
  /\ pc = "idle" => cur = 0 /\ todo = 0
  /\ pc = "withdraw" =>
       \/ cur = 0 /\ todo = 0
       \/ /\ InHand(cur) /\ todo # 0
          /\ order(cur).bond # "none" /\ order(cur).group = cur
  /\ pc \notin {"idle", "withdraw", "next"} => cur \in Ids
  /\ todo # 0 => InHand(todo) /\ todo # cur
  /\ pc = "process" => order(cur).place = "triggered" \/ InHand(cur)
  /\ pc = "sweep" => /\ order(cur).place = "none"
                     /\ order(cur).rem > 0 => order(cur).status \in Working
  /\ pc \in {"sweep", "refuse", "settle"} => matching

\* Released stops wait only while a cascade runs, and never behind an order
\* that has just arrived.
CascadeOK ==
  \A i \in Ids : order(i).place = "triggered" =>
    /\ matching /\ pc \notin {"idle", "withdraw"}
    /\ pc = "process" => order(cur).place = "triggered"

IInv == TypeOK /\ Sound(book) /\ Registered /\ Unborn /\ HandlerOK /\ CascadeOK

\* An ended order is not touched by this step (the action of TerminalIsFinal).
Final ==
  \A i \in Ids : order(i).status \in Dead =>
    /\ book'.ord[i].status = order(i).status
    /\ book'.ord[i].rem = order(i).rem
    /\ book'.ord[i].place \notin Held

\* What a step may do to an order that is not in its handler's hands: nothing,
\* unless the book held it; then it may leave its place, or wait to be run.
Moved(o, n) ==
  \/ n = o
  \/ /\ o.place # "none" /\ o.status \in Working
     /\ n.bond = o.bond /\ n.group = o.group
     /\ \/ n.place \in {o.place, "none"}
        \/ o.place \in {"armed", "trailing"} /\ n.place = "triggered"

\* What a step may do to the order in its handler's hands.
Handled(o, n) ==
  /\ n.bond = o.bond /\ n.group = o.group
  /\ \/ o.status \in Working
     \/ n.status = o.status /\ n.rem = o.rem /\ n.place \notin Held

-----------------------------------------------------------------------------
(***************************************************************************)
(* What every step has in common.                                          *)
(***************************************************************************)
\* Withdrawing orders the book held is a move the frame lemma allows.
LEMMA ThinnedMoves ==
  ASSUME NEW b, NEW c, Sound(b), Thinned(b, c), NEW i \in Ids
  PROVE  /\ Moved(b.ord[i], c.ord[i]) /\ Handled(b.ord[i], c.ord[i])
         /\ c.ord[i].place \in {b.ord[i].place, "none"}
         /\ b.ord[i].status \in Working => c.ord[i].status # "ABSENT"
<1>1. b.ord[i] \in Order /\ OrderSound(b.ord[i])
  BY DEF Sound, Book
<1>2. CASE c.ord[i] = b.ord[i]
  BY <1>1, <1>2 DEF Moved, Handled, OrderSound, Held, Working
<1>3. CASE /\ b.ord[i].place # "none" /\ b.ord[i].status \notin Dead
           /\ c.ord[i] = Withdrawn1(b.ord[i])
  <2>1. b.ord[i].status \in Working
    BY <1>1, <1>3 DEF Order, OrderSound, Places
  <2>2. QED
    BY <1>1, <1>3, <2>1 DEF Moved, Handled, Withdrawn1, Order
<1>4. QED
  BY <1>2, <1>3 DEF Thinned

\* Steps that accept no order.
LEMMA Frame ==
  ASSUME IInv, Sound(book'), book'.live \subseteq book.live, born' = born,
         \A i \in Ids \ {cur} : Moved(order(i), book'.ord[i]),
         cur \in Ids => Handled(order(cur), book'.ord[cur]),
         cur \in Ids /\ order(cur).status \in Working => book'.ord[cur].status # "ABSENT"
  PROVE  /\ Registered' /\ Unborn' /\ Final
         /\ todo # 0 => book'.ord[todo] = order(todo)
<1>1. \A i \in Ids : order(i) \in Order /\ OrderSound(order(i))
  BY DEF IInv, Sound, Book, order
<1>2. \A i \in Ids : book'.ord[i].bond = order(i).bond /\ book'.ord[i].group = order(i).group
  BY DEF Moved, Handled
<1>3. Registered'
  BY <1>2 DEF IInv, Registered, order, TypeOK, Book
<1>4. Unborn'
  <2>1. \A i \in Ids : order(i).status = "ABSENT" => book'.ord[i].status = "ABSENT"
    BY DEF Moved, Handled, Working
  <2>2. QED
    BY <1>2, <2>1 DEF IInv, Unborn, order
<1>5. Final
  BY <1>1 DEF Final, Moved, Handled, OrderSound, Held, Dead, Working
<1>6. todo # 0 => book'.ord[todo] = order(todo)
  BY DEF IInv, HandlerOK, InHand, Moved
<1>7. QED
  BY <1>3, <1>4, <1>5, <1>6

\* An empty book satisfies the invariant.
LEMMA InvInit == Init => IInv
<1> SUFFICES ASSUME Init PROVE IInv
  OBVIOUS
<1>1. Absent \in Order
  <2>1. (CHOOSE g \in Gateways : TRUE) \in Gateways
    BY GatewaysAssumption
  <2>2. 0 \in 0 .. MaxOrders /\ 0 \in Nat /\ 0 \in Int
    BY MaxOrdersAssumption
  <2>3. NoPrice = 0
    BY DEF NoPrice
  <2>4. QED
    BY <2>1, <2>2, <2>3
       DEF Absent, Order, Sides, Kinds, Immediate, SmpActions, Bonds, Places
<1>2. OrderSound(Absent)
  BY DEF Absent, OrderSound, Working
<1>3. /\ book.ord = [i \in Ids |-> Absent] /\ book.level \in Levels
      /\ book.seq = 0 /\ book.live = {} /\ book \in Book
  BY <1>1 DEF Init, Book, Levels
<1>4. \A i \in Ids : /\ order(i) = Absent /\ Absent.place = "none"
                     /\ Absent.status = "ABSENT" /\ Absent.bond = "none"
  BY <1>3 DEF order, Absent
<1>5. Sound(book)
  BY <1>2, <1>3, <1>4 DEF Sound, Bonded, order
<1>6. TypeOK
  <2>1. hasStops \in BOOLEAN /\ matching \in BOOLEAN /\ traded \in BOOLEAN
    BY DEF Init
  <2>2. last \in Prices \cup {NoPrice}
    BY RequestsAssumption DEF Init
  <2>3. /\ born \in 0 .. MaxOrders /\ cur \in 0 .. MaxOrders /\ todo \in 0 .. MaxOrders
        /\ clearing \subseteq Ids /\ pc \in Pcs /\ released \in Nat
    BY MaxOrdersAssumption DEF Init, Pcs
  <2>4. QED
    BY <1>3, <2>1, <2>2, <2>3 DEF TypeOK
<1>7. Registered /\ Unborn /\ HandlerOK /\ CascadeOK
  BY <1>3, <1>4 DEF Init, Registered, Unborn, HandlerOK, CascadeOK
<1>8. QED
  BY <1>5, <1>6, <1>7 DEF IInv

-----------------------------------------------------------------------------
(***************************************************************************)
(* Messages that accept orders.                                            *)
(***************************************************************************)

\* A request that passed the gates becomes a sound order.
LEMMA AddSound ==
  ASSUME NEW b, Sound(b), NEW i \in Ids, NEW r \in Request, WellFormed(r),
         NEW bond \in Bonds, NEW g \in 0 .. MaxOrders,
         bond # "none" => g \in Ids /\ g + 1 \in Ids /\ i \in {g, g + 1}
  PROVE  LET c == Add(b, i, Accepted(r, bond, g))
         IN  /\ Sound(c) /\ OthersSame(b, c, i) /\ c.live = b.live
             /\ c.ord[i].place = "none" /\ c.ord[i].status = "NEW"
             /\ c.ord[i].bond = bond /\ c.ord[i].group = g
<1> DEFINE n == Accepted(r, bond, g)
           c == Add(b, i, n)
<1>1. n \in Order
  BY DEF Accepted, Order, Request, Working, Places
<1>2. /\ n.place = "none" /\ n.status = "NEW" /\ n.bond = bond /\ n.group = g
      /\ n.rem = r.qty /\ n.qty = r.qty /\ n.kind = r.kind /\ n.peak = r.peak
      /\ n.price = r.price
  BY DEF Accepted
<1>3. OrderSound(n)
  BY <1>2 DEF OrderSound, WellFormed, Working, Request
<1>4. c = [b EXCEPT !.ord[i] = n]
  BY DEF Add
<1> HIDE DEF n, c
<1>5. /\ c.ord = [b.ord EXCEPT ![i] = n] /\ c.live = b.live /\ c \in Book
      /\ b.ord \in [Ids -> Order]
  BY <1>1, <1>4 DEF Sound, Book
<1>6. Bonded(c)
  BY <1>2, <1>5 DEF Bonded, Sound
<1>7. \A j \in Ids : OrderSound(c.ord[j])
  BY <1>3, <1>5 DEF Sound
<1>8. QED
  BY <1>2, <1>5, <1>6, <1>7 DEF Sound, OthersSame, c, n

\* _handle_new_order keeps the invariant.
LEMMA NewOrderStep ==
  ASSUME IInv, NEW r \in NewOrders, NewOrder(r)
  PROVE  IInv' /\ Final
<1> DEFINE n == born + 1
<1>1. /\ Sound(book) /\ pc = "idle" /\ n \in Ids /\ book \in Book
      /\ book' = Add(book, n, Accepted(r, "none", 0))
      /\ r \in Request /\ WellFormed(r)
  BY MaxOrdersAssumption, RequestsAssumption, GatesAssumption
     DEF IInv, TypeOK, NewOrder, Ids
<1>2. /\ Sound(book') /\ OthersSame(book, book', n) /\ book'.live = book.live
      /\ book'.ord[n].place = "none" /\ book'.ord[n].status = "NEW"
      /\ book'.ord[n].bond = "none"
  <2>1. "none" \in Bonds /\ 0 \in 0 .. MaxOrders
    BY MaxOrdersAssumption DEF Bonds
  <2>2. QED
    BY <1>1, <2>1, AddSound
<1>3. order(n).status = "ABSENT" /\ order(n).bond = "none"
  BY <1>1 DEF IInv, Unborn, TypeOK
<1>4. TypeOK'
  <2>1. UNCHANGED <<last, hasStops, matching, clearing, traded, released>>
        /\ born' = n /\ cur' = n /\ todo' = 0 /\ pc' = "process"
    BY DEF NewOrder, Start
  <2>2. QED
    BY <1>1, <1>2, <2>1, MaxOrdersAssumption DEF IInv, TypeOK, Sound, Ids, Pcs
<1>5. Registered' /\ Unborn'
  BY <1>1, <1>2, <1>3 DEF IInv, Registered, Unborn, OthersSame, order, Book, NewOrder, TypeOK, Ids
<1>6. HandlerOK'
  BY <1>1, <1>2 DEF HandlerOK, InHand, order, NewOrder, Start, Working
<1>7. CascadeOK'
  BY <1>1, <1>2 DEF IInv, CascadeOK, OthersSame, order
<1>8. Final
  BY <1>1, <1>2, <1>3 DEF IInv, Final, OthersSame, order, Dead, OrderSound, Sound, Held, Working
<1>9. QED
  BY <1>2, <1>4, <1>5, <1>6, <1>7, <1>8 DEF IInv

\* Two legs accepted together.
LEMMA AddPairSound ==
  ASSUME IInv, born + 1 < MaxOrders, NEW l \in Request \X Request,
         WellFormed(l[1]), WellFormed(l[2]), NEW bond \in {"oco", "quote"}
  PROVE  LET g == born + 1
             c == AddPair(book, l, bond)
         IN  /\ g \in Ids /\ g + 1 \in Ids /\ g # g + 1
             /\ Sound(c) /\ c.live = book.live
             /\ \A i \in {g, g + 1} :
                  /\ order(i).status = "ABSENT" /\ order(i).bond = "none"
                  /\ c.ord[i].place = "none" /\ c.ord[i].status = "NEW"
                  /\ c.ord[i].bond = bond /\ c.ord[i].group = g
             /\ \A i \in Ids \ {g, g + 1} : c.ord[i] = order(i)
<1> DEFINE g == born + 1
           b == Add(book, g, Accepted(l[1], bond, g))
           c == Add(b, g + 1, Accepted(l[2], bond, g))
<1>1. /\ Sound(book) /\ g \in Ids /\ g + 1 \in Ids /\ g \in 0 .. MaxOrders
      /\ bond \in Bonds /\ g # g + 1
  BY MaxOrdersAssumption DEF IInv, TypeOK, Ids, Bonds
<1>2. order(g).status = "ABSENT" /\ order(g + 1).status = "ABSENT"
      /\ order(g).bond = "none" /\ order(g + 1).bond = "none"
  BY <1>1 DEF IInv, Unborn, TypeOK
<1>3. l[1] \in Request /\ l[2] \in Request
  OBVIOUS
<1> HIDE DEF g
<1>4. /\ Sound(b) /\ OthersSame(book, b, g) /\ b.live = book.live
      /\ b.ord[g].place = "none" /\ b.ord[g].status = "NEW"
      /\ b.ord[g].bond = bond /\ b.ord[g].group = g
  BY <1>1, <1>3, AddSound
<1> HIDE DEF b
<1>5. /\ Sound(c) /\ OthersSame(b, c, g + 1) /\ c.live = b.live
      /\ c.ord[g + 1].place = "none" /\ c.ord[g + 1].status = "NEW"
      /\ c.ord[g + 1].bond = bond /\ c.ord[g + 1].group = g
  BY <1>1, <1>3, <1>4, AddSound
<1>6. AddPair(book, l, bond) = c
  BY DEF AddPair, b, c, g
<1> HIDE DEF c
<1>7. c.ord[g] = b.ord[g] /\ \A i \in Ids \ {g, g + 1} : c.ord[i] = order(i)
  BY <1>1, <1>4, <1>5 DEF OthersSame, order
<1>8. QED
  BY <1>1, <1>2, <1>4, <1>5, <1>6, <1>7 DEF g

\* What the messages that accept a pair have in common: b is the book with
\* the new legs, under registrations of its own or of the first leg.
LEMMA PairStep ==
  ASSUME IInv, pc = "idle", born + 1 < MaxOrders,
         NEW l \in Request \X Request, WellFormed(l[1]), WellFormed(l[2]),
         NEW bond \in {"oco", "quote"},
         NEW live \in SUBSET (book.live \cup {born + 1}),
         book' = [AddPair(book, l, bond) EXCEPT !.live = live],
         born' = born + 2, cur' = born + 1, todo' = born + 2,
         pc' \in {"process", "withdraw"}
  PROVE  /\ Sound(book') /\ Registered' /\ Unborn' /\ HandlerOK' /\ CascadeOK' /\ Final
         /\ cur' \in Ids /\ todo' \in Ids /\ born' \in Ids
<1> DEFINE g == born + 1
           c == AddPair(book, l, bond)
<1>1. /\ g \in Ids /\ g + 1 \in Ids /\ g # g + 1
      /\ Sound(c) /\ c.live = book.live
      /\ \A i \in {g, g + 1} :
           /\ order(i).status = "ABSENT" /\ order(i).bond = "none"
           /\ c.ord[i].place = "none" /\ c.ord[i].status = "NEW"
           /\ c.ord[i].bond = bond /\ c.ord[i].group = g
      /\ \A i \in Ids \ {g, g + 1} : c.ord[i] = order(i)
  BY AddPairSound
<1>2. book.live \subseteq Ids /\ born \in Int /\ g + 1 = born + 2
  BY DEF IInv, TypeOK, Book
<1> HIDE DEF c
<1>3. Sound(book') /\ book'.ord = c.ord /\ book'.live = live
  BY <1>1, <1>2, LiveSound DEF c
<1>4. Registered'
  BY <1>1, <1>2, <1>3 DEF IInv, Registered, order
<1>5. Unborn'
  BY <1>1, <1>2, <1>3 DEF IInv, Unborn, order, Ids
<1>6. HandlerOK'
  BY <1>1, <1>2, <1>3 DEF HandlerOK, InHand, order, Working, Ids
<1>7. CascadeOK'
  BY <1>1, <1>3 DEF IInv, CascadeOK, order
<1>8. Final
  BY <1>1, <1>3 DEF IInv, Final, order, Dead, OrderSound, Sound, Held, Working
<1>9. QED
  BY <1>1, <1>2, <1>3, <1>4, <1>5, <1>6, <1>7, <1>8

\* _handle_oco_order keeps the invariant.
LEMMA OcoOrderStep ==
  ASSUME IInv, NEW l \in OcoPairs, OcoOrder(l)
  PROVE  IInv' /\ Final
<1>1. l \in Request \X Request /\ WellFormed(l[1]) /\ WellFormed(l[2])
  BY RequestsAssumption, GatesAssumption
<1>2. /\ pc = "idle" /\ born + 1 < MaxOrders /\ born' = born + 2
      /\ cur' = born + 1 /\ todo' = born + 2 /\ pc' = "process"
      /\ book' = [AddPair(book, l, "oco") EXCEPT !.live = book.live \cup {born + 1}]
      /\ UNCHANGED <<last, hasStops, matching, clearing, traded, released>>
  <2>1. AddPair(book, l, "oco").live = book.live
    BY <1>1, AddPairSound DEF OcoOrder
  <2>2. QED
    BY <2>1 DEF OcoOrder, Start
<1>3. /\ Sound(book') /\ Registered' /\ Unborn' /\ HandlerOK' /\ CascadeOK' /\ Final
      /\ cur' \in Ids /\ todo' \in Ids /\ born' \in Ids
  BY <1>1, <1>2, PairStep
<1>4. TypeOK'
  BY <1>2, <1>3 DEF IInv, TypeOK, Sound, Ids, Pcs
<1>5. QED
  BY <1>3, <1>4 DEF IInv

\* _handle_quote_new keeps the invariant.
LEMMA QuoteNewStep ==
  ASSUME IInv, NEW l \in QuotePairs, QuoteNew(l)
  PROVE  IInv' /\ Final
<1>1. l \in Request \X Request /\ WellFormed(l[1]) /\ WellFormed(l[2])
  BY RequestsAssumption, GatesAssumption
<1>2. /\ pc = "idle" /\ born + 1 < MaxOrders /\ born' = born + 2
      /\ cur' = born + 1 /\ todo' = born + 2 /\ pc' = "withdraw"
      /\ book' = [AddPair(book, l, "quote") EXCEPT
                    !.live = book.live \ QuoteOf(l[1].gw)]
      /\ clearing' \subseteq Ids
      /\ UNCHANGED <<last, hasStops, matching, traded, released>>
  <2>1. AddPair(book, l, "quote").live = book.live
    BY <1>1, AddPairSound DEF QuoteNew
  <2>2. QuoteLegs(l[1].gw) \subseteq Ids
    BY DEF QuoteLegs, Orphans
  <2>3. QED
    BY <2>1, <2>2 DEF QuoteNew
<1>3. /\ Sound(book') /\ Registered' /\ Unborn' /\ HandlerOK' /\ CascadeOK' /\ Final
      /\ cur' \in Ids /\ todo' \in Ids /\ born' \in Ids
  BY <1>1, <1>2, PairStep
<1>4. TypeOK'
  BY <1>2, <1>3 DEF IInv, TypeOK, Sound, Ids, Pcs
<1>5. QED
  BY <1>3, <1>4 DEF IInv

-----------------------------------------------------------------------------
(***************************************************************************)
(* Messages that withdraw, amend or do nothing.                            *)
(***************************************************************************)

\* A step between messages: nobody holds an order, nobody waits.
LEMMA IdleFacts ==
  ASSUME IInv, pc = "idle"
  PROVE  /\ cur = 0 /\ todo = 0 /\ cur \notin Ids /\ Sound(book) /\ book \in Book
         /\ \A i \in Ids : order(i).place # "triggered"
BY DEF IInv, HandlerOK, CascadeOK, Ids, Sound

\* A step of an idle engine that only thins the book.
LEMMA IdleThinned ==
  ASSUME IInv, pc = "idle", pc' \in {"idle", "withdraw"},
         NEW c, Sound(c),
         \A i \in Ids : Moved(order(i), c.ord[i]) /\ c.ord[i].place \in {order(i).place, "none"},
         book' = c, book'.live \subseteq book.live,
         UNCHANGED <<last, hasStops, matching, born, cur, todo, traded, released>>,
         clearing' \subseteq Ids
  PROVE  IInv' /\ Final
<1>1. Registered' /\ Unborn' /\ Final
  BY IdleFacts, Frame
<1>2. TypeOK'
  BY DEF IInv, TypeOK, Sound, Pcs
<1>3. HandlerOK'
  BY IdleFacts DEF HandlerOK
<1>4. CascadeOK'
  BY IdleFacts DEF CascadeOK, order
<1>5. QED
  BY <1>1, <1>2, <1>3, <1>4 DEF IInv

\* _handle_quote_cancel and _handle_kill_switch keep the invariant.
LEMMA BatchStep ==
  ASSUME IInv, NEW gw \in Gateways, QuoteCancel(gw) \/ KillSwitch(gw)
  PROVE  IInv' /\ Final
<1> DEFINE c == [book EXCEPT !.live = book.live \ QuoteOf(gw)]
<1>1. /\ book' = c /\ pc = "idle" /\ pc' = "withdraw" /\ clearing' \subseteq Ids
      /\ UNCHANGED <<last, hasStops, matching, born, cur, todo, traded, released>>
  <2>1. CASE QuoteCancel(gw)
    <3>1. QuoteLegs(gw) \subseteq Ids
      BY DEF QuoteLegs, Orphans
    <3>2. QED
      BY <2>1, <3>1 DEF QuoteCancel
  <2>2. CASE KillSwitch(gw)
    BY <2>2 DEF KillSwitch
  <2>3. QED
    BY <2>1, <2>2
<1>2. Sound(c) /\ c.ord = book.ord /\ c.live \subseteq book.live
  BY LiveSound DEF IInv, TypeOK, Book
<1> HIDE DEF c
<1>3. \A i \in Ids : Moved(order(i), c.ord[i]) /\ c.ord[i].place \in {order(i).place, "none"}
  BY <1>2 DEF Moved, order
<1>4. QED
  BY <1>1, <1>2, <1>3, IdleThinned

\* _handle_cancel keeps the invariant.
LEMMA CancelOrderStep ==
  ASSUME IInv, NEW i \in Ids, CancelOrder(i)
  PROVE  IInv' /\ Final
<1> DEFINE c == Cancel(book, i)
           d == OcoLegEnded(c, i)
<1>1. Sound(book)
  BY DEF IInv
<1>2. Sound(c) /\ Thinned(book, c)
  BY <1>1, CancelThins
<1>3. Sound(d) /\ Thinned(c, d)
  BY <1>2, OcoLegEndedThins
<1>4. Thinned(book, d)
  BY <1>1, <1>2, <1>3, ThinnedTransitive
<1>5. /\ book' = d /\ pc = "idle" /\ pc' = "idle"
      /\ UNCHANGED <<last, hasStops, matching, born, cur, todo, clearing, traded, released>>
  BY DEF CancelOrder, dispatch
<1> HIDE DEF c, d
<1>6. \A j \in Ids : Moved(order(j), d.ord[j]) /\ d.ord[j].place \in {order(j).place, "none"}
  BY <1>1, <1>4, ThinnedMoves DEF order
<1>7. QED
  BY <1>3, <1>4, <1>5, <1>6, IdleThinned DEF IInv, TypeOK, Thinned

\* _handle_oco_cancel keeps the invariant.
LEMMA OcoCancelStep ==
  ASSUME IInv, NEW g \in Ids, OcoCancel(g)
  PROVE  IInv' /\ Final
<1> DEFINE c == Cancel(book, g)
           d == Cancel(c, g + 1)
           e == [d EXCEPT !.live = book.live \ {g}]
<1>1. Sound(book) /\ g + 1 \in Ids
  BY DEF IInv, OcoCancel, Registered, Sound, Bonded, order
<1>2. Sound(c) /\ Thinned(book, c) /\ c.live = book.live
  <2>1. c.live = book.live
    BY <1>1 DEF Cancel, Sound, Book
  <2>2. QED
    BY <1>1, <2>1, CancelThins
<1>3. Sound(d) /\ Thinned(c, d) /\ d.live = book.live
  <2>1. d.live = c.live
    BY <1>2 DEF Cancel, Sound, Book
  <2>2. QED
    BY <1>1, <1>2, <2>1, CancelThins
<1>4. Thinned(book, d)
  BY <1>1, <1>2, <1>3, ThinnedTransitive
<1>5. /\ book' = e /\ pc = "idle" /\ pc' = "idle"
      /\ UNCHANGED <<last, hasStops, matching, born, cur, todo, clearing, traded, released>>
  BY <1>3 DEF OcoCancel, dispatch
<1> HIDE DEF c, d
<1>6. Sound(e) /\ e.ord = d.ord /\ e.live \subseteq book.live
  BY <1>3, LiveSound DEF IInv, TypeOK, Book
<1> HIDE DEF e
<1>7. \A j \in Ids : Moved(order(j), e.ord[j]) /\ e.ord[j].place \in {order(j).place, "none"}
  BY <1>1, <1>4, <1>6, ThinnedMoves DEF order
<1>8. QED
  BY <1>5, <1>6, <1>7, IdleThinned DEF IInv, TypeOK

\* CallPhaseBegins and NoMessage keep the invariant.
LEMMA NothingStep ==
  ASSUME IInv, CallPhaseBegins \/ NoMessage
  PROVE  IInv' /\ Final
<1>1. pc = "idle" /\ book' = book /\ matching' \in BOOLEAN
      /\ UNCHANGED <<last, hasStops, born, pc, cur, todo, clearing, traded, released>>
  BY DEF CallPhaseBegins, NoMessage, IInv, TypeOK, vars, dispatch
<1>2. TypeOK' /\ Sound(book') /\ Registered' /\ Unborn' /\ HandlerOK' /\ CascadeOK'
  BY <1>1, IdleFacts DEF IInv, TypeOK, Registered, Unborn, HandlerOK, InHand, CascadeOK, order
<1>3. Final
  BY <1>1 DEF IInv, Sound, Final, order, OrderSound, Held, Dead, Working
<1>4. QED
  BY <1>2, <1>3 DEF IInv

\* An amended order still shows a positive slice within its remainder.
LEMMA AmendedSound ==
  ASSUME NEW b, Sound(b), NEW i \in Ids, b.ord[i].place = "book",
         NEW price \in Prices, NEW qty \in Nat, qty > b.ord[i].qty - b.ord[i].rem
  PROVE  LET c == Amended(b, i, price, qty)
         IN  /\ Sound(c) /\ OthersSame(b, c, i) /\ c.live = b.live
             /\ c.ord[i].bond = b.ord[i].bond /\ c.ord[i].group = b.ord[i].group
             /\ c.ord[i].status = b.ord[i].status /\ c.ord[i].place = "book"
             /\ c.ord[i].status \in Working
<1> DEFINE o     == b.ord[i]
           reset == LosesPriority(o, price, qty)
           rem   == qty - (o.qty - o.rem)
           slice == IF o.kind # "ICEBERG" THEN o.shown
                    ELSE Least(IF reset THEN o.peak ELSE o.shown, rem)
           n     == [o EXCEPT !.price = price, !.qty = qty, !.rem = rem, !.shown = slice,
                              !.seq = IF reset THEN b.seq + 1 ELSE o.seq]
           sq    == IF reset THEN b.seq + 1 ELSE b.seq
           lvl   == Credit(Deduct(b.level, o, Slice(o)), n, Slice(n))
           c     == Amended(b, i, price, qty)
<1>1. o \in Order /\ OrderSound(o) /\ b.seq \in Nat /\ b.level \in Levels
  BY DEF Sound, Book
<1>2. /\ o.rem \in Nat /\ o.qty \in Nat /\ o.peak \in Nat /\ o.shown \in Nat
      /\ o.seq \in Nat /\ o.rem <= o.qty /\ o.status \in Working /\ o.kind \in Restable
      /\ Slice(o) \in 1 .. o.rem
  BY <1>1 DEF Order, OrderSound
<1>3. rem \in Nat /\ rem > 0 /\ rem <= qty
  BY <1>2
<1>4. slice \in Nat /\ (o.kind = "ICEBERG" => slice \in 1 .. rem)
  BY <1>1, <1>2, <1>3 DEF Least, OrderSound, Slice
<1>5. n \in Order
  <2>1. (IF reset THEN b.seq + 1 ELSE o.seq) \in Nat
    BY <1>1, <1>2
  <2> HIDE DEF rem, reset, slice
  <2>2. QED
    BY <1>1, <1>3, <1>4, <2>1 DEF Order
<1>6. /\ n.rem = rem /\ n.qty = qty /\ n.shown = slice /\ n.kind = o.kind /\ n.price = price
      /\ n.peak = o.peak /\ n.status = o.status /\ n.place = "book"
      /\ n.bond = o.bond /\ n.group = o.group
  BY <1>1 DEF Order
<1> HIDE DEF rem, slice
<1>7. Slice(n) \in 1 .. n.rem
  BY <1>3, <1>4, <1>6 DEF Slice
<1> HIDE DEF n
<1>8. OrderSound(n)
  BY <1>1, <1>2, <1>3, <1>6, <1>7 DEF OrderSound
<1>9. lvl \in Levels
  BY <1>1, <1>2, <1>5, <1>3, <1>6, <1>7, LevelsUpdate
<1>10. c = [b EXCEPT !.ord[i] = n, !.seq = sq, !.level = lvl]
  BY DEF Amended, n, lvl, sq, slice, rem
<1>11. b.live \in SUBSET Ids /\ b.ord \in [Ids -> Order] /\ sq \in Nat
  BY <1>1 DEF Sound, Book
<1> HIDE DEF sq, lvl, c
<1>12. c = [ord |-> [b.ord EXCEPT ![i] = n], level |-> lvl, seq |-> sq, live |-> b.live]
  BY <1>10 DEF Sound, Book
<1>13. Sound(c)
  BY <1>5, <1>6, <1>8, <1>9, <1>11, <1>12, SoundUpdate
<1>14. OthersSame(b, c, i) /\ c.ord[i] = n /\ c.live = b.live
  BY <1>11, <1>12 DEF OthersSame
<1>15. QED
  BY <1>2, <1>6, <1>13, <1>14 DEF c

\* _handle_amend keeps the invariant.
LEMMA AmendStep ==
  ASSUME IInv, NEW i \in Ids, NEW price \in AmendPrices, NEW qty \in AmendQtys,
         Amend(i, price, qty)
  PROVE  IInv' /\ Final
<1> DEFINE b == Amended(book, i, price, qty)
           c == Cancel(b, i)
           d == [c EXCEPT !.ord[i].status = "NEW"]
<1>1. /\ Sound(book) /\ pc = "idle" /\ order(i).place = "book"
      /\ price \in Prices /\ qty \in Nat /\ qty > book.ord[i].qty - book.ord[i].rem
  BY RequestsAssumption DEF IInv, Amend, order
<1>2. /\ Sound(b) /\ OthersSame(book, b, i) /\ b.live = book.live
      /\ b.ord[i].bond = book.ord[i].bond /\ b.ord[i].group = book.ord[i].group
      /\ b.ord[i].status = book.ord[i].status /\ b.ord[i].place = "book"
      /\ b.ord[i].status \in Working
  BY <1>1, AmendedSound DEF order
<1>3. /\ IF matching /\ Marketable(b, i)
         THEN book' = d /\ pc' = "process" /\ cur' = i /\ todo' = 0
              /\ UNCHANGED <<clearing, traded, released>>
         ELSE book' = b /\ UNCHANGED <<pc, cur, todo, clearing, traded, released>>
      /\ UNCHANGED <<last, hasStops, matching, born>>
  BY DEF Amend, Start, dispatch
<1>4. CASE ~(matching /\ Marketable(b, i))
  <2>1. book' = b /\ UNCHANGED <<pc, cur, todo, clearing, traded, released>>
    BY <1>3, <1>4
  <2> HIDE DEF b
  <2>2. \A j \in Ids : Moved(order(j), b.ord[j]) /\ b.ord[j].place \in {order(j).place, "none"}
    BY <1>1, <1>2 DEF OthersSame, Moved, order
  <2>3. QED
    BY <1>1, <1>2, <1>3, <2>1, <2>2, IdleThinned DEF IInv, TypeOK
<1>5. CASE matching /\ Marketable(b, i)
  <2>1. /\ book' = d /\ pc' = "process" /\ cur' = i /\ todo' = 0
        /\ UNCHANGED <<clearing, traded, released>>
    BY <1>3, <1>5
  <2>2. /\ Sound(c) /\ OthersSame(b, c, i) /\ c.live = b.live /\ c.seq \in Nat
        /\ c.ord[i] = Withdrawn1(b.ord[i])
    <3> HIDE DEF b
    <3>1. Sound(c)
      BY <1>2, CancelThins
    <3>2. b.ord[i].status \notin Dead
      BY <1>2 DEF Working, Dead
    <3>3. QED
      BY <1>2, <3>1, <3>2 DEF Cancel, Sound, Book, OthersSame, Withdrawn1
  <2>3. /\ c.ord[i].place = "none" /\ c.ord[i].rem > 0
        /\ c.ord[i].bond = book.ord[i].bond /\ c.ord[i].group = book.ord[i].group
    <3> HIDE DEF b, c
    <3>1. b.ord[i] \in Order /\ OrderSound(b.ord[i])
      BY <1>2 DEF Sound, Book
    <3>2. QED
      BY <1>2, <2>2, <3>1 DEF Withdrawn1, Order, OrderSound
  <2> HIDE DEF b, c
  <2>4. /\ Sound(d) /\ OthersSame(c, d, i) /\ SameOrder(c.ord[i], d.ord[i])
        /\ d.live = c.live /\ d.ord[i].status = "NEW" /\ d.ord[i].place = "none"
    BY <2>2, <2>3, StatusSound
  <2> HIDE DEF d
  <2>5. \A j \in Ids : Moved(order(j), d.ord[j]) /\ d.ord[j].place \in {order(j).place, "none"}
    <3>1. \A j \in Ids \ {i} : d.ord[j] = order(j)
      BY <1>2, <2>2, <2>4 DEF OthersSame, order
    <3>2. Moved(order(i), d.ord[i]) /\ d.ord[i].place = "none"
      BY <1>1, <1>2, <2>3, <2>4 DEF Moved, order, SameOrder
    <3>3. QED
      BY <3>1, <3>2 DEF Moved
  <2>6. Registered' /\ Unborn' /\ Final
    <3>1. /\ Sound(book') /\ book'.live \subseteq book.live /\ born' = born
          /\ \A j \in Ids : Moved(order(j), book'.ord[j])
      BY <1>2, <1>3, <2>1, <2>2, <2>4, <2>5
    <3>2. cur \notin Ids
      BY <1>1, IdleFacts
    <3>3. QED
      BY <3>1, <3>2, Frame
  <2>7. TypeOK'
    <3>1. UNCHANGED <<last, hasStops, matching, born, clearing, traded, released>>
      BY <1>3, <2>1
    <3>2. QED
      BY <2>1, <2>4, <3>1, MaxOrdersAssumption DEF IInv, TypeOK, Sound, Ids, Pcs
  <2>8. HandlerOK'
    BY <2>1, <2>4 DEF HandlerOK, InHand, order, Working
  <2>9. CascadeOK'
    BY <1>1, <2>1, <2>5, IdleFacts DEF CascadeOK, order
  <2>10. QED
    BY <2>1, <2>4, <2>6, <2>7, <2>8, <2>9 DEF IInv
<1>6. QED
  BY <1>4, <1>5

-----------------------------------------------------------------------------
(***************************************************************************)
(* Steps of a handler.                                                     *)
(***************************************************************************)

\* Steps that keep their order in hand, or put it away for good.
LEMMA StepFrame ==
  ASSUME IInv, pc \notin {"idle", "withdraw", "next"},
         Sound(book'), book'.live \subseteq book.live,
         UNCHANGED <<matching, born, cur, todo>>,
         last' \in Prices \cup {NoPrice}, hasStops' \in BOOLEAN, traded' \in BOOLEAN,
         released' \in Nat, clearing' \subseteq Ids,
         pc' \in {"refuse", "sweep", "settle", "next"},
         \A i \in Ids \ {cur} : Moved(order(i), book'.ord[i]),
         Handled(order(cur), book'.ord[cur]),
         order(cur).status \in Working => book'.ord[cur].status # "ABSENT",
         pc' # "next" => matching,
         pc' = "sweep" =>
           /\ book'.ord[cur].place = "none"
           /\ book'.ord[cur].rem > 0 => book'.ord[cur].status \in Working,
         \A i \in Ids : book'.ord[i].place = "triggered" =>
           order(i).place = "triggered" \/ matching
  PROVE  IInv' /\ Final
<1>1. /\ Registered' /\ Unborn' /\ Final
      /\ todo # 0 => book'.ord[todo] = order(todo)
  BY Frame
<1>2. TypeOK'
  BY DEF IInv, TypeOK, Sound, Pcs
<1>3. cur \in Ids
  BY DEF IInv, HandlerOK
<1>4. HandlerOK'
  BY <1>1, <1>3 DEF IInv, HandlerOK, InHand, order
<1>5. CascadeOK'
  BY DEF IInv, CascadeOK, order
<1>6. QED
  BY <1>1, <1>2, <1>4, <1>5 DEF IInv

\* A cancel of a batch.
LEMMA WithdrawStep ==
  ASSUME IInv, Withdraw
  PROVE  IInv' /\ Final
<1>1. PICK i \in clearing : book' = Cancel(book, i) /\ clearing' = clearing \ {i}
  BY DEF Withdraw
<1>2. /\ Sound(book) /\ i \in Ids /\ pc = "withdraw" /\ pc' = "withdraw"
      /\ UNCHANGED <<last, hasStops, matching, born, cur, todo, traded, released>>
  BY DEF IInv, TypeOK, Withdraw
<1>3. Sound(book') /\ Thinned(book, book')
  BY <1>1, <1>2, CancelThins
<1>4. \A j \in Ids : /\ Moved(order(j), book'.ord[j]) /\ Handled(order(j), book'.ord[j])
                     /\ book'.ord[j].place \in {order(j).place, "none"}
                     /\ order(j).status \in Working => book'.ord[j].status # "ABSENT"
  BY <1>2, <1>3, ThinnedMoves DEF order
<1>5. /\ Registered' /\ Unborn' /\ Final
      /\ todo # 0 => book'.ord[todo] = order(todo)
  BY <1>2, <1>3, <1>4, Frame DEF Thinned
<1>6. TypeOK'
  BY <1>1, <1>2, <1>3 DEF IInv, TypeOK, Sound
<1>7. InHand(cur) => book'.ord[cur] = order(cur)
  BY <1>4 DEF InHand, Moved
<1>8. HandlerOK'
  BY <1>2, <1>5, <1>7 DEF IInv, HandlerOK, InHand, order
<1>9. CascadeOK'
  BY <1>2, <1>4 DEF IInv, CascadeOK, order
<1>10. QED
  BY <1>3, <1>5, <1>6, <1>8, <1>9 DEF IInv

\* The end of a batch, and the registration of the new quote.
LEMMA WithdrawnStep ==
  ASSUME IInv, Withdrawn
  PROVE  IInv' /\ Final
<1>1. /\ Sound(book) /\ pc = "withdraw"
      /\ UNCHANGED <<last, hasStops, matching, born, cur, todo, clearing, traded, released>>
  BY DEF IInv, Withdrawn
<1>2. CASE todo = 0
  <2>1. book' = book /\ pc' = "idle" /\ cur = 0
    BY <1>1, <1>2 DEF Withdrawn, IInv, HandlerOK
  <2>2. TypeOK' /\ Registered' /\ Unborn' /\ HandlerOK' /\ CascadeOK'
    BY <1>1, <1>2, <2>1 DEF IInv, TypeOK, Registered, Unborn, HandlerOK, CascadeOK, order, Pcs
  <2>3. Final
    BY <1>1, <2>1 DEF Sound, Final, order, OrderSound, Held, Dead, Working
  <2>4. QED
    BY <1>1, <2>1, <2>2, <2>3 DEF IInv
<1>3. CASE todo # 0
  <2>1. /\ book' = [book EXCEPT !.live = book.live \cup {cur}] /\ pc' = "process"
        /\ cur \in Ids /\ order(cur).bond # "none" /\ order(cur).group = cur /\ InHand(cur)
        /\ InHand(todo) /\ todo # cur
    BY <1>1, <1>3 DEF Withdrawn, IInv, HandlerOK, InHand
  <2>2. /\ Sound(book') /\ book'.ord = book.ord /\ book'.live = book.live \cup {cur}
    BY <1>1, <2>1, LiveSound DEF IInv, TypeOK, Book
  <2>3. TypeOK'
    BY <1>1, <2>1, <2>2 DEF IInv, TypeOK, Sound, Pcs
  <2>4. Registered' /\ Unborn' /\ HandlerOK' /\ CascadeOK'
    BY <1>1, <2>1, <2>2 DEF IInv, Registered, Unborn, HandlerOK, CascadeOK, InHand, order
  <2>5. Final
    BY <1>1, <2>2 DEF Sound, Final, order, OrderSound, Held, Dead, Working
  <2>6. QED
    BY <2>2, <2>3, <2>4, <2>5 DEF IInv
<1>4. QED
  BY <1>2, <1>3

-----------------------------------------------------------------------------
(***************************************************************************)
(* process(): what becomes of the order in hand.                           *)
(***************************************************************************)
LEMMA ProcessingFacts ==
  ASSUME IInv, Processing
  PROVE  /\ Sound(book) /\ cur \in Ids /\ pc = "process"
         /\ order(cur) \in Order /\ OrderSound(order(cur))
         /\ order(cur).status \in Working
         /\ order(cur).place \in {"none", "triggered"}
         /\ order(cur).kind \in StopKinds \cup {"FOK"} => order(cur).place = "none"
         /\ ~matching => order(cur).place = "none"
<1>1. /\ Sound(book) /\ cur \in Ids /\ pc = "process"
      /\ order(cur) \in Order /\ OrderSound(order(cur))
  BY DEF IInv, HandlerOK, Processing, Sound, Book, order
<1>2. order(cur).status \in Working /\ order(cur).place \in {"none", "triggered"}
  BY <1>1 DEF IInv, HandlerOK, InHand, Processing, OrderSound
<1>3. order(cur).kind \in StopKinds \cup {"FOK"} => order(cur).place = "none"
  BY <1>1, <1>2 DEF OrderSound, StopKinds
<1>4. ~matching => order(cur).place = "none"
  BY <1>1, <1>2 DEF IInv, CascadeOK
<1>5. QED
  BY <1>1, <1>2, <1>3, <1>4

\* A stop cancelled while it waited leaves the queue.
LEMMA DropCancelledStep ==
  ASSUME IInv, DropCancelled
  PROVE  IInv' /\ Final
<1> DEFINE o == order(cur)
           n == [o EXCEPT !.place = "none", !.turn = 0]
<1>1. /\ Sound(book) /\ cur \in Ids /\ o \in Order /\ OrderSound(o)
      /\ o.place = "triggered" /\ o.status = "CANCELLED" /\ matching
      /\ pc = "process" /\ pc' = "next"
      /\ UNCHANGED <<last, hasStops, matching, born, cur, todo, clearing, traded, released>>
  BY DEF IInv, HandlerOK, CascadeOK, DropCancelled, Processing, Sound, Book, order
<1>2. n \in Order /\ n.place = "none" /\ n.status = o.status /\ n.rem = o.rem
      /\ n.bond = o.bond /\ n.group = o.group /\ n.kind = o.kind /\ n.price = o.price
      /\ n.peak = o.peak /\ n.qty = o.qty
  BY <1>1 DEF Order, Places
<1>3. book' = [book EXCEPT !.ord[cur] = n]
  BY <1>1 DEF DropCancelled, order, Sound, Book
<1> HIDE DEF n
<1>4. OrderSound(n)
  BY <1>1, <1>2 DEF OrderSound
<1>5. Sound(book') /\ OthersSame(book, book', cur) /\ book'.ord[cur] = n
      /\ book'.live = book.live
  BY <1>1, <1>2, <1>3, <1>4, EditSound DEF order
<1>6. /\ \A i \in Ids \ {cur} : Moved(order(i), book'.ord[i])
      /\ Handled(o, book'.ord[cur])
  BY <1>1, <1>2, <1>5 DEF OthersSame, Moved, Handled, order, Held
<1>7. o.status \notin Working
  BY <1>1 DEF Working
<1>8. QED
  BY <1>1, <1>5, <1>6, <1>7, StepFrame DEF IInv, TypeOK

\* match=False: rejected at once, with its pair.
LEMMA RejectImmediateStep ==
  ASSUME IInv, RejectImmediate
  PROVE  IInv' /\ Final
<1> DEFINE c == [book EXCEPT !.ord[cur].status = "REJECTED"]
           d == OcoLegEnded(c, cur)
<1>1. /\ Sound(book) /\ cur \in Ids /\ pc = "process" /\ order(cur).status \in Working
      /\ order(cur).place = "none" /\ book' = d /\ pc' = "next"
      /\ UNCHANGED <<last, hasStops, matching, born, cur, todo, clearing, traded, released>>
  BY ProcessingFacts DEF RejectImmediate
<1>2. /\ Sound(c) /\ OthersSame(book, c, cur) /\ SameOrder(order(cur), c.ord[cur])
      /\ c.live = book.live /\ c.ord[cur].status = "REJECTED" /\ c.ord[cur].place = "none"
  BY <1>1, StatusSound DEF order
<1> HIDE DEF c
<1>3. Sound(d) /\ Thinned(c, d)
  BY <1>1, <1>2, OcoLegEndedThins
<1> HIDE DEF d
<1>4. d.ord[cur] = c.ord[cur]
  BY <1>1, <1>2, <1>3 DEF Thinned
<1>5. \A i \in Ids \ {cur} : Moved(order(i), d.ord[i]) /\ d.ord[i].place \in {order(i).place, "none"}
  BY <1>2, <1>3, ThinnedMoves DEF OthersSame, order
<1>6. Handled(order(cur), d.ord[cur]) /\ d.ord[cur].status # "ABSENT"
      /\ d.ord[cur].place = "none"
  BY <1>1, <1>2, <1>4 DEF Handled, SameOrder
<1>7. d.live \subseteq book.live
  BY <1>2, <1>3 DEF Thinned
<1>8. \A i \in Ids : d.ord[i].place = "triggered" => order(i).place = "triggered"
  BY <1>5, <1>6
<1>9. QED
  BY <1>1, <1>3, <1>5, <1>6, <1>7, <1>8, StepFrame DEF IInv, TypeOK

\* match=False: the order queues.
LEMMA RestUnmatchedStep ==
  ASSUME IInv, RestUnmatched
  PROVE  IInv' /\ Final
<1>1. /\ Sound(book) /\ cur \in Ids /\ pc = "process" /\ order(cur).status \in Working
      /\ order(cur).place = "none" /\ order(cur).kind \in Restable
      /\ book' = Rest(book, cur) /\ pc' = "next"
      /\ UNCHANGED <<last, hasStops, matching, born, cur, todo, clearing, traded, released>>
  BY ProcessingFacts DEF RestUnmatched
<1>2. /\ Sound(book') /\ OthersSame(book, book', cur)
      /\ SameOrder(order(cur), book'.ord[cur])
      /\ book'.live = book.live /\ book'.ord[cur].status = order(cur).status
      /\ book'.ord[cur].place = "book"
  BY <1>1, RestSound DEF order
<1>3. /\ \A i \in Ids \ {cur} : Moved(order(i), book'.ord[i]) /\ book'.ord[i] = order(i)
      /\ Handled(order(cur), book'.ord[cur])
  BY <1>1, <1>2 DEF OthersSame, Moved, Handled, SameOrder, order
<1>4. QED
  BY <1>1, <1>2, <1>3, StepFrame DEF IInv, TypeOK, Working

\* The handler dies with an exception: nothing was changed in its last step.
LEMMA HandlerRaisesStep ==
  ASSUME IInv, HandlerRaises
  PROVE  IInv' /\ Final
<1>1. /\ Sound(book) /\ order(cur).place = "none" /\ book' = book
      /\ pc = "process" /\ pc' = "idle" /\ cur' = 0 /\ todo' = 0
      /\ UNCHANGED <<last, hasStops, matching, born, clearing, traded, released>>
  BY ProcessingFacts DEF HandlerRaises, TrailingRaises, StopKinds
<1>2. TypeOK' /\ Registered' /\ Unborn' /\ HandlerOK' /\ CascadeOK'
  BY <1>1, MaxOrdersAssumption
     DEF IInv, TypeOK, Registered, Unborn, HandlerOK, CascadeOK, order, Pcs
<1>3. Final
  BY <1>1 DEF Sound, Final, order, OrderSound, Held, Dead, Working
<1>4. QED
  BY <1>1, <1>2, <1>3 DEF IInv

\* A trigger is resolved and the waiting room left, nothing else.
LEMMA ResolvedSound ==
  ASSUME NEW o \in Order, OrderSound(o), last \in Int
  PROVE  LET n == Resolved(o)
         IN  /\ n \in Order /\ OrderSound(n) /\ SameOrder(o, n) /\ n.place = "none"
             /\ n.status = o.status /\ n.rem = o.rem /\ n.kind = o.kind
             /\ n.price = o.price /\ n.peak = o.peak
<1> DEFINE stop == IF o.kind = "TRAILING_STOP" /\ o.stop = NoPrice
                   THEN IF o.side = "SELL" THEN last - o.offset ELSE last + o.offset
                   ELSE o.stop
           n == [o EXCEPT !.stop = stop, !.place = "none", !.turn = 0]
<1>1. stop \in Int
  BY DEF Order
<1>2. Resolved(o) = n
  BY DEF Resolved
<1> HIDE DEF stop
<1>3. n \in Order
  BY <1>1 DEF Order, Places
<1>4. /\ SameOrder(o, n) /\ n.place = "none" /\ n.status = o.status /\ n.rem = o.rem
      /\ n.kind = o.kind /\ n.price = o.price /\ n.peak = o.peak
  BY DEF Order, SameOrder
<1> HIDE DEF n
<1>5. OrderSound(n)
  BY <1>4 DEF OrderSound, SameOrder
<1>6. QED
  BY <1>2, <1>3, <1>4, <1>5

\* A resolved stop that is armed or converted stays sound.
LEMMA PlacedSound ==
  ASSUME NEW n \in Order, OrderSound(n), n.place = "none", n.status \in Working,
         n.kind \in StopKinds, NEW sq \in Nat
  PROVE  /\ n.kind = "TRAILING_STOP" =>
              LET m == [n EXCEPT !.place = "trailing"]
              IN  /\ m \in Order /\ OrderSound(m) /\ SameOrder(n, m)
                  /\ m.status = n.status /\ m.place = "trailing"
         /\ n.kind # "TRAILING_STOP" =>
              LET m == [n EXCEPT !.place = "armed", !.seq = sq]
              IN  /\ m \in Order /\ OrderSound(m) /\ SameOrder(n, m)
                  /\ m.status = n.status /\ m.place = "armed"
         /\ LET m == Converted(n)
            IN  /\ m \in Order /\ OrderSound(m) /\ SameOrder(n, m)
                /\ m.status = n.status /\ m.place = "none"
<1>1. ASSUME n.kind = "TRAILING_STOP"
      PROVE  LET m == [n EXCEPT !.place = "trailing"]
             IN  /\ m \in Order /\ OrderSound(m) /\ SameOrder(n, m)
                 /\ m.status = n.status /\ m.place = "trailing"
  <2> DEFINE m == [n EXCEPT !.place = "trailing"]
  <2>1. m \in Order
    BY DEF Order, Places
  <2>2. /\ SameOrder(n, m) /\ m.place = "trailing" /\ m.status = n.status /\ m.rem = n.rem
        /\ m.kind = n.kind /\ m.price = n.price /\ m.peak = n.peak
    BY DEF Order, SameOrder
  <2> HIDE DEF m
  <2>3. OrderSound(m)
    BY <1>1, <2>2 DEF OrderSound, SameOrder
  <2>4. QED
    BY <2>1, <2>2, <2>3 DEF m
<1>2. ASSUME n.kind # "TRAILING_STOP"
      PROVE  LET m == [n EXCEPT !.place = "armed", !.seq = sq]
             IN  /\ m \in Order /\ OrderSound(m) /\ SameOrder(n, m)
                 /\ m.status = n.status /\ m.place = "armed"
  <2> DEFINE m == [n EXCEPT !.place = "armed", !.seq = sq]
  <2>1. m \in Order
    BY DEF Order, Places
  <2>2. /\ SameOrder(n, m) /\ m.place = "armed" /\ m.status = n.status /\ m.rem = n.rem
        /\ m.kind = n.kind /\ m.price = n.price /\ m.peak = n.peak
    BY DEF Order, SameOrder
  <2> HIDE DEF m
  <2>3. OrderSound(m)
    BY <1>2, <2>2 DEF OrderSound, SameOrder, StopKinds
  <2>4. QED
    BY <2>1, <2>2, <2>3 DEF m
<1>3. LET m == Converted(n)
      IN  /\ m \in Order /\ OrderSound(m) /\ SameOrder(n, m)
          /\ m.status = n.status /\ m.place = "none"
  <2> DEFINE m == Converted(n)
  <2>1. m \in Order
    BY DEF Converted, Order, Kinds, Restable, Immediate
  <2>2. /\ SameOrder(n, m) /\ m.place = "none" /\ m.status = n.status /\ m.rem = n.rem
        /\ \/ m.kind = "MARKET"
           \/ m.kind = "LIMIT" /\ n.kind = "STOP_LIMIT" /\ m.price = n.price
    BY DEF Converted, Order, SameOrder
  <2> HIDE DEF m
  <2>3. OrderSound(m)
    BY <2>2 DEF OrderSound, SameOrder
  <2>4. QED
    BY <2>1, <2>2, <2>3 DEF m
<1>4. QED
  BY <1>1, <1>2, <1>3

\* What rewriting the order in hand does to the others: nothing.
LEMMA OthersMoved ==
  ASSUME OthersSame(book, book', cur)
  PROVE  \A i \in Ids \ {cur} : Moved(order(i), book'.ord[i]) /\ book'.ord[i] = order(i)
BY DEF OthersSame, Moved, order

\* A stop is armed, or starts to trail.
LEMMA ArmStopStep ==
  ASSUME IInv, ArmStop
  PROVE  IInv' /\ Final
<1> DEFINE o == order(cur)
           n == Resolved(o)
<1>1. /\ Sound(book) /\ cur \in Ids /\ pc = "process" /\ o \in Order /\ OrderSound(o)
      /\ o.status \in Working /\ last \in Int
  BY ProcessingFacts, PricesAssumption DEF ArmStop, IInv, TypeOK, NoPrice
<1>2. /\ n \in Order /\ OrderSound(n) /\ SameOrder(o, n) /\ n.place = "none"
      /\ n.status = o.status /\ n.kind = o.kind
  BY <1>1, ResolvedSound
<1>3. /\ n.kind \in StopKinds /\ hasStops' = TRUE /\ pc' = "next"
      /\ book' = IF n.kind = "TRAILING_STOP"
                 THEN [book EXCEPT !.ord[cur] = [n EXCEPT !.place = "trailing"]]
                 ELSE [book EXCEPT
                         !.ord[cur] = [n EXCEPT !.place = "armed", !.seq = book.seq + 1],
                         !.seq = book.seq + 1]
      /\ UNCHANGED <<last, matching, born, cur, todo, clearing, traded, released>>
  BY DEF ArmStop
<1> HIDE DEF n
<1>4. book.seq + 1 \in Nat
  BY <1>1 DEF Sound, Book
<1>5. /\ Sound(book') /\ OthersSame(book, book', cur) /\ book'.live = book.live
      /\ SameOrder(o, book'.ord[cur]) /\ book'.ord[cur].status = o.status
      /\ book'.ord[cur].place \in {"armed", "trailing"}
  <2>1. CASE n.kind = "TRAILING_STOP"
    <3> DEFINE m == [n EXCEPT !.place = "trailing"]
    <3>1. /\ m \in Order /\ OrderSound(m) /\ SameOrder(n, m)
          /\ m.status = n.status /\ m.place = "trailing"
      BY <1>1, <1>2, <1>3, <1>4, <2>1, PlacedSound
    <3>2. book' = [book EXCEPT !.ord[cur] = m]
      BY <1>3, <2>1
    <3> HIDE DEF m
    <3>3. m.bond = book.ord[cur].bond /\ m.group = book.ord[cur].group
      BY <1>2, <3>1 DEF SameOrder, order
    <3>4. /\ Sound(book') /\ OthersSame(book, book', cur) /\ book'.ord[cur] = m
          /\ book'.live = book.live
      <4>1. Sound(book) /\ cur \in Ids /\ m \in Order /\ OrderSound(m)
        BY <1>1, <3>1
      <4>2. QED
        BY <4>1, <3>2, <3>3, EditSound
    <3>5. QED
      BY <1>2, <3>1, <3>4 DEF SameOrder
  <2>2. CASE n.kind # "TRAILING_STOP"
    <3> DEFINE m == [n EXCEPT !.place = "armed", !.seq = book.seq + 1]
               sq == book.seq + 1
    <3>1. /\ m \in Order /\ OrderSound(m) /\ SameOrder(n, m)
          /\ m.status = n.status /\ m.place = "armed"
      BY <1>1, <1>2, <1>3, <1>4, <2>2, PlacedSound
    <3>2. book' = [book EXCEPT !.ord[cur] = m, !.seq = sq] /\ sq \in Nat
      BY <1>3, <1>4, <2>2
    <3> HIDE DEF m, sq
    <3>3. m.bond = book.ord[cur].bond /\ m.group = book.ord[cur].group
      BY <1>2, <3>1 DEF SameOrder, order
    <3>4. /\ Sound(book') /\ OthersSame(book, book', cur) /\ book'.ord[cur] = m
          /\ book'.live = book.live
      <4>1. /\ book.level \in Levels /\ book.live \in SUBSET Ids
            /\ book.ord \in [Ids -> Order]
        BY <1>1 DEF Sound, Book
      <4>2. book' = [ord |-> [book.ord EXCEPT ![cur] = m], level |-> book.level,
                     seq |-> sq, live |-> book.live]
        BY <1>1, <3>2 DEF Sound, Book
      <4>3. Sound(book')
        <5>1. Sound(book) /\ cur \in Ids /\ m \in Order /\ OrderSound(m) /\ sq \in Nat
          BY <1>1, <3>1, <3>2
        <5>2. QED
          BY <3>3, <4>1, <4>2, <5>1, SoundUpdate
      <4>4. QED
        BY <1>1, <4>1, <4>2, <4>3 DEF OthersSame
    <3>5. QED
      BY <1>2, <3>1, <3>4 DEF SameOrder
  <2>3. QED
    BY <2>1, <2>2
<1>6. /\ Handled(o, book'.ord[cur]) /\ book'.ord[cur].status # "ABSENT"
      /\ book'.ord[cur].place # "triggered"
  BY <1>1, <1>5 DEF Handled, SameOrder, Working
<1>7. QED
  BY <1>1, <1>3, <1>5, <1>6, OthersMoved, StepFrame DEF IInv, TypeOK

\* The order in hand goes to the matchers, as it is or converted.
LEMMA ToSweepStep ==
  ASSUME IInv, StartSweep \/ TriggerOnEntry
  PROVE  IInv' /\ Final
<1> DEFINE o == order(cur)
           n == Resolved(o)
<1>1. /\ Sound(book) /\ cur \in Ids /\ pc = "process" /\ o \in Order /\ OrderSound(o)
      /\ o.status \in Working /\ last \in Int
  BY ProcessingFacts, PricesAssumption DEF StartSweep, TriggerOnEntry, IInv, TypeOK, NoPrice
<1>2. /\ n \in Order /\ OrderSound(n) /\ SameOrder(o, n) /\ n.place = "none"
      /\ n.status = o.status /\ n.kind = o.kind
  BY <1>1, ResolvedSound
<1>3. /\ matching /\ pc' = "sweep"
      /\ \/ book' = [book EXCEPT !.ord[cur] = n]
         \/ n.kind \in StopKinds /\ book' = [book EXCEPT !.ord[cur] = Converted(n)]
      /\ UNCHANGED <<last, hasStops, matching, born, cur, todo, clearing, traded, released>>
  <2>1. book.ord[cur] = o
    BY DEF order
  <2>2. QED
    BY <2>1 DEF StartSweep, TriggerOnEntry, BreachedOnEntry
<1> HIDE DEF n
<1>4. PICK m \in Order : /\ OrderSound(m) /\ SameOrder(n, m) /\ m.status = n.status
                         /\ m.place = "none" /\ book' = [book EXCEPT !.ord[cur] = m]
  <2>1. CASE book' = [book EXCEPT !.ord[cur] = n]
    BY <1>2, <2>1 DEF SameOrder
  <2>2. CASE n.kind \in StopKinds /\ book' = [book EXCEPT !.ord[cur] = Converted(n)]
    <3>1. 0 \in Nat
      OBVIOUS
    <3>2. /\ Converted(n) \in Order /\ OrderSound(Converted(n)) /\ SameOrder(n, Converted(n))
          /\ Converted(n).status = n.status /\ Converted(n).place = "none"
      BY <1>1, <1>2, <2>2, <3>1, PlacedSound
    <3>3. QED
      BY <2>2, <3>2
  <2>3. QED
    BY <1>3, <2>1, <2>2
<1>5. m.bond = book.ord[cur].bond /\ m.group = book.ord[cur].group
  BY <1>2, <1>4 DEF SameOrder, order
<1>6. /\ Sound(book') /\ OthersSame(book, book', cur) /\ book'.ord[cur] = m
      /\ book'.live = book.live
  <2>1. Sound(book) /\ cur \in Ids /\ OrderSound(m) /\ book' = [book EXCEPT !.ord[cur] = m]
    BY <1>1, <1>4
  <2>2. QED
    BY <2>1, <1>5, EditSound
<1>7. Handled(o, book'.ord[cur]) /\ book'.ord[cur].status \in Working
      /\ book'.ord[cur].place = "none"
  BY <1>1, <1>2, <1>4, <1>6 DEF Handled, SameOrder
<1>8. QED
  BY <1>1, <1>3, <1>6, <1>7, OthersMoved, StepFrame DEF IInv, TypeOK, Working

\* A fill-or-kill order is refused.
LEMMA RefuseFokStep ==
  ASSUME IInv, RefuseFok
  PROVE  IInv' /\ Final
<1> DEFINE cancelled == [book EXCEPT !.ord[cur].status = "CANCELLED"]
           rejected  == [book EXCEPT !.ord[cur].status = "REJECTED"]
           Good(c)   == /\ Sound(c) /\ OthersSame(book, c, cur) /\ c.live = book.live
                        /\ SameOrder(order(cur), c.ord[cur]) /\ c.ord[cur].status # "ABSENT"
<1>1. /\ Sound(book) /\ cur \in Ids /\ pc = "process" /\ order(cur).status \in Working
      /\ order(cur).place = "none"
  BY ProcessingFacts DEF RefuseFok
<1>2. /\ matching /\ pc' = "refuse" /\ clearing' \subseteq Ids
      /\ UNCHANGED <<last, hasStops, matching, born, cur, todo, traded, released>>
  BY DEF RefuseFok, Matchable, Resting
<1>3. book' = cancelled \/ book' = rejected
  <2> DEFINE fits == /\ order(cur).smp \in {"CANCEL_AGGRESSOR", "CANCEL_BOTH"}
                     /\ {p \in Matchable(book, cur) : order(p).gw = order(cur).gw} # {}
  <2>1. book' = [book EXCEPT !.ord[cur].status = IF fits THEN "CANCELLED" ELSE "REJECTED"]
    BY DEF RefuseFok
  <2> HIDE DEF fits
  <2>2. CASE fits
    BY <2>1, <2>2
  <2>3. CASE ~fits
    BY <2>1, <2>3
  <2>4. QED
    BY <2>2, <2>3
<1>4. Good(cancelled)
  BY <1>1, StatusSound DEF order
<1>5. Good(rejected)
  BY <1>1, StatusSound DEF order
<1> HIDE DEF cancelled, rejected
<1>6. Good(book')
  BY <1>3, <1>4, <1>5
<1>7. Handled(order(cur), book'.ord[cur])
  BY <1>1, <1>6 DEF Handled, SameOrder
<1>8. \A i \in Ids \ {cur} : Moved(order(i), book'.ord[i]) /\ book'.ord[i] = order(i)
  BY <1>6, OthersMoved
<1>9. QED
  BY <1>1, <1>2, <1>6, <1>7, <1>8, StepFrame DEF IInv, TypeOK

\* A step in a handler that thins the book.
LEMMA ThinningStep ==
  ASSUME IInv, pc \in {"refuse", "sweep", "settle"}, Sound(book'), Thinned(book, book'),
         UNCHANGED <<last, hasStops, matching, born, pc, cur, todo, traded, released>>,
         clearing' \subseteq Ids
  PROVE  IInv' /\ Final
<1>1. Sound(book) /\ cur \in Ids /\ matching
  BY DEF IInv, HandlerOK
<1>2. \A j \in Ids : /\ Moved(order(j), book'.ord[j]) /\ Handled(order(j), book'.ord[j])
                     /\ book'.ord[j].place \in {order(j).place, "none"}
                     /\ order(j).status \in Working => book'.ord[j].status # "ABSENT"
  BY <1>1, ThinnedMoves DEF order
<1>3. pc = "sweep" => book'.ord[cur] = order(cur)
  BY <1>1, <1>2 DEF IInv, HandlerOK, Moved
<1>4. pc = "sweep" => /\ book'.ord[cur].place = "none"
                      /\ book'.ord[cur].rem > 0 => book'.ord[cur].status \in Working
  BY <1>3 DEF IInv, HandlerOK
<1>5. book'.live \subseteq book.live
  BY DEF Thinned
<1>6. QED
  BY <1>1, <1>2, <1>4, <1>5, StepFrame DEF IInv, TypeOK

\* The own orders that a refused fill-or-kill order pulls.
LEMMA RefusePullStep ==
  ASSUME IInv, RefusePull
  PROVE  IInv' /\ Final
<1>1. PICK p \in clearing : book' = SmpCancel(book, p) /\ clearing' = clearing \ {p}
  BY DEF RefusePull
<1>2. /\ Sound(book) /\ p \in Ids /\ pc = "refuse"
      /\ UNCHANGED <<last, hasStops, matching, born, pc, cur, todo, traded, released>>
      /\ clearing' \subseteq Ids
  BY <1>1 DEF RefusePull, IInv, TypeOK
<1>3. Sound(book') /\ Thinned(book, book')
  BY <1>1, <1>2, SmpCancelThins
<1>4. QED
  BY <1>2, <1>3, ThinningStep

\* Refused keeps the invariant: it only moves the handler on.
LEMMA RefusedStep ==
  ASSUME IInv, Refused
  PROVE  IInv' /\ Final
<1>1. /\ Sound(book) /\ cur \in Ids /\ matching /\ book' = book /\ pc = "refuse"
      /\ pc' = "settle"
      /\ UNCHANGED <<last, hasStops, matching, born, cur, todo, clearing, traded, released>>
  BY DEF IInv, HandlerOK, Refused
<1>2. Thinned(book, book)
  BY DEF Thinned
<1>3. \A j \in Ids : /\ Moved(order(j), book'.ord[j]) /\ Handled(order(j), book'.ord[j])
                     /\ order(j).status \in Working => book'.ord[j].status # "ABSENT"
  BY <1>1, <1>2, ThinnedMoves DEF order
<1>4. QED
  BY <1>1, <1>3, StepFrame DEF IInv, TypeOK, order

-----------------------------------------------------------------------------
(***************************************************************************)
(* The sweep.                                                              *)
(***************************************************************************)

\* The order being swept with and the best resting one.
LEMMA FacingFacts ==
  ASSUME IInv, NEW p \in Ids, Facing(p)
  PROVE  /\ Sound(book) /\ cur \in Ids /\ pc = "sweep" /\ matching /\ cur # p
         /\ order(cur) \in Order /\ order(p) \in Order /\ OrderSound(order(p))
         /\ order(cur).place = "none" /\ order(cur).status \in Working
         /\ order(p).place = "book"
<1>1. /\ Sound(book) /\ cur \in Ids /\ pc = "sweep" /\ matching
      /\ order(cur).place = "none" /\ order(cur).status \in Working
  BY DEF IInv, HandlerOK, Facing, Unfilled
<1>2. order(p).place = "book"
  BY DEF Facing, IsBest, Matchable, Resting, order
<1>3. QED
  BY <1>1, <1>2 DEF Sound, Book, order

\* A trade keeps the invariant: what is filled was shown.
LEMMA TradeStep ==
  ASSUME IInv, NEW p \in Ids, Trade(p)
  PROVE  IInv' /\ Final
<1> DEFINE c == ApplyFill(book, cur, p)
           o == order(cur)
           n == c.ord[cur]
<1>1. /\ Sound(book) /\ cur \in Ids /\ pc = "sweep" /\ matching /\ cur # p
      /\ o \in Order /\ OrderSound(order(p))
      /\ o.place = "none" /\ o.status \in Working
      /\ order(p).place = "book"
  BY FacingFacts DEF Trade
<1>2. /\ book' = c /\ last' = order(p).price /\ traded' = TRUE
      /\ UNCHANGED <<hasStops, matching, born, pc, cur, todo, clearing, released>>
  BY DEF Trade
<1>3. /\ Sound(c) /\ c.live \subseteq book.live
      /\ SameOrder(o, n) /\ n.place = "none"
      /\ n.status = IF n.rem = 0 THEN "FILLED" ELSE "PARTIAL"
      /\ SameOrder(order(p), c.ord[p]) /\ c.ord[p].place \in {"none", "book"}
      /\ c.ord[p].status # "ABSENT"
      /\ \A j \in Ids \ {cur, p} :
           \/ c.ord[j] = order(j)
           \/ /\ order(j).place # "none" /\ order(j).status \notin Dead
              /\ c.ord[j] = Withdrawn1(order(j))
  BY <1>1, ApplyFillSound DEF order
<1> HIDE DEF c
<1>4. \A j \in Ids \ {cur} : Moved(order(j), c.ord[j]) /\ c.ord[j].place \in {order(j).place, "none"}
  <2>1. Moved(order(p), c.ord[p]) /\ c.ord[p].place \in {order(p).place, "none"}
    BY <1>1, <1>3 DEF Moved, SameOrder, OrderSound
  <2>2. ASSUME NEW j \in Ids \ {cur, p}
        PROVE  Moved(order(j), c.ord[j]) /\ c.ord[j].place \in {order(j).place, "none"}
    <3>1. order(j) \in Order /\ OrderSound(order(j))
      BY <1>1 DEF Sound, Book, order
    <3>2. CASE c.ord[j] = order(j)
      BY <3>2 DEF Moved
    <3>3. CASE /\ order(j).place # "none" /\ order(j).status \notin Dead
               /\ c.ord[j] = Withdrawn1(order(j))
      <4>1. order(j).status \in Working
        BY <3>1, <3>3 DEF Order, OrderSound, Places
      <4>2. QED
        BY <3>1, <3>3, <4>1 DEF Moved, Withdrawn1, Order
    <3>4. QED
      BY <1>3, <3>2, <3>3
  <2>3. QED
    BY <2>1, <2>2
<1>5. Handled(o, n) /\ n.status # "ABSENT" /\ (n.rem > 0 => n.status \in Working)
  BY <1>1, <1>3 DEF Handled, SameOrder, Working
<1>6. last' \in Prices \cup {NoPrice}
  BY <1>1, <1>2 DEF OrderSound, Restable
<1>7. traded' \in BOOLEAN
  BY <1>2
<1>8. QED
  BY <1>1, <1>2, <1>3, <1>4, <1>5, <1>6, <1>7, StepFrame DEF IInv, TypeOK

\* Pulling a resting own order keeps the invariant.
LEMMA SelfMatchPullsRestingStep ==
  ASSUME IInv, NEW p \in Ids, SelfMatchPullsResting(p)
  PROVE  IInv' /\ Final
<1>1. /\ Sound(book) /\ pc = "sweep" /\ book' = SmpCancel(book, p)
      /\ UNCHANGED <<last, hasStops, matching, born, pc, cur, todo, clearing, traded, released>>
  BY FacingFacts DEF SelfMatchPullsResting, dispatch
<1>2. Sound(book') /\ Thinned(book, book')
  BY <1>1, SmpCancelThins
<1>3. QED
  BY <1>1, <1>2, ThinningStep DEF IInv, TypeOK

\* Pulling the aggressor keeps the invariant.
LEMMA SelfMatchPullsAggressorStep ==
  ASSUME IInv, NEW p \in Ids, SelfMatchPullsAggressor(p)
  PROVE  IInv' /\ Final
<1> DEFINE b == IF SelfMatch(book, cur, p) = "CANCEL_BOTH" THEN SmpCancel(book, p) ELSE book
           c == [b EXCEPT !.ord[cur].status = "CANCELLED"]
<1>1. /\ Sound(book) /\ cur \in Ids /\ pc = "sweep" /\ matching
      /\ order(cur).place = "none" /\ order(cur).status \in Working
      /\ book' = c /\ pc' = "settle"
      /\ UNCHANGED <<last, hasStops, matching, born, cur, todo, clearing, traded, released>>
  BY FacingFacts DEF SelfMatchPullsAggressor
<1>2. Sound(b) /\ Thinned(book, b)
  <2>1. Thinned(book, book)
    BY DEF Thinned
  <2>2. QED
    BY <1>1, <2>1, SmpCancelThins
<1> HIDE DEF b
<1>3. b.ord[cur] = order(cur)
  BY <1>1, <1>2 DEF Thinned, order
<1>4. /\ Sound(c) /\ OthersSame(b, c, cur) /\ SameOrder(b.ord[cur], c.ord[cur])
      /\ c.live = b.live /\ c.ord[cur].status = "CANCELLED" /\ c.ord[cur].place = "none"
  <2>1. b.ord[cur].place = "none" /\ cur \in Ids
    BY <1>1, <1>3
  <2>2. "CANCELLED" \in {"NEW", "CANCELLED", "REJECTED"}
    OBVIOUS
  <2>3. QED
    BY <1>2, <2>1, <2>2, StatusSound
<1> HIDE DEF c
<1>5. \A i \in Ids \ {cur} : Moved(order(i), c.ord[i])
  BY <1>1, <1>2, <1>4, ThinnedMoves DEF OthersSame, order
<1>6. Handled(order(cur), c.ord[cur]) /\ c.ord[cur].status # "ABSENT"
  BY <1>1, <1>3, <1>4 DEF Handled, SameOrder
<1>7. c.live \subseteq book.live
  BY <1>2, <1>4 DEF Thinned
<1>8. QED
  BY <1>1, <1>4, <1>5, <1>6, <1>7, StepFrame DEF IInv, TypeOK

\* What is left of the order in hand rests, or is cancelled.
LEMMA SweepEndsStep ==
  ASSUME IInv, SweepEnds
  PROVE  IInv' /\ Final
<1> DEFINE o == order(cur)
<1>1. /\ Sound(book) /\ cur \in Ids /\ pc = "sweep" /\ matching /\ o.place = "none"
      /\ o.rem > 0 => o.status \in Working
      /\ o \in Order /\ OrderSound(o) /\ pc' = "settle"
      /\ UNCHANGED <<last, hasStops, matching, born, cur, todo, clearing, traded, released>>
  BY DEF IInv, HandlerOK, SweepEnds, Sound, Book, order
<1>2. /\ Sound(book') /\ OthersSame(book, book', cur) /\ book'.live = book.live
      /\ Handled(o, book'.ord[cur])
      /\ o.status \in Working => book'.ord[cur].status # "ABSENT"
  <2>1. CASE o.rem = 0
    <3>1. book' = book
      BY <2>1 DEF SweepEnds
    <3>2. QED
      BY <1>1, <3>1 DEF OthersSame, Handled, Held, Working, order
  <2>2. CASE o.rem > 0 /\ o.kind \in Restable
    <3>1. book' = Rest(book, cur) /\ o.status \in Working
      BY <1>1, <2>2 DEF SweepEnds
    <3>2. /\ Sound(book') /\ OthersSame(book, book', cur) /\ SameOrder(o, book'.ord[cur])
          /\ book'.live = book.live /\ book'.ord[cur].status = o.status
      BY <1>1, <2>2, <3>1, RestSound DEF order
    <3>3. QED
      BY <3>1, <3>2 DEF Handled, SameOrder, Working
  <2>3. CASE o.rem > 0 /\ o.kind \notin Restable
    <3> DEFINE c == [book EXCEPT !.ord[cur].status = "CANCELLED"]
    <3>1. book' = c /\ o.status \in Working
      BY <1>1, <2>3 DEF SweepEnds
    <3>2. /\ Sound(c) /\ OthersSame(book, c, cur) /\ SameOrder(o, c.ord[cur])
          /\ c.live = book.live /\ c.ord[cur].status = "CANCELLED"
      BY <1>1, StatusSound DEF order
    <3> HIDE DEF c
    <3>3. QED
      BY <3>1, <3>2 DEF Handled, SameOrder
  <2>4. o.rem \in Nat
    BY <1>1 DEF Order
  <2>5. QED
    BY <2>1, <2>2, <2>3, <2>4
<1>3. QED
  BY <1>1, <1>2, OthersMoved, StepFrame DEF IInv, TypeOK

-----------------------------------------------------------------------------
(***************************************************************************)
(* The end of process(), the cascade and the second leg.                   *)
(***************************************************************************)
LEMMA SettleStep ==
  ASSUME IInv, Settle
  PROVE  IInv' /\ Final
<1> DEFINE b == OcoLegEnded(book, cur)
           r == Release(b, last, released)
<1>1. /\ Sound(book) /\ cur \in Ids /\ pc = "settle" /\ matching /\ pc' = "next"
      /\ last \in Int /\ released \in Nat
      /\ UNCHANGED <<last, matching, born, cur, todo, clearing, traded>>
  BY PricesAssumption DEF IInv, TypeOK, HandlerOK, Settle, NoPrice
<1>2. Sound(b) /\ Thinned(book, b)
  BY <1>1, OcoLegEndedThins
<1>3. \A i \in Ids : /\ Moved(order(i), b.ord[i]) /\ Handled(order(i), b.ord[i])
                     /\ b.ord[i].place \in {order(i).place, "none"}
                     /\ order(i).status \in Working => b.ord[i].status # "ABSENT"
  BY <1>1, <1>2, ThinnedMoves DEF order
<1>4. b.live \subseteq book.live
  BY <1>2 DEF Thinned
<1>5. CASE ~(traded /\ hasStops)
  <2>1. book' = b /\ UNCHANGED <<hasStops, released>>
    BY <1>5 DEF Settle
  <2> HIDE DEF b
  <2>2. hasStops' \in BOOLEAN /\ traded' \in BOOLEAN
    BY <1>1, <2>1 DEF IInv, TypeOK
  <2>3. QED
    BY <1>1, <1>2, <1>3, <1>4, <2>1, <2>2, StepFrame DEF IInv, TypeOK
<1>6. CASE traded /\ hasStops
  <2>1. /\ book' = r /\ hasStops' = Watch(r)
        /\ released' = released + Cardinality(Dormant(b) \ Dormant(r))
    BY <1>6 DEF Settle
  <2> HIDE DEF b
  <2>2. /\ Sound(r) /\ r.live = b.live
        /\ \A i \in Ids :
             /\ SameOrder(b.ord[i], r.ord[i])
             /\ r.ord[i].rem = b.ord[i].rem /\ r.ord[i].status = b.ord[i].status
             /\ \/ r.ord[i] = b.ord[i]
                \/ /\ b.ord[i].place \in {"armed", "trailing"}
                   /\ r.ord[i].place \in {b.ord[i].place, "triggered"}
    BY <1>1, <1>2, ReleaseSound
  <2>3. released' \in Nat
    <3>1. Dormant(b) \ Dormant(r) \subseteq 1 .. MaxOrders
      BY DEF Dormant, Ids
    <3>2. IsFiniteSet(1 .. MaxOrders)
      BY FS_Interval, MaxOrdersAssumption
    <3>3. Cardinality(Dormant(b) \ Dormant(r)) \in Nat
      BY <3>1, <3>2, FS_Subset, FS_CardinalityType
    <3>4. QED
      BY <1>1, <2>1, <3>3
  <2>4. hasStops' \in BOOLEAN /\ traded' \in BOOLEAN
    BY <1>1, <2>1 DEF Watch, IInv, TypeOK
  <2> HIDE DEF r
  <2>5. ASSUME NEW i \in Ids
        PROVE  /\ Moved(order(i), r.ord[i]) /\ Handled(order(i), r.ord[i])
               /\ order(i).status \in Working => r.ord[i].status # "ABSENT"
    <3>1. CASE r.ord[i] = b.ord[i]
      BY <1>3, <3>1
    <3>2. CASE /\ b.ord[i].place \in {"armed", "trailing"}
               /\ r.ord[i].place \in {b.ord[i].place, "triggered"}
      <4>1. b.ord[i].status \in Working
        BY <1>2, <3>2 DEF Sound, OrderSound
      <4>2. order(i).status \in Working /\ order(i).place = b.ord[i].place
        BY <1>1, <1>3, <3>2, <4>1 DEF Moved, Handled
      <4>3. b.ord[i].bond = order(i).bond /\ b.ord[i].group = order(i).group
        BY <1>3 DEF Handled
      <4>4. QED
        BY <2>2, <3>2, <4>1, <4>2, <4>3 DEF Moved, Handled, SameOrder, Working
    <3>3. QED
      BY <2>2, <3>1, <3>2
  <2>6. QED
    BY <1>1, <1>4, <2>1, <2>2, <2>3, <2>4, <2>5, StepFrame DEF IInv, TypeOK
<1>7. QED
  BY <1>5, <1>6

\* The next order of the handler: a released stop, or the second leg.
LEMMA NextOrderStep ==
  ASSUME IInv, (\E i \in Ids : RunStop(i)) \/ PostSecondLeg
  PROVE  IInv' /\ Final
<1>1. /\ book' = book /\ pc = "next" /\ pc' = "process" /\ traded' = FALSE
      /\ cur' \in Ids
      /\ \/ order(cur').place = "triggered" /\ todo' = todo
         \/ InHand(cur') /\ todo' = 0 /\ \A i \in Ids : order(i).place # "triggered"
      /\ UNCHANGED <<last, hasStops, matching, born, clearing, released>>
  <2>1. CASE \E i \in Ids : RunStop(i)
    BY <2>1 DEF RunStop, Waiting
  <2>2. CASE PostSecondLeg
    BY <2>2 DEF PostSecondLeg, Waiting, IInv, HandlerOK, InHand
  <2>3. QED
    BY <2>1, <2>2
<1>2. TypeOK'
  <2>1. todo' \in 0 .. MaxOrders /\ cur' \in 0 .. MaxOrders
    BY <1>1, MaxOrdersAssumption DEF IInv, TypeOK, Ids
  <2>2. traded' \in BOOLEAN
    BY <1>1
  <2>3. QED
    BY <1>1, <2>1, <2>2 DEF IInv, TypeOK, Pcs
<1>3. Registered' /\ Unborn'
  BY <1>1 DEF IInv, Registered, Unborn, order
<1>4. HandlerOK'
  BY <1>1 DEF IInv, HandlerOK, InHand, order
<1>5. CascadeOK'
  BY <1>1 DEF IInv, CascadeOK, order
<1>6. Sound(book') /\ Final
  BY <1>1 DEF IInv, Sound, Final, order, OrderSound, Held, Dead, Working
<1>7. QED
  BY <1>2, <1>3, <1>4, <1>5, <1>6 DEF IInv

\* A second leg that is never posted.
LEMMA DropSecondLegStep ==
  ASSUME IInv, DropSecondLeg
  PROVE  IInv' /\ Final
<1> DEFINE c == [book EXCEPT !.ord[todo].status = "CANCELLED"]
<1>1. /\ Sound(book) /\ todo \in Ids /\ order(todo).place = "none"
      /\ order(todo).status \in Working
      /\ book' = c /\ pc = "next" /\ pc' = "next" /\ todo' = 0
      /\ UNCHANGED <<last, hasStops, matching, born, cur, clearing, traded, released>>
  BY DEF IInv, HandlerOK, InHand, DropSecondLeg
<1>2. /\ Sound(c) /\ OthersSame(book, c, todo) /\ SameOrder(order(todo), c.ord[todo])
      /\ c.live = book.live /\ c.ord[todo].status = "CANCELLED" /\ c.ord[todo].place = "none"
  BY <1>1, StatusSound DEF order
<1> HIDE DEF c
<1>3. \A i \in Ids \ {todo} : c.ord[i] = order(i)
  BY <1>2 DEF OthersSame, order
<1>4. TypeOK'
  <2>1. todo' \in 0 .. MaxOrders /\ pc' \in Pcs
    BY <1>1, MaxOrdersAssumption DEF Pcs
  <2>2. book' \in Book
    BY <1>1, <1>2 DEF Sound
  <2>3. UNCHANGED <<last, hasStops, matching, born, cur, clearing, traded, released>>
    BY <1>1
  <2>4. QED
    BY <2>1, <2>2, <2>3 DEF IInv, TypeOK
<1>5. Registered' /\ Unborn'
  <2>1. \A i \in Ids : c.ord[i].bond = order(i).bond /\ c.ord[i].group = order(i).group
    BY <1>2, <1>3 DEF SameOrder
  <2>2. book'.live = book.live /\ book.live \subseteq Ids /\ born' = born /\ book' = c
    BY <1>1, <1>2 DEF IInv, TypeOK, Book
  <2>3. \A i \in Ids : order(i).status = "ABSENT" => c.ord[i] = order(i)
    BY <1>1, <1>3 DEF Working
  <2>4. QED
    BY <2>1, <2>2, <2>3 DEF IInv, Registered, Unborn, order
<1>6. HandlerOK' /\ CascadeOK'
  BY <1>1, <1>2, <1>3 DEF IInv, HandlerOK, CascadeOK, order
<1>7. Final
  BY <1>1, <1>2, <1>3 DEF Sound, Final, order, OrderSound, Held, Dead, Working
<1>8. QED
  BY <1>1, <1>2, <1>4, <1>5, <1>6, <1>7 DEF IInv

\* The handler returns with nothing in hand.
LEMMA HandlerReturnsStep ==
  ASSUME IInv, HandlerReturns
  PROVE  IInv' /\ Final
<1>1. /\ book' = book /\ pc' = "idle" /\ cur' = 0 /\ traded' = FALSE /\ released' = 0
      /\ todo = 0 /\ \A i \in Ids : order(i).place # "triggered"
      /\ UNCHANGED <<last, hasStops, matching, born, todo, clearing>>
  BY DEF HandlerReturns, Waiting
<1>2. TypeOK'
  <2>1. cur' \in 0 .. MaxOrders
    BY <1>1, MaxOrdersAssumption
  <2>2. traded' \in BOOLEAN
    BY <1>1
  <2>3. QED
    BY <1>1, <2>1, <2>2 DEF IInv, TypeOK, Pcs
<1>3. Sound(book') /\ Registered' /\ Unborn' /\ HandlerOK' /\ CascadeOK'
  BY <1>1 DEF IInv, Registered, Unborn, HandlerOK, CascadeOK, order
<1>4. Final
  BY <1>1 DEF IInv, Sound, Final, order, OrderSound, Held, Dead, Working
<1>5. QED
  BY <1>2, <1>3, <1>4 DEF IInv

-----------------------------------------------------------------------------
(***************************************************************************)
(* Theorems.                                                               *)
(***************************************************************************)

\* Every step keeps the invariant and leaves ended orders alone.
LEMMA InvStep ==
  ASSUME IInv, [Next]_vars
  PROVE  IInv' /\ (Final \/ UNCHANGED vars)
<1>1. CASE Message
  BY <1>1, NewOrderStep, OcoOrderStep, QuoteNewStep, BatchStep, CancelOrderStep,
     OcoCancelStep, AmendStep, NothingStep DEF Message
<1>2. CASE EngineStep
  BY <1>2, WithdrawStep, WithdrawnStep, DropCancelledStep, RejectImmediateStep,
     RestUnmatchedStep, HandlerRaisesStep, ArmStopStep, ToSweepStep, RefuseFokStep,
     RefusePullStep, RefusedStep, TradeStep, SelfMatchPullsRestingStep,
     SelfMatchPullsAggressorStep, SweepEndsStep, SettleStep, NextOrderStep,
     DropSecondLegStep, HandlerReturnsStep DEF EngineStep
<1>3. CASE UNCHANGED vars
  BY <1>3 DEF vars, dispatch, IInv, TypeOK, Registered, Unborn, HandlerOK, CascadeOK,
     InHand, order
<1>4. QED
  BY <1>1, <1>2, <1>3 DEF Next

\* The inductive invariant: what the handlers hold and what the book holds fit.
THEOREM Invariance == Spec => []IInv
<1>1. Init => IInv
  BY InvInit
<1>2. IInv /\ [Next]_vars => IInv'
  BY InvStep
<1>3. QED
  BY <1>1, <1>2, PTL DEF Spec

\* Every variable keeps its type; in particular no quantity and no price level
\* ever becomes negative, whatever is filled, cancelled, amended or released.
THEOREM TypeCorrect == Spec => []TypeOK
<1>1. IInv => TypeOK
  BY DEF IInv
<1>2. QED
  BY <1>1, Invariance, PTL

\* Every order is sound at all times: the book shows a positive slice within
\* what is left of each resting order, so that a sweep never loops on an
\* empty slice and never overfills.
THEOREM OrdersAlwaysSound == Spec => []OrdersSound
<1>1. IInv => OrdersSound
  BY DEF IInv, Sound, OrdersSound, order
<1>2. QED
  BY <1>1, Invariance, PTL

\* An ended order is never touched again by any step of any handler.
THEOREM EndedIsFinal == Spec => TerminalIsFinal
<1>1. IInv /\ [Next]_vars => [Final]_vars
  BY InvStep
<1>2. [Final]_vars =>
        [\A i \in Ids : order(i).status \in Dead =>
           /\ book'.ord[i].status = order(i).status
           /\ book'.ord[i].rem = order(i).rem
           /\ book'.ord[i].place \notin Held]_vars
  BY DEF Final
<1>3. QED
  BY <1>1, <1>2, Invariance, PTL DEF Spec, TerminalIsFinal
=============================================================================
