------------------------------ MODULE Fok_proofs ------------------------------
(***************************************************************************)
(* Fill-or-kill: what the look-ahead promises, the sweep delivers.         *)
(***************************************************************************)
EXTENDS Pairs_proofs

-----------------------------------------------------------------------------
(***************************************************************************)
(* Sums, unit by unit.                                                     *)
(***************************************************************************)
Unit(S, n) == UNION {{i} \X (1 .. n[i]) : i \in S}

\* A sum over a finite set is the number of the pairs of a term and one of
\* its units, and a natural number.
LEMMA UnitsNatural ==
  ASSUME NEW S, IsFiniteSet(S), NEW n, \A i \in S : n[i] \in Nat
  PROVE  IsFiniteSet(Unit(S, n)) /\ Units(S, n) = Cardinality(Unit(S, n)) /\ Units(S, n) \in Nat
<1> DEFINE part == [j \in S |-> {j} \X (1 .. n[j])]
           T == {{j} \X (1 .. n[j]) : j \in S}
<1>2. part \in Surjection(S, T)
  BY DEF Surjection
<1>3. IsFiniteSet(T)
  <2> HIDE DEF part, T
  <2>1. QED
    BY <1>2, FS_Surjection
<1>4. ASSUME NEW j \in S
      PROVE  IsFiniteSet({j} \X (1 .. n[j]))
  <2>1. IsFiniteSet(1 .. n[j])
    BY FS_Interval
  <2>2. QED
    BY <2>1, FS_Singleton, FS_Product
<1>5. IsFiniteSet(UNION T)
  <2>1. \A X \in T : IsFiniteSet(X)
    BY <1>4
  <2> HIDE DEF T
  <2>2. QED
    BY <1>3, <2>1, FS_UNION
<1>6. Unit(S, n) = UNION T
  BY DEF Unit
<1> HIDE DEF T
<1>7. QED
  BY <1>5, <1>6, FS_CardinalityType DEF Units, Unit

LEMMA UnitsFinite ==
  ASSUME NEW S \in SUBSET Ids, NEW n, \A i \in S : n[i] \in Nat
  PROVE  IsFiniteSet(Unit(S, n)) /\ Units(S, n) = Cardinality(Unit(S, n)) /\ Units(S, n) \in Nat
<1>1. IsFiniteSet(1 .. MaxOrders)
  BY FS_Interval, MaxOrdersAssumption
<1>2. IsFiniteSet(S)
  BY <1>1, FS_Subset DEF Ids
<1>3. QED
  BY <1>2, UnitsNatural

\* A sum without one of its terms.
LEMMA UnitsSplit ==
  ASSUME NEW S \in SUBSET Ids, NEW n, \A i \in S : n[i] \in Nat, NEW i \in S
  PROVE  Units(S, n) = Units(S \ {i}, n) + n[i] /\ Units(S \ {i}, n) \in Nat
<1> DEFINE R == Unit(S \ {i}, n)
           B == {i} \X (1 .. n[i])
<1>1. Unit(S, n) = R \cup B
  BY DEF Unit
<1>2. R \cap B = {}
  <2>1. ASSUME NEW x \in R \cap B
        PROVE  FALSE
    <3>1. PICK j \in S \ {i} : x \in {j} \X (1 .. n[j])
      BY <2>1 DEF Unit
    <3>2. x[1] = j /\ x[1] = i
      BY <2>1, <3>1
    <3>3. QED
      BY <3>2
  <2>2. QED
    BY <2>1
<1>3. S \ {i} \in SUBSET Ids /\ \A j \in S \ {i} : n[j] \in Nat
  OBVIOUS
<1>4. IsFiniteSet(R) /\ Units(S \ {i}, n) = Cardinality(R) /\ Cardinality(R) \in Nat
  BY <1>3, UnitsFinite
<1>5. IsFiniteSet(B) /\ Cardinality(B) = n[i]
  <2>1. PICK k \in Nat : k = n[i]
    OBVIOUS
  <2>2. IsFiniteSet(1 .. k) /\ Cardinality(1 .. k) = k
    BY FS_Interval
  <2>3. IsFiniteSet({i}) /\ Cardinality({i}) = 1
    BY FS_Singleton
  <2>4. IsFiniteSet({i} \X (1 .. k)) /\ Cardinality({i} \X (1 .. k)) = 1 * k
    <3> DEFINE A == {i}
               K == 1 .. k
    <3>1. IsFiniteSet(A) /\ IsFiniteSet(K) /\ Cardinality(A) = 1 /\ Cardinality(K) = k
      BY <2>2, <2>3
    <3> HIDE DEF A, K
    <3>2. IsFiniteSet(A \X K) /\ Cardinality(A \X K) = Cardinality(A) * Cardinality(K)
      BY <3>1, FS_Product
    <3>3. QED
      BY <3>1, <3>2 DEF A, K
  <2>5. QED
    BY <2>1, <2>4
<1>6. Units(S, n) = Cardinality(Unit(S, n))
  BY UnitsFinite
<1> HIDE DEF R, B
<1>7. Cardinality(R \cup B) = Cardinality(R) + Cardinality(B) - Cardinality(R \cap B)
  BY <1>4, <1>5, FS_Union
<1>8. Cardinality(R \cap B) = 0
  BY <1>2, FS_EmptySet
<1>9. Units(S, n) = Cardinality(R \cup B)
  BY <1>1, <1>6
<1>10. PICK k \in Nat : k = n[i]
  OBVIOUS
<1>11. QED
  BY <1>4, <1>5, <1>7, <1>8, <1>9, <1>10

\* More terms, or larger ones, make no smaller sum.
LEMMA UnitsGrow ==
  ASSUME NEW S \in SUBSET Ids, NEW T \in SUBSET Ids, S \subseteq T, NEW n, NEW m,
         \A i \in T : m[i] \in Nat, \A i \in S : n[i] \in Nat /\ n[i] <= m[i]
  PROVE  Units(S, n) <= Units(T, m) /\ Units(S, n) \in Nat /\ Units(T, m) \in Nat
<1>1. Unit(S, n) \subseteq Unit(T, m)
  <2>1. ASSUME NEW i \in S
        PROVE  1 .. n[i] \subseteq 1 .. m[i]
    <3>1. PICK k \in Nat, l \in Nat : k = n[i] /\ l = m[i] /\ k <= l
      <4>1. i \in T
        BY <2>1
      <4>2. QED
        BY <2>1, <4>1
    <3>2. 1 .. k \subseteq 1 .. l
      BY <3>1
    <3>3. QED
      BY <3>1, <3>2
  <2>2. ASSUME NEW i \in S
        PROVE  {i} \X (1 .. n[i]) \subseteq {i} \X (1 .. m[i])
    BY <2>1
  <2>3. QED
    BY <2>2 DEF Unit
<1>2. IsFiniteSet(Unit(T, m)) /\ Units(T, m) = Cardinality(Unit(T, m)) /\ Units(T, m) \in Nat
  BY UnitsFinite
<1>3. Units(S, n) = Cardinality(Unit(S, n)) /\ Units(S, n) \in Nat
  BY UnitsFinite
<1>4. QED
  BY <1>1, <1>2, <1>3, FS_Subset

\* The empty sum.
LEMMA UnitsNone ==
  ASSUME NEW n
  PROVE  Units({}, n) = 0
<1>1. UNION {{i} \X (1 .. n[i]) : i \in {}} = {}
  OBVIOUS
<1>2. QED
  BY <1>1, FS_EmptySet DEF Units

-----------------------------------------------------------------------------
(***************************************************************************)
(* Queues have no ties.                                                    *)
(***************************************************************************)
Ranked(b) ==
  \A i, j \in Ids : i # j /\ b.ord[i].place = "book" /\ b.ord[j].place = "book"
                    => b.ord[i].seq # b.ord[j].seq

\* Order i rests as before, or did not rest.
KeptPlace(i) ==
  book'.ord[i].place = "book" =>
    order(i).place = "book" /\ book'.ord[i].seq = order(i).seq

\* Order k may have the next arrival number.
Renumbered(k) ==
  book'.ord[k].place = "book" =>
    \/ order(k).place = "book" /\ book'.ord[k].seq = order(k).seq
    \/ book'.ord[k].seq = book.seq + 1

LEMMA RankedByOne ==
  ASSUME Sound(book), Numbered(book), Ranked(book), NEW k \in Ids, Renumbered(k),
         \A i \in Ids \ {k} : KeptPlace(i)
  PROVE  Ranked(book')
<1>1. book.seq \in Nat /\ \A i \in Ids : order(i).seq \in Nat /\ order(i).seq <= book.seq
  BY DEF Sound, Book, Order, Numbered, order
<1>2. SUFFICES ASSUME NEW i \in Ids, NEW j \in Ids, i # j,
                      book'.ord[i].place = "book", book'.ord[j].place = "book"
               PROVE  book'.ord[i].seq # book'.ord[j].seq
  BY DEF Ranked
<1>3. CASE i # k /\ j # k
  BY <1>2, <1>3 DEF KeptPlace, Ranked, order
<1>4. CASE i = k
  BY <1>1, <1>2, <1>4 DEF KeptPlace, Ranked, Renumbered, order
<1>5. CASE j = k
  BY <1>1, <1>2, <1>5 DEF KeptPlace, Ranked, Renumbered, order
<1>6. QED
  BY <1>3, <1>4, <1>5

\* What rests before and after a step that is calm keeps its number.
LEMMA CalmKept ==
  ASSUME IInv, Queued, NEW i \in Ids, Calm(order(i), book'.ord[i]),
         order(i).place = "book", book'.ord[i].place = "book"
  PROVE  book'.ord[i].seq = order(i).seq
<1>1. order(i) \in Order /\ OrderSound(order(i))
  BY DEF IInv, Sound, Book, order
<1>2. /\ book'.ord[i].price = order(i).price /\ book'.ord[i].qty = order(i).qty
      /\ book'.ord[i].rem = order(i).rem
  BY <1>1 DEF Calm, SameOrder, OrderSound, Restable
<1>3. ~FallsBehind(i)
  BY <1>1, <1>2 DEF FallsBehind, Executes, Order
<1>4. CASE Still(book, book')
  BY <1>4 DEF Still, order
<1>5. ASSUME NEW k \in Ids, OneMoves(k)
      PROVE  book'.ord[i].seq = order(i).seq
  BY <1>2, <1>3, <1>5 DEF OneMoves
<1>6. QED
  BY <1>4, <1>5 DEF Queued

LEMMA RankedStep ==
  ASSUME IInv, Numbered(book), Ranked(book), Next
  PROVE  Ranked(book')
<1>1. Sound(book) /\ book \in Book /\ Queued
  BY MessageQueued, HandlerQueued DEF IInv, Sound, Next
<1>2. ASSUME NEW S \in SUBSET Ids, \A i \in S : book'.ord[i].place # "book",
             \A i \in Ids \ S : book'.ord[i] = order(i)
      PROVE  Ranked(book')
  BY <1>2 DEF Ranked, order
<1>3. CASE \E r \in NewOrders : NewOrder(r)
  <2>1. PICK r \in NewOrders : NewOrder(r)
    BY <1>3
  <2>2. /\ born + 1 \in Ids
        /\ book'.ord = [book.ord EXCEPT ![born + 1] = Accepted(r, "none", 0)]
    BY <2>1, NewOrderOrders
  <2>3. /\ book'.ord[born + 1].place = "none"
        /\ \A i \in Ids \ {born + 1} : book'.ord[i] = order(i)
    BY <1>1, <2>2 DEF Accepted, Book, order
  <2>4. {born + 1} \in SUBSET Ids
    BY <2>2
  <2>5. QED
    BY <1>2, <2>3, <2>4
<1>4. ASSUME NEW l \in Request \X Request, NEW bond \in {"oco", "quote"},
             \/ bond = "oco" /\ l \in OcoPairs /\ OcoOrder(l)
             \/ bond = "quote" /\ l \in QuotePairs /\ QuoteNew(l)
      PROVE  Ranked(book')
  <2>1. /\ born + 1 \in Ids /\ (born + 1) + 1 \in Ids
        /\ book'.ord[born + 1] = Accepted(l[1], bond, born + 1)
        /\ book'.ord[(born + 1) + 1] = Accepted(l[2], bond, born + 1)
        /\ \A i \in Ids \ {born + 1, (born + 1) + 1} : book'.ord[i] = order(i)
    BY <1>4, PairOrders
  <2>2. book'.ord[born + 1].place = "none" /\ book'.ord[(born + 1) + 1].place = "none"
    BY <2>1 DEF Accepted
  <2>3. {born + 1, (born + 1) + 1} \in SUBSET Ids
    BY <2>1
  <2>4. QED
    BY <1>2, <2>1, <2>2, <2>3
<1>5. ASSUME NEW k \in Ids, NEW price \in AmendPrices, NEW qty \in AmendQtys,
             Amend(k, price, qty)
      PROVE  Ranked(book')
  <2>1. /\ OthersSame(book, book', k) /\ order(k).place = "book"
        /\ order(k) \in Order
    BY <1>1, <1>5, AmendOrders DEF Book, order
  <2>2. \A i \in Ids \ {k} : KeptPlace(i)
    BY <2>1 DEF KeptPlace, OthersSame, order
  <2>3. Renumbered(k)
    <3>1. SUFFICES ASSUME book'.ord[k].place = "book" PROVE book'.ord[k].seq \in {order(k).seq, book.seq + 1}
      BY <2>1 DEF Renumbered
    <3>2. pc = "idle" /\ pc' = pc
      BY <1>5, <3>1, AmendOrders DEF Amend, dispatch
    <3>3. ~Start(k, 0)
      BY <3>2 DEF Start
    <3>4. book' = Amended(book, k, price, qty)
      BY <1>5, <3>3 DEF Amend
    <3>5. QED
      BY <1>1, <2>1, <3>4 DEF Amended, Book, Order, order
  <2>4. QED
    BY <1>1, <2>2, <2>3, RankedByOne
<1>6. ASSUME NEW p \in Ids, Trade(p)
      PROVE  Ranked(book')
  <2>1. PICK d : /\ Sound(d) /\ \A j \in Ids \ {cur, p} : d.ord[j] = book.ord[j]
                 /\ d.ord[cur].place = "none"
                 /\ book' = FillHooks(d, cur, p)
    BY <1>6, TradeTakes
  <2>2. cur \in Ids /\ order(p).place = "book" /\ cur # p
    BY <1>6, FacingFacts DEF Trade
  <2>3. Thinned(d, book')
    BY <2>1, <2>2, FillHooksThin
  <2>4. book'.ord[cur].place # "book"
    BY <2>1, <2>2, <2>3, ThinnedTies
  <2>5. ASSUME NEW i \in Ids \ {cur, p}
        PROVE  KeptPlace(i)
    <3>1. SUFFICES ASSUME book'.ord[i].place = "book"
                   PROVE  order(i).place = "book" /\ book'.ord[i].seq = order(i).seq
      BY DEF KeptPlace
    <3>2. order(i).place = "book"
      BY <2>1, <2>3, <3>1, ThinnedTies DEF order
    <3>3. Calm(order(i), book'.ord[i])
      BY <1>6, TradeOrders
    <3>4. QED
      BY <1>1, <3>1, <3>2, <3>3, CalmKept
  <2>6. Renumbered(p)
    <3>1. book'.ord[p].price = order(p).price
      BY <1>6, TradeOrders
    <3>2. CASE Still(book, book')
      BY <2>2, <3>2 DEF Renumbered, Still, order
    <3>3. ASSUME NEW k \in Ids, OneMoves(k)
          PROVE  Renumbered(p)
      BY <2>2, <3>1, <3>3 DEF Renumbered, OneMoves
    <3>4. QED
      BY <1>1, <3>2, <3>3 DEF Queued
  <2>7. \A i \in Ids \ {p} : KeptPlace(i)
    BY <2>4, <2>5 DEF KeptPlace
  <2>8. QED
    BY <1>1, <2>6, <2>7, RankedByOne
<1>7. ASSUME CalmBook(book, book'),
             ~\E r \in NewOrders : NewOrder(r),
             ~\E l \in OcoPairs : OcoOrder(l),
             ~\E l \in QuotePairs : QuoteNew(l)
      PROVE  Ranked(book')
  <2>1. ASSUME NEW i \in Ids, order(i).place = "book"
        PROVE  KeptPlace(i)
    BY <1>1, <1>7, <2>1, CalmKept DEF KeptPlace, CalmBook, order
  <2>2. ASSUME NEW i \in Ids, order(i).place # "book", book'.ord[i].place = "book"
        PROVE  i = cur /\ book'.ord[i].seq = book.seq + 1
    BY <1>7, <2>2, StepPlaced DEF Placed
  <2>3. CASE cur \in Ids
    BY <1>1, <2>1, <2>2, <2>3, RankedByOne DEF KeptPlace, Renumbered
  <2>4. CASE cur \notin Ids
    BY <1>1, <2>1, <2>2, <2>4 DEF KeptPlace, Ranked, order
  <2>5. QED
    BY <2>3, <2>4
<1>8. /\ \A l \in OcoPairs : OcoOrder(l) => Ranked(book')
      /\ \A l \in QuotePairs : QuoteNew(l) => Ranked(book')
  <2>1. OcoPairs \subseteq Request \X Request /\ QuotePairs \subseteq Request \X Request
    BY RequestsAssumption
  <2>2. "oco" \in {"oco", "quote"} /\ "quote" \in {"oco", "quote"}
    OBVIOUS
  <2>3. QED
    BY <1>4, <2>1, <2>2
<1>9. QED
  BY <1>3, <1>5, <1>6, <1>7, <1>8, StepKinds

\* Of two orders that rest at one price one is ahead: the queue a sweep walks
\* is strict, for its look-ahead and its fills alike.
THEOREM QueuesHaveNoTies == Spec => []Ranked(book)
<1>1. Init => Ranked(book)
  BY DEF Init, Ranked, Absent
<1>2. IInv /\ Numbered(book) /\ Ranked(book) /\ [Next]_vars => Ranked(book)'
  <2>1. ASSUME UNCHANGED vars, Ranked(book)
        PROVE  Ranked(book)'
    BY <2>1 DEF vars, Ranked
  <2>2. QED
    BY <2>1, RankedStep
<1>3. QED
  BY <1>1, <1>2, Invariance, ArrivalsNumbered, PTL DEF Spec

-----------------------------------------------------------------------------
(***************************************************************************)
(* What the look-ahead counts.                                             *)
(***************************************************************************)
Own(b, a)      == {p \in Matchable(b, a) : SelfMatch(b, a, p) # "NONE"}
Stoppers(b, a) == IF b.ord[a].smp = "CANCEL_RESTING" THEN {} ELSE Own(b, a)
Reached(b, a)  ==
  {p \in Matchable(b, a) \ Own(b, a) : \A k \in Stoppers(b, a) : Ahead(b, p, k)}
Counted(b, a)  ==
  {p \in Reached(b, a) :
     b.ord[p].bond # "oco" \/
     ~\E q \in Reached(b, a) : /\ q # p
                               /\ b.ord[q].bond = "oco"
                               /\ b.ord[q].group = b.ord[p].group
                               /\ Ahead(b, q, p)}
Takes(b, a)    ==
  [p \in Ids |-> IF \E k \in Stoppers(b, a) : b.ord[k].price = b.ord[p].price
                 THEN Slice(b.ord[p]) ELSE b.ord[p].rem]

LEMMA FillableCounts ==
  ASSUME NEW b, Sound(b), NEW a \in Ids
  PROVE  /\ Fillable(b, a) = Units(Counted(b, a), Takes(b, a))
         /\ Fillable(b, a) \in Nat
         /\ Counted(b, a) \in SUBSET Ids
         /\ \A i \in Ids : Takes(b, a)[i] \in Nat
<1>1. Fillable(b, a) = Units(Counted(b, a), Takes(b, a))
  BY DEF Fillable, Counted, Takes, Reached, Stoppers, Own
<1>2. Counted(b, a) \in SUBSET Ids
  BY DEF Counted, Reached, Matchable, Resting
<1>3. \A i \in Ids : Takes(b, a)[i] \in Nat
  BY DEF Takes, Slice, Sound, Book, Order
<1>4. QED
  BY <1>1, <1>2, <1>3, UnitsFinite

\* Book c shows the aggressor a what b shows it, less some orders.
Less(b, c, a) ==
  /\ c.ord[a].side = b.ord[a].side /\ c.ord[a].price = b.ord[a].price
  /\ c.ord[a].gw = b.ord[a].gw /\ c.ord[a].smp = b.ord[a].smp
  /\ Matchable(c, a) \subseteq Matchable(b, a)
  /\ \A i \in Matchable(c, a) : c.ord[i] = b.ord[i]
  /\ Stoppers(b, a) \subseteq Matchable(c, a)

\* Then what is left of what was counted still counts.
LEMMA LessCounts ==
  ASSUME NEW b, NEW c, Sound(b), Sound(c), NEW a \in Ids, Less(b, c, a)
  PROVE  /\ Fillable(c, a) >= Units(Counted(b, a) \cap Matchable(c, a), Takes(b, a))
         /\ Units(Counted(b, a) \cap Matchable(c, a), Takes(b, a)) \in Nat
<1> DEFINE M == Matchable(c, a)
<1>1. Own(c, a) = Own(b, a) \cap M
  BY DEF Less, Own, SelfMatch
<1>2. Stoppers(c, a) = Stoppers(b, a)
  BY <1>1 DEF Less, Stoppers
<1>3. \A i, j \in M : Ahead(c, i, j) <=> Ahead(b, i, j)
  BY DEF Less, Ahead
<1>4. Reached(c, a) = Reached(b, a) \cap M
  BY <1>1, <1>2, <1>3 DEF Less, Reached
<1>5. Counted(b, a) \cap M \subseteq Counted(c, a)
  <2>1. SUFFICES ASSUME NEW p \in Counted(b, a) \cap M
                 PROVE  p \in Counted(c, a)
    OBVIOUS
  <2>2. p \in Reached(c, a) /\ c.ord[p] = b.ord[p]
    BY <1>4 DEF Counted, Less
  <2>3. ASSUME NEW q \in Reached(c, a), q # p, c.ord[q].bond = "oco",
               c.ord[q].group = c.ord[p].group, Ahead(c, q, p), c.ord[p].bond = "oco"
        PROVE  FALSE
    <3>1. q \in Reached(b, a) /\ q \in M /\ c.ord[q] = b.ord[q]
      BY <1>4, <2>3 DEF Less
    <3>2. Ahead(b, q, p)
      BY <1>3, <2>3, <3>1
    <3>3. QED
      BY <2>2, <2>3, <3>1, <3>2 DEF Counted
  <2>4. QED
    BY <2>2, <2>3 DEF Counted
<1>6. \A i \in Counted(b, a) \cap M : i \in Ids /\ Takes(c, a)[i] = Takes(b, a)[i]
  <2>1. SUFFICES ASSUME NEW i \in Counted(b, a) \cap M
                 PROVE  i \in Ids /\ Takes(c, a)[i] = Takes(b, a)[i]
    OBVIOUS
  <2>2. i \in Ids /\ c.ord[i] = b.ord[i]
    BY FillableCounts DEF Less
  <2>3. \A k \in Stoppers(b, a) : c.ord[k] = b.ord[k]
    BY DEF Less
  <2>4. QED
    BY <1>2, <2>2, <2>3 DEF Takes
<1>7. /\ Fillable(c, a) = Units(Counted(c, a), Takes(c, a)) /\ Counted(c, a) \in SUBSET Ids
      /\ Counted(b, a) \cap M \in SUBSET Ids
      /\ \A i \in Ids : Takes(b, a)[i] \in Nat /\ Takes(c, a)[i] \in Nat
  BY FillableCounts
<1> HIDE DEF M
<1>8. \A i \in Counted(b, a) \cap M : Takes(b, a)[i] \in Nat /\ Takes(b, a)[i] <= Takes(c, a)[i]
  BY <1>6, <1>7
<1>9. Units(Counted(b, a) \cap M, Takes(b, a)) <= Units(Counted(c, a), Takes(c, a))
      /\ Units(Counted(b, a) \cap M, Takes(b, a)) \in Nat /\ Units(Counted(c, a), Takes(c, a)) \in Nat
  BY <1>5, <1>7, <1>8, UnitsGrow
<1>10. QED
  BY <1>7, <1>9 DEF M

-----------------------------------------------------------------------------
(***************************************************************************)
(* The passes of a sweep take from the look-ahead no more than they fill.  *)
(***************************************************************************)

\* Order p leaves, and perhaps its OCO sibling with it: what is left still counts.
LEMMA LeaverCounts ==
  ASSUME NEW b, NEW c, Sound(b), Sound(c), NEW a \in Ids, Less(b, c, a),
         NEW p \in Counted(b, a), Counted(b, a) \subseteq Matchable(c, a) \cup {p}
  PROVE  Fillable(c, a) >= Fillable(b, a) - Takes(b, a)[p]
<1> DEFINE C == Counted(b, a)
           T == Takes(b, a)
           K == C \cap Matchable(c, a)
<1>1. /\ Fillable(b, a) = Units(C, T) /\ Fillable(b, a) \in Nat
      /\ C \in SUBSET Ids /\ \A i \in Ids : T[i] \in Nat
      /\ Fillable(c, a) \in Nat
  BY FillableCounts
<1>2. Fillable(c, a) >= Units(K, T) /\ Units(K, T) \in Nat
  BY LessCounts
<1>3. C \ {p} \subseteq K /\ K \in SUBSET Ids
  BY <1>1
<1>4. p \in C
  OBVIOUS
<1> HIDE DEF C, T, K
<1>5. Units(C, T) = Units(C \ {p}, T) + T[p] /\ Units(C \ {p}, T) \in Nat
  BY <1>1, <1>4, UnitsSplit
<1>6. Units(C \ {p}, T) <= Units(K, T)
  <2>1. C \ {p} \in SUBSET Ids /\ \A i \in C \ {p} : T[i] \in Nat /\ T[i] <= T[i]
    BY <1>1
  <2>2. \A i \in K : T[i] \in Nat
    BY <1>1, <1>3
  <2>3. QED
    BY <1>3, <2>1, <2>2, UnitsGrow
<1>7. p \in Ids /\ T[p] \in Nat
  BY <1>1, <1>4
<1>8. QED
  BY <1>1, <1>2, <1>5, <1>6, <1>7 DEF T

\* An iceberg p has shown its next slice at the back of its price: it counts
\* for what it hides unless a self-match policy stops the sweep at that price.
Refilled(b, c, a, p) ==
  /\ \A i \in Ids \ {a, p} : c.ord[i] = b.ord[i]
  /\ \A i \in {a, p} : /\ c.ord[i].side = b.ord[i].side /\ c.ord[i].price = b.ord[i].price
                       /\ c.ord[i].gw = b.ord[i].gw /\ c.ord[i].smp = b.ord[i].smp
                       /\ c.ord[i].bond = b.ord[i].bond /\ c.ord[i].place = b.ord[i].place
  /\ b.ord[a].place = "none" /\ b.ord[p].bond # "oco"
  /\ c.ord[p].rem = b.ord[p].rem - Slice(b.ord[p])

LEMMA RefilledReaches ==
  ASSUME NEW b, NEW c, Sound(b), Sound(c), NEW a \in Ids, NEW p \in Counted(b, a),
         Refilled(b, c, a, p)
  PROVE  /\ Counted(b, a) \ {p} \subseteq Counted(c, a)
         /\ \A i \in Counted(b, a) \ {p} : Takes(c, a)[i] = Takes(b, a)[i]
         /\ p \in Matchable(b, a) /\ p # a /\ p \in Ids
         /\ (~\E k \in Stoppers(b, a) : b.ord[k].price = b.ord[p].price)
              => p \in Counted(c, a) /\ Takes(c, a)[p] = c.ord[p].rem
<1>1. /\ p \in Matchable(b, a) \ Own(b, a) /\ p \in Ids /\ p # a
      /\ p \notin Stoppers(b, a) /\ p \in Reached(b, a)
  BY DEF Counted, Reached, Stoppers, Matchable, Resting, Refilled
<1>2. Matchable(c, a) = Matchable(b, a) /\ a \notin Matchable(b, a)
  <2>1. ASSUME NEW i \in Ids
        PROVE  /\ c.ord[i].side = b.ord[i].side /\ c.ord[i].price = b.ord[i].price
               /\ c.ord[i].place = b.ord[i].place
    BY <2>1 DEF Refilled
  <2>2. QED
    BY <2>1 DEF Matchable, Resting, Refilled
<1>3. Own(c, a) = Own(b, a) /\ Stoppers(c, a) = Stoppers(b, a)
  <2>1. ASSUME NEW i \in Ids
        PROVE  c.ord[i].gw = b.ord[i].gw /\ c.ord[i].smp = b.ord[i].smp
    BY <2>1 DEF Refilled
  <2>2. Own(c, a) = Own(b, a)
    BY <1>2, <2>1 DEF Own, SelfMatch, Matchable, Resting
  <2>3. QED
    BY <2>1, <2>2 DEF Stoppers
<1>4. \A i \in Matchable(b, a) \ {p} : i \in Ids /\ c.ord[i] = b.ord[i]
  BY <1>2 DEF Refilled, Matchable, Resting
<1>5. \A i, j \in Matchable(b, a) \ {p} : Ahead(c, i, j) <=> Ahead(b, i, j)
  BY <1>4 DEF Ahead
<1>6. Stoppers(b, a) \subseteq Matchable(b, a) \ {p}
  BY <1>1 DEF Stoppers, Own
<1>7. Reached(c, a) \ {p} = Reached(b, a) \ {p}
  BY <1>2, <1>3, <1>5, <1>6 DEF Reached
<1>8. b.ord[p].bond # "oco" /\ c.ord[p].bond # "oco"
  BY DEF Refilled
<1>9. ASSUME NEW i \in Counted(b, a) \ {p}
      PROVE  i \in Counted(c, a) /\ Takes(c, a)[i] = Takes(b, a)[i]
  <2>1. /\ i \in Reached(c, a) /\ i \in Reached(b, a) /\ i \in Matchable(b, a) \ {p}
        /\ i \in Ids /\ c.ord[i] = b.ord[i]
    BY <1>4, <1>7 DEF Counted, Reached
  <2>2. ASSUME NEW q \in Reached(c, a), q # i, c.ord[q].bond = "oco",
               c.ord[q].group = c.ord[i].group, Ahead(c, q, i), c.ord[i].bond = "oco"
        PROVE  FALSE
    <3>1. q # p /\ q \in Reached(b, a) /\ q \in Matchable(b, a) \ {p} /\ c.ord[q] = b.ord[q]
      BY <1>4, <1>7, <1>8, <2>2 DEF Reached
    <3>2. Ahead(b, q, i)
      BY <1>5, <2>1, <2>2, <3>1
    <3>3. QED
      BY <2>1, <2>2, <3>1, <3>2 DEF Counted
  <2>3. i \in Counted(c, a)
    BY <2>1, <2>2 DEF Counted
  <2>4. Takes(c, a)[i] = Takes(b, a)[i]
    BY <1>3, <1>4, <1>6, <2>1 DEF Takes
  <2>5. QED
    BY <2>3, <2>4
<1>10. ASSUME ~\E k \in Stoppers(b, a) : b.ord[k].price = b.ord[p].price
       PROVE  p \in Counted(c, a) /\ Takes(c, a)[p] = c.ord[p].rem
  <2>1. c.ord[p].price = b.ord[p].price /\ c.ord[p].side = b.ord[p].side
    BY DEF Refilled
  <2>2. ASSUME NEW k \in Stoppers(b, a)
        PROVE  Ahead(c, p, k) /\ c.ord[k].price # c.ord[p].price
    <3>1. Ahead(b, p, k) /\ c.ord[k] = b.ord[k] /\ b.ord[k].price # b.ord[p].price
      BY <1>1, <1>4, <1>6, <1>10 DEF Reached
    <3>2. QED
      BY <2>1, <3>1 DEF Ahead
  <2>3. p \in Reached(c, a)
    BY <1>1, <1>2, <1>3, <2>2 DEF Reached
  <2>4. QED
    BY <1>1, <1>3, <1>8, <2>2, <2>3 DEF Counted, Takes
<1>11. QED
  BY <1>1, <1>9, <1>10

LEMMA RefilledCounts ==
  ASSUME NEW b, NEW c, Sound(b), Sound(c), NEW a \in Ids, NEW p \in Counted(b, a),
         Refilled(b, c, a, p)
  PROVE  Fillable(c, a) >= Fillable(b, a) - Slice(b.ord[p])
<1> DEFINE C == Counted(b, a)
           T == Takes(b, a)
           D == Counted(c, a)
           U == Takes(c, a)
           stopped == \E k \in Stoppers(b, a) : b.ord[k].price = b.ord[p].price
<1>1. /\ Fillable(b, a) = Units(C, T) /\ Fillable(b, a) \in Nat
      /\ C \in SUBSET Ids /\ \A i \in Ids : T[i] \in Nat
      /\ Fillable(c, a) = Units(D, U) /\ Fillable(c, a) \in Nat
      /\ D \in SUBSET Ids /\ \A i \in Ids : U[i] \in Nat
  BY FillableCounts
<1>2. /\ C \ {p} \subseteq D /\ \A i \in C \ {p} : U[i] = T[i]
      /\ p \in Ids
      /\ ~stopped => p \in D /\ U[p] = c.ord[p].rem
  BY RefilledReaches
<1>3. /\ T[p] = (IF stopped THEN Slice(b.ord[p]) ELSE b.ord[p].rem)
      /\ c.ord[p].rem = b.ord[p].rem - Slice(b.ord[p])
      /\ Slice(b.ord[p]) \in Nat /\ b.ord[p].rem \in Nat
  <2>1. T[p] = (IF stopped THEN Slice(b.ord[p]) ELSE b.ord[p].rem)
    BY <1>2 DEF Takes
  <2>2. b.ord[p] \in Order
    BY <1>2 DEF Sound, Book
  <2>3. QED
    BY <2>1, <2>2 DEF Refilled, Order, Slice
<1>4. p \in C
  OBVIOUS
<1> HIDE DEF C, T, D, U, stopped
<1>5. Units(C, T) = Units(C \ {p}, T) + T[p] /\ Units(C \ {p}, T) \in Nat
  BY <1>1, <1>4, UnitsSplit
<1>6. C \ {p} \in SUBSET Ids /\ \A i \in C \ {p} : T[i] \in Nat /\ T[i] <= U[i]
  BY <1>1, <1>2
<1>7. CASE stopped
  <2>1. Units(C \ {p}, T) <= Units(D, U)
    BY <1>1, <1>2, <1>6, UnitsGrow
  <2>2. QED
    BY <1>1, <1>3, <1>5, <1>7, <2>1
<1>8. CASE ~stopped
  <2>1. p \in D /\ U[p] = b.ord[p].rem - Slice(b.ord[p]) /\ T[p] = b.ord[p].rem
    BY <1>2, <1>3, <1>8
  <2>2. Units(D, U) = Units(D \ {p}, U) + U[p] /\ Units(D \ {p}, U) \in Nat
    BY <1>1, <2>1, UnitsSplit
  <2>3. Units(C \ {p}, T) <= Units(D \ {p}, U)
    <3>1. C \ {p} \subseteq D \ {p} /\ D \ {p} \in SUBSET Ids /\ \A i \in D \ {p} : U[i] \in Nat
      BY <1>1, <1>2
    <3>2. QED
      BY <1>6, <3>1, UnitsGrow
  <2>4. QED
    BY <1>1, <1>3, <1>5, <2>1, <2>2, <2>3
<1>9. QED
  BY <1>7, <1>8

-----------------------------------------------------------------------------
(***************************************************************************)
(* The passes of the engine's sweep.                                       *)
(***************************************************************************)

\* The best resting order is ahead of every other.
LEMMA BestAhead ==
  ASSUME NEW b, Sound(b), Ranked(b), NEW a \in Ids, NEW p, IsBest(b, p, Matchable(b, a)),
         NEW s \in Matchable(b, a), s # p
  PROVE  Ahead(b, p, s)
<1>1. /\ p \in Ids /\ s \in Ids /\ b.ord[p].place = "book" /\ b.ord[s].place = "book"
      /\ b.ord[p].side = b.ord[s].side /\ ~Ahead(b, s, p)
  BY DEF IsBest, Matchable, Resting
<1>2. b.ord[p] \in Order /\ b.ord[s] \in Order
  BY <1>1 DEF Sound, Book
<1>3. b.ord[p].price \in Int /\ b.ord[s].price \in Int
  <2>1. \A x \in Prices \cup {NoPrice} : x \in Int
    BY PricesAssumption DEF NoPrice
  <2>2. QED
    BY <1>2, <2>1 DEF Order
<1>4. b.ord[p].seq \in Nat /\ b.ord[s].seq \in Nat /\ b.ord[p].seq # b.ord[s].seq
  BY <1>1, <1>2 DEF Ranked, Order
<1>5. QED
  BY <1>1, <1>3, <1>4 DEF Ahead, Better

\* If it is not the aggressor's own it counts.
LEMMA BestCounts ==
  ASSUME IInv, Ranked(book), NEW p \in Ids, Facing(p), SelfMatch(book, cur, p) = "NONE"
  PROVE  p \in Counted(book, cur)
<1>1. Sound(book) /\ cur \in Ids /\ IsBest(book, p, Matchable(book, cur))
  BY FacingFacts DEF Facing
<1>2. p \in Matchable(book, cur) /\ p \notin Own(book, cur)
  BY <1>1 DEF IsBest, Own
<1>3. \A k \in Stoppers(book, cur) : k \in Matchable(book, cur) /\ k # p
  BY <1>2 DEF Stoppers, Own
<1>4. p \in Reached(book, cur)
  BY <1>1, <1>2, <1>3, BestAhead DEF Reached
<1>5. \A q \in Reached(book, cur) : q # p => ~Ahead(book, q, p)
  BY <1>1 DEF Reached, IsBest
<1>6. QED
  BY <1>4, <1>5 DEF Counted

\* The hooks of a trade that leaves the aggressor unfilled touch at most the
\* other leg of the pair that the resting order belongs to.
LEMMA HooksSpare ==
  ASSUME IInv, Paired(book), NEW p \in Ids, Trade(p), order(cur).bond # "quote",
         book'.ord[cur].rem # 0
  PROVE  /\ \A i \in Ids \ {cur, p} :
              order(p).bond = "none" \/ i # Sibling(book, p) => book'.ord[i] = order(i)
         /\ \A i \in Ids : book'.ord[i].place = "book" => i # cur /\ order(i).place = "book"
         /\ \A i \in Ids \ {cur, p} : book'.ord[i].place = "book" => book'.ord[i] = order(i)
         /\ book'.ord[p].rem = 0 => book'.ord[p].place # "book"
         /\ order(p).bond = "none" /\ book'.ord[p].rem # 0 => book'.ord[p].place = "book"
         /\ book'.ord[cur].place = "none"
<1>1. cur \in Ids /\ cur # p /\ order(p).place = "book"
  BY FacingFacts DEF Trade
<1>2. PICK d : /\ Sound(d) /\ SameBonds(book, d)
               /\ \A j \in Ids \ {cur, p} : d.ord[j] = book.ord[j]
               /\ \A j \in {cur, p} :
                    d.ord[j].status = IF d.ord[j].rem = 0 THEN "FILLED" ELSE "PARTIAL"
               /\ d.ord[cur].place = "none"
               /\ d.ord[cur].rem = order(cur).rem - FillQty(book, cur, p)
               /\ d.ord[p].rem = order(p).rem - FillQty(book, cur, p)
               /\ d.ord[p].place = IF d.ord[p].rem = 0 THEN "none" ELSE "book"
               /\ book' = FillHooks(d, cur, p)
  BY TradeTakes
<1> DEFINE e == QuoteLegFilled(d, p)
           f == OcoLegEnded(e, p)
<1>3. Paired(d) /\ d.ord[cur].bond # "quote" /\ d.ord[p].bond = order(p).bond
      /\ Sibling(d, p) = Sibling(book, p)
  BY <1>1, <1>2, TiesStay DEF SameBonds, SameTies, IInv, order
<1>4. /\ Sound(e) /\ SameBonds(d, e) /\ Paired(e) /\ Thinned(d, e)
      /\ d.ord[p].bond = "none" => e = d
      /\ \A i \in Ids \ {Sibling(d, p)} : e.ord[i] = d.ord[i]
  <2>1. /\ Sound(e) /\ SameBonds(d, e) /\ Paired(e) /\ Thinned(d, e)
    BY <1>2, <1>3, QuoteHookTouches
  <2>2. \/ e = d
        \/ d.ord[p].bond = "quote" /\ e = PullSibling(d, p)
    BY DEF QuoteLegFilled
  <2>3. d.ord[p].bond = "quote" => \A i \in Ids \ {Sibling(d, p)} : PullSibling(d, p).ord[i] = d.ord[i]
    BY <1>2, <1>3, PullTouches
  <2>4. QED
    BY <2>1, <2>2, <2>3
<1> HIDE DEF e
<1>5. e.ord[cur] = d.ord[cur] /\ Sibling(e, p) = Sibling(d, p) /\ e.ord[p].bond = d.ord[p].bond
  BY <1>1, <1>2, <1>4, ThinnedTies, TiesStay DEF SameBonds, SameTies
<1>6. QuoteLegFilled(e, cur) = e
  BY <1>3, <1>5 DEF QuoteLegFilled
<1>7. /\ Sound(f) /\ Thinned(e, f)
      /\ d.ord[p].bond = "none" => f = d
      /\ \A i \in Ids \ {Sibling(d, p)} : f.ord[i] = d.ord[i]
  <2>1. Sound(f) /\ Thinned(e, f)
    BY <1>4, OcoHookTouches
  <2>2. \/ f = e
        \/ e.ord[p].bond = "oco" /\ f = PullSibling(e, p)
    BY DEF OcoLegEnded
  <2>3. e.ord[p].bond = "oco" => \A i \in Ids \ {Sibling(e, p)} : PullSibling(e, p).ord[i] = e.ord[i]
    BY <1>4, PullTouches
  <2>4. QED
    BY <1>4, <1>5, <2>1, <2>2, <2>3
<1> HIDE DEF f
<1>8. f.ord[cur] = d.ord[cur]
  BY <1>1, <1>2, <1>4, <1>5, <1>7, ThinnedTies
<1>9. d.ord[cur].status = "PARTIAL"
  BY <1>1, <1>2, TradeOrders
<1>10. book' = f
  <2>1. book' = OcoLegEnded(f, cur)
    BY <1>2, <1>6 DEF FillHooks, e, f
  <2>2. QED
    BY <1>8, <1>9, <2>1 DEF OcoLegEnded, Dead
<1>11. Sibling(d, p) = Sibling(book, p) /\ d.ord[p].rem = book'.ord[p].rem
  BY <1>2, <1>3, TradeOrders
<1>12. \A i \in Ids : f.ord[i].place = "book" => f.ord[i] = d.ord[i]
  <2>1. SUFFICES ASSUME NEW i \in Ids, f.ord[i].place = "book" PROVE f.ord[i] = d.ord[i]
    OBVIOUS
  <2>2. f.ord[i].status \in Working
    BY <1>7, <2>1 DEF Sound, OrderSound
  <2>3. f.ord[i] = e.ord[i]
    BY <1>4, <1>7, <2>2, ThinnedTies DEF Working, Dead
  <2>4. e.ord[i] = d.ord[i]
    BY <1>2, <1>4, <2>2, <2>3, ThinnedTies DEF Working, Dead
  <2>5. QED
    BY <2>3, <2>4
<1>13. f.ord[p].rem = 0 => f.ord[p].place # "book"
  BY <1>2, <1>12
<1>14. QED
  BY <1>1, <1>2, <1>3, <1>7, <1>8, <1>10, <1>11, <1>12, <1>13 DEF order

\* The other leg of the best order's pair neither counts nor stops the sweep.
LEMMA SiblingSpare ==
  ASSUME IInv, Paired(book), QuoteShape(book), Ranked(book), NEW p \in Ids, Facing(p),
         SelfMatch(book, cur, p) = "NONE", order(p).bond # "none"
  PROVE  Sibling(book, p) \notin Counted(book, cur) \cup Stoppers(book, cur)
<1> DEFINE s == Sibling(book, p)
<1>1. /\ Sound(book) /\ cur \in Ids /\ IsBest(book, p, Matchable(book, cur))
      /\ p \in Reached(book, cur) /\ p \in Matchable(book, cur)
  BY FacingFacts, BestCounts DEF Facing, Counted, Reached
<1>2. /\ s \in Ids /\ s # p /\ book.ord[s].bond = order(p).bond
      /\ book.ord[s].group = order(p).group /\ book.ord[s].gw = order(p).gw
      /\ {p, s} = {order(p).group, order(p).group + 1}
  BY <1>1, Siblings DEF Paired, order
<1>3. s \notin Stoppers(book, cur)
  BY <1>2 DEF Stoppers, Own, SelfMatch, order
<1>4. SUFFICES ASSUME s \in Counted(book, cur) PROVE FALSE
  BY <1>3 DEF s
<1>5. s \in Matchable(book, cur)
  BY <1>4 DEF Counted, Reached
<1>6. CASE order(p).bond = "oco"
  <2>1. Ahead(book, p, s)
    BY <1>1, <1>2, <1>5, BestAhead
  <2>2. QED
    BY <1>1, <1>2, <1>4, <1>6, <2>1 DEF Counted, order
<1>7. CASE order(p).bond = "quote"
  <2>1. book.ord[p].side = book.ord[s].side
    BY <1>1, <1>5 DEF Matchable, Resting
  <2>2. order(p).group # order(p).group + 1
    <3>1. order(p).group \in Nat
      BY <1>1, Siblings DEF order
    <3>2. QED
      BY <3>1
  <2>3. (p = order(p).group) <=> (s # order(p).group)
    BY <1>2, <2>2
  <2>4. QED
    BY <1>2, <1>7, <2>1, <2>3 DEF QuoteShape, order
<1>8. order(p).bond \in Bonds
  BY <1>1 DEF Sound, Book, Order, order
<1>9. QED
  BY <1>6, <1>7, <1>8 DEF Bonds

\* A trade by a fill-or-kill order takes from the look-ahead what it fills.
LEMMA TradeCounts ==
  ASSUME IInv, Paired(book), QuoteShape(book), Ranked(book), NEW p \in Ids, Trade(p),
         order(cur).kind = "FOK", order(p).kind = "ICEBERG" => order(p).bond # "oco",
         Fillable(book, cur) >= order(cur).rem
  PROVE  Fillable(book', cur) >= book'.ord[cur].rem
<1> DEFINE q == FillQty(book, cur, p)
<1>1. /\ Sound(book) /\ cur \in Ids /\ cur # p /\ order(p).place = "book"
      /\ order(cur) \in Order /\ order(p) \in Order /\ OrderSound(order(p))
      /\ order(cur).place = "none"
      /\ Facing(p) /\ SelfMatch(book, cur, p) = "NONE"
  BY FacingFacts DEF Trade
<1>2. Sound(book')
  BY InvStep DEF Next, EngineStep, IInv
<1>3. /\ q \in 1 .. order(cur).rem /\ q = Least(order(cur).rem, Slice(order(p)))
      /\ book'.ord[cur].rem = order(cur).rem - q
      /\ book'.ord[p].rem = order(p).rem - q
      /\ SameOrder(order(cur), book'.ord[cur]) /\ book'.ord[cur].price = order(cur).price
      /\ SameOrder(order(p), book'.ord[p]) /\ book'.ord[p].price = order(p).price
      /\ q <= order(p).rem
  BY TradeOrders
<1>4. /\ Fillable(book', cur) \in Nat /\ Fillable(book, cur) \in Nat
      /\ order(cur).rem \in Nat /\ order(p).rem \in Nat /\ Slice(order(p)) \in Nat
  BY <1>1, <1>2, FillableCounts DEF Order, Slice
<1> HIDE DEF q
<1>5. CASE book'.ord[cur].rem = 0
  BY <1>4, <1>5
<1>6. CASE book'.ord[cur].rem # 0
  <2>1. q = Slice(order(p)) /\ q \in Nat
    BY <1>3, <1>4, <1>6 DEF Least
  <2>2. order(cur).bond # "quote"
    BY <1>1 DEF QuoteShape, order
  <2>3. p \in Counted(book, cur)
    BY <1>1, BestCounts
  <2>4. CASE book'.ord[p].rem = 0
    <3>1. /\ \A i \in Ids : book'.ord[i].place = "book" => i \notin {cur, p}
          /\ \A i \in Ids : book'.ord[i].place = "book" => book'.ord[i] = order(i)
          /\ \A i \in Ids \ {cur, p} :
               order(p).bond = "none" \/ i # Sibling(book, p) => book'.ord[i] = order(i)
      BY <1>6, <2>2, <2>4, HooksSpare
    <3>2. /\ book'.ord[cur].side = order(cur).side /\ book'.ord[cur].price = order(cur).price
          /\ book'.ord[cur].gw = order(cur).gw /\ book'.ord[cur].smp = order(cur).smp
      BY <1>3 DEF SameOrder
    <3>3. ASSUME NEW i \in Matchable(book', cur)
          PROVE  i \in Matchable(book, cur) /\ book'.ord[i] = book.ord[i]
      BY <3>1, <3>2, <3>3 DEF Matchable, Resting, order
    <3>4. ASSUME NEW i \in Matchable(book, cur), i # p,
                 order(p).bond = "none" \/ i # Sibling(book, p)
          PROVE  i \in Matchable(book', cur)
      <4>1. i \in Ids /\ i # cur /\ book.ord[i].place = "book"
        BY <1>1 DEF Matchable, Resting, order
      <4>2. book'.ord[i] = book.ord[i]
        BY <3>1, <3>4, <4>1 DEF order
      <4>3. QED
        BY <3>2, <4>1, <4>2 DEF Matchable, Resting, order
    <3>5. order(p).bond = "none" \/
            Sibling(book, p) \notin Counted(book, cur) \cup Stoppers(book, cur)
      BY <1>1, SiblingSpare
    <3>6. p \notin Stoppers(book, cur)
      BY <1>1 DEF Stoppers, Own
    <3>7. Less(book, book', cur)
      <4>1. Stoppers(book, cur) \subseteq Matchable(book, cur)
        BY DEF Stoppers, Own
      <4>2. Stoppers(book, cur) \subseteq Matchable(book', cur)
        BY <3>4, <3>5, <3>6, <4>1
      <4>3. QED
        BY <3>2, <3>3, <4>2 DEF Less, order
    <3>8. Counted(book, cur) \subseteq Matchable(book', cur) \cup {p}
      <4>1. Counted(book, cur) \subseteq Matchable(book, cur)
        BY DEF Counted, Reached
      <4>2. QED
        BY <3>4, <3>5, <4>1
    <3>9. Fillable(book', cur) >= Fillable(book, cur) - Takes(book, cur)[p]
      BY <1>1, <1>2, <2>3, <3>7, <3>8, LeaverCounts
    <3>10. Takes(book, cur)[p] \in {Slice(order(p)), order(p).rem}
      BY DEF Takes, order
    <3>11. order(p).rem = q
      BY <1>3, <1>4, <2>1, <2>4
    <3>12. QED
      BY <1>3, <1>4, <2>1, <3>9, <3>10, <3>11
  <2>5. CASE book'.ord[p].rem # 0
    <3>1. order(p).kind = "ICEBERG"
      BY <1>3, <1>4, <2>1, <2>5 DEF Slice
    <3>2. order(p).bond = "none"
      <4>1. order(p).bond # "quote"
        BY <3>1 DEF QuoteShape, order
      <4>2. QED
        BY <1>1, <3>1, <4>1 DEF Order, Bonds
    <3>3. /\ \A i \in Ids \ {cur, p} : book'.ord[i] = order(i)
          /\ book'.ord[p].place = "book"
          /\ book'.ord[cur].place = "none"
      BY <1>1, <1>6, <2>2, <2>5, <3>2, HooksSpare
    <3>4. Refilled(book, book', cur, p)
      BY <1>1, <1>3, <2>1, <3>2, <3>3 DEF Refilled, SameOrder, order
    <3>5. Fillable(book', cur) >= Fillable(book, cur) - Slice(book.ord[p])
      BY <1>1, <1>2, <2>3, <3>4, RefilledCounts
    <3>6. QED
      BY <1>3, <1>4, <2>1, <3>5 DEF order
  <2>6. QED
    BY <2>4, <2>5
<1>7. QED
  BY <1>5, <1>6

\* Passing over an own order takes nothing from the look-ahead.
LEMMA PullCounts ==
  ASSUME IInv, Paired(book), NEW p \in Ids, SelfMatchPullsResting(p)
  PROVE  /\ Fillable(book', cur) >= Fillable(book, cur)
         /\ book'.ord[cur] = order(cur)
<1>1. /\ Sound(book) /\ cur \in Ids /\ cur # p /\ order(p).place = "book"
      /\ order(cur).place = "none" /\ p \in Matchable(book, cur)
      /\ SelfMatch(book, cur, p) = "CANCEL_RESTING" /\ book' = SmpCancel(book, p)
  BY FacingFacts DEF SelfMatchPullsResting, Facing, IsBest
<1>2. order(cur).smp = "CANCEL_RESTING" /\ order(p).gw = order(cur).gw
  BY <1>1 DEF SelfMatch, order
<1>3. Sound(book') /\ Thinned(book, book')
  BY <1>1, SmpCancelThins
<1>4. book'.ord[cur] = order(cur)
  BY <1>1, <1>3, ThinnedTies DEF order
<1>5. \A i \in Ids : book'.ord[i].place = "book" => book'.ord[i] = book.ord[i]
  <2>1. \A i \in Ids : book'.ord[i].place = "book" => book'.ord[i].status \in Working
    BY <1>3 DEF Sound, OrderSound
  <2>2. QED
    BY <1>1, <1>3, <2>1, ThinnedTies DEF Working, Dead
<1>6. \A i \in Ids : order(i).gw # order(p).gw => book'.ord[i] = book.ord[i]
  <2> DEFINE c == Cancel(book, p)
  <2>1. /\ Sound(c) /\ Thinned(book, c) /\ \A j \in Ids \ {p} : c.ord[j] = book.ord[j]
    BY <1>1, CancelTouches
  <2> HIDE DEF c
  <2>2. Paired(c) /\ Sibling(c, p) = Sibling(book, p) /\ c.ord[p].bond = order(p).bond
    BY <1>1, <2>1, ThinnedTies, TiesStay DEF SameBonds, SameTies, order
  <2>3. \/ book' = c
        \/ c.ord[p].bond = "oco" /\ book' = PullSibling(c, p)
    BY <1>1 DEF SmpCancel, OcoLegEnded, c
  <2>4. CASE book' = c
    BY <2>1, <2>4
  <2>5. CASE c.ord[p].bond = "oco" /\ book' = PullSibling(c, p)
    <3>1. \A j \in Ids \ {Sibling(book, p)} : book'.ord[j] = c.ord[j]
      BY <2>1, <2>2, <2>5, PullTouches
    <3>2. order(Sibling(book, p)).gw = order(p).gw
      BY <2>2, <2>5 DEF Paired, order
    <3>3. QED
      BY <2>1, <3>1, <3>2
  <2>6. QED
    BY <2>3, <2>4, <2>5
<1>7. Matchable(book', cur) \subseteq Matchable(book, cur)
  BY <1>4, <1>5 DEF Matchable, Resting, order
<1>8. \A i \in Matchable(book', cur) : book'.ord[i] = book.ord[i]
  BY <1>5 DEF Matchable, Resting
<1>9. Less(book, book', cur)
  BY <1>2, <1>4, <1>7, <1>8 DEF Less, Stoppers, order
<1>10. Counted(book, cur) \subseteq Matchable(book', cur)
  <2>1. SUFFICES ASSUME NEW i \in Counted(book, cur) PROVE i \in Matchable(book', cur)
    OBVIOUS
  <2>2. i \in Matchable(book, cur) /\ i \notin Own(book, cur) /\ i \in Ids
    BY DEF Counted, Reached, Matchable, Resting
  <2>3. order(i).gw # order(p).gw
    BY <1>2, <2>2 DEF Own, SelfMatch, order
  <2>4. book'.ord[i] = book.ord[i]
    BY <1>6, <2>2, <2>3
  <2>5. QED
    BY <1>4, <2>2, <2>4 DEF Matchable, Resting, order
<1>11. Counted(book, cur) \cap Matchable(book', cur) = Counted(book, cur)
  BY <1>10
<1>12. Fillable(book', cur) >= Units(Counted(book, cur), Takes(book, cur))
  BY <1>1, <1>3, <1>9, <1>11, LessCounts
<1>13. QED
  BY <1>1, <1>4, <1>12, FillableCounts

\* A sweep that its own order stops, or that finds nobody, was promised nothing.
LEMMA NoneCounts ==
  ASSUME IInv, cur \in Ids,
         \/ Matchable(book, cur) = {}
         \/ \E p \in Ids : SelfMatchPullsAggressor(p)
  PROVE  Fillable(book, cur) = 0
<1>1. Sound(book)
  BY DEF IInv
<1>2. Reached(book, cur) = {}
  <2>1. CASE Matchable(book, cur) = {}
    BY <2>1 DEF Reached
  <2>2. CASE \E p \in Ids : SelfMatchPullsAggressor(p)
    <3>1. PICK p \in Ids : SelfMatchPullsAggressor(p)
      BY <2>2
    <3>2. /\ p \in Matchable(book, cur) /\ SelfMatch(book, cur, p) \in {"CANCEL_AGGRESSOR", "CANCEL_BOTH"}
          /\ \A r \in Matchable(book, cur) : r # p => ~Ahead(book, r, p)
      BY <3>1 DEF SelfMatchPullsAggressor, Facing, IsBest
    <3>3. p \in Own(book, cur) /\ p \in Stoppers(book, cur)
      BY <3>2 DEF Own, Stoppers, SelfMatch
    <3>4. QED
      BY <3>2, <3>3 DEF Reached
  <2>3. QED
    BY <2>1, <2>2
<1>3. Counted(book, cur) = {}
  BY <1>2 DEF Counted
<1>4. QED
  BY <1>1, <1>3, FillableCounts, UnitsNone

\* The look-ahead of StartSweep still holds when the order has left the queue.
LEMMA StartCounts ==
  ASSUME IInv, StartSweep, order(cur).kind = "FOK"
  PROVE  /\ Fillable(book', cur) >= Fillable(book, cur)
         /\ SameOrder(order(cur), book'.ord[cur]) /\ book'.ord[cur].rem = order(cur).rem
         /\ Fillable(book, cur) >= order(cur).rem
<1>1. /\ Sound(book) /\ cur \in Ids /\ pc = "process"
      /\ order(cur) \in Order /\ OrderSound(order(cur)) /\ order(cur).place = "none"
      /\ book' = [book EXCEPT !.ord[cur] = Resolved(@)]
      /\ Fillable(book, cur) >= order(cur).qty
  BY ProcessingFacts DEF StartSweep, Fills
<1>2. Sound(book')
  BY InvStep DEF Next, EngineStep, IInv
<1>3. /\ \A i \in Ids \ {cur} : book'.ord[i] = book.ord[i]
      /\ book'.ord[cur] = Resolved(order(cur))
  BY <1>1 DEF Sound, Book, order
<1>4. /\ book'.ord[cur].place = "none" /\ book'.ord[cur].side = order(cur).side
      /\ book'.ord[cur].price = order(cur).price /\ book'.ord[cur].gw = order(cur).gw
      /\ book'.ord[cur].smp = order(cur).smp /\ book'.ord[cur].rem = order(cur).rem
      /\ SameOrder(order(cur), book'.ord[cur])
  <2>1. last \in Int
    BY PricesAssumption DEF IInv, TypeOK, NoPrice
  <2> DEFINE o == order(cur)
             stop == IF o.kind = "TRAILING_STOP" /\ o.stop = NoPrice
                     THEN IF o.side = "SELL" THEN last - o.offset ELSE last + o.offset
                     ELSE o.stop
  <2>2. SameOrder(o, Resolved(o)) /\ Resolved(o).place = "none" /\ Resolved(o).rem = o.rem
    BY <1>1, <2>1, ResolvedSound
  <2>3. Resolved(o) = [o EXCEPT !.stop = stop, !.place = "none", !.turn = 0]
    BY DEF Resolved
  <2> HIDE DEF stop
  <2>4. Resolved(o).price = o.price
    BY <1>1, <2>3 DEF Order
  <2>5. QED
    BY <1>3, <2>2, <2>4 DEF SameOrder
<1>5. Matchable(book', cur) = Matchable(book, cur)
  BY <1>1, <1>3, <1>4 DEF Matchable, Resting, order
<1>6. \A i \in Matchable(book', cur) : book'.ord[i] = book.ord[i]
  BY <1>3, <1>4 DEF Matchable, Resting
<1>7. Less(book, book', cur)
  BY <1>4, <1>5, <1>6 DEF Less, Stoppers, Own, order
<1>8. Counted(book, cur) \cap Matchable(book', cur) = Counted(book, cur)
  BY <1>5 DEF Counted, Reached
<1>9. Fillable(book', cur) >= Units(Counted(book, cur), Takes(book, cur))
  BY <1>1, <1>2, <1>7, <1>8, LessCounts
<1>10. Fillable(book, cur) = Units(Counted(book, cur), Takes(book, cur)) /\ Fillable(book, cur) \in Nat
  BY <1>1, FillableCounts
<1>11. order(cur).rem <= order(cur).qty /\ order(cur).rem \in Nat /\ order(cur).qty \in Nat
  BY <1>1 DEF OrderSound, Order
<1>12. QED
  BY <1>1, <1>4, <1>9, <1>10, <1>11

-----------------------------------------------------------------------------
(***************************************************************************)
(* All or none.                                                            *)
(***************************************************************************)

\* A fill-or-kill order is whole or done, except in the middle of its sweep;
\* there the book can still fill all that is left of it.
FokInv ==
  /\ \A i \in Ids : order(i).kind = "ICEBERG" => order(i).bond # "oco"
  /\ \A i \in Ids : order(i).kind = "FOK" =>
       order(i).rem \in {0, order(i).qty} \/ (pc = "sweep" /\ i = cur)
  /\ pc = "sweep" /\ order(cur).kind = "FOK" => Fillable(book, cur) >= order(cur).rem

\* Handlers that accept orders.
LEMMA AcceptedFok ==
  ASSUME FokInv, pc # "sweep", pc' # "sweep", NEW new \in SUBSET Ids,
         \A i \in Ids \ new : book'.ord[i] = order(i),
         \A i \in new : /\ book'.ord[i].rem = book'.ord[i].qty
                        /\ book'.ord[i].kind = "ICEBERG" => book'.ord[i].bond # "oco"
  PROVE  FokInv'
BY DEF FokInv, order

LEMMA NewOrdersFok ==
  ASSUME IInv, FokInv,
         \/ \E r \in NewOrders : NewOrder(r)
         \/ \E l \in OcoPairs : OcoOrder(l)
         \/ \E l \in QuotePairs : QuoteNew(l)
  PROVE  FokInv'
<1>1. CASE \E r \in NewOrders : NewOrder(r)
  <2>1. PICK r \in NewOrders : NewOrder(r)
    BY <1>1
  <2>2. /\ born + 1 \in Ids /\ book \in Book
        /\ book'.ord = [book.ord EXCEPT ![born + 1] = Accepted(r, "none", 0)]
    BY <2>1, NewOrderOrders DEF IInv, Sound
  <2>3. /\ book'.ord[born + 1] = Accepted(r, "none", 0)
        /\ \A i \in Ids \ {born + 1} : book'.ord[i] = order(i)
    BY <2>2 DEF Book, order
  <2>4. /\ \A i \in {born + 1} : book'.ord[i].rem = book'.ord[i].qty /\ book'.ord[i].bond = "none"
        /\ {born + 1} \in SUBSET Ids /\ pc # "sweep" /\ pc' # "sweep"
    BY <2>1, <2>2, <2>3 DEF Accepted, NewOrder, Start
  <2>5. QED
    BY <2>3, <2>4, AcceptedFok
<1>2. ASSUME NEW l \in Request \X Request, NEW bond \in {"oco", "quote"},
             \/ bond = "oco" /\ l \in OcoPairs /\ OcoOrder(l)
             \/ bond = "quote" /\ l \in QuotePairs /\ QuoteNew(l)
      PROVE  FokInv'
  <2>1. /\ born + 1 \in Ids /\ (born + 1) + 1 \in Ids
        /\ book'.ord[born + 1] = Accepted(l[1], bond, born + 1)
        /\ book'.ord[(born + 1) + 1] = Accepted(l[2], bond, born + 1)
        /\ \A i \in Ids \ {born + 1, (born + 1) + 1} : book'.ord[i] = order(i)
    BY <1>2, PairOrders
  <2>2. bond = "oco" => l[1].kind # "ICEBERG" /\ l[2].kind # "ICEBERG"
    BY <1>2, GatesAssumption
  <2>3. \A i \in {born + 1, (born + 1) + 1} :
          /\ book'.ord[i].rem = book'.ord[i].qty
          /\ book'.ord[i].kind = "ICEBERG" => book'.ord[i].bond # "oco"
    BY <1>2, <2>1, <2>2 DEF Accepted
  <2>4. {born + 1, (born + 1) + 1} \in SUBSET Ids /\ pc # "sweep" /\ pc' # "sweep"
    BY <1>2, <2>1 DEF OcoOrder, QuoteNew, Start
  <2>5. QED
    BY <2>1, <2>3, <2>4, AcceptedFok
<1>3. OcoPairs \subseteq Request \X Request /\ QuotePairs \subseteq Request \X Request
  BY RequestsAssumption
<1>4. "oco" \in {"oco", "quote"} /\ "quote" \in {"oco", "quote"}
  OBVIOUS
<1>5. QED
  BY <1>1, <1>2, <1>3, <1>4

\* Only these steps are taken in a sweep or begin one.
LEMMA SweepSteps ==
  ASSUME Next, pc = "sweep" \/ pc' = "sweep"
  PROVE  \/ StartSweep /\ cur' = cur
         \/ TriggerOnEntry /\ cur' = cur
         \/ \E p \in Ids : Trade(p) \/ SelfMatchPullsResting(p) \/ SelfMatchPullsAggressor(p)
         \/ SweepEnds
<1>1. ~Message
  BY DEF Message, NewOrder, OcoOrder, QuoteNew, QuoteCancel, KillSwitch, CancelOrder, OcoCancel,
         Amend, CallPhaseBegins, NoMessage, Start, dispatch, vars
<1>2. CASE \/ Withdraw \/ Withdrawn
           \/ DropCancelled \/ RejectImmediate \/ RestUnmatched
           \/ HandlerRaises \/ ArmStop \/ RefuseFok \/ RefusePull \/ Refused
           \/ Settle \/ PostSecondLeg \/ DropSecondLeg \/ HandlerReturns
           \/ \E i \in Ids : RunStop(i)
  BY <1>2 DEF Withdraw, Withdrawn, DropCancelled, RejectImmediate, RestUnmatched, HandlerRaises,
              ArmStop, RefuseFok, RefusePull, Refused, Settle, PostSecondLeg, DropSecondLeg,
              HandlerReturns, RunStop, Processing
<1>3. StartSweep \/ TriggerOnEntry => cur' = cur
  BY DEF StartSweep, TriggerOnEntry
<1>4. QED
  BY <1>1, <1>2, <1>3 DEF Next, EngineStep

\* A calm step keeps what an order is, but for released stops.
LEMMA CalmFok ==
  ASSUME NEW i \in Ids, Calm(order(i), book'.ord[i])
  PROVE  /\ book'.ord[i].kind = "FOK" => order(i).kind = "FOK"
         /\ book'.ord[i].kind = "ICEBERG" => order(i).kind = "ICEBERG"
         /\ book'.ord[i].rem = order(i).rem /\ book'.ord[i].qty = order(i).qty
         /\ book'.ord[i].bond = order(i).bond
BY DEF Calm, SameOrder

\* The sweep of a fill-or-kill order keeps its promise.
LEMMA SweepFok ==
  ASSUME IInv, Paired(book), QuoteShape(book), Ranked(book), FokInv, Next,
         pc' = "sweep", book'.ord[cur'].kind = "FOK"
  PROVE  Fillable(book', cur') >= book'.ord[cur'].rem
<1>1. Sound(book) /\ Sound(book')
  BY InvStep DEF IInv
<1>2. CASE StartSweep /\ cur' = cur
  <2>1. /\ cur \in Ids /\ order(cur) \in Order /\ OrderSound(order(cur))
        /\ book' = [book EXCEPT !.ord[cur] = Resolved(@)]
    BY <1>2, ProcessingFacts DEF StartSweep
  <2>2. book'.ord[cur] = Resolved(order(cur))
    BY <1>1, <2>1 DEF Sound, Book, order
  <2>3. last \in Int
    BY PricesAssumption DEF IInv, TypeOK, NoPrice
  <2>4. Resolved(order(cur)).kind = order(cur).kind
    BY <2>1, <2>3, ResolvedSound
  <2>5. order(cur).kind = "FOK"
    BY <1>2, <2>2, <2>4
  <2>6. /\ Fillable(book', cur) >= Fillable(book, cur) /\ book'.ord[cur].rem = order(cur).rem
        /\ Fillable(book, cur) >= order(cur).rem
    BY <1>2, <2>5, StartCounts
  <2>7. Fillable(book', cur) \in Nat /\ Fillable(book, cur) \in Nat /\ order(cur).rem \in Nat
    BY <1>1, <2>1, FillableCounts DEF Order
  <2>8. QED
    BY <1>2, <2>6, <2>7
<1>3. CASE TriggerOnEntry /\ cur' = cur
  <2>1. /\ cur \in Ids /\ order(cur) \in Order /\ OrderSound(order(cur))
        /\ Resolved(order(cur)).kind \in StopKinds
        /\ book' = [book EXCEPT !.ord[cur] = Converted(Resolved(order(cur)))]
    BY <1>3, ProcessingFacts DEF TriggerOnEntry
  <2>2. last \in Int
    BY PricesAssumption DEF IInv, TypeOK, NoPrice
  <2>3. Resolved(order(cur)) \in Order
    BY <2>1, <2>2, ResolvedSound
  <2>4. book'.ord[cur] = Converted(Resolved(order(cur)))
    BY <1>1, <2>1 DEF Sound, Book
  <2>5. Converted(Resolved(order(cur))).kind \in {"LIMIT", "MARKET"}
    BY <2>3 DEF Converted, Order
  <2>6. QED
    BY <1>3, <2>4, <2>5
<1>4. ASSUME NEW p \in Ids, Trade(p)
      PROVE  Fillable(book', cur') >= book'.ord[cur'].rem
  <2>1. pc = "sweep" /\ cur' = cur /\ book'.ord[cur].kind = order(cur).kind
    BY <1>4, TradeOrders, FacingFacts DEF Trade
  <2>2. order(cur).kind = "FOK" /\ (order(p).kind = "ICEBERG" => order(p).bond # "oco")
        /\ Fillable(book, cur) >= order(cur).rem
    BY <2>1 DEF FokInv
  <2>3. QED
    BY <1>4, <2>1, <2>2, TradeCounts
<1>5. ASSUME NEW p \in Ids, SelfMatchPullsResting(p)
      PROVE  Fillable(book', cur') >= book'.ord[cur'].rem
  <2>1. /\ pc = "sweep" /\ cur' = cur /\ cur \in Ids /\ order(cur) \in Order
        /\ Fillable(book', cur) >= Fillable(book, cur) /\ book'.ord[cur] = order(cur)
    BY <1>5, PullCounts, FacingFacts DEF SelfMatchPullsResting, dispatch
  <2>2. Fillable(book, cur) >= order(cur).rem
    BY <2>1 DEF FokInv
  <2>3. Fillable(book', cur) \in Nat /\ Fillable(book, cur) \in Nat /\ order(cur).rem \in Nat
    BY <1>1, <2>1, FillableCounts DEF Order
  <2>4. QED
    BY <2>1, <2>2, <2>3
<1>6. QED
  BY <1>2, <1>3, <1>4, <1>5, SweepSteps DEF SelfMatchPullsAggressor, SweepEnds

LEMMA FokStep ==
  ASSUME IInv, Paired(book), QuoteShape(book), Ranked(book), FokInv, Next
  PROVE  FokInv'
<1>1. CASE \/ \E r \in NewOrders : NewOrder(r)
           \/ \E l \in OcoPairs : OcoOrder(l)
           \/ \E l \in QuotePairs : QuoteNew(l)
  BY <1>1, NewOrdersFok
<1>2. ASSUME NEW i \in Ids, NEW price \in AmendPrices, NEW qty \in AmendQtys, Amend(i, price, qty)
      PROVE  FokInv'
  <2>1. /\ OthersSame(book, book', i) /\ order(i).place = "book"
        /\ book'.ord[i].kind = order(i).kind /\ book'.ord[i].bond = order(i).bond
        /\ pc = "idle"
    BY <1>2, AmendOrders DEF Amend
  <2>2. order(i).kind \in Restable
    BY <2>1 DEF IInv, Sound, OrderSound, order
  <2>3. pc' # "sweep"
    BY <1>2, <2>1 DEF Amend, Start, dispatch
  <2>4. \A j \in Ids \ {i} : book'.ord[j] = order(j)
    BY <2>1 DEF OthersSame, order
  <2>5. QED
    BY <2>1, <2>2, <2>3, <2>4 DEF FokInv, Restable, order
<1>3. ASSUME NEW p \in Ids, Trade(p)
      PROVE  FokInv'
  <2>1. /\ pc = "sweep" /\ pc' = "sweep" /\ cur' = cur /\ order(p).kind \in Restable
        /\ book'.ord[cur].kind = order(cur).kind /\ book'.ord[cur].bond = order(cur).bond
        /\ book'.ord[p].kind = order(p).kind /\ book'.ord[p].bond = order(p).bond
        /\ \A i \in Ids \ {cur, p} : Calm(order(i), book'.ord[i])
    BY <1>3, TradeOrders, FacingFacts DEF Trade, SameOrder, OrderSound
  <2>2. Next
    OBVIOUS
  <2>3. book'.ord[cur'].kind = "FOK" => Fillable(book', cur') >= book'.ord[cur'].rem
    BY <2>1, <2>2, SweepFok
  <2>4. \A i \in Ids : book'.ord[i].kind = "ICEBERG" => book'.ord[i].bond # "oco"
    BY <2>1, CalmFok DEF FokInv
  <2>5. \A i \in Ids : book'.ord[i].kind = "FOK" =>
          book'.ord[i].rem \in {0, book'.ord[i].qty} \/ i = cur
    BY <2>1, CalmFok DEF FokInv, Restable
  <2>6. QED
    BY <2>1, <2>3, <2>4, <2>5 DEF FokInv, order
<1>4. CASE CalmBook(book, book')
  <2>1. \A i \in Ids : Calm(order(i), book'.ord[i])
    BY <1>4 DEF CalmBook, order
  <2>2. \A i \in Ids : book'.ord[i].kind = "ICEBERG" => book'.ord[i].bond # "oco"
    BY <2>1, CalmFok DEF FokInv
  <2>3. ASSUME NEW i \in Ids, book'.ord[i].kind = "FOK"
        PROVE  book'.ord[i].rem \in {0, book'.ord[i].qty} \/ (pc' = "sweep" /\ i = cur')
    <3>1. /\ order(i).kind = "FOK" /\ book'.ord[i].rem = order(i).rem
          /\ book'.ord[i].qty = order(i).qty
      BY <2>1, <2>3, CalmFok
    <3>2. CASE pc = "sweep" /\ i = cur
      <4>1. Fillable(book, cur) >= order(cur).rem /\ order(cur).rem \in Nat /\ cur \in Ids
        BY <3>1, <3>2 DEF FokInv, IInv, Sound, Book, Order, order
      <4>2. CASE \E p \in Ids : Trade(p) \/ SelfMatchPullsResting(p)
        BY <3>2, <4>2 DEF Trade, SelfMatchPullsResting, dispatch
      <4>3. CASE \/ \E p \in Ids : SelfMatchPullsAggressor(p)
                 \/ Matchable(book, cur) = {}
        <5>1. Fillable(book, cur) = 0
          BY <4>1, <4>3, NoneCounts
        <5>2. order(cur).rem = 0
          BY <4>1, <5>1
        <5>3. QED
          BY <3>1, <3>2, <5>2
      <4>4. CASE SweepEnds /\ order(cur).rem = 0
        BY <3>1, <3>2, <4>4
      <4>5. ~StartSweep /\ ~TriggerOnEntry
        BY <3>2 DEF StartSweep, TriggerOnEntry, Processing
      <4>6. QED
        BY <3>2, <4>2, <4>3, <4>4, <4>5, SweepSteps DEF SweepEnds
    <3>3. CASE ~(pc = "sweep" /\ i = cur)
      BY <3>1, <3>3 DEF FokInv
    <3>4. QED
      BY <3>2, <3>3
  <2>4. pc' = "sweep" /\ book'.ord[cur'].kind = "FOK" => Fillable(book', cur') >= book'.ord[cur'].rem
    BY SweepFok
  <2>5. QED
    BY <2>2, <2>3, <2>4 DEF FokInv, order
<1>5. QED
  BY <1>1, <1>2, <1>3, <1>4, StepKinds

\* A fill-or-kill order trades all of its quantity or nothing: what the
\* look-ahead of OrderBook.process counted is never more than its sweep fills,
\* whatever policies, icebergs, OCO siblings and callbacks lie on the way.
THEOREM AllOrNone == Spec => []FokAllOrNone
<1>1. Init => FokInv
  BY DEF Init, FokInv, Absent, order
<1>2. IInv /\ PairInv /\ QuoteInv /\ Ranked(book) /\ FokInv /\ [Next]_vars => FokInv'
  <2>1. ASSUME UNCHANGED vars, FokInv
        PROVE  FokInv'
    BY <2>1 DEF vars, dispatch, FokInv, order
  <2>2. QED
    BY <2>1, FokStep DEF PairInv, QuoteInv
<1>3. FokInv => FokAllOrNone
  BY DEF FokInv, FokAllOrNone
<1>4. QED
  BY <1>1, <1>2, <1>3, Invariance, PairInvariance, QuoteInvariance, QueuesHaveNoTies, PTL DEF Spec
=============================================================================
