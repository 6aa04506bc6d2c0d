----------------------------- MODULE Pairs_proofs -----------------------------
(***************************************************************************)
(* Theorems about the two legs of a pair: what becomes of one when the     *)
(* other has ended, through every hook, sweep, cascade and batch.          *)
(*                                                                         *)
(* Between messages the losing leg of an OCO pair is dead or in no place;  *)
(* in the middle of a handler it may also be the second leg, still to be   *)
(* dropped, or an order that a batch has yet to cancel, and the hook that  *)
(* cancels it may be still to run (RefuseFok, the end of a sweep).  Losers *)
(* says so, one reason at a time, and is inductive.                        *)
(*                                                                         *)
(* Of quotes, a participant has at most one whose legs may rest (OneQuote).*)
(* Last, no order is lost: what still works is in the book or in a hand    *)
(* (NoneLost), so a leg that a pair's end left behind has ended too.       *)
(* And the leg of a quote that a fill of its sibling inactivates has       *)
(* traded for the last time, where no amend prices it through the other.   *)
(***************************************************************************)
EXTENDS Ledger_proofs

-----------------------------------------------------------------------------
(***************************************************************************)
(* Pairs as they are created, which nothing changes.                       *)
(***************************************************************************)
\* The two legs of a pair have one owner, policy and name.
Paired(b) ==
  \A i \in Ids :
    /\ b.ord[i].bond = "none" => b.ord[i].group = 0
    /\ b.ord[i].bond # "none" =>
         LET s == b.ord[Sibling(b, i)]
         IN  /\ s.bond = b.ord[i].bond /\ s.group = b.ord[i].group
             /\ s.gw = b.ord[i].gw /\ s.smp = b.ord[i].smp

\* What identifies an order; an amend may change its size.
SameTies(o, n) ==
  n.side = o.side /\ n.gw = o.gw /\ n.smp = o.smp /\ n.bond = o.bond /\ n.group = o.group

SameBonds(b, c) == \A i \in Ids : SameTies(b.ord[i], c.ord[i])

\* Tied, in book b.
TiedIn(b, i) ==
  /\ b.ord[i].bond = "oco"
  /\ \/ b.ord[i].side = b.ord[Sibling(b, i)].side
     \/ b.ord[i].smp \in {"CANCEL_AGGRESSOR", "CANCEL_BOTH"}

\* The sibling of a leg is the other leg of its pair.
LEMMA Siblings ==
  ASSUME NEW b, Sound(b), NEW i \in Ids, b.ord[i].bond # "none"
  PROVE  /\ Sibling(b, i) \in Ids /\ Sibling(b, i) # i
         /\ b.ord[i].group \in Ids /\ b.ord[i].group \in Nat
         /\ {i, Sibling(b, i)} = {b.ord[i].group, b.ord[i].group + 1}
         /\ i \in Nat
<1>1. /\ b.ord[i].group \in Ids /\ b.ord[i].group + 1 \in Ids
      /\ i \in {b.ord[i].group, b.ord[i].group + 1}
  BY DEF Sound, Bonded
<1>2. Ids \subseteq Nat
  BY MaxOrdersAssumption DEF Ids
<1>3. CASE i = b.ord[i].group
  <2>1. Sibling(b, i) = i + 1
    BY <1>1, <1>2, <1>3 DEF Sibling
  <2>2. QED
    BY <1>1, <1>2, <1>3, <2>1
<1>4. CASE i = b.ord[i].group + 1
  <2>1. Sibling(b, i) = b.ord[i].group
    BY <1>1, <1>2, <1>4 DEF Sibling
  <2>2. QED
    BY <1>1, <1>2, <1>4, <2>1
<1>5. QED
  BY <1>1, <1>3, <1>4

\* Two legs of one group are one leg or siblings, and their bond is the same.
LEMMA Groups ==
  ASSUME NEW b, Sound(b), Paired(b), NEW i \in Ids, NEW j \in Ids,
         b.ord[i].bond # "none", b.ord[j].group = b.ord[i].group
  PROVE  /\ j \in {i, Sibling(b, i)} /\ b.ord[j].bond = b.ord[i].bond
         /\ b.ord[b.ord[i].group].bond = b.ord[i].bond
         /\ b.ord[b.ord[i].group].group = b.ord[i].group
         /\ b.ord[b.ord[i].group].gw = b.ord[i].gw
         /\ b.ord[j].gw = b.ord[i].gw /\ b.ord[j].smp = b.ord[i].smp
<1>1. /\ b.ord[i].group \in Ids /\ Sibling(b, i) \in Ids
      /\ {i, Sibling(b, i)} = {b.ord[i].group, b.ord[i].group + 1}
      /\ b.ord[i].group # 0
  BY Siblings, MaxOrdersAssumption DEF Ids
<1>2. b.ord[j].bond # "none"
  BY <1>1 DEF Paired
<1>3. j \in {b.ord[i].group, b.ord[i].group + 1}
  BY <1>2 DEF Sound, Bonded
<1>4. \A k \in {i, Sibling(b, i)} :
         /\ b.ord[k].bond = b.ord[i].bond /\ b.ord[k].group = b.ord[i].group
         /\ b.ord[k].gw = b.ord[i].gw /\ b.ord[k].smp = b.ord[i].smp
  BY DEF Paired
<1>5. QED
  BY <1>1, <1>3, <1>4

\* A sibling's sibling.
LEMMA SiblingTwice ==
  ASSUME NEW b, Sound(b), Paired(b), NEW i \in Ids, b.ord[i].bond # "none"
  PROVE  /\ Sibling(b, Sibling(b, i)) = i
         /\ b.ord[Sibling(b, i)].bond = b.ord[i].bond
         /\ TiedIn(b, i) => TiedIn(b, Sibling(b, i))
<1> DEFINE s == Sibling(b, i)
<1>1. /\ s \in Ids /\ s # i /\ b.ord[i].group \in Nat
      /\ {i, s} = {b.ord[i].group, b.ord[i].group + 1}
      /\ b.ord[s].bond = b.ord[i].bond /\ b.ord[s].group = b.ord[i].group
      /\ b.ord[s].smp = b.ord[i].smp
  BY Siblings DEF Paired
<1>2. s \in Nat /\ i \in Nat /\ s + i = 2 * b.ord[i].group + 1
  BY <1>1
<1>3. Sibling(b, s) = 2 * b.ord[i].group + 1 - s
  BY <1>1 DEF Sibling
<1>4. Sibling(b, s) = i
  <2> HIDE DEF s
  <2>1. QED
    BY <1>1, <1>2, <1>3
<1>5. QED
  BY <1>1, <1>4 DEF TiedIn

\* Bonds that stay leave siblings and ties where they are.
LEMMA TiesStay ==
  ASSUME NEW b, NEW c, Sound(b), SameBonds(b, c)
  PROVE  /\ \A i \in Ids : Sibling(c, i) = Sibling(b, i)
         /\ \A i \in Ids : TiedIn(c, i) <=> TiedIn(b, i)
         /\ Paired(b) => Paired(c)
<1>1. \A i \in Ids : Sibling(c, i) = Sibling(b, i)
  BY DEF SameBonds, SameTies, Sibling
<1>2. \A i \in Ids : b.ord[i].bond # "none" => Sibling(b, i) \in Ids
  BY Siblings
<1>3. \A i \in Ids : TiedIn(c, i) <=> TiedIn(b, i)
  BY <1>1, <1>2 DEF SameBonds, SameTies, TiedIn
<1>4. Paired(b) => Paired(c)
  BY <1>1, <1>2 DEF SameBonds, SameTies, Paired
<1>5. QED
  BY <1>1, <1>3, <1>4

\* A cancel changes one order, and ends it if the book held it.
LEMMA CancelTouches ==
  ASSUME NEW b, Sound(b), NEW i \in Ids
  PROVE  LET c == Cancel(b, i)
         IN  /\ Sound(c) /\ Thinned(b, c) /\ c.live = b.live
             /\ \A j \in Ids \ {i} : c.ord[j] = b.ord[j]
             /\ \/ c.ord[i].status \in Dead
                \/ c.ord[i] = b.ord[i] /\ b.ord[i].place = "none"
<1>1. Sound(Cancel(b, i)) /\ Thinned(b, Cancel(b, i))
  BY CancelThins
<1>2. b \in Book /\ b.ord[i] \in Order
  BY DEF Sound, Book
<1>3. /\ Cancel(b, i).live = b.live
      /\ \A j \in Ids \ {i} : Cancel(b, i).ord[j] = b.ord[j]
      /\ \/ Cancel(b, i).ord[i].status \in Dead
         \/ Cancel(b, i).ord[i] = b.ord[i] /\ b.ord[i].place = "none"
  BY <1>2 DEF Cancel, Book, Dead, Order
<1>4. QED
  BY <1>1, <1>3

LEMMA ThinnedTies ==
  ASSUME NEW b, NEW c, Sound(b), Thinned(b, c)
  PROVE  /\ SameBonds(b, c) /\ c.live \subseteq b.live
         /\ \A i \in Ids :
              /\ b.ord[i].status \in Dead => c.ord[i] = b.ord[i]
              /\ b.ord[i].place = "none" => c.ord[i] = b.ord[i]
              /\ c.ord[i].place \in {b.ord[i].place, "none"}
              /\ c.ord[i] # b.ord[i] => c.ord[i].status \in Dead
<1>1. ASSUME NEW i \in Ids
      PROVE  /\ SameTies(b.ord[i], c.ord[i])
             /\ b.ord[i].status \in Dead => c.ord[i] = b.ord[i]
             /\ b.ord[i].place = "none" => c.ord[i] = b.ord[i]
             /\ c.ord[i].place \in {b.ord[i].place, "none"}
             /\ c.ord[i] # b.ord[i] => c.ord[i].status \in Dead
  <2>1. b.ord[i] \in Order
    BY DEF Sound, Book
  <2>2. CASE c.ord[i] = b.ord[i]
    BY <2>2 DEF SameTies
  <2>3. CASE /\ b.ord[i].place # "none" /\ b.ord[i].status \notin Dead
             /\ c.ord[i] = Withdrawn1(b.ord[i])
    BY <2>1, <2>3 DEF SameTies, Withdrawn1, Order, Dead
  <2>4. QED
    BY <2>2, <2>3 DEF Thinned
<1>2. QED
  BY <1>1 DEF SameBonds, Thinned

-----------------------------------------------------------------------------
(***************************************************************************)
(* The leg that lost.                                                      *)
(***************************************************************************)

\* Leg i will not execute any more: it is dead, or a batch C is about to
\* cancel it, or it is in no place and in nobody's hands.  (a is the order a
\* handler processes, t its second leg: that one is dropped, not posted, once
\* its sibling is dead.)
SpentIn(b, i, a, t, C) ==
  \/ b.ord[i].status \in Dead
  \/ i \in C
  \/ /\ b.ord[i].place = "none" /\ i # a
     /\ i = t => b.ord[Sibling(b, i)].status \in Dead

\* Leg i has lost: its pair is unregistered, or its sibling is dead and no
\* handler has the sibling's end still to report (X).
Lost(b, i, X) ==
  \/ b.ord[Sibling(b, i)].status \in Dead /\ Sibling(b, i) \notin X
  \/ b.ord[i].group \notin b.live

Losers(b, a, t, C, X) ==
  \A i \in Ids : TiedIn(b, i) /\ Lost(b, i, X) => SpentIn(b, i, a, t, C)

\* Steps that neither lose a leg nor hand out one that is spent.
LEMMA LosersKept ==
  ASSUME NEW b, NEW c, Sound(b), Paired(b), SameBonds(b, c),
         NEW a, NEW t, NEW C, NEW X, NEW a1, NEW t1, NEW C1, NEW X1,
         Losers(b, a, t, C, X), X \subseteq X1,
         \A i \in Ids : TiedIn(b, i) /\ SpentIn(b, i, a, t, C) => SpentIn(c, i, a1, t1, C1),
         \A i \in Ids : b.ord[i].bond = "oco" /\ c.ord[i].status \in Dead
                        => b.ord[i].status \in Dead \/ i \in X1,
         \A g \in Ids : b.ord[g].bond = "oco" /\ g \in b.live => g \in c.live
  PROVE  Losers(c, a1, t1, C1, X1)
<1> SUFFICES ASSUME NEW i \in Ids, TiedIn(c, i), Lost(c, i, X1)
             PROVE  SpentIn(c, i, a1, t1, C1)
  BY DEF Losers
<1>1. TiedIn(b, i) /\ Sibling(c, i) = Sibling(b, i) /\ b.ord[i].bond = "oco"
  BY TiesStay DEF TiedIn
<1>2. /\ Sibling(b, i) \in Ids /\ b.ord[i].group \in Ids
      /\ b.ord[Sibling(b, i)].bond = "oco" /\ b.ord[b.ord[i].group].bond = "oco"
      /\ c.ord[i].group = b.ord[i].group
  BY <1>1, Siblings, Groups, SiblingTwice DEF SameBonds, SameTies
<1>3. Lost(b, i, X)
  <2>1. CASE c.ord[Sibling(b, i)].status \in Dead /\ Sibling(b, i) \notin X1
    BY <1>2, <2>1 DEF Lost
  <2>2. CASE c.ord[i].group \notin c.live
    BY <1>2, <2>2 DEF Lost
  <2>3. QED
    BY <1>1, <2>1, <2>2 DEF Lost
<1>4. QED
  BY <1>1, <1>3 DEF Losers

\* The hook that reports the end of leg p pulls its sibling, unless that is in
\* hand (a) and alive.
LEMMA OcoEndReported ==
  ASSUME NEW b, Sound(b), Paired(b), NEW p \in Ids, NEW a, NEW t, NEW X,
         Losers(b, a, t, {}, X),
         TiedIn(b, p) /\ Sibling(b, p) = a => b.ord[Sibling(b, p)].status \in Dead
  PROVE  Losers(OcoLegEnded(b, p), a, t, {}, X \ {p})
<1> DEFINE g == b.ord[p].group
           s == Sibling(b, p)
           c == OcoLegEnded(b, p)
<1>1. CASE ~(b.ord[p].bond = "oco" /\ b.ord[p].status \in Dead)
  <2>1. c = b
    BY <1>1 DEF OcoLegEnded
  <2>2. SUFFICES ASSUME NEW i \in Ids, TiedIn(b, i), Lost(b, i, X \ {p})
                 PROVE  SpentIn(b, i, a, t, {})
    BY <2>1 DEF Losers
  <2>3. b.ord[Sibling(b, i)].bond = "oco"
    BY <2>2, SiblingTwice DEF TiedIn
  <2>4. Lost(b, i, X)
    BY <1>1, <2>2, <2>3 DEF Lost
  <2>5. QED
    BY <2>2, <2>4 DEF Losers
<1>2. CASE b.ord[p].bond = "oco" /\ b.ord[p].status \in Dead /\ g \notin b.live
  <2>1. c = b
    BY <1>2 DEF OcoLegEnded, PullSibling
  <2>2. SUFFICES ASSUME NEW i \in Ids, TiedIn(b, i), Lost(b, i, X \ {p})
                 PROVE  SpentIn(b, i, a, t, {})
    BY <2>1 DEF Losers
  <2>3. b.ord[i].bond # "none" /\ Sibling(b, i) \in Ids
        /\ b.ord[Sibling(b, i)].group = b.ord[i].group
    BY <2>2, Siblings DEF TiedIn, Paired
  <2>4. Lost(b, i, X)
    <3>1. CASE Sibling(b, i) = p
      BY <1>2, <2>3, <3>1 DEF Lost
    <3>2. CASE Sibling(b, i) # p
      BY <2>2, <3>2 DEF Lost
    <3>3. QED
      BY <3>1, <3>2
  <2>5. QED
    BY <2>2, <2>4 DEF Losers
<1>3. CASE b.ord[p].bond = "oco" /\ b.ord[p].status \in Dead /\ g \in b.live
  <2>1. /\ s \in Ids /\ s # p /\ g \in Ids /\ {p, s} = {g, g + 1}
    BY <1>3, Siblings
  <2>2. Sound(Cancel(b, s)) /\ Thinned(b, Cancel(b, s))
    BY <2>1, CancelThins
  <2>3. c = [Cancel(b, s) EXCEPT !.live = @ \ {g}]
    BY <1>3 DEF OcoLegEnded, PullSibling
  <2>4. /\ c.ord = Cancel(b, s).ord /\ c.live = Cancel(b, s).live \ {g}
        /\ Cancel(b, s).live = b.live
        /\ \A i \in Ids \ {s} : c.ord[i] = b.ord[i]
        /\ \/ c.ord[s].status \in Dead
           \/ c.ord[s] = b.ord[s] /\ b.ord[s].place = "none"
    <3>1. Cancel(b, s) \in Book /\ b \in Book
      BY <2>2 DEF Sound
    <3>2. c.ord = Cancel(b, s).ord /\ c.live = Cancel(b, s).live \ {g}
      <4> HIDE DEF c
      <4>1. QED
        BY <2>3, <3>1 DEF Book
    <3>3. /\ Cancel(b, s).live = b.live
          /\ \A i \in Ids \ {s} : Cancel(b, s).ord[i] = b.ord[i]
          /\ \/ Cancel(b, s).ord[s].status \in Dead
             \/ Cancel(b, s).ord[s] = b.ord[s] /\ b.ord[s].place = "none"
      BY <2>1, <3>1 DEF Cancel, Book, Dead, Order
    <3>4. QED
      BY <3>2, <3>3
  <2>5. SameBonds(b, c) /\ Thinned(b, c)
    BY OcoLegEndedThins, ThinnedTies
  <2>6. SUFFICES ASSUME NEW i \in Ids, TiedIn(c, i), Lost(c, i, X \ {p})
                 PROVE  SpentIn(c, i, a, t, {})
    BY DEF Losers
  <2> HIDE DEF c
  <2>7. /\ TiedIn(b, i) /\ Sibling(c, i) = Sibling(b, i) /\ b.ord[i].bond = "oco"
        /\ c.ord[i].group = b.ord[i].group /\ Sibling(b, i) \in Ids
        /\ Sibling(b, s) = p
        /\ TiedIn(b, s) => TiedIn(b, p)
    <3>1. TiedIn(b, i) /\ Sibling(c, i) = Sibling(b, i) /\ b.ord[i].bond = "oco"
          /\ c.ord[i].group = b.ord[i].group
      <4>1. TiedIn(b, i) /\ Sibling(c, i) = Sibling(b, i)
        BY <2>5, <2>6, TiesStay
      <4>2. QED
        BY <2>5, <4>1 DEF TiedIn, SameBonds, SameTies
    <3>2. Sibling(b, i) \in Ids
      BY <3>1, Siblings
    <3>3. /\ Sibling(b, s) = p
          /\ TiedIn(b, s) => TiedIn(b, p)
      <4>1. b.ord[p].bond # "none" /\ b.ord[s].bond # "none"
        BY <1>3 DEF Paired
      <4>2. QED
        BY <2>1, <4>1, SiblingTwice
    <3>4. QED
      BY <3>1, <3>2, <3>3
  <2>8. CASE i = p
    BY <1>3, <2>1, <2>4, <2>8 DEF SpentIn
  <2>9. CASE i = s
    <3>1. CASE c.ord[s].status \in Dead
      BY <2>9, <3>1 DEF SpentIn
    <3>2. CASE c.ord[s] = b.ord[s] /\ b.ord[s].place = "none"
      <4>1. Sibling(c, i) = p /\ c.ord[p].status \in Dead
        BY <1>3, <2>1, <2>4, <2>7, <2>9
      <4>2. s = a => b.ord[s].status \in Dead
        BY <2>7, <2>9
      <4> HIDE DEF s
      <4>3. QED
        BY <2>9, <3>2, <4>1, <4>2 DEF SpentIn
    <3>3. QED
      BY <2>4, <3>1, <3>2
  <2>10. CASE i \notin {p, s}
    <3>1. b.ord[i].group # g
      BY <1>3, <2>10, Groups
    <3>2. Sibling(b, i) \notin {p, s}
      <4>1. b.ord[Sibling(b, i)].group = b.ord[i].group /\ b.ord[p].group = g /\ b.ord[s].group = g
        BY <1>3, <2>7 DEF Paired
      <4>2. QED
        BY <3>1, <4>1
    <3>3. c.ord[i] = b.ord[i] /\ c.ord[Sibling(b, i)] = b.ord[Sibling(b, i)]
      BY <2>4, <2>7, <2>10, <3>2
    <3>4. Lost(b, i, X)
      BY <2>4, <2>6, <2>7, <3>1, <3>2, <3>3 DEF Lost
    <3>5. SpentIn(b, i, a, t, {})
      BY <2>7, <3>4 DEF Losers
    <3>6. QED
      BY <2>7, <3>3, <3>5 DEF SpentIn
  <2>11. QED
    BY <2>8, <2>9, <2>10
<1>4. QED
  BY <1>1, <1>2, <1>3

\* Pulling a sibling changes that order and that registration only.
LEMMA PullTouches ==
  ASSUME NEW b, Sound(b), Paired(b), NEW i \in Ids, b.ord[i].bond # "none"
  PROVE  LET c == PullSibling(b, i)
             s == Sibling(b, i)
         IN  /\ c.live = b.live \ {b.ord[i].group}
             /\ \A j \in Ids \ {s} : c.ord[j] = b.ord[j]
             /\ b.ord[s].bond = b.ord[i].bond
             /\ b.ord[b.ord[i].group].bond = b.ord[i].bond
             /\ b.ord[i].group \notin b.live => c = b
             /\ b.ord[i].group \in b.live =>
                  \/ c.ord[s].status \in Dead
                  \/ c.ord[s] = b.ord[s] /\ b.ord[s].place = "none"
<1> DEFINE g == b.ord[i].group
           s == Sibling(b, i)
           c == PullSibling(b, i)
           d == Cancel(b, s)
<1>1. s \in Ids /\ b.ord[s].bond = b.ord[i].bond /\ b.ord[g].bond = b.ord[i].bond /\ g \in Ids
  BY Siblings, SiblingTwice, Groups
<1>2. CASE g \notin b.live
  BY <1>1, <1>2 DEF PullSibling
<1>3. CASE g \in b.live
  <2>1. Sound(d) /\ d \in Book /\ b \in Book
    BY <1>1, CancelThins DEF Sound
  <2>2. /\ d.live = b.live
        /\ \A j \in Ids \ {s} : d.ord[j] = b.ord[j]
        /\ \/ d.ord[s].status \in Dead
           \/ d.ord[s] = b.ord[s] /\ b.ord[s].place = "none"
    BY <1>1, CancelTouches
  <2>3. c = [d EXCEPT !.live = @ \ {g}]
    BY <1>3 DEF PullSibling
  <2> HIDE DEF c, d, s
  <2>4. c.ord = d.ord /\ c.live = d.live \ {g}
    BY <2>1, <2>3 DEF Book
  <2>5. QED
    BY <1>1, <1>3, <2>2, <2>4 DEF c, s
<1>4. QED
  BY <1>2, <1>3

LEMMA QuoteHookTouches ==
  ASSUME NEW b, Sound(b), Paired(b), NEW i \in Ids
  PROVE  LET c == QuoteLegFilled(b, i)
         IN  /\ Sound(c) /\ SameBonds(b, c) /\ Paired(c) /\ Thinned(b, c)
             /\ \A j \in Ids : b.ord[j].bond # "quote" => c.ord[j] = b.ord[j]
             /\ \A g \in b.live \ c.live : b.ord[g].bond = "quote"
<1>1. Sound(QuoteLegFilled(b, i)) /\ Thinned(b, QuoteLegFilled(b, i))
  BY QuoteLegFilledThins
<1>2. SameBonds(b, QuoteLegFilled(b, i)) /\ Paired(QuoteLegFilled(b, i))
  BY <1>1, ThinnedTies, TiesStay
<1>3. \/ QuoteLegFilled(b, i) = b
      \/ b.ord[i].bond = "quote" /\ QuoteLegFilled(b, i) = PullSibling(b, i)
  BY DEF QuoteLegFilled
<1>4. QED
  BY <1>1, <1>2, <1>3, PullTouches

LEMMA OcoHookTouches ==
  ASSUME NEW b, Sound(b), Paired(b), NEW i \in Ids
  PROVE  LET c == OcoLegEnded(b, i)
         IN  /\ Sound(c) /\ SameBonds(b, c) /\ Paired(c) /\ Thinned(b, c)
             /\ \A j \in Ids : b.ord[j].bond # "oco" => c.ord[j] = b.ord[j]
             /\ \A g \in b.live \ c.live : b.ord[g].bond = "oco"
<1>1. Sound(OcoLegEnded(b, i)) /\ Thinned(b, OcoLegEnded(b, i))
  BY OcoLegEndedThins
<1>2. SameBonds(b, OcoLegEnded(b, i)) /\ Paired(OcoLegEnded(b, i))
  BY <1>1, ThinnedTies, TiesStay
<1>3. \/ OcoLegEnded(b, i) = b
      \/ b.ord[i].bond = "oco" /\ OcoLegEnded(b, i) = PullSibling(b, i)
  BY DEF OcoLegEnded
<1>4. QED
  BY <1>1, <1>2, <1>3, PullTouches

\* What a fill does to a quote is no business of the OCO pairs.
LEMMA QuoteHookKeepsLosers ==
  ASSUME NEW b, Sound(b), Paired(b), NEW i \in Ids, NEW a, NEW t, NEW X,
         Losers(b, a, t, {}, X)
  PROVE  Losers(QuoteLegFilled(b, i), a, t, {}, X)
<1> DEFINE c == QuoteLegFilled(b, i)
<1>1. /\ Sound(c) /\ SameBonds(b, c)
      /\ \A j \in Ids : b.ord[j].bond # "quote" => c.ord[j] = b.ord[j]
      /\ \A g \in b.live \ c.live : b.ord[g].bond = "quote"
  BY QuoteHookTouches
<1> HIDE DEF c
<1>2. \A g \in Ids : b.ord[g].bond = "oco" /\ g \in b.live => g \in c.live
  BY <1>1
<1>3. \A j \in Ids : TiedIn(b, j) /\ SpentIn(b, j, a, t, {}) => SpentIn(c, j, a, t, {})
  <2>1. SUFFICES ASSUME NEW j \in Ids, TiedIn(b, j), SpentIn(b, j, a, t, {})
                 PROVE  SpentIn(c, j, a, t, {})
    OBVIOUS
  <2>2. /\ c.ord[j] = b.ord[j] /\ Sibling(c, j) = Sibling(b, j)
        /\ c.ord[Sibling(b, j)] = b.ord[Sibling(b, j)]
    <3>1. b.ord[j].bond = "oco"
      BY <2>1 DEF TiedIn
    <3>2. Sibling(b, j) \in Ids /\ b.ord[Sibling(b, j)].bond = "oco"
      BY <3>1, Siblings, SiblingTwice
    <3>3. QED
      BY <1>1, <3>1, <3>2, TiesStay
  <2>3. QED
    BY <2>1, <2>2 DEF SpentIn
<1>4. \A j \in Ids : b.ord[j].bond = "oco" /\ c.ord[j].status \in Dead
                     => b.ord[j].status \in Dead \/ j \in X
  BY <1>1
<1>5. QED
  BY <1>1, <1>2, <1>3, <1>4, LosersKept DEF c

-----------------------------------------------------------------------------
(***************************************************************************)
(* The invariant.                                                          *)
(***************************************************************************)
Batch  == IF pc = "withdraw" THEN clearing ELSE {}
Ending == IF pc \in {"refuse", "settle"} THEN {cur} ELSE {}

\* The second leg of a pair waits for its turn under its own name; a batch that
\* a new quote set off holds the legs of that quote; a refused order is dead.
SecondLeg ==
  /\ todo # 0 => order(todo).bond # "none" /\ todo = order(todo).group + 1
  /\ pc = "withdraw" /\ todo # 0 => order(todo).bond = "quote" /\ order(cur).bond = "quote"
  /\ pc = "refuse" => order(cur).status \in Dead

\* A batch that cancels one leg of an OCO pair leaves nothing of the other.
WholePairs ==
  pc = "withdraw" =>
    \A i \in clearing : TiedIn(book, i) => SpentIn(book, Sibling(book, i), cur, todo, clearing)

PairInv ==
  /\ Paired(book) /\ SecondLeg /\ WholePairs
  /\ Losers(book, cur, todo, Batch, Ending)

\* No step changes what identifies an order it does not accept.
LEMMA TiesKept ==
  ASSUME IInv, Next
  PROVE  \/ \E r \in NewOrders : NewOrder(r)
         \/ \E l \in OcoPairs : OcoOrder(l)
         \/ \E l \in QuotePairs : QuoteNew(l)
         \/ SameBonds(book, book')
<1>1. ASSUME CalmBook(book, book') PROVE SameBonds(book, book')
  BY <1>1 DEF CalmBook, Calm, SameOrder, SameBonds, SameTies
<1>2. ASSUME NEW i \in Ids, NEW price \in AmendPrices, NEW qty \in AmendQtys,
             Amend(i, price, qty)
      PROVE  SameBonds(book, book')
  <2>1. /\ OthersSame(book, book', i)
        /\ SameTies(order(i), book'.ord[i])
    BY <1>2, AmendOrders DEF SameTies
  <2>2. QED
    BY <2>1 DEF OthersSame, SameBonds, SameTies, order
<1>3. ASSUME NEW p \in Ids, Trade(p)
      PROVE  SameBonds(book, book')
  <2>1. /\ cur \in Ids /\ SameOrder(order(cur), book'.ord[cur])
        /\ SameOrder(order(p), book'.ord[p])
        /\ \A i \in Ids \ {cur, p} : SameOrder(order(i), book'.ord[i])
    BY <1>3, TradeOrders DEF Calm
  <2>2. \A i \in Ids : SameOrder(order(i), book'.ord[i])
    BY <2>1
  <2>3. QED
    BY <2>2 DEF SameBonds, SameTies, SameOrder, order
<1>4. QED
  BY <1>1, <1>2, <1>3, StepKinds

LEMMA FinalStep ==
  ASSUME IInv, Next
  PROVE  Final
<1>1. [Final]_vars
  BY InvStep
<1>2. CASE UNCHANGED vars
  <2>1. \A i \in Ids : OrderSound(order(i)) /\ order(i) \in Order
    BY DEF IInv, Sound, Book, order
  <2>2. \A i \in Ids : order(i).status \in Dead => order(i).place \notin Held
    BY <2>1 DEF OrderSound, Dead, Working, Held
  <2>3. QED
    BY <1>2, <2>2 DEF vars, Final, order
<1>3. QED
  BY <1>1, <1>2

\* A new pair.
LEMMA AcceptedPaired ==
  ASSUME IInv, Paired(book), NEW l \in Request \X Request, NEW bond \in {"oco", "quote"},
         \/ bond = "oco" /\ l \in OcoPairs /\ OcoOrder(l)
         \/ bond = "quote" /\ l \in QuotePairs /\ QuoteNew(l)
  PROVE  /\ Paired(book')
         /\ \A i \in {born + 1, born + 2} :
              /\ book'.ord[i].bond = bond /\ book'.ord[i].group = born + 1
              /\ book'.ord[i].status = "NEW" /\ book'.ord[i].gw = l[1].gw
         /\ \A i \in Ids \ {born + 1, born + 2} :
              /\ book'.ord[i] = order(i) /\ Sibling(book', i) = Sibling(book, i)
              /\ order(i).bond # "none" => Sibling(book, i) \notin {born + 1, born + 2}
<1> DEFINE g == born + 1
<1>1. /\ g \in Ids /\ g + 1 \in Ids /\ g + 1 = born + 2 /\ g # g + 1
      /\ \A i \in {g, g + 1} : order(i).bond = "none"
      /\ book'.ord[g] = Accepted(l[1], bond, g)
      /\ book'.ord[g + 1] = Accepted(l[2], bond, g)
      /\ \A i \in Ids \ {g, g + 1} : book'.ord[i] = order(i)
  BY PairOrders, MaxOrdersAssumption DEF Ids, IInv, TypeOK
<1>2. l[1].gw = l[2].gw /\ l[1].smp = l[2].smp
  BY GatesAssumption
<1>3. \A i \in {g, g + 1} :
        /\ book'.ord[i].bond = bond /\ book'.ord[i].group = g /\ book'.ord[i].status = "NEW"
        /\ book'.ord[i].gw = l[1].gw /\ book'.ord[i].smp = l[1].smp
  BY <1>1, <1>2 DEF Accepted
<1>4. Sibling(book', g) = g + 1 /\ Sibling(book', g + 1) = g
  BY <1>1, <1>3, MaxOrdersAssumption DEF Sibling, Ids
<1>5. ASSUME NEW i \in Ids \ {g, g + 1}
      PROVE  /\ book'.ord[i] = order(i) /\ Sibling(book', i) = Sibling(book, i)
             /\ order(i).bond # "none" => Sibling(book, i) \in Ids \ {g, g + 1}
  <2>1. book'.ord[i] = order(i) /\ Sibling(book', i) = Sibling(book, i)
    BY <1>1 DEF Sibling, order
  <2>2. ASSUME order(i).bond # "none" PROVE Sibling(book, i) \in Ids \ {g, g + 1}
    <3>1. Sibling(book, i) \in Ids /\ order(Sibling(book, i)).bond = order(i).bond
      BY <2>2, Siblings, SiblingTwice DEF IInv, order
    <3>2. QED
      BY <1>1, <2>2, <3>1
  <2>3. QED
    BY <2>1, <2>2
<1>6. Paired(book')
  <2>1. SUFFICES ASSUME NEW i \in Ids
                 PROVE  /\ book'.ord[i].bond = "none" => book'.ord[i].group = 0
                        /\ book'.ord[i].bond # "none" =>
                             LET s == book'.ord[Sibling(book', i)]
                             IN  /\ s.bond = book'.ord[i].bond /\ s.group = book'.ord[i].group
                                 /\ s.gw = book'.ord[i].gw /\ s.smp = book'.ord[i].smp
    BY DEF Paired
  <2>2. CASE i \in {g, g + 1}
    <3>1. Sibling(book', i) \in {g, g + 1} /\ bond # "none"
      BY <1>4, <2>2
    <3>2. QED
      BY <1>3, <2>2, <3>1
  <2>3. CASE i \notin {g, g + 1}
    <3>1. /\ order(i).bond = "none" => order(i).group = 0
          /\ order(i).bond # "none" =>
                             LET s == order(Sibling(book, i))
                             IN  /\ s.bond = order(i).bond /\ s.group = order(i).group
                                 /\ s.gw = order(i).gw /\ s.smp = order(i).smp
      BY DEF Paired, order
    <3>2. book'.ord[i] = order(i) /\ Sibling(book', i) = Sibling(book, i)
      BY <1>5, <2>3
    <3>3. order(i).bond # "none" =>
            book'.ord[Sibling(book, i)] = order(Sibling(book, i))
      BY <1>1, <1>5, <2>3
    <3>4. QED
      BY <3>1, <3>2, <3>3
  <2>4. QED
    BY <2>2, <2>3
<1>7. QED
  BY <1>1, <1>3, <1>5, <1>6

LEMMA NewOrderPaired ==
  ASSUME IInv, Paired(book), NEW r \in NewOrders, NewOrder(r)
  PROVE  /\ Paired(book')
         /\ book'.ord[born + 1].bond = "none" /\ book'.ord[born + 1].status = "NEW"
         /\ \A i \in Ids \ {born + 1} :
              /\ book'.ord[i] = order(i) /\ Sibling(book', i) = Sibling(book, i)
              /\ order(i).bond # "none" => Sibling(book, i) # born + 1
<1>1. /\ born + 1 \in Ids /\ order(born + 1).bond = "none"
      /\ book'.ord[born + 1] = Accepted(r, "none", 0)
      /\ \A i \in Ids \ {born + 1} : book'.ord[i] = order(i)
  <2>1. /\ born + 1 \in Ids
        /\ book'.ord = [book.ord EXCEPT ![born + 1] = Accepted(r, "none", 0)]
        /\ book.ord \in [Ids -> Order] /\ born \in 0 .. MaxOrders
    BY NewOrderOrders DEF IInv, Sound, Book, TypeOK
  <2>2. order(born + 1).bond = "none"
    BY <2>1, MaxOrdersAssumption DEF IInv, Unborn, Ids
  <2>3. QED
    BY <2>1, <2>2 DEF order
<1>2. /\ book'.ord[born + 1].bond = "none" /\ book'.ord[born + 1].group = 0
      /\ book'.ord[born + 1].status = "NEW"
  BY <1>1 DEF Accepted
<1>3. ASSUME NEW i \in Ids \ {born + 1}
      PROVE  /\ Sibling(book', i) = Sibling(book, i)
             /\ order(i).bond # "none" => /\ Sibling(book, i) \in Ids \ {born + 1}
                                          /\ book'.ord[Sibling(book, i)] = order(Sibling(book, i))
  <2>1. Sibling(book', i) = Sibling(book, i)
    BY <1>1 DEF Sibling, order
  <2>2. ASSUME order(i).bond # "none" PROVE Sibling(book, i) \in Ids \ {born + 1}
    <3>1. Sibling(book, i) \in Ids /\ order(Sibling(book, i)).bond = order(i).bond
      BY <2>2, Siblings, SiblingTwice DEF IInv, order
    <3>2. QED
      BY <1>1, <2>2, <3>1
  <2>3. QED
    BY <1>1, <2>1, <2>2
<1>4. Paired(book')
  BY <1>1, <1>2, <1>3 DEF Paired, order
<1>5. QED
  BY <1>1, <1>2, <1>3, <1>4

\* Accepting orders costs no leg its registration.
LEMMA AcceptedKeepsLosers ==
  ASSUME IInv, PairInv, pc = "idle", NEW new \in SUBSET Ids,
         \A i \in Ids \ new :
           /\ book'.ord[i] = order(i) /\ Sibling(book', i) = Sibling(book, i)
           /\ order(i).bond # "none" => Sibling(book, i) \notin new,
         \A i \in new : TiedIn(book', i) => ~Lost(book', i, {}),
         \A g \in book.live : order(g).bond = "oco" => g \in book'.live,
         NEW a \in new \cup {0}, NEW t \in new \cup {0}, NEW C
  PROVE  Losers(book', a, t, C, {})
<1> SUFFICES ASSUME NEW i \in Ids, TiedIn(book', i), Lost(book', i, {})
             PROVE  SpentIn(book', i, a, t, C)
  BY DEF Losers
<1>1. /\ i \notin new /\ book'.ord[i] = order(i) /\ Sibling(book', i) = Sibling(book, i)
      /\ order(i).bond = "oco" /\ Sibling(book, i) \notin new
  BY DEF TiedIn
<1>2. /\ Sibling(book, i) \in Ids /\ order(i).group \in Ids
      /\ order(order(i).group).bond = "oco" /\ Sound(book)
  BY <1>1, Siblings, Groups DEF IInv, PairInv, order
<1>3. TiedIn(book, i) /\ Lost(book, i, {})
  BY <1>1, <1>2 DEF TiedIn, Lost, order
<1>4. Batch = {} /\ Ending = {} /\ cur = 0 /\ todo = 0
  BY IdleFacts DEF Batch, Ending
<1>5. SpentIn(book, i, 0, 0, {})
  BY <1>3, <1>4 DEF PairInv, Losers
<1>6. i # 0
  BY DEF Ids
<1>7. QED
  BY <1>1, <1>5, <1>6 DEF SpentIn, order

LEMMA NewOrderPairs ==
  ASSUME IInv, PairInv, NEW r \in NewOrders, NewOrder(r)
  PROVE  PairInv'
<1>1. /\ pc = "idle" /\ pc' = "process" /\ cur' = born + 1 /\ todo' = 0
      /\ {born + 1} \in SUBSET Ids /\ book'.live = book.live
  BY NewOrderOrders DEF NewOrder, Start
<1>2. /\ Paired(book')
      /\ book'.ord[born + 1].bond = "none"
      /\ \A i \in Ids \ {born + 1} :
              /\ book'.ord[i] = order(i) /\ Sibling(book', i) = Sibling(book, i)
              /\ order(i).bond # "none" => Sibling(book, i) # born + 1
  BY NewOrderPaired DEF PairInv
<1>3. Losers(book', born + 1, 0, {}, {})
  BY <1>1, <1>2, AcceptedKeepsLosers DEF TiedIn
<1>4. Batch' = {} /\ Ending' = {}
  BY <1>1 DEF Batch, Ending
<1>5. QED
  BY <1>1, <1>2, <1>3, <1>4 DEF PairInv, SecondLeg, WholePairs

LEMMA OcoOrderPairs ==
  ASSUME IInv, PairInv, NEW l \in OcoPairs, OcoOrder(l)
  PROVE  PairInv'
<1> DEFINE new == {born + 1, born + 2}
<1>1. l \in Request \X Request /\ "oco" \in {"oco", "quote"}
  BY RequestsAssumption
<1>2. /\ pc = "idle" /\ pc' = "process" /\ cur' = born + 1 /\ todo' = born + 2
      /\ new \in SUBSET Ids /\ book'.live = book.live \cup {born + 1} /\ born \in Nat
  <2>1. born + 1 \in Ids /\ born + 1 + 1 \in Ids /\ born \in Nat
    BY <1>1, PairOrders DEF IInv, TypeOK
  <2>2. born + 1 + 1 = born + 2
    BY <2>1
  <2>3. QED
    BY <1>1, <2>1, <2>2, PairOrders DEF OcoOrder, Start
<1>3. /\ Paired(book')
      /\ \A i \in new : /\ book'.ord[i].bond = "oco" /\ book'.ord[i].group = born + 1
                        /\ book'.ord[i].status = "NEW"
      /\ \A i \in Ids \ new :
              /\ book'.ord[i] = order(i) /\ Sibling(book', i) = Sibling(book, i)
              /\ order(i).bond # "none" => Sibling(book, i) \notin new
  BY <1>1, AcceptedPaired DEF PairInv
<1>4. \A i \in new : ~Lost(book', i, {})
  <2>1. SUFFICES ASSUME NEW i \in new PROVE ~Lost(book', i, {})
    OBVIOUS
  <2>2. Sibling(book', i) \in new
    BY <1>2, <1>3, <2>1 DEF Sibling
  <2>3. QED
    BY <1>2, <1>3, <2>1, <2>2 DEF Lost, Dead
<1>5. Losers(book', born + 1, born + 2, {}, {})
  <2> HIDE DEF new
  <2>1. born + 1 \in new \cup {0} /\ born + 2 \in new \cup {0}
    BY DEF new
  <2>2. QED
    BY <1>2, <1>3, <1>4, <2>1, AcceptedKeepsLosers
<1>6. Batch' = {} /\ Ending' = {}
  BY <1>2 DEF Batch, Ending
<1>7. QED
  BY <1>2, <1>3, <1>5, <1>6 DEF PairInv, SecondLeg, WholePairs, order

\* What replacing or withdrawing a quote cancels are quote legs.
LEMMA QuoteLegsAreQuotes ==
  ASSUME IInv, Paired(book), NEW gw, NEW i \in QuoteLegs(gw)
  PROVE  i \in Ids /\ order(i).bond = "quote" /\ order(i).gw = gw
<1>1. CASE i \in Orphans(gw)
  BY <1>1 DEF Orphans
<1>2. CASE i \in Ids /\ order(i).group \in QuoteOf(gw)
  <2>1. /\ order(i).group \in book.live
        /\ order(order(i).group).bond = "quote" /\ order(order(i).group).gw = gw
        /\ book.live \in SUBSET Ids
    BY <1>2 DEF QuoteOf, IInv, Sound, Book
  <2>2. order(order(i).group).group = order(i).group
    BY <2>1 DEF IInv, Registered
  <2>3. order(i).bond = order(order(i).group).bond /\ order(i).gw = order(order(i).group).gw
    BY <1>2, <2>1, <2>2, Groups DEF IInv, order
  <2>4. QED
    BY <1>2, <2>1, <2>3
<1>3. QED
  BY <1>1, <1>2 DEF QuoteLegs, Orphans

LEMMA QuoteNewPairs ==
  ASSUME IInv, PairInv, NEW l \in QuotePairs, QuoteNew(l)
  PROVE  PairInv'
<1> DEFINE new == {born + 1, born + 2}
<1>1. l \in Request \X Request /\ "quote" \in {"oco", "quote"}
  BY RequestsAssumption
<1>2. /\ pc = "idle" /\ pc' = "withdraw" /\ cur' = born + 1 /\ todo' = born + 2
      /\ clearing' = QuoteLegs(l[1].gw)
      /\ new \in SUBSET Ids /\ book'.live = book.live \ QuoteOf(l[1].gw) /\ born \in Nat
  <2>1. born + 1 \in Ids /\ born + 1 + 1 \in Ids /\ born \in Nat
    BY <1>1, PairOrders DEF IInv, TypeOK
  <2>2. born + 1 + 1 = born + 2
    BY <2>1
  <2>3. book'.live = book.live \ QuoteOf(l[1].gw)
    BY <1>1, PairOrders
  <2>4. QED
    BY <2>1, <2>2, <2>3 DEF QuoteNew
<1>3. /\ Paired(book')
      /\ \A i \in new : /\ book'.ord[i].bond = "quote" /\ book'.ord[i].group = born + 1
                        /\ book'.ord[i].status = "NEW"
      /\ \A i \in Ids \ new :
              /\ book'.ord[i] = order(i) /\ Sibling(book', i) = Sibling(book, i)
              /\ order(i).bond # "none" => Sibling(book, i) \notin new
  BY <1>1, AcceptedPaired DEF PairInv
<1>4. \A i \in new : ~TiedIn(book', i)
  BY <1>3 DEF TiedIn
<1>5. \A g \in book.live : order(g).bond = "oco" => g \in book'.live
  BY <1>2 DEF QuoteOf
<1>6. Losers(book', born + 1, born + 2, clearing', {})
  <2> HIDE DEF new
  <2>1. born + 1 \in new \cup {0} /\ born + 2 \in new \cup {0}
    BY DEF new
  <2>2. QED
    BY <1>2, <1>3, <1>4, <1>5, <2>1, AcceptedKeepsLosers
<1>7. Batch' = clearing' /\ Ending' = {}
  BY <1>2 DEF Batch, Ending
<1>8. \A i \in clearing' : ~TiedIn(book', i)
  <2>1. SUFFICES ASSUME NEW i \in QuoteLegs(l[1].gw) PROVE book'.ord[i].bond = "quote"
    BY <1>2 DEF TiedIn
  <2>2. i \in Ids /\ order(i).bond = "quote"
    BY QuoteLegsAreQuotes DEF PairInv
  <2>3. QED
    BY <1>3, <2>2
<1>9. SecondLeg' /\ WholePairs'
  BY <1>2, <1>3, <1>8 DEF SecondLeg, WholePairs, order
<1>10. QED
  BY <1>2, <1>3, <1>6, <1>7, <1>9 DEF PairInv

\* The pairs of an idle engine.
LEMMA IdlePairs ==
  ASSUME IInv, PairInv, pc = "idle"
  PROVE  /\ Losers(book, 0, 0, {}, {}) /\ Sound(book) /\ Paired(book)
         /\ cur = 0 /\ todo = 0 /\ 0 \notin Ids
         /\ \A i \in Ids : /\ order(i) \in Order /\ OrderSound(order(i))
                           /\ order(i).place # "triggered"
BY IdleFacts DEF PairInv, Batch, Ending, Ids, Sound, Book, order, IInv

\* A leg that an idle engine holds nowhere, or that is dead, is spent.
LEMMA IdleSpent ==
  ASSUME NEW i \in Ids, NEW b, NEW C,
         b.ord[i].place = "none" \/ b.ord[i].status \in Dead
  PROVE  SpentIn(b, i, 0, 0, C)
BY DEF SpentIn, Ids

\* A batch of cancels that takes no leg of an OCO pair without the other.
LEMMA BatchPairs ==
  ASSUME IInv, PairInv, pc = "idle", pc' = "withdraw", cur' = cur, todo' = todo,
         book'.ord = book.ord,
         \A g \in book.live : order(g).bond = "oco" => g \in book'.live,
         WholePairs'
  PROVE  PairInv'
<1>1. /\ Losers(book, 0, 0, {}, {}) /\ Sound(book) /\ Paired(book)
      /\ cur' = 0 /\ todo' = 0
  BY IdlePairs
<1>2. SameBonds(book, book') /\ Paired(book')
  BY <1>1, TiesStay DEF SameBonds, SameTies
<1>3. Batch' = clearing' /\ Ending' = {}
  BY DEF Batch, Ending
<1>4. \A i \in Ids : SpentIn(book, i, 0, 0, {}) => SpentIn(book', i, 0, 0, clearing')
  BY DEF SpentIn, Sibling, Ids
<1>5. Losers(book', 0, 0, clearing', {})
  BY <1>1, <1>2, <1>4, LosersKept DEF order
<1>6. QED
  BY <1>1, <1>2, <1>3, <1>5 DEF PairInv, SecondLeg

LEMMA QuoteCancelPairs ==
  ASSUME IInv, PairInv, NEW gw, QuoteCancel(gw)
  PROVE  PairInv'
<1>1. /\ pc = "idle" /\ pc' = "withdraw" /\ cur' = cur /\ todo' = todo
      /\ clearing' = QuoteLegs(gw)
      /\ book'.ord = book.ord /\ book'.live = book.live \ QuoteOf(gw)
  <2>1. book \in Book
    BY DEF IInv, Sound
  <2>2. QED
    BY <2>1 DEF QuoteCancel, Book
<1>2. \A g \in book.live : order(g).bond = "oco" => g \in book'.live
  BY <1>1 DEF QuoteOf
<1>3. WholePairs'
  <2>1. SUFFICES ASSUME NEW i \in QuoteLegs(gw) PROVE ~TiedIn(book', i)
    BY <1>1 DEF WholePairs
  <2>2. order(i).bond = "quote"
    BY QuoteLegsAreQuotes DEF PairInv
  <2>3. QED
    BY <1>1, <2>2 DEF TiedIn, order
<1>4. QED
  BY <1>1, <1>2, <1>3, BatchPairs

LEMMA KillSwitchPairs ==
  ASSUME IInv, PairInv, NEW gw, KillSwitch(gw)
  PROVE  PairInv'
<1>1. /\ pc = "idle" /\ pc' = "withdraw" /\ cur' = cur /\ todo' = todo
      /\ clearing' = {i \in Ids : order(i).place \in Held /\ order(i).gw = gw /\ Routed(i)}
      /\ book'.ord = book.ord /\ book'.live = book.live \ QuoteOf(gw)
  <2>1. book \in Book
    BY DEF IInv, Sound
  <2>2. QED
    BY <2>1 DEF KillSwitch, Book
<1>2. \A g \in book.live : order(g).bond = "oco" => g \in book'.live
  BY <1>1 DEF QuoteOf
<1>3. WholePairs'
  <2>1. SUFFICES ASSUME NEW i \in clearing', TiedIn(book', i)
                 PROVE  SpentIn(book', Sibling(book', i), 0, 0, clearing')
    BY <1>1, IdlePairs DEF WholePairs
  <2>2. /\ i \in Ids /\ order(i).bond = "oco" /\ order(i).gw = gw /\ Routed(i)
        /\ Sibling(book', i) = Sibling(book, i)
    BY <1>1, <2>1 DEF TiedIn, Sibling, order
  <2> DEFINE s == Sibling(book, i)
  <2>3. /\ s \in Ids /\ order(s).bond = "oco" /\ order(s).gw = gw
        /\ order(s).group = order(i).group
    <3>1. Sound(book) /\ Paired(book) /\ book.ord[i].bond # "none"
      BY <1>1, <2>2, IdlePairs DEF order
    <3>2. s \in Ids
      BY <2>2, <3>1, Siblings
    <3>3. QED
      BY <2>2, <3>1, <3>2 DEF Paired, order
  <2>4. Routed(s)
    BY <2>2, <2>3 DEF Routed
  <2>5. order(s) \in Order /\ order(s).place # "triggered"
    BY <1>1, <2>3, IdlePairs
  <2>6. s \in clearing' \/ order(s).place = "none"
    BY <1>1, <2>3, <2>4, <2>5 DEF Order, Places, Held
  <2>7. book'.ord[s] = order(s)
    BY <1>1 DEF order
  <2> HIDE DEF s
  <2>8. SpentIn(book', s, 0, 0, clearing')
    BY <2>3, <2>6, <2>7 DEF SpentIn, Ids
  <2>9. QED
    BY <2>2, <2>8 DEF s
<1>4. QED
  BY <1>1, <1>2, <1>3, BatchPairs

\* A cancelled order reports its end at once.
LEMMA CancelReported ==
  ASSUME NEW b, Sound(b), Paired(b), NEW i \in Ids, NEW a, NEW t, NEW X,
         Losers(b, a, t, {}, X), b.ord[i].place # "none",
         TiedIn(b, i) /\ Sibling(b, i) = a => b.ord[Sibling(b, i)].status \in Dead
  PROVE  /\ Losers(SmpCancel(b, i), a, t, {}, X)
         /\ SameBonds(b, SmpCancel(b, i)) /\ Paired(SmpCancel(b, i))
         /\ Sound(SmpCancel(b, i)) /\ Thinned(b, SmpCancel(b, i))
<1> DEFINE c == Cancel(b, i)
<1>1. Sound(c) /\ Thinned(b, c)
  BY CancelThins
<1>2. SameBonds(b, c) /\ Paired(c)
  BY <1>1, ThinnedTies, TiesStay
<1>3. /\ c.live = b.live
      /\ \A j \in Ids \ {i} : c.ord[j] = b.ord[j]
      /\ c.ord[i].status \in Dead
      /\ b.ord[i].status \in Dead => c.ord[i] = b.ord[i]
  <2>1. /\ c.live = b.live
        /\ \A j \in Ids \ {i} : c.ord[j] = b.ord[j]
        /\ c.ord[i].status \in Dead
    BY CancelTouches
  <2>2. b.ord[i].status \in Dead => c.ord[i] = b.ord[i]
    BY <1>1, ThinnedTies
  <2>3. QED
    BY <2>1, <2>2
<1> HIDE DEF c
<1>4. Losers(c, a, t, {}, X \cup {i})
  <2>1. \A j \in Ids : TiedIn(b, j) /\ SpentIn(b, j, a, t, {}) => SpentIn(c, j, a, t, {})
    <3>1. SUFFICES ASSUME NEW j \in Ids, TiedIn(b, j), SpentIn(b, j, a, t, {})
                   PROVE  SpentIn(c, j, a, t, {})
      OBVIOUS
    <3>2. Sibling(c, j) = Sibling(b, j) /\ Sibling(b, j) \in Ids
      BY <1>1, <1>2, <3>1, TiesStay, Siblings DEF TiedIn
    <3>3. b.ord[Sibling(b, j)].status \in Dead => c.ord[Sibling(b, j)].status \in Dead
      BY <1>3, <3>2
    <3>4. QED
      BY <1>3, <3>1, <3>2, <3>3 DEF SpentIn
  <2>2. QED
    BY <1>2, <1>3, <2>1, LosersKept
<1>5. TiedIn(c, i) /\ Sibling(c, i) = a => c.ord[Sibling(c, i)].status \in Dead
  <2>1. TiedIn(c, i) => TiedIn(b, i) /\ Sibling(c, i) = Sibling(b, i) /\ Sibling(b, i) \in Ids
    BY <1>2, TiesStay, Siblings DEF TiedIn
  <2>2. QED
    BY <1>3, <2>1
<1>6. Losers(OcoLegEnded(c, i), a, t, {}, (X \cup {i}) \ {i})
  BY <1>1, <1>2, <1>4, <1>5, OcoEndReported
<1>7. \A Y, Z : Y \subseteq Z /\ Losers(OcoLegEnded(c, i), a, t, {}, Y)
                   => Losers(OcoLegEnded(c, i), a, t, {}, Z)
  BY DEF Losers, Lost
<1>8. /\ Losers(OcoLegEnded(c, i), a, t, {}, X)
      /\ SameBonds(c, OcoLegEnded(c, i)) /\ Paired(OcoLegEnded(c, i))
  BY <1>1, <1>2, <1>6, <1>7, OcoHookTouches
<1>9. SameBonds(b, OcoLegEnded(c, i))
  BY <1>2, <1>8 DEF SameBonds, SameTies
<1>10. QED
  BY <1>8, <1>9, SmpCancelThins DEF SmpCancel, c

\* What PairInv says when the handler stands at a message or processes.
LEMMA PlainPairs ==
  ASSUME pc' \notin {"withdraw", "refuse", "settle"}, Paired(book'),
         Losers(book', cur', todo', {}, {}),
         todo' # 0 => book'.ord[todo'].bond # "none" /\ todo' = book'.ord[todo'].group + 1
  PROVE  PairInv'
BY DEF PairInv, Batch, Ending, SecondLeg, WholePairs, order

LEMMA CancelOrderPairs ==
  ASSUME IInv, PairInv, NEW i \in Ids, CancelOrder(i)
  PROVE  PairInv'
<1>1. /\ pc = "idle" /\ pc' = "idle" /\ cur' = 0 /\ todo' = 0
      /\ book' = SmpCancel(book, i) /\ book.ord[i].place # "none"
  BY IdleFacts DEF CancelOrder, dispatch, SmpCancel, order, Held
<1>2. /\ Losers(book, 0, 0, {}, {}) /\ Sound(book) /\ Paired(book) /\ 0 \notin Ids
  BY <1>1, IdlePairs
<1>3. TiedIn(book, i) /\ Sibling(book, i) = 0 => book.ord[Sibling(book, i)].status \in Dead
  BY <1>2, Siblings DEF TiedIn
<1>4. Losers(book', 0, 0, {}, {}) /\ Paired(book')
  BY <1>1, <1>2, <1>3, CancelReported
<1>5. QED
  BY <1>1, <1>4, PlainPairs

LEMMA OcoCancelTouches ==
  ASSUME IInv, Paired(book), NEW g \in Ids, OcoCancel(g)
  PROVE  /\ pc = "idle" /\ pc' = "idle" /\ cur' = 0 /\ todo' = 0
         /\ g \in book.live /\ order(g).bond = "oco" /\ order(g).group = g
         /\ g \in Nat /\ Sibling(book, g) = g + 1 /\ g + 1 \in Ids
         /\ SameBonds(book, book') /\ book'.live = book.live \ {g}
         /\ \A i \in Ids \ {g, g + 1} : book'.ord[i] = book.ord[i]
         /\ \A i \in {g, g + 1} : book'.ord[i].status \in Dead \/ book'.ord[i].place = "none"
<1> DEFINE c == Cancel(book, g)
           d == Cancel(c, g + 1)
<1>1. /\ pc = "idle" /\ pc' = "idle" /\ cur' = 0 /\ todo' = 0
      /\ g \in book.live /\ order(g).bond = "oco" /\ order(g).group = g
      /\ Sound(book)
  BY IdleFacts DEF OcoCancel, dispatch, IInv, Registered
<1>2. g \in Nat /\ Sibling(book, g) = g + 1 /\ g + 1 \in Ids
  <2>1. {g, Sibling(book, g)} = {g, g + 1} /\ Sibling(book, g) # g /\ g \in Nat /\ Sibling(book, g) \in Ids
    BY <1>1, Siblings DEF order
  <2>2. QED
    BY <2>1
<1>3. /\ Sound(c) /\ Thinned(book, c) /\ c.live = book.live
      /\ \A i \in Ids \ {g} : c.ord[i] = book.ord[i]
      /\ c.ord[g].status \in Dead \/ c.ord[g].place = "none"
  BY <1>1, CancelTouches
<1>4. /\ Sound(d) /\ Thinned(c, d) /\ d.live = c.live
      /\ \A i \in Ids \ {g + 1} : d.ord[i] = c.ord[i]
      /\ d.ord[g + 1].status \in Dead \/ d.ord[g + 1].place = "none"
  <2>1. PICK j \in Ids : j = g + 1
    BY <1>2
  <2> DEFINE e == Cancel(c, j)
  <2>2. e = d
    BY <2>1
  <2> HIDE DEF c
  <2>3. /\ Sound(e) /\ Thinned(c, e) /\ e.live = c.live
        /\ \A i \in Ids \ {j} : e.ord[i] = c.ord[i]
        /\ e.ord[j].status \in Dead \/ e.ord[j].place = "none"
    BY <1>3, CancelTouches
  <2> HIDE DEF d, e
  <2>4. QED
    BY <2>1, <2>2, <2>3
<1>5. book'.ord = d.ord /\ book'.live = book.live \ {g}
  <2>1. book' = [d EXCEPT !.live = @ \ {g}]
    BY DEF OcoCancel
  <2>2. d \in Book
    BY <1>4 DEF Sound
  <2> HIDE DEF d
  <2>3. QED
    BY <1>3, <1>4, <2>1, <2>2 DEF Book
<1> HIDE DEF c, d
<1>6. SameBonds(book, book')
  BY <1>1, <1>3, <1>4, <1>5, ThinnedTies DEF SameBonds, SameTies
<1>7. /\ \A i \in Ids \ {g, g + 1} : book'.ord[i] = book.ord[i]
      /\ \A i \in {g, g + 1} : book'.ord[i].status \in Dead \/ book'.ord[i].place = "none"
  <2>1. g # g + 1
    BY <1>2
  <2>2. QED
    BY <1>2, <1>3, <1>4, <1>5, <2>1
<1>8. QED
  BY <1>1, <1>2, <1>5, <1>6, <1>7

LEMMA OcoCancelPairs ==
  ASSUME IInv, PairInv, NEW g \in Ids, OcoCancel(g)
  PROVE  PairInv'
<1>1. /\ pc = "idle" /\ Losers(book, 0, 0, {}, {}) /\ Sound(book) /\ Paired(book)
  BY IdlePairs DEF OcoCancel
<1>2. /\ pc' = "idle" /\ cur' = 0 /\ todo' = 0
      /\ g \in book.live /\ order(g).bond = "oco" /\ order(g).group = g
      /\ g \in Nat /\ Sibling(book, g) = g + 1 /\ g + 1 \in Ids
  BY <1>1, OcoCancelTouches
<1>3. book'.live = book.live \ {g}
  BY <1>1, OcoCancelTouches
<1>4. SameBonds(book, book')
  BY <1>1, OcoCancelTouches
<1>5. /\ \A i \in Ids \ {g, g + 1} : book'.ord[i] = book.ord[i]
      /\ \A i \in {g, g + 1} : book'.ord[i].status \in Dead \/ book'.ord[i].place = "none"
  BY <1>1, OcoCancelTouches
<1>6. Losers(book', 0, 0, {}, {})
  <2>1. SUFFICES ASSUME NEW i \in Ids, TiedIn(book', i), Lost(book', i, {})
                 PROVE  SpentIn(book', i, 0, 0, {})
    BY DEF Losers
  <2>2. /\ TiedIn(book, i) /\ Sibling(book', i) = Sibling(book, i) /\ book.ord[i].bond # "none"
        /\ book'.ord[i].group = book.ord[i].group
    BY <1>1, <1>2, <1>4, <2>1, TiesStay DEF TiedIn, SameBonds, SameTies
  <2>3. CASE i \in {g, g + 1}
    BY <1>5, <2>3, IdleSpent
  <2>4. CASE i \notin {g, g + 1}
    <3>1. Sibling(book, i) \in Ids /\ Sibling(book, i) \notin {g, g + 1} /\ book.ord[i].group # g
      <4>1. book.ord[i].group # g
        <5>1. ASSUME book.ord[i].group = g PROVE FALSE
          <6>1. Sound(book) /\ Paired(book) /\ g \in Ids /\ book.ord[g].bond # "none"
                /\ book.ord[i].group = book.ord[g].group
            BY <1>1, <1>2, <5>1 DEF order
          <6>2. i \in {g, Sibling(book, g)}
            BY <6>1, Groups
          <6>3. QED
            BY <1>2, <2>4, <6>2
        <5>2. QED
          BY <5>1
      <4>2. /\ Sibling(book, i) \in Ids
            /\ book.ord[Sibling(book, i)].group = book.ord[i].group
            /\ book.ord[g].group = g /\ book.ord[g + 1].group = g
        BY <1>1, <1>2, <2>2, Siblings DEF Paired, order
      <4>3. QED
        BY <4>1, <4>2
    <3>2. Lost(book, i, {})
      BY <1>3, <1>5, <2>1, <2>2, <3>1 DEF Lost
    <3>3. SpentIn(book, i, 0, 0, {})
      BY <1>1, <1>2, <2>2, <3>2 DEF Losers
    <3>4. QED
      BY <1>5, <2>2, <2>4, <3>1, <3>3 DEF SpentIn
  <2>5. QED
    BY <2>3, <2>4
<1>7. QED
  BY <1>1, <1>2, <1>4, <1>6, PlainPairs, TiesStay

LEMMA AmendPairs ==
  ASSUME IInv, PairInv, NEW i \in Ids, NEW price \in AmendPrices, NEW qty \in AmendQtys,
         Amend(i, price, qty)
  PROVE  PairInv'
<1> DEFINE n == book'.ord[i]
<1>1. /\ order(i).place = "book" /\ order(i).status \in Working
      /\ OthersSame(book, book', i) /\ book'.live = book.live
      /\ SameTies(order(i), n) /\ n.status \in Working
      /\ \/ UNCHANGED dispatch
         \/ Start(i, 0)
  BY AmendOrders DEF SameTies
<1>2. /\ pc = "idle" /\ Losers(book, 0, 0, {}, {}) /\ Sound(book) /\ Paired(book)
      /\ cur = 0 /\ todo = 0
  BY IdlePairs DEF Amend
<1>3. SameBonds(book, book')
  BY <1>1 DEF OthersSame, SameBonds, SameTies, order
<1>4. pc' \in {"idle", "process"} /\ cur' \in {0, i} /\ todo' = 0
  BY <1>1, <1>2 DEF dispatch, Start
<1>5. ~SpentIn(book, i, 0, 0, {})
  BY <1>1 DEF SpentIn, Dead, Working, order
<1>6. ASSUME NEW j \in Ids, SpentIn(book, j, 0, 0, {})
      PROVE  SpentIn(book', j, cur', 0, {})
  <2>1. j # i /\ book'.ord[j] = book.ord[j] /\ j # 0
    BY <1>1, <1>5, <1>6 DEF OthersSame, Ids
  <2>2. QED
    BY <1>4, <1>6, <2>1 DEF SpentIn
<1>7. \A j \in Ids : book'.ord[j].status \in Dead => book.ord[j].status \in Dead
  BY <1>1 DEF OthersSame, Dead, Working
<1>8. Losers(book', cur', 0, {}, {})
  BY <1>1, <1>2, <1>3, <1>6, <1>7, LosersKept
<1>9. QED
  BY <1>2, <1>3, <1>4, <1>8, PlainPairs, TiesStay

LEMMA CalmBonds ==
  ASSUME NEW b, NEW c, CalmBook(b, c)
  PROVE  SameBonds(b, c)
BY DEF CalmBook, Calm, SameOrder, SameBonds, SameTies

\* The steps that rewrite the order in hand alone.
EditsCur ==
  DropCancelled \/ RestUnmatched \/ ArmStop \/ TriggerOnEntry \/ StartSweep \/ RefuseFok
  \/ SweepEnds

LEMMA CurEdited ==
  ASSUME IInv, EditsCur
  PROVE  /\ cur \in Ids /\ OthersSame(book, book', cur) /\ book'.live = book.live
         /\ cur' = cur /\ todo' = todo
         /\ pc = "process" /\ pc' \in {"next", "sweep"}
              => book'.ord[cur].status = order(cur).status
         /\ pc' = "refuse" => book'.ord[cur].status \in Dead
         /\ \/ pc = "process" /\ pc' \in {"next", "sweep", "refuse"}
            \/ pc = "sweep" /\ pc' = "settle"
<1>1. /\ cur \in Ids /\ book \in Book /\ order(cur) \in Order /\ last \in Int
      /\ OrderSound(order(cur))
  BY PricesAssumption
     DEF IInv, TypeOK, HandlerOK, NoPrice, Sound, Book, EditsCur, DropCancelled, RestUnmatched,
         ArmStop, TriggerOnEntry, StartSweep, RefuseFok, SweepEnds, Processing, order
<1>2. ASSUME NEW n, book' = [book EXCEPT !.ord[cur] = n]
      PROVE  OthersSame(book, book', cur) /\ book'.live = book.live /\ book'.ord[cur] = n
  BY <1>1, <1>2 DEF OthersSame, Book
<1>3. CASE DropCancelled
  <2> DEFINE n == [order(cur) EXCEPT !.place = "none", !.turn = 0]
  <2>1. book' = [book EXCEPT !.ord[cur] = n] /\ n.status = order(cur).status
    BY <1>1, <1>3 DEF DropCancelled, order, Book, Order
  <2>2. QED
    BY <1>1, <1>2, <1>3, <2>1 DEF DropCancelled
<1>4. CASE RestUnmatched
  <2>1. /\ order(cur).place = "none" /\ order(cur).status \in Working
        /\ order(cur).kind \in Restable /\ book' = Rest(book, cur) /\ Sound(book)
    BY <1>4, ProcessingFacts DEF RestUnmatched
  <2>2. /\ OthersSame(book, book', cur) /\ book'.live = book.live
        /\ book'.ord[cur].status = order(cur).status
    BY <1>1, <2>1, RestSound DEF order
  <2>3. QED
    BY <1>1, <1>4, <2>2 DEF RestUnmatched, Processing
<1>5. CASE ArmStop \/ TriggerOnEntry \/ StartSweep
  <2> DEFINE m == Resolved(order(cur))
  <2>1. m.status = order(cur).status /\ m \in Order
    BY <1>1, ResolvedSound
  <2>2. \/ \E n : /\ book' = [book EXCEPT !.ord[cur] = n]
                  /\ n \in {m, Converted(m), [m EXCEPT !.place = "trailing"]}
        \/ book' = [book EXCEPT !.ord[cur] = [m EXCEPT !.place = "armed", !.seq = book.seq + 1],
                                !.seq = @ + 1]
    BY <1>1, <1>5 DEF ArmStop, TriggerOnEntry, StartSweep, order
  <2> HIDE DEF m
  <2>3. /\ \A n \in {m, Converted(m), [m EXCEPT !.place = "trailing"]} :
             n.status = m.status
        /\ [m EXCEPT !.place = "armed", !.seq = book.seq + 1].status = m.status
    BY <2>1 DEF Converted, Order
  <2>4. OthersSame(book, book', cur) /\ book'.live = book.live
        /\ book'.ord[cur].status = order(cur).status
    BY <1>1, <2>1, <2>2, <2>3 DEF OthersSame, Book
  <2>5. QED
    BY <1>1, <1>5, <2>4 DEF ArmStop, TriggerOnEntry, StartSweep, Processing
<1>6. CASE RefuseFok
  <2>1. PICK status \in {"CANCELLED", "REJECTED"} :
          book' = [book EXCEPT !.ord[cur].status = status]
    BY <1>6 DEF RefuseFok
  <2>2. /\ OthersSame(book, book', cur) /\ book'.live = book.live
        /\ book'.ord[cur].status = status
    BY <1>1, <2>1 DEF OthersSame, Book, Order, order
  <2>3. QED
    BY <1>1, <1>6, <2>2 DEF RefuseFok, Processing, Dead
<1>7. CASE SweepEnds
  <2>1. OthersSame(book, book', cur) /\ book'.live = book.live
    <3>1. CASE order(cur).rem = 0
      BY <1>7, <3>1 DEF SweepEnds, OthersSame
    <3>2. CASE order(cur).rem # 0 /\ order(cur).kind \in Restable
      <4>1. /\ book' = Rest(book, cur) /\ order(cur).place = "none"
            /\ order(cur).status \in Working /\ Sound(book)
        BY <1>1, <1>7, <3>2 DEF SweepEnds, IInv, HandlerOK, Order
      <4>2. QED
        BY <1>1, <3>2, <4>1, RestSound DEF order
    <3>3. CASE order(cur).rem # 0 /\ order(cur).kind \notin Restable
      <4>1. book' = [book EXCEPT !.ord[cur].status = "CANCELLED"]
        BY <1>7, <3>3 DEF SweepEnds
      <4>2. QED
        BY <1>1, <4>1 DEF OthersSame, Book
    <3>4. QED
      BY <3>1, <3>2, <3>3
  <2>2. QED
    BY <1>1, <1>7, <2>1 DEF SweepEnds
<1>8. QED
  BY <1>3, <1>4, <1>5, <1>6, <1>7 DEF EditsCur

LEMMA CurEditedPairs ==
  ASSUME IInv, PairInv, Final, EditsCur
  PROVE  PairInv'
<1>1. /\ cur \in Ids /\ OthersSame(book, book', cur) /\ book'.live = book.live
      /\ cur' = cur /\ todo' = todo
      /\ pc = "process" /\ pc' \in {"next", "sweep"}
              => book'.ord[cur].status = order(cur).status
      /\ pc' = "refuse" => book'.ord[cur].status \in Dead
      /\ \/ pc = "process" /\ pc' \in {"next", "sweep", "refuse"}
         \/ pc = "sweep" /\ pc' = "settle"
  BY CurEdited
<1>2. SameBonds(book, book')
  BY ProcessingCalm, HandlingCalm, CalmBonds DEF EditsCur
<1>3. /\ Batch = {} /\ Batch' = {} /\ Ending = {}
      /\ Ending' \subseteq {cur}
      /\ book'.ord[cur].status \in Dead => order(cur).status \in Dead \/ cur \in Ending'
  BY <1>1 DEF Batch, Ending
<1>4. Sound(book) /\ Paired(book) /\ Losers(book, cur, todo, {}, {})
  BY <1>3 DEF IInv, PairInv
<1>5. ASSUME NEW i \in Ids, TiedIn(book, i), SpentIn(book, i, cur, todo, {})
      PROVE  SpentIn(book', i, cur, todo, {})
  <2>1. /\ \A j \in Ids : order(j).status \in Dead => book'.ord[j].status \in Dead
        /\ Sibling(book', i) = Sibling(book, i) /\ Sibling(book, i) \in Ids
    BY <1>2, <1>4, <1>5, TiesStay, Siblings DEF Final, TiedIn
  <2>2. CASE i = cur
    BY <1>5, <2>1, <2>2 DEF SpentIn, order
  <2>3. CASE i # cur
    BY <1>1, <1>5, <2>1, <2>3 DEF SpentIn, order, OthersSame
  <2>4. QED
    BY <2>2, <2>3
<1>6. Losers(book', cur, todo, {}, Ending')
  <2>1. \A i \in Ids : book'.ord[i].status \in Dead => book.ord[i].status \in Dead \/ i \in Ending'
    BY <1>1, <1>3 DEF OthersSame, order
  <2> HIDE DEF Ending
  <2>2. QED
    BY <1>1, <1>2, <1>4, <1>5, <2>1, LosersKept
<1>7. SecondLeg'
  <2>1. todo # 0 => todo \in Ids
    BY DEF IInv, HandlerOK, InHand
  <2>2. todo # 0 => book'.ord[todo].bond = order(todo).bond
                    /\ book'.ord[todo].group = order(todo).group
    BY <1>2, <2>1 DEF SameBonds, SameTies, order
  <2>3. QED
    BY <1>1, <2>2 DEF PairInv, SecondLeg, order
<1>8. QED
  BY <1>1, <1>2, <1>3, <1>4, <1>6, <1>7, TiesStay DEF PairInv, WholePairs

\* Steps that move the handler and leave every order alone.
LEMMA SameOrdersPairs ==
  ASSUME IInv, PairInv, book'.ord = book.ord,
         \A g \in book.live : order(g).bond = "oco" => g \in book'.live,
         pc' \notin {"withdraw", "refuse", "settle"} \/ (pc' = "settle" /\ cur' = cur),
         clearing = {} \/ pc # "withdraw",
         todo' \in {todo, 0},
         \A i \in Ids : order(i).bond = "oco" /\ i = cur' /\ order(i).place = "none"
                        => i = cur \/ order(i).status \in Dead
                           \/ (i = todo /\ order(Sibling(book, i)).status \notin Dead),
         pc \in {"refuse", "settle"} => pc' = "settle"
  PROVE  PairInv'
<1>1. /\ Sound(book) /\ Paired(book) /\ Batch = {} /\ Batch' = {}
      /\ Losers(book, cur, todo, {}, Ending)
  BY DEF IInv, PairInv, Batch
<1>2. SameBonds(book, book') /\ Ending \subseteq Ending'
  BY DEF SameBonds, SameTies, Ending
<1>3. ASSUME NEW i \in Ids, TiedIn(book, i), SpentIn(book, i, cur, todo, {})
      PROVE  SpentIn(book', i, cur', todo', {})
  <2>1. order(i).bond = "oco" /\ Sibling(book', i) = Sibling(book, i)
    BY <1>3 DEF TiedIn, Sibling, order
  <2>2. i # 0
    BY DEF Ids
  <2>3. QED
    BY <1>3, <2>1, <2>2 DEF SpentIn, order
<1>4. Losers(book', cur', todo', {}, Ending')
  <2> HIDE DEF Ending
  <2>1. QED
    BY <1>1, <1>2, <1>3, LosersKept DEF order
<1>5. SecondLeg'
  BY DEF PairInv, SecondLeg, order
<1>6. QED
  BY <1>1, <1>2, <1>4, <1>5, TiesStay DEF PairInv, WholePairs

LEMMA HandlerMovesPairs ==
  ASSUME IInv, PairInv,
         \/ HandlerRaises \/ Refused \/ Withdrawn
         \/ \E i \in Ids : RunStop(i)
         \/ PostSecondLeg \/ HandlerReturns
  PROVE  PairInv'
<1>1. book \in Book /\ 0 \notin Ids
  BY DEF IInv, Sound, Ids
<1>2. CASE HandlerRaises
  BY <1>1, <1>2, SameOrdersPairs DEF HandlerRaises, Processing, Ending
<1>3. CASE Refused
  BY <1>1, <1>3, SameOrdersPairs DEF Refused, Ending
<1>4. CASE Withdrawn
  <2>1. /\ book'.ord = book.ord /\ book.live \subseteq book'.live
    BY <1>1, <1>4 DEF Withdrawn, Book
  <2>2. pc = "withdraw" /\ clearing = {} /\ pc' \in {"idle", "process"} /\ cur' = cur /\ todo' = todo
    BY <1>4 DEF Withdrawn
  <2>3. QED
    BY <2>1, <2>2, SameOrdersPairs
<1>5. ASSUME NEW i \in Ids, RunStop(i) PROVE PairInv'
  <2>1. /\ book' = book /\ pc = "next" /\ pc' = "process" /\ cur' = i /\ todo' = todo
        /\ order(i).place = "triggered"
    BY <1>5 DEF RunStop, Waiting
  <2>2. QED
    BY <2>1, SameOrdersPairs
<1>6. CASE PostSecondLeg
  <2>1. /\ book' = book /\ pc = "next" /\ pc' = "process" /\ cur' = todo /\ todo' = 0
        /\ todo \in Ids /\ ~Stillborn(todo)
    BY <1>6 DEF PostSecondLeg, IInv, HandlerOK, InHand
  <2>2. order(todo).bond # "none" /\ todo = order(todo).group + 1
    BY <2>1 DEF PairInv, SecondLeg, Ids
  <2>3. Sibling(book, todo) = todo - 1
    <3>1. book.ord[todo].group \in Nat
      BY <2>1, <2>2, Siblings DEF IInv, order
    <3>2. QED
      BY <2>2, <3>1 DEF Sibling, order
  <2>4. order(todo).bond = "oco" => order(Sibling(book, todo)).status \notin Dead
    BY <2>1, <2>3 DEF Stillborn
  <2>5. QED
    BY <2>1, <2>4, SameOrdersPairs
<1>7. CASE HandlerReturns
  BY <1>1, <1>7, SameOrdersPairs DEF HandlerReturns
<1>8. QED
  BY <1>2, <1>3, <1>4, <1>5, <1>6, <1>7

\* A rejected order reports its end at once.
LEMMA RejectImmediatePairs ==
  ASSUME IInv, PairInv, RejectImmediate
  PROVE  PairInv'
<1> DEFINE c == [book EXCEPT !.ord[cur].status = "REJECTED"]
<1>1. /\ cur \in Ids /\ order(cur).place = "none" /\ order(cur).status \in Working
      /\ Sound(book) /\ Paired(book) /\ book' = OcoLegEnded(c, cur)
      /\ pc = "process" /\ pc' = "next" /\ cur' = cur /\ todo' = todo
      /\ Losers(book, cur, todo, {}, {})
  BY ProcessingFacts DEF RejectImmediate, Processing, PairInv, Batch, Ending
<1>2. /\ Sound(c) /\ OthersSame(book, c, cur) /\ SameOrder(book.ord[cur], c.ord[cur])
      /\ c.live = book.live /\ c.ord[cur].status = "REJECTED"
  BY <1>1, StatusSound DEF order
<1> HIDE DEF c
<1>3. SameBonds(book, c) /\ Paired(c)
  <2>1. SameBonds(book, c)
    BY <1>2 DEF SameBonds, SameTies, SameOrder, OthersSame
  <2>2. QED
    BY <1>1, <2>1, TiesStay
<1>4. Losers(c, cur, todo, {}, {cur})
  <2>1. ASSUME NEW i \in Ids, TiedIn(book, i), SpentIn(book, i, cur, todo, {})
        PROVE  SpentIn(c, i, cur, todo, {})
    <3>1. /\ Sibling(c, i) = Sibling(book, i) /\ Sibling(book, i) \in Ids
          /\ \A j \in Ids : book.ord[j].status \in Dead => c.ord[j].status \in Dead
      BY <1>1, <1>2, <1>3, <2>1, TiesStay, Siblings DEF TiedIn, OthersSame, Dead
    <3>2. QED
      BY <1>2, <2>1, <3>1 DEF SpentIn, OthersSame
  <2>2. \A i \in Ids : c.ord[i].status \in Dead => book.ord[i].status \in Dead \/ i \in {cur}
    BY <1>2 DEF OthersSame
  <2>3. QED
    BY <1>1, <1>2, <1>3, <2>1, <2>2, LosersKept
<1>5. TiedIn(c, cur) => Sibling(c, cur) # cur
  BY <1>1, <1>2, Siblings DEF TiedIn
<1>6. Losers(OcoLegEnded(c, cur), cur, todo, {}, {})
  <2>1. Losers(OcoLegEnded(c, cur), cur, todo, {}, {cur} \ {cur})
    BY <1>1, <1>2, <1>3, <1>4, <1>5, OcoEndReported
  <2>2. {cur} \ {cur} = {}
    OBVIOUS
  <2>3. QED
    BY <2>1, <2>2
<1>7. SameBonds(c, book') /\ Paired(book')
  BY <1>1, <1>2, <1>3, OcoHookTouches
<1>8. todo # 0 => book'.ord[todo].bond # "none" /\ todo = book'.ord[todo].group + 1
  <2>1. todo # 0 => todo \in Ids /\ order(todo).bond # "none" /\ todo = order(todo).group + 1
    BY DEF IInv, HandlerOK, InHand, PairInv, SecondLeg
  <2>2. QED
    BY <1>3, <1>7, <2>1 DEF SameBonds, SameTies, order
<1>9. QED
  BY <1>1, <1>6, <1>7, <1>8, PlainPairs

\* The second leg of a pair that the first one ended is dropped.
LEMMA DropSecondLegPairs ==
  ASSUME IInv, PairInv, DropSecondLeg
  PROVE  PairInv'
<1>1. /\ pc = "next" /\ pc' = "next" /\ cur' = cur /\ todo' = 0 /\ todo \in Ids
      /\ order(todo).place = "none" /\ order(todo).status \in Working
      /\ book' = [book EXCEPT !.ord[todo].status = "CANCELLED"] /\ Stillborn(todo)
      /\ order(todo).bond # "none" /\ todo = order(todo).group + 1
  BY DEF DropSecondLeg, IInv, HandlerOK, InHand, PairInv, SecondLeg
<1>2. Sound(book) /\ Paired(book) /\ Losers(book, cur, todo, {}, {})
  BY <1>1 DEF IInv, PairInv, Batch, Ending
<1>3. /\ OthersSame(book, book', todo) /\ SameOrder(book.ord[todo], book'.ord[todo])
      /\ book'.live = book.live /\ book'.ord[todo].status = "CANCELLED"
  BY <1>1, <1>2, StatusSound DEF order
<1>4. SameBonds(book, book')
  BY <1>3 DEF SameBonds, SameTies, SameOrder, OthersSame
<1>5. SUFFICES Losers(book', cur, 0, {}, {})
  BY <1>1, <1>2, <1>4, PlainPairs, TiesStay
<1>6. SUFFICES ASSUME NEW i \in Ids, TiedIn(book', i), Lost(book', i, {})
               PROVE  SpentIn(book', i, cur, 0, {})
  BY DEF Losers
<1>7. /\ TiedIn(book, i) /\ Sibling(book', i) = Sibling(book, i) /\ order(i).bond = "oco"
      /\ Sibling(book, i) \in Ids /\ book'.ord[i].group = order(i).group
      /\ Sibling(book, Sibling(book, i)) = i
  <2>1. TiedIn(book, i) /\ Sibling(book', i) = Sibling(book, i)
    BY <1>2, <1>4, <1>6, TiesStay
  <2>2. book.ord[i].bond = "oco" /\ book'.ord[i].group = book.ord[i].group
    BY <1>4, <2>1 DEF TiedIn, SameBonds, SameTies
  <2>3. Sibling(book, i) \in Ids /\ Sibling(book, Sibling(book, i)) = i
    BY <1>2, <2>2, Siblings, SiblingTwice
  <2>4. QED
    BY <2>1, <2>2, <2>3 DEF order
<1>8. CASE i = todo
  BY <1>3, <1>8 DEF SpentIn, Dead
<1>9. CASE i # todo /\ Sibling(book, i) # todo
  <2>1. Lost(book, i, {})
    BY <1>3, <1>6, <1>7, <1>9 DEF Lost, OthersSame, order
  <2>2. SpentIn(book, i, cur, todo, {})
    BY <1>2, <1>7, <2>1 DEF Losers
  <2>3. QED
    BY <1>3, <1>7, <1>9, <2>2 DEF SpentIn, OthersSame, Ids
<1>10. CASE i # todo /\ Sibling(book, i) = todo
  <2>1. order(todo).bond = "oco"
    BY <1>2, <1>7, <1>10, SiblingTwice DEF order
  <2>2. Sibling(book, todo) = i /\ i = todo - 1
    <3>1. {todo, Sibling(book, todo)} = {order(todo).group, order(todo).group + 1}
          /\ order(todo).group \in Nat /\ Sibling(book, todo) # todo
      BY <1>1, <1>2, Siblings DEF order
    <3>2. QED
      BY <1>1, <1>7, <1>10, <3>1
  <2>3. order(i).status \in Dead
    BY <1>1, <2>1, <2>2 DEF Stillborn
  <2>4. QED
    BY <1>3, <1>10, <2>3 DEF SpentIn, OthersSame, order
<1>11. QED
  BY <1>8, <1>9, <1>10

\* A second leg stays what it is while bonds stay.
LEMMA SecondLegStays ==
  ASSUME IInv, PairInv, SameBonds(book, book'), todo' = todo
  PROVE  /\ todo' # 0 => book'.ord[todo'].bond # "none" /\ todo' = book'.ord[todo'].group + 1
         /\ Paired(book')
<1>1. todo # 0 => todo \in Ids /\ order(todo).bond # "none" /\ todo = order(todo).group + 1
  BY DEF IInv, HandlerOK, InHand, PairInv, SecondLeg
<1>2. QED
  BY <1>1, TiesStay DEF SameBonds, SameTies, order, IInv, PairInv

\* A refused fill-or-kill order pulls own orders by its self-match policy.
LEMMA RefusePullPairs ==
  ASSUME IInv, PairInv, Final, RefusePull
  PROVE  PairInv'
<1>1. PICK p \in clearing : book' = SmpCancel(book, p)
  BY DEF RefusePull
<1>2. /\ pc = "refuse" /\ pc' = "refuse" /\ cur' = cur /\ todo' = todo /\ cur \in Ids /\ p \in Ids
      /\ order(cur).status \in Dead /\ book'.ord[cur].status \in Dead
  BY DEF RefusePull, IInv, TypeOK, HandlerOK, PairInv, SecondLeg, Final
<1>3. /\ Sound(book) /\ Paired(book) /\ Losers(book, cur, todo, {}, {cur})
      /\ Batch' = {} /\ Ending' = {cur}
  BY <1>2 DEF IInv, PairInv, Batch, Ending
<1>4. Losers(book', cur, todo, {}, {cur}) /\ SameBonds(book, book')
  <2>1. CASE book.ord[p].place # "none"
    BY <1>1, <1>2, <1>3, <2>1, CancelReported DEF order
  <2>2. CASE book.ord[p].place = "none"
    <3>1. Cancel(book, p) = book
      BY <2>2 DEF Cancel
    <3>2. book' = OcoLegEnded(book, p)
      BY <1>1, <3>1 DEF SmpCancel
    <3>3. Losers(book', cur, todo, {}, {cur} \ {p}) /\ SameBonds(book, book')
      BY <1>2, <1>3, <3>2, OcoEndReported, OcoHookTouches DEF order
    <3>4. QED
      BY <3>3 DEF Losers, Lost
  <2>3. QED
    BY <2>1, <2>2
<1>5. SecondLeg' /\ Paired(book')
  BY <1>2, <1>4, SecondLegStays DEF SecondLeg, order
<1>6. QED
  BY <1>2, <1>3, <1>4, <1>5 DEF PairInv, WholePairs

\* Two legs of a tied pair never face each other in a sweep, unless the one in
\* hand is to give way.
LEMMA TiedFacing ==
  ASSUME IInv, PairInv, NEW p \in Ids, Facing(p), TiedIn(book, p), Sibling(book, p) = cur
  PROVE  SelfMatch(book, cur, p) \in {"CANCEL_AGGRESSOR", "CANCEL_BOTH"}
<1>1. /\ Sound(book) /\ Paired(book) /\ cur \in Ids /\ order(cur) \in Order
  BY FacingFacts DEF PairInv
<1>2. order(p).bond # "none"
  BY DEF TiedIn, order
<1>3. /\ order(cur).gw = order(p).gw /\ order(cur).smp = order(p).smp
  BY <1>1, <1>2 DEF Paired, order
<1>4. order(p).side = Opposite(order(cur).side) /\ order(cur).side \in {"BUY", "SELL"}
  BY <1>1 DEF Facing, IsBest, Matchable, Resting, order, Order, Sides
<1>5. order(p).side # order(cur).side
  BY <1>4 DEF Opposite
<1>6. order(p).smp \in {"CANCEL_AGGRESSOR", "CANCEL_BOTH"}
  BY <1>5 DEF TiedIn, order
<1>7. QED
  BY <1>3, <1>6 DEF SelfMatch, order

LEMMA SelfMatchPullsRestingPairs ==
  ASSUME IInv, PairInv, NEW p \in Ids, SelfMatchPullsResting(p)
  PROVE  PairInv'
<1>1. /\ Facing(p) /\ book' = SmpCancel(book, p) /\ cur' = cur /\ todo' = todo
      /\ pc = "sweep" /\ pc' = "sweep" /\ order(p).place # "none"
      /\ SelfMatch(book, cur, p) = "CANCEL_RESTING"
  BY FacingFacts DEF SelfMatchPullsResting, dispatch
<1>2. Sound(book) /\ Paired(book) /\ Losers(book, cur, todo, {}, {})
  BY <1>1 DEF IInv, PairInv, Batch, Ending
<1>3. ~(TiedIn(book, p) /\ Sibling(book, p) = cur)
  BY <1>1, TiedFacing
<1>4. Losers(book', cur, todo, {}, {}) /\ SameBonds(book, book')
  BY <1>1, <1>2, <1>3, CancelReported DEF order
<1>5. QED
  BY <1>1, <1>4, SecondLegStays, PlainPairs

LEMMA SelfMatchPullsAggressorPairs ==
  ASSUME IInv, PairInv, NEW p \in Ids, SelfMatchPullsAggressor(p)
  PROVE  PairInv'
<1> DEFINE b == IF SelfMatch(book, cur, p) = "CANCEL_BOTH" THEN SmpCancel(book, p) ELSE book
<1>1. /\ Facing(p) /\ cur \in Ids /\ cur' = cur /\ todo' = todo
      /\ pc = "sweep" /\ pc' = "settle" /\ order(p).place # "none"
      /\ order(cur).place = "none" /\ order(cur).status \in Working
      /\ book' = [b EXCEPT !.ord[cur].status = "CANCELLED"]
  BY FacingFacts DEF SelfMatchPullsAggressor
<1>2. /\ Sound(book) /\ Paired(book) /\ Losers(book, cur, todo, {}, {})
      /\ Batch' = {} /\ Ending' = {cur} /\ 0 \notin Ids
  BY <1>1 DEF IInv, PairInv, Batch, Ending, Ids
<1>3. Losers(book, 0, todo, {}, {})
  BY <1>2 DEF Losers, SpentIn
<1>4. /\ Losers(b, 0, todo, {}, {}) /\ SameBonds(book, b) /\ Paired(b)
      /\ Sound(b) /\ Thinned(book, b)
  <2>1. TiedIn(book, p) => Sibling(book, p) # 0
    BY <1>2, Siblings DEF TiedIn
  <2>2. /\ Losers(SmpCancel(book, p), 0, todo, {}, {}) /\ SameBonds(book, SmpCancel(book, p))
        /\ Paired(SmpCancel(book, p)) /\ Sound(SmpCancel(book, p))
        /\ Thinned(book, SmpCancel(book, p))
    BY <1>1, <1>2, <1>3, <2>1, CancelReported DEF order
  <2>3. SameBonds(book, book) /\ Thinned(book, book)
    BY DEF SameBonds, SameTies, Thinned
  <2>4. QED
    BY <1>2, <1>3, <2>2, <2>3
<1> HIDE DEF b
<1>5. b.ord[cur] = order(cur)
  BY <1>1, <1>4 DEF Thinned, order
<1>6. /\ OthersSame(b, book', cur) /\ SameOrder(b.ord[cur], book'.ord[cur])
      /\ book'.live = b.live /\ book'.ord[cur].status = "CANCELLED"
  <2>1. b.ord[cur].place = "none" /\ b.ord[cur].status \in Working
    BY <1>1, <1>5
  <2>2. "CANCELLED" \in {"NEW", "CANCELLED", "REJECTED"} /\ "CANCELLED" # "NEW"
    OBVIOUS
  <2>3. QED
    BY <1>1, <1>4, <2>1, <2>2, StatusSound
<1>7. SameBonds(b, book')
  BY <1>6 DEF SameBonds, SameTies, SameOrder, OthersSame
<1>8. Losers(book', cur, todo, {}, {cur})
  <2>1. ASSUME NEW i \in Ids, TiedIn(b, i), SpentIn(b, i, 0, todo, {})
        PROVE  SpentIn(book', i, cur, todo, {})
    <3>1. /\ Sibling(book', i) = Sibling(b, i) /\ Sibling(b, i) \in Ids
          /\ \A j \in Ids : b.ord[j].status \in Dead => book'.ord[j].status \in Dead
      BY <1>4, <1>6, <1>7, <2>1, TiesStay, Siblings DEF TiedIn, OthersSame, Dead
    <3>2. CASE i = cur
      BY <1>6, <3>2 DEF SpentIn, Dead
    <3>3. CASE i # cur
      BY <1>6, <2>1, <3>1, <3>3 DEF SpentIn, OthersSame
    <3>4. QED
      BY <3>2, <3>3
  <2>2. \A i \in Ids : book'.ord[i].status \in Dead => b.ord[i].status \in Dead \/ i \in {cur}
    BY <1>6 DEF OthersSame
  <2>3. QED
    BY <1>4, <1>6, <1>7, <2>1, <2>2, LosersKept
<1>9. SameBonds(book, book')
  BY <1>4, <1>7 DEF SameBonds, SameTies
<1>10. SecondLeg' /\ Paired(book')
  BY <1>1, <1>9, SecondLegStays DEF SecondLeg, order
<1>11. QED
  BY <1>1, <1>2, <1>8, <1>10 DEF PairInv, WholePairs

\* A trade takes from both orders first; then the hooks run.
LEMMA TradeTakes ==
  ASSUME IInv, NEW p \in Ids, Trade(p)
  PROVE  LET q == FillQty(book, cur, p)
             d == Reduce(Reduce(book, cur, q), p, q)
         IN  /\ Sound(d) /\ d.live = book.live /\ SameBonds(book, d)
             /\ \A j \in Ids \ {cur, p} : d.ord[j] = book.ord[j]
             /\ \A j \in {cur, p} :
                  /\ SameOrder(order(j), d.ord[j]) /\ d.ord[j].rem = order(j).rem - q
                  /\ d.ord[j].status = IF d.ord[j].rem = 0 THEN "FILLED" ELSE "PARTIAL"
             /\ d.ord[cur].place = "none"
             /\ d.ord[p].place = IF d.ord[p].rem = 0 THEN "none" ELSE "book"
             /\ book' = FillHooks(d, cur, p)
<1> DEFINE q == FillQty(book, cur, p)
           c1 == Reduce(book, cur, q)
           c2 == Reduce(c1, p, q)
<1>1. /\ Sound(book) /\ cur \in Ids /\ cur # p
      /\ order(cur).place = "none" /\ order(cur).status \in Working
      /\ order(p).place = "book" /\ order(p).status \in Working
      /\ order(cur) \in Order /\ order(p) \in Order /\ OrderSound(order(p))
      /\ book' = ApplyFill(book, cur, p)
  BY FacingFacts DEF Trade, OrderSound
<1>2. q \in Nat \ {0} /\ q <= order(cur).rem /\ q <= Slice(order(p)) /\ q <= order(p).rem
  BY <1>1, TradeOrders DEF FillQty, Least, Order, OrderSound, order
<1> HIDE DEF q
<1>3. /\ Sound(c1) /\ OthersSame(book, c1, cur) /\ SameOrder(order(cur), c1.ord[cur])
      /\ c1.live = book.live /\ c1.ord[cur].rem = order(cur).rem - q
      /\ c1.ord[cur].status = (IF c1.ord[cur].rem = 0 THEN "FILLED" ELSE "PARTIAL")
      /\ c1.ord[cur].place = "none"
  BY <1>1, <1>2, ReduceSound DEF order
<1> HIDE DEF c1
<1>4. c1.ord[p] = order(p)
  BY <1>1, <1>3 DEF OthersSame, order
<1>5. /\ Sound(c2) /\ OthersSame(c1, c2, p) /\ SameOrder(order(p), c2.ord[p])
      /\ c2.live = c1.live /\ c2.ord[p].rem = order(p).rem - q
      /\ c2.ord[p].status = (IF c2.ord[p].rem = 0 THEN "FILLED" ELSE "PARTIAL")
      /\ c2.ord[p].place = (IF c2.ord[p].rem = 0 THEN "none" ELSE "book")
  BY <1>1, <1>2, <1>3, <1>4, ReduceSound
<1>6. book' = FillHooks(c2, cur, p)
  BY <1>1 DEF ApplyFill, c1, q
<1> HIDE DEF c2
<1>7. /\ c2.ord[cur] = c1.ord[cur]
      /\ \A j \in Ids \ {cur, p} : c2.ord[j] = book.ord[j]
  BY <1>1, <1>3, <1>5 DEF OthersSame
<1>8. SameBonds(book, c2)
  <2>1. \A j \in Ids \ {cur, p} : SameTies(book.ord[j], c2.ord[j])
    BY <1>7 DEF SameTies
  <2>2. \A j \in {cur, p} : SameTies(book.ord[j], c2.ord[j])
    BY <1>3, <1>5, <1>7 DEF SameTies, SameOrder, order
  <2>3. QED
    BY <2>1, <2>2 DEF SameBonds
<1>9. /\ \A j \in {cur, p} :
           /\ SameOrder(order(j), c2.ord[j]) /\ c2.ord[j].rem = order(j).rem - q
           /\ c2.ord[j].status = IF c2.ord[j].rem = 0 THEN "FILLED" ELSE "PARTIAL"
      /\ c2.ord[cur].place = "none" /\ c2.live = book.live
  BY <1>3, <1>5, <1>7
<1>10. QED
  BY <1>5, <1>6, <1>7, <1>8, <1>9 DEF c1, c2, q

\* A trade reports the end of both orders before anything else runs.
LEMMA TradePairs ==
  ASSUME IInv, PairInv, NEW p \in Ids, Trade(p)
  PROVE  PairInv'
<1>1. /\ Facing(p) /\ SelfMatch(book, cur, p) = "NONE" /\ cur \in Ids /\ cur # p
      /\ pc = "sweep" /\ pc' = "sweep" /\ cur' = cur /\ todo' = todo
      /\ Sound(book) /\ Paired(book)
      /\ order(cur).status \in Working /\ order(p).status \in Working
      /\ order(p).place = "book" /\ order(cur).place = "none"
  BY FacingFacts DEF Trade, PairInv, OrderSound
<1>2. PICK d : /\ Sound(d) /\ d.live = book.live /\ SameBonds(book, d)
               /\ \A j \in Ids \ {cur, p} : d.ord[j] = book.ord[j]
               /\ book' = FillHooks(d, cur, p)
  BY TradeTakes
<1>3. Paired(d) /\ \A i \in Ids : Sibling(d, i) = Sibling(book, i) /\ (TiedIn(d, i) <=> TiedIn(book, i))
  BY <1>1, <1>2, TiesStay
<1>4. Losers(d, cur, todo, {}, {cur, p})
  <2>1. Losers(book, cur, todo, {}, {})
    BY <1>1 DEF PairInv, Batch, Ending
  <2>2. \A i \in {cur, p} : ~SpentIn(book, i, cur, todo, {})
    BY <1>1 DEF SpentIn, order, Working, Dead
  <2>3. ASSUME NEW i \in Ids, TiedIn(book, i), SpentIn(book, i, cur, todo, {})
        PROVE  SpentIn(d, i, cur, todo, {})
    <3>1. i \notin {cur, p} /\ d.ord[i] = book.ord[i] /\ Sibling(book, i) \in Ids
      BY <1>1, <1>2, <2>2, <2>3, Siblings DEF TiedIn
    <3>2. book.ord[Sibling(book, i)].status \in Dead => d.ord[Sibling(book, i)].status \in Dead
      BY <1>1, <1>2, <3>1 DEF order, Working, Dead
    <3>3. QED
      BY <1>3, <2>3, <3>1, <3>2 DEF SpentIn
  <2>4. \A i \in Ids : d.ord[i].status \in Dead => book.ord[i].status \in Dead \/ i \in {cur, p}
    BY <1>2
  <2>5. QED
    BY <1>1, <1>2, <2>1, <2>3, <2>4, LosersKept
<1>5. ~(TiedIn(d, p) /\ Sibling(d, p) = cur)
  BY <1>1, <1>3, TiedFacing
<1>6. ~(TiedIn(d, cur) /\ Sibling(d, cur) = cur)
  BY <1>1, <1>2, Siblings DEF TiedIn
<1> DEFINE e1 == QuoteLegFilled(d, p)
           e2 == QuoteLegFilled(e1, cur)
           e3 == OcoLegEnded(e2, p)
           e4 == OcoLegEnded(e3, cur)
<1>7. Sound(e1) /\ Paired(e1) /\ SameBonds(d, e1) /\ Losers(e1, cur, todo, {}, {cur, p})
  BY <1>2, <1>3, <1>4, QuoteHookTouches, QuoteHookKeepsLosers
<1> HIDE DEF e1
<1>8. Sound(e2) /\ Paired(e2) /\ SameBonds(e1, e2) /\ Losers(e2, cur, todo, {}, {cur, p})
  BY <1>1, <1>7, QuoteHookTouches, QuoteHookKeepsLosers
<1> HIDE DEF e2
<1>9. SameBonds(d, e2)
  BY <1>7, <1>8 DEF SameBonds, SameTies
<1>10. \A i \in Ids : Sibling(e2, i) = Sibling(d, i) /\ (TiedIn(e2, i) <=> TiedIn(d, i))
  BY <1>2, <1>9, TiesStay
<1>11. Sound(e3) /\ Paired(e3) /\ SameBonds(e2, e3) /\ Losers(e3, cur, todo, {}, {cur, p} \ {p})
  BY <1>5, <1>8, <1>10, OcoHookTouches, OcoEndReported
<1> HIDE DEF e3
<1>12. Sibling(e3, cur) = Sibling(d, cur) /\ (TiedIn(e3, cur) <=> TiedIn(d, cur))
  BY <1>1, <1>8, <1>10, <1>11, TiesStay
<1>13. Paired(e4) /\ SameBonds(e3, e4) /\ Losers(e4, cur, todo, {}, ({cur, p} \ {p}) \ {cur})
  BY <1>1, <1>6, <1>11, <1>12, OcoHookTouches, OcoEndReported
<1>14. ({cur, p} \ {p}) \ {cur} = {}
  OBVIOUS
<1>15. book' = e4
  BY <1>2 DEF FillHooks, e1, e2, e3
<1> HIDE DEF e4
<1>16. SameBonds(book, book')
  BY <1>2, <1>9, <1>11, <1>13, <1>15 DEF SameBonds, SameTies
<1>17. Losers(book', cur, todo, {}, {})
  BY <1>13, <1>14, <1>15
<1>18. QED
  BY <1>1, <1>16, <1>17, SecondLegStays, PlainPairs

\* The end of process() reports the end of the order in hand, then the cascade
\* releases stops.
LEMMA SettlePairs ==
  ASSUME IInv, PairInv, Settle
  PROVE  PairInv'
<1> DEFINE b == OcoLegEnded(book, cur)
           r == Release(b, last, released)
<1>1. /\ pc = "settle" /\ pc' = "next" /\ cur' = cur /\ todo' = todo /\ cur \in Ids
      /\ Sound(book) /\ Paired(book) /\ book' \in {r, b}
      /\ last \in Int /\ released \in Nat
      /\ Losers(book, cur, todo, {}, {cur})
  BY PricesAssumption
     DEF Settle, IInv, TypeOK, HandlerOK, PairInv, Batch, Ending, NoPrice
<1>2. ~(TiedIn(book, cur) /\ Sibling(book, cur) = cur)
  BY <1>1, Siblings DEF TiedIn
<1>3. Sound(b) /\ Paired(b) /\ SameBonds(book, b) /\ Losers(b, cur, todo, {}, {cur} \ {cur})
  BY <1>1, <1>2, OcoHookTouches, OcoEndReported
<1>4. {cur} \ {cur} = {}
  OBVIOUS
<1> HIDE DEF b
<1>5. /\ r.live = b.live
      /\ \A i \in Ids : /\ SameOrder(b.ord[i], r.ord[i])
                        /\ r.ord[i].status = b.ord[i].status
                        /\ b.ord[i].place = "none" => r.ord[i] = b.ord[i]
  BY <1>1, <1>3, ReleaseSound
<1> HIDE DEF r
<1>6. SameBonds(b, r)
  BY <1>5 DEF SameBonds, SameTies, SameOrder
<1>7. Losers(r, cur, todo, {}, {})
  <2>1. ASSUME NEW i \in Ids, TiedIn(b, i), SpentIn(b, i, cur, todo, {})
        PROVE  SpentIn(r, i, cur, todo, {})
    <3>1. Sibling(r, i) = Sibling(b, i) /\ Sibling(b, i) \in Ids
      BY <1>3, <1>6, <2>1, TiesStay, Siblings DEF TiedIn
    <3>2. QED
      BY <1>5, <2>1, <3>1 DEF SpentIn
  <2>2. QED
    BY <1>3, <1>4, <1>5, <1>6, <2>1, LosersKept
<1>8. Losers(book', cur, todo, {}, {}) /\ SameBonds(book, book')
  <2>1. SameBonds(book, r)
    BY <1>3, <1>6 DEF SameBonds, SameTies
  <2>2. book' = r \/ book' = b
    BY <1>1
  <2>3. QED
    BY <1>3, <1>4, <1>7, <2>1, <2>2
<1>9. QED
  BY <1>1, <1>8, SecondLegStays, PlainPairs

\* A batch cancels one order.
LEMMA WithdrawPairs ==
  ASSUME IInv, PairInv, Withdraw
  PROVE  PairInv'
<1>1. PICK i \in clearing : book' = Cancel(book, i) /\ clearing' = clearing \ {i}
  BY DEF Withdraw
<1>2. /\ pc = "withdraw" /\ pc' = "withdraw" /\ cur' = cur /\ todo' = todo /\ i \in Ids
      /\ Sound(book) /\ Paired(book) /\ clearing \subseteq Ids
      /\ Losers(book, cur, todo, clearing, {})
      /\ Batch' = clearing' /\ Ending' = {}
  BY <1>1 DEF Withdraw, IInv, TypeOK, PairInv, Batch, Ending
<1>3. /\ Thinned(book, book') /\ book'.live = book.live
      /\ \A j \in Ids \ {i} : book'.ord[j] = book.ord[j]
      /\ \/ book'.ord[i].status \in Dead
         \/ book'.ord[i] = book.ord[i] /\ book.ord[i].place = "none"
  BY <1>1, <1>2, CancelTouches
<1>4. SameBonds(book, book')
  BY <1>2, <1>3, ThinnedTies
<1>5. \A j \in {cur, todo} : j \in Ids => order(j).bond # "oco"
  <2>1. todo = 0 => cur = 0
    BY <1>2 DEF IInv, HandlerOK
  <2>2. todo # 0 => order(todo).bond = "quote" /\ order(cur).bond = "quote"
    BY <1>2 DEF PairInv, SecondLeg
  <2>3. QED
    BY <2>1, <2>2 DEF Ids
<1>6. ASSUME NEW j \in Ids, TiedIn(book, j), SpentIn(book, j, cur, todo, clearing)
      PROVE  SpentIn(book', j, cur, todo, clearing')
  <2>1. j \notin {cur, todo}
    BY <1>5, <1>6 DEF TiedIn, order
  <2>2. CASE j = i
    BY <1>3, <2>1, <2>2 DEF SpentIn
  <2>3. CASE j # i
    BY <1>1, <1>3, <1>6, <2>1, <2>3 DEF SpentIn
  <2>4. QED
    BY <2>2, <2>3
<1>7. WholePairs'
  <2>1. SUFFICES ASSUME NEW j \in clearing', TiedIn(book', j)
                 PROVE  SpentIn(book', Sibling(book', j), cur, todo, clearing')
    BY <1>2 DEF WholePairs
  <2>2. /\ j \in clearing /\ j \in Ids /\ TiedIn(book, j) /\ Sibling(book', j) = Sibling(book, j)
        /\ Sibling(book, j) \in Ids /\ TiedIn(book, Sibling(book, j))
    <3>1. /\ j \in clearing /\ j \in Ids /\ TiedIn(book, j) /\ Sibling(book', j) = Sibling(book, j)
      BY <1>1, <1>2, <1>4, <2>1, TiesStay
    <3>2. QED
      BY <1>2, <3>1, Siblings, SiblingTwice DEF TiedIn
  <2>3. SpentIn(book, Sibling(book, j), cur, todo, clearing)
    BY <1>2, <2>2 DEF PairInv, WholePairs
  <2>4. QED
    BY <1>6, <2>2, <2>3
<1>8. Losers(book', cur, todo, clearing', {})
  <2>1. SUFFICES ASSUME NEW j \in Ids, TiedIn(book', j), Lost(book', j, {})
                 PROVE  SpentIn(book', j, cur, todo, clearing')
    BY DEF Losers
  <2>2. /\ TiedIn(book, j) /\ Sibling(book', j) = Sibling(book, j)
        /\ book'.ord[j].group = book.ord[j].group
        /\ Sibling(book, j) \in Ids /\ Sibling(book, Sibling(book, j)) = j
    <3>1. TiedIn(book, j) /\ Sibling(book', j) = Sibling(book, j)
      BY <1>2, <1>4, <2>1, TiesStay
    <3>2. QED
      BY <1>2, <1>4, <3>1, Siblings, SiblingTwice DEF TiedIn, SameBonds, SameTies
  <2>3. CASE Lost(book, j, {})
    BY <1>2, <1>6, <2>2, <2>3 DEF Losers
  <2>4. CASE ~Lost(book, j, {})
    <3>1. Sibling(book, j) = i
      BY <1>3, <2>1, <2>2, <2>4 DEF Lost
    <3>2. TiedIn(book, i)
      BY <1>2, <2>2, <3>1, SiblingTwice DEF TiedIn
    <3>3. SpentIn(book, j, cur, todo, clearing)
      BY <1>1, <1>2, <2>2, <3>1, <3>2 DEF PairInv, WholePairs
    <3>4. QED
      BY <1>6, <2>2, <3>3
  <2>5. QED
    BY <2>3, <2>4
<1>9. SecondLeg'
  <2>1. todo # 0 => todo \in Ids /\ cur \in Ids
    BY <1>2 DEF IInv, HandlerOK, InHand
  <2>2. QED
    BY <1>2, <1>4, <2>1 DEF PairInv, SecondLeg, SameBonds, SameTies, order
<1>10. QED
  BY <1>2, <1>4, <1>7, <1>8, <1>9, TiesStay DEF PairInv

-----------------------------------------------------------------------------
LEMMA PairsInit ==
  ASSUME Init
  PROVE  PairInv
<1>1. \A i \in Ids : order(i) = Absent
  BY DEF Init, order
<1>2. pc = "idle" /\ todo = 0
  BY DEF Init
<1>3. Paired(book) /\ \A i \in Ids : ~TiedIn(book, i)
  <2>1. Absent.bond = "none" /\ Absent.group = 0
    BY DEF Absent
  <2>2. \A i \in Ids : book.ord[i].bond = "none" /\ book.ord[i].group = 0
    BY <1>1, <2>1 DEF order
  <2>3. QED
    BY <2>2 DEF Paired, TiedIn
<1>4. QED
  BY <1>2, <1>3 DEF PairInv, SecondLeg, WholePairs, Losers

LEMMA PairsStep ==
  ASSUME IInv, PairInv, [Next]_vars
  PROVE  PairInv'
<1>1. CASE UNCHANGED vars
  BY <1>1 DEF vars, dispatch, PairInv, SecondLeg, WholePairs, Batch, Ending, order
<1>2. ASSUME Next PROVE Final
  BY <1>2, FinalStep
<1>3. CASE Message
  <2>1. Next
    BY <1>3 DEF Next
  <2>2. CASE CallPhaseBegins \/ NoMessage
    BY <2>2 DEF CallPhaseBegins, NoMessage, vars, dispatch, PairInv, SecondLeg, WholePairs,
                Batch, Ending, order
  <2>3. QED
    BY <1>3, <2>2, NewOrderPairs, OcoOrderPairs, QuoteNewPairs, QuoteCancelPairs,
       KillSwitchPairs, CancelOrderPairs, OcoCancelPairs, AmendPairs DEF Message
<1>4. CASE EngineStep
  <2>1. Final
    BY <1>2, <1>4 DEF Next
  <2>2. CASE EditsCur
    BY <2>1, <2>2, CurEditedPairs
  <2>3. CASE \E p \in Ids : Trade(p) \/ SelfMatchPullsResting(p) \/ SelfMatchPullsAggressor(p)
    BY <2>3, TradePairs, SelfMatchPullsRestingPairs, SelfMatchPullsAggressorPairs
  <2>4. CASE \/ HandlerRaises \/ Refused \/ Withdrawn
             \/ \E i \in Ids : RunStop(i)
             \/ PostSecondLeg \/ HandlerReturns
    BY <2>4, HandlerMovesPairs
  <2>5. CASE Withdraw \/ RejectImmediate \/ RefusePull \/ Settle \/ DropSecondLeg
    BY <2>1, <2>5, WithdrawPairs, RejectImmediatePairs, RefusePullPairs, SettlePairs,
       DropSecondLegPairs
  <2>6. QED
    BY <1>4, <2>2, <2>3, <2>4, <2>5 DEF EngineStep, EditsCur
<1>5. QED
  BY <1>1, <1>3, <1>4 DEF Next

THEOREM PairInvariance == Spec => []PairInv
<1>1. Init => PairInv
  BY PairsInit
<1>2. PairInv /\ IInv /\ [Next]_vars => PairInv'
  BY PairsStep
<1>3. QED
  BY <1>1, <1>2, Invariance, PTL DEF Spec

\* A leg whose sibling has ended is in no place where it could trade.
LEMMA LosersStep ==
  ASSUME IInv, PairInv, Next, NEW i \in Ids, Tied(i),
         order(Sibling(book, i)).status \in Dead
  PROVE  ~Executes(i)
<1>1. SUFFICES ASSUME NEW p \in Ids, Trade(p), i \in {cur, p} PROVE FALSE
  BY OnlyTradesExecute
<1>2. /\ pc = "sweep" /\ order(cur).status \in Working /\ order(p).status \in Working
      /\ order(p).place = "book"
  BY <1>1, FacingFacts DEF Trade, OrderSound
<1>3. Losers(book, cur, todo, {}, {})
  BY <1>2 DEF PairInv, Batch, Ending
<1>4. TiedIn(book, i) /\ Lost(book, i, {})
  BY DEF Tied, TiedIn, Lost, order
<1>5. SpentIn(book, i, cur, todo, {})
  BY <1>3, <1>4 DEF Losers
<1>6. QED
  BY <1>1, <1>2, <1>5 DEF SpentIn, order, Working, Dead

\* Once one leg of an OCO pair has ended, the other never executes: not in the
\* rest of the sweep that ended it, not in the cascade of stops it sets off, not
\* as a second leg still to be posted and not behind a batch of cancels.
THEOREM LosersNeverTrade == Spec => OcoLoserNeverTrades
<1>1. IInv /\ PairInv /\ [Next]_vars =>
        [\A i \in Ids :
           Tied(i) /\ order(Sibling(book, i)).status \in Dead => ~Executes(i)]_vars
  BY LosersStep
<1>2. QED
  BY <1>1, Invariance, PairInvariance, PTL DEF Spec, OcoLoserNeverTrades

-----------------------------------------------------------------------------
(***************************************************************************)
(* Where orders may go.                                                    *)
(***************************************************************************)

\* An order that is not in hand only leaves its place, or is released from a
\* stop's; the order in hand may also rest, with the next arrival number, or be
\* armed if it is a stop.
Placed(i) ==
  \/ book'.ord[i].place \in {order(i).place, "none"}
  \/ order(i).place \in {"armed", "trailing"} /\ book'.ord[i].place = "triggered"
  \/ /\ i = cur
     /\ \/ book'.ord[i].place = "book" /\ book'.ord[i].seq = book.seq + 1
        \/ order(i).kind \in StopKinds /\ book'.ord[i].place # "book"

LEMMA ThinnedPlaced ==
  ASSUME Sound(book), NEW i \in Ids, Thinned(book, book')
  PROVE  Placed(i)
BY ThinnedTies DEF Placed, order

LEMMA CurEditedPlaced ==
  ASSUME IInv, EditsCur, NEW i \in Ids
  PROVE  Placed(i)
<1>1. OthersSame(book, book', cur) /\ cur \in Ids
  BY CurEdited
<1>2. CASE i # cur
  BY <1>1, <1>2 DEF OthersSame, Placed, order
<1>3. CASE i = cur
  <2>1. book \in Book /\ order(cur) \in Order /\ Sound(book)
    BY <1>1 DEF IInv, Sound, Book, order
  <2>2. CASE DropCancelled \/ RefuseFok
    <3>1. ASSUME DropCancelled
          PROVE  book'.ord[cur].place \in {order(cur).place, "none"}
      <4>1. book' = [book EXCEPT !.ord[cur].place = "none", !.ord[cur].turn = 0]
        BY <3>1 DEF DropCancelled
      <4>2. book'.ord[cur] = [order(cur) EXCEPT !.place = "none", !.turn = 0]
        BY <1>1, <2>1, <4>1 DEF Book, order
      <4>3. QED
        BY <2>1, <4>2 DEF Order
    <3>2. ASSUME RefuseFok
          PROVE  book'.ord[cur].place \in {order(cur).place, "none"}
      <4>1. \E s \in {"CANCELLED", "REJECTED"} :
              book' = [book EXCEPT !.ord[cur].status = s]
        BY <3>2 DEF RefuseFok
      <4>2. book'.ord[cur].place = order(cur).place
        <5>1. PICK s \in {"CANCELLED", "REJECTED"} :
                book'.ord[cur] = [order(cur) EXCEPT !.status = s]
          BY <1>1, <2>1, <4>1 DEF Book, order
        <5>2. QED
          BY <2>1, <5>1 DEF Order
      <4>3. QED
        BY <4>2
    <3>3. book'.ord[cur].place \in {order(cur).place, "none"}
      BY <2>2, <3>1, <3>2
    <3>4. QED
      BY <1>3, <3>3 DEF Placed, order
  <2>3. CASE RestUnmatched \/ SweepEnds
    <3>1. \/ book' = book
          \/ book' = Rest(book, cur)
          \/ book' = [book EXCEPT !.ord[cur].status = "CANCELLED"]
      BY <2>3 DEF RestUnmatched, SweepEnds
    <3>2. \/ book'.ord[cur].place = order(cur).place
          \/ book'.ord[cur].place = "book" /\ book'.ord[cur].seq = book.seq + 1
      <4>1. CASE book' = Rest(book, cur)
        <5>1. \E shown \in Nat :
                book'.ord[cur] =
                  [order(cur) EXCEPT !.shown = shown, !.seq = book.seq + 1,
                                     !.place = "book"]
          BY <1>1, <2>1, <4>1 DEF Rest, Least, Book, Order, order
        <5>2. QED
          BY <2>1, <5>1 DEF Order
      <4>2. CASE book' # Rest(book, cur)
        <5>1. book'.ord[cur] \in {order(cur), [order(cur) EXCEPT !.status = "CANCELLED"]}
          BY <1>1, <2>1, <3>1, <4>2 DEF Book, order
        <5>2. QED
          BY <2>1, <5>1 DEF Order
      <4>3. QED
        BY <4>1, <4>2
    <3>3. QED
      BY <1>3, <3>2 DEF Placed, order
  <2>4. CASE ArmStop
    <3>1. Resolved(order(cur)).kind = order(cur).kind
      BY <2>1 DEF Resolved, Order
    <3>2. order(cur).kind \in StopKinds
      BY <2>4, <3>1 DEF ArmStop
    <3>3. book'.ord[cur].place # "book"
      <4> DEFINE o == Resolved(order(cur))
      <4>1. o \in Order
        <5>1. OrderSound(order(cur))
          BY <1>1, <2>1 DEF Sound, order
        <5>2. last \in Int
          BY PricesAssumption DEF IInv, TypeOK, NoPrice
        <5>3. QED
          BY <2>1, <5>1, <5>2, ResolvedSound
      <4> HIDE DEF o
      <4>2. \/ book' = [book EXCEPT !.ord[cur] = [o EXCEPT !.place = "trailing"]]
            \/ book' = [book EXCEPT !.ord[cur] = [o EXCEPT !.place = "armed", !.seq = book.seq + 1],
                                    !.seq = @ + 1]
        BY <2>4 DEF ArmStop, o
      <4>3. \/ book'.ord[cur] = [o EXCEPT !.place = "trailing"]
            \/ book'.ord[cur] = [o EXCEPT !.place = "armed", !.seq = book.seq + 1]
        BY <1>1, <2>1, <4>2 DEF Book
      <4>4. book'.ord[cur].place \in {"trailing", "armed"}
        BY <4>1, <4>3 DEF Order
      <4>5. QED
        BY <4>4
    <3>4. QED
      BY <1>3, <3>2, <3>3 DEF Placed, order
  <2>5. CASE TriggerOnEntry \/ StartSweep
    <3>1. \E n \in {Resolved(order(cur)), Converted(Resolved(order(cur)))} :
            book' = [book EXCEPT !.ord[cur] = n]
      BY <2>5 DEF TriggerOnEntry, StartSweep, order
    <3>2. Resolved(order(cur)).place = "none" /\ Resolved(order(cur)) \in Order
      <4>1. OrderSound(order(cur))
        BY <1>1, <2>1 DEF Sound, order
      <4>2. last \in Int
        BY PricesAssumption DEF IInv, TypeOK, NoPrice
      <4>3. QED
        BY <2>1, <4>1, <4>2, ResolvedSound
    <3>3. Converted(Resolved(order(cur))).place = "none"
      BY <3>2 DEF Converted, Order
    <3>4. book'.ord[cur].place = "none"
      BY <1>1, <2>1, <3>1, <3>2, <3>3 DEF Book
    <3>5. QED
      BY <1>3, <3>4 DEF Placed
  <2>6. QED
    BY <2>2, <2>3, <2>4, <2>5 DEF EditsCur
<1>4. QED
  BY <1>2, <1>3

LEMMA SettlePlaced ==
  ASSUME IInv, Settle, NEW i \in Ids
  PROVE  Placed(i)
<1> DEFINE b == OcoLegEnded(book, cur)
<1>1. /\ Sound(book) /\ cur \in Ids /\ last \in Int /\ released \in Nat
      /\ book' \in {b, Release(b, last, released)}
  BY PricesAssumption DEF Settle, IInv, TypeOK, HandlerOK, NoPrice
<1>2. Sound(b) /\ Thinned(book, b)
  BY <1>1, OcoLegEndedThins
<1>3. b.ord[i].place \in {order(i).place, "none"}
  <2> HIDE DEF b
  <2>1. QED
    BY <1>1, <1>2, ThinnedTies DEF order
<1> HIDE DEF b
<1>4. \/ book'.ord[i].place = b.ord[i].place
      \/ /\ b.ord[i].place \in {"armed", "trailing"}
         /\ book'.ord[i].place = "triggered"
  <2>1. CASE book' = b
    BY <2>1
  <2>2. CASE book' = Release(b, last, released)
    <3>1. LET c == Release(b, last, released)
          IN  \/ c.ord[i] = b.ord[i]
              \/ /\ b.ord[i].place \in {"armed", "trailing"}
                 /\ c.ord[i].place \in {b.ord[i].place, "triggered"}
      BY <1>1, <1>2, ReleaseSound
    <3>2. QED
      BY <2>2, <3>1
  <2>3. QED
    BY <1>1, <2>1, <2>2
<1>5. QED
  BY <1>3, <1>4 DEF Placed

\* Every step that accepts nothing.
LEMMA StepPlaced ==
  ASSUME IInv, Next, NEW i \in Ids,
         ~\E r \in NewOrders : NewOrder(r),
         ~\E l \in OcoPairs : OcoOrder(l),
         ~\E l \in QuotePairs : QuoteNew(l)
  PROVE  Placed(i)
<1>1. Sound(book) /\ book \in Book /\ order(i) \in Order /\ OrderSound(order(i))
  BY DEF IInv, Sound, Book, order
<1>2. CASE EditsCur
  BY <1>2, CurEditedPlaced
<1>3. CASE Settle
  BY <1>3, SettlePlaced
<1>4. ASSUME NEW j \in Ids, NEW price \in AmendPrices, NEW qty \in AmendQtys,
             Amend(j, price, qty)
      PROVE  Placed(i)
  <2>1. /\ OthersSame(book, book', j) /\ order(j).place = "book"
        /\ book'.ord[j].place \in {"book", "none"}
    BY <1>4, AmendOrders
  <2>2. QED
    BY <2>1 DEF OthersSame, Placed, order
<1>5. ASSUME NEW p \in Ids, Trade(p)
      PROVE  Placed(i)
  <2>1. PICK d : /\ Sound(d) /\ \A j \in Ids \ {cur, p} : d.ord[j] = book.ord[j]
                 /\ d.ord[cur].place = "none" /\ d.ord[p].place \in {"none", "book"}
                 /\ book' = FillHooks(d, cur, p)
    BY <1>5, TradeTakes
  <2>2. cur \in Ids /\ order(p).place = "book"
    BY <1>5, FacingFacts DEF Trade
  <2>3. Thinned(d, book')
    BY <2>1, <2>2, FillHooksThin
  <2>4. book'.ord[i].place \in {d.ord[i].place, "none"}
    BY <2>1, <2>3, ThinnedTies
  <2>5. d.ord[i].place \in {order(i).place, "none"}
    BY <2>1, <2>2 DEF order
  <2>6. QED
    BY <2>4, <2>5 DEF Placed
<1>6. CASE Withdraw \/ RefusePull \/ \E p \in Ids : SelfMatchPullsResting(p)
  <2>1. PICK j \in Ids : book' = Cancel(book, j) \/ book' = SmpCancel(book, j)
    BY <1>6 DEF Withdraw, RefusePull, SelfMatchPullsResting, IInv, TypeOK
  <2>2. QED
    BY <1>1, <2>1, CancelThins, SmpCancelThins, ThinnedPlaced
<1>7. ASSUME NEW p \in Ids, SelfMatchPullsAggressor(p) PROVE Placed(i)
  <2> DEFINE b == IF SelfMatch(book, cur, p) = "CANCEL_BOTH" THEN SmpCancel(book, p) ELSE book
  <2>1. cur \in Ids /\ book' = [b EXCEPT !.ord[cur].status = "CANCELLED"]
    BY <1>7, FacingFacts DEF SelfMatchPullsAggressor
  <2>2. Sound(b) /\ Thinned(book, b)
    <3>1. Thinned(book, book)
      BY DEF Thinned
    <3>2. QED
      BY <1>1, <3>1, SmpCancelThins
  <2> HIDE DEF b
  <2>3. b.ord[i].place \in {order(i).place, "none"}
    BY <1>1, <2>2, ThinnedTies DEF order
  <2>4. book'.ord[i].place = b.ord[i].place
    BY <2>1, <2>2 DEF Sound, Book, Order
  <2>5. QED
    BY <2>3, <2>4 DEF Placed
<1>8. CASE RejectImmediate
  <2> DEFINE c == [book EXCEPT !.ord[cur].status = "REJECTED"]
  <2>1. /\ cur \in Ids /\ order(cur).place = "none" /\ order(cur).status \in Working
        /\ book' = OcoLegEnded(c, cur)
    BY <1>8, ProcessingFacts DEF RejectImmediate
  <2>2. Sound(c) /\ c.ord[i].place = order(i).place
    <3>1. Sound(c) /\ OthersSame(book, c, cur) /\ c.ord[cur].place = "none"
      BY <1>1, <2>1, StatusSound DEF order
    <3>2. QED
      BY <2>1, <3>1 DEF OthersSame, order
  <2> HIDE DEF c
  <2>3. QED
    BY <2>1, <2>2, OcoLegEndedThins, ThinnedTies DEF Placed
<1>9. CASE DropSecondLeg
  <2>1. todo \in Ids /\ book' = [book EXCEPT !.ord[todo].status = "CANCELLED"]
    BY <1>9 DEF DropSecondLeg, IInv, HandlerOK, InHand
  <2>2. book'.ord[i].place = order(i).place
    BY <1>1, <2>1 DEF Book, Order, order
  <2>3. QED
    BY <2>2 DEF Placed
<1>10. ASSUME NEW j \in Ids, CancelOrder(j) PROVE Placed(i)
  BY <1>1, <1>10, SmpCancelThins, ThinnedPlaced DEF CancelOrder, SmpCancel
<1>11. ASSUME NEW g \in Ids, OcoCancel(g) PROVE Placed(i)
  <2> DEFINE c == Cancel(book, g)
             d == Cancel(c, g + 1)
  <2>1. g + 1 \in Ids
    BY <1>11 DEF IInv, OcoCancel, Registered, Sound, Bonded, order
  <2>2. Sound(c) /\ Thinned(book, c)
    BY <1>1, CancelThins
  <2> HIDE DEF c
  <2>3. Sound(d) /\ Thinned(c, d)
    BY <2>1, <2>2, CancelThins
  <2> HIDE DEF d
  <2>4. book'.ord = d.ord
    <3>1. book' = [d EXCEPT !.live = d.live \ {g}]
      BY <1>11 DEF OcoCancel, c, d
    <3>2. QED
      BY <2>3, <3>1 DEF Sound, Book
  <2>5. d.ord[i].place \in {order(i).place, "none"}
    BY <1>1, <2>2, <2>3, ThinnedTies DEF order
  <2>6. QED
    BY <2>4, <2>5 DEF Placed
<1>12. CASE \/ \E gw \in Gateways : QuoteCancel(gw) \/ KillSwitch(gw)
            \/ CallPhaseBegins \/ NoMessage
            \/ Withdrawn \/ HandlerRaises \/ Refused
            \/ \E j \in Ids : RunStop(j)
            \/ PostSecondLeg \/ HandlerReturns
  <2>1. book'.ord = book.ord
    BY <1>1, <1>12 DEF QuoteCancel, KillSwitch, CallPhaseBegins, NoMessage, vars, Withdrawn,
                       HandlerRaises, Refused, RunStop, PostSecondLeg, HandlerReturns, Book
  <2>2. QED
    BY <2>1 DEF Placed, order
<1>13. CASE Message
  BY <1>4, <1>10, <1>11, <1>12, <1>13 DEF Message
<1>14. CASE EngineStep
  BY <1>2, <1>3, <1>5, <1>6, <1>7, <1>8, <1>9, <1>12, <1>14 DEF EngineStep, EditsCur
<1>15. QED
  BY <1>13, <1>14 DEF Next

-----------------------------------------------------------------------------
(***************************************************************************)
(* Two-sided quotes.                                                       *)
(***************************************************************************)

\* A quote leg is a limit order, a bid if it is the first leg of its quote and
\* an ask if it is the second, and rests or is nowhere.
QuoteShape(b) ==
  \A i \in Ids : b.ord[i].bond = "quote" =>
    /\ b.ord[i].kind = "LIMIT" /\ b.ord[i].place \in {"none", "book"}
    /\ b.ord[i].side = IF i = b.ord[i].group THEN "BUY" ELSE "SELL"

\* A quote leg that rests and is not about to be withdrawn, or that the running
\* handler is still to post.
Alive(i) ==
  /\ order(i).bond = "quote"
  /\ \/ i \in {cur, todo}
     \/ order(i).place = "book" /\ ~(pc = "withdraw" /\ i \in clearing)

\* All the live legs of a participant are legs of one quote, which is the only
\* one of his that can be registered.
OneQuote ==
  /\ \A i, j \in Ids : Alive(i) /\ Alive(j) /\ order(i).gw = order(j).gw
                       => order(i).group = order(j).group
  /\ \A g \in book.live, i \in Ids :
       order(g).bond = "quote" /\ Alive(i) /\ order(i).gw = order(g).gw
       => order(i).group = g
  /\ \A g, h \in book.live :
       /\ order(g).bond = "quote" /\ order(h).bond = "quote"
       /\ order(g).gw = order(h).gw
       => g = h

QuoteInv == QuoteShape(book) /\ OneQuote

LEMMA QuotesInit ==
  ASSUME Init
  PROVE  QuoteInv
BY DEF Init, QuoteInv, QuoteShape, OneQuote, Alive, Absent, order

\* Steps that accept nothing keep the shape of every quote leg.
LEMMA ShapeKept ==
  ASSUME IInv, QuoteShape(book), Next,
         ~\E r \in NewOrders : NewOrder(r),
         ~\E l \in OcoPairs : OcoOrder(l),
         ~\E l \in QuotePairs : QuoteNew(l)
  PROVE  QuoteShape(book') /\ SameBonds(book, book')
<1>1. SameBonds(book, book')
  BY TiesKept
<1>2. SUFFICES ASSUME NEW i \in Ids, order(i).bond = "quote"
               PROVE  book'.ord[i].kind = "LIMIT" /\ book'.ord[i].place \in {"none", "book"}
  BY <1>1 DEF QuoteShape, SameBonds, SameTies, order
<1>3. order(i).kind = "LIMIT" /\ order(i).place \in {"none", "book"}
  BY <1>2 DEF QuoteShape, order
<1>4. book'.ord[i].kind = "LIMIT"
  <2>1. CASE CalmBook(book, book')
    BY <1>3, <2>1 DEF CalmBook, Calm, order
  <2>2. ASSUME NEW j \in Ids, NEW price \in AmendPrices, NEW qty \in AmendQtys,
               Amend(j, price, qty)
        PROVE  book'.ord[i].kind = "LIMIT"
    BY <1>3, <2>2, AmendOrders DEF OthersSame, order
  <2>3. ASSUME NEW p \in Ids, Trade(p)
        PROVE  book'.ord[i].kind = "LIMIT"
    <3>1. /\ book'.ord[cur].kind = order(cur).kind /\ book'.ord[p].kind = order(p).kind
          /\ \A j \in Ids \ {cur, p} : Calm(order(j), book'.ord[j])
      BY <2>3, TradeOrders
    <3>2. QED
      BY <1>3, <3>1 DEF Calm, order
  <2>4. QED
    BY <2>1, <2>2, <2>3, StepKinds
<1>5. book'.ord[i].place \in {"none", "book"}
  BY <1>3, StepPlaced DEF Placed, StopKinds
<1>6. QED
  BY <1>4, <1>5

\* What comes into the handler's hands was there, rests, or is a released stop.
LEMMA HandsFilled ==
  ASSUME IInv, Next, NEW i \in Ids, i \in {cur', todo'},
         ~\E r \in NewOrders : NewOrder(r),
         ~\E l \in OcoPairs : OcoOrder(l),
         ~\E l \in QuotePairs : QuoteNew(l)
  PROVE  i \in {cur, todo} \/ (pc = "idle" /\ order(i).place = "book")
           \/ order(i).place = "triggered"
<1>1. 0 \notin Ids
  BY DEF Ids
<1>2. CASE cur' \in {cur, 0} /\ todo' \in {todo, 0}
  BY <1>1, <1>2
<1>3. ASSUME NEW j \in Ids, NEW price \in AmendPrices, NEW qty \in AmendQtys,
             Amend(j, price, qty)
      PROVE  i \in {cur, todo} \/ (pc = "idle" /\ order(i).place = "book")
  <2>1. /\ pc = "idle" /\ order(j).place = "book"
        /\ (cur' = j /\ todo' = 0) \/ UNCHANGED dispatch
    BY <1>3 DEF Amend, Start
  <2>2. QED
    BY <1>1, <2>1 DEF dispatch
<1>4. ASSUME NEW j \in Ids, RunStop(j)
      PROVE  i \in {cur, todo} \/ order(i).place = "triggered"
  BY <1>4 DEF RunStop, Waiting
<1>5. CASE PostSecondLeg
  BY <1>1, <1>5 DEF PostSecondLeg
<1>6. CASE Message
  <2>1. CASE \/ \E gw \in Gateways : QuoteCancel(gw) \/ KillSwitch(gw)
             \/ \E j \in Ids : CancelOrder(j) \/ OcoCancel(j)
             \/ CallPhaseBegins \/ NoMessage
    BY <1>2, <2>1 DEF QuoteCancel, KillSwitch, CancelOrder, OcoCancel, CallPhaseBegins,
                      NoMessage, vars, dispatch
  <2>2. QED
    BY <1>3, <1>6, <2>1 DEF Message
<1>7. CASE EngineStep
  <2>1. CASE EditsCur
    BY <1>2, <2>1, CurEdited
  <2>2. CASE \/ Withdraw \/ Withdrawn \/ RejectImmediate \/ HandlerRaises
             \/ RefusePull \/ Refused \/ Settle \/ DropSecondLeg \/ HandlerReturns
             \/ \E p \in Ids : Trade(p) \/ SelfMatchPullsResting(p) \/ SelfMatchPullsAggressor(p)
    BY <1>2, <2>2 DEF Withdraw, Withdrawn, RejectImmediate, HandlerRaises, RefusePull,
                      Refused, Settle, DropSecondLeg, HandlerReturns, Trade,
                      SelfMatchPullsResting, SelfMatchPullsAggressor, dispatch
  <2>3. QED
    BY <1>4, <1>5, <1>7, <2>1, <2>2 DEF EngineStep, EditsCur
<1>8. QED
  BY <1>6, <1>7 DEF Next

\* Nothing becomes a live quote leg except by being accepted.
LEMMA AliveKept ==
  ASSUME IInv, QuoteShape(book), Next, NEW i \in Ids, Alive(i)',
         ~\E r \in NewOrders : NewOrder(r),
         ~\E l \in OcoPairs : OcoOrder(l),
         ~\E l \in QuotePairs : QuoteNew(l)
  PROVE  Alive(i)
<1>1. order(i).bond = "quote"
  BY ShapeKept DEF Alive, SameBonds, SameTies, order
<1>2. order(i).place \in {"none", "book"}
  BY <1>1 DEF QuoteShape, order
<1>3. CASE i \in {cur', todo'}
  <2>1. i \in {cur, todo} \/ (pc = "idle" /\ order(i).place = "book")
    BY <1>2, <1>3, HandsFilled
  <2>2. QED
    BY <1>1, <2>1 DEF Alive
<1>4. CASE i \notin {cur', todo'}
  <2>1. book'.ord[i].place = "book" /\ ~(pc' = "withdraw" /\ i \in clearing')
    BY <1>4 DEF Alive, order
  <2>2. i = cur \/ order(i).place = "book"
    BY <1>2, <2>1, StepPlaced DEF Placed
  <2>3. CASE pc = "withdraw" /\ i \in clearing /\ order(i).place = "book"
    <3>1. ~Withdrawn /\ ~EditsCur
      BY <2>3, CurEdited DEF Withdrawn
    <3>2. Withdraw
      BY <2>3, <3>1
      DEF Next, Message, EngineStep, EditsCur, NewOrder, OcoOrder, QuoteNew, QuoteCancel,
          KillSwitch, CancelOrder, OcoCancel, Amend, CallPhaseBegins, NoMessage,
          RejectImmediate, HandlerRaises, RefusePull, Refused, Trade, SelfMatchPullsResting,
          SelfMatchPullsAggressor, Settle, RunStop, PostSecondLeg, DropSecondLeg,
          HandlerReturns, Processing, Facing, Unfilled
    <3>3. PICK j \in clearing : book' = Cancel(book, j) /\ clearing' = clearing \ {j}
      BY <3>2 DEF Withdraw
    <3>4. i = j
      BY <2>1, <2>3, <3>2, <3>3 DEF Withdraw
    <3>5. book'.ord[i].status \in Dead
      BY <2>3, <3>3, <3>4, CancelTouches DEF IInv, order
    <3>6. Sound(book')
      BY InvStep DEF IInv
    <3>7. QED
      BY <2>1, <3>5, <3>6 DEF Sound, OrderSound, Working, Dead
  <2>4. QED
    BY <1>1, <2>2, <2>3 DEF Alive
<1>5. QED
  BY <1>3, <1>4

\* A step that accepts nothing and registers no quote keeps the invariant.
LEMMA QuotesFrame ==
  ASSUME IInv, QuoteInv, Next,
         ~\E r \in NewOrders : NewOrder(r),
         ~\E l \in OcoPairs : OcoOrder(l),
         ~\E l \in QuotePairs : QuoteNew(l),
         book'.live \subseteq book.live
  PROVE  QuoteInv'
<1>1. QuoteShape(book') /\ SameBonds(book, book') /\ QuoteShape(book)
  BY ShapeKept DEF QuoteInv
<1>2. \A i \in Ids : Alive(i)' => Alive(i)
  BY <1>1, AliveKept
<1>3. /\ \A i \in Ids : /\ book'.ord[i].gw = order(i).gw /\ book'.ord[i].bond = order(i).bond
                        /\ book'.ord[i].group = order(i).group
      /\ book.live \subseteq Ids
  BY <1>1 DEF SameBonds, SameTies, order, IInv, Sound, Book
<1>4. OneQuote'
  <2>1. \A i, j \in Ids : Alive(i)' /\ Alive(j)' /\ book'.ord[i].gw = book'.ord[j].gw
                          => book'.ord[i].group = book'.ord[j].group
    BY <1>2, <1>3 DEF QuoteInv, OneQuote
  <2>2. \A g \in book'.live, i \in Ids :
          book'.ord[g].bond = "quote" /\ Alive(i)' /\ book'.ord[i].gw = book'.ord[g].gw
          => book'.ord[i].group = g
    BY <1>2, <1>3 DEF QuoteInv, OneQuote
  <2>3. \A g, h \in book'.live :
          /\ book'.ord[g].bond = "quote" /\ book'.ord[h].bond = "quote"
          /\ book'.ord[g].gw = book'.ord[h].gw
          => g = h
    BY <1>3 DEF QuoteInv, OneQuote
  <2>4. QED
    BY <2>1, <2>2, <2>3 DEF OneQuote, order
<1>5. QED
  BY <1>1, <1>4 DEF QuoteInv

\* The withdrawal is over: the new quote is registered, the only one of its
\* owner because every live leg of his is its own.
LEMMA WithdrawnQuotes ==
  ASSUME IInv, PairInv, QuoteInv, Withdrawn
  PROVE  QuoteInv'
<1>1. Next /\ pc = "withdraw"
  BY DEF Withdrawn, Next, EngineStep
<1>2. /\ ~\E r \in NewOrders : NewOrder(r)
      /\ ~\E l \in OcoPairs : OcoOrder(l)
      /\ ~\E l \in QuotePairs : QuoteNew(l)
  BY <1>1 DEF NewOrder, OcoOrder, QuoteNew
<1>3. CASE todo = 0
  BY <1>1, <1>2, <1>3, QuotesFrame DEF Withdrawn
<1>4. CASE todo # 0
  <2>1. /\ book'.live = book.live \cup {cur} /\ book'.ord = book.ord
        /\ cur' = cur /\ todo' = todo /\ pc' = "process" /\ clearing = {}
    BY <1>4 DEF Withdrawn, IInv, TypeOK, Book
  <2>2. cur \in Ids /\ order(cur).bond = "quote" /\ order(cur).group = cur /\ Alive(cur)
    <3>1. InHand(cur) /\ order(cur).group = cur
      BY <1>1, <1>4 DEF IInv, HandlerOK
    <3>2. order(cur).bond = "quote"
      BY <1>1, <1>4 DEF PairInv, SecondLeg
    <3>3. QED
      BY <3>1, <3>2 DEF InHand, Alive
  <2>3. \A i \in Ids : Alive(i)' => Alive(i)
    BY <2>1 DEF Alive, order
  <2>4. /\ \A i \in Ids : book'.ord[i] = order(i)
        /\ book.live \subseteq Ids /\ book'.live \subseteq Ids
    BY <2>1, <2>2 DEF order, IInv, Sound, Book
  <2>5. \A i, j \in Ids : Alive(i)' /\ Alive(j)' /\ book'.ord[i].gw = book'.ord[j].gw
                          => book'.ord[i].group = book'.ord[j].group
    BY <2>3, <2>4 DEF QuoteInv, OneQuote
  <2>6. ASSUME NEW g \in book'.live, NEW i \in Ids, book'.ord[g].bond = "quote",
               Alive(i)', book'.ord[i].gw = book'.ord[g].gw
        PROVE  book'.ord[i].group = g
    <3>1. Alive(i) /\ order(i).gw = order(g).gw /\ order(g).bond = "quote"
      BY <2>3, <2>4, <2>6
    <3>2. CASE g = cur
      BY <2>2, <2>4, <3>1, <3>2 DEF QuoteInv, OneQuote
    <3>3. CASE g \in book.live
      BY <2>4, <3>1, <3>3 DEF QuoteInv, OneQuote
    <3>4. QED
      BY <2>1, <3>2, <3>3
  <2>7. ASSUME NEW g \in book'.live, NEW h \in book'.live,
               book'.ord[g].bond = "quote", book'.ord[h].bond = "quote",
               book'.ord[g].gw = book'.ord[h].gw
        PROVE  g = h
    <3>1. order(g).bond = "quote" /\ order(h).bond = "quote" /\ order(g).gw = order(h).gw
      BY <2>4, <2>7
    <3>2. CASE g \in book.live /\ h \in book.live
      BY <3>1, <3>2 DEF QuoteInv, OneQuote
    <3>3. CASE g = cur /\ h \in book.live
      BY <2>2, <3>1, <3>3 DEF QuoteInv, OneQuote
    <3>4. CASE h = cur /\ g \in book.live
      BY <2>2, <3>1, <3>4 DEF QuoteInv, OneQuote
    <3>5. QED
      BY <2>1, <3>2, <3>3, <3>4
  <2>8. OneQuote'
    BY <2>5, <2>6, <2>7 DEF OneQuote, order
  <2>9. QuoteShape(book')
    BY <2>4 DEF QuoteInv, QuoteShape, order
  <2>10. QED
    BY <2>8, <2>9 DEF QuoteInv
<1>5. QED
  BY <1>3, <1>4

\* A step that accepts orders that are no quote legs.
LEMMA OthersAcceptedQuotes ==
  ASSUME IInv, QuoteInv, pc = "idle", pc' = "process", NEW new \in SUBSET Ids,
         {cur', todo'} \subseteq new \cup {0},
         \A i \in Ids \ new : book'.ord[i] = order(i),
         \A i \in new : book'.ord[i].bond # "quote",
         \A g \in book'.live \ book.live : g \in new,
         book'.live \subseteq Ids
  PROVE  QuoteInv'
<1>1. \A i \in Ids : Alive(i)' => i \notin new /\ Alive(i)
  <2>1. SUFFICES ASSUME NEW i \in Ids, Alive(i)' PROVE i \notin new /\ Alive(i)
    OBVIOUS
  <2>2. i \notin new /\ book'.ord[i] = order(i)
    BY <2>1 DEF Alive, order
  <2>3. i \notin {cur', todo'}
    BY <2>2 DEF Ids
  <2>4. QED
    BY <2>1, <2>2, <2>3 DEF Alive, order
<1>2. \A g \in book'.live : book'.ord[g].bond = "quote" =>
         g \in book.live /\ g \notin new /\ g \in Ids
  OBVIOUS
<1>3. QuoteShape(book')
  BY DEF QuoteInv, QuoteShape, order
<1>4. OneQuote'
  <2>1. \A i, j \in Ids : Alive(i)' /\ Alive(j)' /\ book'.ord[i].gw = book'.ord[j].gw
                          => book'.ord[i].group = book'.ord[j].group
    BY <1>1 DEF QuoteInv, OneQuote
  <2>2. \A g \in book'.live, i \in Ids :
          book'.ord[g].bond = "quote" /\ Alive(i)' /\ book'.ord[i].gw = book'.ord[g].gw
          => book'.ord[i].group = g
    BY <1>1, <1>2 DEF QuoteInv, OneQuote
  <2>3. \A g, h \in book'.live :
          /\ book'.ord[g].bond = "quote" /\ book'.ord[h].bond = "quote"
          /\ book'.ord[g].gw = book'.ord[h].gw
          => g = h
    BY <1>2 DEF QuoteInv, OneQuote
  <2>4. QED
    BY <2>1, <2>2, <2>3 DEF OneQuote, order
<1>5. QED
  BY <1>3, <1>4 DEF QuoteInv

LEMMA NewOrderQuotes ==
  ASSUME IInv, PairInv, QuoteInv, NEW r \in NewOrders, NewOrder(r)
  PROVE  QuoteInv'
<1>1. /\ born + 1 \in Ids /\ pc = "idle" /\ pc' = "process"
      /\ cur' = born + 1 /\ todo' = 0 /\ book'.live = book.live
  BY NewOrderOrders DEF NewOrder, Start
<1>2. /\ book'.ord[born + 1].bond = "none"
      /\ \A i \in Ids \ {born + 1} : book'.ord[i] = order(i)
  BY NewOrderPaired DEF PairInv
<1>3. book.live \subseteq Ids
  BY DEF IInv, Sound, Book
<1>4. {born + 1} \in SUBSET Ids /\ {cur', todo'} \subseteq {born + 1} \cup {0}
  BY <1>1
<1>5. QED
  BY <1>1, <1>2, <1>3, <1>4, OthersAcceptedQuotes

LEMMA OcoOrderQuotes ==
  ASSUME IInv, PairInv, QuoteInv, NEW l \in OcoPairs, OcoOrder(l)
  PROVE  QuoteInv'
<1> DEFINE new == {born + 1, born + 2}
<1>1. l \in Request \X Request /\ "oco" \in {"oco", "quote"}
  BY RequestsAssumption
<1>2. /\ pc = "idle" /\ pc' = "process" /\ cur' = born + 1 /\ todo' = born + 2
      /\ new \in SUBSET Ids /\ book'.live = book.live \cup {born + 1}
  <2>1. born + 1 \in Ids /\ born + 1 + 1 \in Ids /\ born \in Nat
    BY <1>1, PairOrders DEF IInv, TypeOK
  <2>2. book'.live = book.live \cup {born + 1}
    BY <1>1, PairOrders
  <2>3. QED
    BY <2>1, <2>2 DEF OcoOrder, Start
<1>3. /\ \A i \in new : book'.ord[i].bond = "oco"
      /\ \A i \in Ids \ new : book'.ord[i] = order(i)
  BY <1>1, AcceptedPaired DEF PairInv
<1>4. book.live \subseteq Ids
  BY DEF IInv, Sound, Book
<1>5. {cur', todo'} \subseteq new \cup {0} /\ book'.live \subseteq Ids
      /\ \A g \in book'.live \ book.live : g \in new
  BY <1>2, <1>4
<1> HIDE DEF new
<1>6. QED
  BY <1>2, <1>3, <1>5, OthersAcceptedQuotes

\* quote.new: whatever rests for its owner is in the batch to be withdrawn,
\* because it is a leg of the quote registered or, if none is, an orphan.
LEMMA QuoteNewQuotes ==
  ASSUME IInv, PairInv, QuoteInv, NEW l \in QuotePairs, QuoteNew(l)
  PROVE  QuoteInv'
<1> DEFINE new == {born + 1, born + 2}
           gw  == l[1].gw
<1>1. l \in Request \X Request /\ "quote" \in {"oco", "quote"}
  BY RequestsAssumption
<1>2. /\ pc = "idle" /\ pc' = "withdraw" /\ cur' = born + 1 /\ todo' = born + 2
      /\ clearing' = QuoteLegs(gw)
      /\ new \in SUBSET Ids /\ book'.live = book.live \ QuoteOf(gw)
      /\ born \in Nat /\ born + 1 + 1 = born + 2
  <2>1. born + 1 \in Ids /\ born + 1 + 1 \in Ids /\ born \in Nat
    BY <1>1, PairOrders DEF IInv, TypeOK
  <2>2. born + 1 + 1 = born + 2
    BY <2>1
  <2>3. book'.live = book.live \ QuoteOf(gw)
    BY <1>1, PairOrders
  <2>4. QED
    BY <2>1, <2>2, <2>3 DEF QuoteNew
<1>3. /\ \A i \in new : /\ book'.ord[i].bond = "quote" /\ book'.ord[i].group = born + 1
                        /\ book'.ord[i].gw = gw
      /\ \A i \in Ids \ new : book'.ord[i] = order(i)
  BY <1>1, AcceptedPaired DEF PairInv
<1>4. \A i \in new : /\ book'.ord[i].kind = "LIMIT" /\ book'.ord[i].place = "none"
                     /\ book'.ord[i].side = IF i = born + 1 THEN "BUY" ELSE "SELL"
  <2>1. /\ book'.ord[born + 1] = Accepted(l[1], "quote", born + 1)
        /\ book'.ord[born + 2] = Accepted(l[2], "quote", born + 1)
    BY <1>1, <1>2, PairOrders
  <2>2. /\ l[1].kind = "LIMIT" /\ l[2].kind = "LIMIT"
        /\ l[1].side = "BUY" /\ l[2].side = "SELL"
    BY GatesAssumption
  <2>3. QED
    BY <1>2, <2>1, <2>2 DEF Accepted
<1>5. book.live \subseteq Ids
  BY DEF IInv, Sound, Book
<1> HIDE DEF new, gw
<1>6. QuoteShape(book')
  <2>1. SUFFICES ASSUME NEW i \in Ids, book'.ord[i].bond = "quote"
                 PROVE  /\ book'.ord[i].kind = "LIMIT" /\ book'.ord[i].place \in {"none", "book"}
                        /\ book'.ord[i].side =
                             IF i = book'.ord[i].group THEN "BUY" ELSE "SELL"
    BY DEF QuoteShape
  <2>2. CASE i \in new
    BY <1>3, <1>4, <2>2
  <2>3. CASE i \notin new
    BY <1>3, <2>1, <2>3 DEF QuoteInv, QuoteShape, order
  <2>4. QED
    BY <2>2, <2>3
<1>7. ASSUME NEW i \in Ids, i \notin new, Alive(i)'
      PROVE  Alive(i) /\ order(i).gw # gw
  <2>1. book'.ord[i] = order(i) /\ i \notin {cur', todo'}
    BY <1>2, <1>3, <1>7 DEF new
  <2>2. order(i).bond = "quote" /\ order(i).place = "book" /\ i \notin QuoteLegs(gw)
    BY <1>2, <1>7, <2>1 DEF Alive, order
  <2>3. Alive(i)
    BY <1>2, <2>2 DEF Alive
  <2>4. ASSUME order(i).gw = gw PROVE FALSE
    <3>1. CASE QuoteOf(gw) = {}
      BY <2>2, <2>4, <3>1 DEF QuoteLegs, Orphans
    <3>2. ASSUME NEW g \in QuoteOf(gw) PROVE FALSE
      <4>1. g \in book.live /\ order(g).bond = "quote" /\ order(g).gw = gw
        BY <3>2 DEF QuoteOf
      <4>2. order(i).group = g
        BY <2>3, <2>4, <4>1 DEF QuoteInv, OneQuote
      <4>3. QED
        BY <2>2, <3>2, <4>2 DEF QuoteLegs
    <3>3. QED
      BY <3>1, <3>2
  <2>5. QED
    BY <2>3, <2>4
<1>8. ASSUME NEW g \in book'.live, book'.ord[g].bond = "quote"
      PROVE  /\ g \in book.live /\ g \in Ids /\ g \notin new
             /\ book'.ord[g] = order(g) /\ order(g).gw # gw
  <2>1. g \in book.live /\ g \in Ids /\ g \notin QuoteOf(gw)
    BY <1>2, <1>5, <1>8
  <2>2. order(g).bond # "none"
    BY <2>1 DEF IInv, Registered
  <2>3. g \notin new
    <3>1. \A i \in {born + 1, born + 1 + 1} : order(i).bond = "none"
      BY <1>1, PairOrders
    <3>2. QED
      BY <1>2, <2>2, <3>1 DEF new
  <2>4. QED
    BY <1>3, <1>8, <2>1, <2>3 DEF QuoteOf, order
<1>9. \A i, j \in Ids : Alive(i)' /\ Alive(j)' /\ book'.ord[i].gw = book'.ord[j].gw
                        => book'.ord[i].group = book'.ord[j].group
  <2>1. SUFFICES ASSUME NEW i \in Ids, NEW j \in Ids, Alive(i)', Alive(j)',
                        book'.ord[i].gw = book'.ord[j].gw
                 PROVE  book'.ord[i].group = book'.ord[j].group
    OBVIOUS
  <2>2. CASE i \in new /\ j \in new
    BY <1>3, <2>2
  <2>3. CASE i \notin new /\ j \notin new
    BY <1>3, <1>7, <2>1, <2>3 DEF QuoteInv, OneQuote
  <2>4. CASE i \in new /\ j \notin new
    BY <1>3, <1>7, <2>1, <2>4
  <2>5. CASE i \notin new /\ j \in new
    BY <1>3, <1>7, <2>1, <2>5
  <2>6. QED
    BY <2>2, <2>3, <2>4, <2>5
<1>10. \A g \in book'.live, i \in Ids :
         book'.ord[g].bond = "quote" /\ Alive(i)' /\ book'.ord[i].gw = book'.ord[g].gw
         => book'.ord[i].group = g
  <2>1. SUFFICES ASSUME NEW g \in book'.live, NEW i \in Ids, book'.ord[g].bond = "quote",
                        Alive(i)', book'.ord[i].gw = book'.ord[g].gw
                 PROVE  book'.ord[i].group = g
    OBVIOUS
  <2>2. g \in book.live /\ book'.ord[g] = order(g) /\ order(g).gw # gw
    BY <1>8, <2>1
  <2>3. i \notin new
    BY <1>3, <2>1, <2>2
  <2>4. QED
    BY <1>3, <1>7, <2>1, <2>2, <2>3 DEF QuoteInv, OneQuote
<1>11. \A g, h \in book'.live :
         /\ book'.ord[g].bond = "quote" /\ book'.ord[h].bond = "quote"
         /\ book'.ord[g].gw = book'.ord[h].gw
         => g = h
  BY <1>8 DEF QuoteInv, OneQuote
<1>12. QED
  BY <1>6, <1>9, <1>10, <1>11 DEF QuoteInv, OneQuote, order

\* Nothing is registered except by an acceptance and at the end of a withdrawal.
LEMMA LiveFalls ==
  ASSUME IInv, Next, ~Withdrawn,
         ~\E r \in NewOrders : NewOrder(r),
         ~\E l \in OcoPairs : OcoOrder(l),
         ~\E l \in QuotePairs : QuoteNew(l)
  PROVE  book'.live \subseteq book.live
<1>1. Sound(book) /\ book \in Book
  BY DEF IInv, Sound
<1>2. ASSUME Thinned(book, book') PROVE book'.live \subseteq book.live
  BY <1>2 DEF Thinned
<1>3. CASE EditsCur
  BY <1>3, CurEdited
<1>4. CASE Settle
  <2>1. cur \in Ids /\ last \in Int /\ released \in Nat
    BY <1>4, PricesAssumption DEF Settle, IInv, TypeOK, HandlerOK, NoPrice
  <2>2. /\ Sound(OcoLegEnded(book, cur)) /\ OcoLegEnded(book, cur).live \subseteq book.live
    BY <1>1, <2>1, OcoLegEndedThins DEF Thinned
  <2>3. book'.live = OcoLegEnded(book, cur).live
    BY <1>4, <2>1, <2>2, ReleaseSound DEF Settle
  <2>4. QED
    BY <2>2, <2>3
<1>5. ASSUME NEW j \in Ids, NEW price \in AmendPrices, NEW qty \in AmendQtys,
             Amend(j, price, qty)
      PROVE  book'.live \subseteq book.live
  BY <1>5, AmendOrders
<1>6. ASSUME NEW p \in Ids, Trade(p)
      PROVE  book'.live \subseteq book.live
  BY <1>6, FacingFacts, ApplyFillSound DEF Trade, order
<1>7. CASE Withdraw \/ RefusePull \/ \E p \in Ids : SelfMatchPullsResting(p)
  <2>1. PICK j \in Ids : book' = Cancel(book, j) \/ book' = SmpCancel(book, j)
    BY <1>7 DEF Withdraw, RefusePull, SelfMatchPullsResting, IInv, TypeOK
  <2>2. QED
    BY <1>1, <1>2, <2>1, CancelThins, SmpCancelThins
<1>8. ASSUME NEW p \in Ids, SelfMatchPullsAggressor(p) PROVE book'.live \subseteq book.live
  <2> DEFINE b == IF SelfMatch(book, cur, p) = "CANCEL_BOTH" THEN SmpCancel(book, p) ELSE book
  <2>1. book' = [b EXCEPT !.ord[cur].status = "CANCELLED"]
    BY <1>8 DEF SelfMatchPullsAggressor
  <2>2. Sound(b) /\ b.live \subseteq book.live
    BY <1>1, SmpCancelThins DEF Thinned
  <2> HIDE DEF b
  <2>3. QED
    BY <2>1, <2>2 DEF Sound, Book
<1>9. CASE RejectImmediate
  <2> DEFINE c == [book EXCEPT !.ord[cur].status = "REJECTED"]
  <2>1. /\ cur \in Ids /\ order(cur).place = "none" /\ book' = OcoLegEnded(c, cur)
    BY <1>9, ProcessingFacts DEF RejectImmediate
  <2>2. Sound(c) /\ c.live = book.live
    BY <1>1, <2>1, StatusSound DEF order
  <2> HIDE DEF c
  <2>3. QED
    BY <2>1, <2>2, OcoLegEndedThins DEF Thinned
<1>10. CASE DropSecondLeg
  <2>1. book' = [book EXCEPT !.ord[todo].status = "CANCELLED"]
    BY <1>10 DEF DropSecondLeg
  <2>2. QED
    BY <1>1, <2>1 DEF Book
<1>11. ASSUME NEW j \in Ids, CancelOrder(j) PROVE book'.live \subseteq book.live
  BY <1>1, <1>2, <1>11, SmpCancelThins DEF CancelOrder, SmpCancel
<1>12. ASSUME NEW g \in Ids, OcoCancel(g) PROVE book'.live \subseteq book.live
  <2>1. g + 1 \in Ids
    BY <1>12 DEF IInv, OcoCancel, Registered, Sound, Bonded, order
  <2>2. Sound(Cancel(book, g)) /\ Cancel(book, g).live \subseteq book.live
    BY <1>1, CancelThins DEF Thinned
  <2>3. /\ Sound(Cancel(Cancel(book, g), g + 1))
        /\ Cancel(Cancel(book, g), g + 1).live \subseteq book.live
    BY <2>1, <2>2, CancelThins DEF Thinned
  <2>4. book'.live = Cancel(Cancel(book, g), g + 1).live \ {g}
    BY <1>12, <2>3 DEF OcoCancel, Sound, Book
  <2>5. QED
    BY <2>3, <2>4
<1>13. CASE \/ \E gw \in Gateways : QuoteCancel(gw) \/ KillSwitch(gw)
            \/ CallPhaseBegins \/ NoMessage
            \/ HandlerRaises \/ Refused
            \/ \E j \in Ids : RunStop(j)
            \/ PostSecondLeg \/ HandlerReturns
  BY <1>1, <1>13 DEF QuoteCancel, KillSwitch, CallPhaseBegins, NoMessage, vars,
                     HandlerRaises, Refused, RunStop, PostSecondLeg, HandlerReturns, Book
<1>14. CASE Message
  BY <1>5, <1>11, <1>12, <1>13, <1>14 DEF Message
<1>15. CASE EngineStep
  BY <1>3, <1>4, <1>6, <1>7, <1>8, <1>9, <1>10, <1>13, <1>15 DEF EngineStep, EditsCur
<1>16. QED
  BY <1>14, <1>15 DEF Next

LEMMA QuotesStep ==
  ASSUME IInv, PairInv, QuoteInv, [Next]_vars
  PROVE  QuoteInv'
<1>1. CASE UNCHANGED vars
  BY <1>1 DEF vars, dispatch, QuoteInv, QuoteShape, OneQuote, Alive, order
<1>2. CASE Withdrawn
  BY <1>2, WithdrawnQuotes
<1>3. CASE \/ \E r \in NewOrders : NewOrder(r)
           \/ \E l \in OcoPairs : OcoOrder(l)
           \/ \E l \in QuotePairs : QuoteNew(l)
  BY <1>3, NewOrderQuotes, OcoOrderQuotes, QuoteNewQuotes
<1>4. ASSUME Next, ~Withdrawn,
             ~\E r \in NewOrders : NewOrder(r),
             ~\E l \in OcoPairs : OcoOrder(l),
             ~\E l \in QuotePairs : QuoteNew(l)
      PROVE  book'.live \subseteq book.live
  BY <1>4, LiveFalls
<1>5. QED
  BY <1>1, <1>2, <1>3, <1>4, QuotesFrame

THEOREM QuoteInvariance == Spec => []QuoteInv
<1>1. Init => QuoteInv
  BY QuotesInit
<1>2. QuoteInv /\ PairInv /\ IInv /\ [Next]_vars => QuoteInv'
  BY QuotesStep
<1>3. QED
  BY <1>1, <1>2, Invariance, PairInvariance, PTL DEF Spec

\* Between messages a participant rests at most one quote leg on each side: a
\* new quote withdraws the legs of the registered one, and what a fill left
\* behind when the quote it belonged to was unregistered.
THEOREM QuotesReplaced == Spec => []OneQuotePerSide
<1>1. IInv /\ PairInv /\ QuoteInv => OneQuotePerSide
  <2>1. SUFFICES ASSUME IInv, PairInv, QuoteInv, pc = "idle", NEW i \in Ids, NEW j \in Ids,
                        order(i).place = "book", order(j).place = "book",
                        order(i).bond = "quote", order(j).bond = "quote",
                        order(i).gw = order(j).gw, order(i).side = order(j).side
                 PROVE  i = j
    BY DEF OneQuotePerSide
  <2>2. order(i).group = order(j).group
    BY <2>1 DEF QuoteInv, OneQuote, Alive
  <2>3. j \in {i, Sibling(book, i)}
    BY <2>1, <2>2, Groups DEF IInv, PairInv, order
  <2>4. {i, Sibling(book, i)} = {order(i).group, order(i).group + 1}
    BY <2>1, Siblings DEF IInv, order
  <2>5. /\ order(i).side = IF i = order(i).group THEN "BUY" ELSE "SELL"
        /\ order(j).side = IF j = order(i).group THEN "BUY" ELSE "SELL"
    BY <2>1, <2>2 DEF QuoteInv, QuoteShape, order
  <2>6. (i = order(i).group) <=> (j = order(i).group)
    BY <2>1, <2>5
  <2>7. QED
    BY <2>3, <2>4, <2>6
<1>2. QED
  BY <1>1, Invariance, PairInvariance, QuoteInvariance, PTL DEF OneQuotePerSide

-----------------------------------------------------------------------------
(***************************************************************************)
(* No order is lost: what works is held by the book or is in hand.         *)
(***************************************************************************)

\* A handler has order i in hand, or keeps it as its second leg.
MayHold(i) == i = todo \/ (i = cur /\ pc \in {"withdraw", "process", "sweep"})
NoneLost == \A i \in Ids : InHand(i) => MayHold(i)

\* What ArmStop needs of a trailing stop: a trigger, or a price to set it by.
TriggerKnown(i) ==
  order(i).kind = "TRAILING_STOP" /\ order(i).stop = NoPrice => last # NoPrice
TriggersKnown ==
  /\ todo # 0 => TriggerKnown(todo)
  /\ pc \in {"withdraw", "process"} /\ cur # 0 => TriggerKnown(cur)

\* No leg of an OCO pair leaves its trigger to be set.
LegsKnown ==
  \A l \in OcoPairs : \A k \in {1, 2} :
    ~(l[k].kind = "TRAILING_STOP" /\ l[k].stop = NoPrice)

\* What becomes of an order that is not the one processed: nothing, or the
\* book held it and it does not come into anybody's hands.
Aside(i) == book'.ord[i] = order(i) \/ (order(i).place # "none" /\ ~InHand(i)')

LEMMA ThinnedAside ==
  ASSUME Sound(book), NEW i \in Ids, Thinned(book, book')
  PROVE  Aside(i)
<1>1. book'.ord[i] # order(i) => order(i).place # "none" /\ book'.ord[i].status \in Dead
  BY ThinnedTies DEF order
<1>2. QED
  BY <1>1 DEF Aside, InHand, Working, Dead, order

\* Steps that leave the order in hand alone, too.
LEMMA CalmAside ==
  ASSUME IInv, NEW i \in Ids,
         \/ Withdraw \/ Withdrawn \/ RefusePull \/ Refused \/ Settle
         \/ \E p \in Ids : SelfMatchPullsResting(p)
         \/ \E j \in Ids : RunStop(j)
         \/ PostSecondLeg \/ HandlerReturns
  PROVE  Aside(i)
<1>1. Sound(book) /\ book \in Book
  BY DEF IInv, Sound
<1>2. CASE Withdraw \/ RefusePull \/ \E p \in Ids : SelfMatchPullsResting(p)
  <2>1. PICK j \in Ids : book' = Cancel(book, j) \/ book' = SmpCancel(book, j)
    BY <1>2 DEF Withdraw, RefusePull, SelfMatchPullsResting, IInv, TypeOK
  <2>2. QED
    BY <1>1, <2>1, CancelThins, SmpCancelThins, ThinnedAside
<1>3. CASE \/ Withdrawn \/ Refused \/ PostSecondLeg \/ HandlerReturns
           \/ \E j \in Ids : RunStop(j)
  <2>1. book'.ord = book.ord
    BY <1>1, <1>3 DEF Withdrawn, Refused, PostSecondLeg, HandlerReturns, RunStop, Book
  <2>2. QED
    BY <2>1 DEF Aside, order
<1>4. CASE Settle
  <2> DEFINE b == OcoLegEnded(book, cur)
  <2>1. /\ cur \in Ids /\ last \in Int /\ released \in Nat
        /\ book' \in {b, Release(b, last, released)}
    BY <1>4, PricesAssumption DEF Settle, IInv, TypeOK, HandlerOK, NoPrice
  <2>2. Sound(b) /\ Thinned(book, b)
    BY <1>1, <2>1, OcoLegEndedThins
  <2>3. b.ord[i] # order(i) => order(i).place # "none" /\ b.ord[i].status \in Dead
    <3> HIDE DEF b
    <3>1. QED
      BY <1>1, <2>2, ThinnedTies DEF order
  <2> HIDE DEF b
  <2>4. \/ book'.ord[i] = b.ord[i]
        \/ /\ b.ord[i].place \in {"armed", "trailing"}
           /\ book'.ord[i].place \in {b.ord[i].place, "triggered"}
    <3>1. CASE book' = b
      BY <3>1
    <3>2. CASE book' = Release(b, last, released)
      <4>1. LET c == Release(b, last, released)
            IN  \/ c.ord[i] = b.ord[i]
                \/ /\ b.ord[i].place \in {"armed", "trailing"}
                   /\ c.ord[i].place \in {b.ord[i].place, "triggered"}
        BY <2>1, <2>2, ReleaseSound
      <4>2. QED
        BY <3>2, <4>1
    <3>3. QED
      BY <2>1, <3>1, <3>2
  <2>5. CASE book'.ord[i] = b.ord[i]
    BY <2>3, <2>5 DEF Aside, InHand, Working, Dead, order
  <2>6. CASE book'.ord[i] # b.ord[i]
    <3>1. book'.ord[i].place # "none" /\ b.ord[i].place # "none"
      BY <2>4, <2>6
    <3>2. order(i).place # "none"
      BY <2>3, <3>1
    <3>3. QED
      BY <3>1, <3>2 DEF Aside, InHand, order
  <2>7. QED
    BY <2>5, <2>6
<1>5. QED
  BY <1>2, <1>3, <1>4

\* Steps that change the order in hand.
LEMMA HandAside ==
  ASSUME IInv, NEW i \in Ids \ {cur},
         EditsCur \/ RejectImmediate
           \/ \E p \in Ids : Trade(p) \/ SelfMatchPullsAggressor(p)
  PROVE  Aside(i)
<1>1. Sound(book) /\ book \in Book
  BY DEF IInv, Sound
<1>2. CASE EditsCur
  BY <1>2, CurEdited DEF OthersSame, Aside, order
<1>3. CASE RejectImmediate
  <2> DEFINE c == [book EXCEPT !.ord[cur].status = "REJECTED"]
  <2>1. /\ cur \in Ids /\ order(cur).place = "none" /\ book' = OcoLegEnded(c, cur)
    BY <1>3, ProcessingFacts DEF RejectImmediate
  <2>2. Sound(c) /\ c.ord[i] = order(i)
    <3>1. Sound(c) /\ OthersSame(book, c, cur)
      BY <1>1, <2>1, StatusSound DEF order
    <3>2. QED
      BY <3>1 DEF OthersSame, order
  <2> HIDE DEF c
  <2>3. /\ c.ord[i].place = "none" => book'.ord[i] = c.ord[i]
        /\ book'.ord[i] # c.ord[i] => book'.ord[i].status \in Dead
    BY <2>1, <2>2, OcoLegEndedThins, ThinnedTies
  <2>4. QED
    BY <2>2, <2>3 DEF Aside, InHand, Working, Dead, order
<1>4. ASSUME NEW p \in Ids, Trade(p)
      PROVE  Aside(i)
  <2>1. PICK d : /\ Sound(d) /\ \A j \in Ids \ {cur, p} : d.ord[j] = book.ord[j]
                 /\ d.ord[p].status = IF d.ord[p].rem = 0 THEN "FILLED" ELSE "PARTIAL"
                 /\ d.ord[p].place = IF d.ord[p].rem = 0 THEN "none" ELSE "book"
                 /\ book' = FillHooks(d, cur, p)
    BY <1>4, TradeTakes
  <2>2. cur \in Ids /\ order(p).place = "book"
    BY <1>4, FacingFacts DEF Trade
  <2>3. Thinned(d, book')
    BY <2>1, <2>2, FillHooksThin
  <2>4. book'.ord[i] # d.ord[i] => d.ord[i].place # "none" /\ book'.ord[i].status \in Dead
    BY <2>1, <2>3, ThinnedTies
  <2>5. CASE i = p
    <3>1. d.ord[p].status = "FILLED" \/ d.ord[p].place = "book"
      BY <2>1
    <3>2. ~InHand(p)'
      BY <2>4, <2>5, <3>1 DEF InHand, Working, Dead, order
    <3>3. QED
      BY <2>2, <2>5, <3>2 DEF Aside
  <2>6. CASE i # p
    BY <2>1, <2>4, <2>6 DEF Aside, InHand, Working, Dead, order
  <2>7. QED
    BY <2>5, <2>6
<1>5. ASSUME NEW p \in Ids, SelfMatchPullsAggressor(p)
      PROVE  Aside(i)
  <2> DEFINE b == IF SelfMatch(book, cur, p) = "CANCEL_BOTH" THEN SmpCancel(book, p) ELSE book
  <2>1. cur \in Ids /\ book' = [b EXCEPT !.ord[cur].status = "CANCELLED"]
    BY <1>5, FacingFacts DEF SelfMatchPullsAggressor
  <2>2. Sound(b) /\ Thinned(book, b)
    <3>1. Thinned(book, book)
      BY DEF Thinned
    <3>2. QED
      BY <1>1, <3>1, SmpCancelThins
  <2> HIDE DEF b
  <2>3. b.ord[i] # order(i) => order(i).place # "none" /\ b.ord[i].status \in Dead
    BY <1>1, <2>2, ThinnedTies DEF order
  <2>4. book'.ord[i] = b.ord[i]
    BY <2>1, <2>2 DEF Sound, Book
  <2>5. QED
    BY <2>3, <2>4 DEF Aside, InHand, Working, Dead, order
<1>6. QED
  BY <1>2, <1>3, <1>4, <1>5

\* A symbol that has traded has traded.
LEMMA LastStays ==
  ASSUME IInv, Next, last # NoPrice
  PROVE  last' # NoPrice
<1>1. ASSUME NEW p \in Ids, Trade(p)
      PROVE  last' # NoPrice
  <2>1. order(p) \in Order /\ OrderSound(order(p)) /\ order(p).place = "book"
    BY <1>1, FacingFacts DEF Trade
  <2>2. order(p).price \in Prices
    BY <2>1 DEF OrderSound, Restable
  <2>3. QED
    BY <1>1, <2>2, PricesAssumption DEF Trade, NoPrice
<1>2. CASE \/ \E r \in NewOrders : NewOrder(r)
           \/ \E l \in OcoPairs : OcoOrder(l)
           \/ \E l \in QuotePairs : QuoteNew(l)
           \/ \E i \in Ids, price \in AmendPrices, qty \in AmendQtys : Amend(i, price, qty)
  BY <1>2 DEF NewOrder, OcoOrder, QuoteNew, Amend
<1>3. QED
  BY <1>1, <1>2, StepKinds

\* So no handler raises.
LEMMA NoneRaises ==
  ASSUME IInv, TriggersKnown
  PROVE  ~HandlerRaises
<1>1. SUFFICES ASSUME HandlerRaises
               PROVE  FALSE
  OBVIOUS
<1>2. cur \in Ids /\ pc = "process" /\ TrailingRaises(order(cur))
  BY <1>1, ProcessingFacts DEF HandlerRaises
<1>3. cur # 0
  BY <1>2, MaxOrdersAssumption DEF Ids
<1>4. QED
  BY <1>2, <1>3 DEF TriggersKnown, TriggerKnown, TrailingRaises

\* Where an engine step leaves the handler.
LEMMA EngineMoves ==
  ASSUME EngineStep
  PROVE  /\ todo' \in {todo, 0}
         /\ pc' \in {"withdraw", "process"} =>
              Withdraw \/ Withdrawn \/ (\E i \in Ids : RunStop(i)) \/ PostSecondLeg
<1>1. CASE \/ Withdraw \/ Withdrawn \/ PostSecondLeg \/ \E i \in Ids : RunStop(i)
  BY <1>1 DEF Withdraw, Withdrawn, PostSecondLeg, RunStop
<1>2. CASE \/ DropCancelled \/ RejectImmediate \/ RestUnmatched
           \/ HandlerRaises \/ ArmStop \/ TriggerOnEntry \/ StartSweep
  BY <1>2 DEF DropCancelled, RejectImmediate, RestUnmatched, HandlerRaises, ArmStop,
              TriggerOnEntry, StartSweep
<1>3. CASE \/ RefuseFok \/ RefusePull \/ Refused \/ SweepEnds \/ Settle
           \/ DropSecondLeg \/ HandlerReturns
  BY <1>3 DEF RefuseFok, RefusePull, Refused, SweepEnds, Settle, DropSecondLeg, HandlerReturns
<1>4. CASE \E p \in Ids : Trade(p) \/ SelfMatchPullsResting(p) \/ SelfMatchPullsAggressor(p)
  BY <1>4 DEF Trade, SelfMatchPullsResting, SelfMatchPullsAggressor, Facing, Unfilled, dispatch
<1>5. QED
  BY <1>1, <1>2, <1>3, <1>4 DEF EngineStep

LEMMA EngineTriggers ==
  ASSUME IInv, TriggersKnown, EngineStep
  PROVE  TriggersKnown'
<1>1. Next
  BY DEF Next
<1>2. ASSUME NEW i \in Ids, book'.ord[i] = order(i), TriggerKnown(i)
      PROVE  TriggerKnown(i)'
  BY <1>1, <1>2, LastStays DEF TriggerKnown, order
<1>3. ASSUME todo' # 0
      PROVE  TriggerKnown(todo)'
  <2>1. todo' = todo /\ todo # 0
    BY <1>3, EngineMoves
  <2>2. todo \in Ids \ {cur} /\ order(todo).place = "none"
    BY <2>1 DEF IInv, HandlerOK, InHand
  <2>3. ~DropSecondLeg /\ ~HandlerRaises
    BY <1>3 DEF DropSecondLeg, HandlerRaises
  <2>4. Aside(todo)
    <3>1. CASE \/ Withdraw \/ Withdrawn \/ RefusePull \/ Refused \/ Settle
               \/ \E p \in Ids : SelfMatchPullsResting(p)
               \/ \E j \in Ids : RunStop(j)
               \/ PostSecondLeg \/ HandlerReturns
      BY <2>2, <3>1, CalmAside
    <3>2. CASE EditsCur \/ RejectImmediate
                 \/ \E p \in Ids : Trade(p) \/ SelfMatchPullsAggressor(p)
      BY <2>2, <3>2, HandAside
    <3>3. QED
      BY <2>3, <3>1, <3>2 DEF EngineStep, EditsCur
  <2>5. book'.ord[todo] = order(todo)
    BY <2>2, <2>4 DEF Aside
  <2>6. TriggerKnown(todo)
    BY <2>1 DEF TriggersKnown
  <2>7. QED
    BY <2>1, <2>2, <2>5, <2>6, LastStays, <1>1 DEF TriggerKnown, order
<1>4. ASSUME pc' \in {"withdraw", "process"}, cur' # 0
      PROVE  TriggerKnown(cur)'
  <2>1. CASE Withdraw \/ Withdrawn
    <3>1. cur' = cur /\ pc \in {"withdraw", "process"} /\ pc = "withdraw"
      BY <2>1 DEF Withdraw, Withdrawn
    <3>2. cur \in Ids /\ order(cur).place = "none" /\ TriggerKnown(cur)
      BY <1>4, <3>1 DEF IInv, HandlerOK, InHand, TriggersKnown
    <3>3. Aside(cur)
      BY <2>1, <3>2, CalmAside
    <3>4. book'.ord[cur] = order(cur)
      BY <3>2, <3>3 DEF Aside
    <3>5. QED
      BY <3>1, <3>2, <3>4, LastStays, <1>1 DEF TriggerKnown, order
  <2>2. ASSUME NEW i \in Ids, RunStop(i)
        PROVE  TriggerKnown(cur)'
    <3>1. order(i).place = "triggered" /\ cur' = i /\ book' = book
      BY <2>2 DEF RunStop, Waiting
    <3>2. OrderSound(order(i))
      BY DEF IInv, Sound, order
    <3>3. order(i).kind # "TRAILING_STOP"
      BY <3>1, <3>2 DEF OrderSound
    <3>4. QED
      BY <3>1, <3>3 DEF TriggerKnown, order
  <2>3. CASE PostSecondLeg
    BY <2>3 DEF PostSecondLeg, TriggersKnown, TriggerKnown, order
  <2>4. QED
    BY <1>4, <2>1, <2>2, <2>3, EngineMoves
<1>5. QED
  BY <1>3, <1>4 DEF TriggersKnown, TriggerKnown

LEMMA MessageTriggers ==
  ASSUME LegsKnown, IInv, TriggersKnown, Message
  PROVE  TriggersKnown'
<1>1. ASSUME NEW r \in NewOrders, NewOrder(r)
      PROVE  TriggersKnown'
  <2>1. /\ born + 1 \in Ids /\ book'.ord = [book.ord EXCEPT ![born + 1] = Accepted(r, "none", 0)]
        /\ book \in Book
    BY <1>1, NewOrderOrders DEF IInv, Sound
  <2>2. book'.ord[born + 1].kind = r.kind /\ book'.ord[born + 1].stop = r.stop
    BY <2>1 DEF Book, Accepted
  <2>3. /\ r.kind = "TRAILING_STOP" /\ r.stop = NoPrice => last # NoPrice
        /\ last' = last /\ cur' = born + 1 /\ todo' = 0
    BY <1>1 DEF NewOrder, Start
  <2>4. QED
    BY <2>2, <2>3 DEF TriggersKnown, TriggerKnown, order
<1>2. ASSUME NEW l \in OcoPairs, OcoOrder(l)
      PROVE  TriggersKnown'
  <2>1. l \in Request \X Request /\ "oco" \in {"oco", "quote"}
    BY RequestsAssumption
  <2>2. /\ book'.ord[born + 1] = Accepted(l[1], "oco", born + 1)
        /\ book'.ord[born + 1 + 1] = Accepted(l[2], "oco", born + 1)
    BY <1>2, <2>1, PairOrders
  <2>3. cur' = born + 1 /\ todo' = born + 2 /\ born + 1 + 1 = born + 2
    BY <1>2 DEF OcoOrder, Start, IInv, TypeOK
  <2>4. \A k \in {1, 2} : ~(l[k].kind = "TRAILING_STOP" /\ l[k].stop = NoPrice)
    BY DEF LegsKnown
  <2>5. /\ ~(book'.ord[cur'].kind = "TRAILING_STOP" /\ book'.ord[cur'].stop = NoPrice)
        /\ ~(book'.ord[todo'].kind = "TRAILING_STOP" /\ book'.ord[todo'].stop = NoPrice)
    BY <2>2, <2>3, <2>4 DEF Accepted
  <2>6. QED
    BY <2>5 DEF TriggersKnown, TriggerKnown, order
<1>3. ASSUME NEW l \in QuotePairs, QuoteNew(l)
      PROVE  TriggersKnown'
  <2>1. l \in Request \X Request /\ "quote" \in {"oco", "quote"}
    BY RequestsAssumption
  <2>2. /\ book'.ord[born + 1] = Accepted(l[1], "quote", born + 1)
        /\ book'.ord[born + 1 + 1] = Accepted(l[2], "quote", born + 1)
    BY <1>3, <2>1, PairOrders
  <2>3. cur' = born + 1 /\ todo' = born + 2 /\ born + 1 + 1 = born + 2
    BY <1>3 DEF QuoteNew, IInv, TypeOK
  <2>4. l[1].kind = "LIMIT" /\ l[2].kind = "LIMIT"
    BY GatesAssumption
  <2>5. book'.ord[cur'].kind = "LIMIT" /\ book'.ord[todo'].kind = "LIMIT"
    BY <2>2, <2>3, <2>4 DEF Accepted
  <2>6. QED
    BY <2>5 DEF TriggersKnown, TriggerKnown, order
<1>4. ASSUME NEW i \in Ids, NEW price \in AmendPrices, NEW qty \in AmendQtys,
             Amend(i, price, qty)
      PROVE  TriggersKnown'
  <2>1. /\ book'.ord[i].kind = order(i).kind /\ order(i).place = "book"
        /\ UNCHANGED dispatch \/ Start(i, 0)
    BY <1>4, AmendOrders
  <2>2. pc = "idle" /\ todo = 0
    BY <1>4 DEF Amend, IInv, HandlerOK
  <2>3. OrderSound(order(i))
    BY DEF IInv, Sound, order
  <2>4. book'.ord[i].kind # "TRAILING_STOP"
    BY <2>1, <2>3 DEF OrderSound, Restable
  <2>5. QED
    BY <2>1, <2>2, <2>4 DEF TriggersKnown, TriggerKnown, order, dispatch, Start
<1>5. CASE \/ \E gw \in Gateways : QuoteCancel(gw) \/ KillSwitch(gw)
           \/ \E i \in Ids : CancelOrder(i) \/ OcoCancel(i)
           \/ CallPhaseBegins \/ NoMessage
  <2>1. cur' = 0 /\ todo' = 0
    BY <1>5 DEF QuoteCancel, KillSwitch, CancelOrder, OcoCancel, CallPhaseBegins, NoMessage,
                IInv, HandlerOK, dispatch, vars
  <2>2. QED
    BY <2>1 DEF TriggersKnown
<1>6. QED
  BY <1>1, <1>2, <1>3, <1>4, <1>5 DEF Message

\* What the steps that end the order in hand make of it.
LEMMA HandEnds ==
  ASSUME IInv, TriggersKnown, InHand(cur)',
         EditsCur \/ RejectImmediate
           \/ \E p \in Ids : Trade(p) \/ SelfMatchPullsAggressor(p)
  PROVE  cur' = cur /\ pc' = "sweep"
<1>1. Sound(book) /\ book \in Book /\ cur' \in Ids /\ book'.ord[cur'].place = "none"
      /\ book'.ord[cur'].status \in Working
  BY DEF IInv, Sound, InHand, order
<1>2. CASE DropCancelled \/ RefuseFok
  <2>1. cur \in Ids /\ cur' = cur /\ order(cur) \in Order
    BY <1>1, <1>2, CurEdited DEF EditsCur, Book, order
  <2>2. ASSUME DropCancelled
        PROVE  book'.ord[cur].status \in Dead
    <3>1. order(cur).status = "CANCELLED" /\ pc = "process" /\ pc' = "next"
      BY <2>2 DEF DropCancelled, Processing
    <3>2. QED
      BY <2>2, <3>1, CurEdited DEF EditsCur, Dead
  <2>3. ASSUME RefuseFok
        PROVE  book'.ord[cur].status \in Dead
    BY <2>3, CurEdited DEF RefuseFok, EditsCur
  <2>4. QED
    BY <1>1, <1>2, <2>1, <2>2, <2>3 DEF Working, Dead
<1>3. CASE RestUnmatched
  <2>1. cur \in Ids /\ cur' = cur /\ book' = Rest(book, cur)
    BY <1>3, CurEdited DEF RestUnmatched, EditsCur
  <2>2. book'.ord[cur].place = "book"
    BY <1>1, <2>1 DEF Rest, Book, Order
  <2>3. QED
    BY <1>1, <2>1, <2>2
<1>4. CASE ArmStop
  <2>1. cur \in Ids /\ cur' = cur /\ order(cur) \in Order
    BY <1>1, <1>4, CurEdited DEF EditsCur, Book, order
  <2>2. \E place \in {"armed", "trailing"}, n \in {Resolved(order(cur)), [Resolved(order(cur)) EXCEPT !.seq = book.seq + 1]} :
          book'.ord[cur] = [n EXCEPT !.place = place]
    BY <1>1, <1>4, <2>1 DEF ArmStop, Book
  <2>3. DOMAIN Resolved(order(cur)) = DOMAIN order(cur)
    BY <2>1 DEF Resolved
  <2>4. book'.ord[cur].place \in {"armed", "trailing"}
    BY <2>1, <2>2, <2>3 DEF Order
  <2>5. QED
    BY <1>1, <2>1, <2>4
<1>5. CASE TriggerOnEntry \/ StartSweep
  BY <1>5 DEF TriggerOnEntry, StartSweep
<1>6. CASE SweepEnds
  <2>1. cur \in Ids /\ cur' = cur /\ order(cur) \in Order /\ OrderSound(order(cur))
    BY <1>1, <1>6, CurEdited DEF EditsCur, Book, order, Sound
  <2>2. \/ order(cur).rem = 0 /\ book' = book
        \/ book' = Rest(book, cur)
        \/ book' = [book EXCEPT !.ord[cur].status = "CANCELLED"]
    BY <1>6 DEF SweepEnds
  <2>3. CASE order(cur).rem = 0 /\ book' = book
    BY <1>1, <2>1, <2>3 DEF OrderSound, order
  <2>4. CASE book' = Rest(book, cur)
    <3>1. book'.ord[cur].place = "book"
      BY <1>1, <2>1, <2>4 DEF Rest, Book, Order
    <3>2. QED
      BY <1>1, <2>1, <3>1
  <2>5. CASE book' = [book EXCEPT !.ord[cur].status = "CANCELLED"]
    <3>1. book'.ord[cur].status = "CANCELLED"
      BY <1>1, <2>1, <2>5 DEF Book, Order
    <3>2. QED
      BY <1>1, <2>1, <3>1 DEF Working
  <2>6. QED
    BY <2>2, <2>3, <2>4, <2>5
<1>7. CASE RejectImmediate
  <2> DEFINE c == [book EXCEPT !.ord[cur].status = "REJECTED"]
  <2>1. /\ cur \in Ids /\ cur' = cur /\ order(cur).place = "none"
        /\ book' = OcoLegEnded(c, cur)
    BY <1>7, ProcessingFacts DEF RejectImmediate
  <2>2. Sound(c) /\ c.ord[cur].status = "REJECTED"
    BY <1>1, <2>1, StatusSound DEF order
  <2> HIDE DEF c
  <2>3. book'.ord[cur] = c.ord[cur]
    <3>1. c.ord[cur].status \in Dead
      BY <2>2 DEF Dead
    <3>2. QED
      BY <2>1, <2>2, <3>1, OcoLegEndedThins, ThinnedTies
  <2>4. QED
    BY <1>1, <2>1, <2>2, <2>3 DEF Working
<1>8. ASSUME NEW p \in Ids, Trade(p)
      PROVE  cur' = cur /\ pc' = "sweep"
  BY <1>8 DEF Trade, Facing, Unfilled
<1>9. ASSUME NEW p \in Ids, SelfMatchPullsAggressor(p)
      PROVE  FALSE
  <2> DEFINE b == IF SelfMatch(book, cur, p) = "CANCEL_BOTH" THEN SmpCancel(book, p) ELSE book
  <2>1. cur \in Ids /\ cur' = cur /\ book' = [b EXCEPT !.ord[cur].status = "CANCELLED"]
    BY <1>9, FacingFacts DEF SelfMatchPullsAggressor
  <2>2. Sound(b)
    BY <1>1, <1>9, SmpCancelThins
  <2> HIDE DEF b
  <2>3. book'.ord[cur].status = "CANCELLED"
    BY <2>1, <2>2 DEF Sound, Book, Order
  <2>4. QED
    BY <1>1, <2>1, <2>3 DEF Working
<1>10. QED
  BY <1>2, <1>3, <1>4, <1>5, <1>6, <1>7, <1>8, <1>9 DEF EditsCur

LEMMA EngineLoses ==
  ASSUME IInv, TriggersKnown, NoneLost, EngineStep
  PROVE  NoneLost'
<1>1. SUFFICES ASSUME NEW i \in Ids, InHand(i)'
               PROVE  MayHold(i)'
  BY DEF NoneLost
<1>2. book'.ord[i].place = "none" /\ book'.ord[i].status \in Working /\ i # 0
  BY <1>1, MaxOrdersAssumption DEF InHand, order, Ids
<1>3. ASSUME Aside(i)
      PROVE  MayHold(i)
  BY <1>1, <1>2, <1>3 DEF Aside, InHand, NoneLost, order
<1>4. ~HandlerRaises
  BY NoneRaises
<1>5. CASE \/ Withdraw \/ Withdrawn \/ RefusePull \/ Refused \/ Settle
           \/ \E p \in Ids : SelfMatchPullsResting(p)
           \/ \E j \in Ids : RunStop(j)
           \/ PostSecondLeg \/ HandlerReturns
  <2>1. MayHold(i)
    BY <1>3, <1>5, CalmAside
  <2>2. CASE Withdraw \/ RefusePull \/ Refused \/ Settle
               \/ \E p \in Ids : SelfMatchPullsResting(p)
    BY <2>1, <2>2 DEF MayHold, Withdraw, RefusePull, Refused, Settle, SelfMatchPullsResting,
                      dispatch
  <2>3. CASE Withdrawn
    BY <1>2, <2>1, <2>3 DEF MayHold, Withdrawn, IInv, HandlerOK
  <2>4. CASE (\E j \in Ids : RunStop(j)) \/ PostSecondLeg \/ HandlerReturns
    BY <1>2, <2>1, <2>4 DEF MayHold, RunStop, PostSecondLeg, HandlerReturns
  <2>5. QED
    BY <1>5, <2>2, <2>3, <2>4
<1>6. CASE EditsCur \/ RejectImmediate
             \/ \E p \in Ids : Trade(p) \/ SelfMatchPullsAggressor(p)
  <2>1. CASE i = cur
    <3>1. cur' = cur
      BY <1>6, CurEdited DEF RejectImmediate, Trade, SelfMatchPullsAggressor
    <3>2. InHand(cur)'
      BY <1>1, <2>1, <3>1
    <3>3. QED
      BY <1>6, <2>1, <3>2, HandEnds DEF MayHold
  <2>2. CASE i # cur
    <3>1. i = todo
      BY <1>3, <1>6, <2>2, HandAside DEF MayHold
    <3>2. todo' = todo
      BY <1>6, CurEdited DEF RejectImmediate, Trade, SelfMatchPullsAggressor
    <3>3. QED
      BY <3>1, <3>2 DEF MayHold
  <2>3. QED
    BY <2>1, <2>2
<1>7. CASE DropSecondLeg
  <2>1. todo \in Ids /\ book' = [book EXCEPT !.ord[todo].status = "CANCELLED"] /\ pc = "next"
    BY <1>7 DEF DropSecondLeg, IInv, HandlerOK, InHand
  <2>2. book \in Book
    BY DEF IInv, Sound
  <2>3. i # todo
    <3>1. book'.ord[todo].status = "CANCELLED"
      BY <2>1, <2>2 DEF Book, Order
    <3>2. QED
      BY <1>2, <3>1 DEF Working
  <2>4. book'.ord[i] = order(i)
    BY <2>1, <2>2, <2>3 DEF Book, order
  <2>5. QED
    BY <1>3, <2>1, <2>3, <2>4 DEF Aside, MayHold
<1>8. QED
  BY <1>4, <1>5, <1>6, <1>7 DEF EngineStep, EditsCur

LEMMA MessageLoses ==
  ASSUME IInv, NoneLost, Message
  PROVE  NoneLost'
<1>1. SUFFICES ASSUME NEW i \in Ids, InHand(i)'
               PROVE  MayHold(i)'
  BY DEF NoneLost
<1>2. book'.ord[i].place = "none" /\ book'.ord[i].status \in Working /\ i # 0
  BY <1>1, MaxOrdersAssumption DEF InHand, order, Ids
<1>3. pc = "idle" /\ cur = 0 /\ todo = 0
  BY DEF Message, NewOrder, OcoOrder, QuoteNew, QuoteCancel, KillSwitch, CancelOrder, OcoCancel,
         Amend, CallPhaseBegins, NoMessage, IInv, HandlerOK
<1>4. ~InHand(i)
  BY <1>2, <1>3 DEF NoneLost, MayHold
<1>5. ~Aside(i)
  BY <1>1, <1>2, <1>4 DEF Aside, InHand, order
<1>6. ASSUME NEW r \in NewOrders, NewOrder(r)
      PROVE  MayHold(i)'
  <2>1. book'.ord = [book.ord EXCEPT ![born + 1] = Accepted(r, "none", 0)] /\ book \in Book
    BY <1>6, NewOrderOrders DEF IInv, Sound
  <2>2. i = born + 1
    BY <1>5, <2>1 DEF Aside, order, Book
  <2>3. QED
    BY <1>6, <2>2 DEF NewOrder, Start, MayHold
<1>7. ASSUME NEW l \in OcoPairs, OcoOrder(l)
      PROVE  MayHold(i)'
  <2>1. l \in Request \X Request /\ "oco" \in {"oco", "quote"}
    BY RequestsAssumption
  <2>2. \A j \in Ids \ {born + 1, born + 1 + 1} : book'.ord[j] = order(j)
    BY <1>7, <2>1, PairOrders
  <2>3. cur' = born + 1 /\ todo' = born + 2 /\ born + 1 + 1 = born + 2 /\ pc' = "process"
    BY <1>7 DEF OcoOrder, Start, IInv, TypeOK
  <2>4. QED
    BY <1>5, <2>2, <2>3 DEF Aside, MayHold
<1>8. ASSUME NEW l \in QuotePairs, QuoteNew(l)
      PROVE  MayHold(i)'
  <2>1. l \in Request \X Request /\ "quote" \in {"oco", "quote"}
    BY RequestsAssumption
  <2>2. \A j \in Ids \ {born + 1, born + 1 + 1} : book'.ord[j] = order(j)
    BY <1>8, <2>1, PairOrders
  <2>3. cur' = born + 1 /\ todo' = born + 2 /\ born + 1 + 1 = born + 2 /\ pc' = "withdraw"
    BY <1>8 DEF QuoteNew, IInv, TypeOK
  <2>4. QED
    BY <1>5, <2>2, <2>3 DEF Aside, MayHold
<1>9. ASSUME NEW j \in Ids, NEW price \in AmendPrices, NEW qty \in AmendQtys,
             Amend(j, price, qty)
      PROVE  MayHold(i)'
  <2>1. /\ OthersSame(book, book', j)
        /\ book'.ord[j].place = "none" => Start(j, 0)
    BY <1>9, AmendOrders
  <2>2. i = j
    BY <1>5, <2>1 DEF OthersSame, Aside, order
  <2>3. QED
    BY <1>2, <2>1, <2>2 DEF Start, MayHold
<1>10. ASSUME NEW j \in Ids, CancelOrder(j)
       PROVE  FALSE
  BY <1>5, <1>10, SmpCancelThins, ThinnedAside DEF CancelOrder, SmpCancel, IInv
<1>11. ASSUME NEW g \in Ids, OcoCancel(g)
       PROVE  FALSE
  <2> DEFINE c == Cancel(book, g)
             d == Cancel(c, g + 1)
  <2>1. g + 1 \in Ids
    BY <1>11 DEF IInv, OcoCancel, Registered, Sound, Bonded, order
  <2>2. Sound(c) /\ Thinned(book, c) /\ Sound(book)
    BY CancelThins DEF IInv
  <2> HIDE DEF c
  <2>3. Sound(d) /\ Thinned(c, d)
    BY <2>1, <2>2, CancelThins
  <2> HIDE DEF d
  <2>4. book'.ord = d.ord
    <3>1. book' = [d EXCEPT !.live = d.live \ {g}]
      BY <1>11 DEF OcoCancel, c, d
    <3>2. QED
      BY <2>3, <3>1 DEF Sound, Book
  <2>5. /\ c.ord[i] # order(i) => c.ord[i].status \in Dead
        /\ d.ord[i] # c.ord[i] => d.ord[i].status \in Dead
    BY <2>2, <2>3, ThinnedTies DEF order
  <2>6. book'.ord[i] = order(i)
    BY <1>2, <2>4, <2>5 DEF Working, Dead
  <2>7. QED
    BY <1>5, <2>6 DEF Aside
<1>12. CASE \/ \E gw \in Gateways : QuoteCancel(gw) \/ KillSwitch(gw)
            \/ CallPhaseBegins \/ NoMessage
  <2>1. book'.ord = book.ord
    BY <1>12 DEF QuoteCancel, KillSwitch, CallPhaseBegins, NoMessage, vars, IInv, Sound, Book
  <2>2. QED
    BY <1>5, <2>1 DEF Aside, order
<1>13. QED
  BY <1>6, <1>7, <1>8, <1>9, <1>10, <1>11, <1>12 DEF Message

\* Initially nothing is in hand.
LEMMA LosesInit ==
  ASSUME Init
  PROVE  NoneLost /\ TriggersKnown
<1>1. \A i \in Ids : order(i).status = "ABSENT"
  BY DEF Init, order, Absent
<1>2. QED
  BY <1>1 DEF Init, NoneLost, InHand, Working, TriggersKnown

\* No acknowledged order is lost: as long as the handlers of OCO pairs are given
\* every leg's trigger (without one, _add_trailing_stop raises and the handler
\* drops what it holds), an order that still works is in a heap, in a stop list
\* or queue, or in the hands of the handler that runs.
THEOREM NoOrderLost == ASSUME LegsKnown PROVE Spec => [](NoneLost /\ TriggersKnown)
<1> SUFFICES ASSUME LegsKnown PROVE Spec => [](NoneLost /\ TriggersKnown)
  OBVIOUS
<1>1. Init => NoneLost /\ TriggersKnown
  BY LosesInit
<1>2. IInv /\ NoneLost /\ TriggersKnown /\ [Next]_vars => (NoneLost /\ TriggersKnown)'
  <2>1. ASSUME NoneLost, TriggersKnown, UNCHANGED vars
        PROVE  (NoneLost /\ TriggersKnown)'
    BY <2>1 DEF vars, dispatch, NoneLost, InHand, MayHold, TriggersKnown, TriggerKnown, order
  <2>2. QED
    BY <2>1, EngineLoses, MessageLoses, EngineTriggers, MessageTriggers DEF Next
<1>3. QED
  BY <1>1, <1>2, Invariance, PTL DEF Spec

\* OcoEndsTogether: between messages the legs of a tied pair are both working
\* or both ended, however the first one ended and whichever of _apply_fill, the
\* self-match cancels, _handle_cancel, _handle_oco_cancel, the kill switch and
\* the drop of a second leg ended it.  The hypothesis is that of NoOrderLost:
\* where a leg comes without its trigger the run oco_leg_raises refutes what
\* the pair promises.
THEOREM PairsEndTogether == ASSUME LegsKnown PROVE Spec => []OcoEndsTogether
<1> SUFFICES ASSUME LegsKnown PROVE Spec => []OcoEndsTogether
  OBVIOUS
<1>1. IInv /\ PairInv /\ Seen /\ NoneLost => OcoEndsTogether
  <2>1. SUFFICES ASSUME IInv, PairInv, Seen, NoneLost, pc = "idle", NEW i \in Ids,
                        Tied(i), order(i).status \in Dead
                 PROVE  order(Sibling(book, i)).status \in Dead
    BY DEF OcoEndsTogether
  <2> DEFINE s == Sibling(book, i)
  <2>2. Sound(book) /\ order(i).bond = "oco"
    BY <2>1 DEF IInv, Tied
  <2>3. s \in Ids /\ Sibling(book, s) = i
    BY <2>1, <2>2, Siblings, SiblingTwice DEF PairInv, order
  <2>4. order(s).bond = "oco" /\ order(s).smp = order(i).smp
    BY <2>1, <2>2 DEF PairInv, Paired, order
  <2> HIDE DEF s
  <2>5. TiedIn(book, s)
    BY <2>1, <2>3, <2>4 DEF Tied, TiedIn, order, s
  <2>6. Lost(book, s, {})
    BY <2>1, <2>3 DEF Lost, order
  <2>7. SpentIn(book, s, 0, 0, {})
    <3>1. Batch = {} /\ Ending = {} /\ cur = 0 /\ todo = 0
      BY <2>1 DEF Batch, Ending, IInv, HandlerOK
    <3>2. QED
      BY <2>1, <2>3, <2>5, <2>6, <3>1 DEF PairInv, Losers
  <2>8. CASE order(s).place = "none"
    <3>1. ~InHand(s)
      BY <2>1, <2>3, MaxOrdersAssumption DEF NoneLost, MayHold, IInv, HandlerOK, Ids
    <3>2. order(s).status \notin Working
      BY <2>3, <2>8, <3>1 DEF InHand
    <3>3. order(s).status # "ABSENT"
      <4>1. ~(s > born)
        BY <2>1, <2>3, <2>4 DEF IInv, Unborn
      <4>2. s \in Nat /\ born \in Nat
        BY <2>1, <2>3, MaxOrdersAssumption DEF IInv, TypeOK, Ids
      <4>3. QED
        BY <2>1, <2>3, <4>1, <4>2 DEF Seen
    <3>4. order(s) \in Order
      BY <2>2, <2>3 DEF Sound, Book, order
    <3>5. QED
      BY <3>2, <3>3, <3>4 DEF Order, s
  <2>9. QED
    BY <2>7, <2>8 DEF SpentIn, order, s
<1>2. Init => Seen
  BY SeenInit
<1>3. IInv /\ Seen /\ [Next]_vars => Seen'
  <2>1. ASSUME Seen, UNCHANGED vars PROVE Seen'
    BY <2>1 DEF Seen, vars, order
  <2>2. QED
    BY <2>1, SeenStep
<1>4. QED
  BY <1>1, <1>2, <1>3, Invariance, PairInvariance, NoOrderLost, PTL DEF Spec
-----------------------------------------------------------------------------
(***************************************************************************)
(* The quote leg that a fill of its sibling inactivates.                   *)
(***************************************************************************)
\* The two legs of a quote cannot meet: the bid is below the ask.  The quote
\* checks say so of every quote that is accepted, but _handle_amend reprices a
\* single leg without looking at the other one.
QuotesApart ==
  \A i \in Ids : order(i).bond = "quote" /\ i = order(i).group
                 => order(i).price < order(Sibling(book, i)).price

\* Leg i may trade: it is in hand, or it rests and no batch is to cancel it.
MayTrade(i) ==
  i = cur \/ (order(i).place = "book" /\ ~(pc = "withdraw" /\ i \in clearing))

\* Of a quote that is not registered at most one leg is in play.
Lone ==
  \A i \in Ids : order(i).bond = "quote" /\ order(i).group \notin book.live
                 => ~(MayTrade(i) /\ MayTrade(Sibling(book, i)))

\* Leg i is out of the market for good.
Retired(i) ==
  /\ order(i).group \notin book.live /\ order(i).place # "book" /\ i # cur
  /\ ~(pc = "withdraw" /\ i = todo)

HitsRetire == \A i \in Ids : Inactivated(i) => Retired(i)

\* The second leg of a quote that waits for a withdrawal.
SecondFollows == pc = "withdraw" /\ todo # 0 => todo = cur + 1

LegInv == Lone /\ HitsRetire /\ SecondFollows

Accepts ==
  \/ \E r \in NewOrders : NewOrder(r)
  \/ \E l \in OcoPairs : OcoOrder(l)
  \/ \E l \in QuotePairs : QuoteNew(l)

\* A quote leg reaches the handler's hand from the book or as the second leg of
\* a quote that is still registered.
LEMMA HandFrom ==
  ASSUME IInv, QuoteShape(book), Next, ~Accepts, NEW i \in Ids, i = cur',
         order(i).bond = "quote"
  PROVE  \/ i = cur
         \/ pc = "idle" /\ order(i).place = "book"
         \/ i = todo /\ order(i).group \in book.live
<1>1. order(i).place \in {"none", "book"} /\ 0 \notin Ids
  BY DEF QuoteShape, order, Ids
<1>2. CASE cur' \in {cur, 0}
  BY <1>1, <1>2
<1>3. CASE cur' \notin {cur, 0}
  <2>1. \/ \E j \in Ids, price \in AmendPrices, qty \in AmendQtys : Amend(j, price, qty)
        \/ \E j \in Ids : RunStop(j)
        \/ PostSecondLeg
    <3>1. CASE Message
      <4>1. CASE \/ \E gw \in Gateways : QuoteCancel(gw) \/ KillSwitch(gw)
                 \/ \E j \in Ids : CancelOrder(j) \/ OcoCancel(j)
                 \/ CallPhaseBegins \/ NoMessage
        BY <1>3, <4>1 DEF QuoteCancel, KillSwitch, CancelOrder, OcoCancel, CallPhaseBegins,
                          NoMessage, vars, dispatch
      <4>2. QED
        BY <3>1, <4>1 DEF Message, Accepts
    <3>2. CASE EngineStep
      <4>1. CASE EditsCur
        BY <1>3, <4>1, CurEdited
      <4>2. CASE \/ Withdraw \/ Withdrawn \/ RejectImmediate \/ HandlerRaises
                 \/ RefusePull \/ Refused \/ Settle \/ DropSecondLeg \/ HandlerReturns
                 \/ \E p \in Ids : Trade(p) \/ SelfMatchPullsResting(p)
                                   \/ SelfMatchPullsAggressor(p)
        BY <1>3, <4>2 DEF Withdraw, Withdrawn, RejectImmediate, HandlerRaises, RefusePull,
                          Refused, Settle, DropSecondLeg, HandlerReturns, Trade,
                          SelfMatchPullsResting, SelfMatchPullsAggressor, dispatch
      <4>3. QED
        BY <3>2, <4>1, <4>2 DEF EngineStep, EditsCur
    <3>3. QED
      BY <3>1, <3>2 DEF Next
  <2>2. CASE \E j \in Ids, price \in AmendPrices, qty \in AmendQtys : Amend(j, price, qty)
    BY <1>3, <2>2 DEF Amend, Start, dispatch
  <2>3. CASE \E j \in Ids : RunStop(j)
    BY <1>1, <2>3 DEF RunStop, Waiting
  <2>4. CASE PostSecondLeg
    BY <2>4 DEF PostSecondLeg, Stillborn
  <2>5. QED
    BY <2>1, <2>2, <2>3, <2>4
<1>4. QED
  BY <1>2, <1>3

\* A leg of a quote that is not registered does not come back into play.
LEMMA MayTradeKept ==
  ASSUME IInv, QuoteShape(book), Next, ~Accepts, NEW i \in Ids,
         order(i).bond = "quote", order(i).group \notin book.live, MayTrade(i)'
  PROVE  MayTrade(i)
<1>1. CASE i = cur'
  <2>1. i = cur \/ (pc = "idle" /\ order(i).place = "book")
    BY <1>1, HandFrom
  <2>2. QED
    BY <2>1 DEF MayTrade
<1>2. CASE i # cur'
  <2>1. book'.ord[i].place = "book" /\ ~(pc' = "withdraw" /\ i \in clearing')
    BY <1>2 DEF MayTrade, order
  <2>2. Alive(i)' /\ order(i).place \in {"none", "book"}
    <3>1. book'.ord[i].bond = "quote"
      BY ShapeKept DEF Accepts, SameBonds, SameTies, order
    <3>2. QED
      BY <2>1, <3>1 DEF Alive, order, QuoteShape
  <2>3. Alive(i)
    BY <2>2, AliveKept DEF Accepts
  <2>4. order(i).place = "book" \/ i = cur
    BY <2>1, <2>2, StepPlaced DEF Placed, Accepts
  <2>5. ASSUME order(i).place = "book" PROVE i # todo
    BY <2>5 DEF IInv, HandlerOK, InHand, Ids
  <2>6. QED
    BY <2>3, <2>4, <2>5 DEF Alive, MayTrade
<1>3. QED
  BY <1>1, <1>2

\* Only a fill, a withdrawal or a kill switch unregisters a quote.
LEMMA QuotesStayLive ==
  ASSUME IInv, Paired(book), Next, ~Accepts,
         \A p \in Ids : ~Trade(p),
         \A gw \in Gateways : ~QuoteCancel(gw) /\ ~KillSwitch(gw),
         NEW g \in book.live, order(g).bond = "quote"
  PROVE  g \in book'.live
<1>1. Sound(book) /\ book \in Book
  BY DEF IInv, Sound
<1>2. ASSUME NEW j \in Ids, book' = Cancel(book, j) \/ book' = SmpCancel(book, j)
      PROVE  g \in book'.live
  <2>1. LET c == Cancel(book, j)
        IN  /\ Sound(c) /\ c.live = book.live /\ Paired(c)
            /\ c.ord[g].bond = "quote"
    <3>1. Sound(Cancel(book, j)) /\ Thinned(book, Cancel(book, j))
          /\ Cancel(book, j).live = book.live
      BY <1>1, CancelTouches
    <3>2. SameBonds(book, Cancel(book, j)) /\ Paired(Cancel(book, j)) /\ g \in Ids
      BY <1>1, <3>1, ThinnedTies, TiesStay DEF Book
    <3>3. QED
      BY <3>1, <3>2 DEF SameBonds, SameTies, order
  <2>2. g \in OcoLegEnded(Cancel(book, j), j).live
    BY <2>1, OcoHookTouches
  <2>3. QED
    BY <1>2, <2>1, <2>2 DEF SmpCancel
<1>3. CASE EditsCur
  BY <1>3, CurEdited
<1>4. CASE Settle
  <2>1. cur \in Ids /\ last \in Int /\ released \in Nat
    BY <1>4, PricesAssumption DEF Settle, IInv, TypeOK, HandlerOK, NoPrice
  <2>2. Sound(OcoLegEnded(book, cur)) /\ g \in OcoLegEnded(book, cur).live
    BY <1>1, <2>1, OcoHookTouches DEF order
  <2>3. book'.live = OcoLegEnded(book, cur).live
    BY <1>4, <2>1, <2>2, ReleaseSound DEF Settle
  <2>4. QED
    BY <2>2, <2>3
<1>5. ASSUME NEW j \in Ids, NEW price \in AmendPrices, NEW qty \in AmendQtys,
             Amend(j, price, qty)
      PROVE  g \in book'.live
  BY <1>5, AmendOrders
<1>6. CASE Withdraw \/ RefusePull \/ \E p \in Ids : SelfMatchPullsResting(p)
  <2>1. PICK j \in Ids : book' = Cancel(book, j) \/ book' = SmpCancel(book, j)
    BY <1>6 DEF Withdraw, RefusePull, SelfMatchPullsResting, IInv, TypeOK
  <2>2. QED
    BY <1>2, <2>1
<1>7. ASSUME NEW p \in Ids, SelfMatchPullsAggressor(p) PROVE g \in book'.live
  <2> DEFINE b == IF SelfMatch(book, cur, p) = "CANCEL_BOTH" THEN SmpCancel(book, p) ELSE book
  <2>1. book' = [b EXCEPT !.ord[cur].status = "CANCELLED"]
    BY <1>7 DEF SelfMatchPullsAggressor
  <2>2. Sound(b) /\ g \in b.live
    <3>1. Sound(Cancel(book, p)) /\ Cancel(book, p).live = book.live
          /\ Thinned(book, Cancel(book, p)) /\ g \in Ids
      BY <1>1, CancelTouches DEF Book
    <3>2. Paired(Cancel(book, p)) /\ Cancel(book, p).ord[g].bond = "quote"
      BY <1>1, <3>1, ThinnedTies, TiesStay DEF SameBonds, SameTies, order
    <3>3. Sound(SmpCancel(book, p)) /\ g \in SmpCancel(book, p).live
      BY <3>1, <3>2, OcoHookTouches DEF SmpCancel
    <3>4. QED
      BY <1>1, <3>3
  <2> HIDE DEF b
  <2>3. QED
    BY <2>1, <2>2 DEF Sound, Book
<1>8. CASE RejectImmediate
  <2> DEFINE c == [book EXCEPT !.ord[cur].status = "REJECTED"]
  <2>1. /\ cur \in Ids /\ order(cur).place = "none" /\ book' = OcoLegEnded(c, cur)
    BY <1>8, ProcessingFacts DEF RejectImmediate
  <2>2. /\ Sound(c) /\ c.live = book.live /\ OthersSame(book, c, cur)
        /\ SameOrder(order(cur), c.ord[cur])
    BY <1>1, <2>1, StatusSound DEF order
  <2> HIDE DEF c
  <2>3. SameBonds(book, c) /\ g \in Ids
    BY <1>1, <2>1, <2>2 DEF order, OthersSame, SameOrder, SameBonds, SameTies, Book
  <2>4. Paired(c) /\ c.ord[g].bond = "quote"
    BY <1>1, <2>2, <2>3, TiesStay DEF SameBonds, SameTies, order
  <2>5. QED
    BY <2>1, <2>2, <2>4, OcoHookTouches
<1>9. CASE DropSecondLeg
  <2>1. book' = [book EXCEPT !.ord[todo].status = "CANCELLED"]
    BY <1>9 DEF DropSecondLeg
  <2>2. QED
    BY <1>1, <2>1 DEF Book
<1>10. CASE Withdrawn
  BY <1>1, <1>10 DEF Withdrawn, Book
<1>11. ASSUME NEW j \in Ids, CancelOrder(j) PROVE g \in book'.live
  BY <1>2, <1>11 DEF CancelOrder, SmpCancel
<1>12. ASSUME NEW h \in Ids, OcoCancel(h) PROVE g \in book'.live
  BY <1>12, OcoCancelTouches
<1>13. CASE \/ CallPhaseBegins \/ NoMessage
            \/ HandlerRaises \/ Refused
            \/ \E j \in Ids : RunStop(j)
            \/ PostSecondLeg \/ HandlerReturns
  BY <1>1, <1>13 DEF CallPhaseBegins, NoMessage, vars,
                     HandlerRaises, Refused, RunStop, PostSecondLeg, HandlerReturns
<1>14. CASE Message
  BY <1>5, <1>11, <1>12, <1>13, <1>14 DEF Message, Accepts
<1>15. CASE EngineStep
  BY <1>3, <1>4, <1>6, <1>7, <1>8, <1>9, <1>10, <1>13, <1>15 DEF EngineStep, EditsCur
<1>16. QED
  BY <1>14, <1>15 DEF Next

\* What leaves a leg inactivated but a trade: nothing, an amend included.
LEMMA InactivatedKept ==
  ASSUME IInv, Paired(book), Next, ~Accepts, \A p \in Ids : ~Trade(p),
         NEW i \in Ids, Inactivated(i)'
  PROVE  Inactivated(i)
<1> DEFINE s == Sibling(book, i)
<1>1. SameBonds(book, book') /\ Sound(book)
  BY TiesKept DEF Accepts, IInv
<1>2. /\ order(i).bond = "quote" /\ book'.ord[i].gw = order(i).gw
      /\ Sibling(book', i) = Sibling(book, i)
  BY <1>1, TiesStay DEF Inactivated, SameBonds, SameTies, order
<1>3. s \in Ids
  BY <1>1, <1>2, Siblings DEF order
<1> HIDE DEF s
<1>4. /\ book'.ord[s].rem < book'.ord[s].qty => order(s).rem < order(s).qty
      /\ book'.ord[s].status = "FILLED" => order(s).status = "FILLED"
  <2>1. CASE CalmBook(book, book')
    <3>1. Calm(order(s), book'.ord[s])
      BY <1>3, <2>1 DEF CalmBook, order
    <3>2. QED
      BY <3>1 DEF Calm, SameOrder
  <2>2. ASSUME NEW j \in Ids, NEW price \in AmendPrices, NEW qty \in AmendQtys,
               Amend(j, price, qty)
        PROVE  <1>4!:
    <3>1. CASE s # j
      BY <1>3, <2>2, <3>1, AmendOrders DEF OthersSame, order
    <3>2. CASE s = j
      <4>1. /\ book'.ord[s].qty = qty /\ book'.ord[s].rem = qty - (order(s).qty - order(s).rem)
            /\ book'.ord[s].status \in Working /\ qty \in Nat
        BY <2>2, <3>2, AmendOrders
      <4>2. order(s).qty \in Nat /\ order(s).rem \in Nat
        BY <1>1, <1>3 DEF Sound, Book, Order, order
      <4>3. QED
        BY <4>1, <4>2 DEF Working
    <3>3. QED
      BY <3>1, <3>2
  <2>3. QED
    BY <2>1, <2>2, StepKinds DEF Accepts
<1>5. QED
  BY <1>2, <1>4 DEF Inactivated, order, s

\* Of the steps that accept nothing and trade nothing, none disturbs what the
\* fills have retired.
LEMMA LegsFrame ==
  ASSUME IInv, PairInv, QuoteInv, LegInv, Next, ~Accepts, \A p \in Ids : ~Trade(p)
  PROVE  LegInv'
<1>1. SameBonds(book, book') /\ Sound(book) /\ Paired(book) /\ QuoteShape(book)
  BY TiesKept DEF Accepts, IInv, PairInv, QuoteInv
<1>2. \A i \in Ids : /\ Sibling(book', i) = Sibling(book, i)
                     /\ book'.ord[i].bond = order(i).bond
                     /\ book'.ord[i].group = order(i).group
  BY <1>1, TiesStay DEF SameBonds, SameTies, order
<1>3. pc' = "withdraw" => todo' = 0 \/ (pc = "withdraw" /\ todo' = todo /\ cur' = cur)
  BY CurEdited
  DEF Next, Message, EngineStep, Accepts, QuoteCancel,
      KillSwitch, CancelOrder, OcoCancel, Amend, CallPhaseBegins, NoMessage, Start,
      RejectImmediate, HandlerRaises, RefusePull, Refused, Trade, SelfMatchPullsResting,
      SelfMatchPullsAggressor, Settle, RunStop, PostSecondLeg, DropSecondLeg, Withdraw,
      Withdrawn, EditsCur, vars, dispatch, IInv, HandlerOK, Facing, Unfilled,
      HandlerReturns
<1>4. ASSUME NEW i \in Ids, Inactivated(i)'
      PROVE  Retired(i)'
  <2>1. Inactivated(i)
    BY <1>1, <1>4, InactivatedKept
  <2>2. Retired(i) /\ order(i).bond = "quote"
    BY <2>1 DEF LegInv, HitsRetire, Inactivated
  <2>3. order(i).group \notin book'.live
    <3>1. CASE ~Withdrawn
      BY <2>2, <3>1, LiveFalls DEF Retired, Accepts
    <3>2. CASE Withdrawn
      <4>1. book'.live = book.live \/ (todo # 0 /\ book'.live = book.live \cup {cur})
        BY <1>1, <3>2 DEF Withdrawn, Sound, Book
      <4>2. ASSUME todo # 0, order(i).group = cur PROVE FALSE
        <5>1. /\ cur \in Ids /\ order(cur).group = cur /\ order(cur).bond = "quote"
              /\ todo \in Ids /\ order(todo).bond # "none" /\ todo = order(todo).group + 1
              /\ todo # cur /\ pc = "withdraw"
          BY <3>2, <4>2 DEF Withdrawn, IInv, HandlerOK, InHand, PairInv, SecondLeg
        <5>2. i \in {cur, Sibling(book, cur)} /\ Sibling(book, cur) = cur + 1
          BY <1>1, <4>2, <5>1, Groups, Siblings DEF order
        <5>3. i = cur + 1
          BY <2>2, <5>2 DEF Retired
        <5>4. todo = cur + 1
          BY <4>2, <5>1 DEF LegInv, SecondFollows
        <5>5. QED
          BY <2>2, <5>1, <5>3, <5>4 DEF Retired
      <4>3. QED
        BY <2>2, <4>1, <4>2 DEF Retired
    <3>3. QED
      BY <3>1, <3>2
  <2>4. order(i).place \in {"none"} /\ book'.ord[i].place # "book"
    BY <1>1, <2>2, StepPlaced DEF Placed, Accepts, Retired, QuoteShape, order
  <2>5. i # cur'
    BY <1>1, <2>2, <2>4, HandFrom DEF Retired
  <2>6. ~(pc' = "withdraw" /\ i = todo')
    BY <2>2, <1>3 DEF Retired, Ids
  <2>7. QED
    BY <1>2, <2>3, <2>4, <2>5, <2>6 DEF Retired, order
<1>5. ASSUME NEW i \in Ids, order(i).bond = "quote", order(i).group \notin book'.live,
             NEW s, s = Sibling(book, i), MayTrade(i)', MayTrade(s)'
      PROVE  FALSE
  <2>1. /\ s \in Ids /\ order(s).bond = "quote" /\ order(s).group = order(i).group
        /\ order(i).group \in Ids /\ order(order(i).group).bond = "quote"
    BY <1>1, <1>5, Siblings, Groups DEF Paired, order
  <2>2. CASE order(i).group \notin book.live
    <3>1. MayTrade(i) /\ MayTrade(s)
      BY <1>1, <1>5, <2>1, <2>2, MayTradeKept
    <3>2. QED
      BY <1>5, <2>2, <3>1 DEF LegInv, Lone
  <2>3. CASE order(i).group \in book.live
    <3>1. PICK gw \in Gateways : QuoteCancel(gw) \/ KillSwitch(gw)
      BY <1>1, <1>5, <2>1, <2>3, QuotesStayLive
    <3>2. /\ pc' = "withdraw" /\ cur' = 0 /\ book'.ord = book.ord
          /\ book'.live = book.live \ QuoteOf(gw)
      BY <1>1, <3>1 DEF QuoteCancel, KillSwitch, IInv, HandlerOK, Sound, Book
    <3>3. order(i).group \in QuoteOf(gw) /\ order(i).gw = gw
      <4>1. order(i).group \in QuoteOf(gw)
        BY <1>5, <2>3, <3>2
      <4>2. order(order(i).group).gw = order(i).gw
        BY <1>1, <1>5, Groups DEF order
      <4>3. QED
        BY <4>1, <4>2 DEF QuoteOf
    <3>4. order(i).place = "book" => i \in clearing'
      BY <1>5, <3>1, <3>3 DEF QuoteCancel, KillSwitch, QuoteLegs, Routed, Held
    <3>5. QED
      BY <1>5, <3>2, <3>4 DEF MayTrade, order, Ids
  <2>4. QED
    BY <2>2, <2>3
<1>6. QED
  BY <1>2, <1>4, <1>5, <1>3 DEF LegInv, Lone, HitsRetire, SecondFollows, order

\* Leg i can never trade again, whoever is in hand.
OutOfPlay(b, i) == b.ord[i].group \notin b.live /\ b.ord[i].place # "book"

LEMMA ThinnedOut ==
  ASSUME NEW b, NEW c, Sound(b), Thinned(b, c), NEW i \in Ids, OutOfPlay(b, i)
  PROVE  OutOfPlay(c, i)
BY ThinnedTies DEF OutOfPlay, SameBonds, SameTies

\* The leg x has traded enough for _on_quote_leg_filled to inactivate its quote.
Inactivates(o) ==
  /\ o.bond = "quote"
  /\ \/ RefreshPolicy[o.gw] = "INACTIVATE_ON_ANY_FILL"
     \/ RefreshPolicy[o.gw] = "INACTIVATE_ON_FULL_FILL" /\ o.status = "FILLED"

\* The hook unregisters the quote and pulls the other leg.
LEMMA HookRetires ==
  ASSUME NEW b, Sound(b), Paired(b), NEW x \in Ids, Inactivates(b.ord[x]),
         b.ord[x].group \in b.live \/ OutOfPlay(b, Sibling(b, x))
  PROVE  OutOfPlay(QuoteLegFilled(b, x), Sibling(b, x))
<1> DEFINE s == Sibling(b, x)
           c == PullSibling(b, x)
<1>1. QuoteLegFilled(b, x) = c /\ b.ord[x].bond # "none"
  BY DEF QuoteLegFilled, Inactivates
<1>2. s \in Ids /\ b.ord[s].group = b.ord[x].group
  BY <1>1, Siblings DEF Paired
<1>3. CASE b.ord[x].group \in b.live
  <2>1. /\ c.live = b.live \ {b.ord[x].group}
        /\ c.ord[s].status \in Dead \/ (c.ord[s] = b.ord[s] /\ b.ord[s].place = "none")
    BY <1>1, <1>3, PullTouches
  <2>2. Sound(c) /\ Thinned(b, c)
    BY <1>1, PullThins
  <2> HIDE DEF c, s
  <2>3. c.ord[s].place # "book" /\ c.ord[s].group = b.ord[s].group
    <3>1. c.ord[s].group = b.ord[s].group
      BY <1>2, <2>2, ThinnedTies DEF SameBonds, SameTies
    <3>2. OrderSound(c.ord[s])
      BY <1>2, <2>2 DEF Sound
    <3>3. QED
      BY <2>1, <3>1, <3>2 DEF OrderSound, Working, Dead
  <2>4. QED
    BY <1>1, <1>2, <2>1, <2>3 DEF OutOfPlay, s
<1>4. CASE b.ord[x].group \notin b.live
  BY <1>1, <1>4 DEF PullSibling
<1>5. QED
  BY <1>3, <1>4

\* The two sides of a trade are not the legs of one quote.
LEMMA QuotesNeverMeet ==
  ASSUME IInv, PairInv, QuoteInv, QuotesApart, NEW p \in Ids, Facing(p),
         order(cur).bond = "quote" \/ order(p).bond = "quote"
  PROVE  order(cur).group # order(p).group
<1> SUFFICES ASSUME order(cur).group = order(p).group PROVE FALSE
  OBVIOUS
<1>1. /\ Sound(book) /\ Paired(book) /\ QuoteShape(book) /\ cur \in Ids /\ cur # p
      /\ p \in Matchable(book, cur)
  BY FacingFacts DEF PairInv, QuoteInv, Facing, IsBest
<1>2. order(cur).bond = "quote" /\ order(p).bond = "quote"
  BY <1>1, Groups DEF order
<1>3. /\ p = Sibling(book, cur) /\ cur = Sibling(book, p)
      /\ {cur, p} = {order(cur).group, order(cur).group + 1}
  <2>1. p = Sibling(book, cur)
    BY <1>1, <1>2, Groups DEF order
  <2>2. QED
    BY <1>1, <1>2, <2>1, Siblings, SiblingTwice DEF order
<1>4. /\ Within(order(cur).side, order(cur).price, order(p).price)
      /\ order(p).side = Opposite(order(cur).side)
  BY <1>1 DEF Matchable, Resting, order
<1>5. order(cur).price \in Prices /\ order(p).price \in Prices
  BY <1>1, <1>2 DEF Sound, OrderSound, QuoteShape, order
<1>6. order(cur).price # NoPrice /\ order(cur).price \in Nat /\ order(p).price \in Nat
  BY <1>5, PricesAssumption
<1>7. CASE cur = order(cur).group
  <2>1. order(cur).side = "BUY" /\ order(cur).price < order(p).price
    BY <1>1, <1>2, <1>3, <1>7 DEF QuoteShape, QuotesApart, order
  <2>2. QED
    BY <1>4, <1>6, <2>1 DEF Within
<1>8. CASE cur # order(cur).group
  <2>1. order(cur).side = "SELL" /\ order(p).price < order(cur).price
    BY <1>1, <1>2, <1>3, <1>8 DEF QuoteShape, QuotesApart, order
  <2>2. QED
    BY <1>4, <1>6, <2>1 DEF Within
<1>9. QED
  BY <1>7, <1>8

\* After a trade, the sibling of a side that the hooks inactivate is gone, and
\* so is the sibling of a side whose quote the trade unregisters.
LEMMA TradeRetires ==
  ASSUME IInv, PairInv, QuoteInv, LegInv, QuotesApart, NEW p \in Ids, Trade(p)
  PROVE  /\ SameBonds(book, book') /\ book'.live \subseteq book.live
         /\ \A i \in Ids : book'.ord[i].place = "book" => order(i).place = "book"
         /\ \A x \in {cur, p} : Inactivates(book'.ord[x]) =>
              OutOfPlay(book', Sibling(book, x)) /\ Sibling(book, x) # cur
         /\ \A i \in Ids :
              /\ order(i).bond = "quote" /\ order(i).group \in book.live \ book'.live
              => \E x \in {cur, p} : /\ order(x).group = order(i).group
                                     /\ order(x).bond = "quote"
                                     /\ OutOfPlay(book', Sibling(book, x))
                                     /\ Sibling(book, x) # cur
<1>1. /\ Facing(p) /\ cur \in Ids /\ cur # p
      /\ Sound(book) /\ Paired(book) /\ QuoteShape(book) /\ pc = "sweep"
      /\ order(p).place = "book" /\ order(cur).place = "none"
  BY FacingFacts DEF Trade, PairInv, QuoteInv
<1>2. PICK d : /\ Sound(d) /\ d.live = book.live /\ SameBonds(book, d)
               /\ \A j \in Ids \ {cur, p} : d.ord[j] = book.ord[j]
               /\ d.ord[cur].place = "none"
               /\ book' = FillHooks(d, cur, p)
  BY TradeTakes
<1>3. Paired(d) /\ \A i \in Ids : Sibling(d, i) = Sibling(book, i)
  BY <1>1, <1>2, TiesStay
<1>4. \A x \in {cur, p} : order(x).bond = "quote" =>
        /\ Sibling(book, x) \in Ids \ {cur, p}
        /\ order(Sibling(book, x)).bond = "quote"
        /\ order(Sibling(book, x)).group = order(x).group
  <2>1. SUFFICES ASSUME NEW x \in {cur, p}, order(x).bond = "quote"
                 PROVE  /\ Sibling(book, x) \in Ids \ {cur, p}
                        /\ order(Sibling(book, x)).bond = "quote"
                        /\ order(Sibling(book, x)).group = order(x).group
    OBVIOUS
  <2>2. order(cur).group # order(p).group
    BY <1>1, <2>1, QuotesNeverMeet
  <2>3. /\ Sibling(book, x) \in Ids /\ Sibling(book, x) # x
        /\ order(Sibling(book, x)).bond = "quote"
        /\ order(Sibling(book, x)).group = order(x).group
    BY <1>1, <2>1, Siblings DEF Paired, order
  <2>4. QED
    BY <2>1, <2>2, <2>3
<1>5. \A x \in {cur, p} : order(x).bond = "quote" /\ order(x).group \notin book.live
                          => OutOfPlay(book, Sibling(book, x)) /\ OutOfPlay(d, Sibling(book, x))
  <2>1. SUFFICES ASSUME NEW x \in {cur, p}, order(x).bond = "quote",
                        order(x).group \notin book.live
                 PROVE  OutOfPlay(book, Sibling(book, x)) /\ OutOfPlay(d, Sibling(book, x))
    OBVIOUS
  <2>2. MayTrade(x) /\ x \in Ids
    BY <1>1, <2>1 DEF MayTrade
  <2>3. ~MayTrade(Sibling(book, x))
    BY <2>1, <2>2 DEF LegInv, Lone
  <2>4. order(Sibling(book, x)).place # "book"
    BY <1>1, <2>3 DEF MayTrade
  <2>5. QED
    BY <1>2, <1>4, <2>1, <2>4 DEF OutOfPlay, order
<1> DEFINE e1 == QuoteLegFilled(d, p)
           e2 == QuoteLegFilled(e1, cur)
           e3 == OcoLegEnded(e2, p)
           e4 == OcoLegEnded(e3, cur)
<1>6. /\ Sound(e1) /\ Paired(e1) /\ SameBonds(d, e1) /\ Thinned(d, e1)
      /\ e1 = d \/ (order(p).bond = "quote" /\ e1 = PullSibling(d, p) /\ Inactivates(d.ord[p]))
      /\ e1.live \in {d.live, d.live \ {order(p).group}}
      /\ Inactivates(d.ord[p]) => OutOfPlay(e1, Sibling(book, p))
  <2>1. Sound(e1) /\ Paired(e1) /\ SameBonds(d, e1) /\ Thinned(d, e1)
    BY <1>2, <1>3, QuoteHookTouches
  <2>2. d.ord[p].bond = order(p).bond /\ d.ord[p].group = order(p).group
    BY <1>2 DEF SameBonds, SameTies, order
  <2>3. e1 = d \/ (order(p).bond = "quote" /\ e1 = PullSibling(d, p) /\ Inactivates(d.ord[p]))
    BY <2>2 DEF QuoteLegFilled, Inactivates
  <2>4. e1.live \in {d.live, d.live \ {order(p).group}}
    BY <1>2, <1>3, <2>2, <2>3, PullTouches
  <2>5. Inactivates(d.ord[p]) => OutOfPlay(e1, Sibling(book, p))
    BY <1>2, <1>3, <1>5, <2>2, HookRetires DEF Inactivates
  <2>6. QED
    BY <2>1, <2>3, <2>4, <2>5
<1> HIDE DEF e1
<1>7. d.ord[cur] = e1.ord[cur]
  BY <1>1, <1>2, <1>6, ThinnedTies
<1>8. /\ Sound(e2) /\ Paired(e2) /\ SameBonds(e1, e2) /\ Thinned(e1, e2)
      /\ e2 = e1 \/ (order(cur).bond = "quote" /\ e2 = PullSibling(e1, cur)
                     /\ Inactivates(d.ord[cur]))
      /\ e2.live \in {e1.live, e1.live \ {order(cur).group}}
      /\ Inactivates(d.ord[cur]) => OutOfPlay(e2, Sibling(book, cur))
  <2>1. Sound(e2) /\ Paired(e2) /\ SameBonds(e1, e2) /\ Thinned(e1, e2)
    BY <1>1, <1>6, QuoteHookTouches
  <2>2. d.ord[cur].bond = order(cur).bond /\ d.ord[cur].group = order(cur).group
    BY <1>1, <1>2 DEF SameBonds, SameTies, order
  <2>3. e2 = e1 \/ (order(cur).bond = "quote" /\ e2 = PullSibling(e1, cur)
                    /\ Inactivates(d.ord[cur]))
    BY <1>7, <2>2 DEF QuoteLegFilled, Inactivates
  <2>4. e2.live \in {e1.live, e1.live \ {order(cur).group}}
    BY <1>1, <1>6, <1>7, <2>2, <2>3, PullTouches
  <2>5. ASSUME Inactivates(d.ord[cur]) PROVE OutOfPlay(e2, Sibling(book, cur))
    <3>1. order(cur).bond = "quote" /\ Sibling(e1, cur) = Sibling(book, cur)
      BY <1>1, <1>2, <1>3, <1>6, <2>2, <2>5, TiesStay DEF Inactivates
    <3>2. order(cur).group # order(p).group
      BY <1>1, <3>1, QuotesNeverMeet
    <3>3. order(cur).group \in e1.live \/ OutOfPlay(e1, Sibling(book, cur))
      <4>1. CASE order(cur).group \in book.live
        BY <1>2, <1>6, <3>2, <4>1
      <4>2. CASE order(cur).group \notin book.live
        BY <1>1, <1>2, <1>4, <1>5, <1>6, <3>1, <4>2, ThinnedOut
      <4>3. QED
        BY <4>1, <4>2
    <3>4. QED
      BY <1>1, <1>6, <1>7, <2>2, <2>5, <3>1, <3>3, HookRetires
  <2>6. QED
    BY <2>1, <2>3, <2>4, <2>5
<1> HIDE DEF e2
<1>9. /\ Sound(e3) /\ Paired(e3) /\ Thinned(e2, e3)
      /\ \A g \in e2.live \ e3.live : e2.ord[g].bond = "oco"
  BY <1>8, OcoHookTouches
<1> HIDE DEF e3
<1>10. /\ Sound(e4) /\ Thinned(e3, e4)
       /\ \A g \in e3.live \ e4.live : e3.ord[g].bond = "oco"
  BY <1>1, <1>9, OcoHookTouches
<1> HIDE DEF e4
<1>11. book' = e4
  BY <1>2 DEF FillHooks, e1, e2, e3, e4
<1>12. Thinned(d, e2) /\ Thinned(e2, e4) /\ Thinned(e1, e4) /\ Thinned(d, e4)
  BY <1>2, <1>6, <1>8, <1>9, <1>10, ThinnedTransitive
<1>13. SameBonds(d, e4) /\ SameBonds(d, e2) /\ SameBonds(d, e3)
  <2>1. SameBonds(d, e4) /\ SameBonds(d, e2) /\ SameBonds(e2, e3)
    BY <1>2, <1>8, <1>9, <1>12, ThinnedTies
  <2>2. QED
    BY <2>1 DEF SameBonds, SameTies
<1>14. SameBonds(book, book') /\ book'.live \subseteq book.live
  <2>1. SameBonds(book, book')
    BY <1>2, <1>11, <1>13 DEF SameBonds, SameTies
  <2>2. QED
    BY <1>2, <1>11, <1>12, <2>1 DEF Thinned
<1>15. \A i \in Ids : book'.ord[i].place = "book" => order(i).place = "book"
  <2>1. \A i \in Ids : e4.ord[i].place \in {d.ord[i].place, "none"}
    BY <1>2, <1>12, ThinnedTies
  <2>2. QED
    BY <1>1, <1>2, <1>11, <2>1 DEF order
<1>16. ASSUME NEW x \in {cur, p}, order(x).bond = "quote", Inactivates(d.ord[x])
       PROVE  OutOfPlay(book', Sibling(book, x)) /\ Sibling(book, x) # cur
  <2>1. Sibling(book, x) \in Ids \ {cur, p}
    BY <1>4, <1>16
  <2>2. OutOfPlay(e1, Sibling(book, x)) \/ OutOfPlay(e2, Sibling(book, x))
    BY <1>6, <1>8, <1>16
  <2>3. QED
    BY <1>6, <1>8, <1>11, <1>12, <2>1, <2>2, ThinnedOut
<1>17. ASSUME NEW x \in {cur, p}, Inactivates(book'.ord[x])
       PROVE  order(x).bond = "quote" /\ Inactivates(d.ord[x])
  <2>1. /\ x \in Ids /\ SameTies(d.ord[x], e4.ord[x])
        /\ d.ord[x].bond = order(x).bond
        /\ \/ e4.ord[x] = d.ord[x]
           \/ e4.ord[x] = Withdrawn1(d.ord[x])
    BY <1>1, <1>2, <1>12, <1>13 DEF SameBonds, SameTies, Thinned, order
  <2>2. d.ord[x] \in Order
    BY <1>2, <2>1 DEF Sound, Book
  <2>3. e4.ord[x].status = "FILLED" => d.ord[x].status = "FILLED"
    BY <2>1, <2>2 DEF Withdrawn1, Order
  <2>4. QED
    BY <1>11, <1>17, <2>1, <2>3 DEF Inactivates, SameTies
<1>18. ASSUME NEW i \in Ids, order(i).bond = "quote", order(i).group \in book.live \ book'.live
       PROVE  \E x \in {cur, p} : /\ order(x).group = order(i).group
                                  /\ order(x).bond = "quote"
                                  /\ OutOfPlay(book', Sibling(book, x))
                                  /\ Sibling(book, x) # cur
  <2> DEFINE g == order(i).group
  <2>1. g \in Ids /\ order(g).bond = "quote" /\ g \in d.live /\ g \notin e4.live
    BY <1>1, <1>2, <1>11, <1>18, Groups, Siblings DEF order
  <2>2. \A b \in {e2, e3} : b.ord[g].bond = "quote"
    BY <1>2, <1>13, <2>1 DEF SameBonds, SameTies, order
  <2>3. g \notin e2.live
    BY <1>9, <1>10, <2>1, <2>2
  <2>4. CASE g \notin e1.live
    <3>1. e1 # d /\ order(p).group = g
      BY <1>6, <2>1, <2>4
    <3>2. QED
      BY <1>6, <1>16, <3>1
  <2>5. CASE g \in e1.live
    <3>1. e2 # e1 /\ order(cur).group = g
      BY <1>8, <2>3, <2>5
    <3>2. QED
      BY <1>8, <1>16, <3>1
  <2>6. QED
    BY <2>4, <2>5
<1>19. QED
  BY <1>14, <1>15, <1>16, <1>17, <1>18

\* A trade retires the leg that it inactivates, and brings none back.
LEMMA TradeLegs ==
  ASSUME IInv, PairInv, QuoteInv, LegInv, QuotesApart, NEW p \in Ids, Trade(p)
  PROVE  LegInv'
<1>1. /\ cur \in Ids /\ Sound(book) /\ Paired(book) /\ pc = "sweep" /\ pc' = "sweep"
      /\ cur' = cur /\ order(p).place = "book"
  BY FacingFacts DEF Trade, PairInv
<1>2. /\ SameBonds(book, book') /\ book'.live \subseteq book.live
      /\ \A i \in Ids : book'.ord[i].place = "book" => order(i).place = "book"
      /\ \A x \in {cur, p} : Inactivates(book'.ord[x]) =>
           OutOfPlay(book', Sibling(book, x)) /\ Sibling(book, x) # cur
      /\ \A i \in Ids :
           /\ order(i).bond = "quote" /\ order(i).group \in book.live \ book'.live
           => \E x \in {cur, p} : /\ order(x).group = order(i).group
                                  /\ order(x).bond = "quote"
                                  /\ OutOfPlay(book', Sibling(book, x))
                                  /\ Sibling(book, x) # cur
  BY TradeRetires
<1>3. \A i \in Ids : /\ Sibling(book', i) = Sibling(book, i)
                     /\ book'.ord[i].bond = order(i).bond
                     /\ book'.ord[i].group = order(i).group
                     /\ book'.ord[i].gw = order(i).gw
  BY <1>1, <1>2, TiesStay DEF SameBonds, SameTies, order
<1>4. ASSUME NEW i \in Ids, Inactivated(i)'
      PROVE  Retired(i)'
  <2> DEFINE s == Sibling(book, i)
  <2>1. /\ s \in Ids /\ Sibling(book, s) = i /\ order(i).bond = "quote"
        /\ order(s).bond = "quote" /\ order(s).gw = order(i).gw
        /\ Sibling(book', i) = s
    BY <1>1, <1>3, <1>4, Siblings, SiblingTwice DEF Inactivated, Paired, order
  <2> HIDE DEF s
  <2>2. /\ book'.ord[i].gw = order(i).gw
        /\ \/ RefreshPolicy[order(i).gw] = "INACTIVATE_ON_ANY_FILL"
              /\ book'.ord[s].rem < book'.ord[s].qty
           \/ RefreshPolicy[order(i).gw] = "INACTIVATE_ON_FULL_FILL"
              /\ book'.ord[s].status = "FILLED"
    BY <1>3, <1>4, <2>1 DEF Inactivated, order
  <2>3. CASE s \in {cur, p}
    <3>1. Inactivates(book'.ord[s])
      BY <1>3, <2>1, <2>2 DEF Inactivates
    <3>2. OutOfPlay(book', i) /\ i # cur
      BY <1>2, <2>1, <2>3, <3>1
    <3>3. QED
      BY <1>1, <3>2 DEF OutOfPlay, Retired, order
  <2>4. CASE s \notin {cur, p}
    <3>1. Calm(order(s), book'.ord[s])
      BY <2>1, <2>4, TradeOrders
    <3>2. Inactivated(i)
      BY <2>1, <2>2, <3>1 DEF Calm, SameOrder, Inactivated, s
    <3>3. Retired(i)
      BY <3>2 DEF LegInv, HitsRetire
    <3>4. QED
      BY <1>1, <1>2, <1>3, <3>3 DEF Retired, order
  <2>5. QED
    BY <2>3, <2>4
<1>5. ASSUME NEW i \in Ids, order(i).bond = "quote", order(i).group \notin book'.live,
             NEW s, s = Sibling(book, i), MayTrade(i)', MayTrade(s)'
      PROVE  FALSE
  <2>1. s \in Ids /\ order(s).bond = "quote" /\ order(s).group = order(i).group
    BY <1>1, <1>5, Siblings DEF Paired, order
  <2>2. MayTrade(i) /\ MayTrade(s)
    BY <1>1, <1>2, <1>5, <2>1 DEF MayTrade, order
  <2>3. order(i).group \in book.live
    BY <1>5, <2>2 DEF LegInv, Lone
  <2>4. PICK x \in {cur, p} : /\ order(x).group = order(i).group /\ order(x).bond = "quote"
                              /\ OutOfPlay(book', Sibling(book, x)) /\ Sibling(book, x) # cur
    BY <1>2, <1>5, <2>3
  <2>5. x \in {i, s}
    BY <1>1, <1>5, <2>4, Groups DEF order
  <2>6. PICK y \in {i, s} : OutOfPlay(book', y) /\ y # cur
    BY <1>1, <1>5, <2>4, <2>5, SiblingTwice DEF order
  <2>7. QED
    BY <1>1, <1>5, <2>6 DEF MayTrade, OutOfPlay, order
<1>6. QED
  BY <1>1, <1>3, <1>4, <1>5 DEF LegInv, Lone, HitsRetire, SecondFollows, order

\* An accepted order is new to what the fills have retired.
LEMMA AcceptedLegs ==
  ASSUME IInv, PairInv, LegInv, pc = "idle", NEW new \in SUBSET Ids,
         \A i \in Ids \ new :
           /\ book'.ord[i] = order(i) /\ Sibling(book', i) = Sibling(book, i)
           /\ order(i).bond # "none" => /\ Sibling(book, i) \notin new
                                        /\ order(i).group \notin new,
         \A i \in new :
           /\ book'.ord[i].place = "none" /\ book'.ord[i].rem = book'.ord[i].qty
           /\ book'.ord[i].status = "NEW" /\ book'.ord[i].qty \in Nat
           /\ book'.ord[i].bond = "quote" => Sibling(book', i) \in new \ {i},
         cur' \in new, todo' \in new \cup {0},
         pc' = "withdraw" => todo' = cur' + 1,
         \A g \in book'.live \ book.live : g \in new,
         \A i \in Ids \ new : order(i).bond = "quote" /\ order(i).group \in book.live \ book'.live
                              /\ order(i).place = "book"
                              => pc' = "withdraw" /\ i \in clearing'
  PROVE  LegInv'
<1>1. Sound(book) /\ Paired(book) /\ cur = 0 /\ todo = 0 /\ 0 \notin Ids
  BY DEF IInv, HandlerOK, PairInv, Ids
<1>2. ASSUME NEW i \in Ids, Inactivated(i)'
      PROVE  Retired(i)'
  <2>1. CASE i \in new
    <3>1. Sibling(book', i) \in new
      BY <1>2, <2>1 DEF Inactivated, order
    <3>2. /\ book'.ord[Sibling(book', i)].rem = book'.ord[Sibling(book', i)].qty
          /\ book'.ord[Sibling(book', i)].status = "NEW"
          /\ book'.ord[Sibling(book', i)].qty \in Nat
      BY <3>1
    <3>3. QED
      BY <1>2, <3>2 DEF Inactivated, order
  <2>2. CASE i \notin new
    <3>1. /\ book'.ord[i] = order(i) /\ Sibling(book', i) = Sibling(book, i)
          /\ order(i).bond = "quote" /\ Sibling(book, i) \in Ids \ new
          /\ order(i).group \notin new
      BY <1>1, <1>2, <2>2, Siblings DEF Inactivated, order
    <3>2. Inactivated(i)
      BY <1>2, <3>1 DEF Inactivated, order
    <3>3. Retired(i)
      BY <3>2 DEF LegInv, HitsRetire
    <3>4. QED
      BY <1>1, <2>2, <3>1, <3>3 DEF Retired, order
  <2>3. QED
    BY <2>1, <2>2
<1>3. ASSUME NEW i \in Ids, book'.ord[i].bond = "quote", book'.ord[i].group \notin book'.live,
             MayTrade(i)', NEW s, s = Sibling(book', i), MayTrade(s)'
      PROVE  FALSE
  <2>1. CASE i \in new
    <3>1. s \in new /\ s # i /\ s \in Ids
      BY <1>3, <2>1
    <3>2. QED
      BY <1>3, <2>1, <3>1 DEF MayTrade, order
  <2>2. CASE i \notin new
    <3>1. /\ book'.ord[i] = order(i) /\ s = Sibling(book, i)
          /\ order(i).bond = "quote" /\ s \in Ids \ new /\ book'.ord[s] = order(s)
      BY <1>1, <1>3, <2>2, Siblings DEF order
    <3>2. order(i).place = "book" /\ order(s).place = "book"
      BY <1>3, <2>2, <3>1 DEF MayTrade, order
    <3>3. order(i).group \notin book.live
      BY <1>3, <2>2, <3>1, <3>2 DEF MayTrade, order
    <3>4. QED
      BY <3>1, <3>2, <3>3 DEF LegInv, Lone, MayTrade
  <2>3. QED
    BY <2>1, <2>2
<1>4. SecondFollows'
  BY DEF SecondFollows
<1>5. QED
  BY <1>2, <1>3, <1>4 DEF LegInv, Lone, HitsRetire, order

LEMMA AcceptStepLegs ==
  ASSUME IInv, PairInv, LegInv, Accepts
  PROVE  LegInv'
<1>1. Sound(book) /\ Paired(book)
  BY DEF IInv, PairInv
<1>2. ASSUME NEW r \in NewOrders, NewOrder(r)
      PROVE  LegInv'
  <2> DEFINE new == {born + 1}
  <2>1. /\ born + 1 \in Ids /\ book'.ord[born + 1] = Accepted(r, "none", 0)
        /\ book'.live = book.live /\ r \in Request /\ order(born + 1).bond = "none"
    <3>1. /\ born + 1 \in Ids
          /\ book'.ord = [book.ord EXCEPT ![born + 1] = Accepted(r, "none", 0)]
          /\ book'.live = book.live /\ r \in Request
      BY <1>2, NewOrderOrders
    <3>2. born + 1 > born
      BY DEF IInv, TypeOK
    <3>3. QED
      BY <1>1, <3>1, <3>2 DEF Sound, Book, IInv, Unborn
  <2>2. \A i \in Ids \ new :
          /\ book'.ord[i] = order(i) /\ Sibling(book', i) = Sibling(book, i)
          /\ order(i).bond # "none" => /\ Sibling(book, i) \notin new
                                       /\ order(i).group \notin new
    <3>1. \A i \in Ids \ new :
            /\ book'.ord[i] = order(i) /\ Sibling(book', i) = Sibling(book, i)
            /\ order(i).bond # "none" => Sibling(book, i) # born + 1
      BY <1>1, <1>2, NewOrderPaired
    <3>2. \A i \in Ids \ new : order(i).bond # "none" => order(i).group # born + 1
      BY <1>1, <2>1, Groups DEF order
    <3>3. QED
      BY <3>1, <3>2
  <2>3. \A i \in new :
          /\ book'.ord[i].place = "none" /\ book'.ord[i].rem = book'.ord[i].qty
          /\ book'.ord[i].status = "NEW" /\ book'.ord[i].qty \in Nat
          /\ book'.ord[i].bond = "quote" => Sibling(book', i) \in new \ {i}
    BY <2>1 DEF Accepted, Request
  <2>4. /\ pc = "idle" /\ pc' = "process" /\ cur' \in new
        /\ todo' \in new \cup {0} /\ new \in SUBSET Ids
    BY <1>2, <2>1 DEF NewOrder, Start
  <2> HIDE DEF new
  <2>5. QED
    BY <2>1, <2>2, <2>3, <2>4, AcceptedLegs
<1>3. ASSUME NEW l \in Request \X Request, NEW bond \in {"oco", "quote"},
             \/ bond = "oco" /\ l \in OcoPairs /\ OcoOrder(l)
             \/ bond = "quote" /\ l \in QuotePairs /\ QuoteNew(l)
      PROVE  LegInv'
  <2> DEFINE new == {born + 1, born + 2}
  <2>1. /\ born + 1 \in Ids /\ born + 2 \in Ids /\ born \in Nat
        /\ book'.ord[born + 1] = Accepted(l[1], bond, born + 1)
        /\ book'.ord[born + 2] = Accepted(l[2], bond, born + 1)
        /\ \A i \in new : order(i).bond = "none"
        /\ book'.live = IF bond = "oco" THEN book.live \cup {born + 1}
                                        ELSE book.live \ QuoteOf(l[1].gw)
    <3>1. born + 1 + 1 = born + 2 /\ born \in Nat
      BY DEF IInv, TypeOK
    <3>2. QED
      BY <1>3, <3>1, PairOrders
  <2>2. \A i \in Ids \ new :
          /\ book'.ord[i] = order(i) /\ Sibling(book', i) = Sibling(book, i)
          /\ order(i).bond # "none" => /\ Sibling(book, i) \notin new
                                       /\ order(i).group \notin new
    <3>1. \A i \in Ids \ new :
            /\ book'.ord[i] = order(i) /\ Sibling(book', i) = Sibling(book, i)
            /\ order(i).bond # "none" => Sibling(book, i) \notin new
      BY <1>1, <1>3, AcceptedPaired
    <3>2. \A i \in Ids \ new : order(i).bond # "none" =>
            order(order(i).group).bond # "none"
      BY <1>1, Groups, Siblings DEF order
    <3>3. QED
      BY <2>1, <3>1, <3>2
  <2>3. \A i \in new :
          /\ book'.ord[i].place = "none" /\ book'.ord[i].rem = book'.ord[i].qty
          /\ book'.ord[i].status = "NEW" /\ book'.ord[i].qty \in Nat
          /\ book'.ord[i].bond = "quote" => Sibling(book', i) \in new \ {i}
    <3>1. \A i \in new :
            /\ book'.ord[i].place = "none" /\ book'.ord[i].rem = book'.ord[i].qty
            /\ book'.ord[i].status = "NEW" /\ book'.ord[i].qty \in Nat
            /\ book'.ord[i].group = born + 1
      BY <2>1 DEF Accepted, Request
    <3>2. \A i \in new : Sibling(book', i) \in new \ {i}
      BY <2>1, <3>1 DEF Sibling
    <3>3. QED
      BY <3>1, <3>2
  <2>4. /\ pc = "idle" /\ cur' = born + 1 /\ todo' = born + 2 /\ new \in SUBSET Ids
        /\ todo' = cur' + 1
    BY <1>3, <2>1 DEF OcoOrder, QuoteNew, Start
  <2>5. \A g \in book'.live \ book.live : g \in new
    BY <2>1
  <2>6. ASSUME NEW i \in Ids \ new, order(i).bond = "quote", order(i).place = "book",
               order(i).group \in book.live \ book'.live
        PROVE  pc' = "withdraw" /\ i \in clearing'
    <3>1. QuoteNew(l) /\ order(i).group \in QuoteOf(l[1].gw)
      BY <1>3, <2>1, <2>6
    <3>2. QED
      BY <3>1 DEF QuoteNew, QuoteLegs
  <2> HIDE DEF new
  <2>7. cur' \in new /\ todo' \in new
    BY <2>4 DEF new
  <2>8. QED
    BY <2>2, <2>3, <2>4, <2>5, <2>6, <2>7, AcceptedLegs
<1>4. \A l \in OcoPairs \cup QuotePairs : l \in Request \X Request
  BY RequestsAssumption
<1>5. QED
  BY <1>2, <1>3, <1>4 DEF Accepts

LEMMA LegsStep ==
  ASSUME IInv, PairInv, QuoteInv, LegInv, QuotesApart, [Next]_vars
  PROVE  LegInv'
<1>1. CASE UNCHANGED vars
  BY <1>1 DEF vars, dispatch, LegInv, Lone, HitsRetire, SecondFollows, MayTrade, Retired,
              Inactivated, order
<1>2. QED
  BY <1>1, TradeLegs, AcceptStepLegs, LegsFrame

LEMMA LegsInit ==
  ASSUME Init
  PROVE  LegInv
<1>1. \A i \in Ids : order(i).bond = "none"
  BY DEF Init, order, Absent
<1>2. QED
  BY <1>1 DEF Init, LegInv, Lone, HitsRetire, SecondFollows, Inactivated

\* What a fill has retired does not execute.
LEMMA RetiredRests ==
  ASSUME IInv, LegInv, [Next]_vars, NEW i \in Ids, Inactivated(i)
  PROVE  ~Executes(i)
<1>1. SUFFICES ASSUME Executes(i) PROVE FALSE
  OBVIOUS
<1>2. Next
  <2>1. CASE UNCHANGED vars
    <3>1. order(i).qty \in Nat /\ order(i).rem \in Nat /\ book' = book
      BY <2>1 DEF vars, IInv, Sound, Book, Order, order
    <3>2. QED
      BY <1>1, <3>1 DEF Executes, order
  <2>2. QED
    BY <2>1
<1>3. PICK p \in Ids : Trade(p) /\ i \in {cur, p}
  BY <1>1, <1>2, OnlyTradesExecute
<1>4. order(p).place = "book"
  BY <1>3, FacingFacts DEF Trade
<1>5. QED
  BY <1>3, <1>4 DEF LegInv, HitsRetire, Retired

\* InactiveQuoteNeverTrades: once a fill has inactivated a quote its other leg
\* never executes, for the rest of the sweep or in the cascade that the fill set
\* off (_on_quote_leg_filled runs inside _apply_fill).  The hypothesis is that
\* no amend prices one leg of a quote through the other: two legs that trade
\* with each other inactivate the quote while the incoming one is in hand, out
\* of the hook's reach, and its sweep goes on.
THEOREM InactiveQuotesRest == Spec /\ []QuotesApart => InactiveQuoteNeverTrades
<1>1. Init => LegInv
  BY LegsInit
<1>2. IInv /\ PairInv /\ QuoteInv /\ LegInv /\ QuotesApart /\ [Next]_vars => LegInv'
  BY LegsStep
<1>3. IInv /\ LegInv /\ [Next]_vars => [\A i \in Ids : Inactivated(i) => ~Executes(i)]_vars
  BY RetiredRests
<1>4. QED
  BY <1>1, <1>2, <1>3, Invariance, PairInvariance, QuoteInvariance, PTL
  DEF Spec, InactiveQuoteNeverTrades

\* The quote checks reject a bid at or above its ask, and no step but an amend
\* prices a limit order.
LEMMA ApartStep ==
  ASSUME AmendPrices = {} \/ AmendQtys = {},
         IInv, PairInv, QuoteInv, QuotesApart, [Next]_vars
  PROVE  QuotesApart'
<1>1. Sound(book) /\ Paired(book) /\ QuoteShape(book)
  BY DEF IInv, PairInv, QuoteInv
<1>2. CASE UNCHANGED vars
  BY <1>2 DEF vars, QuotesApart, order
<1>3. ASSUME NEW new \in SUBSET Ids,
             \A i \in Ids \ new :
               /\ book'.ord[i] = order(i) /\ Sibling(book', i) = Sibling(book, i)
               /\ order(i).bond # "none" => Sibling(book, i) \notin new,
             \A i \in new : book'.ord[i].bond = "quote" /\ i = book'.ord[i].group
               => book'.ord[i].price < book'.ord[Sibling(book', i)].price
      PROVE  QuotesApart'
  <2>1. SUFFICES ASSUME NEW i \in Ids \ new, order(i).bond = "quote", i = order(i).group
                 PROVE  book'.ord[i].price < book'.ord[Sibling(book', i)].price
    BY <1>3 DEF QuotesApart, order
  <2>2. Sibling(book, i) \in Ids \ new
    BY <1>1, <1>3, <2>1, Siblings DEF order
  <2>3. QED
    BY <1>3, <2>1, <2>2 DEF QuotesApart, order
<1>4. ASSUME NEW r \in NewOrders, NewOrder(r) PROVE QuotesApart'
  <2>1. born + 1 \in Ids
    BY <1>4, NewOrderOrders
  <2>2. QED
    BY <1>1, <1>3, <1>4, <2>1, NewOrderPaired
<1>5. ASSUME NEW l \in Request \X Request, NEW bond \in {"oco", "quote"},
             \/ bond = "oco" /\ l \in OcoPairs /\ OcoOrder(l)
             \/ bond = "quote" /\ l \in QuotePairs /\ QuoteNew(l)
      PROVE  QuotesApart'
  <2> DEFINE new == {born + 1, born + 2}
  <2>1. /\ new \in SUBSET Ids /\ born \in Nat
        /\ book'.ord[born + 1] = Accepted(l[1], bond, born + 1)
        /\ book'.ord[born + 2] = Accepted(l[2], bond, born + 1)
    <3>1. born + 1 + 1 = born + 2 /\ born \in Nat
      BY DEF IInv, TypeOK
    <3>2. QED
      BY <1>5, <3>1, PairOrders
  <2>2. \A i \in Ids \ new :
          /\ book'.ord[i] = order(i) /\ Sibling(book', i) = Sibling(book, i)
          /\ order(i).bond # "none" => Sibling(book, i) \notin new
    BY <1>1, <1>5, AcceptedPaired
  <2>3. bond = "quote" => l[1].price < l[2].price
    BY <1>5, GatesAssumption
  <2>4. ASSUME NEW i \in new, book'.ord[i].bond = "quote", i = book'.ord[i].group
        PROVE  book'.ord[i].price < book'.ord[Sibling(book', i)].price
    <3>1. i = born + 1 /\ bond = "quote"
      BY <2>1, <2>4 DEF Accepted
    <3>2. Sibling(book', i) = born + 2
      BY <2>1, <3>1 DEF Sibling, Accepted
    <3>3. QED
      BY <2>1, <2>3, <3>1, <3>2 DEF Accepted
  <2> HIDE DEF new
  <2>5. QED
    BY <1>3, <2>1, <2>2, <2>4
<1>6. CASE Next /\ ~Accepts
  <2>1. SameBonds(book, book') /\ \A i \in Ids : Sibling(book', i) = Sibling(book, i)
    <3>1. SameBonds(book, book')
      BY <1>6, TiesKept DEF Accepts
    <3>2. QED
      BY <1>1, <3>1, TiesStay
  <2>2. ASSUME NEW i \in Ids, order(i).bond = "quote"
        PROVE  book'.ord[i].price = order(i).price
    <3>1. order(i).kind = "LIMIT"
      BY <1>1, <2>2 DEF QuoteShape, order
    <3>2. CASE CalmBook(book, book')
      BY <3>1, <3>2 DEF CalmBook, Calm, order
    <3>3. ASSUME NEW p \in Ids, Trade(p) PROVE book'.ord[i].price = order(i).price
      <4>1. /\ book'.ord[cur].price = order(cur).price /\ book'.ord[p].price = order(p).price
            /\ \A j \in Ids \ {cur, p} : Calm(order(j), book'.ord[j])
        BY <3>3, TradeOrders
      <4>2. QED
        BY <3>1, <4>1 DEF Calm, order
    <3>4. QED
      BY <1>6, <3>2, <3>3, StepKinds DEF Accepts
  <2>3. ASSUME NEW i \in Ids, order(i).bond = "quote", i = order(i).group
        PROVE  book'.ord[i].price < book'.ord[Sibling(book', i)].price
    <3>1. Sibling(book, i) \in Ids /\ order(Sibling(book, i)).bond = "quote"
      BY <1>1, <2>3, Siblings DEF Paired, order
    <3>2. QED
      BY <2>1, <2>2, <2>3, <3>1 DEF QuotesApart, order
  <2>4. QED
    BY <2>1, <2>3 DEF QuotesApart, SameBonds, SameTies, order
<1>7. \A l \in OcoPairs \cup QuotePairs : l \in Request \X Request
  BY RequestsAssumption
<1>8. QED
  BY <1>2, <1>4, <1>5, <1>6, <1>7 DEF Accepts

\* Where quote legs cannot be amended the hypothesis holds.
THEOREM UnamendedStayApart ==
  ASSUME AmendPrices = {} \/ AmendQtys = {}
  PROVE  Spec => []QuotesApart
<1> SUFFICES ASSUME AmendPrices = {} \/ AmendQtys = {} PROVE Spec => []QuotesApart
  OBVIOUS
<1>1. Init => QuotesApart
  BY DEF Init, QuotesApart, order, Absent
<1>2. IInv /\ PairInv /\ QuoteInv /\ QuotesApart /\ [Next]_vars => QuotesApart'
  BY ApartStep
<1>3. QED
  BY <1>1, <1>2, Invariance, PairInvariance, QuoteInvariance, PTL DEF Spec

=============================================================================
