---------------------------- MODULE Recovery_proofs ----------------------------
(***************************************************************************)
(* What holds of Recovery for all combos, legs, quantities and gateways,   *)
(* and any number of runs: types, fresh run numbers, and the four          *)
(* invariants that keep a combo and its legs in step over every crash.     *)
(*                                                                         *)
(* None of the four is inductive.  They rest on one another, on what every *)
(* live combo knows of its legs, and on how the files relate to memory.    *)
(* MemoryInv says the first of what the engine remembers, and is shown to  *)
(* survive each operator of Combos; RInv adds the files and the phases of  *)
(* the engine, and is inductive.                                           *)
(***************************************************************************)
EXTENDS Recovery, TLAPS

-----------------------------------------------------------------------------
(***************************************************************************)
(* The invariant of the memory.                                            *)
(***************************************************************************)
ParentOf(m, i) == m.parent[i[1]].status
SeenOf(m, i)   == m.parent[i[1]].seen[i[2]]

\* f: the children published as filled; x: those that ended without follow-up.
ChildInv(m, f, i) ==
  /\ m.child[i].works => i \in m.routed /\ m.child[i].status \in {"NEW", "PARTIAL"}
  /\ m.child[i].status = "FILLED" => i \in f
LiveInv(m, f, x, i) ==
  ParentOf(m, i) \in Live =>
    /\ SeenOf(m, i) = "FILLED" => i \in f /\ ~m.child[i].works
    /\ m.child[i].status \in Lost => i \in x
    /\ m.child[i].status # "none" => i \in m.linked
OverInv(m, f, i) ==
  /\ ParentOf(m, i) \in Over => ~m.child[i].works
  /\ ParentOf(m, i) = "MATCHED" => i \in f

MemoryInv(m, f, x) ==
  /\ m \in Memory
  /\ \A i \in Ids : ChildInv(m, f, i) /\ LiveInv(m, f, x, i) /\ OverInv(m, f, i)

\* No step of one child's event touches another combo, or starts an order.
OnlyAbout(m, n, i) ==
  /\ \A c \in Combos : c # i[1] => n.parent[c] = m.parent[c]
  /\ \A l \in Legs : l # i[2] => n.parent[i[1]].seen[l] = m.parent[i[1]].seen[l]
  /\ SeenOf(n, i) \in {SeenOf(m, i), m.child[i].status}
  /\ \A j \in Ids : n.child[j] # m.child[j] =>
       m.child[j].works /\ ~n.child[j].works /\ n.child[j].status = "CANCELLED"
  /\ ParentOf(m, i) \notin Live => n.parent[i[1]] = m.parent[i[1]]
  /\ ParentOf(m, i) \in Live =>
       \/ ParentOf(n, i) \in Live \cup {"FAILED"}
       \/ ParentOf(n, i) = "MATCHED" /\ \A l \in Legs : n.parent[i[1]].seen[l] = "FILLED"

-----------------------------------------------------------------------------
(***************************************************************************)
(* The invariant of the system.                                            *)
(***************************************************************************)
TypeInv ==
  /\ pc \in {"idle", "post", "expire", "saved", "down", "restore", "uncross"}
  /\ filled \subseteq Ids /\ excused \subseteq Ids /\ used \subseteq Combos
  /\ orders \in [Ids -> Nat] /\ combos \in [Combos -> Parent]
  /\ stale \subseteq used \cap DayCombos
RunInv ==
  /\ runFile \in 1 .. MaxRuns /\ run \in 1 .. runFile /\ served \subseteq 1 .. runFile
  /\ pc = "down" => runFile < MaxRuns
PostInv ==
  IF pc = "post"
  THEN /\ cur \in Ids /\ verdict \in Verdicts
       /\ cur[1] \in used /\ ParentOf(mem, cur) \in Live
       /\ \A l \in Legs : l >= cur[2] <=> mem.parent[cur[1]].seen[l] = "none"
       /\ combos[cur[1]] = NoParent
  ELSE cur = NoId /\ verdict = "none"
FreshInv ==
  \A c \in Combos : c \notin used =>
    /\ mem.parent[c] = NoParent /\ combos[c] = NoParent
    /\ \A l \in Legs : /\ mem.child[<<c, l>>].status = "none" /\ ~mem.child[<<c, l>>].works
                       /\ orders[<<c, l>>] = 0
KnownInv ==
  \A i \in Ids : ParentOf(mem, i) \in Live /\ (pc = "post" => i[1] # cur[1])
                 => SeenOf(mem, i) # "none"
DiskInv ==
  \A i \in Ids :
    /\ combos[i[1]] = NoParent \/ (combos[i[1]].status \in Live /\ combos[i[1]].seen[i[2]] # "none")
    /\ combos[i[1]].seen[i[2]] = "FILLED"
       => i \in filled /\ orders[i] = 0 /\ ~mem.child[i].works
StartInv ==
  /\ pc \in {"down", "restore"} => mem = Blank
  /\ pc = "uncross" => /\ \A c \in Combos : mem.parent[c] = NoParent
                       /\ \A i \in Ids : mem.child[i].status \in Lost => i \in excused

RInv ==
  /\ TypeInv /\ RunInv /\ MemoryInv(mem, filled, excused)
  /\ PostInv /\ FreshInv /\ KnownInv /\ DiskInv /\ StartInv

-----------------------------------------------------------------------------
(***************************************************************************)
(* What the operators of Combos do to each part of the memory.             *)
(***************************************************************************)
LEMMA Parts ==
  ASSUME NEW i \in Ids
  PROVE  i[1] \in Combos /\ i[2] \in Legs /\ i = <<i[1], i[2]>>
  BY DEF Ids

LEMMA LegIds ==
  ASSUME NEW c \in Combos, NEW l \in Legs
  PROVE  <<c, l>> \in Ids /\ <<c, l>>[1] = c /\ <<c, l>>[2] = l
  BY DEF Ids

LEMMA MemoryFields ==
  ASSUME NEW m, m \in Memory
  PROVE  /\ m.child \in [Ids -> Child] /\ m.parent \in [Combos -> Parent]
         /\ m.linked \subseteq Ids /\ m.routed \subseteq Ids
         /\ \A i \in Ids : m.child[i] \in Child /\ m.parent[i[1]] \in Parent
  BY Parts DEF Memory

LEMMA LeftFields ==
  ASSUME NEW m, m \in Memory, NEW i \in Ids, NEW ch \in Child
  PROVE  /\ Left(m, i, ch) \in Memory
         /\ Left(m, i, ch).child = [m.child EXCEPT ![i] = ch]
         /\ Left(m, i, ch).parent = m.parent
         /\ Left(m, i, ch).linked = m.linked /\ Left(m, i, ch).routed = m.routed
         /\ Left(m, i, ch).child[i] = ch
<1>1. /\ Left(m, i, ch) \in Memory
      /\ Left(m, i, ch).child = [m.child EXCEPT ![i] = ch]
      /\ Left(m, i, ch).parent = m.parent
      /\ Left(m, i, ch).linked = m.linked /\ Left(m, i, ch).routed = m.routed
  BY DEF Left, Memory
<1>2. m.child \in [Ids -> Child]  BY MemoryFields
<1>3. Left(m, i, ch).child[i] = ch  BY <1>1, <1>2
<1>. QED  BY <1>1, <1>3

\* An entry of the routing map goes.
Unrouted(m, i) == [m EXCEPT !.routed = @ \ {i}]
LEMMA UnroutedFields ==
  ASSUME NEW m, m \in Memory, NEW i \in Ids
  PROVE  /\ Unrouted(m, i) \in Memory
         /\ Unrouted(m, i).child = m.child /\ Unrouted(m, i).parent = m.parent
         /\ Unrouted(m, i).linked = m.linked /\ Unrouted(m, i).routed = m.routed \ {i}
  BY DEF Unrouted, Memory

Gone(ch, how) == [ch EXCEPT !.status = how, !.works = FALSE]
LEMMA GoneFields ==
  ASSUME NEW ch \in Child, NEW how \in Statuses
  PROVE  /\ Gone(ch, how) \in Child
         /\ Gone(ch, how).status = how /\ Gone(ch, how).works = FALSE
  BY DEF Gone, Child

LEMMA EndedIs ==
  ASSUME NEW m, m \in Memory, NEW i \in Ids, NEW how \in Statuses
  PROVE  Ended(m, i, how) = Unrouted(Left(m, i, Gone(m.child[i], how)), i)
  BY DEF Ended, Unrouted, Left, Gone, Memory, Child

LEMMA SeenFields ==
  ASSUME NEW m, m \in Memory, NEW i \in Ids
  PROVE  /\ Seen(m, i) \in Memory
         /\ Seen(m, i).child = m.child
         /\ Seen(m, i).linked = m.linked /\ Seen(m, i).routed = m.routed
         /\ \A c \in Combos : c # i[1] => Seen(m, i).parent[c] = m.parent[c]
         /\ Seen(m, i).parent[i[1]].status = m.parent[i[1]].status
         /\ Seen(m, i).parent[i[1]].seen = [m.parent[i[1]].seen EXCEPT ![i[2]] = m.child[i].status]
<1>1. i[1] \in Combos /\ i[2] \in Legs  BY Parts
<1>2. m.child[i].status \in Statuses  BY DEF Memory, Child
<1>. QED  BY <1>1, <1>2 DEF Seen, Memory, Parent

LEMMA CascadeFields ==
  ASSUME NEW m, m \in Memory, NEW c \in Combos, NEW s \in Over
  PROVE  /\ Cascade(m, c, s) \in Memory
         /\ \A d \in Combos : d # c => Cascade(m, c, s).parent[d] = m.parent[d]
         /\ Cascade(m, c, s).parent[c].status = s
         /\ Cascade(m, c, s).parent[c].seen = m.parent[c].seen
         /\ Cascade(m, c, s).linked = {i \in m.linked : i[1] # c}
         /\ Cascade(m, c, s).routed = {i \in m.routed : i[1] # c}
         /\ \A i \in Ids : Cascade(m, c, s).child[i] =
              IF i[1] = c /\ m.child[i].works /\ i \in m.routed
              THEN Gone(m.child[i], "CANCELLED") ELSE m.child[i]
<1>1. "CANCELLED" \in Statuses  BY DEF Statuses, Lost
<1>2. \A i \in Ids : m.child[i] \in Child /\ Gone(m.child[i], "CANCELLED") \in Child
  BY <1>1, MemoryFields, GoneFields
<1>3. [i \in Ids |-> IF i[1] = c /\ m.child[i].works /\ i \in m.routed
                     THEN Gone(m.child[i], "CANCELLED") ELSE m.child[i]] \in [Ids -> Child]
  BY <1>2
<1>4. [m.parent EXCEPT ![c].status = s] \in [Combos -> Parent]
  BY DEF Memory, Parent
<1>5. Cascade(m, c, s).child =
        [i \in Ids |-> IF i[1] = c /\ m.child[i].works /\ i \in m.routed
                       THEN Gone(m.child[i], "CANCELLED") ELSE m.child[i]]
  BY DEF Cascade, Gone
<1>6. /\ Cascade(m, c, s).parent = [m.parent EXCEPT ![c].status = s]
      /\ Cascade(m, c, s).linked = {i \in m.linked : i[1] # c}
      /\ Cascade(m, c, s).routed = {i \in m.routed : i[1] # c}
  BY DEF Cascade
<1>7. Cascade(m, c, s) \in Memory
  BY <1>3, <1>4 DEF Cascade, Gone, Memory
<1>. QED  BY <1>5, <1>6, <1>7 DEF Memory, Parent

-----------------------------------------------------------------------------
(***************************************************************************)
(* MemoryInv survives the operators.                                       *)
(***************************************************************************)

\* What a book may leave of a working order, of which g says whether it is
\* published as filled.
Outcome(ch, g, i) ==
  /\ ch \in Child /\ ch.status # "none"
  /\ ch.works => ch.status \in {"NEW", "PARTIAL"}
  /\ ch.status = "FILLED" => i \in g

LEMMA LeftKeeps ==
  ASSUME NEW m, NEW f, NEW g, NEW x, NEW i \in Ids, NEW ch,
         MemoryInv(m, f, x), f \subseteq g, m.child[i].works, Outcome(ch, g, i)
  PROVE  MemoryInv(Left(m, i, ch), g, x \cup {i})
<1> DEFINE n == Left(m, i, ch)
<1>1. /\ n \in Memory /\ n.child = [m.child EXCEPT ![i] = ch]
      /\ n.parent = m.parent /\ n.linked = m.linked /\ n.routed = m.routed
  BY LeftFields DEF MemoryInv, Outcome
<1>2. m.child \in [Ids -> Child]  BY MemoryFields DEF MemoryInv
<1>3. ASSUME NEW j \in Ids
      PROVE  ChildInv(n, g, j) /\ LiveInv(n, g, x \cup {i}, j) /\ OverInv(n, g, j)
  <2>1. ChildInv(m, f, j) /\ LiveInv(m, f, x, j) /\ OverInv(m, f, j)
    BY DEF MemoryInv
  <2>2. CASE j = i
    <3>1. n.child[j] = ch  BY <1>1, <1>2, <2>2
    <3>2. m.child[j].status # "none"  BY <2>1, <2>2 DEF ChildInv
    <3>3. ChildInv(n, g, j)  BY <1>1, <2>1, <2>2, <3>1 DEF ChildInv, Outcome
    <3>4. LiveInv(n, g, x \cup {i}, j)
      BY <1>1, <2>1, <2>2, <3>1, <3>2 DEF LiveInv, ParentOf, SeenOf
    <3>5. OverInv(n, g, j)  BY <1>1, <2>1, <2>2, <3>1 DEF OverInv, ParentOf, Over
    <3>. QED  BY <3>3, <3>4, <3>5
  <2>3. CASE j # i
    <3>1. n.child[j] = m.child[j]  BY <1>1, <1>2, <2>3
    <3>. QED  BY <1>1, <2>1, <3>1 DEF ChildInv, LiveInv, OverInv, ParentOf, SeenOf
  <2>. QED  BY <2>2, <2>3
<1>. QED  BY <1>1, <1>3 DEF MemoryInv

LEMMA UnroutedKeeps ==
  ASSUME NEW m, NEW f, NEW x, NEW i \in Ids, MemoryInv(m, f, x), ~m.child[i].works
  PROVE  MemoryInv(Unrouted(m, i), f, x)
<1> DEFINE n == Unrouted(m, i)
<1>1. /\ n \in Memory /\ n.child = m.child /\ n.parent = m.parent
      /\ n.linked = m.linked /\ n.routed = m.routed \ {i}
  BY UnroutedFields DEF MemoryInv
<1>2. ASSUME NEW j \in Ids
      PROVE  ChildInv(n, f, j) /\ LiveInv(n, f, x, j) /\ OverInv(n, f, j)
  <2>1. ChildInv(m, f, j) /\ LiveInv(m, f, x, j) /\ OverInv(m, f, j)
    BY DEF MemoryInv
  <2>. QED  BY <1>1, <2>1 DEF ChildInv, LiveInv, OverInv, ParentOf, SeenOf
<1>. QED  BY <1>1, <1>2 DEF MemoryInv

LEMMA SeenKeeps ==
  ASSUME NEW m, NEW f, NEW x, NEW i \in Ids, MemoryInv(m, f, x)
  PROVE  MemoryInv(Seen(m, i), f, x)
<1> DEFINE n == Seen(m, i)
<1>0. m \in Memory  BY DEF MemoryInv
<1>1. /\ n \in Memory /\ n.child = m.child /\ n.linked = m.linked /\ n.routed = m.routed
      /\ \A c \in Combos : n.parent[c].status = m.parent[c].status
      /\ \A c \in Combos : c # i[1] => n.parent[c] = m.parent[c]
      /\ n.parent[i[1]].seen = [m.parent[i[1]].seen EXCEPT ![i[2]] = m.child[i].status]
  BY <1>0, SeenFields, Parts
<1>2. m.parent[i[1]].seen \in [Legs -> Statuses]
  BY <1>0, MemoryFields DEF Parent
<1>3. ASSUME NEW j \in Ids
      PROVE  ChildInv(n, f, j) /\ LiveInv(n, f, x, j) /\ OverInv(n, f, j)
  <2>1. ChildInv(m, f, j) /\ LiveInv(m, f, x, j) /\ OverInv(m, f, j)
    BY DEF MemoryInv
  <2>2. j[1] \in Combos /\ j[2] \in Legs /\ i[2] \in Legs  BY Parts
  <2>3. ParentOf(n, j) = ParentOf(m, j)  BY <1>1, <2>2 DEF ParentOf
  <2>4. SeenOf(n, j) = IF j = i THEN m.child[i].status ELSE SeenOf(m, j)
    <3>1. CASE j[1] # i[1]  BY <1>1, <2>2, <3>1 DEF SeenOf
    <3>2. CASE j[1] = i[1]
      <4>1. j[2] = i[2] => j = i  BY <3>2, Parts
      <4>. QED  BY <1>1, <1>2, <2>2, <3>2, <4>1 DEF SeenOf
    <3>. QED  BY <3>1, <3>2
  <2>5. SeenOf(n, j) = "FILLED" /\ j = i => j \in f /\ ~m.child[j].works
    BY <2>1, <2>4 DEF ChildInv
  <2>. QED  BY <1>1, <2>1, <2>3, <2>4, <2>5 DEF ChildInv, LiveInv, OverInv
<1>. QED  BY <1>1, <1>3 DEF MemoryInv

\* The cascade may run over a child that nobody has been told of.
LEMMA CascadeKeeps ==
  ASSUME NEW m, NEW f, NEW x, NEW y, NEW c \in Combos, NEW s \in {"FAILED", "CANCELLED"},
         MemoryInv(m, f, y), \A j \in y : j \in x \/ j[1] = c
  PROVE  MemoryInv(Cascade(m, c, s), f, x)
<1> DEFINE n == Cascade(m, c, s)
<1>0. m \in Memory /\ s \in Over  BY DEF MemoryInv, Over
<1>1. /\ n \in Memory
      /\ \A d \in Combos : d # c => n.parent[d] = m.parent[d]
      /\ n.parent[c].status = s
      /\ n.linked = {i \in m.linked : i[1] # c}
      /\ n.routed = {i \in m.routed : i[1] # c}
      /\ \A i \in Ids : n.child[i] =
              IF i[1] = c /\ m.child[i].works /\ i \in m.routed
              THEN Gone(m.child[i], "CANCELLED") ELSE m.child[i]
  BY <1>0, CascadeFields
<1>2. ASSUME NEW j \in Ids
      PROVE  ChildInv(n, f, j) /\ LiveInv(n, f, x, j) /\ OverInv(n, f, j)
  <2>1. ChildInv(m, f, j) /\ LiveInv(m, f, y, j) /\ OverInv(m, f, j)
    BY DEF MemoryInv
  <2>2. j[1] \in Combos  BY Parts
  <2>3. CASE j[1] = c
    <3>1. ParentOf(n, j) = s  BY <1>1, <2>3 DEF ParentOf
    <3>2. ~n.child[j].works /\ (n.child[j].status = "FILLED" => j \in f)
      <4>1. CASE m.child[j].works
        <5>1. n.child[j] = Gone(m.child[j], "CANCELLED")
          BY <1>1, <2>1, <2>3, <4>1 DEF ChildInv
        <5>2. m.child[j] \in Child /\ "CANCELLED" \in Statuses
          BY <1>0, MemoryFields DEF Statuses, Lost
        <5>. QED  BY <5>1, <5>2, GoneFields
      <4>2. CASE ~m.child[j].works
        BY <1>1, <2>1, <4>2 DEF ChildInv
      <4>. QED  BY <4>1, <4>2
    <3>. QED  BY <3>1, <3>2 DEF ChildInv, LiveInv, OverInv, Live
  <2>4. CASE j[1] # c
    <3>1. n.child[j] = m.child[j] /\ n.parent[j[1]] = m.parent[j[1]]
      BY <1>1, <2>2, <2>4
    <3>2. j \in y => j \in x  BY <2>4
    <3>. QED  BY <1>1, <2>1, <2>4, <3>1, <3>2 DEF ChildInv, LiveInv, OverInv, ParentOf, SeenOf
  <2>. QED  BY <2>3, <2>4
<1>. QED  BY <1>1, <1>2 DEF MemoryInv

LEMMA UpdatedFields ==
  ASSUME NEW m, m \in Memory, NEW c \in Combos, m.parent[c].status \in Live
  PROVE  /\ Updated(m, c) \in Memory /\ Updated(m, c).child = m.child
         /\ Updated(m, c).linked = m.linked /\ Updated(m, c).routed = m.routed
         /\ \A d \in Combos : d # c => Updated(m, c).parent[d] = m.parent[d]
         /\ Updated(m, c).parent[c].seen = m.parent[c].seen
         /\ \/ Updated(m, c).parent[c].status \in Live
            \/ Updated(m, c).parent[c].status = "MATCHED" /\ FullyFilled(m.parent[c])
<1>0. ASSUME NEW s \in {"none"} \cup Live \cup Over, NEW n, n = [m EXCEPT !.parent[c].status = s]
      PROVE  /\ n \in Memory /\ n.child = m.child
             /\ n.linked = m.linked /\ n.routed = m.routed
             /\ \A d \in Combos : d # c => n.parent[d] = m.parent[d]
             /\ n.parent[c].seen = m.parent[c].seen /\ n.parent[c].status = s
  BY <1>0 DEF Memory, Parent
<1>1. CASE FullyFilled(m.parent[c])
  <2>1. Updated(m, c) = [m EXCEPT !.parent[c].status = "MATCHED"]
    BY <1>1 DEF Updated
  <2>2. "MATCHED" \in {"none"} \cup Live \cup Over  BY DEF Over
  <2>. QED  BY <1>0, <1>1, <2>1, <2>2
<1>2. CASE ~FullyFilled(m.parent[c])
  <2>1. Updated(m, c) = [m EXCEPT !.parent[c].status = "PARTIALLY_MATCHED"] \/ Updated(m, c) = m
    BY <1>2 DEF Updated
  <2>2. "PARTIALLY_MATCHED" \in Live  BY DEF Live
  <2>3. CASE Updated(m, c) = m  BY <2>3
  <2>4. CASE Updated(m, c) = [m EXCEPT !.parent[c].status = "PARTIALLY_MATCHED"]
    BY <1>0, <2>2, <2>4
  <2>. QED  BY <2>1, <2>3, <2>4
<1>. QED  BY <1>1, <1>2

LEMMA UpdatedKeeps ==
  ASSUME NEW m, NEW f, NEW x, NEW c \in Combos, MemoryInv(m, f, x), m.parent[c].status \in Live
  PROVE  MemoryInv(Updated(m, c), f, x)
<1> DEFINE n == Updated(m, c)
<1>0. m \in Memory  BY DEF MemoryInv
<1>1. /\ n \in Memory /\ n.child = m.child
      /\ n.linked = m.linked /\ n.routed = m.routed
      /\ \A d \in Combos : d # c => n.parent[d] = m.parent[d]
      /\ n.parent[c].seen = m.parent[c].seen
      /\ \/ n.parent[c].status \in Live
         \/ n.parent[c].status = "MATCHED" /\ FullyFilled(m.parent[c])
  BY <1>0, UpdatedFields
<1>2. ASSUME NEW j \in Ids
      PROVE  ChildInv(n, f, j) /\ LiveInv(n, f, x, j) /\ OverInv(n, f, j)
  <2>1. ChildInv(m, f, j) /\ LiveInv(m, f, x, j) /\ OverInv(m, f, j)
    BY DEF MemoryInv
  <2>2. j[1] \in Combos /\ j[2] \in Legs  BY Parts
  <2>3. CASE j[1] # c
    BY <1>1, <2>1, <2>2, <2>3 DEF ChildInv, LiveInv, OverInv, ParentOf, SeenOf
  <2>4. CASE j[1] = c /\ n.parent[c].status \in Live
    BY <1>1, <2>1, <2>4 DEF ChildInv, LiveInv, OverInv, ParentOf, SeenOf, Live, Over
  <2>5. CASE j[1] = c /\ n.parent[c].status = "MATCHED" /\ FullyFilled(m.parent[c])
    <3>1. SeenOf(m, j) = "FILLED"  BY <2>2, <2>5 DEF FullyFilled, SeenOf
    <3>2. j \in f /\ ~m.child[j].works  BY <2>1, <2>5, <3>1 DEF LiveInv, ParentOf
    <3>. QED
      BY <1>1, <2>1, <2>5, <3>2 DEF ChildInv, LiveInv, OverInv, ParentOf, Live
  <2>. QED  BY <1>1, <2>3, <2>4, <2>5
<1>. QED  BY <1>1, <1>2 DEF MemoryInv

\* Only child i has ended without follow-up, and this is it.
LEMMA FollowUpKeeps ==
  ASSUME NEW m, NEW f, NEW x, NEW i \in Ids,
         MemoryInv(m, f, x \cup {i}), m.child[i].status # "none"
  PROVE  MemoryInv(FollowUp(m, i), f, x) /\ OnlyAbout(m, FollowUp(m, i), i)
<1>0. m \in Memory /\ i[1] \in Combos /\ i[2] \in Legs  BY Parts DEF MemoryInv
<1>1. CASE ParentOf(m, i) \notin Live
  <2>1. FollowUp(m, i) = m  BY <1>1 DEF FollowUp, ParentOf
  <2>2. \A j \in Ids : LiveInv(m, f, x \cup {i}, j) => LiveInv(m, f, x, j)
    BY <1>1 DEF LiveInv
  <2>. QED  BY <1>1, <2>1, <2>2 DEF MemoryInv, OnlyAbout
<1>2. CASE ParentOf(m, i) \in Live
  <2> DEFINE n == Seen(m, i)
  <2>1. i \in m.linked  BY <1>2 DEF MemoryInv, LiveInv
  <2>2. MemoryInv(n, f, x \cup {i})  BY SeenKeeps
  <2>3. /\ n \in Memory /\ n.child = m.child
        /\ \A c \in Combos : c # i[1] => n.parent[c] = m.parent[c]
        /\ n.parent[i[1]].status = m.parent[i[1]].status
        /\ n.parent[i[1]].seen = [m.parent[i[1]].seen EXCEPT ![i[2]] = m.child[i].status]
    BY <1>0, SeenFields
  <2>4. m.parent[i[1]].seen \in [Legs -> Statuses]
    BY <1>0, MemoryFields DEF Parent
  <2>5. /\ n.parent[i[1]].seen[i[2]] = m.child[i].status
        /\ \A l \in Legs : l # i[2] => n.parent[i[1]].seen[l] = m.parent[i[1]].seen[l]
    BY <1>0, <2>3, <2>4
  <2>6. CASE m.child[i].status \in Fatal
    <3> DEFINE k == Cascade(n, i[1], "FAILED")
    <3>1. FollowUp(m, i) = k  BY <1>2, <2>1, <2>6 DEF FollowUp, ParentOf
    <3>0. "FAILED" \in Over /\ "CANCELLED" \in Statuses  BY DEF Over, Statuses, Lost
    <3>2. MemoryInv(k, f, x)
      <4>1. \A j \in x \cup {i} : j \in x \/ j[1] = i[1]  OBVIOUS
      <4>2. "FAILED" \in {"FAILED", "CANCELLED"}  OBVIOUS
      <4>. QED  BY <1>0, <2>2, <4>1, <4>2, CascadeKeeps
    <3>3. /\ \A d \in Combos : d # i[1] => k.parent[d] = n.parent[d]
          /\ k.parent[i[1]].status = "FAILED" /\ k.parent[i[1]].seen = n.parent[i[1]].seen
          /\ \A j \in Ids : k.child[j] =
               IF j[1] = i[1] /\ n.child[j].works /\ j \in n.routed
               THEN Gone(n.child[j], "CANCELLED") ELSE n.child[j]
      BY <1>0, <2>3, <3>0, CascadeFields
    <3>4. \A j \in Ids : k.child[j] # m.child[j] =>
            m.child[j].works /\ ~k.child[j].works /\ k.child[j].status = "CANCELLED"
      <4> SUFFICES ASSUME NEW j \in Ids, k.child[j] # m.child[j]
                   PROVE  m.child[j].works /\ ~k.child[j].works /\ k.child[j].status = "CANCELLED"
        OBVIOUS
      <4>1. m.child[j].works /\ k.child[j] = Gone(m.child[j], "CANCELLED")  BY <2>3, <3>3
      <4>2. m.child[j] \in Child  BY <1>0, MemoryFields
      <4>. QED  BY <3>0, <4>1, <4>2, GoneFields
    <3>5. /\ \A c \in Combos : c # i[1] => k.parent[c] = m.parent[c]
          /\ \A l \in Legs : l # i[2] => k.parent[i[1]].seen[l] = m.parent[i[1]].seen[l]
          /\ k.parent[i[1]].seen[i[2]] = m.child[i].status
          /\ k.parent[i[1]].status = "FAILED"
      BY <2>3, <2>5, <3>3
    <3>6. OnlyAbout(m, k, i)
      BY <1>2, <3>4, <3>5 DEF OnlyAbout, ParentOf, SeenOf
    <3>. QED  BY <3>1, <3>2, <3>6
  <2>7. CASE m.child[i].status \notin Fatal
    <3> DEFINE k == Updated(n, i[1])
    <3>1. FollowUp(m, i) = k  BY <1>2, <2>1, <2>7 DEF FollowUp, ParentOf
    <3>2. MemoryInv(n, f, x)
      <4>1. \A j \in Ids : LiveInv(n, f, x \cup {i}, j) => LiveInv(n, f, x, j)
        BY <2>3, <2>7 DEF LiveInv, Fatal
      <4>. QED  BY <2>2, <4>1 DEF MemoryInv
    <3>3. n.parent[i[1]].status \in Live  BY <1>2, <2>3 DEF ParentOf
    <3>4. MemoryInv(k, f, x)  BY <1>0, <3>2, <3>3, UpdatedKeeps
    <3>5. /\ k.child = n.child
          /\ \A d \in Combos : d # i[1] => k.parent[d] = n.parent[d]
          /\ k.parent[i[1]].seen = n.parent[i[1]].seen
          /\ \/ k.parent[i[1]].status \in Live
             \/ k.parent[i[1]].status = "MATCHED" /\ FullyFilled(n.parent[i[1]])
      BY <1>0, <2>3, <3>3, UpdatedFields
    <3>. QED
      BY <1>2, <2>3, <2>5, <3>1, <3>4, <3>5 DEF OnlyAbout, ParentOf, SeenOf, FullyFilled
  <2>. QED  BY <2>6, <2>7
<1>. QED  BY <1>1, <1>2

LEMMA OnlyAboutParts ==
  ASSUME NEW m, NEW n, NEW i \in Ids, NEW j, NEW k, OnlyAbout(m, n, i),
         j.child = m.child, j.parent = m.parent, k.child = n.child, k.parent = n.parent
  PROVE  OnlyAbout(j, k, i)
  BY DEF OnlyAbout, ParentOf, SeenOf

LEMMA DispatchedKeeps ==
  ASSUME NEW m, NEW f, NEW x, NEW i \in Ids,
         MemoryInv(m, f, x \cup {i}), m.child[i].status # "none"
  PROVE  MemoryInv(Dispatched(m, i), f, x) /\ OnlyAbout(m, Dispatched(m, i), i)
<1> DEFINE n == IF m.child[i].status = "NEW" THEN m ELSE FollowUp(m, i)
<1>1. MemoryInv(n, f, x) /\ OnlyAbout(m, n, i)
  <2>1. CASE m.child[i].status = "NEW"
    <3>1. \A j \in Ids : LiveInv(m, f, x \cup {i}, j) => LiveInv(m, f, x, j)
      BY <2>1 DEF LiveInv, Lost
    <3>. QED  BY <2>1, <3>1 DEF MemoryInv, OnlyAbout
  <2>2. CASE m.child[i].status # "NEW"  BY <2>2, FollowUpKeeps
  <2>. QED  BY <2>1, <2>2
<1>2. CASE m.child[i].status \in EndedStatuses
  <2>1. Dispatched(m, i) = Unrouted(n, i)  BY <1>2 DEF Dispatched, Unrouted
  <2>2. ~m.child[i].works  BY <1>2 DEF MemoryInv, ChildInv, EndedStatuses, Lost
  <2>3. ~n.child[i].works  BY <1>1, <2>2 DEF OnlyAbout
  <2>4. Unrouted(n, i).child = n.child /\ Unrouted(n, i).parent = n.parent
    BY <1>1, UnroutedFields DEF MemoryInv
  <2>5. OnlyAbout(m, Unrouted(n, i), i)  BY <1>1, <2>4, OnlyAboutParts
  <2>. QED  BY <1>1, <2>1, <2>3, <2>5, UnroutedKeeps
<1>3. CASE m.child[i].status \notin EndedStatuses
  <2>1. Dispatched(m, i) = n  BY <1>3 DEF Dispatched
  <2>. QED  BY <1>1, <2>1
<1>. QED  BY <1>2, <1>3

\* What the event of a working order leaves alone.
Around(m, n, i) ==
  /\ \A c \in Combos : c # i[1] => n.parent[c] = m.parent[c]
  /\ \A l \in Legs : l # i[2] => n.parent[i[1]].seen[l] = m.parent[i[1]].seen[l]
  /\ SeenOf(n, i) = SeenOf(m, i) \/ SeenOf(n, i) # "none"
  /\ \A j \in Ids : ~m.child[j].works => n.child[j] = m.child[j]
  /\ ParentOf(m, i) \notin Live => n.parent[i[1]] = m.parent[i[1]]
  /\ ParentOf(m, i) \in Live =>
       \/ ParentOf(n, i) \in Live \cup {"FAILED"}
       \/ ParentOf(n, i) = "MATCHED" /\ \A l \in Legs : n.parent[i[1]].seen[l] = "FILLED"

LEMMA AroundLeft ==
  ASSUME NEW m, m \in Memory, NEW n, NEW i \in Ids, NEW ch \in Child, ch.status # "none",
         m.child[i].works, OnlyAbout(Left(m, i, ch), n, i)
  PROVE  Around(m, n, i)
<1> DEFINE k == Left(m, i, ch)
<1>1. k.child = [m.child EXCEPT ![i] = ch] /\ k.parent = m.parent
  BY LeftFields
<1>2. m.child \in [Ids -> Child]  BY MemoryFields
<1>3. k.child[i] = ch /\ \A j \in Ids : j # i => k.child[j] = m.child[j]
  BY <1>1, <1>2
<1>. QED  BY <1>1, <1>3 DEF OnlyAbout, Around, ParentOf, SeenOf

LEMMA EventKeeps ==
  ASSUME NEW m, NEW f, NEW g, NEW x, NEW i \in Ids, NEW ch,
         MemoryInv(m, f, x), f \subseteq g, m.child[i].works, Outcome(ch, g, i)
  PROVE  /\ MemoryInv(Dispatched(Left(m, i, ch), i), g, x)
         /\ Around(m, Dispatched(Left(m, i, ch), i), i)
<1> DEFINE k == Left(m, i, ch)
<1>1. MemoryInv(k, g, x \cup {i})  BY LeftKeeps
<1>2. m \in Memory /\ ch \in Child /\ ch.status # "none"  BY DEF MemoryInv, Outcome
<1>3. k.child[i] = ch
  <2>1. m.child \in [Ids -> Child]  BY <1>2, MemoryFields
  <2>. QED  BY <1>2, <2>1 DEF Left, Memory
<1>4. MemoryInv(Dispatched(k, i), g, x) /\ OnlyAbout(k, Dispatched(k, i), i)
  BY <1>1, <1>2, <1>3, DispatchedKeeps
<1>. QED  BY <1>2, <1>4, AroundLeft

\* A working order ends by a cancel or an expiry.
LEMMA EndedKeeps ==
  ASSUME NEW m, NEW f, NEW x, NEW i \in Ids, NEW how \in Lost,
         MemoryInv(m, f, x), m.child[i].works
  PROVE  /\ MemoryInv(FollowUp(Ended(m, i, how), i), f, x)
         /\ Around(m, FollowUp(Ended(m, i, how), i), i)
<1> DEFINE ch == Gone(m.child[i], how)
           k  == Left(m, i, ch)
           n  == Unrouted(k, i)
<1>0. m \in Memory /\ m.child[i] \in Child /\ how \in Statuses
  BY MemoryFields DEF MemoryInv, Statuses
<1>1. ch \in Child /\ ch.status = how /\ ~ch.works  BY <1>0, GoneFields
<1>2. Outcome(ch, f, i)  BY <1>1 DEF Outcome, Lost
<1>3. MemoryInv(k, f, x \cup {i})  BY <1>2, LeftKeeps
<1>4. k \in Memory /\ k.child[i] = ch
  <2>1. m.child \in [Ids -> Child]  BY <1>0, MemoryFields
  <2>2. k \in Memory  BY <1>0, <1>1, LeftFields
  <2>3. k.child = [m.child EXCEPT ![i] = ch]  BY <1>0, <1>1, LeftFields
  <2>. QED  BY <2>1, <2>2, <2>3
<1>5. MemoryInv(n, f, x \cup {i})  BY <1>1, <1>3, <1>4, UnroutedKeeps
<1>6. n.child = k.child /\ n.parent = k.parent  BY <1>4, UnroutedFields
<1>7. MemoryInv(FollowUp(n, i), f, x) /\ OnlyAbout(n, FollowUp(n, i), i)
  BY <1>1, <1>4, <1>5, <1>6, FollowUpKeeps DEF Lost
<1>8. OnlyAbout(k, FollowUp(n, i), i)  BY <1>6, <1>7, OnlyAboutParts
<1>9. Ended(m, i, how) = n  BY <1>0, EndedIs
<1>. QED  BY <1>0, <1>1, <1>2, <1>7, <1>8, <1>9, AroundLeft DEF Outcome

\* A leg is posted for a combo that lives.
LEMMA PostedFields ==
  ASSUME NEW m, m \in Memory, NEW i \in Ids
  PROVE  /\ Posted(m, i) \in Memory
         /\ Posted(m, i).child[i] = Resting(Quantity[i])
         /\ \A j \in Ids : j # i => Posted(m, i).child[j] = m.child[j]
         /\ Posted(m, i).linked = m.linked \cup {i} /\ Posted(m, i).routed = m.routed \cup {i}
         /\ \A c \in Combos : c # i[1] => Posted(m, i).parent[c] = m.parent[c]
         /\ Posted(m, i).parent[i[1]].status = m.parent[i[1]].status
         /\ Posted(m, i).parent[i[1]].seen = [m.parent[i[1]].seen EXCEPT ![i[2]] = "NEW"]
<1>1. i[1] \in Combos /\ i[2] \in Legs  BY Parts
<1>2. Quantity[i] \in Nat  BY CombosAssumption DEF Ids, Legs
<1>3. "NEW" \in Statuses  BY DEF Statuses
<1>4. Resting(Quantity[i]) \in Child  BY <1>2, <1>3 DEF Resting, Child
<1> DEFINE ch == Resting(Quantity[i])
<1>5. Posted(m, i) = [m EXCEPT !.child[i] = ch, !.parent[i[1]].seen[i[2]] = "NEW",
                               !.linked = @ \cup {i}, !.routed = @ \cup {i}]
  BY DEF Posted
<1> HIDE DEF ch
<1>6. /\ Posted(m, i).child = [m.child EXCEPT ![i] = ch]
      /\ Posted(m, i).parent = [m.parent EXCEPT ![i[1]].seen[i[2]] = "NEW"]
      /\ Posted(m, i).linked = m.linked \cup {i} /\ Posted(m, i).routed = m.routed \cup {i}
  BY <1>5 DEF Memory
<1>7. /\ m.child \in [Ids -> Child] /\ m.parent \in [Combos -> Parent]
      /\ m.linked \subseteq Ids /\ m.routed \subseteq Ids
  BY MemoryFields
<1>8. ch \in Child  BY <1>4 DEF ch
<1>9. Posted(m, i).child \in [Ids -> Child]  BY <1>6, <1>7, <1>8
<1>10. Posted(m, i).parent \in [Combos -> Parent]
  <2> DEFINE q == [m.parent[i[1]] EXCEPT !.seen[i[2]] = "NEW"]
  <2>1. m.parent[i[1]] \in Parent  BY <1>1, <1>7
  <2>2. q \in Parent  BY <1>1, <1>3, <2>1 DEF Parent
  <2>3. Posted(m, i).parent = [m.parent EXCEPT ![i[1]] = q]  BY <1>1, <1>6, <1>7
  <2>. HIDE DEF q
  <2>. QED  BY <1>1, <1>7, <2>2, <2>3
<1>11. Posted(m, i) \in Memory
  BY <1>5, <1>6, <1>7, <1>9, <1>10 DEF Memory
<1>12. Posted(m, i).child[i] = ch /\ \A j \in Ids : j # i => Posted(m, i).child[j] = m.child[j]
  BY <1>6, <1>7
<1>13. /\ \A c \in Combos : c # i[1] => Posted(m, i).parent[c] = m.parent[c]
       /\ Posted(m, i).parent[i[1]].status = m.parent[i[1]].status
       /\ Posted(m, i).parent[i[1]].seen = [m.parent[i[1]].seen EXCEPT ![i[2]] = "NEW"]
  BY <1>1, <1>6, <1>7 DEF Parent
<1>. QED  BY <1>6, <1>11, <1>12, <1>13 DEF ch

LEMMA PostedKeeps ==
  ASSUME NEW m, NEW f, NEW x, NEW i \in Ids, MemoryInv(m, f, x), ParentOf(m, i) \in Live
  PROVE  MemoryInv(Posted(m, i), f, x) /\ Posted(m, i).child[i].works
<1> DEFINE n == Posted(m, i)
<1>0. m \in Memory  BY DEF MemoryInv
<1>1. /\ n \in Memory
      /\ n.child[i] = Resting(Quantity[i])
      /\ \A j \in Ids : j # i => n.child[j] = m.child[j]
      /\ n.linked = m.linked \cup {i} /\ n.routed = m.routed \cup {i}
      /\ \A c \in Combos : c # i[1] => n.parent[c] = m.parent[c]
      /\ n.parent[i[1]].status = m.parent[i[1]].status
      /\ n.parent[i[1]].seen = [m.parent[i[1]].seen EXCEPT ![i[2]] = "NEW"]
  BY <1>0, PostedFields
<1>2. m.parent[i[1]].seen \in [Legs -> Statuses] /\ i[2] \in Legs
  BY <1>0, MemoryFields, Parts DEF Parent
<1>3. n.child[i].works /\ n.child[i].status = "NEW"  BY <1>1 DEF Resting
<1>4. ASSUME NEW j \in Ids
      PROVE  ChildInv(n, f, j) /\ LiveInv(n, f, x, j) /\ OverInv(n, f, j)
  <2>1. ChildInv(m, f, j) /\ LiveInv(m, f, x, j) /\ OverInv(m, f, j)
    BY DEF MemoryInv
  <2>2. j[1] \in Combos /\ j[2] \in Legs  BY Parts
  <2>3. ParentOf(n, j) = ParentOf(m, j)  BY <1>1, <2>2 DEF ParentOf
  <2>4. CASE j = i
    <3>1. SeenOf(n, j) = "NEW"  BY <1>1, <1>2, <2>4 DEF SeenOf
    <3>2. j \in n.routed /\ j \in n.linked  BY <1>1, <2>4
    <3>. QED
      BY <1>3, <2>3, <2>4, <3>1, <3>2 DEF ChildInv, LiveInv, OverInv, Live, Over, Lost
  <2>5. CASE j # i
    <3>1. j[1] # i[1] \/ j[2] # i[2]  BY <2>5, Parts
    <3>2. SeenOf(n, j) = SeenOf(m, j)  BY <1>1, <1>2, <2>2, <3>1 DEF SeenOf
    <3>. QED
      BY <1>1, <2>1, <2>3, <2>5, <3>2 DEF ChildInv, LiveInv, OverInv
  <2>. QED  BY <2>4, <2>5
<1>. QED  BY <1>1, <1>3, <1>4 DEF MemoryInv

-----------------------------------------------------------------------------
(***************************************************************************)
(* RInv holds at first.                                                    *)
(***************************************************************************)
LEMMA BlankFields ==
  /\ Blank \in Memory /\ Blank.linked = {} /\ Blank.routed = {}
  /\ \A i \in Ids : Blank.child[i] = NoChild
  /\ \A c \in Combos : Blank.parent[c] = NoParent
<1>1. NoChild \in Child  BY DEF NoChild, Child, Statuses
<1>2. NoParent \in Parent  BY DEF NoParent, Parent, Statuses
<1>. QED  BY <1>1, <1>2 DEF Blank, Memory

LEMMA NoFields ==
  /\ NoChild.status = "none" /\ NoChild.works = FALSE
  /\ NoParent.status = "none" /\ \A l \in Legs : NoParent.seen[l] = "none"
  /\ NoParent \in Parent /\ "none" \notin Live \cup Over \cup Lost
  BY DEF NoChild, NoParent, Parent, Statuses, Live, Over, Lost

LEMMA BlankInv ==
  ASSUME NEW f, NEW x
  PROVE  MemoryInv(Blank, f, x)
<1>1. ASSUME NEW i \in Ids
      PROVE  ChildInv(Blank, f, i) /\ LiveInv(Blank, f, x, i) /\ OverInv(Blank, f, i)
  BY BlankFields, NoFields, Parts DEF ChildInv, LiveInv, OverInv, ParentOf
<1>. QED  BY <1>1, BlankFields DEF MemoryInv

LEMMA InitHolds ==
  ASSUME RInit
  PROVE  RInv
<1>1. TypeInv
  <2>1. NoParent \in Parent  BY NoFields
  <2>. QED  BY <2>1 DEF TypeInv, RInit, CInit
<1>2. RunInv  BY RecoveryAssumption DEF RunInv, RInit, CInit
<1>3. MemoryInv(mem, filled, excused)  BY BlankInv DEF RInit, CInit
<1>4. PostInv  BY DEF PostInv, RInit, CInit
<1>5. FreshInv  BY LegIds, BlankFields, NoFields DEF FreshInv, RInit, CInit
<1>6. KnownInv  BY BlankFields, NoFields, Parts DEF KnownInv, ParentOf, RInit, CInit
<1>7. DiskInv  BY BlankFields, NoFields, Parts DEF DiskInv, RInit, CInit
<1>8. StartInv  BY DEF StartInv, RInit, CInit
<1>. QED  BY <1>1, <1>2, <1>3, <1>4, <1>5, <1>6, <1>7, <1>8 DEF RInv

-----------------------------------------------------------------------------
(***************************************************************************)
(* The engine at work: changes to one combo c and to orders that work.     *)
(***************************************************************************)
Changes(m, n, c) ==
  /\ \A d \in Combos : d # c => n.parent[d] = m.parent[d]
  /\ n.parent[c].status \in Live =>
       /\ m.parent[c].status \in Live
       /\ \A l \in Legs : n.parent[c].seen[l] \in {m.parent[c].seen[l]} \cup (Statuses \ {"none"})
  /\ \A j \in Ids : ~m.child[j].works => n.child[j] = m.child[j]

LEMMA AroundChanges ==
  ASSUME NEW m, NEW n, n \in Memory, NEW i \in Ids, Around(m, n, i)
  PROVE  Changes(m, n, i[1])
<1>1. i[1] \in Combos /\ i[2] \in Legs  BY Parts
<1>2. SeenOf(n, i) \in Statuses  BY <1>1, MemoryFields DEF SeenOf, Parent
<1>3. ASSUME n.parent[i[1]].status \in Live
      PROVE  /\ m.parent[i[1]].status \in Live
             /\ \A l \in Legs : n.parent[i[1]].seen[l] \in {m.parent[i[1]].seen[l]} \cup (Statuses \ {"none"})
  <2>1. m.parent[i[1]].status \in Live  BY <1>3 DEF Around, ParentOf
  <2>2. ASSUME NEW l \in Legs
        PROVE  n.parent[i[1]].seen[l] \in {m.parent[i[1]].seen[l]} \cup (Statuses \ {"none"})
    <3>1. CASE l = i[2]  BY <1>2, <3>1 DEF Around, SeenOf
    <3>2. CASE l # i[2]  BY <3>2 DEF Around
    <3>. QED  BY <3>1, <3>2
  <2>. QED  BY <2>1, <2>2
<1>. QED  BY <1>3 DEF Around, Changes

LEMMA ChangesKeep ==
  ASSUME RInv, NEW c \in used, Changes(mem, mem', c), MemoryInv(mem', filled', excused'),
         pc \in {"idle", "post", "expire"}, pc = "post" => c # cur[1],
         UNCHANGED <<pc, posting, used, disk, clock>>,
         filled \subseteq filled', filled' \subseteq Ids, excused' \subseteq Ids
  PROVE  RInv'
<1>0. c \in Combos  BY DEF RInv, TypeInv
<1>1. TypeInv'  BY DEF RInv, TypeInv, disk, clock
<1>2. RunInv'  BY DEF RInv, RunInv, disk, clock
<1>3. PostInv'
  <2>1. CASE pc = "post"
    <3>1. cur[1] \in Combos  BY <2>1, Parts DEF RInv, PostInv
    <3>2. mem'.parent[cur[1]] = mem.parent[cur[1]]  BY <2>1, <3>1 DEF Changes
    <3>. QED  BY <2>1, <3>2 DEF RInv, PostInv, posting, disk, ParentOf
  <2>2. CASE pc # "post"  BY <2>2 DEF RInv, PostInv, posting
  <2>. QED  BY <2>1, <2>2
<1>4. FreshInv'
  <2> SUFFICES ASSUME NEW d \in Combos, d \notin used
               PROVE  /\ mem'.parent[d] = NoParent /\ combos[d] = NoParent
                      /\ \A l \in Legs : /\ mem'.child[<<d, l>>].status = "none"
                                         /\ ~mem'.child[<<d, l>>].works
                                         /\ orders[<<d, l>>] = 0
    BY DEF FreshInv, disk
  <2>1. d # c  OBVIOUS
  <2>2. /\ mem.parent[d] = NoParent /\ combos[d] = NoParent
        /\ \A l \in Legs : /\ mem.child[<<d, l>>].status = "none" /\ ~mem.child[<<d, l>>].works
                           /\ orders[<<d, l>>] = 0
    BY DEF RInv, FreshInv
  <2>3. \A l \in Legs : mem'.child[<<d, l>>] = mem.child[<<d, l>>]
    BY <2>2, LegIds DEF Changes
  <2>. QED  BY <2>1, <2>2, <2>3 DEF Changes
<1>5. KnownInv'
  <2> SUFFICES ASSUME NEW j \in Ids, ParentOf(mem', j) \in Live, pc = "post" => j[1] # cur[1]
               PROVE  SeenOf(mem', j) # "none"
    BY DEF KnownInv, posting
  <2>1. j[1] \in Combos /\ j[2] \in Legs  BY Parts
  <2>2. ParentOf(mem, j) \in Live => SeenOf(mem, j) # "none"  BY DEF RInv, KnownInv
  <2>3. CASE j[1] = c
    <3>1. ParentOf(mem, j) \in Live  BY <2>3 DEF Changes, ParentOf
    <3>2. SeenOf(mem', j) \in {SeenOf(mem, j)} \cup (Statuses \ {"none"})
      BY <2>1, <2>3 DEF Changes, ParentOf, SeenOf
    <3>. QED  BY <2>2, <3>1, <3>2
  <2>4. CASE j[1] # c
    <3>1. mem'.parent[j[1]] = mem.parent[j[1]]  BY <2>1, <2>4 DEF Changes
    <3>. QED  BY <2>2, <3>1 DEF ParentOf, SeenOf
  <2>. QED  BY <2>3, <2>4
<1>6. DiskInv'  BY DEF RInv, DiskInv, Changes, disk
<1>7. StartInv'  BY DEF StartInv
<1>. QED  BY <1>1, <1>2, <1>3, <1>4, <1>5, <1>6, <1>7 DEF RInv

\* A combo with a working order was submitted.
LEMMA WorkingIsUsed ==
  ASSUME RInv, NEW i \in Ids, mem.child[i].works
  PROVE  i[1] \in used
  BY Parts DEF RInv, FreshInv

\* What a book may do with q shares is an outcome, once it is published.
LEMMA Outcomes ==
  ASSUME NEW q \in Nat, NEW i \in Ids, NEW f, NEW g, NEW ch,
         ch \in Traded(q) \cup Pulled(q) \cup Refused(q) \cup {Resting(q)},
         g = IF ch.status = "FILLED" THEN f \cup {i} ELSE f
  PROVE  Outcome(ch, g, i)
<1>0. \A s \in {"NEW", "PARTIAL", "FILLED", "CANCELLED", "REJECTED"} : s \in Statuses
  BY DEF Statuses, Lost
<1>1. CASE ch \in Traded(q)
  <2>1. PICK r \in 0 .. q - 1 :
          ch = [status |-> IF r = 0 THEN "FILLED" ELSE "PARTIAL", rem |-> r, works |-> r > 0]
    BY <1>1 DEF Traded
  <2>2. CASE r = 0
    <3>0. (r > 0) = FALSE  BY <2>2
    <3>1. ch = [status |-> "FILLED", rem |-> 0, works |-> FALSE]  BY <2>1, <2>2, <3>0, Zenon
    <3>2. ch \in Child /\ ch.status = "FILLED" /\ ch.works = FALSE
      BY <1>0, <3>1 DEF Child
    <3>. QED  BY <3>2 DEF Outcome
  <2>3. CASE r # 0
    <3>0. (r > 0) = TRUE /\ r \in Nat  BY <2>3
    <3>1. ch = [status |-> "PARTIAL", rem |-> r, works |-> TRUE]  BY <2>1, <2>3, <3>0, Zenon
    <3>2. ch \in Child /\ ch.status = "PARTIAL"
      BY <1>0, <3>0, <3>1 DEF Child
    <3>. QED  BY <3>2 DEF Outcome
  <2>. QED  BY <2>2, <2>3
<1>2. CASE ch \in Pulled(q)
  <2>1. PICK r \in 1 .. q : ch = [status |-> "CANCELLED", rem |-> r, works |-> FALSE]
    BY <1>2 DEF Pulled
  <2>2. ch \in Child /\ ch.status = "CANCELLED" /\ ch.works = FALSE
    BY <1>0, <2>1 DEF Child
  <2>. QED  BY <2>2 DEF Outcome
<1>3. CASE ch \in Refused(q)
  <2>1. ch = [status |-> "REJECTED", rem |-> q, works |-> FALSE]  BY <1>3 DEF Refused
  <2>2. ch \in Child /\ ch.status = "REJECTED" /\ ch.works = FALSE
    BY <1>0, <2>1 DEF Child
  <2>. QED  BY <2>2 DEF Outcome
<1>4. CASE ch = Resting(q)
  <2>1. ch = [status |-> "NEW", rem |-> q, works |-> TRUE]  BY <1>4 DEF Resting
  <2>2. ch \in Child /\ ch.status = "NEW"  BY <1>0, <2>1 DEF Child
  <2>. QED  BY <2>2 DEF Outcome
<1>. QED  BY <1>1, <1>2, <1>3, <1>4

LEMMA HitLegKeeps ==
  ASSUME RInv, NEW i \in Working(mem), HitLeg(i), UNCHANGED <<disk, clock>>
  PROVE  RInv'
<1>1. i \in Ids /\ mem.child[i].works /\ i[1] \in used
  BY WorkingIsUsed DEF Working
<1>2. PICK ch \in Traded(mem.child[i].rem) \cup Pulled(mem.child[i].rem) :
        mem' = Dispatched(Left(mem, i, ch), i) /\ Publish(i, ch)
  BY DEF HitLeg
<1>3. mem.child[i].rem \in Nat  BY <1>1, MemoryFields DEF RInv, MemoryInv, Child
<1>4. filled' = IF ch.status = "FILLED" THEN filled \cup {i} ELSE filled
  BY <1>2 DEF Publish
<1>5. Outcome(ch, filled', i)  BY <1>1, <1>3, <1>4, Outcomes
<1>6. excused' = excused /\ filled \subseteq filled' /\ filled' \subseteq Ids /\ excused' \subseteq Ids
  BY <1>1, <1>4 DEF HitLeg, RInv, TypeInv
<1>7. MemoryInv(mem', filled', excused') /\ Around(mem, mem', i)
  BY <1>1, <1>2, <1>5, <1>6, EventKeeps DEF RInv
<1>8. Changes(mem, mem', i[1])  BY <1>1, <1>7, AroundChanges DEF MemoryInv
<1>9. /\ pc \in {"idle", "post", "expire"} /\ (pc = "post" => i[1] # cur[1])
      /\ UNCHANGED <<pc, posting, used, disk, clock>>
  BY DEF HitLeg, NotPosting
<1>. QED  BY <1>1, <1>6, <1>7, <1>8, <1>9, ChangesKeep

LEMMA EndKeeps ==
  ASSUME RInv, NEW i \in Ids, mem.child[i].works, NEW how \in Lost,
         mem' = FollowUp(Ended(mem, i, how), i), pc \in {"idle", "expire"},
         UNCHANGED <<pc, posting, history, disk, clock>>
  PROVE  RInv'
<1>1. i[1] \in used  BY WorkingIsUsed
<1>2. UNCHANGED <<filled, excused, used>>  BY DEF history
<1>3. MemoryInv(mem', filled', excused') /\ Around(mem, mem', i)
  BY <1>2, EndedKeeps DEF RInv
<1>4. Changes(mem, mem', i[1])  BY <1>3, AroundChanges DEF MemoryInv
<1>5. filled' \subseteq Ids /\ excused' \subseteq Ids  BY <1>2 DEF RInv, TypeInv
<1>. QED  BY <1>1, <1>2, <1>3, <1>4, <1>5, ChangesKeep

LEMMA CancelLegKeeps ==
  ASSUME RInv, NEW i \in mem.routed, Idle, CancelLeg(i), UNCHANGED <<disk, clock>>
  PROVE  RInv'
<1>1. i \in Ids /\ mem.child[i].works  BY DEF CancelLeg, Working
<1>2. "CANCELLED" \in Lost  BY DEF Lost
<1>. QED  BY <1>1, <1>2, EndKeeps DEF CancelLeg, NotPosting, Idle

LEMMA ExpireLegKeeps ==
  ASSUME RInv, NEW i \in Working(mem), ExpireLeg(i), UNCHANGED <<disk, clock>>
  PROVE  RInv'
<1>1. i \in Ids /\ mem.child[i].works  BY DEF Working
<1>2. "EXPIRED" \in Lost  BY DEF Lost
<1>. QED  BY <1>1, <1>2, EndKeeps DEF ExpireLeg, NotPosting

LEMMA CancelComboKeeps ==
  ASSUME RInv, NEW c \in Combos, Idle, CancelCombo(c), UNCHANGED <<disk, clock>>
  PROVE  RInv'
<1>1. mem \in Memory /\ MemoryInv(mem, filled, excused)  BY DEF RInv, MemoryInv
<1>2. c \in used  BY NoFields DEF RInv, FreshInv, CancelCombo
<1>3. /\ mem' = Cascade(mem, c, "CANCELLED")
      /\ UNCHANGED <<pc, posting, used, filled, excused>>
  BY DEF CancelCombo, NotPosting, history
<1>4. "CANCELLED" \in {"FAILED", "CANCELLED"} /\ "CANCELLED" \in Over /\ "CANCELLED" \notin Live
  BY DEF Over, Live
<1>5. \A j \in excused : j \in excused \/ j[1] = c  OBVIOUS
<1>6. MemoryInv(Cascade(mem, c, "CANCELLED"), filled, excused)  BY <1>1, <1>4, <1>5, CascadeKeeps
<1>7. MemoryInv(mem', filled', excused')  BY <1>3, <1>6
<1>8. Changes(mem, mem', c)
  BY <1>1, <1>3, <1>4, CascadeFields DEF Changes
<1>9. filled' \subseteq Ids /\ excused' \subseteq Ids /\ filled \subseteq filled'
  BY <1>3 DEF RInv, TypeInv
<1>. QED  BY <1>2, <1>3, <1>7, <1>8, <1>9, ChangesKeep DEF Idle

LEMMA MassCancelKeeps ==
  ASSUME RInv, NEW who, NEW where, Idle, MassCancel(who, where), UNCHANGED <<disk, clock>>
  PROVE  RInv'
<1> DEFINE gone == {i \in mem.routed \cap Working(mem) : Owner[i[1]] \in who /\ i[2] \in where}
           child == [i \in Ids |-> IF i \in gone
                                   THEN Gone(mem.child[i], "CANCELLED") ELSE mem.child[i]]
<1>1. mem \in Memory /\ MemoryInv(mem, filled, excused)  BY DEF RInv, MemoryInv
<1>2. /\ mem.child \in [Ids -> Child] /\ mem.parent \in [Combos -> Parent]
      /\ mem.linked \subseteq Ids /\ mem.routed \subseteq Ids
  BY <1>1, MemoryFields
<1>3. /\ gone # {}
      /\ mem' = [mem EXCEPT !.child  = [i \in Ids |-> IF i \in gone
                         THEN [@[i] EXCEPT !.status = "CANCELLED", !.works = FALSE] ELSE @[i]],
                            !.routed = @ \ gone]
      /\ excused' = excused \cup gone /\ UNCHANGED <<pc, posting, filled, used>>
  BY DEF MassCancel, NotPosting
<1>4. \A i \in Ids : Gone(mem.child[i], "CANCELLED") \in Child
                     /\ Gone(mem.child[i], "CANCELLED").status = "CANCELLED"
                     /\ ~Gone(mem.child[i], "CANCELLED").works
  BY <1>2, GoneFields DEF Statuses, Lost
<1>5. /\ mem'.child = child
      /\ mem'.parent = mem.parent /\ mem'.linked = mem.linked /\ mem'.routed = mem.routed \ gone
  BY <1>1, <1>3 DEF Memory, Gone
<1>6. child \in [Ids -> Child] /\ \A i \in Ids : child[i] =
         IF i \in gone THEN Gone(mem.child[i], "CANCELLED") ELSE mem.child[i]
  BY <1>2, <1>4
<1>7. mem' \in Memory
  <2>. HIDE DEF gone
  <2>. QED  BY <1>1, <1>2, <1>3, <1>5, <1>6 DEF Memory
<1>8. ASSUME NEW j \in Ids
      PROVE  /\ ChildInv(mem', filled', j)
             /\ LiveInv(mem', filled', excused', j) /\ OverInv(mem', filled', j)
  <2>1. ChildInv(mem, filled, j) /\ LiveInv(mem, filled, excused, j) /\ OverInv(mem, filled, j)
    BY <1>1 DEF MemoryInv
  <2>2. CASE j \in gone
    <3>1. mem.child[j].works  BY <2>2 DEF Working
    <3>2. mem'.child[j].status = "CANCELLED" /\ ~mem'.child[j].works
      BY <1>4, <1>5, <1>6, <2>2
    <3>3. mem.child[j].status # "none"  BY <2>1, <3>1 DEF ChildInv
    <3>. QED
      BY <1>3, <1>5, <2>1, <2>2, <3>1, <3>2, <3>3 DEF ChildInv, LiveInv, OverInv, ParentOf, SeenOf, Over
  <2>3. CASE j \notin gone
    <3>1. mem'.child[j] = mem.child[j]  BY <1>5, <1>6, <2>3
    <3>. QED
      BY <1>3, <1>5, <2>1, <2>3, <3>1 DEF ChildInv, LiveInv, OverInv, ParentOf, SeenOf
  <2>. QED  BY <2>2, <2>3
<1>9. MemoryInv(mem', filled', excused')  BY <1>7, <1>8 DEF MemoryInv
<1>10. PICK i \in gone : TRUE  BY <1>3
<1>11. i[1] \in used  BY WorkingIsUsed DEF Working
<1>12. \A j \in Ids : ~mem.child[j].works => mem'.child[j] = mem.child[j]
  BY <1>5, <1>6 DEF Working
<1>13. Changes(mem, mem', i[1])  BY <1>5, <1>12 DEF Changes
<1>14. filled \subseteq filled' /\ filled' \subseteq Ids /\ excused' \subseteq Ids
  BY <1>3 DEF RInv, TypeInv, Working
<1>. QED  BY <1>3, <1>9, <1>11, <1>13, <1>14, ChangesKeep DEF Idle

LEMMA PostLegKeeps ==
  ASSUME RInv, PostLeg, UNCHANGED <<disk, clock>>
  PROVE  RInv'
<1> DEFINE c == cur[1]
           p == Posted(mem, cur)
<1>1. /\ pc = "post" /\ cur \in Ids /\ verdict \in Verdicts /\ c \in used
      /\ ParentOf(mem, cur) \in Live /\ combos[c] = NoParent
      /\ \A l \in Legs : l >= cur[2] <=> mem.parent[c].seen[l] = "none"
      /\ MemoryInv(mem, filled, excused)
  BY DEF PostLeg, RInv, PostInv
<1>2. /\ c \in Combos /\ cur[2] \in Legs /\ cur[2] \in 1 .. LegCount /\ LegCount \in Nat
      /\ mem \in Memory /\ Quantity[cur] \in Nat
  BY <1>1, Parts, CombosAssumption DEF Legs, MemoryInv, Ids
<1>3. PICK ch \in Entry :
        /\ mem' = Dispatched(Left(p, cur, ch), cur)
        /\ Publish(cur, ch)
        /\ IF GoOn(mem')
           THEN pc' = pc /\ cur' = <<cur[1], cur[2] + 1>> /\ verdict' = verdict
           ELSE pc' = "idle" /\ EndPosting
  BY DEF PostLeg
<1>4. filled' = IF ch.status = "FILLED" THEN filled \cup {cur} ELSE filled
  BY <1>3 DEF Publish
<1>5. Outcome(ch, filled', cur)
  <2>1. LET q == Quantity[cur]
        IN  ch \in Traded(q) \cup Pulled(q) \cup Refused(q) \cup {Resting(q)}
    BY <1>1, <1>3 DEF Entry, Verdicts
  <2>. QED  BY <1>1, <1>2, <1>4, <2>1, Outcomes
<1>6. UNCHANGED <<excused, used, orders, combos, runFile, run, served, stale>>
      /\ filled \subseteq filled' /\ filled' \subseteq Ids
  BY <1>1, <1>4 DEF PostLeg, disk, clock, RInv, TypeInv
<1>7. MemoryInv(p, filled, excused) /\ p.child[cur].works
  BY <1>1, PostedKeeps
<1>8. MemoryInv(mem', filled', excused') /\ Around(p, mem', cur)
  BY <1>1, <1>3, <1>5, <1>6, <1>7, EventKeeps
<1>9. /\ \A j \in Ids : j # cur => p.child[j] = mem.child[j]
      /\ \A d \in Combos : d # c => p.parent[d] = mem.parent[d]
      /\ p.parent[c].status = mem.parent[c].status
      /\ p.parent[c].seen = [mem.parent[c].seen EXCEPT ![cur[2]] = "NEW"]
  BY <1>1, <1>2, PostedFields
<1>10. mem.parent[c].seen \in [Legs -> Statuses]
  BY <1>1, <1>2, MemoryFields DEF Parent
<1>11. /\ p.parent[c].seen[cur[2]] = "NEW"
       /\ \A l \in Legs : l # cur[2] => p.parent[c].seen[l] = mem.parent[c].seen[l]
  BY <1>2, <1>9, <1>10
<1>. HIDE DEF p
<1>12. /\ mem'.parent[c].seen[cur[2]] # "none"
       /\ \A l \in Legs : l # cur[2] => mem'.parent[c].seen[l] = mem.parent[c].seen[l]
  BY <1>8, <1>11 DEF Around, SeenOf
<1>13. \A d \in Combos : d # c => mem'.parent[d] = mem.parent[d]
  BY <1>8, <1>9 DEF Around
<1>14. \A j \in Ids : j # cur /\ ~mem.child[j].works => mem'.child[j] = mem.child[j]
  BY <1>8, <1>9 DEF Around
<1>15. \/ mem'.parent[c].status \in Live \cup {"FAILED"}
       \/ mem'.parent[c].status = "MATCHED" /\ \A l \in Legs : mem'.parent[c].seen[l] = "FILLED"
  BY <1>1, <1>8, <1>9 DEF Around, ParentOf
<1>16. TypeInv'  BY <1>3, <1>6 DEF RInv, TypeInv
<1>17. RunInv'  BY <1>1, <1>3, <1>6 DEF RInv, RunInv
<1>18. PostInv'
  <2>1. CASE GoOn(mem')
    <3>1. pc' = "post" /\ cur' = <<c, cur[2] + 1>> /\ verdict' = verdict
      BY <1>1, <1>3, <2>1
    <3>2. cur[2] + 1 \in Legs  BY <1>2, <2>1 DEF GoOn, Legs
    <3>3. cur' \in Ids /\ cur'[1] = c /\ cur'[2] = cur[2] + 1
      BY <1>2, <3>1, <3>2, LegIds
    <3>4. mem'.parent[c].seen[cur[2] + 1] = "none"
      BY <1>1, <1>2, <1>12, <3>2
    <3>5. mem'.parent[c].status \in Live
      BY <1>15, <2>1, <3>2, <3>4 DEF GoOn
    <3>6. ASSUME NEW l \in Legs
          PROVE  l >= cur[2] + 1 <=> mem'.parent[c].seen[l] = "none"
      <4>1. l \in Nat /\ cur[2] \in Nat  BY <1>2 DEF Legs
      <4>2. CASE l = cur[2]  BY <1>12, <4>1, <4>2
      <4>3. CASE l # cur[2]
        <5>1. l >= cur[2] + 1 <=> l >= cur[2]  BY <4>1, <4>3
        <5>. QED  BY <1>1, <1>12, <4>3, <5>1
      <4>. QED  BY <4>2, <4>3
    <3>. QED  BY <1>1, <1>6, <3>1, <3>3, <3>5, <3>6 DEF PostInv, ParentOf
  <2>2. CASE ~GoOn(mem')  BY <1>3, <2>2 DEF PostInv, EndPosting
  <2>. QED  BY <2>1, <2>2
<1>19. FreshInv'
  <2> SUFFICES ASSUME NEW d \in Combos, d \notin used
               PROVE  /\ mem'.parent[d] = NoParent /\ combos[d] = NoParent
                      /\ \A l \in Legs : /\ mem'.child[<<d, l>>].status = "none"
                                         /\ ~mem'.child[<<d, l>>].works
                                         /\ orders[<<d, l>>] = 0
    BY <1>6 DEF FreshInv
  <2>1. d # c  BY <1>1
  <2>2. /\ mem.parent[d] = NoParent /\ combos[d] = NoParent
        /\ \A l \in Legs : /\ mem.child[<<d, l>>].status = "none" /\ ~mem.child[<<d, l>>].works
                           /\ orders[<<d, l>>] = 0
    BY DEF RInv, FreshInv
  <2>3. \A l \in Legs : <<d, l>> \in Ids /\ <<d, l>> # cur
    BY <2>1, LegIds
  <2>4. \A l \in Legs : mem'.child[<<d, l>>] = mem.child[<<d, l>>]
    BY <1>14, <2>2, <2>3
  <2>. QED  BY <1>13, <2>1, <2>2, <2>4
<1>20. KnownInv'
  <2> SUFFICES ASSUME NEW j \in Ids, ParentOf(mem', j) \in Live,
                      pc' = "post" => j[1] # cur'[1]
               PROVE  SeenOf(mem', j) # "none"
    BY DEF KnownInv
  <2>1. j[1] \in Combos /\ j[2] \in Legs  BY Parts
  <2>2. CASE j[1] # c
    <3>1. mem'.parent[j[1]] = mem.parent[j[1]]  BY <1>13, <2>1, <2>2
    <3>2. ParentOf(mem, j) \in Live => SeenOf(mem, j) # "none"
      BY <2>2 DEF RInv, KnownInv
    <3>. QED  BY <3>1, <3>2 DEF ParentOf, SeenOf
  <2>3. CASE j[1] = c
    <3>1. ~GoOn(mem')  BY <1>1, <1>3, <2>3
    <3>2. cur[2] = LegCount  BY <1>2, <2>3, <3>1 DEF GoOn, ParentOf, Live
    <3>3. j[2] \in 1 .. LegCount  BY <2>1 DEF Legs
    <3>4. CASE j[2] = cur[2]  BY <1>12, <2>3, <3>4 DEF SeenOf
    <3>5. CASE j[2] # cur[2]
      <4>1. ~(j[2] >= cur[2])  BY <1>2, <3>2, <3>3, <3>5
      <4>2. mem.parent[c].seen[j[2]] # "none"  BY <1>1, <2>1, <4>1
      <4>. QED  BY <1>12, <2>1, <2>3, <3>5, <4>2 DEF SeenOf
    <3>. QED  BY <3>4, <3>5
  <2>. QED  BY <2>2, <2>3
<1>21. DiskInv'
  <2> SUFFICES ASSUME NEW j \in Ids
               PROVE  combos[j[1]].seen[j[2]] = "FILLED"
                      => j \in filled' /\ orders[j] = 0 /\ ~mem'.child[j].works
    BY <1>6 DEF RInv, DiskInv
  <2>1. combos[j[1]].seen[j[2]] = "FILLED"
        => j \in filled /\ orders[j] = 0 /\ ~mem.child[j].works
    BY DEF RInv, DiskInv
  <2>2. combos[j[1]].seen[j[2]] = "FILLED" => j # cur
    BY <1>1, <1>2, NoFields
  <2>. QED  BY <1>6, <1>14, <2>1, <2>2
<1>22. StartInv'  BY <1>1, <1>3 DEF StartInv
<1>. QED  BY <1>8, <1>16, <1>17, <1>18, <1>19, <1>20, <1>21, <1>22 DEF RInv

LEMMA SubmitKeeps ==
  ASSUME RInv, NEW c \in Combos, NEW v \in Verdicts, Idle, Submit(c, v), UNCHANGED <<disk, clock>>
  PROVE  RInv'
<1>1. /\ mem \in Memory /\ MemoryInv(mem, filled, excused) /\ pc = "idle" /\ c \notin used
  BY DEF RInv, MemoryInv, Idle, Submit
<1>2. /\ mem' = [mem EXCEPT !.parent[c].status = "PENDING"]
      /\ pc' = "post" /\ cur' = <<c, 1>> /\ verdict' = v /\ used' = used \cup {c}
      /\ UNCHANGED <<filled, excused, orders, combos, runFile, run, served, stale>>
  BY DEF Submit, disk, clock
<1>3. /\ mem.parent[c] = NoParent /\ combos[c] = NoParent
      /\ \A l \in Legs : mem.child[<<c, l>>].status = "none" /\ ~mem.child[<<c, l>>].works
  BY <1>1 DEF RInv, FreshInv
<1>4. "PENDING" \in Live /\ "PENDING" \notin Over  BY DEF Live, Over
<1>5. /\ mem' \in Memory
      /\ mem'.child = mem.child /\ mem'.linked = mem.linked /\ mem'.routed = mem.routed
      /\ \A d \in Combos : d # c => mem'.parent[d] = mem.parent[d]
      /\ mem'.parent[c].status = "PENDING" /\ mem'.parent[c].seen = NoParent.seen
  BY <1>1, <1>2, <1>3, <1>4 DEF Memory, Parent
<1>6. ASSUME NEW j \in Ids
      PROVE  /\ ChildInv(mem', filled', j)
             /\ LiveInv(mem', filled', excused', j) /\ OverInv(mem', filled', j)
  <2>1. ChildInv(mem, filled, j) /\ LiveInv(mem, filled, excused, j) /\ OverInv(mem, filled, j)
    BY <1>1 DEF MemoryInv
  <2>2. j[1] \in Combos /\ j[2] \in Legs /\ j = <<j[1], j[2]>>  BY Parts
  <2>3. CASE j[1] = c
    <3>1. mem'.child[j].status = "none" /\ ~mem'.child[j].works
      BY <1>3, <1>5, <2>2, <2>3
    <3>2. ParentOf(mem', j) = "PENDING" /\ SeenOf(mem', j) = "none"
      BY <1>5, <2>2, <2>3, NoFields DEF ParentOf, SeenOf
    <3>. QED  BY <3>1, <3>2, <1>4, NoFields DEF ChildInv, LiveInv, OverInv
  <2>4. CASE j[1] # c
    BY <1>2, <1>5, <2>1, <2>2, <2>4 DEF ChildInv, LiveInv, OverInv, ParentOf, SeenOf
  <2>. QED  BY <2>3, <2>4
<1>7. MemoryInv(mem', filled', excused')  BY <1>5, <1>6 DEF MemoryInv
<1>8. TypeInv'  BY <1>2 DEF RInv, TypeInv
<1>9. RunInv'  BY <1>2 DEF RInv, RunInv
<1>10. PostInv'
  <2>1. 1 \in Legs  BY CombosAssumption DEF Legs
  <2>2. cur' \in Ids /\ cur'[1] = c /\ cur'[2] = 1  BY <1>2, <2>1, LegIds
  <2>3. \A l \in Legs : l >= 1 /\ mem'.parent[c].seen[l] = "none"
    BY <1>5, NoFields DEF Legs
  <2>. QED  BY <1>2, <1>3, <1>4, <1>5, <2>2, <2>3 DEF PostInv, ParentOf
<1>11. FreshInv'  BY <1>2, <1>5 DEF RInv, FreshInv
<1>12. KnownInv'
  <2> SUFFICES ASSUME NEW j \in Ids, ParentOf(mem', j) \in Live, j[1] # c
               PROVE  SeenOf(mem', j) # "none"
    BY <1>2 DEF KnownInv
  <2>. QED  BY <1>1, <1>5, Parts DEF RInv, KnownInv, ParentOf, SeenOf
<1>13. DiskInv'  BY <1>2, <1>5 DEF RInv, DiskInv
<1>14. StartInv'  BY <1>2 DEF StartInv
<1>. QED  BY <1>7, <1>8, <1>9, <1>10, <1>11, <1>12, <1>13, <1>14 DEF RInv

\* The engine turns to something else, over the same memory and files.
LEMMA TurnKeeps ==
  ASSUME RInv, pc # "post", pc' \in {"idle", "expire"},
         UNCHANGED <<mem, posting, history, disk, clock>>
  PROVE  RInv'
<1>1. UNCHANGED <<mem, cur, verdict, filled, excused, used, orders, combos, runFile, run, served, stale>>
  BY DEF posting, history, disk, clock
<1>2. pc' \notin {"post", "down", "restore", "uncross"}  OBVIOUS
<1>3. TypeInv' /\ RunInv' /\ PostInv'  BY <1>1, <1>2 DEF RInv, TypeInv, RunInv, PostInv
<1>4. FreshInv' /\ DiskInv'  BY <1>1 DEF RInv, FreshInv, DiskInv
<1>5. KnownInv'  BY <1>1 DEF RInv, KnownInv
<1>6. StartInv'  BY <1>2 DEF StartInv
<1>7. MemoryInv(mem', filled', excused')  BY <1>1 DEF RInv
<1>. QED  BY <1>3, <1>4, <1>5, <1>6, <1>7 DEF RInv

-----------------------------------------------------------------------------
(***************************************************************************)
(* The files.                                                              *)
(***************************************************************************)
LEMMA SavedOrdersFields ==
  ASSUME RInv
  PROVE  /\ SavedOrders \in [Ids -> Nat]
         /\ \A i \in Ids : ~mem.child[i].works => SavedOrders[i] = 0
<1>1. \A i \in Ids : mem.child[i].rem \in Nat
  BY MemoryFields DEF RInv, MemoryInv, Child
<1>. QED  BY <1>1 DEF SavedOrders

LEMMA SaveFirstKeeps ==
  ASSUME RInv, SaveFirst
  PROVE  RInv'
<1>1. /\ pc = "idle" /\ pc' = "saved" /\ orders' = SavedOrders
      /\ UNCHANGED <<mem, cur, verdict, filled, excused, used, combos, runFile, run, served, stale>>
  BY DEF SaveFirst, Idle, FirstFile, NotPosting, posting, history, clock
<1>2. SavedOrders \in [Ids -> Nat] /\ \A i \in Ids : ~mem.child[i].works => SavedOrders[i] = 0
  BY SavedOrdersFields
<1>3. TypeInv' /\ RunInv' /\ PostInv'  BY <1>1, <1>2 DEF RInv, TypeInv, RunInv, PostInv
<1>4. FreshInv'  BY <1>1, <1>2, LegIds DEF RInv, FreshInv
<1>5. KnownInv'  BY <1>1 DEF RInv, KnownInv
<1>6. DiskInv'  BY <1>1, <1>2 DEF RInv, DiskInv
<1>7. StartInv'  BY <1>1 DEF StartInv
<1>8. MemoryInv(mem', filled', excused')  BY <1>1 DEF RInv
<1>. QED  BY <1>3, <1>4, <1>5, <1>6, <1>7, <1>8 DEF RInv

LEMMA SaveSecondKeeps ==
  ASSUME RInv, SaveSecond
  PROVE  RInv'
<1>1. /\ pc = "saved" /\ pc' = "idle" /\ orders' = SavedOrders /\ combos' = SavedCombos
      /\ stale' = {}
      /\ UNCHANGED <<mem, cur, verdict, filled, excused, used, runFile, run, served>>
  BY DEF SaveSecond, SecondFile, NotPosting, posting, history
<1>2. SavedOrders \in [Ids -> Nat] /\ \A i \in Ids : ~mem.child[i].works => SavedOrders[i] = 0
  BY SavedOrdersFields
<1>3. \A c \in Combos : SavedCombos[c] =
        IF mem.parent[c].status \in Live THEN mem.parent[c] ELSE NoParent
  BY DEF SavedCombos
<1>4. SavedCombos \in [Combos -> Parent]
  <2>1. mem.parent \in [Combos -> Parent]  BY MemoryFields DEF RInv, MemoryInv
  <2>. QED  BY <2>1, NoFields DEF SavedCombos
<1>5. TypeInv' /\ RunInv' /\ PostInv'
  BY <1>1, <1>2, <1>4 DEF RInv, TypeInv, RunInv, PostInv
<1>6. FreshInv'
  BY <1>1, <1>2, <1>3, LegIds, NoFields DEF RInv, FreshInv
<1>7. KnownInv'  BY <1>1 DEF RInv, KnownInv
<1>8. DiskInv'
  <2> SUFFICES ASSUME NEW i \in Ids
               PROVE  LET k == SavedCombos[i[1]] IN
                      /\ k = NoParent \/ (k.status \in Live /\ k.seen[i[2]] # "none")
                      /\ k.seen[i[2]] = "FILLED"
                         => i \in filled /\ SavedOrders[i] = 0 /\ ~mem.child[i].works
    BY <1>1 DEF DiskInv
  <2>1. i[1] \in Combos /\ i[2] \in Legs  BY Parts
  <2>2. CASE ParentOf(mem, i) \in Live
    <3>1. SavedCombos[i[1]] = mem.parent[i[1]]  BY <1>3, <2>1, <2>2 DEF ParentOf
    <3>2. SeenOf(mem, i) # "none"  BY <1>1, <2>2 DEF RInv, KnownInv
    <3>3. SeenOf(mem, i) = "FILLED" => i \in filled /\ ~mem.child[i].works
      BY <2>2 DEF RInv, MemoryInv, LiveInv
    <3>. QED  BY <1>2, <2>2, <3>1, <3>2, <3>3 DEF ParentOf, SeenOf
  <2>3. CASE ParentOf(mem, i) \notin Live
    <3>1. SavedCombos[i[1]] = NoParent  BY <1>3, <2>1, <2>3 DEF ParentOf
    <3>. QED  BY <2>1, <3>1, NoFields
  <2>. QED  BY <2>2, <2>3
<1>9. StartInv'  BY <1>1 DEF StartInv
<1>10. MemoryInv(mem', filled', excused')  BY <1>1 DEF RInv
<1>. QED  BY <1>5, <1>6, <1>7, <1>8, <1>9, <1>10 DEF RInv

-----------------------------------------------------------------------------
(***************************************************************************)
(* The end of a run, and the start of the next.                            *)
(***************************************************************************)
LEMMA CrashKeeps ==
  ASSUME RInv, Crash
  PROVE  RInv'
<1>1. /\ pc' = "down" /\ mem' = Blank /\ cur' = NoId /\ verdict' = "none" /\ excused' = {}
      /\ runFile < MaxRuns
      /\ UNCHANGED <<filled, used, orders, combos, runFile, run, served, stale>>
  BY DEF Crash, EndPosting, disk, clock
<1>2. TypeInv' /\ RunInv' /\ PostInv'  BY <1>1 DEF RInv, TypeInv, RunInv, PostInv
<1>3. FreshInv'  BY <1>1, LegIds, BlankFields, NoFields DEF RInv, FreshInv
<1>4. KnownInv'  BY <1>1, BlankFields, NoFields, Parts DEF KnownInv, ParentOf
<1>5. DiskInv'  BY <1>1, BlankFields, NoFields DEF RInv, DiskInv
<1>6. StartInv'  BY <1>1 DEF StartInv
<1>7. MemoryInv(mem', filled', excused')  BY <1>1, BlankInv
<1>. QED  BY <1>2, <1>3, <1>4, <1>5, <1>6, <1>7 DEF RInv

LEMMA DayEndsKeeps ==
  ASSUME RInv, DayEnds
  PROVE  RInv'
<1>1. /\ pc' = pc /\ stale' = used \cap DayCombos
      /\ UNCHANGED <<mem, cur, verdict, filled, excused, used, orders, combos, runFile, run, served>>
  BY DEF DayEnds, NotPosting, posting, history, disk
<1>2. TypeInv' /\ RunInv' /\ PostInv'  BY <1>1 DEF RInv, TypeInv, RunInv, PostInv
<1>3. FreshInv' /\ KnownInv' /\ DiskInv' /\ StartInv'
  BY <1>1 DEF RInv, FreshInv, KnownInv, DiskInv, StartInv
<1>4. MemoryInv(mem', filled', excused')  BY <1>1 DEF RInv
<1>. QED  BY <1>2, <1>3, <1>4 DEF RInv

LEMMA BumpRunKeeps ==
  ASSUME RInv, BumpRun
  PROVE  RInv'
<1>1. /\ pc = "down" /\ pc' = "restore"
      /\ runFile' = runFile + 1 /\ run' = runFile' /\ served' = served \cup {run'}
      /\ UNCHANGED <<mem, cur, verdict, filled, excused, used, orders, combos, stale>>
  BY DEF BumpRun, NotPosting, posting, history
<1>2. RunInv'
  <2>1. runFile \in Nat /\ runFile < MaxRuns /\ MaxRuns \in Nat /\ served \subseteq 1 .. runFile
    BY <1>1, RecoveryAssumption DEF RInv, RunInv
  <2>2. runFile' \in 1 .. MaxRuns /\ run' \in 1 .. runFile'  BY <1>1, <2>1
  <2>3. served' \subseteq 1 .. runFile'  BY <1>1, <2>1
  <2>. QED  BY <1>1, <2>2, <2>3 DEF RunInv
<1>3. TypeInv' /\ PostInv'  BY <1>1 DEF RInv, TypeInv, PostInv
<1>4. FreshInv' /\ DiskInv'  BY <1>1 DEF RInv, FreshInv, DiskInv
<1>5. KnownInv' /\ StartInv'  BY <1>1 DEF RInv, KnownInv, StartInv
<1>6. MemoryInv(mem', filled', excused')  BY <1>1 DEF RInv
<1>. QED  BY <1>2, <1>3, <1>4, <1>5, <1>6 DEF RInv

LEMMA RestoreOrdersKeeps ==
  ASSUME RInv, RestoreOrders
  PROVE  RInv'
<1> DEFINE back == {i \in Ids : orders[i] > 0 /\ i[1] \notin stale}
<1>1. /\ pc = "restore" /\ pc' = "uncross"
      /\ mem' = [Blank EXCEPT
           !.child  = [i \in Ids |-> IF i \in back THEN Resting(orders[i]) ELSE NoChild],
           !.routed = back]
      /\ UNCHANGED <<cur, verdict, filled, excused, used, orders, combos, runFile, run, served, stale>>
  BY DEF RestoreOrders, NotPosting, posting, history, disk, clock
<1>2. orders \in [Ids -> Nat]  BY DEF RInv, TypeInv
<1>3. \A i \in Ids : Resting(orders[i]) \in Child /\ Resting(orders[i]).status = "NEW"
  BY <1>2 DEF Resting, Child, Statuses
<1>4. NoChild \in Child  BY DEF NoChild, Child, Statuses
<1>5. /\ mem'.child = [i \in Ids |-> IF i \in back THEN Resting(orders[i]) ELSE NoChild]
      /\ mem'.parent = Blank.parent /\ mem'.linked = {} /\ mem'.routed = back
      /\ mem' \in Memory
  <2>1. [i \in Ids |-> IF i \in back THEN Resting(orders[i]) ELSE NoChild] \in [Ids -> Child]
    BY <1>3, <1>4
  <2>. QED  BY <1>1, <2>1, BlankFields DEF Memory
<1>6. \A i \in Ids : mem'.child[i] = IF i \in back THEN Resting(orders[i]) ELSE NoChild
  BY <1>5
<1>7. \A c \in Combos : mem'.parent[c] = NoParent  BY <1>5, BlankFields
<1>8. \A i \in Ids : /\ i \notin back => mem'.child[i].status = "none" /\ ~mem'.child[i].works
                     /\ mem'.child[i].status \in {"none", "NEW"}
  BY <1>3, <1>6, NoFields
<1>9. MemoryInv(mem', filled', excused')
  <2>1. ASSUME NEW i \in Ids
        PROVE  /\ ChildInv(mem', filled', i)
               /\ LiveInv(mem', filled', excused', i) /\ OverInv(mem', filled', i)
    <3>1. ParentOf(mem', i) = "none"  BY <1>7, NoFields, Parts DEF ParentOf
    <3>2. ChildInv(mem', filled', i)
      BY <1>3, <1>5, <1>6, <1>8 DEF ChildInv
    <3>. QED  BY <3>1, <3>2, NoFields DEF LiveInv, OverInv
  <2>. QED  BY <1>5, <2>1 DEF MemoryInv
<1>10. TypeInv' /\ RunInv' /\ PostInv'  BY <1>1 DEF RInv, TypeInv, RunInv, PostInv
<1>11. FreshInv'
  <2> SUFFICES ASSUME NEW c \in Combos, c \notin used
               PROVE  /\ mem'.parent[c] = NoParent /\ combos[c] = NoParent
                      /\ \A l \in Legs : /\ mem'.child[<<c, l>>].status = "none"
                                         /\ ~mem'.child[<<c, l>>].works
                                         /\ orders[<<c, l>>] = 0
    BY <1>1 DEF FreshInv
  <2>1. combos[c] = NoParent /\ \A l \in Legs : orders[<<c, l>>] = 0  BY DEF RInv, FreshInv
  <2>2. \A l \in Legs : <<c, l>> \in Ids /\ <<c, l>> \notin back  BY <2>1, LegIds
  <2>. QED  BY <1>7, <1>8, <2>1, <2>2
<1>12. KnownInv'  BY <1>7, NoFields, Parts DEF KnownInv, ParentOf
<1>13. DiskInv'
  <2>1. \A i \in Ids : orders[i] = 0 => ~mem'.child[i].works  BY <1>8
  <2>. QED  BY <1>1, <2>1 DEF RInv, DiskInv
<1>14. StartInv'  BY <1>1, <1>7, <1>8 DEF StartInv, Lost
<1>. QED  BY <1>9, <1>10, <1>11, <1>12, <1>13, <1>14 DEF RInv

\* No combo is known yet, so the event of a child makes no follow-up.
LEMMA UncrossLegKeeps ==
  ASSUME RInv, NEW i \in Working(mem), UncrossLeg(i)
  PROVE  RInv'
<1>1. i \in Ids /\ mem.child[i].works /\ i[1] \in used /\ i[1] \in Combos
  BY WorkingIsUsed, Parts DEF Working
<1>2. PICK ch \in Traded(mem.child[i].rem) \cup Pulled(mem.child[i].rem) :
        /\ mem' = Dispatched(Left(mem, i, ch), i) /\ Publish(i, ch)
        /\ excused' = IF ch.status \in Lost THEN excused \cup {i} ELSE excused
  BY DEF UncrossLeg
<1>3. /\ pc = "uncross" /\ pc' = pc
      /\ UNCHANGED <<cur, verdict, used, orders, combos, runFile, run, served, stale>>
  BY DEF UncrossLeg, NotPosting, posting, disk, clock
<1>4. mem \in Memory /\ MemoryInv(mem, filled, excused) /\ mem.child[i].rem \in Nat
  BY <1>1, MemoryFields DEF RInv, MemoryInv, Child
<1>5. filled' = IF ch.status = "FILLED" THEN filled \cup {i} ELSE filled
  BY <1>2 DEF Publish
<1>6. Outcome(ch, filled', i)  BY <1>1, <1>4, <1>5, <1>2, Outcomes
<1>7. /\ filled \subseteq filled' /\ filled' \subseteq Ids
      /\ excused \subseteq excused' /\ excused' \subseteq Ids
  BY <1>1, <1>2, <1>5 DEF RInv, TypeInv
<1>8. MemoryInv(mem', filled', excused')
  <2>1. MemoryInv(mem', filled', excused)
    BY <1>1, <1>2, <1>4, <1>6, <1>7, EventKeeps
  <2>2. \A j \in Ids : LiveInv(mem', filled', excused, j) => LiveInv(mem', filled', excused', j)
    BY <1>7 DEF LiveInv
  <2>. QED  BY <2>1, <2>2 DEF MemoryInv
<1> DEFINE k == Left(mem, i, ch)
<1>9. /\ k \in Memory /\ k.child = [mem.child EXCEPT ![i] = ch] /\ k.parent = mem.parent
  BY <1>1, <1>4, <1>6, LeftFields DEF Outcome
<1>10. \A c \in Combos : mem.parent[c] = NoParent  BY <1>3 DEF RInv, StartInv
<1>11. mem'.child = k.child /\ mem'.parent = mem.parent
  <2>1. k.parent[i[1]].status \notin Live  BY <1>1, <1>9, <1>10, NoFields
  <2>2. FollowUp(k, i) = k  BY <2>1 DEF FollowUp
  <2>3. mem' = k \/ mem' = Unrouted(k, i)  BY <1>2, <2>2 DEF Dispatched, Unrouted
  <2>. QED  BY <1>1, <1>9, <2>3, UnroutedFields
<1>12. mem'.child[i] = ch /\ \A j \in Ids : j # i => mem'.child[j] = mem.child[j]
  <2>1. mem.child \in [Ids -> Child]  BY <1>4, MemoryFields
  <2>. QED  BY <1>1, <1>9, <1>11, <2>1
<1>. HIDE DEF k
<1>13. TypeInv' /\ RunInv' /\ PostInv'
  BY <1>3, <1>7 DEF RInv, TypeInv, RunInv, PostInv
<1>14. FreshInv'
  <2> SUFFICES ASSUME NEW c \in Combos, c \notin used
               PROVE  /\ mem'.parent[c] = NoParent /\ combos[c] = NoParent
                      /\ \A l \in Legs : /\ mem'.child[<<c, l>>].status = "none"
                                         /\ ~mem'.child[<<c, l>>].works
                                         /\ orders[<<c, l>>] = 0
    BY <1>3 DEF FreshInv
  <2>1. \A l \in Legs : <<c, l>> \in Ids /\ <<c, l>> # i  BY <1>1, LegIds
  <2>. QED  BY <1>10, <1>11, <1>12, <2>1 DEF RInv, FreshInv
<1>15. KnownInv'  BY <1>10, <1>11, NoFields, Parts DEF KnownInv, ParentOf
<1>16. DiskInv'
  <2> SUFFICES ASSUME NEW j \in Ids
               PROVE  combos[j[1]].seen[j[2]] = "FILLED"
                      => j \in filled' /\ orders[j] = 0 /\ ~mem'.child[j].works
    BY <1>3 DEF RInv, DiskInv
  <2>1. combos[j[1]].seen[j[2]] = "FILLED"
        => j \in filled /\ orders[j] = 0 /\ ~mem.child[j].works
    BY DEF RInv, DiskInv
  <2>. QED  BY <1>1, <1>7, <1>12, <2>1
<1>17. StartInv'
  <2>1. ASSUME NEW j \in Ids, mem'.child[j].status \in Lost
        PROVE  j \in excused'
    <3>1. CASE j = i  BY <1>2, <1>12, <2>1, <3>1
    <3>2. CASE j # i
      <4>1. mem.child[j].status \in Lost  BY <1>12, <2>1, <3>2
      <4>. QED  BY <1>3, <1>7, <4>1 DEF RInv, StartInv
    <3>. QED  BY <3>1, <3>2
  <2>. QED  BY <1>3, <1>10, <1>11, <2>1 DEF StartInv
<1>. QED  BY <1>8, <1>13, <1>14, <1>15, <1>16, <1>17 DEF RInv

LEMMA LoadCombosKeeps ==
  ASSUME RInv, LoadCombos
  PROVE  RInv'
<1> DEFINE known(c) == IF c \in stale THEN NoParent ELSE combos[c]
<1>1. /\ pc = "uncross" /\ pc' = "idle"
      /\ mem' = [mem EXCEPT !.parent = [c \in Combos |-> known(c)],
                            !.linked = {i \in Ids : known(i[1]).seen[i[2]] # "none"}]
      /\ UNCHANGED <<cur, verdict, filled, excused, used, orders, combos, runFile, run, served, stale>>
  BY DEF LoadCombos, NotPosting, posting, history, disk, clock
<1>2. mem \in Memory /\ MemoryInv(mem, filled, excused) /\ combos \in [Combos -> Parent]
  BY DEF RInv, MemoryInv, TypeInv
<1>3. \A c \in Combos : known(c) \in Parent /\ (known(c) = NoParent \/ known(c) = combos[c])
  BY <1>2, NoFields
<1>. HIDE DEF known
<1>4. /\ mem' \in Memory
      /\ mem'.child = mem.child /\ mem'.routed = mem.routed
      /\ mem'.parent = [c \in Combos |-> known(c)]
      /\ mem'.linked = {i \in Ids : known(i[1]).seen[i[2]] # "none"}
  <2>1. [c \in Combos |-> known(c)] \in [Combos -> Parent]  BY <1>3
  <2>. QED  BY <1>1, <1>2, <2>1 DEF Memory
<1>5. ASSUME NEW i \in Ids
      PROVE  /\ mem'.parent[i[1]] = known(i[1])
             /\ ParentOf(mem', i) \in Live \cup {"none"}
             /\ ParentOf(mem', i) \in Live =>
                  /\ SeenOf(mem', i) # "none"
                  /\ SeenOf(mem', i) = "FILLED" => i \in filled /\ ~mem.child[i].works
                  /\ i \in mem'.linked
  <2>1. i[1] \in Combos /\ i[2] \in Legs  BY Parts
  <2>2. mem'.parent[i[1]] = known(i[1])  BY <1>4, <2>1
  <2>3. CASE known(i[1]) = NoParent
    BY <2>2, <2>3, NoFields DEF ParentOf
  <2>4. CASE known(i[1]) = combos[i[1]] /\ combos[i[1]] # NoParent
    <3>1. /\ combos[i[1]].status \in Live /\ combos[i[1]].seen[i[2]] # "none"
          /\ combos[i[1]].seen[i[2]] = "FILLED" => i \in filled /\ ~mem.child[i].works
      BY <2>4 DEF RInv, DiskInv
    <3>. QED  BY <1>4, <2>2, <2>4, <3>1 DEF ParentOf, SeenOf
  <2>. QED  BY <1>3, <2>1, <2>3, <2>4
<1>6. MemoryInv(mem', filled', excused')
  <2>1. ASSUME NEW i \in Ids
        PROVE  /\ ChildInv(mem', filled', i)
               /\ LiveInv(mem', filled', excused', i) /\ OverInv(mem', filled', i)
    <3>1. ChildInv(mem, filled, i)  BY <1>2 DEF MemoryInv
    <3>2. mem.child[i].status \in Lost => i \in excused  BY <1>1 DEF RInv, StartInv
    <3>3. ChildInv(mem', filled', i)  BY <1>1, <1>4, <3>1 DEF ChildInv
    <3>4. LiveInv(mem', filled', excused', i)  BY <1>1, <1>4, <1>5, <3>2 DEF LiveInv
    <3>5. OverInv(mem', filled', i)  BY <1>5 DEF OverInv, Live, Over
    <3>. QED  BY <3>3, <3>4, <3>5
  <2>. QED  BY <1>4, <2>1 DEF MemoryInv
<1>7. TypeInv' /\ RunInv' /\ PostInv'  BY <1>1 DEF RInv, TypeInv, RunInv, PostInv
<1>8. FreshInv'
  <2>1. \A c \in Combos : combos[c] = NoParent => mem'.parent[c] = NoParent
    BY <1>3, <1>4
  <2>. QED  BY <1>1, <1>4, <2>1 DEF RInv, FreshInv
<1>9. KnownInv'  BY <1>5 DEF KnownInv
<1>10. DiskInv'  BY <1>1, <1>4 DEF RInv, DiskInv
<1>11. StartInv'  BY <1>1 DEF StartInv
<1>. QED  BY <1>6, <1>7, <1>8, <1>9, <1>10, <1>11 DEF RInv

-----------------------------------------------------------------------------
(***************************************************************************)
(* The theorems.                                                           *)
(***************************************************************************)
LEMMA MessageKeeps ==
  ASSUME RInv, Idle, Message, UNCHANGED <<disk, clock>>
  PROVE  RInv'
<1>1. CASE \E c \in Combos, v \in Verdicts : Submit(c, v)  BY <1>1, SubmitKeeps
<1>2. CASE \E c \in Combos : CancelCombo(c)  BY <1>2, CancelComboKeeps
<1>3. CASE \E i \in mem.routed : CancelLeg(i)  BY <1>3, CancelLegKeeps
<1>4. CASE \E who \in {{g} : g \in Gateways} \cup {Gateways},
             where \in {{l} : l \in Legs} \cup {Legs} : MassCancel(who, where)
  BY <1>4, MassCancelKeeps
<1>5. CASE CloseBegins
  <2>1. pc # "post" /\ pc' \in {"idle", "expire"} /\ UNCHANGED <<mem, posting, history>>
    BY <1>5 DEF CloseBegins, NotPosting, Idle
  <2>. QED  BY <2>1, TurnKeeps
<1>. QED  BY <1>1, <1>2, <1>3, <1>4, <1>5 DEF Message

LEMMA StutterKeeps ==
  ASSUME RInv, UNCHANGED rvars
  PROVE  RInv'
<1>1. UNCHANGED <<pc, mem, cur, verdict, filled, excused, used, orders, combos, runFile, run, served, stale>>
  BY DEF rvars, cvars, posting, history, disk, clock
<1>2. TypeInv' /\ RunInv' /\ PostInv' /\ StartInv'
  BY <1>1 DEF RInv, TypeInv, RunInv, PostInv, StartInv
<1>3. FreshInv' /\ KnownInv' /\ DiskInv'
  BY <1>1 DEF RInv, FreshInv, KnownInv, DiskInv
<1>4. MemoryInv(mem', filled', excused')  BY <1>1 DEF RInv
<1>. QED  BY <1>2, <1>3, <1>4 DEF RInv

LEMMA NextKeeps ==
  ASSUME RInv, [RNext]_rvars
  PROVE  RInv'
<1>1. CASE Idle /\ Message /\ UNCHANGED <<disk, clock>>  BY <1>1, MessageKeeps
<1>2. CASE PostLeg /\ UNCHANGED <<disk, clock>>  BY <1>2, PostLegKeeps
<1>3. CASE /\ \E i \in Working(mem) : HitLeg(i) \/ ExpireLeg(i)
           /\ UNCHANGED <<disk, clock>>
  BY <1>3, HitLegKeeps, ExpireLegKeeps
<1>4. CASE CloseEnds /\ UNCHANGED <<disk, clock>>
  <2>1. pc # "post" /\ pc' \in {"idle", "expire"} /\ UNCHANGED <<mem, posting, history>>
    BY <1>4 DEF CloseEnds, NotPosting
  <2>. QED  BY <1>4, <2>1, TurnKeeps
<1>5. CASE SaveFirst  BY <1>5, SaveFirstKeeps
<1>6. CASE SaveSecond  BY <1>6, SaveSecondKeeps
<1>7. CASE SaveRaises
  <2>1. /\ pc # "post" /\ pc' \in {"idle", "expire"}
        /\ UNCHANGED <<mem, posting, history, disk, clock>>
    BY <1>7 DEF SaveRaises, NotPosting
  <2>. QED  BY <2>1, TurnKeeps
<1>8. CASE Crash  BY <1>8, CrashKeeps
<1>9. CASE DayEnds  BY <1>9, DayEndsKeeps
<1>10. CASE BumpRun  BY <1>10, BumpRunKeeps
<1>11. CASE RestoreOrders  BY <1>11, RestoreOrdersKeeps
<1>12. CASE LoadCombos  BY <1>12, LoadCombosKeeps
<1>13. CASE \E i \in Working(mem) : UncrossLeg(i)  BY <1>13, UncrossLegKeeps
<1>14. CASE UNCHANGED rvars  BY <1>14, StutterKeeps
<1>. QED
  BY <1>1, <1>2, <1>3, <1>4, <1>5, <1>6, <1>7, <1>8, <1>9, <1>10, <1>11, <1>12, <1>13, <1>14
  DEF RNext, CNext

\* In every state of every run the memory, the files and the phase of the
\* engine are as RInv says, wherever it crashed and whatever it read back.
THEOREM RInvHolds == RSpec => []RInv
<1>1. RInit => RInv  BY InitHolds
<1>2. RInv /\ [RNext]_rvars => RInv'  BY NextKeeps
<1>. QED  BY <1>1, <1>2, PTL DEF RSpec

\* The variables keep their types; every order that works in a book can be
\* reached by its id (_order_symbol), also after a restart; and the file of
\* combos holds live combos only.
THEOREM TypeCorrect == RSpec => []RTypeOK
<1>1. RInv => RTypeOK
  <2> SUFFICES ASSUME RInv PROVE RTypeOK  OBVIOUS
  <2>1. Working(mem) \subseteq mem.routed
    BY DEF RInv, MemoryInv, ChildInv, Working
  <2>2. ASSUME NEW c \in Combos
        PROVE  combos[c] = NoParent \/ combos[c].status \in Live
    <3>1. <<c, 1>> \in Ids /\ <<c, 1>>[1] = c  BY CombosAssumption DEF Ids, Legs
    <3>. QED  BY <3>1 DEF RInv, DiskInv
  <2>3. cur \in Ids \cup {NoId} /\ verdict \in Verdicts \cup {"none"}
        /\ (pc = "post" => cur \in Ids /\ verdict \in Verdicts)
    BY DEF RInv, PostInv
  <2>4. CTypeOK  BY <2>1, <2>3 DEF CTypeOK, RInv, TypeInv, MemoryInv
  <2>. QED  BY <2>2, <2>4 DEF RTypeOK, RInv, TypeInv, RunInv
<1>. QED  BY <1>1, RInvHolds, PTL

\* Whatever ends a combo - its last fill, a lost leg, a cancel - leaves none of
\* its legs in a book (_cascade_cancel_combo), and a restart brings none back.
THEOREM NothingOutlivesItsCombo == RSpec => []EndedComboLeavesNothing
<1>1. RInv => EndedComboLeavesNothing
  BY DEF RInv, MemoryInv, OverInv, ParentOf, EndedComboLeavesNothing, Working
<1>. QED  BY <1>1, RInvHolds, PTL

\* No combo is reported MATCHED (_update_combo_status) unless each of its legs
\* was published as filled, over all the runs of the engine.
THEOREM MatchedCombosTraded == RSpec => []MatchedMeansAllTraded
<1>1. RInv => MatchedMeansAllTraded
  <2> SUFFICES ASSUME RInv, NEW c \in Combos, mem.parent[c].status = "MATCHED", NEW l \in Legs
               PROVE  <<c, l>> \in filled
    BY DEF MatchedMeansAllTraded
  <2>1. <<c, l>> \in Ids /\ <<c, l>>[1] = c  BY LegIds
  <2>. QED  BY <2>1 DEF RInv, MemoryInv, OverInv, ParentOf
<1>. QED  BY <1>1, RInvHolds, PTL

\* A live combo never has a leg that was cancelled, expired or refused, except
\* by the paths that make no follow-up (_check_combo_after_child_event).
THEOREM LiveCombosKeepTheirLegs == RSpec => []LiveComboHasNoLostLeg
<1>1. RInv => LiveComboHasNoLostLeg
  BY DEF RInv, MemoryInv, LiveInv, ParentOf, LiveComboHasNoLostLeg
<1>. QED  BY <1>1, RInvHolds, PTL

\* No leg that its combo counts as filled works in a book, also after a crash
\* between the two files of a checkpoint (_flush_persistence).
THEOREM FilledLegsStayGone == RSpec => []FilledLegIsGone
<1>1. RInv => FilledLegIsGone
  BY DEF RInv, MemoryInv, LiveInv, ParentOf, SeenOf, FilledLegIsGone
<1>. QED  BY <1>1, RInvHolds, PTL

\* No run number is used by two runs (load_and_bump_run_seq), wherever the
\* engine was stopped, so no trade id is issued twice.
THEOREM RunNumbersAreFresh == RSpec => RunsAreFresh
<1>1. ASSUME RInv, [RNext]_rvars
      PROVE  [FreshRun]_rvars
  <2>1. CASE BumpRun
    <3>1. runFile \in 1 .. MaxRuns /\ served \subseteq 1 .. runFile
      BY <1>1 DEF RInv, RunInv
    <3>2. run' = runFile + 1  BY <2>1 DEF BumpRun
    <3>3. run' \notin served  BY <3>1, <3>2, RecoveryAssumption
    <3>. QED  BY <3>3 DEF FreshRun
  <2>2. CASE ~BumpRun
    <3>1. run' = run
      BY <1>1, <2>2
      DEF RNext, SaveFirst, SaveSecond, SaveRaises, Crash, DayEnds, RestoreOrders,
          LoadCombos, UncrossLeg, clock, rvars
    <3>. QED  BY <3>1 DEF FreshRun
  <2>. QED  BY <2>1, <2>2
<1>. QED  BY <1>1, RInvHolds, PTL DEF RSpec, RunsAreFresh
=============================================================================
