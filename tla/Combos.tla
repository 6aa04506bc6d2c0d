-------------------------------- MODULE Combos --------------------------------
(***************************************************************************)
(* Combo orders (main.py and models/combo.py): a parent whose legs are     *)
(* ordinary orders, one per symbol, and the follow-ups that keep the two   *)
(* in step.                                                                *)
(*                                                                         *)
(* Each leg rests in a book of its own.  What a book may do with an order  *)
(* is what TradeLedger promises of OrderBook: fill it, in part or in full, *)
(* or end it.  Which of these happens is left open here.                   *)
(***************************************************************************)
EXTENDS Naturals, FiniteSets

CONSTANTS
  Combos,      \* the internal ids of the combos that may be submitted
  LegCount,    \* legs per combo
  Quantity,    \* of every child order
  Gateways,
  Owner,       \* the gateway of every combo
  DayCombos    \* the combos with time in force DAY; the others are GTC

ASSUME CombosAssumption ==
  /\ LegCount \in Nat \ {0, 1} /\ Quantity \in [Combos \X (1 .. LegCount) -> Nat \ {0}]
  /\ Owner \in [Combos -> Gateways] /\ DayCombos \subseteq Combos

Legs == 1 .. LegCount
Ids  == Combos \X Legs      \* the child order of a combo's leg

Lost     == {"CANCELLED", "EXPIRED", "REJECTED"}
Statuses == {"none", "NEW", "PARTIAL", "FILLED"} \cup Lost
Live     == {"PENDING", "PARTIALLY_MATCHED"}
Over     == {"MATCHED", "FAILED", "CANCELLED"}

Child  == [status : Statuses, rem : Nat, works : BOOLEAN]
Parent == [status : {"none"} \cup Live \cup Over, seen : [Legs -> Statuses]]
Memory ==
  [child  : [Ids -> Child],
   parent : [Combos -> Parent],    \* _combos
   linked : SUBSET Ids,            \* _order_to_combo
   routed : SUBSET Ids]            \* _order_symbol

NoChild  == [status |-> "none", rem |-> 0, works |-> FALSE]
NoParent == [status |-> "none", seen |-> [l \in Legs |-> "none"]]
Resting(q) == [status |-> "NEW", rem |-> q, works |-> TRUE]
Blank ==
  [child |-> [i \in Ids |-> NoChild], parent |-> [c \in Combos |-> NoParent],
   linked |-> {}, routed |-> {}]

VARIABLES
  mem,      \* what the engine remembers
  pc,       \* what the engine is doing
  cur,      \* the leg to be posted next
  verdict,  \* what the all-or-none check has said of its combo
  filled,   \* the children published as filled, in any run
  excused,  \* children ended by a path that makes no combo follow-up
  used      \* the combos ever submitted: ids are never used again

posting == <<cur, verdict>>
history == <<filled, excused, used>>
cvars   == <<mem, pc, posting, history>>

NoId == <<>>
EndPosting == cur' = NoId /\ verdict' = "none"

Working(m) == {i \in Ids : m.child[i].works}

-----------------------------------------------------------------------------
(***************************************************************************)
(* The follow-ups.                                                         *)
(***************************************************************************)

\* A child leaves its book unfilled (cancel_order), and its routing entry goes.
Ended(m, i, how) ==
  [m EXCEPT !.child[i].status = how, !.child[i].works = FALSE, !.routed = @ \ {i}]

\* _cascade_cancel_combo: the legs that still work are cancelled, and none is
\* a leg of a live combo any more.
Cascade(m, c, status) ==
  [child  |-> [i \in Ids |-> IF i[1] = c /\ m.child[i].works /\ i \in m.routed
                             THEN [m.child[i] EXCEPT !.status = "CANCELLED", !.works = FALSE]
                             ELSE m.child[i]],
   parent |-> [m.parent EXCEPT ![c].status = status],
   linked |-> {i \in m.linked : i[1] # c},
   routed |-> {i \in m.routed : i[1] # c}]

\* is_fully_filled.
FullyFilledSoFar(p) == \A l \in Legs : p.seen[l] \in {"FILLED", "none"}     \* mutant: legs not posted yet are overlooked
FullyFilled(p) == \A l \in Legs : p.seen[l] = "FILLED"

\* _update_combo_status.
Updated(m, c) ==
  IF FullyFilled(m.parent[c]) THEN [m EXCEPT !.parent[c].status = "MATCHED"]
  ELSE IF /\ m.parent[c].status = "PENDING"
          /\ \E l \in Legs : m.parent[c].seen[l] \in {"PARTIAL", "FILLED"}
  THEN [m EXCEPT !.parent[c].status = "PARTIALLY_MATCHED"]
  ELSE m

\* The statuses of a leg that fail its combo.
FatalButExpiry == {"CANCELLED", "REJECTED"}     \* mutant: an expired leg is forgotten
Fatal == Lost

\* _check_combo_after_child_event.
Seen(m, i) == [m EXCEPT !.parent[i[1]].seen[i[2]] = m.child[i].status]
FollowUp(m, i) ==
  IF i \notin m.linked \/ m.parent[i[1]].status \notin Live THEN m
  ELSE IF m.child[i].status \in Fatal THEN Cascade(Seen(m, i), i[1], "FAILED")
  ELSE Updated(Seen(m, i), i[1])

\* _ENDED_STATUSES.
EventStatuses == Statuses \ {"none", "NEW"}     \* mutant: every event ends the routing of its order
EndedStatuses == Lost \cup {"FILLED"}

\* _publish_dispatch for the event of one child.
Dispatched(m, i) ==
  LET f == IF m.child[i].status = "NEW" THEN m ELSE FollowUp(m, i)
  IN  IF m.child[i].status \in EndedStatuses
      THEN [f EXCEPT !.routed = @ \ {i}] ELSE f

-----------------------------------------------------------------------------
(***************************************************************************)
(* What a book may do with an order of which q is left: trade some of it,  *)
(* or end it, perhaps after it traded in the same dispatch (self-match     *)
(* prevention, an order that cannot rest).                                 *)
(***************************************************************************)
Traded(q) ==
  {[status |-> IF r = 0 THEN "FILLED" ELSE "PARTIAL", rem |-> r, works |-> r > 0] :
     r \in 0 .. q - 1}
Pulled(q)  == {[status |-> "CANCELLED", rem |-> r, works |-> FALSE] : r \in 1 .. q}
Refused(q) == {[status |-> "REJECTED", rem |-> q, works |-> FALSE]}

\* A new leg; matching may be off for its symbol whatever the verdict.
Entry ==
  LET q == Quantity[cur]
  IN  CASE verdict = "match"  -> Traded(q) \cup Pulled(q) \cup Refused(q) \cup {Resting(q)}
        [] verdict = "rest"   -> Refused(q) \cup {Resting(q)}
        [] verdict = "reject" -> Refused(q)

\* The book leaves child i as ch, in memory m.
Left(m, i, ch) == [m EXCEPT !.child[i] = ch]
Publish(i, ch) == filled' = IF ch.status = "FILLED" THEN filled \cup {i} ELSE filled

-----------------------------------------------------------------------------
(***************************************************************************)
(* Messages, taken when the engine is idle, and their steps.               *)
(***************************************************************************)
Idle == pc = "idle"
NotPosting == UNCHANGED posting

\* _accept_combo up to its legs: the combo is registered, and the check that
\* every leg could fill decides whether they match, rest or are refused.
Submit(c, v) ==
  /\ c \notin used
  /\ mem' = [mem EXCEPT !.parent[c].status = "PENDING"]
  /\ pc' = "post" /\ cur' = <<c, 1>> /\ verdict' = v
  /\ used' = used \cup {c}
  /\ UNCHANGED <<filled, excused>>

\* A child is created, entered in the maps, processed and published.
Posted(m, i) ==
  [m EXCEPT !.child[i] = Resting(Quantity[i]), !.parent[i[1]].seen[i[2]] = "NEW",
            !.linked = @ \cup {i}, !.routed = @ \cup {i}]

\* Whether the next leg is posted after m.
GoOnRegardless(m) == cur[2] < LegCount     \* mutant: a failed combo posts its other legs
GoOn(m) == cur[2] < LegCount /\ m.parent[cur[1]].status # "FAILED"

PostLeg ==
  /\ pc = "post"
  /\ \E ch \in Entry :
       LET m == Dispatched(Left(Posted(mem, cur), cur, ch), cur)
       IN  /\ mem' = m
           /\ Publish(cur, ch)
           /\ IF GoOn(m)
              THEN pc' = pc /\ cur' = <<cur[1], cur[2] + 1>> /\ verdict' = verdict
              ELSE pc' = "idle" /\ EndPosting
  /\ UNCHANGED <<excused, used>>

\* A dispatch of another order, maybe the leg of another combo, trades or pulls
\* a resting leg.
HitLeg(i) ==
  /\ pc \in {"idle", "post"} /\ (pc = "post" => i[1] # cur[1])
  /\ \E ch \in Traded(mem.child[i].rem) \cup Pulled(mem.child[i].rem) :
       /\ mem' = Dispatched(Left(mem, i, ch), i)
       /\ Publish(i, ch)
  /\ NotPosting /\ UNCHANGED <<pc, excused, used>>

\* _handle_cancel of one leg.
CancelLeg(i) ==
  /\ i \in mem.routed /\ i \in Working(mem)
  /\ mem' = FollowUp(Ended(mem, i, "CANCELLED"), i)
  /\ NotPosting /\ UNCHANGED <<pc, history>>

\* _handle_combo_cancel.
CancelCombo(c) ==
  /\ mem.parent[c].status \in Live
  /\ mem' = Cascade(mem, c, "CANCELLED")
  /\ NotPosting /\ UNCHANGED <<pc, history>>

\* Kill switch, cancel-symbol and disconnect go through _cancel_order_by_id,
\* which makes no combo follow-up: the orders of some gateways in some books.
MassCancel(who, where) ==
  LET gone == {i \in mem.routed \cap Working(mem) : Owner[i[1]] \in who /\ i[2] \in where}
  IN  /\ gone # {}
      /\ mem' = [mem EXCEPT
           !.child  = [i \in Ids |-> IF i \in gone
                         THEN [@[i] EXCEPT !.status = "CANCELLED", !.works = FALSE]
                         ELSE @[i]],
           !.routed = @ \ gone]
      /\ excused' = excused \cup gone
      /\ NotPosting /\ UNCHANGED <<pc, filled, used>>

\* _expire_tif at the close: every order of the day that still rests when its
\* turn comes, with the follow-up after each.
CloseBegins ==
  /\ pc' = "expire"
  /\ NotPosting /\ UNCHANGED <<mem, history>>

ExpireLeg(i) ==
  /\ pc = "expire" /\ i[1] \in DayCombos
  /\ mem' = FollowUp(Ended(mem, i, "EXPIRED"), i)
  /\ NotPosting /\ UNCHANGED <<pc, history>>

CloseEnds ==
  /\ pc = "expire" /\ \A i \in Working(mem) : i[1] \notin DayCombos
  /\ pc' = "idle"
  /\ NotPosting /\ UNCHANGED <<mem, history>>

-----------------------------------------------------------------------------
CInit ==
  /\ mem = Blank /\ pc = "idle"
  /\ cur = NoId /\ verdict = "none"
  /\ filled = {} /\ excused = {} /\ used = {}

Verdicts == {"match", "rest", "reject"}

Message ==
  \/ \E c \in Combos : (\E v \in Verdicts : Submit(c, v)) \/ CancelCombo(c)
  \/ \E i \in mem.routed : CancelLeg(i)
  \/ \E who \in {{g} : g \in Gateways} \cup {Gateways},
        where \in {{l} : l \in Legs} \cup {Legs} : MassCancel(who, where)
  \/ CloseBegins

CNext ==
  \/ Idle /\ Message
  \/ PostLeg
  \/ \E i \in Working(mem) : HitLeg(i) \/ ExpireLeg(i)
  \/ CloseEnds

-----------------------------------------------------------------------------
(***************************************************************************)
(* Properties, stated of the engine between messages.                      *)
(***************************************************************************)

\* Every variable keeps its type, and an order that works can be found by its
\* id: nothing rests in a book that no cancel could reach.
CTypeOK ==
  /\ mem \in Memory
  /\ pc \in {"idle", "post", "expire", "saved", "down", "restore", "uncross"}
  /\ cur \in Ids \cup {NoId} /\ verdict \in Verdicts \cup {"none"}
  /\ pc = "post" => cur \in Ids /\ verdict \in Verdicts
  /\ filled \subseteq Ids /\ excused \subseteq Ids /\ used \subseteq Combos
  /\ Working(mem) \subseteq mem.routed

\* A combo that matched, failed or was cancelled has no leg left in any book.
EndedComboLeavesNothing ==
  Idle => \A i \in Working(mem) : mem.parent[i[1]].status \notin Over

\* A combo is MATCHED only when every leg was published as filled, in this run
\* or in one that crashed.
MatchedMeansAllTraded ==
  \A c \in Combos : mem.parent[c].status = "MATCHED" =>
    \A l \in Legs : <<c, l>> \in filled

\* While a combo is live none of its legs has ended unfilled, except by the
\* paths that make no follow-up.
LiveComboHasNoLostLeg ==
  Idle => \A i \in Ids : mem.parent[i[1]].status \in Live /\ mem.child[i].status \in Lost
                         => i \in excused

\* No live combo counts as filled a leg whose order works in a book.  After a
\* crash this rests on the order in which the two files are written.
FilledLegIsGone ==
  \A i \in Ids : mem.parent[i[1]].status \in Live /\ mem.parent[i[1]].seen[i[2]] = "FILLED"
                 => ~mem.child[i].works
=============================================================================
