------------------------------- MODULE Session -------------------------------
(***************************************************************************)
(* The trading day of one symbol: the session phases (models/session.py    *)
(* and _handle_session_transition), the circuit breaker with its corridor  *)
(* (engine/circuit_breaker.py), the halts of operators, and the expiry of  *)
(* orders that outlive their phase.  Orders trade as in OrderBook, and     *)
(* auctions run as in Auction.                                             *)
(*                                                                         *)
(* A transition is several pieces of work in a fixed order; stage names    *)
(* the piece that comes next.  No message is read before the last is done. *)
(***************************************************************************)
EXTENDS Auction

CONSTANTS
  TifChoices,     \* the times in force of every request in NewOrders
  PairTifs,       \* the times in force of pairs and quotes
  AssertedPrices, \* the prices an operator may force an uncross at
  HaltLevels,     \* the breaker's ladder: records of shift (percent) and timed
  Band, Rungs,    \* the corridor's first half-width and its widenings (percent)
  OpeningPrice,   \* the configured reference (seed_reference)
  MaxWindow,      \* bound: trades the reference window remembers
  MaxExtensions   \* bound: extensions of one call phase

Phases == {"PRE_OPEN", "OPENING_AUCTION", "CONTINUOUS", "CLOSING_AUCTION", "CLOSED"}
Tifs   == {"DAY", "GTC", "ATO", "ATC"}

\* VALID_TRANSITIONS.
Follows ==
  [PRE_OPEN        |-> {"OPENING_AUCTION", "CONTINUOUS"},
   OPENING_AUCTION |-> {"CONTINUOUS"},
   CONTINUOUS      |-> {"CLOSING_AUCTION", "CLOSED"},
   CLOSING_AUCTION |-> {"CLOSED"},
   CLOSED          |-> {"PRE_OPEN"}]

ASSUME SessionAssumption ==
  /\ TifChoices \in [NewOrders -> SUBSET Tifs] /\ PairTifs \subseteq Tifs
  /\ AssertedPrices \subseteq Prices
  /\ HaltLevels \subseteq [shift : Nat \ {0}, timed : BOOLEAN]
  /\ Band \in Nat /\ Rungs \in Seq(Nat)
  /\ OpeningPrice \in Prices /\ MaxWindow \in Nat \ {0} /\ MaxExtensions \in Nat

VARIABLES
  phase,     \* _session_state
  goal,      \* the phase a running transition enters, "none" outside one
  stage,     \* the next piece of the running transition
  tif,       \* the time in force of every order
  halted,    \* _halted_symbols
  breaker,   \* CircuitBreakerState (on, timer, ref, centre, widened)
  window,    \* trade_history: the prices of the reference window
  tripped    \* what the running dispatch's trades have fired: a shift, or 0

day   == <<phase, goal, stage, tif>>
halts == <<halted, breaker, window, tripped>>
svars == <<avars, day, halts>>

NoLevel == 0

\* mutant: a halt that ends leaves its timer behind
DeactivatedTimerRuns(cb) == [cb EXCEPT !.on = FALSE, !.centre = NoPrice, !.widened = 0]

\* deactivate() keeps the reference price.
Deactivated(cb) == [cb EXCEPT !.on = FALSE, !.timer = "none", !.centre = NoPrice,
                              !.widened = 0]

SInit ==
  /\ Init /\ AuctionIdle /\ ~matching
  /\ phase = "CLOSED" /\ goal = "none" /\ stage = "none"
  /\ tif = [i \in Ids |-> "DAY"]
  /\ halted = FALSE /\ tripped = NoLevel
  /\ breaker = [on |-> FALSE, timer |-> "none", ref |-> OpeningPrice,
                centre |-> NoPrice, widened |-> 0]
  /\ window = <<OpeningPrice>>

-----------------------------------------------------------------------------
(***************************************************************************)
(* The breaker.                                                            *)
(***************************************************************************)
Kept(k)  == SubSeq(window, Len(window) - k + 1, Len(window))
Total(s) == Units(DOMAIN s, s)
Mean(s)  == Total(s) \div Len(s)

\* The deepest level whose threshold a print at price p reaches.
FiredWhenBeyond(p, ref) ==     \* mutant: the threshold itself does not fire
  LET reached == {l.shift : l \in {m \in HaltLevels : 100 * Distance(p, ref) > m.shift * ref}}
  IN  IF reached = {} THEN NoLevel ELSE CHOOSE s \in reached : \A t \in reached : t <= s
Fired(p, ref) ==
  LET reached == {l.shift : l \in {m \in HaltLevels : 100 * Distance(p, ref) >= m.shift * ref}}
  IN  IF reached = {} THEN NoLevel ELSE CHOOSE s \in reached : \A t \in reached : t <= s

Timed(shift) == \E l \in HaltLevels : l.shift = shift /\ l.timed

\* record_trade for a print at price p.  Time is not counted: any number of
\* the oldest entries may have left the window.  What fires is acted upon
\* when the dispatch is published, and nothing is recorded in between.
Record(p, mayTrigger) ==
  IF breaker.on \/ tripped # NoLevel
  THEN UNCHANGED halts
  ELSE \E k \in 0 .. Least(Len(window), MaxWindow - 1) :
         LET kept   == Kept(k)
             judged == mayTrigger /\ kept # <<>>
         IN  /\ window' = Append(kept, p)
             /\ breaker' = IF judged THEN [breaker EXCEPT !.ref = Mean(kept)] ELSE breaker
             /\ tripped' = IF judged THEN Fired(p, Mean(kept)) ELSE NoLevel
             /\ UNCHANGED halted

\* The corridor, a pair of bounds; unbounded when the halt had no reference.
Widening[n \in Nat] ==
  IF n = 0 \/ Rungs = <<>> THEN 0 ELSE Rungs[Least(n, Len(Rungs))] + Widening[n - 1]
HalfWidthFixed(cb) == cb.centre * Band     \* mutant: an extension widens nothing
HalfWidth(cb) == cb.centre * (Band + Widening[cb.widened])
LowEnd(cb)  == IF 100 * cb.centre - HalfWidth(cb) < 100 THEN 1
               ELSE (100 * cb.centre - HalfWidth(cb)) \div 100
HighEnd(cb) == (100 * cb.centre + HalfWidth(cb)) \div 100
Inside(cb, p) == cb.centre = NoPrice \/ (LowEnd(cb) <= p /\ p <= HighEnd(cb))

\* The price inside that is nearest to p, a set of one price: p itself, or the
\* bound it lies beyond.
Clamped(cb, p) ==
  {q \in Prices : Inside(cb, q) /\ \A r \in Prices :
                    Inside(cb, r) => Distance(q, p) <= Distance(r, p)}

\* activate(): a level with a duration resumes by itself.
Activated(cb, timed) ==
  [on |-> TRUE, timer |-> IF timed THEN "running" ELSE "none", ref |-> cb.ref,
   centre |-> cb.ref, widened |-> 0]

\* A halt without a level: no timer, no reference, the corridor untouched.
HeldByOperator(cb) == [cb EXCEPT !.on = TRUE, !.timer = "none", !.ref = NoPrice]

\* What the orders S show at price p of side s, share by share.
SharesOf(b, S, s, p) ==
  UNION {{i} \X (1 .. Slice(b.ord[i])) : i \in {j \in S \cap Resting(b, s) : b.ord[j].price = p}}

\* cancel_order on every one of S, which the book holds.  They leave one after
\* the other; the order does not matter to the book that is left.
Leave(b, S, how) ==
  [b EXCEPT
     !.ord   = [i \in Ids |-> IF i \in S
                              THEN [b.ord[i] EXCEPT !.status = how, !.place = "none"]
                              ELSE b.ord[i]],
     !.level = [s \in Sides |-> [p \in Prices |->
                  Minus(b.level[s][p], Cardinality(SharesOf(b, S, s, p)))]]]

\* Both legs of every quote registered for the symbol.
AllQuotes(b) == {g \in b.live : b.ord[g].bond = "quote"}
WithoutQuotes(b) ==
  LET legs == {i \in Ids : b.ord[i].place \in Held /\ b.ord[i].group \in AllQuotes(b)}
  IN  [Leave(b, legs, "CANCELLED") EXCEPT !.live = @ \ AllQuotes(b)]

-----------------------------------------------------------------------------
(***************************************************************************)
(* Messages of participants.                                               *)
(***************************************************************************)

\* do_match: what the gates of every handler read first.
DoMatchInCall == phase = "CONTINUOUS"     \* mutant: the halt is not looked at
DoMatch == phase = "CONTINUOUS" /\ ~halted

Quiet == pc = "idle" /\ stage = "none"
Ready == Quiet /\ matching = DoMatch

ReadGates ==
  /\ Quiet /\ matching # DoMatch
  /\ matching' = DoMatch
  /\ UNCHANGED <<book, last, hasStops, born, dispatch, auction, day, halts>>

\* Auction-only orders are taken in their own phase.
TifAccepted(t) ==
  /\ t = "ATO" => phase = "OPENING_AUCTION"
  /\ t = "ATC" => phase = "CLOSING_AUCTION"

SNewOrder(r, t) ==
  /\ Ready /\ phase # "CLOSED" /\ TifAccepted(t)
  /\ NewOrder(r)
  /\ tif' = [tif EXCEPT ![born + 1] = t]
  /\ UNCHANGED <<auction, phase, goal, stage, halts>>

\* The windows of auction-only orders are not checked for pairs and quotes.
SOcoOrder(legs, t) ==
  /\ Ready /\ phase # "CLOSED"
  /\ OcoOrder(legs)
  /\ tif' = [tif EXCEPT ![born + 1] = t, ![born + 2] = t]
  /\ UNCHANGED <<auction, phase, goal, stage, halts>>

SQuoteNew(legs, t) ==
  /\ Ready /\ phase # "CLOSED" /\ ~halted
  /\ QuoteNew(legs)
  /\ tif' = [tif EXCEPT ![born + 1] = t, ![born + 2] = t]
  /\ UNCHANGED <<auction, phase, goal, stage, halts>>

\* Cancels are taken in every phase, amends only while the market is open.
SWithdrawal ==
  /\ Ready
  /\ \/ \E i \in Ids : CancelOrder(i) \/ OcoCancel(i)
     \/ \E gw \in Gateways : QuoteCancel(gw) \/ KillSwitch(gw)
     \/ /\ phase # "CLOSED"
        /\ \E i \in Ids, price \in AmendPrices, qty \in AmendQtys : Amend(i, price, qty)
  /\ UNCHANGED <<auction, day, halts>>

-----------------------------------------------------------------------------
(***************************************************************************)
(* Operators.                                                              *)
(***************************************************************************)

\* _handle_symbol_halt, with a level of the ladder or without, and halt-all.
AdminHalt(cb) ==
  /\ Ready
  /\ halted' = TRUE
  /\ breaker' = cb
  /\ book' = WithoutQuotes(book)
  /\ UNCHANGED <<last, hasStops, matching, born, dispatch, auction, day, window, tripped>>

\* What the dry run says now: a set of one record, to be drawn from.
Indicative == Equilibria(book)

\* The uncross runs when there is a price.
Begin(e) ==
  IF e.price # NoPrice
  THEN StartUncross(e.price, e.qty)
  ELSE UNCHANGED avars

\* _admin_reopen: outside a matching phase the session's auction uncrosses.
AdminResume ==
  /\ Ready /\ halted
  /\ halted' = FALSE /\ breaker' = Deactivated(breaker)
  /\ IF phase = "CONTINUOUS"
     THEN \E e \in Indicative : Begin(e)
     ELSE UNCHANGED avars
  /\ UNCHANGED <<day, window, tripped>>

\* _handle_force_uncross, live run.
ForceUncross(p) ==
  /\ Ready
  /\ halted' = FALSE /\ breaker' = Deactivated(breaker)
  /\ \E e \in Indicative : Begin(IF p = NoPrice THEN e ELSE [e EXCEPT !.price = p])
  /\ UNCHANGED <<day, window, tripped>>

\* _handle_cancel_symbol: quotes and orders of every participant.
CancelSymbol ==
  /\ Ready
  /\ book' = [book EXCEPT !.live = @ \ AllQuotes(book)]
  /\ pc' = "withdraw" /\ clearing' = {i \in Ids : order(i).place \in Held}
  /\ UNCHANGED <<last, hasStops, matching, born, cur, todo, traded, released,
                 auction, day, halts>>

-----------------------------------------------------------------------------
(***************************************************************************)
(* The end of a dispatch: the breaker.                                     *)
(***************************************************************************)

\* _check_circuit_breaker.
HaltTrips ==
  /\ pc = "next" /\ Waiting = {} /\ tripped # NoLevel
  /\ halted' = TRUE /\ tripped' = NoLevel
  /\ breaker' = Activated(breaker, Timed(tripped))
  /\ book' = WithoutQuotes(book)
  /\ UNCHANGED <<last, hasStops, matching, born, dispatch, auction, day, window>>

\* A step of the engine on the book.  Trades are recorded, those of an
\* uncross without firing; after the last trade of a dispatch the breaker
\* comes before anything else.
Trading(p) == pc = "sweep" /\ Facing(p) /\ SelfMatch(book, cur, p) = "NONE"

BookStep ==
  /\ ~(pc = "next" /\ Waiting = {} /\ tripped # NoLevel)
  /\ EngineStep
  /\ IF \E p \in Ids : Trading(p)
     THEN \E p \in Ids : Trading(p) /\ Record(order(p).price, TRUE)
     ELSE UNCHANGED halts
  /\ UNCHANGED <<auction, day>>

PrintStep ==
  /\ UncrossStep
  /\ IF printed' > printed THEN Record(eq, FALSE) ELSE UNCHANGED halts
  /\ UNCHANGED day

-----------------------------------------------------------------------------
(***************************************************************************)
(* The timer of a halt (_flush_circuit_breakers, once per poll).           *)
(***************************************************************************)
TimerEnds ==
  /\ Ready /\ breaker.timer = "running"
  /\ breaker' = [breaker EXCEPT !.timer = "due"]
  /\ UNCHANGED <<avars, day, halted, window, tripped>>

Due == Ready /\ breaker.on /\ breaker.timer = "due"
Outside(e) == e.qty > 0 /\ ~Inside(breaker, e.price)

\* The indicative price is outside the corridor: another call phase.
Extend ==
  /\ Due /\ breaker.widened < MaxExtensions
  /\ \E e \in Indicative : Outside(e)
  /\ breaker' = [breaker EXCEPT !.timer = "running", !.widened = @ + 1]
  /\ UNCHANGED <<avars, day, halted, window, tripped>>

Reopen ==
  /\ Due
  /\ halted' = FALSE /\ breaker' = Deactivated(breaker)
  /\ \E e \in Indicative : ~Outside(e) /\ Begin(e)
  /\ UNCHANGED <<day, window, tripped>>

-----------------------------------------------------------------------------
(***************************************************************************)
(* _handle_session_transition.                                             *)
(***************************************************************************)
MayEnterUnlessHalted(to) == to \in Follows[phase] /\ ~halted     \* mutant: halts block the day
MayEnter(to) == to \in Follows[phase]

\* mutant: only an auction phase ends with an uncross
LeavesAuction(from, to) ==
  from \in {"OPENING_AUCTION", "CLOSING_AUCTION"} /\ to \in {"CONTINUOUS", "CLOSED"}
LeavesCall(from, to) == from # "CONTINUOUS" /\ to \in {"CONTINUOUS", "CLOSED"}
AfterUncross(to) == IF to = "CLOSED" THEN "backstop" ELSE "enter"

Transition(to) ==
  /\ Ready /\ MayEnter(to)
  /\ goal' = to
  /\ stage' = IF LeavesCall(phase, to) THEN "uncross" ELSE AfterUncross(to)
  /\ UNCHANGED <<avars, phase, tif, halts>>

\* The scheduled uncross leaves out a halted symbol.
ScheduledUncross ==
  /\ pc = "idle" /\ stage = "uncross"
  /\ IF halted THEN UNCHANGED avars ELSE \E e \in Indicative : Begin(e)
  /\ stage' = AfterUncross(goal)
  /\ UNCHANGED <<phase, goal, tif, halts>>

\* _run_closing_backstop: the corridor's bound is the price when the
\* equilibrium lies beyond it.
NoBackstop ==
  /\ pc = "idle" /\ stage = "backstop" /\ ~halted
  /\ stage' = "enter"
  /\ UNCHANGED <<avars, phase, goal, tif, halts>>

Backstop ==
  /\ pc = "idle" /\ stage = "backstop" /\ halted
  /\ \E e \in Indicative :
       IF e.qty > 0
       THEN \E p \in Clamped(breaker, e.price) : Begin([e EXCEPT !.price = p])
       ELSE Begin(e)
  /\ halted' = FALSE /\ breaker' = Deactivated(breaker)
  /\ stage' = "enter"
  /\ UNCHANGED <<phase, goal, tif, window, tripped>>

\* _expire_tif: a cancel by the book alone, without follow-up for pairs.
ExpireTif(b, t) ==
  Leave(b, {i \in Ids : b.ord[i].place \in Held /\ tif[i] = t}, "EXPIRED")
ExpireIf(b, t, c) == IF c THEN ExpireTif(b, t) ELSE b
AtCloseTooEarly == phase = "CLOSED"     \* mutant: the old phase is read
AtClose == goal = "CLOSED"

\* The window of the phase that ends is over, the phase changes, and at the
\* close the day's orders expire and what is still halted is released.
EnterPhase ==
  /\ pc = "idle" /\ stage = "enter"
  /\ book' = ExpireIf(ExpireIf(ExpireIf(book, "ATO", phase = "OPENING_AUCTION"),
                               "ATC", phase = "CLOSING_AUCTION"), "DAY", AtClose)
  /\ phase' = goal /\ goal' = "none" /\ stage' = "none"
  /\ IF AtClose /\ breaker.on
     THEN breaker' = Deactivated(breaker) /\ halted' = FALSE
     ELSE UNCHANGED <<breaker, halted>>
  /\ UNCHANGED <<last, hasStops, matching, born, dispatch, auction, tif,
                 window, tripped>>

-----------------------------------------------------------------------------
OperatorHalts ==
  \/ AdminHalt(HeldByOperator(breaker))
  \/ \E l \in HaltLevels : AdminHalt(Activated(breaker, l.timed))

SMessage ==
  /\ Ready
  /\ \/ \E r \in NewOrders : \E t \in TifChoices[r] : SNewOrder(r, t)
     \/ \E legs \in OcoPairs, t \in PairTifs : SOcoOrder(legs, t)
     \/ \E legs \in QuotePairs, t \in PairTifs : SQuoteNew(legs, t)
     \/ SWithdrawal \/ CancelSymbol
     \/ AdminResume
     \/ OperatorHalts
     \/ \E p \in AssertedPrices \cup {NoPrice} : ForceUncross(p)

Schedule == \E to \in Phases : Transition(to)

Work ==
  \/ BookStep \/ PrintStep \/ HaltTrips \/ ReadGates
  \/ Extend \/ Reopen
  \/ ScheduledUncross \/ NoBackstop \/ Backstop \/ EnterPhase

SNext == SMessage \/ Schedule \/ TimerEnds \/ Work

SSpec == SInit /\ [][SNext]_svars

\* The run loop never waits inside a handler, time passes, and the breakers
\* are looked at after every message, so messages cannot keep a due one
\* waiting (hence the strong fairness: a message makes the engine busy).
Handling == ~Ready /\ Work
SFairSpec ==
  SSpec /\ WF_svars(Handling) /\ SF_svars(TimerEnds) /\ SF_svars(Extend \/ Reopen)

-----------------------------------------------------------------------------
(***************************************************************************)
(* Properties.                                                             *)
(***************************************************************************)

\* The two records of a halt agree (_halted_symbols and the breaker's own
\* flag), and only a halt has a timer.
HaltsAgree == halted = breaker.on /\ (breaker.timer # "none" => halted)

\* Every variable keeps its type, and the records of a halt agree.
STypeOK ==
  /\ ATypeOK
  /\ phase \in Phases /\ goal \in Phases \cup {"none"}
  /\ stage \in {"none", "uncross", "backstop", "enter"}
  /\ tif \in [Ids -> Tifs]
  /\ halted \in BOOLEAN
  /\ breaker \in [on : BOOLEAN, timer : {"none", "running", "due"},
                  ref : Nat, centre : Nat,
                  widened : 0 .. MaxExtensions]
  /\ window \in Seq(Prices) /\ Len(window) <= MaxWindow /\ tripped \in Nat
  /\ HaltsAgree

\* Continuous trading never starts, or goes on, with a crossed book: however
\* the call phase or the halt before it ended, and whatever was collected in
\* it, what crossed was uncrossed first.
OpensUncrossedSession ==
  Quiet /\ DoMatch =>
    \A b \in Bids(book), s \in Asks(book) : order(b).price < order(s).price

\* A symbol that is halted when a message is read, and stays halted, does not
\* trade: not by an order, an amend, a stop or a scheduled uncross.
HaltedNeverTrades ==
  [][halted /\ halted' => \A i \in Ids : ~Executes(i)]_svars

\* Auction-only orders do not outlive their auction, nor day orders the close.
NothingOutlivesItsPhase ==
  Quiet => \A i \in Ids : order(i).place \in Held =>
    /\ tif[i] = "ATO" => phase = "OPENING_AUCTION"
    /\ tif[i] = "ATC" => phase = "CLOSING_AUCTION"
    /\ tif[i] = "DAY" => phase # "CLOSED"

\* Every halt ends, whoever began it and however often it was renewed: if
\* not before, then at the close, provided that the scheduler's transitions,
\* which wait in the same queue as everything else, are handled in the end.
HaltEnds == SF_svars(Schedule) => (halted ~> ~halted)

\* Widening the corridor needs no cap (the claim of _flush_circuit_breakers):
\* without any transition of the session a timed halt reopens, however far
\* the indicative price is from the reference and whatever participants do,
\* unless operators halt the symbol again and again.
TimedHaltEnds == <>[][~OperatorHalts]_svars => (breaker.timer # "none" ~> breaker.timer = "none")
=============================================================================
