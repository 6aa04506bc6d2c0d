----------------------------- MODULE TradeLedger -----------------------------
(***************************************************************************)
(* What an order book promises the participants whose orders it accepts,   *)
(* without saying how it matches them: an order is open until it ends and  *)
(* an ended order never changes again; a trade is between one open buy and *)
(* one open sell, for the same quantity on both, at a price each of them   *)
(* allows; an owner's amend never touches what has been executed.          *)
(***************************************************************************)
EXTENDS Integers, FiniteSets

CONSTANTS
  Ids,      \* the orders
  Prices,   \* the prices of trades
  NoPrice   \* the limit of an order that has none

VARIABLES
  ledger,   \* every order as its owner sees it
  print     \* the price of the last trade

Absent == [state |-> "absent", side |-> "BUY", limit |-> NoPrice, qty |-> 0, rem |-> 0]

Entry == [state : {"absent", "open", "ended"}, side : {"BUY", "SELL"},
          limit : Prices \cup {NoPrice}, qty : Nat, rem : Nat]

Open == {i \in Ids : ledger[i].state = "open"}

Init == ledger = [i \in Ids |-> Absent] /\ print \in Prices \cup {NoPrice}

\* The orders of one message enter whole.
Accept(new) ==
  /\ new # {}
  /\ \A i \in Ids :
       IF i \in new
       THEN /\ ledger[i] = Absent
            /\ ledger'[i] \in Entry
            /\ ledger'[i].state = "open"
            /\ ledger'[i].rem = ledger'[i].qty
            /\ ledger'[i].qty > 0
       ELSE ledger'[i] = ledger[i]
  /\ DOMAIN ledger' = Ids
  /\ UNCHANGED print

Ended(e) == [e EXCEPT !.state = "ended"]

\* Order e after trading q.
Traded(e, q) ==
  [state |-> IF e.rem = q THEN "ended" ELSE e.state, side |-> e.side,
   limit |-> e.limit, qty |-> e.qty, rem |-> e.rem - q]

\* Each limit allows the price, and one of the two set it.
PriceFor(b, s, price) ==
  /\ ledger[b].limit = NoPrice \/ price <= ledger[b].limit
  /\ ledger[s].limit = NoPrice \/ price >= ledger[s].limit
  /\ price \in {ledger[b].limit, ledger[s].limit}

\* A trade, and the orders it makes the exchange withdraw: among them may be
\* what is left of one of the two, when legs of one pair meet.
Trade(b, s, q, price, withdrawn) ==
  /\ ledger[b].side = "BUY" /\ ledger[s].side = "SELL"
  /\ PriceFor(b, s, price)
  /\ q \in 1 .. ledger[b].rem /\ q <= ledger[s].rem
  /\ ledger' = [i \in Ids |->
       LET e == IF i \in {b, s} THEN Traded(ledger[i], q) ELSE ledger[i]
       IN  IF i \in withdrawn THEN Ended(e) ELSE e]
  /\ print' = price

\* Orders are cancelled, rejected or expire.
End(gone) ==
  /\ gone # {}
  /\ ledger' = [i \in Ids |-> IF i \in gone THEN Ended(ledger[i]) ELSE ledger[i]]
  /\ UNCHANGED print

\* Order e with a new limit or size; what is executed stays executed.
Resized(e, limit, qty) ==
  [state |-> e.state, side |-> e.side, limit |-> limit, qty |-> qty,
   rem |-> qty - (e.qty - e.rem)]

\* The owner amends it.
Amend(i) ==
  /\ \E limit \in Prices, qty \in {ledger'[i].qty} :
       /\ qty > ledger[i].qty - ledger[i].rem
       /\ ledger' = [ledger EXCEPT ![i] = Resized(@, limit, qty)]
  /\ UNCHANGED print

Next ==
  \/ \E new \in SUBSET (Ids \ Open) : Accept(new)
  \/ \E b, s \in Open, price \in Prices :
       \E q \in 1 .. ledger[b].rem, withdrawn \in SUBSET Open :
         Trade(b, s, q, price, withdrawn)
  \/ \E gone \in SUBSET Open : End(gone)
  \/ \E i \in Open : Amend(i)

Spec == Init /\ [][Next]_<<ledger, print>>
=============================================================================
