------------------------------ MODULE MCRecovery ------------------------------
(***************************************************************************)
(* An instance of Recovery: one combo of the day and one good till          *)
(* cancelled, of two gateways, each of two legs; one leg has two shares.   *)
(***************************************************************************)
EXTENDS Recovery

TwoCombos == {"day", "gtc"}
OneDay    == {"day"}
TwoGateways == {"A", "B"}
OneOfTwo  == [i \in TwoCombos \X {1, 2} |-> IF i = <<"day", 1>> THEN 2 ELSE 1]
OneEach == [c \in TwoCombos |-> IF c = "day" THEN "A" ELSE "B"]
==============================================================================
