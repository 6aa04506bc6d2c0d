------------------------------- MODULE Recovery -------------------------------
(***************************************************************************)
(* Persistence and restart (engine/persistence.py, _flush_persistence and  *)
(* _restore_gtc), with the combos as what is saved: resting orders go into *)
(* one file and live combos into another, one after the other, each file   *)
(* replaced atomically.  The engine may crash between any two steps, in    *)
(* particular between the files, in the middle of a handler, and while it  *)
(* is starting.                                                            *)
(***************************************************************************)
EXTENDS Combos

CONSTANT MaxRuns     \* bound: starts of the engine

ASSUME RecoveryAssumption == MaxRuns \in Nat \ {0}

VARIABLES
  orders,   \* GTC_ORDERS_FILE: what is left of every saved order, 0 if not saved
  combos,   \* GTC_COMBOS_FILE
  runFile,  \* RUN_SEQ_FILE
  run,      \* current_run_seq
  served,   \* the run numbers that trade ids may carry already
  stale     \* the DAY combos that the files may hold from a business day that is over

disk  == <<orders, combos, runFile>>
clock == <<run, served, stale>>
rvars == <<cvars, disk, clock>>

-----------------------------------------------------------------------------
(***************************************************************************)
(* _flush_persistence, also the end of a clean shutdown.                   *)
(***************************************************************************)
SavedOrders == [i \in Ids |-> IF mem.child[i].works THEN mem.child[i].rem ELSE 0]
SavedCombos ==
  [c \in Combos |-> IF mem.parent[c].status \in Live THEN mem.parent[c] ELSE NoParent]

\* The file written first, and then the other.
CombosFirst == combos' = SavedCombos /\ UNCHANGED orders     \* mutant: the combos are saved first
FirstFile   == orders' = SavedOrders /\ UNCHANGED combos
SecondFile  == orders' = SavedOrders /\ combos' = SavedCombos

SaveFirst ==
  /\ Idle /\ pc' = "saved" /\ runFile < MaxRuns
  /\ FirstFile
  /\ NotPosting /\ UNCHANGED <<mem, history, runFile, clock>>

SaveSecond ==
  /\ pc = "saved" /\ pc' = "idle"
  /\ SecondFile
  /\ stale' = {}
  /\ NotPosting /\ UNCHANGED <<mem, history, runFile, run, served>>

\* The second write raises: the engine goes on over files of two ages.
SaveRaises ==
  /\ pc = "saved" /\ pc' = "idle"
  /\ NotPosting /\ UNCHANGED <<mem, history, disk, clock>>

-----------------------------------------------------------------------------
(***************************************************************************)
(* The end of a run, at any point, and the start of the next (run,         *)
(* load_and_bump_run_seq, _restore_gtc).                                   *)
(***************************************************************************)
Crash ==
  /\ pc # "down" /\ runFile < MaxRuns
  /\ pc' = "down" /\ mem' = Blank /\ EndPosting /\ excused' = {}
  /\ UNCHANGED <<filled, used, disk, clock>>

\* The engine is down over the end of a business day.  A day that ends while
\* it runs makes no difference before the next start.
DayEnds ==
  /\ pc = "down" /\ stale # used \cap DayCombos
  /\ stale' = used \cap DayCombos
  /\ NotPosting /\ UNCHANGED <<mem, pc, history, disk, run, served>>

\* The number is on disk before anything carries it.
BumpRun ==
  /\ pc = "down" /\ pc' = "restore"
  /\ runFile' = runFile + 1 /\ run' = runFile'
  /\ served' = served \cup {run'}
  /\ NotPosting /\ UNCHANGED <<mem, history, orders, combos, stale>>

\* The saved orders rest again as NEW, except those of a day that is over.
RestoreOrders ==
  LET back == {i \in Ids : orders[i] > 0 /\ i[1] \notin stale}
  IN  /\ pc = "restore" /\ pc' = "uncross"
      /\ mem' = [Blank EXCEPT
           !.child  = [i \in Ids |-> IF i \in back THEN Resting(orders[i]) ELSE NoChild],
           !.routed = back]
      /\ NotPosting /\ UNCHANGED <<history, disk, clock>>

\* Without sessions the restored books are uncrossed at once (reason RECOVERY),
\* before any combo is known.
UncrossLeg(i) ==
  /\ pc = "uncross"
  /\ \E ch \in Traded(mem.child[i].rem) \cup Pulled(mem.child[i].rem) :
       /\ mem' = Dispatched(Left(mem, i, ch), i)
       /\ Publish(i, ch)
       /\ excused' = IF ch.status \in Lost THEN excused \cup {i} ELSE excused
  /\ NotPosting /\ UNCHANGED <<pc, used, disk, clock>>

\* The combos come back as saved, with links to every child they ever posted.
LoadCombos ==
  LET known(c) == IF c \in stale THEN NoParent ELSE combos[c]
  IN  /\ pc = "uncross" /\ pc' = "idle"
      /\ mem' = [mem EXCEPT !.parent = [c \in Combos |-> known(c)],
                            !.linked = {i \in Ids : known(i[1]).seen[i[2]] # "none"}]
      /\ NotPosting /\ UNCHANGED <<history, disk, clock>>

-----------------------------------------------------------------------------
RInit ==
  /\ CInit
  /\ orders = [i \in Ids |-> 0] /\ combos = [c \in Combos |-> NoParent]
  /\ runFile = 1 /\ run = 1 /\ served = {1} /\ stale = {}

RNext ==
  \/ CNext /\ UNCHANGED <<disk, clock>>
  \/ SaveFirst \/ SaveSecond \/ SaveRaises
  \/ Crash \/ DayEnds \/ BumpRun \/ RestoreOrders \/ LoadCombos
  \/ \E i \in Working(mem) : UncrossLeg(i)

RSpec == RInit /\ [][RNext]_rvars

-----------------------------------------------------------------------------
\* Every variable keeps its type, every working order can be reached by its id,
\* and the files hold only what a start can read back.
RTypeOK ==
  /\ CTypeOK
  /\ orders \in [Ids -> Nat]
  /\ combos \in [Combos -> Parent]
  /\ \A c \in Combos : combos[c] = NoParent \/ combos[c].status \in Live
  /\ runFile \in 1 .. MaxRuns /\ run \in 1 .. runFile
  /\ served \subseteq 1 .. runFile /\ stale \subseteq used \cap DayCombos

\* A run number is never served twice, wherever the engine was stopped: no
\* trade id is issued again.
FreshRun == run' # run => run' \notin served
RunsAreFresh == [][FreshRun]_rvars
=============================================================================
