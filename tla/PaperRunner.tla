----------------------------- MODULE PaperRunner -----------------------------
(***************************************************************************)
(* The always-on paper trading loop (execution/runner.py) with its         *)
(* orchestrator, its in-memory broker and its SQLite store.                *)
(*                                                                         *)
(* A cycle fetches prices, asks for intents, trades them one by one and    *)
(* mirrors the broker's positions.  Every write is a transaction of its    *)
(* own: the process may be killed between two of them, and any of them may *)
(* raise.  The store survives the process; the broker, whose order numbers *)
(* start again at one, does not.                                           *)
(***************************************************************************)
EXTENDS Integers, Sequences, FiniteSetsExt

CONSTANTS
  Symbols,      \* the configured symbols, in order
  Intents,      \* orders the signal source may ask for: [symbol, sign]
  Size,         \* quantity of an order
  Partial,      \* may the broker fill an order in parts?
  MaxOrders,    \* bound: orders of one run of the process
  MaxIntents,   \* bound: intents of one cycle
  MaxRuns,      \* bound: starts of the process
  MaxFaults,    \* bound: writes that raise
  None

SymbolSet == {Symbols[i] : i \in DOMAIN Symbols}

ASSUME RunnerAssumption ==
  /\ Symbols \in Seq(SymbolSet)
  /\ Intents \subseteq [symbol : SymbolSet, sign : {-1, 1}] /\ None \notin Intents
  /\ Size \in Nat \ {0} /\ Partial \in BOOLEAN
  /\ MaxOrders \in Nat /\ MaxIntents \in Nat /\ MaxRuns \in Nat /\ MaxFaults \in Nat

VARIABLES
  pc,           \* where the process is
  exit,         \* how the run ended
  stopping,     \* _stop_event
  strikes,      \* _consecutive_failures
  todo,         \* run_once: intents not yet traded
  at,           \* the mirror's place in the symbols
  orders,       \* broker: orders of this run, as [intent, left]
  filled,       \* broker: fills of this run
  ledger,       \* store: the fills table
  blotter,      \* store: the orders table, by the broker's order number
  rows,         \* store: the positions table
  farewells,    \* store: exit codes of this run's shutdown rows
  run,          \* starts of the process
  faults,       \* writes that have raised
  lost,         \* history: fills of this run whose own write raised
  errors,       \* history: passes in a row that ended in cycle_error, up to 3
  blurred       \* history: one of those passes had done its cycle

process == <<pc, exit, stopping, strikes, todo, at>>
broker == <<orders, filled>>
store == <<ledger, blotter, rows, farewells>>
history == <<lost, errors, blurred>>
vars == <<process, broker, store, run, faults, history>>

OrderNumbers == 1..MaxOrders
FillType == [run : 1..MaxRuns, order : OrderNumbers, first : BOOLEAN,
             intent : Intents, amount : 1..Size, left : 0..Size]

TypeOK ==
  /\ pc \in {"down", "tick", "prices", "place", "fill", "order", "jsonl", "mirror",
             "snapshot", "end", "error", "strikes", "rest", "close"}
  /\ exit \in {"running", "clean", "strikes", "raised", "killed"}
  /\ stopping \in BOOLEAN
  /\ strikes \in 0..3
  /\ todo \in Seq(Intents)
  /\ at \in 1..Len(Symbols) + 1
  /\ orders \in Seq([intent : Intents, left : 0..Size])
  /\ filled \subseteq FillType /\ ledger \subseteq FillType /\ lost \subseteq FillType
  /\ blotter \in [OrderNumbers -> Intents \cup {None}]
  /\ DOMAIN rows = SymbolSet
  /\ farewells \in Seq({0, 2})
  /\ run \in 0..MaxRuns
  /\ faults \in 0..MaxFaults
  /\ errors \in 0..3 /\ blurred \in BOOLEAN

Init ==
  /\ pc = "down" /\ exit = "clean" /\ stopping = FALSE /\ strikes = 0
  /\ todo = <<>> /\ at = 1
  /\ orders = <<>> /\ filled = {}
  /\ ledger = {} /\ blotter = [n \in OrderNumbers |-> None]
  /\ rows = [s \in SymbolSet |-> 0] /\ farewells = <<>>
  /\ run = 0 /\ faults = 0
  /\ lost = {} /\ errors = 0 /\ blurred = FALSE

-----------------------------------------------------------------------------
(* Writes and failures *)

Goto(from, to) ==
  /\ pc = from /\ pc' = to
  /\ UNCHANGED <<exit, stopping, strikes, todo, at>>

\* The write of this step raises.
Raises == faults < MaxFaults /\ faults' = faults + 1

Net(fills, s) ==
  MapThenSumSet(LAMBDA f : f.intent.sign * f.amount, {f \in fills : f.intent.symbol = s})

-----------------------------------------------------------------------------
(* One cycle: prices, intents *)

StartCycle ==
  /\ ~stopping
  /\ Goto("tick", "prices")
  /\ UNCHANGED <<broker, store, run, faults, history>>

\* The signal source asks for orders at known prices.
Decide(asked) ==
  /\ pc = "prices"
  /\ Len(orders) + Len(asked) <= MaxOrders
  /\ pc' = "place"
  /\ todo' = asked
  /\ UNCHANGED <<exit, stopping, strikes, at, broker, store, run, faults, history>>

\* Prices or signals raise.
NoPrices ==
  /\ Goto("prices", "error")
  /\ UNCHANGED <<broker, store, run, faults, history>>

-----------------------------------------------------------------------------
(* run_once: one intent after the other *)

\* What a fill may take of a quantity q.
Amounts(q) == IF Partial THEN {a \in 1..q : 2 * a >= q} ELSE {q}

Unfilled == {m \in 1..Len(orders) : orders[m].left > 0}

FillOf(n, first, amount) ==
  [run |-> run, order |-> n, first |-> first, intent |-> orders'[n].intent,
   amount |-> amount, left |-> orders'[n].left]

\* The price update fills older orders further, whatever their symbol; the new
\* order fills at once, in part or whole.
Place(amount, more) ==
  LET n == Len(orders) + 1 IN
  /\ pc = "place" /\ todo # <<>>
  /\ amount \in Amounts(Size)
  /\ \A m \in Unfilled : more[m] \in Amounts(orders[m].left)
  /\ orders' = Append([m \in 1..Len(orders) |->
                         IF m \in Unfilled THEN [orders[m] EXCEPT !.left = @ - more[m]]
                                           ELSE orders[m]],
                      [intent |-> Head(todo), left |-> Size - amount])
  /\ filled' = filled \cup {FillOf(m, FALSE, more[m]) : m \in Unfilled}
                      \cup {FillOf(n, TRUE, amount)}
  /\ pc' = "fill"
  /\ UNCHANGED <<exit, stopping, strikes, todo, at, store, run, faults, history>>

\* Mutant: the fill is looked up by its intent.
ByIntent == CHOOSE f \in filled : f.intent = orders[Len(orders)].intent /\ f.first

\* The fill run_once hands to on_fill: the one of the order just placed.
Current == CHOOSE f \in filled : f.order = Len(orders) /\ f.first

\* on_fill, first transaction: append_fill.
StoreFill ==
  /\ Goto("fill", "order")
  /\ ledger' = ledger \cup {Current}
  /\ UNCHANGED <<broker, blotter, rows, farewells, run, faults, history>>

\* Mutant: the order is stored although its fill was not.
OrderAnyway ==
  /\ Raises
  /\ Goto("fill", "order")
  /\ lost' = lost \cup {Current}
  /\ UNCHANGED <<broker, store, run, errors, blurred>>

\* It raises: run_once logs the exception of on_fill and goes on.
FillNotStored ==
  /\ Raises
  /\ Goto("fill", "jsonl")
  /\ lost' = lost \cup {Current}
  /\ UNCHANGED <<broker, store, run, errors, blurred>>

\* on_fill, second transaction: append_order, INSERT OR IGNORE.
StoreOrder ==
  /\ Goto("order", "jsonl")
  /\ blotter' = [blotter EXCEPT ![Len(orders)] = IF @ = None THEN Current.intent ELSE @]
  /\ UNCHANGED <<broker, ledger, rows, farewells, run, faults, history>>

OrderNotStored ==
  /\ Raises
  /\ Goto("order", "jsonl")
  /\ UNCHANGED <<broker, store, run, history>>

\* The slippage record; the next intent.
AppendSlippage ==
  /\ pc = "jsonl"
  /\ pc' = "place" /\ todo' = Tail(todo)
  /\ UNCHANGED <<exit, stopping, strikes, at, broker, store, run, faults, history>>

\* It raises out of run_once: the rest of the intents is dropped.
SlippageNotStored ==
  /\ Raises
  /\ Goto("jsonl", "error")
  /\ UNCHANGED <<broker, store, run, history>>

-----------------------------------------------------------------------------
(* The mirror, the snapshot and the heartbeat *)

Traded ==
  /\ pc = "place" /\ todo = <<>>
  /\ pc' = "mirror" /\ at' = 1
  /\ UNCHANGED <<exit, stopping, strikes, todo, broker, store, run, faults, history>>

\* Mutant: symbols the broker does not report keep their row.
MirrorHeld ==
  /\ pc = "mirror" /\ at <= Len(Symbols)
  /\ rows' = [rows EXCEPT ![Symbols[at]] = IF Net(filled, Symbols[at]) = 0 THEN @
                                           ELSE Net(filled, Symbols[at])]
  /\ at' = at + 1
  /\ UNCHANGED <<pc, exit, stopping, strikes, todo, broker, ledger, blotter, farewells,
                 run, faults, history>>

\* A symbol's row becomes what the broker holds, zero included.
Mirror ==
  /\ pc = "mirror" /\ at <= Len(Symbols)
  /\ rows' = [rows EXCEPT ![Symbols[at]] = Net(filled, Symbols[at])]
  /\ at' = at + 1
  /\ UNCHANGED <<pc, exit, stopping, strikes, todo, broker, ledger, blotter, farewells,
                 run, faults, history>>

Mirrored ==
  /\ at > Len(Symbols)
  /\ Goto("mirror", "snapshot")
  /\ UNCHANGED <<broker, store, run, faults, history>>

\* snapshot_equity, and the heartbeat when it is due.
Snapshot ==
  /\ Goto("snapshot", "end")
  /\ UNCHANGED <<broker, store, run, faults, history>>

\* A row, the snapshot or the heartbeat raises.
CycleNotStored ==
  /\ Raises
  /\ Goto("mirror", "error") \/ Goto("snapshot", "error")
  /\ UNCHANGED <<broker, store, run, history>>

-----------------------------------------------------------------------------
(* run: the loop around the cycle *)

\* The cycle is done and its audit row written.
CycleEnd ==
  /\ pc = "end" /\ pc' = "rest"
  /\ strikes' = 0
  /\ errors' = 0 /\ blurred' = FALSE
  /\ UNCHANGED <<exit, stopping, todo, at, broker, store, run, faults, lost>>

\* The audit row raises, after the failures were forgotten.
EndNotStored ==
  /\ Raises
  /\ pc = "end" /\ pc' = "error"
  /\ strikes' = 0
  /\ blurred' = TRUE
  /\ UNCHANGED <<exit, stopping, todo, at, broker, store, run, lost, errors>>

CountError == errors' = (IF errors < 3 THEN errors + 1 ELSE errors)

\* Mutant: the run gives up on the fourth failure.
LateStrike ==
  /\ pc = "error"
  /\ strikes' = IF strikes < 3 THEN strikes + 1 ELSE strikes
  /\ pc' = IF strikes >= 3 THEN "strikes" ELSE "rest"
  /\ CountError
  /\ UNCHANGED <<exit, stopping, todo, at, broker, store, run, faults, lost, blurred>>

\* except Exception: count, write cycle_error, give up on the third in a row.
CycleError ==
  /\ pc = "error"
  /\ strikes' = strikes + 1
  /\ pc' = IF strikes' >= 3 THEN "strikes" ELSE "rest"
  /\ CountError
  /\ UNCHANGED <<exit, stopping, todo, at, broker, store, run, faults, lost, blurred>>

\* Writing cycle_error raises, inside the handler: the exception leaves run.
ErrorNotStored ==
  /\ Raises
  /\ pc = "error" /\ pc' = "close"
  /\ strikes' = strikes + 1
  /\ exit' = "raised"
  /\ CountError
  /\ UNCHANGED <<stopping, todo, at, broker, store, run, lost, blurred>>

\* Mutant: the sleep swallows the stop.
Oversleep ==
  /\ pc = "rest" /\ pc' = "tick"
  /\ stopping' = FALSE
  /\ UNCHANGED <<exit, strikes, todo, at, broker, store, run, faults, history>>

\* The check after the pass, then the sleep.
Rest ==
  /\ Goto("rest", IF stopping THEN "close" ELSE "tick")
  /\ UNCHANGED <<broker, store, run, faults, history>>

\* The loop's own check: the stop came during the sleep, or before the loop.
LoopEnds ==
  /\ stopping
  /\ Goto("tick", "close")
  /\ UNCHANGED <<broker, store, run, faults, history>>

-----------------------------------------------------------------------------
(* shutdown: the last audit row, then the store is closed *)

\* The process is gone, and its memory with it.
Die ==
  /\ pc' = "down"
  /\ stopping' = FALSE /\ strikes' = 0 /\ todo' = <<>> /\ at' = 1
  /\ orders' = <<>> /\ filled' = {}
  /\ lost' = {} /\ blurred' = FALSE
  /\ UNCHANGED <<ledger, blotter, rows, run>>

\* With code 2; the second shutdown, in finally, finds the store closed.
StrikesOut ==
  /\ pc = "strikes"
  /\ exit' = "strikes"
  /\ farewells' = Append(farewells, 2)
  /\ Die
  /\ UNCHANGED <<faults, errors>>

\* Its row raises: the shutdown of finally tries again, with code 0.
StrikesNotStored ==
  /\ Raises
  /\ pc = "strikes" /\ pc' = "close"
  /\ exit' = "raised"
  /\ UNCHANGED <<stopping, strikes, todo, at, broker, store, run, history>>

\* finally: shutdown with code 0.
Close ==
  /\ pc = "close"
  /\ exit' = IF exit = "running" THEN "clean" ELSE exit
  /\ farewells' = Append(farewells, 0)
  /\ Die
  /\ UNCHANGED <<faults, errors>>

CloseNotStored ==
  /\ Raises
  /\ pc = "close"
  /\ exit' = "raised"
  /\ Die
  /\ UNCHANGED <<farewells, errors>>

-----------------------------------------------------------------------------
(* Everyone else *)

\* setup and run_start: the supervisor starts the process, with a new broker.
Start ==
  /\ pc = "down" /\ run < MaxRuns
  /\ run' = run + 1
  /\ pc' = "tick" /\ exit' = "running"
  /\ farewells' = <<>> /\ errors' = 0
  /\ UNCHANGED <<stopping, strikes, todo, at, broker, ledger, blotter, rows, faults,
                 lost, blurred>>

\* request_stop, by SIGTERM or SIGINT.
RequestStop ==
  /\ pc # "down" /\ ~stopping
  /\ stopping' = TRUE
  /\ UNCHANGED <<pc, exit, strikes, todo, at, broker, store, run, faults, history>>

\* The process is killed; what was committed stays.
Kill ==
  /\ pc # "down"
  /\ exit' = "killed"
  /\ Die
  /\ UNCHANGED <<farewells, faults, errors>>

Step ==
  \/ StartCycle \/ NoPrices
  \/ \E n \in 0..MaxIntents : \E asked \in [1..n -> Intents] : Decide(asked)
  \/ \E amount \in 1..Size : \E more \in [Unfilled -> 1..Size] : Place(amount, more)
  \/ StoreFill \/ FillNotStored \/ StoreOrder \/ OrderNotStored
  \/ AppendSlippage \/ SlippageNotStored
  \/ Traded \/ Mirror \/ Mirrored \/ Snapshot \/ CycleNotStored
  \/ CycleEnd \/ EndNotStored \/ CycleError \/ ErrorNotStored \/ Rest \/ LoopEnds
  \/ StrikesOut \/ StrikesNotStored \/ Close \/ CloseNotStored

Next == Step \/ Start \/ RequestStop \/ Kill

Spec == Init /\ [][Next]_vars

\* The event loop runs the process on.
FairSpec == Spec /\ WF_vars(Step)

-----------------------------------------------------------------------------
(* Properties *)

\* After a cycle that ended without error the positions table is what the
\* broker holds, stale rows of an earlier run or of a failed cycle included
\* (runner.py:724-742).
RowsMirrorBroker ==
  pc = "rest" /\ strikes = 0 => \A s \in SymbolSet : rows[s] = Net(filled, s)

\* When no cycle is under way, the fills table has the fill of every order this
\* run placed, but those whose own write raised: not even the cycle that failed
\* half-way lost one (runner.py:642-681, paper_orchestrator.py:174-215).
FillsAccounted ==
  pc \in {"tick", "rest"} =>
    {f \in ledger : f.run = run} = {f \in filled : f.first} \ lost

\* An order is in the blotter only with the fill it is filled by, wherever the
\* process was killed and whichever write raised (runner.py:655-679).
OrdersHaveFills ==
  \A n \in OrderNumbers : blotter[n] # None =>
    \E f \in ledger : f.order = n /\ f.intent = blotter[n]

\* The run gives up with code 2 on its third failure in a row and not before;
\* no cycle starts after the third, unless a cycle was done and only its audit
\* row failed; and the run leaves one shutdown row at most, which has the code
\* it returned with (runner.py:533-554, 580-626).
ThreeStrikes ==
  /\ exit = "strikes" => errors = 3 /\ farewells = <<2>>
  /\ pc \in {"tick", "prices"} /\ ~blurred => errors < 3
  /\ exit = "clean" /\ run > 0 => farewells = <<0>>
  /\ Len(farewells) <= 1

\* A stop that was requested ends the run (runner.py:556-558, 581, 621).
StopIsHonoured == stopping ~> pc = "down"

\* The comment at append_order: the blotter is complete (runner.py:668).
BlotterComplete ==
  pc = "rest" /\ faults = 0 =>
    \A f \in ledger : f.run = run => blotter[f.order] = f.intent

\* The store has every broker-reported fill (store.py:7).
EveryFillStored == pc = "rest" /\ faults = 0 => filled \subseteq ledger

\* A single bad tick does not take the runner down (runner.py:563).
SingleFailureSurvives == exit = "raised" => errors # 1

\* Three failures in a row end the run (runner.py:564).
ThirdFailureEnds == pc = "tick" => errors < 3
=============================================================================
