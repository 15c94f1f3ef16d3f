# A verification project for Oracle's order path

Oracle is a Python platform for systematic trading: research agents and
backtests on one side, and an *order path* on the other that turns a decision
into orders, fills, positions and a ledger under the limits of a prop-firm
program. This directory holds TLA+ models of the order path, the TLC
configurations that check them on small instances, and TLAPS proofs of the
results that matter most, for every size of the constants. Paths below are
relative to the repository's root; `manager.py:103` is a line of it.

    tlasany PaperBroker.tla                               # parse
    tlc -workers 2 -config PaperBroker.cfg MCPaperBroker.tla
    tlapm OrderIntakeProofs.tla                           # check the proofs

## 1. The system

### 1.1 The order path

| Component | State it keeps | Operations | Talks to |
|---|---|---|---|
| Order intake, `core/oms.py:131-181`, `core/oms_idempotency.py` | `_orders`, `_idempotency` in memory; a SQLite table client_order_id -> order_id | `create_order`; `get`, `put` of the table | its caller, which submits to the broker whatever order it is handed (`execution.py:661`), except an order the risk gate refused; other processes through the table |
| Fills and in-memory ledger, `core/oms.py:183-311`, `core/ledger.py` | `_fills`, `_broker_fill_index`, `_outbox`; `_accounts`, `_entries` | `update_order`, `record_fill`, `mark_published`; `create_account`, `record_fill` of the ledger | the broker redelivers fills; callers keep the `Order` records they were handed |
| Durable OMS and ledger, `core/oms_postgres.py`, `core/ledger_postgres.py` | tables `oms_orders`, `oms_fills`, `accounts`, `ledger_entries`; a balance cache per process | `submit_order`, `record_fill`, `create_account` | one auto-committed statement at a time on a shared database |
| Paper broker, `execution/brokers/paper.py` | `_orders`, `_fills`, `_bracket_children`, `_current_price`, `_session_date` | `submit_order`, `cancel_order`, `amend_order`, `on_price_update`, `flatten_all`, `rollover` | the price feed; callbacks on fills |
| Order manager, `execution/order_manager/manager.py`, `inventory.py` | `_orders`, `_seen_requests`, `_seen_fills`; net positions | `submit`, `reconcile`, `cancel`, `open_orders`, `kill_all`, `on_fill` | awaits the risk gate and a broker; is called back by the broker |
| Risk governor, `policy/prop_firm/governor.py`, `order_risk.py` | balance, equity, day start, peak, trading days, status | `check_order`, `update`, `evaluate`, `record_trade`, `rollover`, `challenge_outcome` | the trading loop (`analytics/qualification/execution.py:320-660`) that opens, closes and observes |
| Session guards, `execution/session_guards.py` | circuit state, failure count, time of opening; last tick; last alerts | `call`, `is_available`, `reset` of the circuit; the stale-feed detector and the alert bus | an external signal provider that each call awaits |
| Paper runner and store, `execution/runner.py`, `paper_orchestrator.py`, `store.py` | failures in a row, the stop event; SQLite tables of orders, fills, positions, audit events | `setup`, `run`, the cycle, `run_once` with its fill callback, the mirror of positions, `request_stop`, `shutdown` | prices and signals; a paper broker in its own memory; the store, which survives a restart when the broker does not |
| Reconciliation, `core/reconciliation.py`, `reconciliation_worker.py` | a latch that blocks orders, the last report; the worker's task and stop event | `reconcile`, `unblock`; `start`, `stop`, `run_once`, the loop | reads broker, OMS and ledger one after the other |
| Kill switch, `core/kill.py` | nothing but the broker's | `flatten_all`: cancel all, read positions, close each, read again | the broker's adapter |
| Recovery, `core/recovery.py` | nothing | builds a report from the durable tables | - |

### 1.2 The rest

Market data ingestion and store (`market/`), alerting, the event bus and plugin
registry (`core/events`, `core/plugin`), the agents and their graph, the
genetic search, the analytics and backtests, the live broker adapters, the
API, CLI and dashboard, and deployment. `PROJECT.json` lists each with its
files and the reason it is not modelled: most are numerical computation,
vendor I/O or presentation; those with a protocol of their own are in the plan.

### 1.3 What is hard about it

*Interleaving.* The order manager, paper broker, durable OMS and reconciliation
are coroutines: every `await` lets others run, and much is read before an await
and used after it. Several processes (services, CLIs) share one SQLite table or
one database. *Crashes.* Memory is written before the durable row; a call to the
durable OMS is up to five separately committed statements. *Unreliable
delivery.* Brokers redeliver, reorder and overfill; a call may raise after the
broker acted on it. *Partial failure.* Methods that raise have already stored
part of their effect. *Boundaries.* The last lot of an order, the rounding of a
partial fill, equality of a projected loss with a limit. *Long legal sequences.*
Days of a challenge with pauses, rollovers and trailing floors.

`PROJECT.json` lists the hazards one by one, each at its line with the
properties that would catch it.

### 1.4 What makes each part correct

- Intake: one durable name per client_order_id, through retries, crashes, other
  processes and failing writes; every reply gives it and every order sent bears
  it. That an order is sent once is no property of this code: its caller sends
  whatever it is handed, a retry included.
- Fills: a fill counts once, in order, outbox and ledger alike; never beyond the
  quantity; a balance that its fills explain and that is never negative.
- Durable OMS: the same, with another process or a crash between any two
  statements.
- Paper broker: lots are conserved; finished orders stay finished; one leg of a
  bracket trades; flatten leaves nothing.
- Order manager: one order per request; manager, broker and position agree;
  a late answer does not overwrite news; kill_all passes over no order it knows.
- Governor: what the gate admits cannot fail the challenge; floors do not fall;
  a failure is final.
- Circuit: it trips when it should, leaves a failing provider alone, and comes
  back by itself.
- Paper runner: what the store says of a run is what the broker did, wherever the
  process is killed; one failure is survived, three in a row end the run.
- Reconciliation: a lasting mismatch blocks orders; a late report within the
  tolerance does not; one loop.
- Kill switch: a reported success is flat; a kill closes and never opens.

Several of these hold in part of the situations the code can be in. Section 3.1
lists where they fail, with a counterexample for each.

## 2. The models

`A == code` below reads "A models code". `PROJECT.json`'s `map` gives the lines of
every definition.

### OrderIntake, DurableNaming

A process starts, makes calls and dies (`Start`, `Crash`); only `store`, the
idempotency table, survives. `create_order` is synchronous, but other processes
and crashes come between its database calls, so it is cut there:
`CreateOrder` (the fast path), `StoreGet` (the SELECT), then `StorePut` or
`StorePutFails` (memory is written first, then the row: an exception leaves
memory written). A call brings a fresh `order_id`, as `uuid4` does. `Send` is the
caller (`analytics/qualification/execution.py:645-661`): it submits the order it
was handed, its own, a known one or the stub of a row, without comparing. Orders
of `Refused` client ids stand for those the risk gate refused
(`execution.py:549-565`), which are created and never sent. Any number of
processes may be alive at once.

Histories: `told` (replies), `sent` (how often the broker received an order),
`faulted` (client ids for which a write raised), `contested` (client ids whose row
one process wrote while another was past its lookup of the same id). The last two
together are `Spoilt`: for those ids the table no longer decides, and nothing is
promised. `DurableNaming` is the abstract specification: a client id gets one
name, answers give it, and only what was answered is submitted, under that name;
`ImplementsPromise` reads the table as the name. It does not say how often
an order is submitted, because `create_order` cannot: `AtMostOnce`, what
`oms.py:3` and the comment at `oms.py:162` say of retries, is violated by a plain
retry (section 3.1). The `InMemoryIdempotencyStore` is a second cache that dies
with the process and adds no behaviour.

### OrderFills

One process; each method is synchronous and is one action. `RecordFill` splits
by what the code decides: `RecordDuplicate`, `RecordOrphan` (the order is not
known yet: the fill is kept and never applied), `RecordOverfill` (raises after
storing) and `RecordCounted`, which writes order and outbox first and then calls
the ledger, which may refuse (`LedgerRefuses`) after it has appended its entries.
`UpdateOrder` replaces the record by a caller's: with `StaleUpdates` any record
a caller was ever handed, by `create_order`, `record_fill` or `get_order`. A fill without a `broker_fill_id` is outside
`Identified` and is never taken for a duplicate.

### PostgresOMS

One action per statement: `SubmitOrder`/`CheckKey`/`InsertOrder` and
`RecordFill`/`ReadOrder`/`InsertFill`/`UpdateOrder`/`LedgerUpdate`/`InsertEntry`/
`UpdateBalance`. The locals a call carries between statements (the filled
quantity it computed, the balance it computed) are in `task`. `cache` is the
ledger's per-process dictionary, loaded at `Start`. `Exit` ends a process
anywhere, also inside a call. The history `disturbed` becomes true when a call
begins while another is under way, when a process starts beside another, or when
one dies inside a call: the properties that need calls to follow each other say
so with it. There is no transaction in the code, hence none in the model.

### PaperBroker

Orders are a sequence, whose index is the counter in `paper_<n>`. Handlers are
one step each, but for the loop of `on_price_update` (`PriceUpdate`, then one
`Visit` per order that was present when it began, with nothing else in between)
and `flatten_all` (`StartFlatten` reads the positions, `SubmitClose` submits one
close, `FinishFlatten`), which lets others in exactly when a latency is
configured. `Fill` is `_fill` whole: partial quantity, bracket legs, linkage,
cancellation of siblings. `setup` is the broker's configuration and the requests
of its clients, drawn at `Init` from `Setups`, so that one run covers several.
`SetupAssumption` is all the model asks of them: positive quantities of known
symbols, prices that may be absent (`NoPrice`), amendments of a price or of what
is left. `NewOrder` is the record `submit_order` and `_spawn_bracket` put on the book.
Quantities are whole lots, which is what the producers send
(`lane_b_adapter.py:94`, `execution.py:190`); for a fraction of a lot
`paper.py:430-437` may fill more than is left (1.6 rounds to 2), which the model
does not have. Slippage, spread and commission only change prices of fills and are
left out; so are the daily counters, `snapshot`/`restore`, a `parent_order_id` that a
client sets itself, and amendments of attributes other than price and quantity.

### OrderManager

A task is a coroutine; its state is the place of the await it is suspended in
and its locals. `Submit`, `RiskRefuses`/`RiskAccepts`, `BrokerAccepts`,
`Submitted`/`SubmitRaises` are `submit` from await to await. `Reconcile`,
`GetFills`, `ApplyFill` (the loop, which does not yield: `running`) and
`ReconcileEnds` are `reconcile`. `kill_all` starts with a reconciliation and then
iterates over `_orders`; a submit between two of its awaits makes the iteration
raise (`KillContinues`). `OnFill` is the callback; every fill of the model is of an
order the manager knows, so the branch that marks the fill of an unknown order as
seen (`manager.py:201-205`) is never taken. The venue is external: it accepts and
fills; with `Timeouts` its answer may be lost after it acted, with `Overfill` it may
fill too much. `open_orders` is a reconciliation followed by a read and adds no
step.

`cancel_order` is what the adapters under `execution/brokers` make of it
(`Answers`). `Adapters` names those a call may meet; each call may meet any of
them, which is more than one deployment does.

- `paper` cancels what works and refuses the rest.
- `ccxt` answers no to any exception (`ccxt_broker.py:60-66`), so after a no the
  order may work, or be cancelled. A call that does not raise is taken to have
  cancelled.
- `ibkr` passes the request on and answers yes, of an order long filled too
  (`ibkr.py:66-71`); it answers no only before it was ever connected.
- `mt5` closes the position of a filled order instead (`metatrader.py:373-412`) and may
  answer either way. The closing deal is outside the model: it is no fill of any
  order of the manager.

The history `doubtful` has the working orders whose cancellation an adapter
answered, yes or no, without carrying it out; `CancelLands` is the venue carrying it
out later. `KilledAreClosed` says nothing of orders in `doubtful`.

### RiskGovernor

The governor's copies (`bal`, `eq`, day start, peak) and the account (`cash`,
`equity`, `pos`). `Open` is the gate (`check_order` on `check_new_order`) followed
by a filled order with a stop, `Move` the market, `CloseTrade` a close at the stop or
better with `record_trade`, `Observe` is `update` then `evaluate`, `Rollover` and
`Outcome` the methods of the same names. Money is in units, percentages are
compared a hundredfold in integers. The programs are records drawn at `Init`, so
a run covers several. The history `careless` becomes true when an order or a
rollover is made on numbers the governor was not told of last, or a position
lives through midnight; `rolled` counts rollovers.

### SignalCircuit

`Begin` is `call` up to the await, with the look at `state` that turns an open
circuit half-open; `Succeed`, `Fail` and `Cancel` are how the awaited provider
ends (`CancelledError` is no `Exception`, so a cancelled probe records nothing).
Calls overlap, and one that began under one state may end under another. `Look`
is a caller of `is_available`. The clock is the age of `_opened_at` in ticks, up to
the recovery timeout; the history `quiet` is the time since any failure.

### PaperRunner

One process over one store. `pc` is the transaction or the await it is about to
make: prices, intents, then per intent `Place` (the price update and the order),
`StoreFill`, `StoreOrder`, `AppendSlippage`; `Mirror` row by row; `Snapshot`;
`CycleEnd`. Each write has a second action in which it raises, with the handler
that catches it: the exception of `on_fill` is swallowed in `run_once`, that of the
slippage file ends the cycle, that of the audit row of a failed cycle leaves
`run`. `Kill` may come anywhere; `Start` begins with an empty broker whose order
numbers start at one. Fills of a run are in `filled`, with the `first` mark on the
one `run_once` sees. Histories: `lost`, `errors`, `blurred`.

### BrokerAccount, Reconciliation, KillSwitch, Supervision

`BrokerAccount` is the account and the books kept of it: orders are submitted,
acknowledged, executed and reported (or the report is lost), fees are taken and
posted, the broker goes out of reach. Each instrument is one position, as on a
netting account. `Adapters` names the adapters a call may meet, as above:

| | `paper` | `mt5` | `ccxt` | `ibkr` |
|---|---|---|---|---|
| `cancel_all_orders` | cancels | not there | not there | not there |
| out of reach, `positions` | never is | raises | gives an empty list (`ccxt_broker.py:84`) | gives an empty list (`ibkr.py:91`) |
| a position is | typed | typed | a dict whose symbol and size go by other names | a tuple, on which `get` is an error |

Only the in-memory paper broker does everything the kill switch asks of an
adapter; no live adapter does. What is checked and proved of a kill is for
`paper` and `mt5`, whose positions it can read, and there for kills nobody traded
beside (`crossed`): on mt5, which has no `cancel_all_orders`, a kill that finds an order
or an earlier kill's close open counts as crossed. Behind ccxt and ibkr a kill reports
success beside open positions (section 3.1).

`Reconciliation` extends it: a pass asks for positions, orders and cash;
`Answer` is the moment the broker is as it says, `ComparePositions`,
`CompareOrders` and `Conclude` are when the pass resumes and reads the books. The
worker's loop (`Turn`, `Ingest`, `CalledBack`), `Start` and the four steps of
`Stop` follow `reconciliation_worker.py` from await to await. Histories:
`unsettled` (what changed between answer and look), `crowded`, `stray`,
`overlapped`.

`KillSwitch` extends the account too: `CancelAll`, `ReadPositions`, `SubmitClose`,
`Verify`, each with the exception it lets out; closes execute when the broker
likes (`ExecuteClose`), or are refused. Each element of `Kills` is one call; the
retry of a kill is another element. `crossed` holds the kills somebody traded beside
or since, and those that left something open beside them.

`Supervision` composes the three: reconciliation watches an account that orders
and kills change.

## 3. The runs

| Run | States | What it asks |
|---|---|---|
| `intake` | 22 thousand | Replies that stay the same, sends that bear the durable name, and the abstract promise, with three processes that overlap, crash and retry, failing writes and orders that are never sent |
| `fills` | 311 thousand | Counting once, exact sums, events and balances under redelivery, reordering, early fills, overfills and stale callers |
| `broker` | 243 thousand | OCO, flattening and finality where orders fill whole; conservation of lots and completion of remainders where they fill in parts and the broker yields |
| `manager_fills` | 2.9 million | Manager, broker and position agree with interleaved calls, timeouts and overfills; `kill_all` passes over no order it knows, behind any of the four adapters |
| `manager_serial` | 80 thousand | One order per request and no late answer over a fill, without timeouts and behind paper and ccxt; reconciliation sees every fill |
| `governor` | 8.7 million | What the gate admits cannot fail the challenge; floors only ratchet, and only when they should |
| `postgres` | 952 thousand | Stable replies and backed quantities under races and crashes; exact quantities and balances until calls overlap |
| `circuit` | 636 | The circuit trips in step, leaves a failing provider alone, and recovers, with three overlapping calls |
| `runner` | 1.4 million | The store mirrors the broker's positions and accounts for the first fill of each order; three failures end the run, a stop ends it; with kills, restarts and a failing write |
| `worker` | 185 thousand | One loop; a lasting mismatch blocks orders, again after every unblock |
| `supervision` | 1.8 million | A block has a reason, with fills either side of the tolerance; a kill that reports success is flat and a kill only closes, behind paper and mt5, its retry included |
| `runner_blotter` | - | Violated: the blotter is complete, after a restart |

### 3.1 Disagreements between code and documentation

`runner_blotter` is a finding, listed with both lines in `PROJECT.json`.
`store.py:5` says the orders table holds every submitted order, and `runner.py:668`
says the blotter is complete. An order's row is named after the broker's number,
which the in-memory broker counts from one in every process, and is written with
INSERT OR IGNORE: after a restart the rows of new orders whose number the last run
used are dropped, and their fills point at the old orders.

Further counterexamples, each from a configuration of the same modules that is
not among the runs. `tlc -config <cfg> <MC module>` shows the trace; where a
configuration lists several properties TLC stops at the first it finds violated,
and the next shows when that one is taken out of the file.

| Configuration | Property violated | What happens |
|---|---|---|
| `OrderIntake_retry.cfg` | `AtMostOnce` | `oms.py:3-5` and `oms.py:162-164` want no second submission; a retry is handed the order the first call made and submits it again (`execution.py:661`), in the same process and after a restart |
| `OrderIntake_overlap.cfg` | `StableAfterFaults` | Two live processes both miss in the table, both insert (the second insert is ignored and its outcome not looked at), and each answers with its own order (`oms.py:152-168`) |
| `OrderIntake_reply.cfg` | `StableAfterFaults` | After a write that raised, this process answers a retry with the order it kept, the next process with another |
| `OrderFills_promises.cfg` | `RefusedStaysRefused` | A fill refused as an overfill was stored first; redelivered, it is acknowledged as a duplicate (`oms.py:231`) |
| | `EntriesExplainBalance` | Entries are appended before the balance check raises (`ledger.py:191`) |
| | `NoBackwardStatus` | A caller's old copy turns a filled order into a submitted one (`oms.py:189`) |
| `PaperBroker_ocopartial.cfg` | `LegsExclude` | `paper.py:11` says legs are OCO; every partial fill of an entry spawns another pair for the whole remainder and replaces the linkage of the last (`paper.py:444`) |
| `PaperBroker_doubleclose.cfg` | `CloseNeverReverses` | Two flattens with latency close one position twice (`paper.py:202`) |
| `OrderManager_retry.cfg` | `OneOrderPerRequest` | `manager.py:46` promises one order on timeout; a call that raises is not remembered, whether or not the broker took the order |
| `OrderManager_promises.cfg` | `KillAllCancelsAll` | `kill_all` passes over an order whose broker id has not come back (`manager.py:190`); and an adapter says no to a cancellation that raised (`ccxt_broker.py:65`), or yes to one it only passed on (`ibkr.py:70`), and the order works on |
| | `FilledMeansFilled` | `cancel` does not ask whether the order is open (`manager.py:166`): behind an adapter that says yes of a filled order (`ibkr.py:70`; `metatrader.py:373` after closing its position) `cancelled` is written over `filled` |
| `RiskGovernor_two.cfg` | `GateHolds` | Two positions are each admitted against the whole budget (`governor.py:431`) |
| | `FailedIsFinal` | `governor.py:79` says hard breaches end the challenge; `evaluate` overwrites a failed status with `paused`, and `rollover` resumes it |
| `RiskGovernor_closed.cfg` | `GateHoldsForAll` | For a percentage on closed profits, limit and floor use different bases (`governor.py:334`) |
| `PostgresOMS_promises.cfg` | `FillsAreIdempotent` | A fill id recorded twice is one row and counted twice (`oms_postgres.py:218`) |
| | `BalanceKept` | Calls interleave, the older balance is written last (`ledger_postgres.py:252`) |
| | `NoOverfill` | The durable OMS has no overfill guard (`oms_postgres.py:195`) |
| `SignalCircuit_probe.cfg` | `OneProbe` | `session_guards.py:45` says one call is allowed through; all that overlap are (`session_guards.py:94`) |
| `PaperRunner_remainder.cfg` | `EveryFillStored` | What later prices fill of an earlier remainder is not stored (`paper_orchestrator.py:192`) |
| `PaperRunner_faults.cfg` | `SingleFailureSurvives` | An audit row that raises inside the handler of a failed cycle leaves `run` (`runner.py:597`) |
| | `ThirdFailureEnds` | Failures are forgotten before the cycle's audit row is written: when that raises in every pass, no third failure is ever counted |
| `Supervision_promises.cfg` | `NoFalseBlock` | A fill of more than the tolerance that comes between the broker's answer and the look at the books blocks orders (`reconciliation.py:136`) |
| | `StoppedIsStopped` | A start during a stop leaves a loop that nobody can stop (`reconciliation_worker.py:83`) |
| | `DivergenceIsSeen` | A position the OMS has and the broker has not is never compared |
| `Supervision_adapters.cfg` | `KillLeavesFlat` | Behind ccxt (dicts under other names, an empty list for an exception, `ccxt_broker.py:84`) or ibkr (an empty list without a connection, `ibkr.py:91`) a kill reports success beside open positions |

### 3.2 Bounds, and why they are enough

- Intake: two client ids of which the risk gate refuses one, four order ids (hence
  four calls), three processes that may each restart any number of times and be
  alive together: two that contend for one id and one that retries it later. The
  theorems remove the bound. Processes and order ids are symmetric; the run
  checks invariants and a refinement without fairness. How often an order is sent
  is not bounded but by the calls there are.
- Fills: an entry of four lots and an exit of two, three fills, `MaxEvents` = 4 events,
  which leaves two fills after both creations; an identified fill of one lot can
  be delivered until it would overfill, and the opening balance of 4 pays the
  entry only after the exit.
- Broker: prices 1 to 3 around a start of 2 trigger stop, take-profit and limit;
  two submissions; with brackets they make up to six orders; one rollover
  (`MaxSession` = 2). A partial fill takes from half, rounded up, to all of the
  lots: for the quantities used the code's draw between 50 and 99 per cent
  rounds to just these. A client may move a stop to the take-profit's price of 3, so
  that one price reaches both legs of a bracket at once.
- Manager: two tasks, two requests, two orders and two fills of one or two lots:
  submit of one request against submit of another, callback against
  reconciliation, kill against submit. No configuration submits one request twice
  at a time (`Concurrent` is FALSE in all; a second order is then what the code
  does, `manager.py:51`); the proofs other than `RequestsOrderOnce` cover both.
  Tasks and orders are symmetric in `manager_fills`, which checks invariants only.
- Governor: an initial balance of 20, results of -3, -1 and 4, a balance of at most
  `MaxMoney` = 24 (the floor of the `Locking` program locks at a peak of 23), two
  rollovers: three days, enough to pause, resume and fail.
- Postgres: two processes and three starts, three requests of which two share a
  client id, two fills each recorded up to twice, an opening balance that the
  third debit overdraws.
- Circuit: three calls are one more than a probe and a late call; three failures
  trip it, and a timeout of two ticks tells a clock that was restarted from one
  that was not. Ages beyond the timeout are all the same to the code.
- Runner: two orders of two lots that may fill in parts, hence a remainder that a
  later price fills; two intents a cycle; two starts, so that one store sees two
  numberings; one write that raises anywhere.
- Worker: two tasks, so that a start can overtake a stop; an order of two lots
  and one of one, either side of the tolerance of one.
- Supervision: an order that buys two lots and one that sells one, either side of
  the tolerance of one, so that a single late fill may block or must not; fees of
  up to three; one pass, a kill and its retry. The state constraint `PairsMeet`
  keeps the run to behaviours in which any two of the kill, its retry, the pass and
  fees meet, and not three. A pass reads neither `kill` nor `closing`, and a kill
  reads nothing of a pass, the books or the cash; they meet only in `held`, which the
  orders move as well. The theorems have every interleaving.

Where ids, starts, deliveries, submissions or days run out, a behaviour may stop:
those runs do not check deadlock. The circuit has no such bound, and its run does.

### 3.3 Fairness

- Broker: weak fairness on `Visit`, a `for` loop, and on the feed delivering some
  price (which, is free). That feed is the assumption of `RemainderIsFilled`.
- Manager: weak fairness on each task's next step: the event loop resumes ready
  coroutines, and every broker call in flight is answered.
- Circuit: time passes, callers keep calling, a call under way while the provider
  is down fails, and a provider that is up answers some call at last (strong
  fairness per call, for calls may be cancelled again and again). `Recovers` needs
  no operator: `Reset` is not fair.
- Runner: weak fairness on the process's own steps. Kills and starts are free.
- Worker: weak fairness on each loop's steps, on a `stop` under way, whose wait has
  a timeout, and on a kill that began. That the broker is reachable and the worker
  left running is the premise of `LastingMismatchBlocks`, not an assumption.

## 4. The proofs

Each theorem holds for every value of the constants that meets the named
`ASSUME`s (finite or not) and is proved from an inductive invariant with one
step per action. TLC checks the same properties in the runs above. Every
invariant and every action property of a passing run is also a theorem.

**Sums.** What orders, balances, positions and books have in common is a sum over a
finite set, `SumFunctionOnSet` of the community module `Functions`, whose definition
is a recursion hidden in a CHOOSE. The library's induction theorems cannot be
instantiated here, so this module proves by a smallest counterexample: if a fact
about sums fails for some subset of a finite set it fails for a minimal one
(`MinimalSubset`), which is empty or has a member to take away. The lemmas the
other modules cite are `SumMoves` and `SumMovedBy` (one member is added or changes:
the sum changes by as much), `SumUnchanged`, `SumOfZeros`, `SumWithout` and
`SumWithin` (bounds).

**OrderIntakeProofs.** `TypeCorrect`, `RepliesAreStable`, `SendsAreNamed` and
`IntakeImplementsPromise`, with no assumption: processes overlap, crash and retry
anywhere, writes fail. None of the properties is inductive: a reply is stable
because of a row that is written before it. `IntakeInv` says, of ids that are not
spoilt, that a call past its lookup still finds no row (`PutFindsNoRow`) and that
what was answered, cached, handed over for sending or sent is what the row
names. The refinement maps `StorePut` to `Record`, a reply from cache or table to
`Answer`, `Send` to `Submit`, `StorePutFails` to `Spoil` and everything else to
stuttering.

**OrderFillsProofs.** `FillsTypeCorrect`, `OrdersNeverOverfilled`,
`FillsCountedOnce`, `AccountsNeverOverdrawn`, with stale callers or without.
`FillsInv` strengthens them with the records callers hold, which may come back
(`WithinQuantity`), and with counted fills being recorded ones
(`CountedIsRecorded`). Three invariants on top relate records to totals over all
fills. `FilledTellsOfFills` (`CountInv`): each record of an order, current or in a
caller's hands, tells at most of the fills counted so far, and of all of them when
its version is the number of counts (`Tells`); only then may a record that comes
back be compared with the current one. `BalancesExplained` (`MoneyInv`): a balance
is its opening and the payments of its fills, and nothing was paid to an account
that is not open. `EventsTellOfFills` (`EventInv`): events have distinct numbers, so
that counting the events of a fill counts its fillings.

**OrderManagerProofs.** `ManagerTypeCorrect` and `ManagerNeverOverfills` hold with
concurrency, timeouts, overfills and every adapter. `ManagerInv` ties the locals of each task
and the broker's fills to orders that exist. `RequestsOrderOnce` assumes
`Concurrent = FALSE` and `Timeouts = FALSE` (`OrderManager_retry.cfg` shows why):
`SerialInv` says that a request has one task and either no result yet or the
order the broker has.

`FillsCountOnce` and `PositionTellsOfOrders` have no such assumption. `BackInv`
counts the fills the manager has yet to see: what an order claims *and* what still
waits is within what the broker filled, so a fill may be counted by the callback
or by a reconciliation, not by both. `PositionInv` is the position as a signed sum
over the orders there are.

`KillAllCloses` is for every set of adapters and rests on `CareInv` and `KillInv`.
`SendInv`: an order that is being sent is sent by one task and has no broker id yet.
`StatusInv`: an order the broker works or cancelled lacks lots, one called filled has
them all, one called rejected has no broker id, and one called cancelled no longer
works or is `doubtful`. `AnswerInv`: after a yes the order does not work, or is
`doubtful`, until the answer is read.
`KillInv`: `_orders` has every order, and every order a kill answers for no longer
works, is doubtful, comes later in its loop, or is the one it awaits (`Answered`).
`Steady` is what every step of every other task leaves true: `_orders` only grows at
its end and an order that stopped working does not start again.
`KillAllClosesOnPaper` draws the consequence for the paper adapter, behind which
nothing is doubtful: the orders a finished kill answers for do not work.
`StatusTellsFills` needs `Timeouts = FALSE`, for an exception after the broker acted
may overwrite a filled status, and adapters (paper, ccxt) that say yes only to a
cancellation they carried out; `OrderManager_promises.cfg` shows that the second is
needed. `FullInv` adds that a full order is called filled.

**PaperBrokerProofs.** `BrokerTypes` and `LotsAreConserved` hold for every broker,
with partial fills, latency and amendments. `BrokerInv` says of every order that
it is `Settled`: traded and left make up what was asked, it is filled exactly when
nothing is left, and it traded the sum of its fills. `FillEffect` is what a fill of
one order does to another: it trades, is cancelled as a sibling, or stays; the
legs it spawns come behind the book (`Filled`). `FinalStaysFinal` is the action
property, from the same invariant and that effect.

`LegsNeverBothTrade` is about brokers that fill whole (`PaperBroker_ocopartial.cfg`
shows why). At most one leg trading is not inductive: `LegBook` adds that an entry
with legs has filled, once and for all, so that its linkage is never replaced;
that the linkage knows every leg; and that where one leg traded no other rests.
`LegSizes` adds, while nobody amends a quantity, that a leg is never for more than
its entry traded.

`FlattenClosesAll` is about brokers that fill whole and do not yield
(`PaperBroker_doubleclose.cfg` shows why). `FlattenAlone`: while a flatten runs, no
order rests, and the closes still to be submitted are exactly those the open
positions call for *now*, although they were computed when it began. `NetMoves` and
`NetStays` carry the positions through a fill and through everything else.

**SessionProofs** has the paper runner, the governor and the circuit.
`RunnerTypeCorrect`, `RowsCorrect`, `FillsCorrect`, `BlotterCorrect`,
`StrikesCorrect` hold wherever the process is killed and whichever writes raise.
`RunnerInv` says how far the mirror is (`Rows`), that the fills of this run in the
store are the first fills of its orders but the lost one and the one at hand
(`Fills`), and how the failures counted and the failures there were differ
(`Failures`: they do so once an audit row was lost after its cycle).

`GovernorTypeCorrect`; `StopsHonouredNeverFail`: with one
position at a time, until something careless is done (`careless`), no sequence of
admitted trades fails the challenge of a `Sound` program: positive limits, both in
amounts or both in percentages, in amounts when the peak trails closed profits.
`GateInv` says a flat account breaches neither rule at its balance, and one with a
position neither at its stop; the arithmetic of percentages is in lemmas of its
own. `FloorHolds` is the action property `FloorNeverFalls`, with any number of
positions and however carelessly traded, for programs whose percentage is at most
100: the peak only grows, and its sampling depends on the mode.

`CircuitCorrect` and `ProviderIsLeftAlone`, for any number of
overlapping calls. The invariant adds that the circuit's clock never runs ahead
of the time since the last failure (`ClockInv`): every failure on a tripped
circuit restarts it.

**PostgresOMSProofs.** `DurableRepliesAreStable`, with no restriction: processes
overlap and crash anywhere. `IInv` is the UNIQUE constraint as an invariant of
the rows (`OneRowPerClient`) and that every reply names a row.
`LedgerStaysBalanced`: `LedgerInv` says that, until something is `disturbed`, one
process and one call run; between ledger steps account, rows and cache agree
(`Synced`); while a fill is posted the cache is ahead of the rows by exactly what
is still to be inserted (`Posting`, `Outstanding`). `DurableFillsAreBacked`:
`OnceInv` says that a fill id brought once is stored by at most one call and was
not in the table; then an order, and every call that carries a quantity to write,
claims no more than the rows hold (`Backed`), and all of it until something is
disturbed (`Exact`).

**SupervisionProofs.** `KillIsFlat` and `KillCloses` assume `Legible`: the adapters
are among `paper` and `mt5` (`Supervision_adapters.cfg` shows that neither ccxt nor ibkr
may join them). They say nothing of a kill that is `crossed`, which on mt5 is every
kill that finds an order open. `KillInv`: a kill is `Clear` when nobody traded beside it and it is past its
cancellation; then it is `Alone` on the account, and each close it has open or in
mind is the opposite of what is held. `LoopIsAlone`, for any number of tasks: until
a start comes into a stop, `_task` names the only loop alive. `BlocksAreEarned`, for
any adapters: `EarnedInv` says that books which missed nothing lack exactly the sum of the fills
not reported yet (`BooksAreDue`), and that an answer on its way differs from the
books by at most what came in since it was given, unless that is more than the
tolerance (`AnswerNear`).

What stays with TLC: the liveness properties `RemainderIsFilled`, `ReconcileSeesFills`, `Recovers`, `StopIsHonoured` and
`LastingMismatchBlocks`, since leads-to from fairness needs ENABLED, which the
prover does not treat.

## 5. What is not modelled, and why

- Prices, averages and realised P&L (average fill price, inventory P&L, slippage):
  arithmetic without control.
- `snapshot`, `get_*` and the recovery report: they read.
- Governor rules for consistency, payout buffers, news and minimum duration.
- Of the paper runner: the import of old JSONL files, alerts, and audit rows but
  the last. Of the session guards: the stale-feed detector and the alert bus. Of
  the live adapters: everything but what the order manager, reconciliation and the
  kill switch meet of them.
- What a blocked reconciliation does to orders: nothing in `src/` asks `is_blocked`.
- Malformed input that raises before any state changes.
- Threads: the code runs each of these parts in one event loop or one thread.
- All of 1.2. Most of the repository by lines is research scripts, statistics,
  signal and feature computation, vendor downloads and presentation: functions of
  large inputs without a protocol, which sampling tests better than states do.

## 6. The plan

Done, in this order: `OrderIntake` with its abstract promise `DurableNaming`, `OrderFills`,
`PaperBroker`, `OrderManager`, `RiskGovernor`, `PostgresOMS`, `SignalCircuit`,
`PaperRunner`, `BrokerAccount` with `Reconciliation`, `KillSwitch` and their
composition `Supervision`; proofs of every invariant and action property the runs
check.

Next:

1. What the proofs leave out on purpose: the safety half of the liveness
   properties, such as that a resting market order of `PaperBroker` stays
   marketable, and that a cycle of `PaperRunner` always has a next step.
2. A second abstract specification: an account that only closes, implemented by
   `KillSwitch` for a clear kill.
3. Market data ingestion: the periodic flush awaits the write of a buffer and then
   clears it (`market/ingestion/__init__.py:152-161`), ticks that came meanwhile
   included; its tasks, start and stop.
4. Alert coalescing, plugin registry, feature cache, mode guard, reconnect of the
   live adapters.
