----------------------------- MODULE PostgresOMS -----------------------------
(***************************************************************************)
(* The durable OMS (core/oms_postgres.py) with the durable ledger          *)
(* (core/ledger_postgres.py) attached.                                     *)
(*                                                                         *)
(* Every statement is awaited and commits by itself: there is no           *)
(* transaction, so other calls of the process, other processes on the same *)
(* database and crashes come between any two statements of a call.  The    *)
(* ledger also keeps each balance in a cache of the process, loaded when   *)
(* the ledger is created; the cache is what a fill is checked against and  *)
(* what is written back.  One account; a process has a fixed set of tasks, *)
(* each inside at most one call.                                           *)
(***************************************************************************)
EXTENDS Integers, Sequences, FiniteSets, Functions

CONSTANTS
  Procs,          \* processes
  Tasks,          \* coroutines
  Home,           \* the process of each coroutine
  Requests,       \* [client, order]: the orders callers bring, maybe twice
  OrderIds,
  Quantity,       \* the quantity of each order
  Fills,          \* [id, order, qty, notional, fee]: fills callers record
  InitialBalance,
  MaxDeliveries,  \* bound: calls of record_fill with the same fill id
  MaxStarts,      \* bound: process starts
  None

ASSUME HomeAssumption == Home \in [Tasks -> Procs]
ASSUME RequestAssumption ==
  /\ \A r \in Requests : r.order \in OrderIds /\ r.client # None
  /\ Quantity \in [OrderIds -> Nat \ {0}]
ASSUME FillAssumption ==
  \A f \in Fills : /\ f.order \in OrderIds /\ f.qty \in Nat \ {0}
                   /\ f.notional \in Int /\ f.fee \in Nat
ASSUME BoundAssumption ==
  InitialBalance \in Nat /\ MaxDeliveries \in Nat /\ MaxStarts \in Nat
ASSUME NoneAssumption == None \notin Int

VARIABLES
  alive,       \* which processes run
  starts,      \* process starts so far
  orders,      \* table oms_orders: the row of each order id
  fillRows,    \* table oms_fills
  dbBalance,   \* accounts.current_balance, None without a row
  entrySum,    \* sum of the amounts in table ledger_entries
  cache,       \* PostgresLedger._accounts of each process: the balance
  task,        \* where each coroutine stands, with its locals
  opened,      \* has the account been created?
  delivered,   \* calls of record_fill per fill
  told,        \* history: <<client_order_id, order_id>> returned to callers
  disturbed    \* history: did calls or processes overlap, or a call die?

tables == <<orders, fillRows, dbBalance, entrySum>>
vars == <<alive, starts, tables, cache, task, opened, delivered, told, disturbed>>

NoRow == [client |-> None, filled |-> 0, status |-> "none", version |-> 0]
Idle == [pc |-> "idle", req |-> None, fill |-> None, filled |-> 0,
         rows |-> << >>, balance |-> 0]

Places == {"idle", "check", "insert", "read", "fill", "update", "ledger", "entries", "account"}

TypeOK ==
  /\ alive \in [Procs -> BOOLEAN]
  /\ starts \in Nat
  /\ \A o \in OrderIds :
       orders[o] # NoRow => /\ orders[o].client \in {r.client : r \in Requests}
                            /\ orders[o].status \in {"submitted", "partially_filled", "filled"}
                            /\ orders[o].filled \in Nat /\ orders[o].version \in Nat \ {0}
  /\ fillRows \subseteq Fills
  /\ dbBalance \in Int \cup {None} /\ entrySum \in Int
  /\ cache \in [Procs -> Int \cup {None}]
  /\ \A t \in Tasks : task[t].pc \in Places /\ (~alive[Home[t]] => task[t] = Idle)
  /\ delivered \in [Fills -> 0 .. MaxDeliveries]
  /\ disturbed \in BOOLEAN

Init ==
  /\ alive = [p \in Procs |-> FALSE]
  /\ starts = 0
  /\ orders = [o \in OrderIds |-> NoRow]
  /\ fillRows = {}
  /\ dbBalance = None
  /\ entrySum = 0
  /\ cache = [p \in Procs |-> None]
  /\ task = [t \in Tasks |-> Idle]
  /\ opened = FALSE
  /\ delivered = [f \in Fills |-> 0]
  /\ told = {}
  /\ disturbed = FALSE

Quiet == \A t \in Tasks : task[t] = Idle

\* A coroutine begins a call, maybe while others are inside theirs.
Free(t) == alive[Home[t]] /\ task[t] = Idle
Begin(t) == Free(t) /\ disturbed' = (disturbed \/ ~Quiet)

Goto(t, pc) == task' = [task EXCEPT ![t].pc = pc]
Done(t) == task' = [task EXCEPT ![t] = Idle]

-----------------------------------------------------------------------------
(* Process life *)

\* Mutant: a new process starts with the opening balance.
LoadedOpening == IF dbBalance = None THEN None ELSE InitialBalance

\* _load_accounts
Loaded == dbBalance

Start(p) ==
  /\ ~alive[p] /\ starts < MaxStarts
  /\ disturbed' = (disturbed \/ \E q \in Procs : alive[q])
  /\ alive' = [alive EXCEPT ![p] = TRUE]
  /\ starts' = starts + 1
  /\ cache' = [cache EXCEPT ![p] = Loaded]
  /\ UNCHANGED <<tables, task, opened, delivered, told>>

\* A clean exit between calls, or a crash inside one.
Exit(p) ==
  /\ alive[p]
  /\ disturbed' = (disturbed \/ \E t \in Tasks : Home[t] = p /\ task[t] # Idle)
  /\ alive' = [alive EXCEPT ![p] = FALSE]
  /\ cache' = [cache EXCEPT ![p] = None]
  /\ task' = [t \in Tasks |-> IF Home[t] = p THEN Idle ELSE task[t]]
  /\ UNCHANGED <<starts, tables, opened, delivered, told>>

-----------------------------------------------------------------------------
(* submit_order *)

SubmitOrder(t, r) ==
  /\ Begin(t)
  /\ task' = [task EXCEPT ![t] = [Idle EXCEPT !.pc = "check", !.req = r]]
  /\ UNCHANGED <<alive, starts, tables, cache, opened, delivered, told>>

RowsOf(c) == {o \in OrderIds : orders[o].client = c}

\* SELECT by client_order_id: a row ends the call with its order id.
CheckKey(t) ==
  LET c == task[t].req.client IN
  /\ task[t].pc = "check"
  /\ \/ /\ RowsOf(c) = {}
        /\ Goto(t, "insert")
        /\ UNCHANGED told
     \/ \E o \in RowsOf(c) :
          /\ told' = told \cup {<<c, o>>}
          /\ Done(t)
  /\ UNCHANGED <<alive, starts, tables, cache, opened, delivered, disturbed>>

\* Mutant: the table has no UNIQUE (account_id, client_order_id).
TakenById(r) == orders[r.order] # NoRow

\* The primary key or the unique key of the order is in the table.
Taken(r) == orders[r.order] # NoRow \/ RowsOf(r.client) # {}

NewRow(r) == [client |-> r.client, filled |-> 0, status |-> "submitted", version |-> 1]

\* INSERT, which raises when either key is taken by now.
InsertOrder(t) ==
  LET r == task[t].req IN
  /\ task[t].pc = "insert"
  /\ \/ /\ Taken(r)
        /\ UNCHANGED <<orders, told>>
     \/ /\ ~Taken(r)
        /\ orders' = [orders EXCEPT ![r.order] = NewRow(r)]
        /\ told' = told \cup {<<r.client, r.order>>}
  /\ Done(t)
  /\ UNCHANGED <<alive, starts, fillRows, dbBalance, entrySum, cache, opened, delivered, disturbed>>

-----------------------------------------------------------------------------
(* record_fill *)

RecordFill(t, f) ==
  /\ Begin(t)
  /\ delivered[f] < MaxDeliveries
  /\ delivered' = [delivered EXCEPT ![f] = @ + 1]
  /\ task' = [task EXCEPT ![t] = [Idle EXCEPT !.pc = "read", !.fill = f]]
  /\ UNCHANGED <<alive, starts, tables, cache, opened, told>>

\* SELECT of the order: the new filled quantity is computed from what is read.
ReadOrder(t) ==
  LET f == task[t].fill
      row == orders[f.order]
  IN
  /\ task[t].pc = "read"
  /\ \/ row = NoRow /\ Done(t)
     \/ /\ row # NoRow
        /\ task' = [task EXCEPT ![t].pc = "fill", ![t].filled = row.filled + f.qty]
  /\ UNCHANGED <<alive, starts, tables, cache, opened, delivered, told, disturbed>>

\* Mutant: the row is dropped.
FillRowsWithout(f) == fillRows \ {f}

\* INSERT ... ON CONFLICT (fill_id) DO NOTHING
FillRowsWith(f) == fillRows \cup {f}

InsertFill(t) ==
  /\ task[t].pc = "fill"
  /\ fillRows' = FillRowsWith(task[t].fill)
  /\ Goto(t, "update")
  /\ UNCHANGED <<alive, starts, orders, dbBalance, entrySum, cache, opened, delivered, told, disturbed>>

\* The row after the UPDATE, whatever happened to it since it was read.
RowWith(row, t) ==
  [row EXCEPT !.filled = task[t].filled, !.version = @ + 1,
              !.status = IF task[t].filled >= Quantity[task[t].fill.order]
                           THEN "filled" ELSE "partially_filled"]

UpdateOrder(t) ==
  /\ task[t].pc = "update"
  /\ orders' = [orders EXCEPT ![task[t].fill.order] = RowWith(@, t)]
  /\ Goto(t, "ledger")
  /\ UNCHANGED <<alive, starts, fillRows, dbBalance, entrySum, cache, opened, delivered, told, disturbed>>

-----------------------------------------------------------------------------
(* PostgresLedger *)

\* create_account in memory ...
CreateAccount(t) ==
  /\ Begin(t)
  /\ ~opened
  /\ opened' = TRUE
  /\ cache' = [cache EXCEPT ![Home[t]] = InitialBalance]
  /\ task' = [task EXCEPT ![t] = [Idle EXCEPT !.pc = "account"]]
  /\ UNCHANGED <<alive, starts, tables, delivered, told>>

\* ... and in the table.
InsertAccount(t) ==
  /\ task[t].pc = "account"
  /\ dbBalance' = InitialBalance
  /\ Done(t)
  /\ UNCHANGED <<alive, starts, orders, fillRows, entrySum, cache, opened, delivered, told, disturbed>>

Amounts(f) == <<f.notional>> \o (IF f.fee > 0 THEN <<-f.fee>> ELSE << >>)

Impact(f) == f.notional - f.fee

\* record_fill in memory: an unknown account or too small a balance raises.
LedgerUpdate(t) ==
  LET f == task[t].fill
      old == cache[Home[t]]
  IN
  /\ task[t].pc = "ledger"
  /\ \/ old = None /\ Done(t) /\ UNCHANGED cache
     \/ /\ old # None
        /\ old + Impact(f) < 0
        /\ Done(t) /\ UNCHANGED cache
     \/ /\ old # None
        /\ old + Impact(f) >= 0
        /\ cache' = [cache EXCEPT ![Home[t]] = old + Impact(f)]
        /\ task' = [task EXCEPT ![t].pc = "entries", ![t].rows = Amounts(f),
                                ![t].balance = old + Impact(f)]
  /\ UNCHANGED <<alive, starts, tables, opened, delivered, told, disturbed>>

\* The entries are inserted one by one; without the account's row the foreign
\* key raises.
InsertEntry(t) ==
  /\ task[t].pc = "entries" /\ task[t].rows # << >>
  /\ \/ dbBalance = None /\ Done(t) /\ UNCHANGED entrySum
     \/ /\ dbBalance # None
        /\ entrySum' = entrySum + Head(task[t].rows)
        /\ task' = [task EXCEPT ![t].rows = Tail(@)]
  /\ UNCHANGED <<alive, starts, orders, fillRows, dbBalance, cache, opened, delivered, told, disturbed>>

\* UPDATE accounts with the balance computed in memory.
UpdateBalance(t) ==
  /\ task[t].pc = "entries" /\ task[t].rows = << >>
  /\ dbBalance' = task[t].balance
  /\ Done(t)
  /\ UNCHANGED <<alive, starts, orders, fillRows, entrySum, cache, opened, delivered, told, disturbed>>

Next ==
  \/ \E p \in Procs : Start(p) \/ Exit(p)
  \/ \E t \in Tasks :
       \/ \E r \in Requests : SubmitOrder(t, r)
       \/ CheckKey(t) \/ InsertOrder(t)
       \/ \E f \in Fills : RecordFill(t, f)
       \/ ReadOrder(t) \/ InsertFill(t) \/ UpdateOrder(t)
       \/ CreateAccount(t) \/ InsertAccount(t)
       \/ LedgerUpdate(t) \/ InsertEntry(t) \/ UpdateBalance(t)

Spec == Init /\ [][Next]_vars

-----------------------------------------------------------------------------
(* Properties *)

\* Idempotency by client_order_id (oms_postgres.py:32, 117): through crashes
\* and races of two processes between the SELECT and the INSERT, every reply
\* for a client_order_id names one order, and that order has the row.
StableReply ==
  \A r, s \in told :
    /\ r[1] = s[1] => r[2] = s[2]
    /\ orders[r[2]].client = r[1]

RowsFor(o) == {f \in fillRows : f.order = o}
RowQuantity(o) == SumFunctionOnSet([f \in Fills |-> f.qty], RowsFor(o))

RecordedOnce(o) == \A f \in Fills : f.order = o => delivered[f] <= 1

\* An order whose fill ids are recorded once never claims more than its fill
\* rows hold: not while calls interleave, not after a crash between the
\* statements of record_fill.  As long as calls did not overlap and none died,
\* it claims exactly that between calls, whatever the ledger refused
\* (oms_postgres.py:190-231).
FilledIsBacked ==
  \A o \in OrderIds : RecordedOnce(o) =>
    /\ orders[o].filled <= RowQuantity(o)
    /\ Quiet /\ ~disturbed => orders[o].filled = RowQuantity(o)

\* As long as calls and processes did not overlap and none died inside a call,
\* the account's row is between calls its opening balance plus the ledger's
\* rows, and the running process's cache agrees, across restarts, refusals and
\* repeated fills (ledger_postgres.py:167-259).
LedgerBalances ==
  Quiet /\ ~disturbed /\ dbBalance # None =>
    /\ dbBalance = InitialBalance + entrySum
    /\ \A p \in Procs : alive[p] => cache[p] = dbBalance

\* The module persists fills idempotently (oms_postgres.py:1): a fill recorded
\* twice, one call after the other, counts once.
FillsAreIdempotent ==
  Quiet /\ ~disturbed => \A o \in OrderIds : orders[o].filled <= RowQuantity(o)

\* core/ledger.py:69-71: the contract of both ledgers maintains "the balance
\* invariant", also when calls overlap in one process that never died.
BalanceKept ==
  Quiet /\ starts = 1 /\ (\E p \in Procs : alive[p]) /\ dbBalance # None =>
    dbBalance = InitialBalance + entrySum

\* core/oms.py:107 and 220-223: the contract shared with the in-memory OMS
\* includes the overfill guard: no order is filled beyond its quantity.
NoOverfill == \A o \in OrderIds : orders[o].filled <= Quantity[o]
=============================================================================
