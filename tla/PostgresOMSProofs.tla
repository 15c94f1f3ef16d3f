-------------------------- MODULE PostgresOMSProofs --------------------------
(***************************************************************************)
(* Replies of the durable OMS are stable, for every number of processes,   *)
(* coroutines, requests and fills, whether or not processes overlap and    *)
(* wherever they crash; until calls overlap or die inside, account, ledger *)
(* and cache agree; and an order claims no more than its fill rows hold.   *)
(***************************************************************************)
EXTENDS PostgresOMS, Sums, SequenceTheorems, TLAPS

Clients == {r.client : r \in Requests}

Rows == [client : Clients \cup {None}, filled : Int, version : Int,
         status : {"none", "submitted", "partially_filled", "filled"}]

Locals == [pc : Places, req : Requests \cup {None}, fill : Fills \cup {None},
           filled : Int, rows : Seq(Int), balance : Int]

\* What the steps of a call need of the state they find.
LocalsOK ==
  /\ task \in [Tasks -> Locals]
  /\ cache \in [Procs -> Int \cup {None}]
  /\ dbBalance \in Int \cup {None}
  /\ \A t \in Tasks : task[t].pc \in {"check", "insert"} => task[t].req \in Requests
  /\ \A t \in Tasks : task[t].pc \in {"read", "fill", "update", "ledger"} => task[t].fill \in Fills

RowsOK == orders \in [OrderIds -> Rows]

\* The UNIQUE constraint: no two rows of one client_order_id.
OneRowPerClient ==
  \A o, q \in OrderIds :
    orders[o].client = orders[q].client /\ orders[o].client # None => o = q

\* Every reply names a row that is there.
RepliesHaveRows ==
  /\ told \subseteq Clients \X OrderIds
  /\ \A r \in told : orders[r[2]].client = r[1]

IInv == LocalsOK /\ RowsOK /\ OneRowPerClient /\ RepliesHaveRows

-----------------------------------------------------------------------------

LEMMA RequestTypes ==
  ASSUME NEW r \in Requests
  PROVE  r.order \in OrderIds /\ r.client \in Clients /\ r.client # None
BY RequestAssumption DEF Clients

LEMMA IdleType == Idle \in Locals /\ Idle.pc = "idle"
BY DEF Idle, Locals, Places

LEMMA AmountsType ==
  ASSUME NEW f \in Fills
  PROVE  Amounts(f) \in Seq(Int) /\ Impact(f) \in Int
BY FillAssumption DEF Amounts, Impact

\* A coroutine that ends its call, or never moves, keeps the locals in order.
LEMMA LocalsStep ==
  ASSUME IInv, NEW t \in Tasks, NEW l \in Locals,
         l.pc \in {"check", "insert"} => l.req \in Requests,
         l.pc \in {"read", "fill", "update", "ledger"} => l.fill \in Fills,
         task' = [task EXCEPT ![t] = l],
         cache' \in [Procs -> Int \cup {None}],
         dbBalance' \in Int \cup {None}
  PROVE  LocalsOK'
BY DEF IInv, LocalsOK

\* Rows that keep their clients keep every reply good.
LEMMA ClientsKept ==
  ASSUME IInv, RowsOK', UNCHANGED told,
         \A o \in OrderIds : orders'[o].client = orders[o].client
  PROVE  OneRowPerClient' /\ RepliesHaveRows'
BY DEF IInv, OneRowPerClient, RepliesHaveRows

LEMMA InitIInv == Init => IInv
<1> SUFFICES ASSUME Init PROVE IInv
  OBVIOUS
<1>1. LocalsOK
  BY IdleType DEF Init, LocalsOK
<1>2. RowsOK
  BY DEF Init, RowsOK, Rows, NoRow
<1>3. OneRowPerClient
  BY DEF Init, OneRowPerClient, NoRow
<1>4. RepliesHaveRows
  BY DEF Init, RepliesHaveRows
<1> QED
  BY <1>1, <1>2, <1>3, <1>4 DEF IInv

\* The one step that adds a row: only when neither of its keys is taken.
LEMMA InsertKeeps ==
  ASSUME IInv, NEW t \in Tasks, InsertOrder(t)
  PROVE  IInv'
<1> DEFINE r == task[t].req
<1>1. r \in Requests
  BY DEF InsertOrder, IInv, LocalsOK
<1>2. r.order \in OrderIds /\ r.client \in Clients /\ r.client # None
  BY <1>1, RequestTypes
<1>3. LocalsOK'
  BY LocalsStep, IdleType DEF InsertOrder, Done, IInv, LocalsOK
<1>4. CASE UNCHANGED <<orders, told>>
  BY <1>3, <1>4 DEF IInv, RowsOK, OneRowPerClient, RepliesHaveRows
<1>5. CASE /\ ~Taken(r)
           /\ orders' = [orders EXCEPT ![r.order] = NewRow(r)]
           /\ told' = told \cup {<<r.client, r.order>>}
  <2> HIDE DEF r
  <2>1. NewRow(r) \in Rows /\ NewRow(r).client = r.client
    BY <1>2 DEF NewRow, Rows
  <2>2. RowsOK'
    BY <1>5, <2>1 DEF RowsOK, IInv
  <2>3. /\ orders'[r.order].client = r.client
        /\ \A o \in OrderIds : o # r.order => orders'[o] = orders[o]
    BY <1>2, <1>5, <2>1 DEF RowsOK, IInv
  <2>4. orders[r.order] = NoRow /\ \A o \in OrderIds : orders[o].client # r.client
    BY <1>5 DEF Taken, RowsOf
  <2>5. OneRowPerClient'
    BY <1>2, <2>3, <2>4 DEF OneRowPerClient, IInv
  <2>6. \A s \in told : s[2] # r.order
    <3>1. \A s \in told : s[1] \in Clients /\ s[1] # None /\ s[2] \in OrderIds
      BY RequestTypes DEF IInv, RepliesHaveRows, Clients
    <3> QED
      BY <3>1, <2>4 DEF IInv, RepliesHaveRows, NoRow
  <2>7. RepliesHaveRows'
    BY <1>2, <1>5, <2>3, <2>6 DEF RepliesHaveRows, IInv
  <2> QED
    BY <1>3, <2>2, <2>5, <2>7 DEF IInv
<1> QED
  BY <1>4, <1>5 DEF InsertOrder

LEMMA NextIInv == IInv /\ [Next]_vars => IInv'
<1> SUFFICES ASSUME IInv, [Next]_vars PROVE IInv'
  OBVIOUS
<1> USE DEF IInv
<1>a. ASSUME UNCHANGED <<orders, told>>, LocalsOK' PROVE IInv'
  BY <1>a DEF RowsOK, OneRowPerClient, RepliesHaveRows
<1>1. CASE UNCHANGED vars
  <2>1. LocalsOK'
    BY <1>1 DEF vars, tables, LocalsOK
  <2> QED
    BY <1>a, <1>1, <2>1 DEF vars, tables
<1>2. ASSUME NEW p \in Procs, Start(p) PROVE IInv'
  <2>1. LocalsOK'
    BY <1>2 DEF Start, tables, LocalsOK, Loaded
  <2> QED
    BY <1>a, <1>2, <2>1 DEF Start, tables
<1>3. ASSUME NEW p \in Procs, Exit(p) PROVE IInv'
  <2>1. LocalsOK'
    BY <1>3, IdleType DEF Exit, tables, LocalsOK
  <2> QED
    BY <1>a, <1>3, <2>1 DEF Exit, tables
<1>4. ASSUME NEW t \in Tasks, NEW r \in Requests, SubmitOrder(t, r) PROVE IInv'
  <2> DEFINE l == [Idle EXCEPT !.pc = "check", !.req = r]
  <2>1. l \in Locals /\ l.pc = "check" /\ l.req = r
    BY IdleType DEF Locals, Places
  <2> HIDE DEF l
  <2>2. task' = [task EXCEPT ![t] = l]
    BY <1>4 DEF SubmitOrder, l
  <2>3. LocalsOK'
    BY <1>4, <2>1, <2>2, LocalsStep DEF SubmitOrder, tables, LocalsOK
  <2> QED
    BY <1>a, <1>4, <2>3 DEF SubmitOrder, tables
<1>5. ASSUME NEW t \in Tasks, CheckKey(t) PROVE IInv'
  <2>1. task[t].req \in Requests /\ task[t] \in Locals
    BY <1>5 DEF CheckKey, LocalsOK
  <2>2. CASE Goto(t, "insert") /\ UNCHANGED told
    <3> DEFINE l == [task[t] EXCEPT !.pc = "insert"]
    <3>1. l \in Locals /\ l.pc = "insert" /\ l.req \in Requests
      BY <2>1 DEF Locals, Places
    <3>2. task' = [task EXCEPT ![t] = l]
      BY <2>2 DEF Goto, LocalsOK
    <3> HIDE DEF l
    <3>3. LocalsOK'
      BY <1>5, <3>1, <3>2, LocalsStep DEF CheckKey, tables, LocalsOK
    <3> QED
      BY <1>a, <1>5, <2>2, <3>3 DEF CheckKey, tables
  <2>3. ASSUME NEW o \in RowsOf(task[t].req.client),
               told' = told \cup {<<task[t].req.client, o>>}, Done(t)
        PROVE  IInv'
    <3>1. LocalsOK'
      BY <1>5, <2>3, IdleType, LocalsStep DEF CheckKey, tables, Done, LocalsOK
    <3>2. RowsOK' /\ OneRowPerClient'
      BY <1>5 DEF CheckKey, tables, RowsOK, OneRowPerClient
    <3>3. o \in OrderIds /\ orders[o].client = task[t].req.client
      BY DEF RowsOf
    <3>4. task[t].req.client \in Clients
      BY <2>1 DEF Clients
    <3>5. RepliesHaveRows'
      BY <1>5, <2>3, <3>3, <3>4 DEF CheckKey, tables, RepliesHaveRows
    <3> QED
      BY <3>1, <3>2, <3>5
  <2> QED
    BY <1>5, <2>2, <2>3 DEF CheckKey
<1>6. ASSUME NEW t \in Tasks, InsertOrder(t) PROVE IInv'
  BY <1>6, InsertKeeps
<1>7. ASSUME NEW t \in Tasks, NEW f \in Fills, RecordFill(t, f) PROVE IInv'
  <2> DEFINE l == [Idle EXCEPT !.pc = "read", !.fill = f]
  <2>1. l \in Locals /\ l.pc = "read" /\ l.fill = f
    BY IdleType DEF Locals, Places
  <2> HIDE DEF l
  <2>2. task' = [task EXCEPT ![t] = l]
    BY <1>7 DEF RecordFill, l
  <2>3. LocalsOK'
    BY <1>7, <2>1, <2>2, LocalsStep DEF RecordFill, tables, LocalsOK
  <2> QED
    BY <1>a, <1>7, <2>3 DEF RecordFill, tables
<1>8. ASSUME NEW t \in Tasks, ReadOrder(t) PROVE IInv'
  <2>1. task[t].fill \in Fills /\ task[t] \in Locals
    BY <1>8 DEF ReadOrder, LocalsOK
  <2>2. task[t].fill.order \in OrderIds /\ task[t].fill.qty \in Nat
    BY <2>1, FillAssumption
  <2> DEFINE n == orders[task[t].fill.order].filled + task[t].fill.qty
             l == [task[t] EXCEPT !.pc = "fill", !.filled = n]
  <2>3. orders[task[t].fill.order].filled \in Int
    BY <2>2 DEF RowsOK, Rows
  <2>4. n \in Int
    BY <2>2, <2>3
  <2>5. l \in Locals /\ l.pc = "fill" /\ l.fill \in Fills
    <3> HIDE DEF n
    <3> QED BY <2>1, <2>4 DEF Locals, Places
  <2>6. CASE Done(t)
    <3>1. LocalsOK'
      BY <1>8, <2>6, IdleType, LocalsStep DEF ReadOrder, tables, Done, LocalsOK
    <3> QED
      BY <1>a, <1>8, <3>1 DEF ReadOrder, tables
  <2>7. CASE task' = [task EXCEPT ![t].pc = "fill", ![t].filled = n]
    <3>1. task' = [task EXCEPT ![t] = l]
      BY <2>7 DEF LocalsOK
    <3> HIDE DEF l
    <3>2. LocalsOK'
      BY <1>8, <2>5, <3>1, LocalsStep DEF ReadOrder, tables, LocalsOK
    <3> QED
      BY <1>a, <1>8, <3>2 DEF ReadOrder, tables
  <2> QED
    BY <1>8, <2>6, <2>7 DEF ReadOrder
<1>9. ASSUME NEW t \in Tasks, InsertFill(t) PROVE IInv'
  <2>1. task[t].fill \in Fills /\ task[t] \in Locals
    BY <1>9 DEF InsertFill, LocalsOK
  <2> DEFINE l == [task[t] EXCEPT !.pc = "update"]
  <2>2. l \in Locals /\ l.pc = "update" /\ l.fill \in Fills
    BY <2>1 DEF Locals, Places
  <2>3. task' = [task EXCEPT ![t] = l]
    BY <1>9 DEF InsertFill, Goto, LocalsOK
  <2> HIDE DEF l
  <2>4. LocalsOK'
    BY <1>9, <2>2, <2>3, LocalsStep DEF InsertFill, LocalsOK
  <2> QED
    BY <1>a, <1>9, <2>4 DEF InsertFill
<1>10. ASSUME NEW t \in Tasks, UpdateOrder(t) PROVE IInv'
  <2>1. task[t].fill \in Fills /\ task[t] \in Locals /\ task[t].filled \in Int
    BY <1>10 DEF UpdateOrder, LocalsOK, Locals
  <2> DEFINE l == [task[t] EXCEPT !.pc = "ledger"]
  <2>2. l \in Locals /\ l.pc = "ledger" /\ l.fill \in Fills
    BY <2>1 DEF Locals, Places
  <2>3. task' = [task EXCEPT ![t] = l]
    BY <1>10 DEF UpdateOrder, Goto, LocalsOK
  <2> HIDE DEF l
  <2>4. LocalsOK'
    BY <1>10, <2>2, <2>3, LocalsStep DEF UpdateOrder, LocalsOK
  <2> DEFINE o == task[t].fill.order
             row == RowWith(orders[o], t)
  <2>5. o \in OrderIds
    BY <2>1, FillAssumption
  <2>6. row \in Rows /\ row.client = orders[o].client
    <3> DEFINE status == IF task[t].filled >= Quantity[o] THEN "filled" ELSE "partially_filled"
               version == orders[o].version + 1
    <3>1. orders[o] \in Rows /\ version \in Int
      BY <2>5 DEF RowsOK, Rows
    <3>2. status \in {"filled", "partially_filled"}
      OBVIOUS
    <3>3. row = [orders[o] EXCEPT !.filled = task[t].filled, !.version = version, !.status = status]
      BY DEF RowWith
    <3> HIDE DEF status, version, row, o
    <3> QED
      BY <3>1, <3>2, <3>3, <2>1 DEF Rows
  <2> HIDE DEF row, o
  <2>7. orders' = [orders EXCEPT ![o] = row]
    BY <1>10, <2>5 DEF UpdateOrder, RowsOK, o, row
  <2>8. RowsOK'
    BY <2>6, <2>7 DEF RowsOK
  <2>9. \A q \in OrderIds : orders'[q].client = orders[q].client
    BY <2>5, <2>6, <2>7 DEF RowsOK
  <2> QED
    BY <1>10, <2>4, <2>8, <2>9, ClientsKept DEF UpdateOrder
<1>11. ASSUME NEW t \in Tasks, CreateAccount(t) PROVE IInv'
  <2> DEFINE l == [Idle EXCEPT !.pc = "account"]
  <2>1. l \in Locals /\ l.pc = "account"
    BY IdleType DEF Locals, Places
  <2> HIDE DEF l
  <2>2. task' = [task EXCEPT ![t] = l]
    BY <1>11 DEF CreateAccount, l
  <2>3. cache' \in [Procs -> Int \cup {None}] /\ dbBalance' \in Int \cup {None}
    <3>1. InitialBalance \in Int
      BY BoundAssumption
    <3>2. cache' = [cache EXCEPT ![Home[t]] = InitialBalance] /\ UNCHANGED dbBalance
      BY <1>11 DEF CreateAccount, tables
    <3> QED
      BY <3>1, <3>2 DEF LocalsOK
  <2>4. LocalsOK'
    BY <2>1, <2>2, <2>3, LocalsStep
  <2> QED
    BY <1>a, <1>11, <2>4 DEF CreateAccount, tables
<1>12. ASSUME NEW t \in Tasks, InsertAccount(t) PROVE IInv'
  <2>1. LocalsOK'
    BY <1>12, BoundAssumption, IdleType, LocalsStep DEF InsertAccount, Done, LocalsOK
  <2> QED
    BY <1>a, <1>12, <2>1 DEF InsertAccount
<1>13. ASSUME NEW t \in Tasks, LedgerUpdate(t) PROVE IInv'
  <2>1. task[t].fill \in Fills /\ task[t] \in Locals
    BY <1>13 DEF LedgerUpdate, LocalsOK
  <2> DEFINE f == task[t].fill
             old == cache[Home[t]]
  <2>2. Home[t] \in Procs /\ old \in Int \cup {None}
    BY HomeAssumption DEF LocalsOK
  <2>3. Amounts(f) \in Seq(Int) /\ Impact(f) \in Int
    BY <2>1, AmountsType
  <2>4. CASE Done(t) /\ UNCHANGED cache
    <3>1. LocalsOK'
      BY <1>13, <2>4, IdleType, LocalsStep DEF LedgerUpdate, tables, Done, LocalsOK
    <3> QED
      BY <1>a, <1>13, <3>1 DEF LedgerUpdate, tables
  <2>5. CASE /\ old # None
             /\ cache' = [cache EXCEPT ![Home[t]] = old + Impact(f)]
             /\ task' = [task EXCEPT ![t].pc = "entries", ![t].rows = Amounts(f),
                                     ![t].balance = old + Impact(f)]
    <3> DEFINE new == old + Impact(f)
               amounts == Amounts(f)
               l == [task[t] EXCEPT !.pc = "entries", !.rows = amounts, !.balance = new]
    <3>1. new \in Int
      BY <2>2, <2>3, <2>5
    <3>2. task' = [task EXCEPT ![t] = l]
      BY <2>5 DEF LocalsOK
    <3>3. l \in Locals /\ l.pc = "entries"
      <4> HIDE DEF new, amounts
      <4> QED BY <2>1, <2>3, <3>1 DEF Locals, Places, amounts
    <3>4. cache' \in [Procs -> Int \cup {None}] /\ dbBalance' \in Int \cup {None}
      <4> HIDE DEF l, new
      <4> QED BY <1>13, <2>2, <2>5, <3>1 DEF LedgerUpdate, tables, LocalsOK, new
    <3> HIDE DEF l
    <3>5. LocalsOK'
      BY <3>2, <3>3, <3>4, LocalsStep
    <3> QED
      BY <1>a, <1>13, <3>5 DEF LedgerUpdate, tables
  <2> QED
    BY <1>13, <2>4, <2>5 DEF LedgerUpdate
<1>14. ASSUME NEW t \in Tasks, InsertEntry(t) PROVE IInv'
  <2>1. task[t] \in Locals
    BY DEF LocalsOK
  <2>2. CASE Done(t)
    <3>1. LocalsOK'
      BY <1>14, <2>2, IdleType, LocalsStep DEF InsertEntry, Done, LocalsOK
    <3> QED
      BY <1>a, <1>14, <3>1 DEF InsertEntry
  <2>3. CASE task' = [task EXCEPT ![t].rows = Tail(@)]
    <3> DEFINE rest == Tail(task[t].rows)
               l == [task[t] EXCEPT !.rows = rest]
    <3>1. rest \in Seq(Int)
      BY <1>14, <2>1 DEF InsertEntry, Locals
    <3>2. task' = [task EXCEPT ![t] = l]
      BY <2>3 DEF LocalsOK
    <3>3. l \in Locals /\ l.pc = "entries"
      <4> HIDE DEF rest
      <4> QED BY <1>14, <2>1, <3>1 DEF Locals, Places, InsertEntry
    <3> HIDE DEF l
    <3>4. LocalsOK'
      BY <1>14, <3>2, <3>3, LocalsStep DEF InsertEntry, LocalsOK
    <3> QED
      BY <1>a, <1>14, <3>4 DEF InsertEntry
  <2> QED
    BY <1>14, <2>2, <2>3 DEF InsertEntry
<1>15. ASSUME NEW t \in Tasks, UpdateBalance(t) PROVE IInv'
  <2>1. dbBalance' \in Int
    BY <1>15 DEF UpdateBalance, LocalsOK, Locals
  <2>2. LocalsOK'
    BY <1>15, <2>1, IdleType, LocalsStep DEF UpdateBalance, Done, LocalsOK
  <2> QED
    BY <1>a, <1>15, <2>2 DEF UpdateBalance
<1> QED
  BY <1>1, <1>2, <1>3, <1>4, <1>5, <1>6, <1>7, <1>8, <1>9, <1>10, <1>11, <1>12,
     <1>13, <1>14, <1>15 DEF Next

LEMMA IInvStable == IInv => StableReply
<1> SUFFICES ASSUME IInv, NEW r \in told, NEW s \in told
             PROVE  /\ r[1] = s[1] => r[2] = s[2]
                    /\ orders[r[2]].client = r[1]
  BY DEF StableReply
<1>1. /\ r[1] \in Clients /\ r[2] \in OrderIds /\ orders[r[2]].client = r[1]
      /\ s[1] \in Clients /\ s[2] \in OrderIds /\ orders[s[2]].client = s[1]
  BY DEF IInv, RepliesHaveRows
<1>2. r[1] # None
  BY <1>1, RequestTypes DEF Clients
<1> QED
  BY <1>1, <1>2 DEF IInv, OneRowPerClient

\* core/oms_postgres.py:114-163: with a UNIQUE (account_id, client_order_id)
\* behind an unlocked SELECT and INSERT, two replies for one client_order_id
\* never name different orders, whatever interleaves and wherever a process dies.
THEOREM DurableRepliesAreStable == Spec => []StableReply
<1>1. Spec => []IInv
  BY InitIInv, NextIInv, PTL DEF Spec
<1> QED
  BY <1>1, IInvStable, PTL
-----------------------------------------------------------------------------
(* The ledger, until calls overlap or die *)

Busy(t) == task[t].pc # "idle"

FlagsOK ==
  /\ alive \in [Procs -> BOOLEAN] /\ opened \in BOOLEAN /\ disturbed \in BOOLEAN
  /\ entrySum \in Int

\* One process runs, and one call at most, of that process.
OneCall ==
  /\ \A p, q \in Procs : alive[p] /\ alive[q] => p = q
  /\ \A t, u \in Tasks : Busy(t) /\ Busy(u) => t = u
  /\ \A t \in Tasks : Busy(t) => alive[Home[t]]

\* Account, ledger rows and cache agree.
Synced ==
  /\ dbBalance = None => entrySum = 0 /\ ~opened /\ \A p \in Procs : alive[p] => cache[p] = None
  /\ dbBalance # None =>
       /\ opened /\ dbBalance = InitialBalance + entrySum
       /\ \A p \in Procs : alive[p] => cache[p] = dbBalance

\* What the entries still to be inserted add up to.
Outstanding(rows) ==
  IF Len(rows) = 0 THEN 0 ELSE IF Len(rows) = 1 THEN rows[1] ELSE rows[1] + rows[2]

\* The account's row is about to be inserted.
Creating(t) ==
  /\ opened /\ dbBalance = None /\ entrySum = 0
  /\ cache[Home[t]] = InitialBalance

\* The cache has taken the fill, the tables have taken part of it.
Posting(t) ==
  /\ opened /\ dbBalance # None
  /\ Len(task[t].rows) <= 2
  /\ task[t].balance = cache[Home[t]]
  /\ task[t].balance = InitialBalance + entrySum + Outstanding(task[t].rows)

LedgerInv ==
  /\ FlagsOK
  /\ ~disturbed =>
       /\ OneCall
       /\ (\A t \in Tasks : task[t].pc \notin {"account", "entries"}) => Synced
       /\ \A t \in Tasks : task[t].pc = "account" => Creating(t)
       /\ \A t \in Tasks : task[t].pc = "entries" => Posting(t)

LEMMA InitLedgerInv == Init => LedgerInv
<1> SUFFICES ASSUME Init PROVE LedgerInv
  OBVIOUS
<1>1. \A t \in Tasks : task[t].pc = "idle"
  BY IdleType DEF Init
<1>2. \A p \in Procs : ~alive[p]
  BY DEF Init
<1>a. alive \in [Procs -> BOOLEAN]
  BY DEF Init
<1>b. opened \in BOOLEAN /\ disturbed \in BOOLEAN
  BY Zenon DEF Init
<1>c. entrySum \in Int
  BY DEF Init
<1>d. FlagsOK
  BY <1>a, <1>b, <1>c DEF FlagsOK
<1>3. OneCall
  BY <1>1, <1>2 DEF OneCall, Busy
<1>4. Synced
  BY <1>2 DEF Init, Synced
<1> QED
  BY <1>d, <1>1, <1>3, <1>4 DEF LedgerInv

\* A call that touches neither ledger nor cache, at a step of its own.
LEMMA PlainStep ==
  ASSUME IInv, LedgerInv, NEW t \in Tasks, NEW l \in Locals,
         task' = [task EXCEPT ![t] = l],
         task[t].pc \notin {"account", "entries"},
         l.pc \notin {"account", "entries"},
         \/ Busy(t) /\ disturbed' = disturbed
         \/ alive[Home[t]] /\ disturbed' = (disturbed \/ ~Quiet),
         UNCHANGED <<alive, opened, entrySum, dbBalance, cache>>
  PROVE  LedgerInv'
<1>1. /\ task'[t] = l /\ \A u \in Tasks : u # t => task'[u] = task[u]
      /\ \A u \in Tasks : task[u] \in Locals
  BY DEF IInv, LocalsOK
<1>2. FlagsOK'
  BY DEF LedgerInv, FlagsOK
<1>3. ASSUME ~disturbed' PROVE OneCall' /\ ~disturbed
  <2>1. ~disturbed /\ (Busy(t) \/ (alive[Home[t]] /\ Quiet))
    BY <1>3 DEF LedgerInv, FlagsOK
  <2>2. \A u \in Tasks : Quiet => ~Busy(u)
    BY IdleType DEF Quiet, Busy
  <2>3. OneCall
    BY <2>1 DEF LedgerInv
  <2>4. alive[Home[t]] /\ \A u \in Tasks : Busy(u) => u = t
    BY <2>1, <2>2, <2>3 DEF OneCall
  <2> QED BY <1>1, <2>1, <2>3, <2>4 DEF OneCall, Busy
<1>4. ASSUME ~disturbed' PROVE
        /\ (\A u \in Tasks : task'[u].pc \notin {"account", "entries"}) => Synced'
        /\ \A u \in Tasks : task'[u].pc = "account" => Creating(u)'
        /\ \A u \in Tasks : task'[u].pc = "entries" => Posting(u)'
  <2>1. ~disturbed
    BY <1>3, <1>4
  <2>2. \A u \in Tasks : task'[u].pc \in {"account", "entries"} => u # t /\ task'[u] = task[u]
    BY <1>1
  <2>3. (\A u \in Tasks : task'[u].pc \notin {"account", "entries"}) =>
          \A u \in Tasks : task[u].pc \notin {"account", "entries"}
    BY <1>1
  <2> QED BY <2>1, <2>2, <2>3 DEF LedgerInv, Synced, Creating, Posting
<1> QED BY <1>2, <1>3, <1>4 DEF LedgerInv

\* Until something overlaps, nothing else runs beside a call.
LEMMA Alone ==
  ASSUME IInv, LedgerInv, ~disturbed, NEW t \in Tasks, Busy(t)
  PROVE  /\ alive[Home[t]] /\ \A p \in Procs : alive[p] => p = Home[t]
         /\ \A u \in Tasks : u # t => task[u].pc = "idle"
BY HomeAssumption DEF LedgerInv, OneCall, Busy

\* A call in the middle of its ledger work, at a step of its own.
LEMMA LedgerStep ==
  ASSUME IInv, LedgerInv, NEW t \in Tasks, NEW l \in Locals,
         task' = [task EXCEPT ![t] = l], Busy(t),
         UNCHANGED <<alive, opened, disturbed>>, entrySum' \in Int,
         ~disturbed => /\ l.pc \notin {"account", "entries"} => Synced'
                       /\ l.pc = "account" => Creating(t)'
                       /\ l.pc = "entries" => Posting(t)'
  PROVE  LedgerInv'
<1>1. /\ task'[t] = l /\ \A u \in Tasks : u # t => task'[u] = task[u]
  BY DEF IInv, LocalsOK
<1>2. FlagsOK'
  BY DEF LedgerInv, FlagsOK
<1>3. ASSUME ~disturbed' PROVE
        /\ OneCall'
        /\ (\A u \in Tasks : task'[u].pc \notin {"account", "entries"}) => Synced'
        /\ \A u \in Tasks : task'[u].pc = "account" => Creating(u)'
        /\ \A u \in Tasks : task'[u].pc = "entries" => Posting(u)'
  <2>1. /\ ~disturbed /\ alive[Home[t]]
        /\ \A u \in Tasks : u # t => task'[u].pc = "idle"
    BY <1>1, <1>3, Alone
  <2>2. OneCall'
    BY <2>1 DEF OneCall, Busy, LedgerInv
  <2> QED BY <1>1, <2>1, <2>2
<1> QED BY <1>2, <1>3 DEF LedgerInv

LEMMA StartKeeps ==
  ASSUME IInv, LedgerInv, NEW p \in Procs, Start(p)
  PROVE  LedgerInv'
<1>1. /\ UNCHANGED <<task, opened, entrySum, dbBalance>>
      /\ alive' = [alive EXCEPT ![p] = TRUE]
      /\ cache' = [cache EXCEPT ![p] = dbBalance]
  BY DEF Start, tables, Loaded
<1>2. FlagsOK'
  BY <1>1 DEF LedgerInv, FlagsOK, Start
<1>3. CASE disturbed'
  BY <1>2, <1>3 DEF LedgerInv
<1>4. CASE ~disturbed'
  <2>1. ~disturbed /\ \A q \in Procs : ~alive[q]
    BY <1>4 DEF Start
  <2>2. \A t \in Tasks : ~Busy(t)
    BY <2>1, HomeAssumption DEF LedgerInv, OneCall
  <2>3. /\ \A q \in Procs : alive'[q] => q = p
        /\ cache'[p] = dbBalance
    BY <1>1, <2>1 DEF IInv, LocalsOK, LedgerInv, FlagsOK
  <2>4. OneCall'
    BY <1>1, <2>2, <2>3 DEF OneCall, Busy
  <2>5. Synced /\ \A t \in Tasks : task[t].pc \notin {"account", "entries"}
    BY <2>1, <2>2 DEF LedgerInv, Busy
  <2>6. Synced'
    BY <1>1, <2>3, <2>5 DEF Synced
  <2> QED BY <1>1, <1>2, <2>4, <2>5, <2>6 DEF LedgerInv
<1> QED BY <1>2, <1>3, <1>4

LEMMA ExitKeeps ==
  ASSUME IInv, LedgerInv, NEW p \in Procs, Exit(p)
  PROVE  LedgerInv'
<1>1. /\ UNCHANGED <<opened, entrySum, dbBalance>>
      /\ alive' = [alive EXCEPT ![p] = FALSE]
      /\ cache' = [cache EXCEPT ![p] = None]
      /\ task' = [t \in Tasks |-> IF Home[t] = p THEN Idle ELSE task[t]]
  BY DEF Exit, tables
<1>2. FlagsOK'
  BY <1>1 DEF LedgerInv, FlagsOK, Exit
<1>3. CASE disturbed'
  BY <1>2, <1>3 DEF LedgerInv
<1>4. CASE ~disturbed'
  <2>1. /\ ~disturbed /\ alive[p]
        /\ \A t \in Tasks : Home[t] = p => task[t] = Idle
    BY <1>4 DEF Exit
  <2>2. \A t \in Tasks : ~Busy(t)
    BY <2>1, IdleType, HomeAssumption DEF LedgerInv, OneCall, Busy
  <2>3. \A t \in Tasks : task'[t].pc = "idle"
    BY <1>1, <2>2, IdleType DEF Busy
  <2>4. \A q \in Procs : ~alive'[q]
    BY <1>1, <2>1 DEF LedgerInv, OneCall, FlagsOK
  <2>5. OneCall'
    BY <2>3, <2>4 DEF OneCall, Busy
  <2>6. Synced
    BY <2>1, <2>2 DEF LedgerInv, Busy
  <2>7. Synced'
    BY <1>1, <2>4, <2>6 DEF Synced
  <2> QED BY <1>2, <2>3, <2>5, <2>7 DEF LedgerInv
<1> QED BY <1>2, <1>3, <1>4

LEMMA CreateKeeps ==
  ASSUME IInv, LedgerInv, NEW t \in Tasks, CreateAccount(t)
  PROVE  LedgerInv'
<1>1. /\ UNCHANGED <<alive, entrySum, dbBalance>> /\ ~opened /\ opened' /\ alive[Home[t]]
      /\ cache' = [cache EXCEPT ![Home[t]] = InitialBalance]
      /\ task' = [task EXCEPT ![t] = [Idle EXCEPT !.pc = "account"]]
  BY DEF CreateAccount, tables, Begin, Free
<1>2. FlagsOK'
  BY <1>1 DEF LedgerInv, FlagsOK, CreateAccount, Begin
<1>3. CASE disturbed'
  BY <1>2, <1>3 DEF LedgerInv
<1>4. CASE ~disturbed'
  <2>1. ~disturbed /\ \A u \in Tasks : task[u].pc = "idle"
    BY <1>4, IdleType DEF CreateAccount, Begin, Quiet
  <2>2. Synced
    BY <2>1 DEF LedgerInv
  <2>3. \A u \in Tasks : task'[u].pc = IF u = t THEN "account" ELSE "idle"
    BY <1>1, <2>1, IdleType DEF IInv, LocalsOK, Idle
  <2>4. OneCall'
    BY <1>1, <2>1, <2>3 DEF OneCall, Busy, LedgerInv
  <2>5. Home[t] \in Procs /\ cache'[Home[t]] = InitialBalance
    BY <1>1, HomeAssumption DEF IInv, LocalsOK
  <2>6. Creating(t)'
    BY <1>1, <2>2, <2>5 DEF Creating, Synced
  <2> QED BY <1>2, <2>3, <2>4, <2>6 DEF LedgerInv
<1> QED BY <1>2, <1>3, <1>4

LEMMA AccountKeeps ==
  ASSUME IInv, LedgerInv, NEW t \in Tasks, InsertAccount(t)
  PROVE  LedgerInv'
<1>1. /\ UNCHANGED <<alive, entrySum, cache, opened, disturbed>>
      /\ dbBalance' = InitialBalance /\ task[t].pc = "account"
      /\ task' = [task EXCEPT ![t] = Idle]
  BY DEF InsertAccount, Done
<1>2. entrySum' \in Int /\ Busy(t)
  BY <1>1 DEF LedgerInv, FlagsOK, Busy
<1>3. ASSUME ~disturbed PROVE Synced'
  <2>1. Creating(t)
    BY <1>1, <1>3 DEF LedgerInv
  <2>2. \A p \in Procs : alive[p] => p = Home[t]
    BY <1>2, <1>3, Alone
  <2>3. InitialBalance # None /\ InitialBalance = InitialBalance + 0
    BY NoneAssumption, BoundAssumption
  <2> QED BY <1>1, <2>1, <2>2, <2>3 DEF Creating, Synced
<1> QED BY <1>1, <1>2, <1>3, IdleType, LedgerStep

\* The rows of a fill add up to its impact on the balance.
LEMMA AmountsSum ==
  ASSUME NEW f \in Fills
  PROVE  Len(Amounts(f)) <= 2 /\ Outstanding(Amounts(f)) = Impact(f)
<1>1. f.notional \in Int /\ f.fee \in Nat
  BY FillAssumption
<1>2. CASE f.fee > 0
  <2>1. Amounts(f) = <<f.notional>> \o <<-f.fee>>
    BY <1>2 DEF Amounts
  <2>2. /\ Len(Amounts(f)) = 2 /\ Amounts(f) # << >>
        /\ Amounts(f)[1] = f.notional /\ Amounts(f)[2] = -f.fee
    BY <1>1, <2>1
  <2> QED BY <1>1, <2>2 DEF Outstanding, Impact
<1>3. CASE f.fee = 0
  <2>1. Amounts(f) = <<f.notional>>
    BY <1>1, <1>3 DEF Amounts
  <2> QED BY <1>1, <1>3, <2>1 DEF Outstanding, Impact
<1> QED BY <1>1, <1>2, <1>3

LEMMA LedgerUpdateKeeps ==
  ASSUME IInv, LedgerInv, NEW t \in Tasks, LedgerUpdate(t)
  PROVE  LedgerInv'
<1> DEFINE f == task[t].fill
           old == cache[Home[t]]
<1>1. /\ task[t].pc = "ledger" /\ f \in Fills /\ task[t] \in Locals
      /\ UNCHANGED <<alive, opened, entrySum, dbBalance, disturbed>>
  BY DEF LedgerUpdate, tables, IInv, LocalsOK
<1>2. CASE Done(t) /\ UNCHANGED cache
  BY <1>1, <1>2, IdleType, PlainStep DEF Done, Busy
<1>3. CASE /\ old # None
           /\ cache' = [cache EXCEPT ![Home[t]] = old + Impact(f)]
           /\ task' = [task EXCEPT ![t].pc = "entries", ![t].rows = Amounts(f),
                                   ![t].balance = old + Impact(f)]
  <2> DEFINE l == [task[t] EXCEPT !.pc = "entries", !.rows = Amounts(f),
                                  !.balance = old + Impact(f)]
  <2>1. old \in Int /\ Impact(f) \in Int /\ Home[t] \in Procs
    BY <1>1, <1>3, AmountsType, HomeAssumption DEF IInv, LocalsOK
  <2>2. /\ l \in Locals /\ l.pc = "entries" /\ l.rows = Amounts(f)
        /\ l.balance = old + Impact(f)
    <3>1. Amounts(f) \in Seq(Int) /\ old + Impact(f) \in Int
      BY <1>1, <2>1, AmountsType
    <3> HIDE DEF f, old
    <3> QED BY <1>1, <3>1 DEF Locals, Places
  <2>3. task' = [task EXCEPT ![t] = l] /\ task'[t] = l
    BY <1>3 DEF IInv, LocalsOK
  <2>4. cache'[Home[t]] = old + Impact(f)
    BY <1>3, <2>1 DEF IInv, LocalsOK
  <2>5. ASSUME ~disturbed PROVE Posting(t)'
    <3>1. alive[Home[t]] /\ \A u \in Tasks : task[u].pc \notin {"account", "entries"}
      BY <1>1, <2>5, Alone DEF Busy
    <3>2. Synced
      BY <2>5, <3>1 DEF LedgerInv
    <3>3. opened /\ dbBalance # None /\ old = InitialBalance + entrySum
      BY <1>3, <2>1, <3>1, <3>2 DEF Synced
    <3>4. InitialBalance \in Int /\ entrySum \in Int
      BY BoundAssumption DEF LedgerInv, FlagsOK
    <3> HIDE DEF f, old, l
    <3> QED
      BY <1>1, <2>1, <2>2, <2>3, <2>4, <3>3, <3>4, AmountsSum DEF Posting
  <2>6. entrySum' \in Int /\ Busy(t)
    BY <1>1 DEF LedgerInv, FlagsOK, Busy
  <2> HIDE DEF l
  <2> QED BY <1>1, <2>2, <2>3, <2>5, <2>6, LedgerStep
<1> QED BY <1>2, <1>3 DEF LedgerUpdate

LEMMA OutstandingType ==
  ASSUME NEW rows \in Seq(Int), Len(rows) <= 2
  PROVE  Outstanding(rows) \in Int
<1>1. Len(rows) \in Nat /\ \A i \in 1 .. Len(rows) : rows[i] \in Int
  BY LenProperties, ElementOfSeq
<1>2. CASE Len(rows) = 0
  BY <1>2 DEF Outstanding
<1>3. CASE Len(rows) = 1
  <2>1. rows[1] \in Int
    BY <1>1, <1>3
  <2> QED BY <1>3, <2>1 DEF Outstanding
<1>4. CASE Len(rows) = 2
  <2>1. 1 \in 1 .. Len(rows) /\ 2 \in 1 .. Len(rows)
    BY <1>4
  <2>2. rows[1] \in Int /\ rows[2] \in Int
    BY <1>1, <2>1
  <2>3. Outstanding(rows) = rows[1] + rows[2]
    BY <1>4 DEF Outstanding
  <2> QED BY <2>2, <2>3
<1>5. \A n \in Nat : n <= 2 => n = 0 \/ n = 1 \/ n = 2
  OBVIOUS
<1>6. Len(rows) = 0 \/ Len(rows) = 1 \/ Len(rows) = 2
  BY Zenon, <1>1, <1>5
<1> QED BY Zenon, <1>2, <1>3, <1>4, <1>6

LEMMA OutstandingTail ==
  ASSUME NEW rows \in Seq(Int), rows # << >>, Len(rows) <= 2
  PROVE  /\ Len(Tail(rows)) <= 2
         /\ Outstanding(rows) = Head(rows) + Outstanding(Tail(rows))
<1>1. /\ Len(Tail(rows)) = Len(rows) - 1 /\ Head(rows) = rows[1] /\ rows[1] \in Int
      /\ \A i \in 1 .. Len(Tail(rows)) : Tail(rows)[i] = rows[i + 1]
  <2>1. Len(Tail(rows)) = Len(rows) - 1 /\ Head(rows) \in Int
    BY HeadTailProperties
  <2>2. Head(rows) = rows[1]
    OBVIOUS
  <2>3. \A i \in 1 .. Len(Tail(rows)) : Tail(rows)[i] = rows[i + 1]
    BY HeadTailProperties
  <2> QED BY <2>1, <2>2, <2>3
<1>2. Len(rows) \in Nat \ {0}
  BY EmptySeq
<1>3. CASE Len(rows) = 1
  <2>1. Len(Tail(rows)) = 0
    BY <1>1, <1>3
  <2>2. Outstanding(rows) = rows[1] /\ Outstanding(Tail(rows)) = 0
    BY <1>3, <2>1 DEF Outstanding
  <2> QED BY <1>1, <2>1, <2>2
<1>4. CASE Len(rows) = 2
  <2>1. Len(Tail(rows)) = 1 /\ 1 \in 1 .. Len(Tail(rows))
    BY <1>1, <1>4
  <2>2. Tail(rows)[1] = rows[2]
    BY <1>1, <2>1
  <2>3. Outstanding(rows) = rows[1] + rows[2] /\ Outstanding(Tail(rows)) = Tail(rows)[1]
    BY <1>4, <2>1 DEF Outstanding
  <2> QED BY <1>1, <2>1, <2>2, <2>3
<1>5. \A n \in Nat \ {0} : n <= 2 => n = 1 \/ n = 2
  OBVIOUS
<1>6. Len(rows) = 1 \/ Len(rows) = 2
  BY Zenon, <1>2, <1>5
<1> QED BY Zenon, <1>3, <1>4, <1>6

LEMMA EntryKeeps ==
  ASSUME IInv, LedgerInv, NEW t \in Tasks, InsertEntry(t)
  PROVE  LedgerInv'
<1> DEFINE rows == task[t].rows
<1>1. /\ task[t].pc = "entries" /\ task[t] \in Locals /\ rows # << >> /\ rows \in Seq(Int)
      /\ UNCHANGED <<alive, opened, cache, dbBalance, disturbed>> /\ Busy(t)
  BY DEF InsertEntry, IInv, LocalsOK, Locals, Busy
<1>2. entrySum \in Int
  BY DEF LedgerInv, FlagsOK
<1>3. CASE dbBalance = None /\ Done(t) /\ UNCHANGED entrySum
  <2>1. ~disturbed => FALSE
    BY <1>1, <1>3 DEF LedgerInv, Posting
  <2> QED BY <1>1, <1>2, <1>3, <2>1, IdleType, LedgerStep DEF Done
<1>4. CASE /\ dbBalance # None
           /\ entrySum' = entrySum + Head(rows)
           /\ task' = [task EXCEPT ![t].rows = Tail(@)]
  <2> DEFINE l == [task[t] EXCEPT !.rows = Tail(rows)]
  <2>1. Head(rows) \in Int /\ Tail(rows) \in Seq(Int)
    BY <1>1
  <2>2. /\ l \in Locals /\ l.pc = "entries" /\ l.rows = Tail(rows)
        /\ l.balance = task[t].balance
    BY <1>1, <2>1 DEF Locals
  <2>3. task' = [task EXCEPT ![t] = l] /\ task'[t] = l
    BY <1>4 DEF IInv, LocalsOK
  <2>4. ASSUME Len(rows) <= 2
        PROVE  /\ Len(Tail(rows)) <= 2
               /\ Outstanding(rows) = Head(rows) + Outstanding(Tail(rows))
    BY <1>1, <2>4, OutstandingTail
  <2>5. Len(Tail(rows)) <= 2 => Outstanding(Tail(rows)) \in Int
    BY <2>1, OutstandingType
  <2>6. ASSUME ~disturbed PROVE Posting(t)'
    <3>1. Posting(t)
      BY <1>1, <2>6 DEF LedgerInv
    <3>2. /\ Len(rows) <= 2
          /\ task[t].balance = InitialBalance + entrySum + Outstanding(rows)
      BY <3>1 DEF Posting
    <3>3. InitialBalance \in Int
      BY BoundAssumption
    <3>4. task[t].balance = InitialBalance + (entrySum + Head(rows)) + Outstanding(Tail(rows))
      BY <1>2, <2>1, <2>4, <2>5, <3>2, <3>3
    <3> HIDE DEF rows, l
    <3> QED
      BY <1>1, <1>4, <2>2, <2>3, <2>4, <3>1, <3>2, <3>4 DEF Posting
  <2>7. entrySum' \in Int
    BY <1>2, <1>4, <2>1
  <2> HIDE DEF l, rows
  <2> QED BY <1>1, <2>2, <2>3, <2>6, <2>7, LedgerStep
<1> QED BY <1>3, <1>4 DEF InsertEntry

LEMMA BalanceKeeps ==
  ASSUME IInv, LedgerInv, NEW t \in Tasks, UpdateBalance(t)
  PROVE  LedgerInv'
<1>1. /\ task[t].pc = "entries" /\ task[t].rows = << >> /\ task[t].balance \in Int
      /\ UNCHANGED <<alive, entrySum, cache, opened, disturbed>> /\ Busy(t)
      /\ dbBalance' = task[t].balance
      /\ task' = [task EXCEPT ![t] = Idle]
  BY DEF UpdateBalance, Done, Busy, IInv, LocalsOK, Locals
<1>2. entrySum' \in Int /\ InitialBalance \in Int
  BY <1>1, BoundAssumption DEF LedgerInv, FlagsOK
<1>3. ASSUME ~disturbed PROVE Synced'
  <2>1. Posting(t)
    BY <1>1, <1>3 DEF LedgerInv
  <2>2. \A p \in Procs : alive[p] => p = Home[t]
    BY <1>1, <1>3, Alone
  <2>3. /\ opened /\ task[t].balance = cache[Home[t]]
        /\ task[t].balance = InitialBalance + entrySum
    BY <1>1, <1>2, <2>1 DEF Posting, Outstanding
  <2>4. dbBalance' # None
    BY <1>1, NoneAssumption
  <2> QED BY <1>1, <2>2, <2>3, <2>4 DEF Synced
<1> QED BY <1>1, <1>2, <1>3, IdleType, LedgerStep

\* The steps of submit_order, and of record_fill before it reaches the ledger.
Plain(t) ==
  \/ \E r \in Requests : SubmitOrder(t, r)
  \/ \E f \in Fills : RecordFill(t, f)
  \/ CheckKey(t) \/ InsertOrder(t) \/ ReadOrder(t) \/ InsertFill(t) \/ UpdateOrder(t)

LEMMA PlainKeeps ==
  ASSUME IInv, LedgerInv, NEW t \in Tasks, Plain(t)
  PROVE  LedgerInv'
<1>1. task[t] \in Locals /\ task \in [Tasks -> Locals]
  BY DEF IInv, LocalsOK
<1>2. UNCHANGED <<alive, opened, entrySum, dbBalance, cache>>
  BY DEF Plain, SubmitOrder, RecordFill, CheckKey, InsertOrder, ReadOrder, InsertFill,
         UpdateOrder, tables
<1>3. ASSUME NEW l \in Locals, Begin(t), task' = [task EXCEPT ![t] = l],
             l.pc \notin {"account", "entries"}
      PROVE  LedgerInv'
  <2>1. /\ task[t].pc \notin {"account", "entries"}
        /\ alive[Home[t]] /\ disturbed' = (disturbed \/ ~Quiet)
    BY <1>3, IdleType DEF Begin, Free
  <2> QED BY <1>2, <1>3, <2>1, PlainStep
<1>4. ASSUME UNCHANGED disturbed,
             task[t].pc \in {"check", "insert", "read", "fill", "update"},
             NEW l \in Locals, task' = [task EXCEPT ![t] = l],
             l.pc \notin {"account", "entries"}
      PROVE  LedgerInv'
  <2>1. Busy(t) /\ task[t].pc \notin {"account", "entries"}
    BY <1>4 DEF Busy
  <2> QED BY <1>2, <1>4, <2>1, PlainStep
<1>5. ASSUME UNCHANGED disturbed,
             task[t].pc \in {"check", "insert", "read", "fill", "update"},
             NEW pc \in {"insert", "update", "ledger"}, Goto(t, pc)
      PROVE  LedgerInv'
  <2> DEFINE l == [task[t] EXCEPT !.pc = pc]
  <2>1. l \in Locals /\ l.pc \notin {"account", "entries"}
    BY <1>1, <1>5 DEF Locals, Places
  <2>2. task' = [task EXCEPT ![t] = l]
    BY <1>1, <1>5 DEF Goto
  <2> HIDE DEF l
  <2> QED BY <1>4, <1>5, <2>1, <2>2
<1>6. ASSUME UNCHANGED disturbed,
             task[t].pc \in {"check", "insert", "read", "fill", "update"}, Done(t)
      PROVE  LedgerInv'
  BY <1>4, <1>6, IdleType DEF Done
<1>7. ASSUME NEW r \in Requests, SubmitOrder(t, r) PROVE LedgerInv'
  <2> DEFINE l == [Idle EXCEPT !.pc = "check", !.req = r]
  <2>1. l \in Locals /\ l.pc = "check"
    BY IdleType DEF Locals, Places
  <2>2. Begin(t) /\ task' = [task EXCEPT ![t] = l]
    BY <1>7 DEF SubmitOrder
  <2> HIDE DEF l
  <2> QED BY <1>3, <2>1, <2>2
<1>8. ASSUME NEW f \in Fills, RecordFill(t, f) PROVE LedgerInv'
  <2> DEFINE l == [Idle EXCEPT !.pc = "read", !.fill = f]
  <2>1. l \in Locals /\ l.pc = "read"
    BY IdleType DEF Locals, Places
  <2>2. Begin(t) /\ task' = [task EXCEPT ![t] = l]
    BY <1>8 DEF RecordFill
  <2> HIDE DEF l
  <2> QED BY <1>3, <2>1, <2>2
<1>9. CASE CheckKey(t)
  BY <1>5, <1>6, <1>9 DEF CheckKey
<1>10. CASE InsertOrder(t)
  BY <1>6, <1>10 DEF InsertOrder
<1>11. CASE ReadOrder(t)
  <2>1. task[t].fill \in Fills /\ task[t].pc = "read" /\ UNCHANGED disturbed
    BY <1>11 DEF ReadOrder, IInv, LocalsOK
  <2>2. CASE Done(t)
    BY <1>6, <2>1, <2>2
  <2>3. CASE task' = [task EXCEPT ![t].pc = "fill",
                        ![t].filled = orders[task[t].fill.order].filled + task[t].fill.qty]
    <3> DEFINE n == orders[task[t].fill.order].filled + task[t].fill.qty
               l == [task[t] EXCEPT !.pc = "fill", !.filled = n]
    <3>1. n \in Int
      <4>1. task[t].fill.order \in OrderIds /\ task[t].fill.qty \in Int
        BY <2>1, FillAssumption
      <4>2. orders[task[t].fill.order].filled \in Int
        BY <4>1 DEF IInv, RowsOK, Rows
      <4> QED BY <4>1, <4>2
    <3>2. task' = [task EXCEPT ![t] = l]
      BY <1>1, <2>3
    <3> HIDE DEF n
    <3>3. l \in Locals /\ l.pc = "fill"
      BY <1>1, <3>1 DEF Locals, Places
    <3> HIDE DEF l
    <3> QED BY <1>4, <2>1, <3>2, <3>3
  <2> QED BY <1>11, <2>2, <2>3 DEF ReadOrder
<1>12. CASE InsertFill(t)
  BY <1>5, <1>12 DEF InsertFill
<1>13. CASE UpdateOrder(t)
  BY <1>5, <1>13 DEF UpdateOrder
<1> QED
  BY <1>7, <1>8, <1>9, <1>10, <1>11, <1>12, <1>13 DEF Plain

LEMMA NextLedgerInv == IInv /\ LedgerInv /\ [Next]_vars => LedgerInv'
<1> SUFFICES ASSUME IInv, LedgerInv, [Next]_vars PROVE LedgerInv'
  OBVIOUS
<1>1. CASE UNCHANGED vars
  BY <1>1 DEF vars, tables, LedgerInv, FlagsOK, OneCall, Busy, Synced, Creating, Posting
<1>2. ASSUME NEW p \in Procs, Start(p) \/ Exit(p) PROVE LedgerInv'
  BY <1>2, StartKeeps, ExitKeeps
<1>3. ASSUME NEW t \in Tasks, Plain(t) PROVE LedgerInv'
  BY <1>3, PlainKeeps
<1>4. ASSUME NEW t \in Tasks,
             CreateAccount(t) \/ InsertAccount(t) \/ LedgerUpdate(t) \/ InsertEntry(t)
               \/ UpdateBalance(t)
      PROVE  LedgerInv'
  BY <1>4, CreateKeeps, AccountKeeps, LedgerUpdateKeeps, EntryKeeps, BalanceKeeps
<1> QED
  BY <1>1, <1>2, <1>3, <1>4 DEF Next, Plain

LEMMA LedgerInvBalances == LedgerInv => LedgerBalances
<1>1. ASSUME LedgerInv, Quiet, ~disturbed PROVE Synced
  BY <1>1, IdleType DEF LedgerInv, Quiet
<1> QED BY <1>1 DEF LedgerBalances, Synced

\* core/ledger_postgres.py:167-259: until calls or processes overlap or one
\* dies inside a call, the account's row between calls is the opening balance
\* plus the ledger's rows and the running process's cache agrees: through any
\* number of fills, refusals and restarts.
THEOREM LedgerStaysBalanced == Spec => []LedgerBalances
<1>1. Spec => [](IInv /\ LedgerInv)
  BY InitIInv, InitLedgerInv, NextIInv, NextLedgerInv, PTL DEF Spec
<1> QED
  BY <1>1, LedgerInvBalances, PTL

-----------------------------------------------------------------------------
(* Fills, their rows, and what orders claim of them *)

\* A call of record_fill that has not inserted its fill yet.
Stores(t, f) == task[t].pc \in {"read", "fill"} /\ task[t].fill = f

\* A fill id that was brought once is stored by at most one call, and not in
\* the table before.
Once(f) ==
  /\ delivered[f] = 0 => f \notin fillRows /\ \A t \in Tasks : ~Stores(t, f)
  /\ delivered[f] <= 1 =>
       \A t \in Tasks : Stores(t, f) =>
         f \notin fillRows /\ \A u \in Tasks : Stores(u, f) => u = t

OnceInv ==
  /\ delivered \in [Fills -> Nat]
  /\ IsFiniteSet(fillRows) /\ fillRows \subseteq Fills
  /\ \A f \in Fills : Once(f)

\* Where the call of a fill of order o stands.
At(t, pc, o) == task[t].pc = pc /\ task[t].fill.order = o

\* Between overlaps and crashes an order, and a call about to write it, claim
\* all that the rows hold.
Exact(o) ==
  /\ (\A t \in Tasks : ~At(t, "update", o)) => orders[o].filled = RowQuantity(o)
  /\ \A t \in Tasks : At(t, "fill", o) =>
       task[t].filled = RowQuantity(o) + task[t].fill.qty
  /\ \A t \in Tasks : At(t, "update", o) => task[t].filled = RowQuantity(o)

\* In any case they claim no more.
Backed(o) ==
  /\ orders[o].filled <= RowQuantity(o)
  /\ \A t \in Tasks : At(t, "fill", o) =>
       task[t].filled <= RowQuantity(o) + task[t].fill.qty
  /\ \A t \in Tasks : At(t, "update", o) => task[t].filled <= RowQuantity(o)
  /\ ~disturbed => Exact(o)

BackInv == OnceInv /\ \A o \in OrderIds : RecordedOnce(o) => Backed(o)

\* A step that brings no delivery, row or call of a fill.
LEMMA OnceStays ==
  ASSUME NEW f \in Fills, Once(f), delivered'[f] = delivered[f],
         f \in fillRows' => f \in fillRows,
         \A t \in Tasks : Stores(t, f)' => Stores(t, f)
  PROVE  Once(f)'
  BY DEF Once

\* What the rows of an order hold is a natural number.
LEMMA RowQuantityType ==
  ASSUME OnceInv, NEW o \in OrderIds
  PROVE  /\ IsFiniteSet(RowsFor(o)) /\ RowsFor(o) \subseteq Fills
         /\ \A f \in Fills : f.qty \in Nat /\ [g \in Fills |-> g.qty][f] = f.qty
         /\ RowQuantity(o) \in Nat
<1>1. IsFiniteSet(RowsFor(o)) /\ RowsFor(o) \subseteq Fills
  BY FS_Subset DEF OnceInv, RowsFor
<1>2. \A f \in Fills : f.qty \in Nat /\ [g \in Fills |-> g.qty][f] = f.qty
  BY FillAssumption
<1>3. \A f \in RowsFor(o) : [g \in Fills |-> g.qty][f] \in Nat
  BY <1>1, <1>2
<1> QED
  BY <1>1, <1>2, <1>3, SumOfNats DEF RowQuantity

\* A new row adds its quantity to its order, and to no other.
LEMMA RowAdds ==
  ASSUME OnceInv, NEW f \in Fills, f \notin fillRows, fillRows' = fillRows \cup {f},
         NEW o \in OrderIds
  PROVE  RowQuantity(o)' = RowQuantity(o) + (IF f.order = o THEN f.qty ELSE 0)
<1> DEFINE S == RowsFor(o)
           T == RowsFor(o)'
           q == [g \in Fills |-> g.qty]
<1>1. /\ IsFiniteSet(S) /\ f \notin S /\ RowQuantity(o) \in Nat
      /\ q[f] = f.qty /\ q[f] \in Int /\ \A g \in S : q[g] \in Int
  <2>1. /\ IsFiniteSet(S) /\ S \subseteq Fills /\ RowQuantity(o) \in Nat
        /\ \A g \in Fills : g.qty \in Nat /\ q[g] = g.qty
    BY RowQuantityType
  <2>2. f \notin S
    BY DEF RowsFor
  <2> HIDE DEF q, S
  <2> QED
    BY <2>1, <2>2
<1>2. RowQuantity(o)' = SumFunctionOnSet(q, T) /\ RowQuantity(o) = SumFunctionOnSet(q, S)
  BY DEF RowQuantity
<1> HIDE DEF q
<1>3. CASE f.order = o
  <2>1. T = S \cup {f}
    BY <1>3 DEF RowsFor
  <2> HIDE DEF S, T
  <2>2. DifferAt(f, q, S, q, T)
    BY <1>1, <2>1 DEF DifferAt
  <2>3. SumFunctionOnSet(q, T) = SumFunctionOnSet(q, S) + q[f]
    BY <1>1, <2>2, SumMoves
  <2> QED
    BY <1>1, <1>2, <1>3, <2>3
<1>4. CASE f.order # o
  <2>1. T = S
    BY <1>4 DEF RowsFor
  <2> QED
    BY <1>1, <1>2, <1>4, <2>1
<1> QED
  BY <1>3, <1>4

\* No fill is brought or stored at first.
LEMMA InitBackInv == Init => BackInv
<1> SUFFICES ASSUME Init PROVE BackInv
  OBVIOUS
<1>1. /\ fillRows = {} /\ IsFiniteSet(fillRows) /\ delivered = [f \in Fills |-> 0]
      /\ \A t \in Tasks : task[t].pc = "idle"
      /\ \A o \in OrderIds : orders[o].filled = 0
  BY IdleType, FS_EmptySet DEF Init, NoRow
<1>2. OnceInv
  BY <1>1 DEF OnceInv, Once, Stores
<1>3. ASSUME NEW o \in OrderIds PROVE RowQuantity(o) = 0
  <2>1. RowsFor(o) = {}
    BY <1>1 DEF RowsFor
  <2> QED
    BY <2>1, SumOverNone DEF RowQuantity
<1> QED
  BY <1>1, <1>2, <1>3 DEF BackInv, Backed, Exact, At

\* Steps that leave every call of record_fill where it was before its UPDATE,
\* or end it, with the rows as they were.
LEMMA CallsStay ==
  ASSUME BackInv, UNCHANGED <<fillRows, delivered>>,
         \A o \in OrderIds : orders'[o].filled = orders[o].filled,
         \A t \in Tasks : \/ task'[t] = task[t]
                          \/ task'[t].pc \notin {"read", "fill", "update"},
         ~disturbed' =>
           ~disturbed /\ \A t \in Tasks : task[t].pc = "update" => task'[t] = task[t]
  PROVE  BackInv'
<1>1. OnceInv'
  <2>1. \A t \in Tasks : \A f \in Fills : Stores(t, f)' => Stores(t, f)
    BY DEF Stores
  <2>2. \A f \in Fills : Once(f)'
    BY <2>1, OnceStays DEF BackInv, OnceInv
  <2> QED
    BY <2>2 DEF BackInv, OnceInv
<1>2. ASSUME NEW o \in OrderIds, RecordedOnce(o)' PROVE Backed(o)'
  <2>1. RecordedOnce(o) /\ RowQuantity(o)' = RowQuantity(o)
    BY <1>2 DEF RecordedOnce, RowQuantity, RowsFor
  <2>2. Backed(o)
    BY <2>1 DEF BackInv
  <2>3. \A t \in Tasks : \A pc \in {"fill", "update"} :
          At(t, pc, o)' => At(t, pc, o) /\ task'[t] = task[t]
    BY DEF At
  <2>4. ASSUME ~disturbed' PROVE Exact(o)'
    <3>1. \A t \in Tasks : At(t, "update", o) => At(t, "update", o)'
      BY <2>4 DEF At
    <3> QED
      BY <2>1, <2>2, <2>3, <2>4, <3>1 DEF Backed, Exact
  <2> QED
    BY <2>1, <2>2, <2>3, <2>4 DEF Backed
<1> QED
  BY <1>1, <1>2 DEF BackInv

\* A call of record_fill begins: the fill is new if it was never brought.
LEMMA RecordKeeps ==
  ASSUME IInv, BackInv, NEW t \in Tasks, NEW f \in Fills, RecordFill(t, f)
  PROVE  BackInv'
<1>1. /\ delivered' = [delivered EXCEPT ![f] = @ + 1]
      /\ UNCHANGED <<orders, fillRows>> /\ (~disturbed' => ~disturbed)
      /\ task[t] = Idle /\ task'[t].pc = "read" /\ task'[t].fill = f
      /\ \A u \in Tasks : u # t => task'[u] = task[u]
  BY DEF RecordFill, Begin, Free, tables, IInv, LocalsOK, Idle
<1>2. /\ delivered \in [Fills -> Nat] /\ delivered' \in [Fills -> Nat]
      /\ delivered'[f] = delivered[f] + 1
      /\ \A g \in Fills : g # f => delivered'[g] = delivered[g]
  BY <1>1 DEF BackInv, OnceInv
<1>3. OnceInv'
  <2>1. ASSUME NEW g \in Fills, g # f PROVE Once(g)'
    <3>1. \A u \in Tasks : Stores(u, g)' => Stores(u, g)
      BY <1>1, <2>1 DEF Stores
    <3> QED
      BY <1>1, <1>2, <2>1, <3>1, OnceStays DEF BackInv, OnceInv
  <2>2. Once(f)'
    <3>1. delivered[f] \in Nat /\ Once(f)
      BY <1>2 DEF BackInv, OnceInv
    <3>2. \A u \in Tasks : u # t => (Stores(u, f)' <=> Stores(u, f))
      BY <1>1 DEF Stores
    <3> QED
      BY <1>1, <1>2, <3>1, <3>2 DEF Once
  <2> QED
    BY <1>1, <1>2, <2>1, <2>2 DEF BackInv, OnceInv
<1>4. ASSUME NEW o \in OrderIds, RecordedOnce(o)' PROVE Backed(o)'
  <2>1. RecordedOnce(o)
    BY <1>2, <1>4 DEF RecordedOnce
  <2>2. Backed(o) /\ RowQuantity(o)' = RowQuantity(o) /\ orders' = orders
    BY <1>1, <2>1 DEF BackInv, RowQuantity, RowsFor
  <2>3. \A u \in Tasks : \A pc \in {"fill", "update"} :
          (At(u, pc, o)' <=> At(u, pc, o)) /\ (At(u, pc, o) => task'[u] = task[u])
    BY <1>1, IdleType DEF At
  <2> QED
    BY <1>1, <2>2, <2>3 DEF Backed, Exact
<1> QED
  BY <1>3, <1>4 DEF BackInv

\* The order is read: the call will claim what it finds and its own fill.
LEMMA ReadKeeps ==
  ASSUME IInv, LedgerInv, BackInv, NEW t \in Tasks, ReadOrder(t)
  PROVE  BackInv'
<1> DEFINE f == task[t].fill
           row == orders[f.order]
<1>1. /\ task[t].pc = "read" /\ f \in Fills /\ f.order \in OrderIds /\ f.qty \in Nat
      /\ UNCHANGED <<orders, fillRows, delivered, disturbed>>
      /\ row.filled \in Int
  <2>1. task[t].pc = "read" /\ f \in Fills /\ UNCHANGED <<orders, fillRows, delivered, disturbed>>
    BY DEF ReadOrder, tables, IInv, LocalsOK
  <2>2. f.order \in OrderIds /\ f.qty \in Nat
    BY <2>1, FillAssumption
  <2> QED
    BY <2>1, <2>2 DEF IInv, RowsOK, Rows
<1>2. CASE Done(t)
  <2>1. /\ \A u \in Tasks : task'[u] = task[u] \/ task'[u].pc \notin {"read", "fill", "update"}
        /\ \A u \in Tasks : task[u].pc = "update" => task'[u] = task[u]
    BY <1>1, <1>2, IdleType DEF Done, IInv, LocalsOK
  <2> QED
    BY <1>1, <2>1, CallsStay
<1>3. CASE task' = [task EXCEPT ![t].pc = "fill", ![t].filled = row.filled + f.qty]
  <2>1. /\ task'[t].pc = "fill" /\ task'[t].fill = f /\ task'[t].filled = row.filled + f.qty
        /\ \A u \in Tasks : u # t => task'[u] = task[u]
    BY <1>3 DEF IInv, LocalsOK, Locals
  <2> HIDE DEF row
  <2>2. OnceInv'
    <3>1. \A u \in Tasks : \A g \in Fills : Stores(u, g)' => Stores(u, g)
      BY <1>1, <2>1 DEF Stores
    <3>2. \A g \in Fills : Once(g)'
      BY <1>1, <3>1, OnceStays DEF BackInv, OnceInv
    <3> QED
      BY <1>1, <3>2 DEF BackInv, OnceInv
  <2>3. ASSUME NEW o \in OrderIds, RecordedOnce(o)' PROVE Backed(o)'
    <3>1. /\ RecordedOnce(o) /\ RowQuantity(o)' = RowQuantity(o)
          /\ Backed(o) /\ RowQuantity(o) \in Nat
      BY <1>1, <2>3, RowQuantityType DEF RecordedOnce, RowQuantity, RowsFor, BackInv
    <3>2. \A u \in Tasks : At(u, "update", o)' <=> At(u, "update", o)
      BY <1>1, <2>1 DEF At
    <3>3. \A u \in Tasks : u # t => (At(u, "fill", o)' <=> At(u, "fill", o))
      BY <2>1 DEF At
    <3>4. At(t, "fill", o)' => o = f.order /\ row = orders[o]
      BY <2>1 DEF At, row
    <3>5. ~At(t, "update", o)
      BY <1>1 DEF At
    <3>6. At(t, "fill", o)' => task'[t].filled <= RowQuantity(o) + task'[t].fill.qty
      <4>1. orders[o].filled <= RowQuantity(o)
        BY <3>1 DEF Backed
      <4> QED
        BY <1>1, <2>1, <3>1, <3>4, <4>1
    <3>7. ASSUME ~disturbed', At(t, "fill", o)'
          PROVE  task'[t].filled = RowQuantity(o) + task'[t].fill.qty
      <4>1. \A u \in Tasks : ~At(u, "update", o)
        <5>1. Busy(t) /\ ~disturbed
          BY <1>1, <3>7 DEF Busy
        <5>2. \A u \in Tasks : u # t => task[u].pc = "idle"
          BY <5>1, Alone
        <5> QED
          BY <1>1, <5>2 DEF At
      <4> QED
        BY <1>1, <2>1, <3>1, <3>4, <3>7, <4>1 DEF Backed, Exact
    <3>8. ASSUME ~disturbed' PROVE Exact(o)'
      <4>1. Exact(o)
        BY <1>1, <3>1, <3>8 DEF Backed
      <4>2. (\A u \in Tasks : ~At(u, "update", o)') => orders'[o].filled = RowQuantity(o)'
        BY <1>1, <3>1, <3>2, <4>1 DEF Exact
      <4>3. \A u \in Tasks : At(u, "update", o)' => task'[u].filled = RowQuantity(o)'
        BY <2>1, <3>1, <3>2, <3>5, <4>1 DEF Exact
      <4>4. ASSUME NEW u \in Tasks, u # t, At(u, "fill", o)'
            PROVE  task'[u].filled = RowQuantity(o)' + task'[u].fill.qty
        BY <2>1, <3>1, <3>3, <4>1, <4>4 DEF Exact
      <4> QED
        BY <3>1, <3>7, <3>8, <4>2, <4>3, <4>4 DEF Exact
    <3>9. orders'[o].filled <= RowQuantity(o)'
      BY <1>1, <3>1 DEF Backed
    <3>10. \A u \in Tasks : At(u, "update", o)' => task'[u].filled <= RowQuantity(o)'
      BY <2>1, <3>1, <3>2, <3>5 DEF Backed
    <3>11. ASSUME NEW u \in Tasks, u # t, At(u, "fill", o)'
           PROVE  task'[u].filled <= RowQuantity(o)' + task'[u].fill.qty
      BY <2>1, <3>1, <3>3, <3>11 DEF Backed
    <3> QED
      BY <3>1, <3>6, <3>8, <3>9, <3>10, <3>11 DEF Backed
  <2> QED
    BY <2>2, <2>3 DEF BackInv
<1> QED
  BY <1>2, <1>3 DEF ReadOrder

\* The fill is stored: what its call will claim is backed from now on.
LEMMA StoreKeeps ==
  ASSUME IInv, LedgerInv, BackInv, NEW t \in Tasks, InsertFill(t)
  PROVE  BackInv'
<1>0. PICK f \in Fills : f = task[t].fill
  BY DEF InsertFill, IInv, LocalsOK
<1>1. /\ task[t].pc = "fill" /\ f \in Fills /\ f.order \in OrderIds /\ f.qty \in Nat
      /\ fillRows' = fillRows \cup {f} /\ UNCHANGED <<orders, delivered, disturbed>>
      /\ task'[t].pc = "update" /\ task'[t].fill = f /\ task'[t].filled = task[t].filled
      /\ task[t].filled \in Int
      /\ \A u \in Tasks : u # t => task'[u] = task[u]
  <2>1. task[t].pc = "fill" /\ f \in Fills /\ task[t] \in Locals
    BY <1>0 DEF InsertFill, IInv, LocalsOK
  <2>2. f.order \in OrderIds /\ f.qty \in Nat
    BY <2>1, FillAssumption
  <2> QED
    BY <1>0, <2>1, <2>2 DEF InsertFill, Goto, FillRowsWith, IInv, LocalsOK, Locals
<1>3. OnceInv'
  <2>1. \A u \in Tasks : \A g \in Fills : Stores(u, g)' => Stores(u, g) /\ u # t
    BY <1>1 DEF Stores
  <2>2. Stores(t, f) /\ Once(f)
    BY <1>1, <1>0 DEF Stores, BackInv, OnceInv
  <2>3. Once(f)'
    <3>1. delivered[f] # 0 /\ delivered'[f] = delivered[f]
      BY <1>1, <2>2 DEF Once
    <3>2. delivered[f] <= 1 => \A u \in Tasks : Stores(u, f) => u = t
      BY <2>2 DEF Once
    <3>3. delivered[f] <= 1 => \A u \in Tasks : ~Stores(u, f)'
      BY <1>1, <2>1, <3>2
    <3> QED
      BY <3>1, <3>3 DEF Once
  <2>4. ASSUME NEW g \in Fills PROVE Once(g)'
    BY <1>1, <2>1, <2>3, <2>4, OnceStays DEF BackInv, OnceInv
  <2>5. IsFiniteSet(fillRows')
    BY <1>1, FS_AddElement DEF BackInv, OnceInv
  <2> QED
    BY <1>1, <2>4, <2>5 DEF BackInv, OnceInv
<1>4. ASSUME NEW o \in OrderIds, RecordedOnce(o)' PROVE Backed(o)'
  <2>1. RecordedOnce(o) /\ Backed(o) /\ RowQuantity(o) \in Nat
    BY <1>1, <1>4, RowQuantityType DEF RecordedOnce, BackInv
  <2>2. CASE f.order = o
    <3>1. f \notin fillRows
      <4>1. delivered[f] <= 1
        BY <1>1, <2>1, <2>2 DEF RecordedOnce
      <4> QED
        BY <1>1, <1>0, <4>1 DEF BackInv, OnceInv, Once, Stores
    <3>2. RowQuantity(o)' = RowQuantity(o) + f.qty
      BY <1>1, <2>2, <3>1, RowAdds DEF BackInv
    <3>3. /\ At(t, "update", o)' /\ At(t, "fill", o) /\ ~At(t, "fill", o)'
          /\ \A u \in Tasks : \A pc \in {"fill", "update"} :
               u # t => (At(u, pc, o)' <=> At(u, pc, o))
      BY <1>1, <1>0, <2>2 DEF At
    <3>4. \A u \in Tasks : \A pc \in {"fill", "update"} :
            At(u, pc, o) => task[u].filled \in Int /\ task[u].fill.qty \in Nat
      BY FillAssumption DEF At, IInv, LocalsOK, Locals
    <3>5. orders[o].filled \in Int
      BY DEF IInv, RowsOK, Rows
    <3>6. task'[t].filled <= RowQuantity(o)'
      BY <1>1, <1>0, <2>1, <3>2, <3>3 DEF Backed
    <3>7. ASSUME ~disturbed' PROVE Exact(o)'
      <4>1. Busy(t) /\ ~disturbed
        BY <1>1, <3>7 DEF Busy
      <4>2. \A u \in Tasks : u # t => task[u].pc = "idle"
        BY <4>1, Alone
      <4>3. \A u \in Tasks : u # t => ~At(u, "fill", o)' /\ ~At(u, "update", o)'
        BY <1>1, <4>2 DEF At
      <4>4. task'[t].filled = RowQuantity(o)'
        BY <1>1, <1>0, <2>1, <3>2, <3>3, <4>1 DEF Backed, Exact
      <4> QED
        BY <3>3, <4>3, <4>4 DEF Exact
    <3>8. orders'[o].filled <= RowQuantity(o)'
      BY <1>1, <2>1, <3>2, <3>5 DEF Backed
    <3>9. ASSUME NEW u \in Tasks, u # t
          PROVE  /\ At(u, "fill", o)' => task'[u].filled <= RowQuantity(o)' + task'[u].fill.qty
                 /\ At(u, "update", o)' => task'[u].filled <= RowQuantity(o)'
      <4>1. task'[u] = task[u]
        BY <1>1, <3>9
      <4>2. CASE At(u, "fill", o)
        <5>1. task[u].filled <= RowQuantity(o) + task[u].fill.qty
          BY <2>1, <4>2 DEF Backed
        <5>2. ~At(u, "update", o)
          BY <4>2 DEF At
        <5> QED
          BY <1>1, <2>1, <3>2, <3>3, <3>4, <3>9, <4>1, <4>2, <5>1, <5>2
      <4>3. CASE At(u, "update", o)
        <5>1. task[u].filled <= RowQuantity(o)
          BY <2>1, <4>3 DEF Backed
        <5>2. ~At(u, "fill", o)
          BY <4>3 DEF At
        <5> QED
          BY <1>1, <2>1, <3>2, <3>3, <3>4, <3>9, <4>1, <4>3, <5>1, <5>2
      <4> QED
        BY <3>3, <3>9, <4>2, <4>3
    <3> QED
      BY <3>3, <3>6, <3>7, <3>8, <3>9 DEF Backed
  <2>3. CASE f.order # o
    <3>1. RowQuantity(o)' = RowQuantity(o)
      BY <1>1, <2>3 DEF RowQuantity, RowsFor
    <3>2. \A u \in Tasks : \A pc \in {"fill", "update"} :
            (At(u, pc, o)' <=> At(u, pc, o)) /\ (At(u, pc, o) => task'[u] = task[u])
      BY <1>1, <1>0, <2>3 DEF At
    <3> QED
      BY <1>1, <2>1, <3>1, <3>2 DEF Backed, Exact
  <2> QED
    BY <2>2, <2>3
<1> QED
  BY <1>3, <1>4 DEF BackInv

\* The order is written: it claims what its call was about to claim.
LEMMA WriteKeeps ==
  ASSUME IInv, LedgerInv, BackInv, NEW t \in Tasks, UpdateOrder(t)
  PROVE  BackInv'
<1> DEFINE q == task[t].fill.order
<1>1. /\ task[t].pc = "update" /\ task[t].fill \in Fills /\ q \in OrderIds
      /\ UNCHANGED <<fillRows, delivered, disturbed>>
      /\ task'[t].pc = "ledger"
      /\ \A u \in Tasks : u # t => task'[u] = task[u]
      /\ orders'[q].filled = task[t].filled
      /\ \A o \in OrderIds : o # q => orders'[o] = orders[o]
  <2>1. task[t].pc = "update" /\ task[t].fill \in Fills
    BY DEF UpdateOrder, IInv, LocalsOK
  <2>2. q \in OrderIds
    BY <2>1, FillAssumption
  <2>3. orders' = [orders EXCEPT ![q] = RowWith(@, t)] /\ orders[q] \in Rows
    BY <2>2 DEF UpdateOrder, IInv, RowsOK
  <2>4. RowWith(orders[q], t).filled = task[t].filled
    BY <2>3 DEF RowWith, Rows
  <2> HIDE DEF q
  <2>5. orders'[q].filled = task[t].filled /\ \A o \in OrderIds : o # q => orders'[o] = orders[o]
    BY <2>2, <2>3, <2>4 DEF IInv, RowsOK
  <2> QED
    BY <2>1, <2>2, <2>5 DEF UpdateOrder, Goto, IInv, LocalsOK, Locals
<1>2. OnceInv'
  <2>1. \A u \in Tasks : \A g \in Fills : Stores(u, g)' => Stores(u, g)
    BY <1>1 DEF Stores
  <2>2. \A g \in Fills : Once(g)'
    BY <1>1, <2>1, OnceStays DEF BackInv, OnceInv
  <2> QED
    BY <1>1, <2>2 DEF BackInv, OnceInv
<1>3. ASSUME NEW o \in OrderIds, RecordedOnce(o)' PROVE Backed(o)'
  <2>1. /\ RecordedOnce(o) /\ Backed(o) /\ RowQuantity(o)' = RowQuantity(o)
    BY <1>1, <1>3 DEF RecordedOnce, BackInv, RowQuantity, RowsFor
  <2>2. \A u \in Tasks : \A pc \in {"fill", "update"} :
          At(u, pc, o)' => At(u, pc, o) /\ task'[u] = task[u] /\ u # t
    BY <1>1 DEF At
  <2>3. CASE o = q
    <3>1. At(t, "update", o)
      BY <1>1, <2>3 DEF At
    <3>2. orders'[o].filled <= RowQuantity(o)'
      BY <1>1, <2>1, <2>3, <3>1 DEF Backed
    <3>3. ASSUME ~disturbed' PROVE Exact(o)'
      <4>1. orders'[o].filled = RowQuantity(o)'
        BY <1>1, <2>1, <2>3, <3>1, <3>3 DEF Backed, Exact
      <4> QED
        BY <1>1, <2>1, <2>2, <3>3, <4>1 DEF Backed, Exact
    <3> QED
      BY <2>1, <2>2, <3>2, <3>3 DEF Backed
  <2>4. CASE o # q
    <3>1. ~At(t, "update", o) /\ orders'[o] = orders[o]
      BY <1>1, <2>4 DEF At
    <3>2. \A u \in Tasks : At(u, "update", o) => At(u, "update", o)'
      BY <1>1, <3>1 DEF At
    <3> QED
      BY <1>1, <2>1, <2>2, <3>1, <3>2 DEF Backed, Exact
  <2> QED
    BY <2>3, <2>4
<1> QED
  BY <1>2, <1>3 DEF BackInv

\* Every step keeps the orders backed by the rows.
LEMMA NextBackInv == IInv /\ LedgerInv /\ BackInv /\ [Next]_vars => BackInv'
<1> SUFFICES ASSUME IInv, LedgerInv, BackInv, [Next]_vars PROVE BackInv'
  OBVIOUS
<1> USE DEF tables
<1>1. CASE UNCHANGED vars
  BY <1>1, CallsStay DEF vars
<1>2. ASSUME NEW p \in Procs, Start(p) PROVE BackInv'
  BY <1>2, CallsStay DEF Start
<1>3. ASSUME NEW p \in Procs, Exit(p) PROVE BackInv'
  <2>1. \A t \in Tasks : task'[t] = task[t] \/ task'[t].pc \notin {"read", "fill", "update"}
    BY <1>3, IdleType DEF Exit
  <2>2. ASSUME ~disturbed' PROVE ~disturbed /\ \A t \in Tasks : task'[t] = task[t]
    BY <1>3, <2>2 DEF Exit
  <2> QED
    BY <1>3, <2>1, <2>2, CallsStay DEF Exit
<1>4. ASSUME NEW t \in Tasks, NEW l, task' = [task EXCEPT ![t] = l],
             l.pc \notin {"read", "fill", "update"}, task[t].pc # "update",
             UNCHANGED <<fillRows, delivered>>, ~disturbed' => ~disturbed,
             \A o \in OrderIds : orders'[o].filled = orders[o].filled
      PROVE  BackInv'
  <2>1. /\ task'[t].pc \notin {"read", "fill", "update"}
        /\ \A u \in Tasks : u # t => task'[u] = task[u]
    BY <1>4 DEF IInv, LocalsOK
  <2> QED
    BY <1>4, <2>1, CallsStay
<1>5. ASSUME NEW t \in Tasks, NEW r \in Requests, SubmitOrder(t, r) PROVE BackInv'
  <2> DEFINE l == [Idle EXCEPT !.pc = "check", !.req = r]
  <2>1. l.pc = "check" /\ task' = [task EXCEPT ![t] = l] /\ task[t].pc = "idle"
    BY <1>5, IdleType DEF SubmitOrder, Begin, Free, Idle
  <2> HIDE DEF l
  <2> QED
    BY <1>4, <1>5, <2>1 DEF SubmitOrder, Begin
<1>6. ASSUME NEW t \in Tasks, CheckKey(t) PROVE BackInv'
  <2>1. CASE Done(t)
    BY <1>4, <1>6, <2>1, IdleType DEF CheckKey, Done
  <2>2. CASE Goto(t, "insert")
    <3> DEFINE l == [task[t] EXCEPT !.pc = "insert"]
    <3>1. l.pc = "insert" /\ task' = [task EXCEPT ![t] = l]
      BY <2>2 DEF Goto, IInv, LocalsOK, Locals
    <3> HIDE DEF l
    <3> QED
      BY <1>4, <1>6, <3>1 DEF CheckKey
  <2> QED
    BY <1>6, <2>1, <2>2 DEF CheckKey
<1>7. ASSUME NEW t \in Tasks, InsertOrder(t) PROVE BackInv'
  <2>1. task[t].pc = "insert" /\ task[t].req.order \in OrderIds
    BY <1>7, RequestTypes DEF InsertOrder, IInv, LocalsOK
  <2>2. \A o \in OrderIds : orders'[o].filled = orders[o].filled
    BY <1>7, <2>1 DEF InsertOrder, Taken, NewRow, NoRow, IInv, RowsOK
  <2> QED
    BY <1>4, <1>7, <2>1, <2>2, IdleType DEF InsertOrder, Done
<1>8. ASSUME NEW t \in Tasks, CreateAccount(t) PROVE BackInv'
  <2> DEFINE l == [Idle EXCEPT !.pc = "account"]
  <2>1. l.pc = "account" /\ task' = [task EXCEPT ![t] = l] /\ task[t].pc = "idle"
    BY <1>8, IdleType DEF CreateAccount, Begin, Free, Idle
  <2> HIDE DEF l
  <2> QED
    BY <1>4, <1>8, <2>1 DEF CreateAccount, Begin
<1>9. ASSUME NEW t \in Tasks, InsertAccount(t) \/ UpdateBalance(t) PROVE BackInv'
  BY <1>4, <1>9, IdleType DEF InsertAccount, UpdateBalance, Done
<1>10. ASSUME NEW t \in Tasks, LedgerUpdate(t) PROVE BackInv'
  <2>1. CASE Done(t)
    BY <1>4, <1>10, <2>1, IdleType DEF LedgerUpdate, Done
  <2>2. ASSUME NEW a, NEW b, task' = [task EXCEPT ![t].pc = "entries", ![t].rows = a, ![t].balance = b]
        PROVE  BackInv'
    <3> DEFINE l == [task[t] EXCEPT !.pc = "entries", !.rows = a, !.balance = b]
    <3>1. l.pc = "entries" /\ task' = [task EXCEPT ![t] = l]
      BY <2>2 DEF IInv, LocalsOK, Locals
    <3> HIDE DEF l
    <3> QED
      BY <1>4, <1>10, <3>1 DEF LedgerUpdate
  <2> QED
    BY <1>10, <2>1, <2>2 DEF LedgerUpdate
<1>11. ASSUME NEW t \in Tasks, InsertEntry(t) PROVE BackInv'
  <2>1. CASE Done(t)
    BY <1>4, <1>11, <2>1, IdleType DEF InsertEntry, Done
  <2>2. CASE task' = [task EXCEPT ![t].rows = Tail(@)]
    <3> DEFINE l == [task[t] EXCEPT !.rows = Tail(task[t].rows)]
    <3>1. l.pc = "entries" /\ task' = [task EXCEPT ![t] = l]
      BY <1>11, <2>2 DEF InsertEntry, IInv, LocalsOK, Locals
    <3> HIDE DEF l
    <3> QED
      BY <1>4, <1>11, <3>1 DEF InsertEntry
  <2> QED
    BY <1>11, <2>1, <2>2 DEF InsertEntry
<1>12. ASSUME NEW t \in Tasks,
              (\E f \in Fills : RecordFill(t, f)) \/ ReadOrder(t) \/ InsertFill(t) \/ UpdateOrder(t)
       PROVE  BackInv'
  BY <1>12, RecordKeeps, ReadKeeps, StoreKeeps, WriteKeeps
<1> QED
  BY <1>1, <1>2, <1>3, <1>5, <1>6, <1>7, <1>8, <1>9, <1>10, <1>11, <1>12 DEF Next

\* oms_postgres.py:190-231: an order whose fill ids are recorded once never
\* claims more than its fill rows hold, whatever interleaves and wherever a
\* process dies; while nothing overlaps or dies it claims exactly that.
THEOREM DurableFillsAreBacked == Spec => []FilledIsBacked
<1>1. BackInv => FilledIsBacked
  <2>1. ASSUME BackInv, NEW o \in OrderIds, RecordedOnce(o), Quiet, ~disturbed
        PROVE  orders[o].filled = RowQuantity(o)
    <3>1. \A t \in Tasks : ~At(t, "update", o)
      BY <2>1, IdleType DEF Quiet, At
    <3> QED
      BY <2>1, <3>1 DEF BackInv, Backed, Exact
  <2> QED
    BY <2>1 DEF BackInv, Backed, FilledIsBacked
<1> QED
  BY <1>1, InitIInv, InitLedgerInv, InitBackInv, NextIInv, NextLedgerInv, NextBackInv, PTL DEF Spec
=============================================================================
