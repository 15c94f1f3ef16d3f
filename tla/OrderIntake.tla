----------------------------- MODULE OrderIntake -----------------------------
(***************************************************************************)
(* Order intake: InMemoryOMS.create_order (core/oms.py) in front of the    *)
(* durable SQLiteIdempotencyStore (core/oms_idempotency.py).               *)
(*                                                                         *)
(* A process is one service or CLI invocation.  What it keeps in memory    *)
(* (the orders and the fast-path cache) dies with it; the idempotency      *)
(* table does not.  create_order is synchronous, so inside one process it  *)
(* runs to its end before another call starts, but it is cut here at its   *)
(* two database calls, because other processes and crashes come between.   *)
(* The caller keeps the order it gets back and sends it to the broker,     *)
(* whether it is the one it brought, a known one or the stub of a row: it   *)
(* never compares (_execute_order, analytics/qualification/execution.py).   *)
(* An order the risk gate refused is created too, and never sent.           *)
(***************************************************************************)
EXTENDS Naturals, FiniteSets

CONSTANTS
  Procs,        \* process incarnations that may run
  Clients,      \* client_order_id values
  OrderIds,     \* uuid4 supply for order_id
  None,         \* no value (Python None)
  Refused,      \* client ids of orders the risk gate refused: created, not sent
  StoreFaults   \* may a write of the idempotency table fail?

ASSUME NoneAssumption ==
  None \notin OrderIds /\ None \notin Clients
ASSUME RefusedAssumption == Refused \subseteq Clients
ASSUME FlagAssumption == StoreFaults \in BOOLEAN

VARIABLES
  alive,        \* which processes are running
  orders,       \* InMemoryOMS._orders: order_id -> client_order_id
  cache,        \* InMemoryOMS._idempotency: client_order_id -> order_id
  store,        \* the idempotency table, shared and durable
  call,         \* the create_order call a process is inside of, or has to send
  sent,         \* how often the broker received an order, by client id and order
  told,         \* <<client_order_id, order_id>> pairs returned to callers
  used,         \* order ids already generated
  faulted,      \* history: client ids for which a write of the table raised
  contested     \* history: client ids whose row one process wrote while another
                \* was past its lookup of the same id

vars == <<alive, orders, cache, store, call, sent, told, used, faulted, contested>>

NoCall == [pc |-> "idle", client |-> None, order |-> None]

Calls == {NoCall} \cup
         [pc : {"lookup", "persist", "send"}, client : Clients, order : OrderIds]

EmptyOrders == [o \in OrderIds |-> None]
EmptyCache  == [c \in Clients |-> None]

TypeOK ==
  /\ alive \in [Procs -> BOOLEAN]
  /\ orders \in [Procs -> [OrderIds -> Clients \cup {None}]]
  /\ cache \in [Procs -> [Clients -> OrderIds \cup {None}]]
  /\ store \in [Clients -> OrderIds \cup {None}]
  /\ call \in [Procs -> Calls]
  /\ sent \in [Clients -> [OrderIds -> Nat]]
  /\ told \subseteq Clients \X OrderIds
  /\ used \subseteq OrderIds
  /\ faulted \subseteq Clients
  /\ contested \subseteq Clients

Init ==
  /\ alive = [p \in Procs |-> FALSE]
  /\ orders = [p \in Procs |-> EmptyOrders]
  /\ cache = [p \in Procs |-> EmptyCache]
  /\ store = EmptyCache
  /\ call = [p \in Procs |-> NoCall]
  /\ sent = [c \in Clients |-> [o \in OrderIds |-> 0]]
  /\ told = {}
  /\ used = {}
  /\ faulted = {}
  /\ contested = {}

-----------------------------------------------------------------------------
(* Process life *)

Start(p) ==
  /\ ~alive[p]
  /\ alive' = [alive EXCEPT ![p] = TRUE]
  /\ UNCHANGED <<orders, cache, store, call, sent, told, used, faulted, contested>>

\* A crash, or a clean exit: everything but the table is gone.
Crash(p) ==
  /\ alive[p]
  /\ alive' = [alive EXCEPT ![p] = FALSE]
  /\ orders' = [orders EXCEPT ![p] = EmptyOrders]
  /\ cache' = [cache EXCEPT ![p] = EmptyCache]
  /\ call' = [call EXCEPT ![p] = NoCall]
  /\ UNCHANGED <<store, sent, told, used, faulted, contested>>

-----------------------------------------------------------------------------
(* create_order *)

\* The order the fast path finds: both the cache and the order are there.
Known(p, c) ==
  /\ cache[p][c] # None
  /\ orders[p][cache[p][c]] # None

\* create_order hands back order o for client id c; unless the risk gate
\* refused the order, sending what was handed back is what comes next.
Return(p, c, o) ==
  /\ call' = [call EXCEPT ![p] = IF c \in Refused THEN NoCall
                                 ELSE [pc |-> "send", client |-> c, order |-> o]]
  /\ told' = told \cup {<<c, o>>}

\* A caller brings a fresh order; the fast path answers if it can.
CreateOrder(p, c, o) ==
  /\ alive[p]
  /\ call[p] = NoCall
  /\ o \notin used
  /\ used' = used \cup {o}
  /\ IF Known(p, c)
       THEN Return(p, c, cache[p][c])
       ELSE /\ call' = [call EXCEPT ![p] = [pc |-> "lookup", client |-> c, order |-> o]]
            /\ UNCHANGED told
  /\ UNCHANGED <<alive, orders, cache, store, sent, faulted, contested>>

\* Mutant: the lookup after a cache miss asks the cache again.
FoundInCache(p, c) == cache[p][c]

\* The durable row for a client_order_id, None if there is none.
Found(p, c) == store[c]

\* SELECT on the table: a row ends the call, with the order in memory or a stub.
StoreGet(p) ==
  LET c == call[p].client
      found == Found(p, c)
  IN
  /\ call[p].pc = "lookup"
  /\ \/ /\ found = None
        /\ call' = [call EXCEPT ![p].pc = "persist"]
        /\ UNCHANGED <<cache, told>>
     \/ /\ found # None
        /\ Return(p, c, found)
        /\ cache' = IF orders[p][found] # None
                      THEN [cache EXCEPT ![p][c] = found]
                      ELSE cache
  /\ UNCHANGED <<alive, orders, store, sent, used, faulted, contested>>

\* _orders and _idempotency are written before the table is.
Remember(p, c, o) ==
  /\ orders' = [orders EXCEPT ![p][o] = c]
  /\ cache' = [cache EXCEPT ![p][c] = o]

\* Mutant: the row is never written.
InsertNothing(c, o) == store

\* INSERT OR IGNORE into the table.
InsertOrIgnore(c, o) ==
  IF store[c] = None THEN [store EXCEPT ![c] = o] ELSE store

\* Another process missed in the table for c and is about to write its row.
Rival(p, c) ==
  \E q \in Procs \ {p} : call[q].pc = "persist" /\ call[q].client = c

\* The row is written, then the order goes back to the caller.
StorePut(p) ==
  LET c == call[p].client
      o == call[p].order
  IN
  /\ call[p].pc = "persist"
  /\ Remember(p, c, o)
  /\ store' = InsertOrIgnore(c, o)
  /\ Return(p, c, o)
  /\ contested' = IF Rival(p, c) THEN contested \cup {c} ELSE contested
  /\ UNCHANGED <<alive, sent, used, faulted>>

\* The INSERT raises: memory keeps the order, the caller gets the exception.
StorePutFails(p) ==
  /\ StoreFaults
  /\ call[p].pc = "persist"
  /\ Remember(p, call[p].client, call[p].order)
  /\ call' = [call EXCEPT ![p] = NoCall]
  /\ faulted' = faulted \cup {call[p].client}
  /\ UNCHANGED <<alive, store, sent, told, used, contested>>

-----------------------------------------------------------------------------
(* broker.submit: the caller sends the order it was handed, whatever it is. *)

Send(p) ==
  LET c == call[p].client
      o == call[p].order
  IN
  /\ call[p].pc = "send"
  /\ call' = [call EXCEPT ![p] = NoCall]
  /\ sent' = [sent EXCEPT ![c][o] = @ + 1]
  /\ UNCHANGED <<alive, orders, cache, store, told, used, faulted, contested>>

Next ==
  \E p \in Procs :
    \/ Start(p)
    \/ Crash(p)
    \/ \E c \in Clients, o \in OrderIds : CreateOrder(p, c, o)
    \/ StoreGet(p)
    \/ StorePut(p)
    \/ StorePutFails(p)
    \/ Send(p)

Spec == Init /\ [][Next]_vars

-----------------------------------------------------------------------------
(* Properties *)

\* Client ids for which the table no longer decides: a write raised, and memory
\* keeps an order no row names; or two processes both missed before either
\* wrote, and each goes on with its own order.
Spoilt == faulted \cup contested

\* What callers were told is stable: every reply for a client_order_id, in this
\* process, a later one or another one alive, names the same order
\* (core/oms.py:140-143), unless the id is spoilt.
StableReply ==
  \A r, s \in told : r[1] = s[1] /\ r[1] \notin Spoilt => r[2] = s[2]

\* Whatever reaches the broker bears the order id the durable row names (the
\* broker keeps it as local_order_id, execution.py:88-99): a first send, the
\* send a retry repeats, and the stub a restarted process sends.  No order goes
\* out before its row is there, unless the id is spoilt.
SentUnderItsName ==
  \A c \in Clients \ Spoilt, o \in OrderIds : sent[c][o] > 0 => store[c] = o

\* Intake implements the abstract promise, reading the table as the name.
Promise == INSTANCE DurableNaming WITH name <- store, spoilt <- Spoilt
ImplementsPromise == Promise!Spec

\* core/oms.py:3-5 and the comment at core/oms.py:162-164 promise more: the
\* broker is not contacted twice for one client_order_id.  create_order cannot
\* keep this promise while its caller sends whatever it is handed.
AtMostOnce ==
  \A c \in Clients : \A n, o \in OrderIds :
    /\ sent[c][n] <= 1
    /\ sent[c][n] > 0 /\ sent[c][o] > 0 => n = o

\* core/oms.py:140-143: on a cache miss the durable layer resolves the
\* client_order_id to the same order_id, a failed write notwithstanding.
StableAfterFaults == \A r, s \in told : r[1] = s[1] => r[2] = s[2]
=============================================================================
