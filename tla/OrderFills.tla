----------------------------- MODULE OrderFills -----------------------------
(***************************************************************************)
(* Fills on orders: InMemoryOMS.create_order, update_order, record_fill    *)
(* and its outbox (core/oms.py), with the InMemoryLedger (core/ledger.py)  *)
(* attached.  Everything runs in one process and every method is           *)
(* synchronous, so a method is one step; what makes it hard is that the    *)
(* broker redelivers and reorders fills, that a fill may come for an order *)
(* this process does not know, that callers update orders from copies they *)
(* took earlier, and that a method that raises has already written part of *)
(* its effect.  (Idempotent creation is OrderIntake's subject: here an     *)
(* order is created once.)                                                 *)
(***************************************************************************)
EXTENDS Integers, FiniteSets, Functions

CONSTANTS
  OrderIds,       \* orders that may be created
  Quantity,       \* the quantity of each order
  Fills,          \* records [order, account, qty, price, side, pnl, fee]
  Identified,     \* the fills that carry a broker_fill_id
  Accounts,       \* account ids
  InitialBalance, \* the balance an account is created with
  Futures,        \* InMemoryOMS(futures=...): the notional is not a cash flow
  StaleUpdates,   \* do callers update from copies that may be old?
  MaxEvents,      \* bound: outbox events in a behaviour
  None            \* no value

ASSUME QuantityAssumption == Quantity \in [OrderIds -> Nat]
ASSUME FillsAssumption ==
  /\ Identified \subseteq Fills
  /\ \A f \in Fills :
       /\ f.order \in OrderIds /\ f.account \in Accounts
       /\ f.qty \in Nat /\ f.qty > 0
       /\ f.price \in Nat /\ f.pnl \in Int /\ f.fee \in Nat
       /\ f.side \in {"buy", "sell"}
ASSUME AccountAssumption ==
  InitialBalance \in Nat /\ None \notin Int \cup Fills /\ Futures \in BOOLEAN

VARIABLES
  order,      \* InMemoryOMS._orders
  copies,     \* order records callers hold
  recorded,   \* InMemoryOMS._fills; its identified part is _broker_fill_index
  outbox,     \* InMemoryOMS._outbox
  emitted,    \* number of events ever appended to it
  balance,    \* InMemoryLedger._accounts[...].current_balance
  entries,    \* InMemoryLedger._entries: how often each fill was entered
  counted,    \* history: how often each fill was added to its order
  paid,       \* history: how often each fill moved a balance
  refused,    \* history: fills record_fill raised on as overfills
  acked       \* history: fills record_fill returned from

vars == <<order, copies, recorded, outbox, emitted, balance, entries,
          counted, paid, refused, acked>>

CallerStatus == {"pending", "submitted", "cancelled", "rejected"}
Status == CallerStatus \cup {"partially_filled", "filled"}

Orders == [status : Status, filled : Nat, version : Nat]
NoOrder == [status |-> "none", filled |-> 0, version |-> 0]

Events == [n : Nat, type : Status \cup {"created"}, order : OrderIds,
           fill : Fills \cup {None}, status : {"pending", "published"}]

TypeOK ==
  /\ order \in [OrderIds -> Orders \cup {NoOrder}]
  /\ copies \in [OrderIds -> SUBSET Orders]
  /\ recorded \subseteq Fills
  /\ outbox \subseteq Events
  /\ emitted \in Nat
  /\ balance \in [Accounts -> Int \cup {None}]
  /\ entries \in [Fills -> Nat]
  /\ counted \in [Fills -> Nat]
  /\ paid \in [Fills -> Nat]
  /\ refused \subseteq Fills
  /\ acked \subseteq Fills

Init ==
  /\ order = [o \in OrderIds |-> NoOrder]
  /\ copies = [o \in OrderIds |-> {}]
  /\ recorded = {}
  /\ outbox = {}
  /\ emitted = 0
  /\ balance = [a \in Accounts |-> None]
  /\ entries = [f \in Fills |-> 0]
  /\ counted = [f \in Fills |-> 0]
  /\ paid = [f \in Fills |-> 0]
  /\ refused = {}
  /\ acked = {}

ledgerVars == <<balance, entries, paid>>
fillVars == <<recorded, counted, refused, acked>>

-----------------------------------------------------------------------------
(* Outbox *)

Emit(type, o, f) ==
  /\ emitted < MaxEvents
  /\ emitted' = emitted + 1
  /\ outbox' = outbox \cup
       {[n |-> emitted + 1, type |-> type, order |-> o, fill |-> f,
         status |-> "pending"]}

\* Mutant: the event is removed and its published copy never appended.
MarkPublishedDropped(e) ==
  /\ e.status = "pending"
  /\ outbox' = outbox \ {e}
  /\ UNCHANGED <<order, copies, emitted, ledgerVars, fillVars>>

\* mark_published: the event is replaced by its published copy.
MarkPublished(e) ==
  /\ e.status = "pending"
  /\ outbox' = (outbox \ {e}) \cup {[e EXCEPT !.status = "published"]}
  /\ UNCHANGED <<order, copies, emitted, ledgerVars, fillVars>>

-----------------------------------------------------------------------------
(* Orders *)

\* What a caller keeps of a record it was handed, or that get_order finds from
\* now on.
Hand(o, rec) ==
  copies' = IF StaleUpdates THEN [copies EXCEPT ![o] = @ \cup {rec}] ELSE copies

CreateOrder(o) ==
  LET new == [status |-> "pending", filled |-> 0, version |-> 1]
  IN
  /\ order[o] = NoOrder
  /\ order' = [order EXCEPT ![o] = new]
  /\ Hand(o, new)
  /\ Emit("created", o, None)
  /\ UNCHANGED <<ledgerVars, fillVars>>

\* The record a caller updates from: the current one, or one it kept.
Bases(o) == IF StaleUpdates THEN copies[o] ELSE {order[o]}

\* update_order replaces the record by the caller's, whatever its fills are.
UpdateOrder(o, s) ==
  /\ order[o] # NoOrder
  /\ s = "pending" => order[o].status = "pending"
  /\ \E base \in Bases(o) :
       LET new == [base EXCEPT !.status = s]
       IN order' = [order EXCEPT ![o] = new] /\ Hand(o, new)
  /\ Emit(s, o, None)
  /\ UNCHANGED <<ledgerVars, fillVars>>

-----------------------------------------------------------------------------
(* Ledger *)

CreateAccount(a) ==
  /\ balance[a] = None
  /\ balance' = [balance EXCEPT ![a] = InitialBalance]
  /\ UNCHANGED <<order, copies, outbox, emitted, entries, paid, fillVars>>

\* Cash side of the trade: none for futures, a debit for a buy.
Notional(f) ==
  IF Futures THEN 0
  ELSE IF f.side = "buy" THEN -(f.price * f.qty) ELSE f.price * f.qty

\* The sum of the entries a fill writes: notional, realized P&L, commission.
Impact(f) == Notional(f) + f.pnl - f.fee

\* Mutant: the ledger checks the old balance.
AffordsOld(f) == balance[f.account] >= 0

Affords(f) == balance[f.account] + Impact(f) >= 0

\* InMemoryLedger.record_fill: the entries are appended before the balance is
\* found too small, and stay when the call raises.
LedgerRefuses(f) ==
  \/ /\ balance[f.account] = None
     /\ UNCHANGED ledgerVars
  \/ /\ balance[f.account] # None
     /\ ~Affords(f)
     /\ entries' = [entries EXCEPT ![f] = @ + 1]
     /\ UNCHANGED <<balance, paid>>

LedgerAccepts(f) ==
  /\ balance[f.account] # None
  /\ Affords(f)
  /\ entries' = [entries EXCEPT ![f] = @ + 1]
  /\ balance' = [balance EXCEPT ![f.account] = @ + Impact(f)]
  /\ paid' = [paid EXCEPT ![f] = @ + 1]

-----------------------------------------------------------------------------
(* record_fill *)

\* Mutant: the duplicate index is keyed by the Fill object, which is new with
\* every delivery, and so never finds one.
NeverDuplicate(f) == FALSE

\* A broker_fill_id seen before for this order.
Duplicate(f) == f \in recorded \cap Identified

\* Mutant: the guard compares with what is filled before this fill.
OverfillsLate(f) == order[f.order].filled > Quantity[f.order]

Overfills(f) == order[f.order].filled + f.qty > Quantity[f.order]

Known(f) == order[f.order] # NoOrder

RecordDuplicate(f) ==
  /\ Duplicate(f)
  /\ acked' = acked \cup {f}
  /\ UNCHANGED <<order, copies, recorded, outbox, emitted, ledgerVars, counted, refused>>

\* A fill for an order this process does not have is kept and returned.
RecordOrphan(f) ==
  /\ ~Duplicate(f)
  /\ ~Known(f)
  /\ recorded' = recorded \cup {f}
  /\ acked' = acked \cup {f}
  /\ UNCHANGED <<order, copies, outbox, emitted, ledgerVars, counted, refused>>

\* The guard raises after the fill and its index entry were stored.
RecordOverfill(f) ==
  /\ ~Duplicate(f)
  /\ Known(f)
  /\ Overfills(f)
  /\ recorded' = recorded \cup {f}
  /\ refused' = refused \cup {f}
  /\ UNCHANGED <<order, copies, outbox, emitted, ledgerVars, counted, acked>>

\* Mutant: the new filled quantity is that of this fill alone.
FilledWithLast(rec, f) ==
  [status |-> "partially_filled", filled |-> f.qty, version |-> rec.version + 1]

FilledWith(rec, f) ==
  LET total == rec.filled + f.qty
  IN [status |-> IF total >= Quantity[f.order] THEN "filled" ELSE "partially_filled",
      filled |-> total, version |-> rec.version + 1]

\* The order and the outbox are written first; the ledger may raise after.
RecordCounted(f) ==
  /\ ~Duplicate(f)
  /\ Known(f)
  /\ ~Overfills(f)
  /\ recorded' = recorded \cup {f}
  /\ order' = [order EXCEPT ![f.order] = FilledWith(@, f)]
  /\ Hand(f.order, FilledWith(order[f.order], f))
  /\ counted' = [counted EXCEPT ![f] = @ + 1]
  /\ Emit("filled", f.order, f)
  /\ \/ LedgerAccepts(f) /\ acked' = acked \cup {f}
     \/ LedgerRefuses(f) /\ acked' = acked
  /\ UNCHANGED refused

RecordFill(f) ==
  RecordDuplicate(f) \/ RecordOrphan(f) \/ RecordOverfill(f) \/ RecordCounted(f)

Next ==
  \/ \E o \in OrderIds : CreateOrder(o)
  \/ \E o \in OrderIds, s \in CallerStatus : UpdateOrder(o, s)
  \/ \E a \in Accounts : CreateAccount(a)
  \/ \E f \in Fills : RecordFill(f)
  \/ \E e \in outbox : MarkPublished(e)

Spec == Init /\ [][Next]_vars

-----------------------------------------------------------------------------
(* Properties *)

FillsOf(o) == {f \in recorded : f.order = o}
FillsFor(a) == {f \in recorded : f.account = a}

\* How often the fills of an order were counted, and how many lots that makes.
Times(o) == SumFunctionOnSet(counted, FillsOf(o))
Lots(o) == SumFunctionOnSet([f \in Fills |-> counted[f] * f.qty], FillsOf(o))

\* What the ledger has paid, and what it has entered, for an account.
Payments(a) == SumFunctionOnSet([f \in Fills |-> paid[f] * Impact(f)], FillsFor(a))
Entered(a) == SumFunctionOnSet([f \in Fills |-> entries[f] * Impact(f)], FillsFor(a))

\* However fills are redelivered and reordered, an order that lost no update to
\* an old copy, as its version tells, is filled by the sum of the fills counted
\* for it; no record ever claims more than that sum (core/oms.py:214-265).
FilledIsSumOfFills ==
  \A o \in OrderIds :
    /\ order[o].filled <= Lots(o)
    /\ order[o].version = Times(o) + 1 => order[o].filled = Lots(o)

\* Even when callers update from old copies, no record claims more than its
\* quantity (core/oms.py:239-244).
NoOverfill == \A o \in OrderIds : order[o].filled <= Quantity[o]

\* A fill with a broker_fill_id moves its order, its account and the ledger's
\* entries at most once, however often it is delivered, and the ledger books no
\* fill that the order did not count (core/oms.py:225-229, 282-294).
CountedOnce ==
  \A f \in Fills :
    /\ f \in Identified => counted[f] <= 1
    /\ paid[f] <= entries[f] /\ entries[f] <= counted[f]

\* The balance of an account is its initial balance plus the impact of the
\* fills the ledger accepted, and never negative (core/ledger.py:6, 41, 189-197).
BalanceExplained ==
  \A a \in Accounts :
    balance[a] # None => balance[a] = InitialBalance + Payments(a) /\ balance[a] >= 0

\* The outbox tells of every counted fill exactly once, also when the ledger
\* raised after it, and of nothing else (core/oms.py:267-280).
EventsMatchFills ==
  \A f \in Fills :
    Cardinality({e \in outbox : e.fill = f}) = counted[f]

\* core/oms.py:220-223: the overfill guard raises on a fill that would exceed
\* the order.  A fill so refused is not later acknowledged as recorded.
RefusedStaysRefused == refused \cap acked = {}

\* core/ledger.py:130: all entries of a fill are applied to the balance
\* atomically, so the entries written always sum to the balance's movement.
EntriesExplainBalance ==
  \A a \in Accounts :
    balance[a] # None => balance[a] = InitialBalance + Entered(a)

\* core/oms.py:189: backward status transitions are prevented: a filled order
\* does not become an open one again.
NoBackwardStatus ==
  [][\A o \in OrderIds :
       order[o].status = "filled" => order'[o].status \notin {"pending", "submitted"}]_vars
=============================================================================
