-------------------------- MODULE OrderFillsProofs --------------------------
(***************************************************************************)
(* Fills on orders, for any orders, fills, accounts and quantities, and    *)
(* with callers that may update from old copies.  FillsInv carries types,  *)
(* quantities and the once-only counting; CountInv, MoneyInv and EventInv  *)
(* relate records, balances and outbox to the totals over all fills, each  *)
(* by the lemmas on sums of module Sums.                                   *)
(***************************************************************************)
EXTENDS OrderFills, Sums, TLAPS

\* A fill's impact on cash is an integer.
LEMMA ImpactType == \A f \in Fills : Impact(f) \in Int
  BY FillsAssumption DEF Impact, Notional

\* What an applied fill makes of an order record.
LEMMA FilledWithType ==
  ASSUME NEW f \in Fills, NEW rec \in Orders
  PROVE  /\ FilledWith(rec, f) \in Orders
         /\ FilledWith(rec, f).filled = rec.filled + f.qty
  BY FillsAssumption DEF FilledWith, Orders, Status

\* Appending an event keeps the outbox well typed.
LEMMA EmitType ==
  ASSUME TypeOK, NEW t \in Status \cup {"created"}, NEW o \in OrderIds,
         NEW f \in Fills \cup {None}, Emit(t, o, f)
  PROVE  outbox' \subseteq Events /\ emitted' \in Nat
  BY DEF Emit, TypeOK, Events

\* No record, current or held by a caller, claims more than was ordered.
WithinQuantity ==
  /\ \A o \in OrderIds : order[o].filled <= Quantity[o]
  /\ \A o \in OrderIds : \A rec \in copies[o] : rec.filled <= Quantity[o]

\* An identified fill is counted only once it is recorded, and the ledger
\* follows the count.
CountedIsRecorded ==
  \A f \in Fills :
    /\ counted[f] > 0 => f \in recorded
    /\ f \in Identified => counted[f] <= 1
    /\ paid[f] <= entries[f] /\ entries[f] <= counted[f]

NeverOverdrawn == \A a \in Accounts : balance[a] # None => balance[a] >= 0

FillsInv == TypeOK /\ WithinQuantity /\ CountedIsRecorded /\ NeverOverdrawn

\* The OMS starts with no orders, fills or accounts.
LEMMA InitFillsInv == Init => FillsInv
  BY QuantityAssumption DEF Init, FillsInv, TypeOK, WithinQuantity,
     CountedIsRecorded, NeverOverdrawn, NoOrder

\* Every step of the OMS and its ledger keeps the invariant.
LEMMA StepFillsInv == FillsInv /\ [Next]_vars => FillsInv'
<1> SUFFICES ASSUME FillsInv, [Next]_vars PROVE FillsInv'
  OBVIOUS
<1> USE QuantityAssumption, AccountAssumption DEF FillsInv, ledgerVars, fillVars
<1>1. ASSUME NEW o \in OrderIds, CreateOrder(o) PROVE FillsInv'
  <2> DEFINE new == [status |-> "pending", filled |-> 0, version |-> 1]
  <2>1. new \in Orders
    BY DEF Orders, Status, CallerStatus
  <2>2. outbox' \subseteq Events /\ emitted' \in Nat
    BY <1>1, EmitType DEF CreateOrder
  <2>3. /\ order' = [order EXCEPT ![o] = new]
        /\ copies' = copies \/ copies' = [copies EXCEPT ![o] = @ \cup {new}]
        /\ UNCHANGED <<recorded, balance, entries, counted, paid, refused, acked>>
    BY <1>1 DEF CreateOrder, Hand
  <2>4. TypeOK'
    BY <2>1, <2>2, <2>3 DEF TypeOK
  <2>5. WithinQuantity'
    BY <2>1, <2>3 DEF WithinQuantity, TypeOK
  <2> QED
    BY <2>3, <2>4, <2>5 DEF CountedIsRecorded, NeverOverdrawn
<1>2. ASSUME NEW o \in OrderIds, NEW s \in CallerStatus, UpdateOrder(o, s)
      PROVE FillsInv'
  <2>1. PICK base \in Bases(o) :
          /\ order' = [order EXCEPT ![o] = [base EXCEPT !.status = s]]
          /\ Hand(o, [base EXCEPT !.status = s])
    BY <1>2 DEF UpdateOrder
  <2> DEFINE new == [base EXCEPT !.status = s]
  <2>2. base \in Orders /\ base.filled <= Quantity[o]
    BY <1>2, <2>1 DEF UpdateOrder, Bases, TypeOK, WithinQuantity
  <2>3. new \in Orders /\ new.filled <= Quantity[o]
    BY <2>2 DEF Orders, Status
  <2>4. outbox' \subseteq Events /\ emitted' \in Nat
    BY <1>2, EmitType DEF UpdateOrder, Status
  <2>5. /\ copies' = copies \/ copies' = [copies EXCEPT ![o] = @ \cup {new}]
        /\ UNCHANGED <<recorded, balance, entries, counted, paid, refused, acked>>
    BY <1>2, <2>1 DEF UpdateOrder, Hand
  <2>6. TypeOK'
    <3>1. order' \in [OrderIds -> Orders \cup {NoOrder}]
      BY <2>1, <2>3 DEF TypeOK
    <3>2. copies' \in [OrderIds -> SUBSET Orders]
      BY <2>3, <2>5 DEF TypeOK
    <3> QED BY <2>4, <2>5, <3>1, <3>2 DEF TypeOK
  <2>7. WithinQuantity'
    <3>1. order'[o] = new /\ \A q \in OrderIds : q # o => order'[q] = order[q]
      BY <2>1 DEF TypeOK
    <3>2. /\ \A q \in OrderIds : q # o => copies'[q] = copies[q]
          /\ copies'[o] \subseteq copies[o] \cup {new}
      BY <2>5 DEF TypeOK
    <3> HIDE DEF new
    <3> QED BY <2>3, <3>1, <3>2 DEF WithinQuantity
  <2> QED
    BY <2>5, <2>6, <2>7 DEF CountedIsRecorded, NeverOverdrawn
<1>3. ASSUME NEW a \in Accounts, CreateAccount(a) PROVE FillsInv'
  BY <1>3 DEF CreateAccount, TypeOK, WithinQuantity, CountedIsRecorded, NeverOverdrawn
<1>4. ASSUME NEW f \in Fills, RecordDuplicate(f) PROVE FillsInv'
  BY <1>4 DEF RecordDuplicate, TypeOK, WithinQuantity, CountedIsRecorded, NeverOverdrawn
<1>5. ASSUME NEW f \in Fills, RecordOrphan(f) \/ RecordOverfill(f) PROVE FillsInv'
  BY <1>5 DEF RecordOrphan, RecordOverfill, TypeOK, WithinQuantity,
     CountedIsRecorded, NeverOverdrawn
<1>6. ASSUME NEW f \in Fills, RecordCounted(f) PROVE FillsInv'
  <2> DEFINE o == f.order
             rec == order[o]
  <2>1. /\ o \in OrderIds /\ f.account \in Accounts /\ f.qty \in Nat
        /\ Impact(f) \in Int
    BY FillsAssumption, ImpactType
  <2>2. /\ rec \in Orders
        /\ rec.filled + f.qty <= Quantity[o]
        /\ (f \in Identified => counted[f] = 0)
    <3>1. rec \in Orders
      BY <1>6, <2>1 DEF RecordCounted, Known, TypeOK
    <3>2. rec.filled + f.qty <= Quantity[o]
      BY <1>6, <2>1, <3>1 DEF RecordCounted, Overfills, Orders
    <3>3. f \in Identified => counted[f] = 0
      BY <1>6 DEF RecordCounted, Duplicate, CountedIsRecorded, TypeOK
    <3> QED BY <3>1, <3>2, <3>3
  <2>3. /\ order' = [order EXCEPT ![o] = FilledWith(rec, f)]
        /\ FilledWith(rec, f) \in Orders
        /\ FilledWith(rec, f).filled = rec.filled + f.qty
        /\ counted' = [counted EXCEPT ![f] = @ + 1]
        /\ recorded' = recorded \cup {f}
        /\ acked' \subseteq acked \cup {f}
        /\ refused' = refused
    BY <1>6, <2>2, FilledWithType DEF RecordCounted
  <2> HIDE DEF rec
  <2>9. copies' = copies \/ copies' = [copies EXCEPT ![o] = @ \cup {FilledWith(rec, f)}]
    BY <1>6 DEF RecordCounted, Hand, rec
  <2>4. outbox' \subseteq Events /\ emitted' \in Nat
    BY <1>6, <2>1, EmitType DEF RecordCounted, Status
  <2>5. /\ balance' \in [Accounts -> Int \cup {None}]
        /\ entries' \in [Fills -> Nat] /\ paid' \in [Fills -> Nat]
        /\ NeverOverdrawn'
    <3>1. CASE LedgerAccepts(f)
      BY <2>1, <3>1 DEF LedgerAccepts, Affords, TypeOK, NeverOverdrawn
    <3>2. CASE LedgerRefuses(f)
      BY <2>1, <3>2 DEF LedgerRefuses, TypeOK, NeverOverdrawn
    <3> QED BY <1>6, <3>1, <3>2 DEF RecordCounted
  <2>6. TypeOK'
    <3>1. order' \in [OrderIds -> Orders \cup {NoOrder}]
      BY <2>3 DEF TypeOK
    <3>2. counted' \in [Fills -> Nat]
      BY <2>3 DEF TypeOK
    <3>3. recorded' \subseteq Fills /\ acked' \subseteq Fills
      BY <2>3 DEF TypeOK
    <3>4. copies' \in [OrderIds -> SUBSET Orders]
      BY <2>3, <2>9 DEF TypeOK
    <3> QED BY <2>3, <2>4, <2>5, <3>1, <3>2, <3>3, <3>4 DEF TypeOK
  <2>7. WithinQuantity'
    <3>1. /\ \A q \in OrderIds : order'[q] = IF q = o THEN FilledWith(rec, f) ELSE order[q]
          /\ \A q \in OrderIds : copies'[q] \subseteq
               copies[q] \cup (IF q = o THEN {FilledWith(rec, f)} ELSE {})
      BY <2>1, <2>3, <2>9 DEF TypeOK
    <3> QED BY <2>2, <2>3, <3>1 DEF WithinQuantity
  <2>8. CountedIsRecorded'
    <3>1. CASE LedgerAccepts(f)
      BY <2>2, <2>3, <3>1 DEF LedgerAccepts, CountedIsRecorded, TypeOK
    <3>2. CASE LedgerRefuses(f)
      BY <2>2, <2>3, <3>2 DEF LedgerRefuses, CountedIsRecorded, TypeOK
    <3> QED BY <1>6, <3>1, <3>2 DEF RecordCounted
  <2> QED BY <2>5, <2>6, <2>7, <2>8
<1>7. ASSUME NEW e \in outbox, MarkPublished(e) PROVE FillsInv'
  <2>1. [e EXCEPT !.status = "published"] \in Events
    BY DEF TypeOK, Events
  <2> QED BY <1>7, <2>1 DEF MarkPublished, TypeOK, WithinQuantity,
             CountedIsRecorded, NeverOverdrawn
<1>8. CASE UNCHANGED vars
  BY <1>8 DEF vars, TypeOK, WithinQuantity, CountedIsRecorded, NeverOverdrawn
<1> QED
  BY <1>1, <1>2, <1>3, <1>4, <1>5, <1>6, <1>7, <1>8 DEF Next, RecordFill

\* Type correctness of the OMS and ledger state.
THEOREM FillsTypeCorrect == Spec => []TypeOK
<1>1. FillsInv => TypeOK
  BY DEF FillsInv
<1> QED
  BY <1>1, InitFillsInv, StepFillsInv, PTL DEF Spec

\* No order is ever filled beyond its quantity, even if callers replace it
\* from old copies between fills (core/oms.py:239-244).
THEOREM OrdersNeverOverfilled == Spec => []NoOverfill
<1>1. FillsInv => NoOverfill
  BY DEF FillsInv, WithinQuantity, NoOverfill
<1> QED
  BY <1>1, InitFillsInv, StepFillsInv, PTL DEF Spec

\* Redelivery of a fill with a broker_fill_id is harmless: it is counted, and
\* entered and paid in the ledger, at most once (core/oms.py:225-229).
THEOREM FillsCountedOnce == Spec => []CountedOnce
<1>1. FillsInv => CountedOnce
  BY DEF FillsInv, CountedIsRecorded, CountedOnce
<1> QED
  BY <1>1, InitFillsInv, StepFillsInv, PTL DEF Spec

\* No account is ever overdrawn (core/ledger.py:41, 191-194).
THEOREM AccountsNeverOverdrawn == Spec => []NeverOverdrawn
<1>1. FillsInv => NeverOverdrawn
  BY DEF FillsInv
<1> QED
  BY <1>1, InitFillsInv, StepFillsInv, PTL DEF Spec

-----------------------------------------------------------------------------
(* Totals: what orders are filled with *)

\* The totals of an order are natural numbers, over finitely many fills.
LEMMA TotalTypes ==
  ASSUME FillsInv, IsFiniteSet(recorded), NEW o \in OrderIds
  PROVE  /\ IsFiniteSet(FillsOf(o)) /\ FillsOf(o) \subseteq Fills
         /\ Times(o) \in Nat /\ Lots(o) \in Nat
<1>1. IsFiniteSet(FillsOf(o)) /\ FillsOf(o) \subseteq Fills
  BY FS_Subset DEF FillsInv, TypeOK, FillsOf
<1>2. \A f \in FillsOf(o) : counted[f] \in Nat
  BY <1>1 DEF FillsInv, TypeOK
<1>3. \A f \in FillsOf(o) : [g \in Fills |-> counted[g] * g.qty][f] \in Nat
  BY <1>1, <1>2, FillsAssumption
<1> QED
  BY <1>1, <1>2, <1>3, SumOfNats DEF Times, Lots

\* One fill is recorded, and counted n times more.
LEMMA CountsMove ==
  ASSUME FillsInv, FillsInv', IsFiniteSet(recorded), NEW f \in Fills, NEW n \in {0, 1},
         recorded' = recorded \cup {f}, counted' = [counted EXCEPT ![f] = @ + n],
         NEW o \in OrderIds
  PROVE  /\ Times(o)' = Times(o) + (IF f.order = o THEN n ELSE 0)
         /\ Lots(o)' = Lots(o) + (IF f.order = o THEN n * f.qty ELSE 0)
<1> DEFINE S == FillsOf(o)
           T == FillsOf(o)'
           F == [g \in Fills |-> counted[g] * g.qty]
           G == [g \in Fills |-> counted'[g] * g.qty]
<1>1. /\ counted \in [Fills -> Nat] /\ counted' \in [Fills -> Nat] /\ f.qty \in Nat
      /\ counted'[f] = counted[f] + n /\ \A g \in Fills \ {f} : counted'[g] = counted[g]
  BY FillsAssumption DEF FillsInv, TypeOK
<1>2. /\ S \subseteq Fills /\ IsFiniteSet(S) /\ Times(o) \in Nat /\ Lots(o) \in Nat
  BY TotalTypes
<1>3. /\ F[f] \in Nat /\ G[f] = F[f] + n * f.qty /\ G[f] \in Nat
      /\ \A g \in S : F[g] \in Int
      /\ \A g \in Fills \ {f} : G[g] = F[g]
      /\ counted[f] = 0 => F[f] = 0
  <2>1. F[f] \in Nat /\ G[f] = F[f] + n * f.qty /\ G[f] \in Nat
    <3> DEFINE k == counted[f]
               q == f.qty
    <3>1. k \in Nat /\ q \in Nat /\ F[f] = k * q /\ G[f] = (k + n) * q
      BY <1>1
    <3> HIDE DEF k, q
    <3>2. (k + n) * q = k * q + n * q /\ k * q \in Nat /\ n * q \in Nat
      BY <3>1
    <3> QED
      BY <3>1, <3>2 DEF q
  <2>2. \A g \in S : F[g] \in Int
    BY <1>1, <1>2, FillsAssumption
  <2> QED
    BY <1>1, <2>1, <2>2
<1>4. Times(o)' = SumFunctionOnSet(counted', T) /\ Lots(o)' = SumFunctionOnSet(G, T)
  BY DEF Times, Lots
<1>5. Times(o) = SumFunctionOnSet(counted, S) /\ Lots(o) = SumFunctionOnSet(F, S)
  BY DEF Times, Lots
<1> HIDE DEF F, G
<1>6. CASE f.order = o
  <2>1. T = S \cup {f} /\ (f \notin S => counted[f] = 0)
    BY <1>6, <1>1 DEF FillsInv, CountedIsRecorded, FillsOf
  <2>2. n \in Int /\ n * f.qty \in Int
    BY <1>1
  <2>3. /\ \A g \in S : counted[g] \in Int
        /\ \A g \in S \ {f} : counted'[g] = counted[g] /\ G[g] = F[g]
    BY <1>1, <1>2, <1>3
  <2>4. counted[f] \in Int /\ F[f] \in Int
    BY <1>1, <1>3
  <2> HIDE DEF S, T
  <2>5. MovedBy(n, f, counted, S, counted', T)
    BY <1>1, <1>2, <2>1, <2>2, <2>3, <2>4 DEF MovedBy
  <2>6. MovedBy(n * f.qty, f, F, S, G, T)
    <3> DEFINE d == n * f.qty
    <3>1. d \in Int /\ G[f] = F[f] + d
      BY <1>3, <2>2
    <3> HIDE DEF d
    <3>2. MovedBy(d, f, F, S, G, T)
      BY <1>2, <1>3, <2>1, <2>3, <2>4, <3>1 DEF MovedBy
    <3> QED
      BY <3>2 DEF d
  <2> QED
    BY <1>4, <1>5, <1>6, <2>5, <2>6, SumMovedBy
<1>7. CASE f.order # o
  <2>1. T = S /\ f \notin S
    BY <1>7 DEF FillsOf
  <2> HIDE DEF S, T
  <2>2. \A g \in S : counted'[g] = counted[g] /\ G[g] = F[g]
    BY <1>1, <1>2, <1>3, <2>1
  <2>3. Times(o)' = Times(o) /\ Lots(o)' = Lots(o)
    BY <1>2, <1>4, <1>5, <2>1, <2>2, SumUnchanged
  <2> QED
    BY <1>2, <1>7, <2>3
<1> QED
  BY <1>6, <1>7

\* A step that records and counts nothing leaves every total alone.
LEMMA CountsStay ==
  ASSUME UNCHANGED <<recorded, counted>>
  PROVE  \A o \in OrderIds : Times(o)' = Times(o) /\ Lots(o)' = Lots(o) /\ FillsOf(o)' = FillsOf(o)
  BY DEF Times, Lots, FillsOf

\* A record of an order, current or held, tells at most of the counts so far,
\* and of all of them when its version says so.
Tells(o, r) ==
  /\ r.filled <= Lots(o)
  /\ r.version <= Times(o) + 1
  /\ r.version = Times(o) + 1 => r.filled = Lots(o)

CountInv ==
  /\ IsFiniteSet(recorded)
  /\ \A o \in OrderIds :
       /\ order[o] = NoOrder => Times(o) = 0 /\ Lots(o) = 0
       /\ order[o] # NoOrder => Tells(o, order[o])
       /\ \A r \in copies[o] : Tells(o, r)

\* Nothing is recorded and nothing filled at first.
LEMMA InitCountInv == Init => CountInv
<1> SUFFICES ASSUME Init PROVE CountInv
  OBVIOUS
<1>1. recorded = {} /\ IsFiniteSet(recorded)
  BY FS_EmptySet DEF Init
<1>2. ASSUME NEW o \in OrderIds PROVE Times(o) = 0 /\ Lots(o) = 0
  <2>1. FillsOf(o) = {}
    BY <1>1 DEF FillsOf
  <2> QED
    BY <2>1, SumOverNone DEF Times, Lots
<1> QED
  BY <1>1, <1>2 DEF Init, CountInv

\* The records of an order are replaced by ones that tell what some record of
\* it told, and no fill is counted.
LEMMA RecordsMove ==
  ASSUME CountInv, UNCHANGED <<recorded, counted>>, NEW o \in OrderIds, NEW r,
         Tells(o, r), r # NoOrder,
         order' = [order EXCEPT ![o] = r], DOMAIN order = OrderIds, DOMAIN copies = OrderIds,
         copies' = copies \/ copies' = [copies EXCEPT ![o] = @ \cup {r}]
  PROVE  CountInv'
<1>1. \A q \in OrderIds : Times(q)' = Times(q) /\ Lots(q)' = Lots(q)
  BY CountsStay
<1>2. \A q \in OrderIds : \A x : Tells(q, x)' <=> Tells(q, x)
  BY <1>1 DEF Tells
<1>3. order'[o] = r /\ \A q \in OrderIds : q # o => order'[q] = order[q]
  OBVIOUS
<1>4. \A q \in OrderIds : copies'[q] \subseteq copies[q] \cup (IF q = o THEN {r} ELSE {})
  OBVIOUS
<1> QED
  BY <1>1, <1>2, <1>3, <1>4 DEF CountInv

\* A fill that is stored without being counted changes no total.
LEMMA StoredOnly ==
  ASSUME FillsInv, FillsInv', CountInv, NEW f \in Fills, recorded' = recorded \cup {f},
         UNCHANGED <<counted, order, copies>>
  PROVE  CountInv'
<1>1. counted' = [counted EXCEPT ![f] = @ + 0]
  BY DEF FillsInv, TypeOK
<1>2. IsFiniteSet(recorded) /\ IsFiniteSet(recorded')
  BY FS_AddElement DEF CountInv
<1>3. ASSUME NEW o \in OrderIds PROVE Times(o)' = Times(o) /\ Lots(o)' = Lots(o)
  <2>1. /\ Times(o)' = Times(o) + (IF f.order = o THEN 0 ELSE 0)
        /\ Lots(o)' = Lots(o) + (IF f.order = o THEN 0 * f.qty ELSE 0)
    BY <1>1, <1>2, CountsMove
  <2>2. Times(o) \in Nat /\ Lots(o) \in Nat /\ 0 * f.qty = 0
    BY <1>2, TotalTypes, FillsAssumption
  <2> QED
    BY <2>1, <2>2
<1> QED
  BY <1>2, <1>3 DEF CountInv, Tells

\* An applied fill raises the totals of its order as it raises its record.
LEMMA CountedStep ==
  ASSUME FillsInv, FillsInv', CountInv, NEW f \in Fills, RecordCounted(f)
  PROVE  CountInv'
<1> DEFINE o == f.order
           rec == order[o]
<1>1. /\ o \in OrderIds /\ f.qty \in Nat
      /\ rec # NoOrder /\ rec \in Orders
      /\ recorded' = recorded \cup {f} /\ counted' = [counted EXCEPT ![f] = @ + 1]
      /\ order' = [order EXCEPT ![o] = FilledWith(rec, f)]
      /\ order \in [OrderIds -> Orders \cup {NoOrder}]
      /\ copies \in [OrderIds -> SUBSET Orders]
  BY FillsAssumption DEF RecordCounted, Known, FillsInv, TypeOK
<1>2. IsFiniteSet(recorded) /\ IsFiniteSet(recorded')
  BY <1>1, FS_AddElement DEF CountInv
<1>3. ASSUME NEW q \in OrderIds
      PROVE  /\ Times(q) \in Nat /\ Lots(q) \in Nat
             /\ q = o => Times(q)' = Times(q) + 1 /\ Lots(q)' = Lots(q) + f.qty
             /\ q # o => Times(q)' = Times(q) /\ Lots(q)' = Lots(q)
  <2>1. /\ Times(q)' = Times(q) + (IF f.order = q THEN 1 ELSE 0)
        /\ Lots(q)' = Lots(q) + (IF f.order = q THEN 1 * f.qty ELSE 0)
    BY <1>1, <1>2, CountsMove
  <2>2. Times(q) \in Nat /\ Lots(q) \in Nat /\ 1 * f.qty = f.qty
    BY <1>1, <1>2, TotalTypes
  <2> QED
    BY <2>1, <2>2
<1>4. /\ order'[o].filled = rec.filled + f.qty /\ order'[o].version = rec.version + 1
      /\ rec.filled \in Nat /\ rec.version \in Nat
      /\ \A q \in OrderIds : q # o => order'[q] = order[q]
  BY <1>1 DEF FilledWith, Orders
<1>5. \A q \in OrderIds : \A r \in copies[q] : r.filled \in Nat /\ r.version \in Nat
  BY <1>1 DEF Orders
<1>6. Tells(o, rec)
  BY <1>1 DEF CountInv
<1>7. Tells(o, order[o])' /\ order'[o] # NoOrder
  <2>1. order'[o].version # 0
    BY <1>4
  <2> QED
    BY <1>1, <1>3, <1>4, <1>6, <2>1 DEF Tells, NoOrder
<1>8. ASSUME NEW q \in OrderIds, NEW r \in copies'[q] PROVE Tells(q, r)'
  <2>1. r \in copies[q] \/ (q = o /\ r = order'[o])
    BY <1>1 DEF RecordCounted, Hand
  <2>2. CASE q = o /\ r = order'[o]
    BY <1>7, <2>2
  <2>3. CASE r \in copies[q]
    <3>1. Tells(q, r) /\ r.filled \in Nat /\ r.version \in Nat
      BY <1>5, <2>3 DEF CountInv
    <3>2. CASE q = o
      BY <1>1, <1>3, <3>1, <3>2 DEF Tells
    <3>3. CASE q # o
      BY <1>3, <3>1, <3>3 DEF Tells
    <3> QED
      BY <3>2, <3>3
  <2> QED
    BY <2>1, <2>2, <2>3
<1>9. ASSUME NEW q \in OrderIds, q # o
      PROVE  /\ order'[q] = NoOrder => Times(q)' = 0 /\ Lots(q)' = 0
             /\ order'[q] # NoOrder => Tells(q, order[q])'
  <2>1. order'[q] = order[q] /\ Times(q)' = Times(q) /\ Lots(q)' = Lots(q)
    BY <1>3, <1>4, <1>9
  <2> QED
    BY <2>1 DEF CountInv, Tells
<1> QED
  BY <1>1, <1>2, <1>7, <1>8, <1>9 DEF CountInv

\* Every step keeps the records true to what was counted.
LEMMA StepCountInv == FillsInv /\ FillsInv' /\ CountInv /\ [Next]_vars => CountInv'
<1> SUFFICES ASSUME FillsInv, FillsInv', CountInv, [Next]_vars PROVE CountInv'
  OBVIOUS
<1> USE DEF fillVars, ledgerVars
<1>0. DOMAIN order = OrderIds /\ DOMAIN copies = OrderIds
  BY DEF FillsInv, TypeOK
<1>1. ASSUME NEW o \in OrderIds, CreateOrder(o) PROVE CountInv'
  <2> DEFINE new == [status |-> "pending", filled |-> 0, version |-> 1]
  <2>1. /\ order[o] = NoOrder /\ order' = [order EXCEPT ![o] = new]
        /\ copies' = copies \/ copies' = [copies EXCEPT ![o] = @ \cup {new}]
        /\ UNCHANGED <<recorded, counted>>
    BY <1>1 DEF CreateOrder, Hand
  <2>2. Tells(o, new) /\ new # NoOrder
    BY <2>1 DEF CountInv, Tells, NoOrder
  <2> HIDE DEF new
  <2> QED
    BY <1>0, <2>1, <2>2, RecordsMove
<1>2. ASSUME NEW o \in OrderIds, NEW s \in CallerStatus, UpdateOrder(o, s) PROVE CountInv'
  <2>1. PICK base \in Bases(o) :
          /\ order' = [order EXCEPT ![o] = [base EXCEPT !.status = s]]
          /\ Hand(o, [base EXCEPT !.status = s])
    BY <1>2 DEF UpdateOrder
  <2> DEFINE new == [base EXCEPT !.status = s]
  <2>2. base \in Orders /\ Tells(o, base)
    BY <1>2, <2>1 DEF UpdateOrder, Bases, CountInv, FillsInv, TypeOK
  <2>3. new.filled = base.filled /\ new.version = base.version /\ new.status = s
    BY <2>2 DEF Orders
  <2>4. Tells(o, new) /\ new # NoOrder
    BY <2>2, <2>3 DEF Tells, NoOrder, CallerStatus
  <2>5. /\ order' = [order EXCEPT ![o] = new]
        /\ copies' = copies \/ copies' = [copies EXCEPT ![o] = @ \cup {new}]
        /\ UNCHANGED <<recorded, counted>>
    BY <1>2, <2>1 DEF UpdateOrder, Hand
  <2> HIDE DEF new
  <2> QED
    BY <1>0, <2>4, <2>5, RecordsMove
<1>3. ASSUME UNCHANGED <<recorded, counted, order, copies>> PROVE CountInv'
  BY <1>3, CountsStay DEF CountInv, Tells
<1>4. ASSUME NEW f \in Fills, RecordOrphan(f) \/ RecordOverfill(f) PROVE CountInv'
  BY <1>4, StoredOnly DEF RecordOrphan, RecordOverfill
<1>5. ASSUME NEW f \in Fills, RecordCounted(f) PROVE CountInv'
  BY <1>5, CountedStep
<1>6. ASSUME NEW a \in Accounts, CreateAccount(a) PROVE CountInv'
  BY <1>3, <1>6 DEF CreateAccount
<1>7. ASSUME NEW f \in Fills, RecordDuplicate(f) PROVE CountInv'
  BY <1>3, <1>7 DEF RecordDuplicate
<1>8. ASSUME NEW e \in outbox, MarkPublished(e) PROVE CountInv'
  BY <1>3, <1>8 DEF MarkPublished
<1>9. CASE UNCHANGED vars
  BY <1>3, <1>9 DEF vars
<1> QED
  BY <1>1, <1>2, <1>4, <1>5, <1>6, <1>7, <1>8, <1>9 DEF Next, RecordFill

\* However fills are redelivered and reordered, a record tells at most of the
\* fills counted for its order, and of all of them when it lost no update to an
\* old copy (core/oms.py:214-265).
THEOREM FilledTellsOfFills == Spec => []FilledIsSumOfFills
<1>1. CountInv /\ FillsInv => FilledIsSumOfFills
  <2> SUFFICES ASSUME CountInv, FillsInv, NEW o \in OrderIds
               PROVE  /\ order[o].filled <= Lots(o)
                      /\ order[o].version = Times(o) + 1 => order[o].filled = Lots(o)
    BY DEF FilledIsSumOfFills
  <2> QED
    BY DEF CountInv, Tells, NoOrder
<1> QED
  BY <1>1, InitFillsInv, StepFillsInv, InitCountInv, StepCountInv, PTL DEF Spec

-----------------------------------------------------------------------------
(* Payments: what a balance consists of *)

\* A balance is its initial value and the payments of the fills recorded for
\* it; no fill has been paid to an account that was never opened.
MoneyInv ==
  /\ IsFiniteSet(recorded)
  /\ \A f \in Fills : balance[f.account] = None => paid[f] = 0
  /\ \A a \in Accounts : balance[a] # None => balance[a] = InitialBalance + Payments(a)

\* No account is open at first and nothing is paid.
LEMMA InitMoneyInv == Init => MoneyInv
  BY FS_EmptySet, FillsAssumption DEF Init, MoneyInv

\* The payments of an account are an integer, over finitely many fills.
LEMMA PaymentsType ==
  ASSUME FillsInv, IsFiniteSet(recorded), NEW a \in Accounts
  PROVE  /\ IsFiniteSet(FillsFor(a)) /\ FillsFor(a) \subseteq Fills
         /\ \A f \in Fills : paid[f] \in Nat /\ Impact(f) \in Int /\ paid[f] * Impact(f) \in Int
         /\ Payments(a) \in Int
<1>1. IsFiniteSet(FillsFor(a)) /\ FillsFor(a) \subseteq Fills
  BY FS_Subset DEF FillsInv, TypeOK, FillsFor
<1>2. ASSUME NEW f \in Fills
      PROVE  paid[f] \in Nat /\ Impact(f) \in Int /\ paid[f] * Impact(f) \in Int
  <2>1. paid[f] \in Nat /\ Impact(f) \in Int
    BY ImpactType DEF FillsInv, TypeOK
  <2> DEFINE k == paid[f]
             m == Impact(f)
  <2> HIDE DEF k, m
  <2> QED
    BY <2>1 DEF k, m
<1>3. \A f \in FillsFor(a) : [g \in Fills |-> paid[g] * Impact(g)][f] \in Int
  BY <1>1, <1>2
<1> QED
  BY <1>1, <1>2, <1>3, SumOfInts DEF Payments

\* One fill is recorded, and paid n times more.
LEMMA PaymentsMove ==
  ASSUME FillsInv, FillsInv', IsFiniteSet(recorded), NEW f \in Fills, NEW n \in {0, 1},
         recorded' = recorded \cup {f}, paid' = [paid EXCEPT ![f] = @ + n],
         NEW a \in Accounts
  PROVE  Payments(a)' = Payments(a) + (IF f.account = a THEN n * Impact(f) ELSE 0)
<1> DEFINE S == FillsFor(a)
           T == FillsFor(a)'
           F == [g \in Fills |-> paid[g] * Impact(g)]
           G == [g \in Fills |-> paid'[g] * Impact(g)]
           d == n * Impact(f)
<1>1. /\ paid'[f] = paid[f] + n /\ \A g \in Fills \ {f} : paid'[g] = paid[g]
      /\ \A g \in Fills : paid[g] \in Nat /\ Impact(g) \in Int
  BY ImpactType DEF FillsInv, TypeOK
<1>2. S \subseteq Fills /\ IsFiniteSet(S) /\ Payments(a) \in Int
  BY PaymentsType
<1>3. F[f] \in Int /\ d \in Int /\ G[f] = F[f] + d /\ (paid[f] = 0 => F[f] = 0)
  <2> DEFINE k == paid[f]
             m == Impact(f)
  <2>1. k \in Nat /\ m \in Int /\ F[f] = k * m /\ G[f] = (k + n) * m /\ d = n * m
    BY <1>1
  <2> HIDE DEF k, m, d
  <2>2. (k + n) * m = k * m + n * m /\ k * m \in Int /\ n * m \in Int /\ 0 * m = 0
    BY <2>1
  <2> QED
    BY <2>1, <2>2 DEF k
<1>4. (\A g \in Fills : F[g] \in Int) /\ \A g \in Fills \ {f} : G[g] = F[g]
  <2>1. \A g \in Fills : F[g] = paid[g] * Impact(g) /\ G[g] = paid'[g] * Impact(g)
    OBVIOUS
  <2>2. \A g \in Fills : paid[g] * Impact(g) \in Int
    BY PaymentsType
  <2> QED
    BY <1>1, <2>1, <2>2
<1>5. Payments(a)' = SumFunctionOnSet(G, T) /\ Payments(a) = SumFunctionOnSet(F, S)
  BY DEF Payments, Impact, Notional
<1> HIDE DEF F, G, d
<1>6. CASE f.account = a
  <2>1. T = S \cup {f}
    BY <1>6 DEF FillsFor
  <2>2. f \notin S => F[f] = 0
    <3>1. f \notin S => f \notin recorded
      BY <1>6 DEF FillsFor
    <3>2. paid[f] <= counted[f] /\ (counted[f] > 0 => f \in recorded)
      BY DEF FillsInv, CountedIsRecorded, TypeOK
    <3>3. paid[f] \in Nat /\ counted[f] \in Nat
      BY DEF FillsInv, TypeOK
    <3> QED
      BY <1>3, <3>1, <3>2, <3>3
  <2>3. (\A g \in S : F[g] \in Int) /\ \A g \in S \ {f} : G[g] = F[g]
    BY <1>2, <1>4
  <2> HIDE DEF S, T
  <2>4. MovedBy(d, f, F, S, G, T)
    BY <1>2, <1>3, <2>1, <2>2, <2>3 DEF MovedBy
  <2>5. Payments(a)' = Payments(a) + d
    BY <1>5, <2>4, SumMovedBy
  <2> QED
    BY <1>6, <2>5 DEF d
<1>7. CASE f.account # a
  <2>1. T = S /\ f \notin S
    BY <1>7 DEF FillsFor
  <2>2. \A g \in S : G[g] = F[g]
    BY <1>2, <1>4, <2>1
  <2> HIDE DEF S, T
  <2>3. Payments(a)' = Payments(a)
    BY <1>2, <1>5, <2>1, <2>2, SumUnchanged
  <2> QED
    BY <1>2, <1>7, <2>3
<1> QED
  BY <1>6, <1>7

\* An account that is opened has been paid nothing yet.
LEMMA OpenedEmpty ==
  ASSUME FillsInv, MoneyInv, NEW a \in Accounts, balance[a] = None
  PROVE  Payments(a) = 0
<1> DEFINE S == FillsFor(a)
           F == [g \in Fills |-> paid[g] * Impact(g)]
<1>1. S \subseteq Fills /\ IsFiniteSet(S)
  BY PaymentsType DEF MoneyInv
<1>2. ASSUME NEW g \in S PROVE F[g] = 0
  <2>1. g \in Fills /\ paid[g] = 0 /\ Impact(g) \in Int
    BY <1>1, ImpactType DEF FillsFor, MoneyInv
  <2> DEFINE m == Impact(g)
  <2>2. F[g] = 0 * m /\ m \in Int
    BY <2>1
  <2> HIDE DEF m
  <2> QED
    BY <2>2
<1>3. Payments(a) = SumFunctionOnSet(F, S)
  BY DEF Payments
<1> HIDE DEF F, S
<1> QED
  BY <1>1, <1>2, <1>3, SumOfZeros

\* Every step keeps balances explained by payments.
LEMMA StepMoneyInv == FillsInv /\ FillsInv' /\ MoneyInv /\ [Next]_vars => MoneyInv'
<1> SUFFICES ASSUME FillsInv, FillsInv', MoneyInv, [Next]_vars PROVE MoneyInv'
  OBVIOUS
<1> USE DEF fillVars, ledgerVars
<1>1. ASSUME UNCHANGED <<recorded, balance, paid>> PROVE MoneyInv'
  BY <1>1 DEF MoneyInv, Payments, FillsFor, Impact, Notional
<1>2. ASSUME NEW a \in Accounts, CreateAccount(a) PROVE MoneyInv'
  <2>1. /\ balance[a] = None /\ UNCHANGED <<recorded, paid>>
        /\ balance'[a] = InitialBalance /\ \A b \in Accounts : b # a => balance'[b] = balance[b]
    BY <1>2 DEF CreateAccount, FillsInv, TypeOK
  <2>2. \A b \in Accounts : Payments(b)' = Payments(b)
    BY <2>1 DEF Payments, FillsFor, Impact, Notional
  <2>3. Payments(a) = 0 /\ InitialBalance \in Nat /\ InitialBalance # None
    BY <2>1, OpenedEmpty, AccountAssumption
  <2> QED
    BY <2>1, <2>2, <2>3, FillsAssumption DEF MoneyInv
<1>3. ASSUME NEW f \in Fills, recorded' = recorded \cup {f}, UNCHANGED <<balance, paid>>
      PROVE  MoneyInv'
  <2>1. paid' = [paid EXCEPT ![f] = @ + 0] /\ IsFiniteSet(recorded) /\ IsFiniteSet(recorded')
    BY <1>3, FS_AddElement DEF FillsInv, TypeOK, MoneyInv
  <2>2. ASSUME NEW a \in Accounts PROVE Payments(a)' = Payments(a)
    <3> DEFINE m == Impact(f)
    <3>1. Payments(a)' = Payments(a) + (IF f.account = a THEN 0 * m ELSE 0)
      BY <1>3, <2>1, PaymentsMove
    <3>2. Payments(a) \in Int /\ m \in Int
      BY <2>1, PaymentsType, ImpactType
    <3> HIDE DEF m
    <3>3. 0 * m = 0
      BY <3>2
    <3> QED
      BY <3>1, <3>2, <3>3
  <2> QED
    BY <1>3, <2>1, <2>2 DEF MoneyInv
<1>4. ASSUME NEW f \in Fills, recorded' = recorded \cup {f}, LedgerAccepts(f)
      PROVE  MoneyInv'
  <2>1. /\ paid' = [paid EXCEPT ![f] = @ + 1] /\ f.account \in Accounts
        /\ IsFiniteSet(recorded) /\ IsFiniteSet(recorded')
        /\ balance[f.account] # None
        /\ balance'[f.account] = balance[f.account] + Impact(f)
        /\ \A a \in Accounts : a # f.account => balance'[a] = balance[a]
        /\ \A g \in Fills : g # f => paid'[g] = paid[g]
    BY <1>4, FS_AddElement, FillsAssumption DEF LedgerAccepts, FillsInv, TypeOK, MoneyInv
  <2>2. ASSUME NEW a \in Accounts
        PROVE  /\ Payments(a) \in Int
               /\ a = f.account => Payments(a)' = Payments(a) + Impact(f)
               /\ a # f.account => Payments(a)' = Payments(a)
    <3> DEFINE m == Impact(f)
    <3>1. Payments(a)' = Payments(a) + (IF f.account = a THEN 1 * m ELSE 0)
      BY <1>4, <2>1, PaymentsMove
    <3>2. Payments(a) \in Int /\ m \in Int
      BY <2>1, PaymentsType, ImpactType
    <3> HIDE DEF m
    <3>3. 1 * m = m
      BY <3>2
    <3> QED
      BY <3>1, <3>2, <3>3 DEF m
  <2>3. ASSUME NEW a \in Accounts, balance'[a] # None
        PROVE  balance'[a] = InitialBalance + Payments(a)'
    <3>1. CASE a = f.account
      <4> DEFINE m == Impact(f)
                 p == Payments(a)
      <4>1. /\ balance[a] = InitialBalance + p /\ balance'[a] = balance[a] + m
            /\ Payments(a)' = p + m
        BY <2>1, <2>2, <3>1 DEF MoneyInv
      <4>2. InitialBalance \in Int /\ p \in Int /\ m \in Int
        BY <2>2, ImpactType, AccountAssumption
      <4> HIDE DEF m, p
      <4> QED
        BY <4>1, <4>2
    <3>2. CASE a # f.account
      BY <2>1, <2>2, <2>3, <3>2 DEF MoneyInv
    <3> QED
      BY <3>1, <3>2
  <2>4. ASSUME NEW g \in Fills, balance'[g.account] = None PROVE paid'[g] = 0
    <3>1. g.account # f.account
      <4>1. balance'[f.account] # None
        BY <2>1, ImpactType, AccountAssumption DEF FillsInv, TypeOK
      <4> QED
        BY <2>4, <4>1
    <3> QED
      BY <2>1, <2>4, <3>1, FillsAssumption DEF MoneyInv
  <2> QED
    BY <2>1, <2>3, <2>4 DEF MoneyInv
<1>5. ASSUME NEW f \in Fills, RecordFill(f) PROVE MoneyInv'
  <2>1. CASE RecordDuplicate(f)
    BY <1>1, <2>1 DEF RecordDuplicate
  <2>2. CASE RecordOrphan(f) \/ RecordOverfill(f)
    BY <1>3, <2>2 DEF RecordOrphan, RecordOverfill
  <2>3. CASE RecordCounted(f)
    BY <1>3, <1>4, <2>3 DEF RecordCounted, LedgerRefuses
  <2> QED
    BY <1>5, <2>1, <2>2, <2>3 DEF RecordFill
<1>6. ASSUME NEW o \in OrderIds, CreateOrder(o) PROVE MoneyInv'
  BY <1>1, <1>6 DEF CreateOrder
<1>7. ASSUME NEW o \in OrderIds, NEW s \in CallerStatus, UpdateOrder(o, s) PROVE MoneyInv'
  BY <1>1, <1>7 DEF UpdateOrder
<1>8. ASSUME NEW e \in outbox, MarkPublished(e) PROVE MoneyInv'
  BY <1>1, <1>8 DEF MarkPublished
<1>9. CASE UNCHANGED vars
  BY <1>1, <1>9 DEF vars
<1> QED
  BY <1>2, <1>5, <1>6, <1>7, <1>8, <1>9 DEF Next

\* The balance of an account is its initial balance and the impact of what the
\* ledger paid, and never negative (core/ledger.py:6, 41, 189-197).
THEOREM BalancesExplained == Spec => []BalanceExplained
<1>1. FillsInv /\ MoneyInv => BalanceExplained
  BY DEF FillsInv, MoneyInv, NeverOverdrawn, BalanceExplained
<1> QED
  BY <1>1, InitFillsInv, StepFillsInv, InitMoneyInv, StepMoneyInv, PTL DEF Spec

-----------------------------------------------------------------------------
(* The outbox *)

\* The events that tell of a fill.
Told(f) == {e \in outbox : e.fill = f}

\* Events are told apart by their numbers, and each fill is told of as often as
\* it was counted.
EventInv ==
  /\ IsFiniteSet(outbox)
  /\ \A e \in outbox : e.n <= emitted
  /\ \A e1, e2 \in outbox : e1.n = e2.n => e1 = e2
  /\ \A f \in Fills : Cardinality(Told(f)) = counted[f]

\* The outbox is empty at first.
LEMMA InitEventInv == Init => EventInv
<1> SUFFICES ASSUME Init PROVE EventInv
  OBVIOUS
<1>1. outbox = {} /\ IsFiniteSet(outbox) /\ \A f \in Fills : counted[f] = 0
  BY FS_EmptySet DEF Init
<1>2. \A f \in Fills : Told(f) = {}
  BY <1>1 DEF Told
<1> QED
  BY <1>1, <1>2, FS_EmptySet DEF EventInv

\* A new event tells once more of its fill, and of no other.
LEMMA EmitTells ==
  ASSUME TypeOK, EventInv, NEW t \in Status \cup {"created"}, NEW o \in OrderIds,
         NEW x \in Fills \cup {None}, Emit(t, o, x),
         \A f \in Fills : counted'[f] = counted[f] + (IF f = x THEN 1 ELSE 0)
  PROVE  EventInv'
<1> DEFINE new == [n |-> emitted + 1, type |-> t, order |-> o, fill |-> x,
                   status |-> "pending"]
<1>1. /\ outbox' = outbox \cup {new} /\ emitted' = emitted + 1 /\ emitted \in Nat
      /\ \A e \in outbox : e.n \in Nat
      /\ new.n = emitted + 1 /\ new.fill = x
  BY DEF Emit, TypeOK, Events
<1> HIDE DEF new
<1>2. new \notin outbox /\ IsFiniteSet(outbox) /\ IsFiniteSet(outbox')
  BY <1>1, FS_AddElement DEF EventInv
<1>3. ASSUME NEW f \in Fills PROVE Cardinality(Told(f))' = counted'[f]
  <2>1. /\ IsFiniteSet(Told(f)) /\ new \notin Told(f)
        /\ Cardinality(Told(f)) = counted[f] /\ counted[f] \in Nat
    BY <1>2, FS_Subset DEF Told, EventInv, TypeOK
  <2>2. CASE f = x
    <3>1. Told(f)' = Told(f) \cup {new}
      BY <1>1, <2>2 DEF Told
    <3>2. Cardinality(Told(f) \cup {new}) = Cardinality(Told(f)) + 1
      BY <2>1, FS_AddElement
    <3> QED
      BY <2>1, <2>2, <3>1, <3>2
  <2>3. CASE f # x
    <3>1. Told(f)' = Told(f)
      BY <1>1, <2>3 DEF Told
    <3> QED
      BY <2>1, <2>3, <3>1
  <2> QED
    BY <2>2, <2>3
<1>4. (\A e \in outbox' : e.n <= emitted') /\ \A e1, e2 \in outbox' : e1.n = e2.n => e1 = e2
  BY <1>1 DEF EventInv
<1> QED
  BY <1>2, <1>3, <1>4 DEF EventInv

\* A published event replaces its pending copy.
LEMMA PublishTells ==
  ASSUME TypeOK, EventInv, NEW e \in outbox, MarkPublished(e)
  PROVE  EventInv'
<1> DEFINE done == [e EXCEPT !.status = "published"]
<1>1. /\ outbox' = (outbox \ {e}) \cup {done} /\ emitted' = emitted /\ counted' = counted
      /\ done.n = e.n /\ done.fill = e.fill
  BY DEF MarkPublished, fillVars, TypeOK, Events
<1> HIDE DEF done
<1>2. done \notin outbox \ {e}
  BY <1>1 DEF EventInv
<1>3. IsFiniteSet(outbox) /\ IsFiniteSet(outbox')
  <2>1. IsFiniteSet(outbox \ {e})
    BY FS_Subset DEF EventInv
  <2> QED
    BY <1>1, <2>1, FS_AddElement DEF EventInv
<1>4. ASSUME NEW f \in Fills PROVE Cardinality(Told(f))' = counted'[f]
  <2>1. IsFiniteSet(Told(f)) /\ Cardinality(Told(f)) = counted[f] /\ counted[f] \in Nat
    BY <1>3, FS_Subset DEF Told, EventInv, TypeOK
  <2>2. CASE e.fill = f
    <3> DEFINE rest == Told(f) \ {e}
    <3>1. Told(f)' = rest \cup {done} /\ e \in Told(f) /\ done \notin rest
      BY <1>1, <1>2, <2>2 DEF Told
    <3>2. IsFiniteSet(rest) /\ Cardinality(rest) = Cardinality(Told(f)) - 1
      BY <2>1, <3>1, FS_RemoveElement
    <3>3. Cardinality(rest \cup {done}) = Cardinality(rest) + 1
      BY <3>1, <3>2, FS_AddElement
    <3> QED
      BY <1>1, <2>1, <3>1, <3>2, <3>3
  <2>3. CASE e.fill # f
    <3>1. Told(f)' = Told(f)
      BY <1>1, <2>3 DEF Told
    <3> QED
      BY <1>1, <2>1, <3>1
  <2> QED
    BY <2>2, <2>3
<1>5. (\A x \in outbox' : x.n <= emitted') /\ \A e1, e2 \in outbox' : e1.n = e2.n => e1 = e2
  BY <1>1 DEF EventInv
<1> QED
  BY <1>3, <1>4, <1>5 DEF EventInv

\* Every step keeps the outbox in step with the counts.
LEMMA StepEventInv == FillsInv /\ EventInv /\ [Next]_vars => EventInv'
<1> SUFFICES ASSUME FillsInv, EventInv, [Next]_vars PROVE EventInv'
  OBVIOUS
<1> USE DEF fillVars, ledgerVars
<1>1. TypeOK /\ counted \in [Fills -> Nat] /\ None \notin Fills
  BY AccountAssumption DEF FillsInv, TypeOK
<1>2. ASSUME UNCHANGED <<outbox, emitted, counted>> PROVE EventInv'
  BY <1>2 DEF EventInv, Told
<1>3. ASSUME NEW o \in OrderIds, CreateOrder(o) PROVE EventInv'
  <2>1. Emit("created", o, None) /\ counted' = counted
    BY <1>3 DEF CreateOrder
  <2>2. \A f \in Fills : counted'[f] = counted[f] + (IF f = None THEN 1 ELSE 0)
    BY <1>1, <2>1
  <2> QED
    BY <1>1, <2>1, <2>2, EmitTells
<1>4. ASSUME NEW o \in OrderIds, NEW s \in CallerStatus, UpdateOrder(o, s) PROVE EventInv'
  <2>1. Emit(s, o, None) /\ counted' = counted /\ s \in Status
    BY <1>4 DEF UpdateOrder, Status
  <2>2. \A f \in Fills : counted'[f] = counted[f] + (IF f = None THEN 1 ELSE 0)
    BY <1>1, <2>1
  <2> QED
    BY <1>1, <2>1, <2>2, EmitTells
<1>5. ASSUME NEW f \in Fills, RecordCounted(f) PROVE EventInv'
  <2>1. /\ Emit("filled", f.order, f) /\ counted' = [counted EXCEPT ![f] = @ + 1]
        /\ "filled" \in Status /\ f.order \in OrderIds
    BY <1>5, FillsAssumption DEF RecordCounted, Status
  <2>2. \A g \in Fills : counted'[g] = counted[g] + (IF g = f THEN 1 ELSE 0)
    BY <1>1, <2>1
  <2> QED
    BY <1>1, <2>1, <2>2, EmitTells
<1>6. ASSUME NEW e \in outbox, MarkPublished(e) PROVE EventInv'
  BY <1>1, <1>6, PublishTells
<1>7. ASSUME NEW a \in Accounts, CreateAccount(a) PROVE EventInv'
  BY <1>2, <1>7 DEF CreateAccount
<1>8. ASSUME NEW f \in Fills, RecordDuplicate(f) \/ RecordOrphan(f) \/ RecordOverfill(f)
      PROVE  EventInv'
  BY <1>2, <1>8 DEF RecordDuplicate, RecordOrphan, RecordOverfill
<1>9. CASE UNCHANGED vars
  BY <1>2, <1>9 DEF vars
<1> QED
  BY <1>3, <1>4, <1>5, <1>6, <1>7, <1>8, <1>9 DEF Next, RecordFill

\* The outbox tells of every counted fill exactly once, also when the ledger
\* raised after it (core/oms.py:267-280).
THEOREM EventsTellOfFills == Spec => []EventsMatchFills
<1>1. EventInv => EventsMatchFills
  BY DEF EventInv, Told, EventsMatchFills
<1> QED
  BY <1>1, InitFillsInv, StepFillsInv, InitEventInv, StepEventInv, PTL DEF Spec
=============================================================================
